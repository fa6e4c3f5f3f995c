-------------------------------- MODULE Cube --------------------------------
(***************************************************************************)
(* The cube of the about page (cube.js, cubelet.js, twist.js, rotation.js) *)
(* and what a committed drag makes of it (the end of onPointerUp and       *)
(* committedInteraction): 27 cubelets, each with a position and a colour   *)
(* per direction.  A direction is named by its normal vector, an address   *)
(* by the position it stands for.                                          *)
(***************************************************************************)
EXTENDS Integers, FiniteSets

CONSTANTS
    Amounts,            \* shuffle(amount): what the callers ask, 5 on load
    MaxDrags,           \* bound: drags after the shuffle
    DragsAfter,         \* bound: drags only where the shuffle is of at most this amount
    MaxQuarterTurns     \* bound: quarter turns of one drag, either way

ASSUME CubeAssumption ==
    /\ Amounts \subseteq Nat
    /\ MaxDrags \in Nat
    /\ DragsAfter \in Nat
    /\ MaxQuarterTurns \in Nat

Coord == {-1, 0, 1}
Axis == {"x", "y", "z"}
Sign == {-1, 1}
Position == [x : Coord, y : Coord, z : Coord]
Vec(x, y, z) == [x |-> x, y |-> y, z |-> z]

Front == Vec(0, 0, 1)
Direction == {Front, Vec(0, 1, 0), Vec(1, 0, 0), Vec(0, -1, 0), Vec(-1, 0, 0), Vec(0, 0, -1)}
Color == {"none", "white", "orange", "blue", "red", "green", "yellow"}

Id == 0..26

VARIABLES
    cubelets,   \* each cubelet's position and faces
    lastInverse,\* shuffle(): the command that would undo the last one, or none
    amount,     \* the twists asked of the shuffle
    shuffled,   \* twists of the shuffle so far
    drags,      \* drags committed so far
    drag        \* the last committed drag: what was asked, what came of it

vars == <<cubelets, lastInverse, amount, shuffled, drags, drag>>

----------------------------------------------------------------------------
(* rotation.js *)

RotateQuarter(v, axis, sign) ==
    CASE axis = "x" -> Vec(v.x, sign * v.z, -sign * v.y)
      [] axis = "y" -> Vec(-sign * v.z, v.y, sign * v.x)
      [] axis = "z" -> Vec(sign * v.y, -sign * v.x, v.z)

RotateSteps(v, axis, sign, steps) ==
    LET n == steps % 4
        once == RotateQuarter(v, axis, sign)
        twice == RotateQuarter(once, axis, sign)
    IN CASE n = 0 -> v
         [] n = 1 -> once
         [] n = 2 -> twice
         [] n = 3 -> RotateQuarter(twice, axis, sign)

----------------------------------------------------------------------------
(* Commands *)

\* Each letter's axis, its intrinsic sign and the layers it turns.  A command
\* is a letter and its case: vector 1 for upper, -1 for lower.
Letter == {"R", "L", "M", "U", "D", "E", "F", "B", "S", "X", "Y", "Z"}
Command == [letter : Letter, vector : Sign]

AxisOf(letter) ==
    CASE letter \in {"R", "L", "M", "X"} -> "x"
      [] letter \in {"U", "D", "E", "Y"} -> "y"
      [] letter \in {"F", "B", "S", "Z"} -> "z"

SignOf(letter) == IF letter \in {"L", "M", "D", "B"} THEN -1 ELSE 1

Layers(letter) ==
    CASE letter \in {"R", "U", "F"} -> {1}
      [] letter \in {"L", "D", "B"} -> {-1}
      [] letter \in {"M", "E", "S"} -> {0}
      [] letter \in {"X", "Y", "Z"} -> Coord

Flip(command) == [command EXCEPT !.vector = -@]

\* new Twist(command, degrees): negative degrees turn the command round.
Twist(command, turns) ==
    IF turns < 0 THEN [command |-> Flip(command), turns |-> -turns]
                 ELSE [command |-> command, turns |-> turns]

EffectiveSign(t) == SignOf(t.command.letter) * t.command.vector

\* Cube.twist(): all positions are computed before any is assigned; the face
\* that showed in direction d shows in the direction d turns to.
Turned(cube, t) ==
    LET letter == t.command.letter
        axis == AxisOf(letter)
        Spin(v) == RotateSteps(v, axis, EffectiveSign(t), t.turns)
        from == [e \in Direction |-> CHOOSE d \in Direction : Spin(d) = e]
    IN [id \in Id |->
          IF cube[id].at[axis] \in Layers(letter)
            THEN [at |-> Spin(cube[id].at),
                  faces |-> [e \in Direction |-> cube[id].faces[from[e]]]]
            ELSE cube[id]]

\* A position on the side that faces d.
OnSide(p, d) == \A axis \in Axis : d[axis] # 0 => p[axis] = d[axis]

\* Slip: one side of a single colour is enough.
IsSolvedSome(cube) ==
    \E d \in Direction :
        Cardinality({cube[id].faces[d] : id \in {i \in Id : OnSide(cube[i].at, d)}}) = 1

\* isSolved(): every side shows one colour.
IsSolved(cube) ==
    \A d \in Direction :
        Cardinality({cube[id].faces[d] : id \in {i \in Id : OnSide(cube[i].at, d)}}) = 1

----------------------------------------------------------------------------
(* The cube as constructed *)

\* Slip: the row is not taken within the slice.
AddressToPositionUnfolded(a) == Vec((a % 3) - 1, 1 - (a \div 3), 1 - (a \div 9))

AddressToPosition(a) == Vec((a % 3) - 1, 1 - ((a % 9) \div 3), 1 - (a \div 9))

Palette(d) ==
    CASE d = Front -> "white"
      [] d = Vec(0, 1, 0) -> "orange"
      [] d = Vec(1, 0, 0) -> "blue"
      [] d = Vec(0, -1, 0) -> "red"
      [] d = Vec(-1, 0, 0) -> "green"
      [] d = Vec(0, 0, -1) -> "yellow"

\* A cubelet shows a colour on the sides it lies on.
SolvedFaces(p) ==
    [d \in Direction |->
        IF OnSide(p, d) THEN Palette(d) ELSE "none"]

SolvedCube == [id \in Id |-> [at |-> AddressToPosition(id),
                              faces |-> SolvedFaces(AddressToPosition(id))]]

LogoId == 4
None == [letter |-> "none"]

CubeInit ==
    /\ cubelets = SolvedCube
    /\ lastInverse = None
    /\ amount \in Amounts
    /\ shuffled = 0
    /\ drags = 0
    /\ drag = None

----------------------------------------------------------------------------
(* shuffle() *)

ShuffleLetter == {"R", "L", "U", "D", "S", "B"}

\* Slip: any of the twelve letters.
ShuffleAny ==
    /\ shuffled < amount
    /\ \E command \in Command \ {lastInverse} :
         /\ lastInverse' = Flip(command)
         /\ cubelets' = Turned(cubelets, Twist(command, 1))
    /\ shuffled' = shuffled + 1
    /\ UNCHANGED <<amount, drags, drag>>

\* One twist of shuffle(), drawn again while it would undo the last one.
Shuffle ==
    /\ shuffled < amount
    /\ \E command \in [letter : ShuffleLetter, vector : Sign] \ {lastInverse} :
         /\ lastInverse' = Flip(command)
         /\ cubelets' = Turned(cubelets, Twist(command, 1))
    /\ shuffled' = shuffled + 1
    /\ UNCHANGED <<amount, drags, drag>>

----------------------------------------------------------------------------
(* A committed drag *)

\* Slip: three quarter turns are recorded as one in the same direction.
SignedQuarterTurnsPlain(command, n) ==
    IF n = 2 THEN 2 ELSE command.vector

SignedQuarterTurns(command, n) ==
    IF n = 2 THEN 2 ELSE command.vector * (IF n = 3 THEN -1 ELSE 1)

\* committedInteraction(), without the gesture's timing: null when the turns
\* come full circle.
Interaction(command, quarterTurns) ==
    IF quarterTurns % 4 = 0
      THEN None
      ELSE [letter |-> command.letter,
            signedQuarterTurns |-> SignedQuarterTurns(command, quarterTurns % 4)]

AbsOf(n) == IF n < 0 THEN -n ELSE n

\* The preview angle is a multiple of the axis's own direction; the command is
\* written in the case that turns this layer that way.
CommandFor(letter, quarterTurns) ==
    [letter |-> letter,
     vector |-> IF (quarterTurns > 0) = (SignOf(letter) = 1) THEN 1 ELSE -1]

\* The layer of a letter (beside the cube, all of them) is turned by so many
\* quarter turns about its axis.
Commit(letter, q) ==
    LET command == CommandFor(letter, q)
        t == Twist(command, AbsOf(q))
    IN /\ drag' = [previewed |-> q,
                   settled |-> EffectiveSign(t) * t.turns,
                   record |-> Interaction(command, AbsOf(q))]
       /\ cubelets' = Turned(cubelets, t)

\* A drag pressed before the scramble may end before, amid or after it.
CommitDrag ==
    /\ amount <= DragsAfter
    /\ drags < MaxDrags
    /\ \E letter \in Letter, q \in (-MaxQuarterTurns..MaxQuarterTurns) \ {0} : Commit(letter, q)
    /\ drags' = drags + 1
    /\ UNCHANGED <<lastInverse, amount, shuffled>>

CubeNext == Shuffle \/ CommitDrag

CubeSpec == CubeInit /\ [][CubeNext]_vars

----------------------------------------------------------------------------
(* Properties *)

Record == {None} \cup [letter : Letter, signedQuarterTurns : {-1, 1, 2}]

\* Every variable has its type: in particular no turn takes a cubelet out of
\* the 3x3x3 grid or leaves it a side without a face.
CubeTypeOK ==
    /\ cubelets \in [Id -> [at : Position, faces : [Direction -> Color]]]
    /\ lastInverse \in Command \cup {None}
    /\ amount \in Nat
    /\ shuffled \in 0..amount
    /\ drags \in Nat
    /\ drag \in {None} \cup [previewed : Int, settled : Int, record : Record]

\* No two cubelets share an address, so byAddress has a cubelet in each of its
\* 27 places after any sequence of twists.
AddressesDistinct ==
    \A i, j \in Id : cubelets[i].at = cubelets[j].at => i = j

\* The scramble neither moves nor turns the front centre, which carries the
\* logo (SHUFFLE_COMMANDS).
LogoStays ==
    drags = 0 => cubelets[LogoId] = SolvedCube[LogoId]

\* The scramble of the page, an odd number of twists, never hands the visitor a
\* solved cube (shuffle() "still presenting a visible start state", main.js:49):
\* twists that do not undo each other one by one can undo each other together,
\* and after four of them the cube may be solved.  A drag begun before it may
\* still turn the cube amid it, and of that cube this says nothing.
ScrambleIsVisible ==
    shuffled % 2 = 1 /\ drags = 0 => ~IsSolved(cubelets)

\* The six ways to choose the front side, and four turns about it: the solved
\* cube seen from every side.
Orientations ==
    LET Turn(cube, letter, n) == Turned(cube, Twist([letter |-> letter, vector |-> 1], n))
        fronts == {Turn(SolvedCube, "X", n) : n \in 0..3}
                    \cup {Turn(SolvedCube, "Y", n) : n \in {1, 3}}
    IN {Turn(front, "Z", n) : front \in fronts, n \in 0..3}

\* isSolved() looks at colours only, yet finds exactly the solved cube, in any
\* orientation: no other arrangement raises the solved event.
SolvedIsSolved ==
    IsSolved(cubelets) <=> cubelets \in Orientations

\* The settle animation ends at the angle the preview was dragged to: the two
\* are computed apart, and the sign of a letter is not that of its axis.
SettlesWherePreviewed ==
    drag # None => drag.settled = drag.previewed

\* The record of a drag, replayed on the cube as it was, gives the cube as it
\* is; a drag without a record changed nothing.
RecordReplays ==
    [][drags' # drags =>
         cubelets' = IF drag'.record = None
                       THEN cubelets
                       ELSE Turned(cubelets,
                                   Twist([letter |-> drag'.record.letter, vector |-> 1],
                                         drag'.record.signedQuarterTurns))]_vars

=============================================================================
