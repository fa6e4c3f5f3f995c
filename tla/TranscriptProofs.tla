-------------------------- MODULE TranscriptProofs --------------------------
(***************************************************************************)
(* What holds of the cube after any scramble and any drags, proved: turns  *)
(* are permutations of the 27 positions, the scramble leaves the logo      *)
(* where it was, what a drag previews, commits and records agree, and      *)
(* isSolved(), which looks at colours, finds the solved cube and no other. *)
(* An odd number of scramble twists can look solved only as a cube turned  *)
(* about its front, and one of at most five never does.                    *)
(*                                                                         *)
(* Then what the bytes of transcript-digest.js determine: a record can be  *)
(* read back from its twelve bytes and the cube from its 216; the two      *)
(* kinds of message are never the same bytes, and a message determines the *)
(* digest and the record, or the salt and the cube, it was made of.  With  *)
(* a hash that does not collide, a digest stands for one session.          *)
(***************************************************************************)
EXTENDS Transcript, SequenceTheorems, FiniteSetTheorems, TLAPS

----------------------------------------------------------------------------
(* rotation.js *)

\* A quarter turn stays in the grid, keeps the coordinate along its axis, and
\* the quarter turn the other way takes it back.
LEMMA QuarterTurn ==
    ASSUME NEW v \in Position, NEW axis \in Axis, NEW sign \in Sign
    PROVE  /\ RotateQuarter(v, axis, sign) \in Position
           /\ RotateQuarter(v, axis, sign)[axis] = v[axis]
           /\ RotateQuarter(RotateQuarter(v, axis, sign), axis, -sign) = v
<1>1. CASE axis = "x"
  BY <1>1 DEF RotateQuarter, Position, Vec, Axis, Sign, Coord
<1>2. CASE axis = "y"
  BY <1>2 DEF RotateQuarter, Position, Vec, Axis, Sign, Coord
<1>3. CASE axis = "z"
  BY <1>3 DEF RotateQuarter, Position, Vec, Axis, Sign, Coord
<1> QED
  BY <1>1, <1>2, <1>3 DEF Axis

\* Addresses are a numbering of the grid.
LEMMA AddressToPositionInjective ==
    /\ \A a \in Id : AddressToPosition(a) \in Position
    /\ \A a, b \in Id : AddressToPosition(a) = AddressToPosition(b) => a = b
  BY DEF AddressToPosition, Position, Vec, Coord, Id

\* Directions are positions of the grid, and a quarter turn permutes them.
LEMMA QuarterTurnOfDirection ==
    ASSUME NEW d \in Direction, NEW axis \in Axis, NEW sign \in Sign
    PROVE  RotateQuarter(d, axis, sign) \in Direction
<1>1. CASE axis = "x"
  BY <1>1 DEF RotateQuarter, Direction, Front, Vec, Sign
<1>2. CASE axis = "y"
  BY <1>2 DEF RotateQuarter, Direction, Front, Vec, Sign
<1>3. CASE axis = "z"
  BY <1>3 DEF RotateQuarter, Direction, Front, Vec, Sign
<1> QED
  BY <1>1, <1>2, <1>3 DEF Axis

LEMMA DirectionsArePositions == Direction \subseteq Position
  BY DEF Direction, Front, Vec, Position, Coord

\* Four quarter turns are none, so three are one the other way.
LEMMA FourQuarterTurns ==
    ASSUME NEW v \in Position, NEW axis \in Axis, NEW sign \in Sign
    PROVE  LET Q(w) == RotateQuarter(w, axis, sign)
           IN  /\ Q(Q(v)) = RotateQuarter(RotateQuarter(v, axis, -sign), axis, -sign)
               /\ Q(Q(Q(v))) = RotateQuarter(v, axis, -sign)
<1>1. CASE axis = "x"
  BY <1>1 DEF RotateQuarter, Position, Vec, Sign, Coord
<1>2. CASE axis = "y"
  BY <1>2 DEF RotateQuarter, Position, Vec, Sign, Coord
<1>3. CASE axis = "z"
  BY <1>3 DEF RotateQuarter, Position, Vec, Sign, Coord
<1> QED
  BY <1>1, <1>2, <1>3 DEF Axis

\* So it is with any number of quarter turns.
LEMMA Steps ==
    ASSUME NEW v \in Position, NEW axis \in Axis, NEW sign \in Sign, NEW n \in Nat
    PROVE  /\ RotateSteps(v, axis, sign, n) \in Position
           /\ RotateSteps(v, axis, sign, n)[axis] = v[axis]
           /\ RotateSteps(RotateSteps(v, axis, sign, n), axis, -sign, n) = v
           /\ v \in Direction => RotateSteps(v, axis, sign, n) \in Direction
<1> DEFINE Q(w) == RotateQuarter(w, axis, sign)
           R(w) == RotateQuarter(w, axis, -sign)
<1>1. -sign \in Sign
  BY DEF Sign
<1>2. /\ Q(v) \in Position /\ Q(v)[axis] = v[axis] /\ R(Q(v)) = v
      /\ Q(Q(v)) \in Position /\ Q(Q(v))[axis] = v[axis] /\ R(Q(Q(v))) = Q(v)
      /\ Q(Q(Q(v))) \in Position /\ Q(Q(Q(v)))[axis] = v[axis] /\ R(Q(Q(Q(v)))) = Q(Q(v))
  BY QuarterTurn
<1>3. v \in Direction =>
        Q(v) \in Direction /\ Q(Q(v)) \in Direction /\ Q(Q(Q(v))) \in Direction
  BY QuarterTurnOfDirection
<1>4. n % 4 \in {0, 1, 2, 3}
  OBVIOUS
<1> HIDE DEF Q, R
<1>5. CASE n % 4 = 0
  BY <1>5 DEF RotateSteps
<1>6. CASE n % 4 = 1
  BY <1>2, <1>3, <1>6 DEF RotateSteps, Q, R
<1>7. CASE n % 4 = 2
  BY <1>2, <1>3, <1>7 DEF RotateSteps, Q, R
<1>8. CASE n % 4 = 3
  BY <1>2, <1>3, <1>8 DEF RotateSteps, Q, R
<1> QED
  BY <1>4, <1>5, <1>6, <1>7, <1>8

----------------------------------------------------------------------------
(* Cube.twist() *)

Cubes == [Id -> [at : Position, faces : [Direction -> Color]]]
Twists == [command : Command, turns : Nat]

Spin(t, v) == RotateSteps(v, AxisOf(t.command.letter), EffectiveSign(t), t.turns)

\* The direction that turns to e.
From(t) == [e \in Direction |-> CHOOSE d \in Direction : Spin(t, d) = e]

LEMMA AxisOfType == \A letter \in Letter : AxisOf(letter) \in Axis
  BY DEF AxisOf, Letter, Axis

LEMMA EffectiveSignType == \A t \in Twists : EffectiveSign(t) \in Sign
  BY DEF EffectiveSign, Twists, Command, SignOf, Sign

\* A twist turns the grid into itself, one to one, within the layers.
LEMMA SpinPermutes ==
    ASSUME NEW t \in Twists
    PROVE  /\ \A v \in Position : /\ Spin(t, v) \in Position
                                 /\ Spin(t, v)[AxisOf(t.command.letter)] = v[AxisOf(t.command.letter)]
           /\ \A v, w \in Position : Spin(t, v) = Spin(t, w) => v = w
           /\ \A d \in Direction : Spin(t, d) \in Direction
<1> DEFINE axis == AxisOf(t.command.letter)
           sign == EffectiveSign(t)
<1>1. axis \in Axis /\ sign \in Sign /\ t.turns \in Nat
  BY AxisOfType, EffectiveSignType DEF Twists, Command
<1>2. \A v \in Position : Spin(t, v) = RotateSteps(v, axis, sign, t.turns)
  BY DEF Spin
<1> HIDE DEF axis, sign
<1>3. \A v \in Position :
        /\ RotateSteps(v, axis, sign, t.turns) \in Position
        /\ RotateSteps(v, axis, sign, t.turns)[axis] = v[axis]
        /\ RotateSteps(RotateSteps(v, axis, sign, t.turns), axis, -sign, t.turns) = v
        /\ v \in Direction => RotateSteps(v, axis, sign, t.turns) \in Direction
  BY <1>1, Steps
<1>4. \A v \in Position : /\ Spin(t, v) \in Position
                          /\ Spin(t, v)[axis] = v[axis]
  BY <1>2, <1>3
<1>5. \A v, w \in Position : Spin(t, v) = Spin(t, w) => v = w
  BY <1>2, <1>3
<1>6. \A d \in Direction : Spin(t, d) \in Direction
  BY <1>2, <1>3, DirectionsArePositions
<1> QED
  BY <1>4, <1>5, <1>6 DEF axis

\* Every direction is turned to from exactly one.
LEMMA FromIsInverse ==
    ASSUME NEW t \in Twists, NEW e \in Direction
    PROVE  From(t)[e] \in Direction /\ Spin(t, From(t)[e]) = e
<1> DEFINE axis == AxisOf(t.command.letter)
           sign == EffectiveSign(t)
           d == RotateSteps(e, axis, -sign, t.turns)
<1>1. axis \in Axis /\ sign \in Sign /\ -sign \in Sign /\ -(-sign) = sign /\ t.turns \in Nat
  BY AxisOfType, EffectiveSignType DEF Twists, Command, Sign
<1>2. d \in Direction /\ RotateSteps(d, axis, -(-sign), t.turns) = e
  <2> HIDE DEF axis, sign
  <2> QED
    BY <1>1, Steps, DirectionsArePositions
<1>3. Spin(t, d) = e
  BY <1>1, <1>2 DEF Spin
<1>4. \E c \in Direction : Spin(t, c) = e
  BY <1>2, <1>3
<1> QED
  BY <1>4 DEF From

LEMMA TurnedDef ==
    ASSUME NEW cube, NEW t
    PROVE  Turned(cube, t) =
             [id \in Id |->
                IF cube[id].at[AxisOf(t.command.letter)] \in Layers(t.command.letter)
                  THEN [at |-> Spin(t, cube[id].at),
                        faces |-> [e \in Direction |-> cube[id].faces[From(t)[e]]]]
                  ELSE cube[id]]
  BY DEF Turned, Spin, From

\* A twist keeps every cubelet in the grid, with a face on every side.
LEMMA TurnedType ==
    ASSUME NEW cube \in Cubes, NEW t \in Twists
    PROVE  Turned(cube, t) \in Cubes
<1> SUFFICES ASSUME NEW id \in Id
             PROVE  /\ Spin(t, cube[id].at) \in Position
                    /\ [e \in Direction |-> cube[id].faces[From(t)[e]]] \in [Direction -> Color]
  BY TurnedDef DEF Cubes
<1>1. cube[id].at \in Position /\ cube[id].faces \in [Direction -> Color]
  BY DEF Cubes
<1>2. \A e \in Direction : From(t)[e] \in Direction
  BY FromIsInverse
<1> QED
  BY <1>1, <1>2, SpinPermutes

Distinct(cube) == \A i, j \in Id : cube[i].at = cube[j].at => i = j

\* A twist brings no two cubelets to one place: those of its layers are
\* permuted within the layers, the others stay out of them.
LEMMA TurnedDistinct ==
    ASSUME NEW cube \in Cubes, NEW t \in Twists, Distinct(cube)
    PROVE  Distinct(Turned(cube, t))
<1> DEFINE axis == AxisOf(t.command.letter)
           In(id) == cube[id].at[axis] \in Layers(t.command.letter)
           turned == Turned(cube, t)
<1>1. \A id \in Id : turned[id].at = IF In(id) THEN Spin(t, cube[id].at) ELSE cube[id].at
  BY TurnedDef DEF Cubes
<1>2. \A id \in Id : cube[id].at \in Position
  BY DEF Cubes
<1>3. \A id \in Id : turned[id].at[axis] = cube[id].at[axis]
  BY <1>1, <1>2, SpinPermutes
<1> SUFFICES ASSUME NEW i \in Id, NEW j \in Id, turned[i].at = turned[j].at
             PROVE  i = j
  BY DEF Distinct
<1>4. In(i) <=> In(j)
  BY <1>3
<1>5. cube[i].at = cube[j].at
  <2> HIDE DEF In, turned
  <2>1. CASE In(i)
    BY <2>1, <1>1, <1>2, <1>4, SpinPermutes
  <2>2. CASE ~In(i)
    BY <2>2, <1>1, <1>4
  <2> QED
    BY <2>1, <2>2
<1> QED
  BY <1>5 DEF Distinct

----------------------------------------------------------------------------
(* What is twisted *)

LEMMA TwistType ==
    ASSUME NEW command \in Command, NEW n \in Int
    PROVE  Twist(command, n) \in Twists
  BY DEF Twist, Twists, Command, Flip, Sign

LEMMA CommandForType ==
    ASSUME NEW letter \in Letter, NEW q \in Int
    PROVE  CommandFor(letter, q) \in Command
  BY DEF CommandFor, Command, Sign

\* The drag CommitDrag commits.
Dragged(letter, q) == Twist(CommandFor(letter, q), AbsOf(q))

LEMMA DraggedType ==
    ASSUME NEW letter \in Letter, NEW q \in Int
    PROVE  Dragged(letter, q) \in Twists
<1>1. AbsOf(q) \in Int
  BY DEF AbsOf
<1> QED
  BY <1>1, CommandForType, TwistType DEF Dragged

\* It turns the way the preview did, and as far.
LEMMA DraggedSettles ==
    ASSUME NEW letter \in Letter, NEW q \in Int \ {0}
    PROVE  EffectiveSign(Dragged(letter, q)) * Dragged(letter, q).turns = q
<1>1. SignOf(letter) \in {-1, 1}
  BY DEF SignOf
<1>2. CASE q > 0
  BY <1>1, <1>2 DEF EffectiveSign, Dragged, Twist, CommandFor, AbsOf
<1>3. CASE q < 0
  BY <1>1, <1>3 DEF EffectiveSign, Dragged, Twist, CommandFor, AbsOf
<1> QED
  BY <1>2, <1>3

LEMMA SolvedCubeType == SolvedCube \in Cubes
<1>1. \A d \in Direction : Palette(d) \in Color
  BY DEF Palette, Direction, Front, Vec, Color
<1>2. \A p : SolvedFaces(p) \in [Direction -> Color]
  BY <1>1 DEF SolvedFaces, Color
<1> QED
  BY <1>2, AddressToPositionInjective DEF SolvedCube, Cubes

LEMMA InteractionType ==
    ASSUME NEW letter \in Letter, NEW q \in Int
    PROVE  Interaction(CommandFor(letter, q), AbsOf(q)) \in Record
<1>1. AbsOf(q) % 4 \in {0, 1, 2, 3}
  BY DEF AbsOf
<1> QED
  BY <1>1 DEF Interaction, Record, SignedQuarterTurns, CommandFor

----------------------------------------------------------------------------
(* Invariants *)

\* No step takes the cube out of its type.
LEMMA CubeTypeKept ==
    ASSUME CubeTypeOK, [CubeNext]_vars
    PROVE  CubeTypeOK'
<1>0. cubelets \in Cubes /\ amount \in Nat /\ shuffled \in 0..amount /\ drags \in Nat
  BY DEF CubeTypeOK, Cubes
<1>1. CASE Shuffle
  <2>1. PICK command \in [letter : ShuffleLetter, vector : Sign] \ {lastInverse} :
           /\ cubelets' = Turned(cubelets, Twist(command, 1))
           /\ lastInverse' = Flip(command)
    BY <1>1 DEF Shuffle
  <2>2. command \in Command /\ Flip(command) \in Command
    BY <2>1 DEF Command, ShuffleLetter, Letter, Flip, Sign
  <2>3. cubelets' \in Cubes
    BY <1>0, <2>1, <2>2, TwistType, TurnedType
  <2>4. amount' \in Nat /\ shuffled' \in 0..amount' /\ drags' \in Nat /\ drag' = drag
    BY <1>0, <1>1 DEF Shuffle
  <2> QED
    BY <2>1, <2>2, <2>3, <2>4 DEF CubeTypeOK, Cubes
<1>2. CASE CommitDrag
  <2>1. PICK letter \in Letter, q \in (-MaxQuarterTurns..MaxQuarterTurns) \ {0} :
           /\ cubelets' = Turned(cubelets, Dragged(letter, q))
           /\ drag' = [previewed |-> q,
                       settled |-> EffectiveSign(Dragged(letter, q)) * Dragged(letter, q).turns,
                       record |-> Interaction(CommandFor(letter, q), AbsOf(q))]
    BY <1>2 DEF CommitDrag, Commit, Dragged
  <2>2. q \in Int \ {0}
    BY CubeAssumption
  <2>3. cubelets' \in Cubes
    BY <1>0, <2>1, <2>2, DraggedType, TurnedType
  <2>4. drag' \in [previewed : Int, settled : Int, record : Record]
    BY <2>1, <2>2, DraggedSettles, InteractionType
  <2>5. /\ amount' \in Nat /\ shuffled' \in 0..amount' /\ drags' \in Nat
        /\ lastInverse' = lastInverse
    BY <1>0, <1>2 DEF CommitDrag
  <2> QED
    BY <2>3, <2>4, <2>5 DEF CubeTypeOK, Cubes
<1>3. CASE UNCHANGED vars
  BY <1>3 DEF vars, CubeTypeOK
<1> QED
  BY <1>1, <1>2, <1>3 DEF CubeNext

\* No sequence of twists takes a cubelet out of the grid.
THEOREM CubeTypeCorrect == CubeSpec => []CubeTypeOK
<1>1. CubeInit => CubeTypeOK
  <2> SUFFICES ASSUME CubeInit
               PROVE  CubeTypeOK
    OBVIOUS
  <2>1. cubelets \in [Id -> [at : Position, faces : [Direction -> Color]]]
    BY SolvedCubeType DEF CubeInit, Cubes
  <2>2. amount \in Nat /\ shuffled \in 0..amount /\ drags \in Nat
    BY CubeAssumption DEF CubeInit
  <2> QED
    BY <2>1, <2>2 DEF CubeInit, CubeTypeOK
<1> QED
  BY <1>1, CubeTypeKept, PTL DEF CubeSpec

\* Every step twists the cube or leaves it.
LEMMA StepTurns ==
    ASSUME CubeTypeOK, [CubeNext]_vars
    PROVE  cubelets' = cubelets \/ \E t \in Twists : cubelets' = Turned(cubelets, t)
<1>1. CASE Shuffle
  <2>1. PICK command \in [letter : ShuffleLetter, vector : Sign] :
           cubelets' = Turned(cubelets, Twist(command, 1))
    BY <1>1 DEF Shuffle
  <2>2. command \in Command
    BY DEF Command, ShuffleLetter, Letter
  <2> QED
    BY <2>1, <2>2, TwistType
<1>2. CASE CommitDrag
  <2>1. PICK letter \in Letter, q \in Int : cubelets' = Turned(cubelets, Dragged(letter, q))
    BY <1>2, CubeAssumption DEF CommitDrag, Commit, Dragged
  <2> QED
    BY <2>1, DraggedType
<1> QED
  BY <1>1, <1>2 DEF CubeNext, vars

\* byAddress has a cubelet in each of its 27 places, whatever was twisted.
THEOREM CubeAddressesDistinct == CubeSpec => []AddressesDistinct
<1>1. CubeInit => AddressesDistinct
  BY AddressToPositionInjective DEF CubeInit, AddressesDistinct, SolvedCube
<1>2. CubeTypeOK /\ AddressesDistinct /\ [CubeNext]_vars => AddressesDistinct'
  <2> SUFFICES ASSUME CubeTypeOK, AddressesDistinct, [CubeNext]_vars
               PROVE  AddressesDistinct'
    OBVIOUS
  <2>1. cubelets \in Cubes /\ Distinct(cubelets)
    BY DEF CubeTypeOK, Cubes, AddressesDistinct, Distinct
  <2>2. Distinct(cubelets')
    BY <2>1, StepTurns, TurnedDistinct
  <2> QED
    BY <2>2 DEF AddressesDistinct, Distinct
<1> QED
  BY <1>1, <1>2, CubeTypeCorrect, PTL DEF CubeSpec

\* The scramble leaves the logo on the front, whatever it draws.  It is an
\* invariant by itself: the layers of the letters it uses do not contain (0, 0, 1).
THEOREM CubeLogoStays == CubeSpec => []LogoStays
<1>1. CubeInit => LogoStays
  BY DEF CubeInit, LogoStays
<1>2. LogoStays /\ [CubeNext]_vars /\ CubeTypeOK => LogoStays'
  <2> SUFFICES ASSUME LogoStays, [CubeNext]_vars, CubeTypeOK, drags' = 0
               PROVE  cubelets'[LogoId] = SolvedCube[LogoId]
    BY DEF LogoStays
  <2>0. LogoId \in Id /\ SolvedCube[LogoId].at = Vec(0, 0, 1)
    BY DEF SolvedCube, LogoId, Id, AddressToPosition, Vec
  <2>1. CASE Shuffle
    <3>1. drags = 0 /\ cubelets[LogoId] = SolvedCube[LogoId]
      BY <2>1 DEF Shuffle, LogoStays
    <3>2. PICK command \in [letter : ShuffleLetter, vector : Sign] :
             cubelets' = Turned(cubelets, Twist(command, 1))
      BY <2>1 DEF Shuffle
    <3>3. Twist(command, 1).command.letter = command.letter /\ command.letter \in ShuffleLetter
      BY <3>2 DEF Twist
    <3>4. Vec(0, 0, 1)[AxisOf(command.letter)] \notin Layers(command.letter)
      BY <3>3 DEF ShuffleLetter, AxisOf, Layers, Vec
    <3> QED
      BY <2>0, <3>1, <3>2, <3>3, <3>4, TurnedDef
  <2>2. CASE CommitDrag
    BY <2>2 DEF CommitDrag, CubeTypeOK
  <2>3. CASE UNCHANGED vars
    BY <2>3 DEF vars, LogoStays
  <2> QED
    BY <2>1, <2>2, <2>3 DEF CubeNext
<1> QED
  BY <1>1, <1>2, CubeTypeCorrect, PTL DEF CubeSpec

\* However far a layer is dragged, the cube settles where the preview was.
THEOREM CubeSettlesWherePreviewed == CubeSpec => []SettlesWherePreviewed
<1>1. CubeInit => SettlesWherePreviewed
  BY DEF CubeInit, SettlesWherePreviewed
<1>2. SettlesWherePreviewed /\ [CubeNext]_vars => SettlesWherePreviewed'
  <2> SUFFICES ASSUME SettlesWherePreviewed, [CubeNext]_vars
               PROVE  SettlesWherePreviewed'
    OBVIOUS
  <2>1. CASE CommitDrag
    <3>1. PICK letter \in Letter, q \in Int \ {0} :
             drag' = [previewed |-> q,
                      settled |-> EffectiveSign(Dragged(letter, q)) * Dragged(letter, q).turns,
                      record |-> Interaction(CommandFor(letter, q), AbsOf(q))]
      BY <2>1, CubeAssumption DEF CommitDrag, Commit, Dragged
    <3> QED
      BY <3>1, DraggedSettles DEF SettlesWherePreviewed
  <2>2. CASE UNCHANGED drag
    BY <2>2 DEF SettlesWherePreviewed
  <2> QED
    BY <2>1, <2>2 DEF CubeNext, Shuffle, vars
<1> QED
  BY <1>1, <1>2, PTL DEF CubeSpec

----------------------------------------------------------------------------
(* The record of a drag *)

\* Two twists of the same letter that spin alike turn the cube alike.
LEMMA SameSpinSameTurn ==
    ASSUME NEW cube \in Cubes, NEW t \in Twists, NEW u \in Twists,
           t.command.letter = u.command.letter,
           \A v \in Position : Spin(t, v) = Spin(u, v)
    PROVE  Turned(cube, t) = Turned(cube, u)
<1>1. \A e \in Direction : From(t)[e] = From(u)[e]
  <2> SUFFICES ASSUME NEW e \in Direction
               PROVE  From(t)[e] = From(u)[e]
    OBVIOUS
  <2>1. /\ From(t)[e] \in Direction /\ Spin(t, From(t)[e]) = e
        /\ From(u)[e] \in Direction /\ Spin(u, From(u)[e]) = e
    BY FromIsInverse
  <2> QED
    BY <2>1, SpinPermutes, DirectionsArePositions
<1>2. \A id \in Id : cube[id].at \in Position
  BY DEF Cubes
<1>3. \A id \in Id :
        /\ Spin(t, cube[id].at) = Spin(u, cube[id].at)
        /\ [e \in Direction |-> cube[id].faces[From(t)[e]]]
             = [e \in Direction |-> cube[id].faces[From(u)[e]]]
  BY <1>1, <1>2
<1> QED
  BY <1>3, TurnedDef

\* Full circles turn nothing.
LEMMA FullCircle ==
    ASSUME NEW cube \in Cubes, NEW t \in Twists, t.turns % 4 = 0
    PROVE  Turned(cube, t) = cube
<1>1. \A v \in Position : Spin(t, v) = v
  BY DEF Spin, RotateSteps
<1>2. \A e \in Direction : From(t)[e] = e
  BY <1>1, FromIsInverse, DirectionsArePositions
<1>3. \A id \in Id : /\ cube[id] \in [at : Position, faces : [Direction -> Color]]
                     /\ Spin(t, cube[id].at) = cube[id].at
                     /\ [e \in Direction |-> cube[id].faces[From(t)[e]]] = cube[id].faces
  BY <1>1, <1>2 DEF Cubes
<1>4. \A id \in Id : [at |-> Spin(t, cube[id].at),
                     faces |-> [e \in Direction |-> cube[id].faces[From(t)[e]]]] = cube[id]
  BY <1>3
<1>5. cube = [id \in Id |-> cube[id]]
  BY DEF Cubes
<1> QED
  BY <1>4, <1>5, TurnedDef

Replay(letter, n) == Twist([letter |-> letter, vector |-> 1], n)

\* The recorded signed quarter turns spin the layer as the drag did.
LEMMA ReplaySpins ==
    ASSUME NEW letter \in Letter, NEW q \in Int, AbsOf(q) % 4 # 0,
           NEW v \in Position
    PROVE  LET n == SignedQuarterTurns(CommandFor(letter, q), AbsOf(q) % 4)
           IN  Spin(Dragged(letter, q), v) = Spin(Replay(letter, n), v)
<1> DEFINE sign == SignOf(letter)
           vector == CommandFor(letter, q).vector
           axis == AxisOf(letter)
           m == AbsOf(q)
           n == SignedQuarterTurns(CommandFor(letter, q), m % 4)
<1>1. sign \in Sign /\ vector \in Sign /\ axis \in Axis
  BY AxisOfType DEF SignOf, CommandFor, Sign
<1>2. m \in Nat /\ m % 4 \in {1, 2, 3}
  BY DEF AbsOf
<1>3. Dragged(letter, q) = [command |-> [letter |-> letter, vector |-> vector], turns |-> m]
  BY <1>2 DEF Dragged, Twist, CommandFor
<1>4. Spin(Dragged(letter, q), v) = RotateSteps(v, axis, sign * vector, m)
  BY <1>3 DEF Spin, EffectiveSign
<1>5. n = IF m % 4 = 2 THEN 2 ELSE vector * (IF m % 4 = 3 THEN -1 ELSE 1)
  BY DEF SignedQuarterTurns
<1>6. n \in Int /\
      Spin(Replay(letter, n), v) = IF n < 0 THEN RotateSteps(v, axis, -sign, -n)
                                            ELSE RotateSteps(v, axis, sign, n)
  <2>1. n \in Int
    BY <1>1, <1>5 DEF Sign
  <2>2. CASE n < 0
    <3>1. Replay(letter, n) = [command |-> [letter |-> letter, vector |-> -1], turns |-> -n]
      BY <2>2 DEF Replay, Twist, Flip
    <3> QED
      BY <2>1, <2>2, <3>1, <1>1 DEF Spin, EffectiveSign, Sign
  <2>3. CASE ~(n < 0)
    <3>1. Replay(letter, n) = [command |-> [letter |-> letter, vector |-> 1], turns |-> n]
      BY <2>3 DEF Replay, Twist
    <3> QED
      BY <2>1, <2>3, <3>1, <1>1 DEF Spin, EffectiveSign, Sign
  <2> QED
    BY <2>1, <2>2, <2>3
<1>7. \A s \in Sign :
        /\ -s \in Sign /\ -(-s) = s
        /\ RotateQuarter(RotateQuarter(v, axis, s), axis, s)
             = RotateQuarter(RotateQuarter(v, axis, -s), axis, -s)
        /\ RotateQuarter(RotateQuarter(RotateQuarter(v, axis, s), axis, s), axis, s)
             = RotateQuarter(v, axis, -s)
  BY <1>1, FourQuarterTurns DEF Sign
<1>8. sign * vector = IF vector = 1 THEN sign ELSE -sign
  BY <1>1 DEF Sign
<1> SUFFICES Spin(Dragged(letter, q), v) = Spin(Replay(letter, n), v)
  OBVIOUS
<1> HIDE DEF sign, vector, axis, m, n
<1>9. CASE m % 4 = 1
  BY <1>1, <1>4, <1>5, <1>6, <1>8, <1>9 DEF RotateSteps, Sign
<1>10. CASE m % 4 = 2
  BY <1>1, <1>4, <1>5, <1>6, <1>7, <1>8, <1>10 DEF RotateSteps, Sign
<1>11. CASE m % 4 = 3
  BY <1>1, <1>4, <1>5, <1>6, <1>7, <1>8, <1>11 DEF RotateSteps, Sign
<1> QED
  BY <1>2, <1>9, <1>10, <1>11

\* Whatever was scrambled and however far a layer is dragged, the record of the
\* drag replays it.
THEOREM CubeRecordReplays == CubeSpec => RecordReplays
<1> DEFINE Replayed ==
      drags' # drags =>
         cubelets' = IF drag'.record = None
                       THEN cubelets
                       ELSE Turned(cubelets,
                                   Twist([letter |-> drag'.record.letter, vector |-> 1],
                                         drag'.record.signedQuarterTurns))
<1>1. CubeTypeOK /\ [CubeNext]_vars => [Replayed]_vars
  <2> SUFFICES ASSUME CubeTypeOK, CommitDrag
               PROVE  Replayed
    BY DEF CubeNext, Shuffle
  <2>1. cubelets \in Cubes
    BY DEF CubeTypeOK, Cubes
  <2>2. PICK letter \in Letter, q \in Int :
           /\ cubelets' = Turned(cubelets, Dragged(letter, q))
           /\ drag' = [previewed |-> q,
                       settled |-> EffectiveSign(Dragged(letter, q)) * Dragged(letter, q).turns,
                       record |-> Interaction(CommandFor(letter, q), AbsOf(q))]
    BY CubeAssumption DEF CommitDrag, Commit, Dragged
  <2>3. /\ Dragged(letter, q) \in Twists
        /\ Dragged(letter, q).command.letter = letter
        /\ Dragged(letter, q).turns = AbsOf(q)
    BY DraggedType DEF Dragged, Twist, CommandFor, AbsOf
  <2>4. CASE AbsOf(q) % 4 = 0
    BY <2>1, <2>2, <2>3, <2>4, FullCircle DEF Interaction
  <2>5. CASE AbsOf(q) % 4 # 0
    <3> DEFINE n == SignedQuarterTurns(CommandFor(letter, q), AbsOf(q) % 4)
    <3>1. drag'.record = [letter |-> letter, signedQuarterTurns |-> n]
      BY <2>2, <2>5 DEF Interaction, CommandFor
    <3>2. drag'.record # None
      BY <3>1 DEF None, Letter
    <3>3. n \in Int /\ Replay(letter, n) \in Twists /\ Replay(letter, n).command.letter = letter
      <4>1. n \in Int
        BY DEF SignedQuarterTurns, CommandFor
      <4>2. [letter |-> letter, vector |-> 1] \in Command
        BY DEF Command, Sign
      <4> QED
        BY <4>1, <4>2, TwistType DEF Replay, Twist, Flip
    <3>4. \A v \in Position : Spin(Dragged(letter, q), v) = Spin(Replay(letter, n), v)
      BY <2>5, ReplaySpins
    <3>5. Turned(cubelets, Dragged(letter, q)) = Turned(cubelets, Replay(letter, n))
      <4> HIDE DEF n
      <4> QED
        BY <2>1, <2>3, <3>3, <3>4, SameSpinSameTurn
    <3> QED
      BY <2>2, <3>1, <3>2, <3>5 DEF Replay
  <2> QED
    BY <2>4, <2>5
<1> QED
  BY <1>1, CubeTypeCorrect, PTL DEF CubeSpec, RecordReplays

----------------------------------------------------------------------------
(* What isSolved() recognizes *)

\* The third axis of a right-handed frame.
ThirdOf(u, v) ==
    Vec(u.y * v.z - u.z * v.y, u.z * v.x - u.x * v.z, u.x * v.y - u.y * v.x)

\* A rotation of the whole cube, by the images of the three axes: where the
\* sides that face x, y and z have come to face.
Frame == {f \in [x : Direction, y : Direction, z : Direction] :
            /\ f.x.x * f.y.x + f.x.y * f.y.y + f.x.z * f.y.z = 0
            /\ f.z = ThirdOf(f.x, f.y)}

\* k times v, for a coordinate k.
Multiple(k, v) == IF k = 1 THEN v ELSE IF k = -1 THEN Vec(-v.x, -v.y, -v.z) ELSE Vec(0, 0, 0)

Plus(u, v, w) == Vec(u.x + v.x + w.x, u.y + v.y + w.y, u.z + v.z + w.z)

Image(f, v) == Plus(Multiple(v.x, f.x), Multiple(v.y, f.y), Multiple(v.z, f.z))

Vector == [x : Int, y : Int, z : Int]

LEMMA PositionsAreVectors == Direction \subseteq Vector /\ Position \subseteq Vector
  BY DEF Direction, Position, Front, Vec, Coord, Vector

\* A quarter turn is linear.
LEMMA QuarterTurnLinear ==
    ASSUME NEW axis \in Axis, NEW sign \in Sign, NEW k \in Coord,
           NEW u \in Vector, NEW v \in Vector, NEW w \in Vector
    PROVE  /\ RotateQuarter(Plus(u, v, w), axis, sign)
                = Plus(RotateQuarter(u, axis, sign), RotateQuarter(v, axis, sign),
                       RotateQuarter(w, axis, sign))
           /\ RotateQuarter(Multiple(k, v), axis, sign) = Multiple(k, RotateQuarter(v, axis, sign))
           /\ RotateQuarter(v, axis, sign) \in Vector
           /\ Multiple(k, v) \in Vector
<1>1. CASE axis = "x"
  BY <1>1 DEF RotateQuarter, Plus, Multiple, Vector, Vec, Sign, Coord
<1>2. CASE axis = "y"
  BY <1>2 DEF RotateQuarter, Plus, Multiple, Vector, Vec, Sign, Coord
<1>3. CASE axis = "z"
  BY <1>3 DEF RotateQuarter, Plus, Multiple, Vector, Vec, Sign, Coord
<1> QED
  BY <1>1, <1>2, <1>3 DEF Axis

\* The frame after a quarter turn of all of it.
Quartered(f, axis, sign) ==
    [x |-> RotateQuarter(f.x, axis, sign), y |-> RotateQuarter(f.y, axis, sign),
     z |-> RotateQuarter(f.z, axis, sign)]

LEMMA QuarteredImage ==
    ASSUME NEW f \in Frame, NEW axis \in Axis, NEW sign \in Sign, NEW v \in Position
    PROVE  Image(Quartered(f, axis, sign), v) = RotateQuarter(Image(f, v), axis, sign)
<1>1. f.x \in Vector /\ f.y \in Vector /\ f.z \in Vector
  BY PositionsAreVectors DEF Frame
<1>2. v.x \in Coord /\ v.y \in Coord /\ v.z \in Coord
  BY DEF Position
<1>3. /\ Multiple(v.x, f.x) \in Vector /\ Multiple(v.y, f.y) \in Vector
      /\ Multiple(v.z, f.z) \in Vector
  BY <1>1, <1>2, QuarterTurnLinear
<1>4. RotateQuarter(Image(f, v), axis, sign) =
        Plus(RotateQuarter(Multiple(v.x, f.x), axis, sign),
             RotateQuarter(Multiple(v.y, f.y), axis, sign),
             RotateQuarter(Multiple(v.z, f.z), axis, sign))
  BY <1>2, <1>3, QuarterTurnLinear DEF Image
<1>5. \A c \in Coord, w \in Vector :
        RotateQuarter(Multiple(c, w), axis, sign) = Multiple(c, RotateQuarter(w, axis, sign))
  BY QuarterTurnLinear
<1>6. RotateQuarter(Multiple(v.x, f.x), axis, sign) = Multiple(v.x, RotateQuarter(f.x, axis, sign))
  BY <1>1, <1>2, <1>5, Zenon
<1>7. RotateQuarter(Multiple(v.y, f.y), axis, sign) = Multiple(v.y, RotateQuarter(f.y, axis, sign))
  BY <1>1, <1>2, <1>5, Zenon
<1>8. RotateQuarter(Multiple(v.z, f.z), axis, sign) = Multiple(v.z, RotateQuarter(f.z, axis, sign))
  BY <1>1, <1>2, <1>5, Zenon
<1> QED
  BY <1>4, <1>6, <1>7, <1>8, Zenon DEF Image, Quartered

\* It keeps angles and handedness.
LEMMA QuarterTurnRigid ==
    ASSUME NEW u \in Direction, NEW v \in Direction, NEW axis \in Axis, NEW sign \in Sign
    PROVE  LET p == RotateQuarter(u, axis, sign)
               q == RotateQuarter(v, axis, sign)
           IN  /\ p.x * q.x + p.y * q.y + p.z * q.z = u.x * v.x + u.y * v.y + u.z * v.z
               /\ ThirdOf(p, q) = RotateQuarter(ThirdOf(u, v), axis, sign)
<1>1. /\ u \in Vector /\ v \in Vector
      /\ u.x \in Coord /\ u.y \in Coord /\ u.z \in Coord
  BY PositionsAreVectors, DirectionsArePositions DEF Position
<1>2. sign = 1 \/ sign = -1
  BY DEF Sign
<1>3. CASE axis = "x"
  <2>1. CASE sign = 1
    BY <1>1, <1>3, <2>1 DEF RotateQuarter, ThirdOf, Vector, Vec
  <2>2. CASE sign = -1
    BY <1>1, <1>3, <2>2 DEF RotateQuarter, ThirdOf, Vector, Vec
  <2> QED
    BY <1>2, <2>1, <2>2
<1>4. CASE axis = "y"
  <2>1. CASE sign = 1
    BY <1>1, <1>4, <2>1 DEF RotateQuarter, ThirdOf, Vector, Vec
  <2>2. CASE sign = -1
    BY <1>1, <1>4, <2>2 DEF RotateQuarter, ThirdOf, Vector, Vec
  <2> QED
    BY <1>2, <2>1, <2>2
<1>5. CASE axis = "z"
  <2>1. CASE sign = 1
    BY <1>1, <1>5, <2>1 DEF RotateQuarter, ThirdOf, Vector, Vec
  <2>2. CASE sign = -1
    BY <1>1, <1>5, <2>2 DEF RotateQuarter, ThirdOf, Vector, Vec
  <2> QED
    BY <1>2, <2>1, <2>2
<1> QED
  BY <1>3, <1>4, <1>5 DEF Axis

LEMMA QuarteredFrame ==
    ASSUME NEW f \in Frame, NEW axis \in Axis, NEW sign \in Sign
    PROVE  Quartered(f, axis, sign) \in Frame
<1>1. f.x \in Direction /\ f.y \in Direction /\ f.z \in Direction
  BY DEF Frame
<1>2. /\ RotateQuarter(f.x, axis, sign) \in Direction
      /\ RotateQuarter(f.y, axis, sign) \in Direction
      /\ RotateQuarter(f.z, axis, sign) \in Direction
  BY <1>1, QuarterTurnOfDirection
<1>3. /\ f.x.x * f.y.x + f.x.y * f.y.y + f.x.z * f.y.z = 0
      /\ f.z = ThirdOf(f.x, f.y)
  BY DEF Frame
<1> DEFINE g == Quartered(f, axis, sign)
<1>4. /\ g.x.x * g.y.x + g.x.y * g.y.y + g.x.z * g.y.z = 0
      /\ g.z = ThirdOf(g.x, g.y)
  BY <1>1, <1>3, QuarterTurnRigid DEF Quartered
<1>5. g \in [x : Direction, y : Direction, z : Direction]
  BY <1>2 DEF Quartered
<1> QED
  BY <1>4, <1>5 DEF Frame

\* What a frame does to a single coordinate.
LEMMA FrameAxes ==
    ASSUME NEW f \in Frame
    PROVE  /\ f.x \in Direction /\ f.y \in Direction /\ f.z \in Direction
           /\ f.z = ThirdOf(f.x, f.y) /\ f.x = ThirdOf(f.y, f.z) /\ f.y = ThirdOf(f.z, f.x)
           /\ f.x.x * f.y.x + f.x.y * f.y.y + f.x.z * f.y.z = 0
<1>1. /\ f.x \in Direction /\ f.y \in Direction /\ f.z \in Direction
      /\ f.z = ThirdOf(f.x, f.y)
      /\ f.x.x * f.y.x + f.x.y * f.y.y + f.x.z * f.y.z = 0
  BY DEF Frame
<1>2. f.x = ThirdOf(f.y, f.z) /\ f.y = ThirdOf(f.z, f.x)
  BY <1>1 DEF Direction, Front, Vec, ThirdOf
<1> QED
  BY <1>1, <1>2

LEMMA ImageInGrid ==
    ASSUME NEW f \in Frame, NEW v \in Position
    PROVE  Image(f, v) \in Position
<1>1. v.x \in Coord /\ v.y \in Coord /\ v.z \in Coord
  BY DEF Position
<1>2. f.x \in Direction /\ f.y \in Direction /\ f.z = ThirdOf(f.x, f.y)
      /\ f.x.x * f.y.x + f.x.y * f.y.y + f.x.z * f.y.z = 0
  BY FrameAxes
<1> QED
  BY <1>1, <1>2 DEF Image, Plus, Multiple, ThirdOf, Direction, Front, Vec, Coord, Position

\* A position on a side goes where the side goes.
LEMMA OnSideOfImage ==
    ASSUME NEW f \in Frame, NEW p \in Position, NEW d \in Direction
    PROVE  OnSide(Image(f, p), Image(f, d)) <=> OnSide(p, d)
<1>1. p.x \in Coord /\ p.y \in Coord /\ p.z \in Coord
  BY DEF Position
<1>2. f.x \in Direction /\ f.y \in Direction /\ f.z = ThirdOf(f.x, f.y)
      /\ f.x.x * f.y.x + f.x.y * f.y.y + f.x.z * f.y.z = 0
  BY FrameAxes
<1> QED
  BY <1>1, <1>2 DEF OnSide, Image, Plus, Multiple, ThirdOf, Direction, Front, Vec, Coord, Axis

\* Sides go to sides, one to one.
LEMMA ImageOfDirection ==
    ASSUME NEW f \in Frame, NEW d \in Direction
    PROVE  Image(f, d) \in Direction
<1>1. f.x \in Direction /\ f.y \in Direction /\ f.z \in Direction
  BY FrameAxes
<1> QED
  BY <1>1 DEF Image, Plus, Multiple, Direction, Front, Vec

LEMMA OneSideEach ==
    \A d, e \in Direction : OnSide(d, e) <=> d = e
  BY DEF OnSide, Direction, Front, Vec, Axis

LEMMA ImageInjective ==
    ASSUME NEW f \in Frame, NEW d \in Direction, NEW e \in Direction, Image(f, d) = Image(f, e)
    PROVE  d = e
<1>1. OnSide(Image(f, d), Image(f, e))
  BY OneSideEach, ImageOfDirection
<1>2. OnSide(d, e)
  BY <1>1, OnSideOfImage, DirectionsArePositions
<1> QED
  BY <1>2, OneSideEach

LEMMA ThreeAreFinite ==
    ASSUME NEW a, NEW b, NEW c
    PROVE  IsFiniteSet({a, b, c})
<1>1. \A S, v : IsFiniteSet(S) => IsFiniteSet(S \cup {v})
  BY FS_AddElement
<1>2. IsFiniteSet({a})
  BY FS_Singleton
<1>3. IsFiniteSet({a} \cup {b})
  BY <1>1, <1>2
<1>4. IsFiniteSet(({a} \cup {b}) \cup {c})
  BY <1>1, <1>3
<1>5. ({a} \cup {b}) \cup {c} = {a, b, c}
  OBVIOUS
<1> QED
  BY <1>4, <1>5

LEMMA SixSides == IsFiniteSet(Direction)
<1>1. Direction = {Front, Vec(0, 1, 0), Vec(1, 0, 0)}
                    \cup {Vec(0, -1, 0), Vec(-1, 0, 0), Vec(0, 0, -1)}
  BY DEF Direction
<1> QED
  BY <1>1, ThreeAreFinite, FS_Union

\* Whatever takes sides to sides one to one reaches every side.
LEMMA OntoSides ==
    ASSUME NEW g \in [Direction -> Direction],
           \A d, e \in Direction : g[d] = g[e] => d = e,
           NEW e \in Direction
    PROVE  \E d \in Direction : g[d] = e
<1>1. g \in Injection(Direction, Direction)
  BY DEF Injection, IsInjective
<1>2. g \in Surjection(Direction, Direction)
  BY <1>1, SixSides, FS_Injection
<1> QED
  BY <1>2 DEF Surjection

LEMMA ImageOnto ==
    ASSUME NEW f \in Frame, NEW e \in Direction
    PROVE  \E d \in Direction : Image(f, d) = e
<1> DEFINE g == [d \in Direction |-> Image(f, d)]
<1>1. g \in [Direction -> Direction]
  BY ImageOfDirection
<1>2. \A c, d \in Direction : g[c] = g[d] => c = d
  BY ImageInjective
<1> HIDE DEF g
<1>3. \E d \in Direction : g[d] = e
  BY <1>1, <1>2, OntoSides
<1> QED
  BY <1>3 DEF g

Home(id) == AddressToPosition(id)

\* Cubelet id, as made, turned by the rotation f and put where it takes it.
Shows(cubelet, id, f) ==
    /\ cubelet.at = Image(f, Home(id))
    /\ \A d \in Direction : cubelet.faces[Image(f, d)] = SolvedFaces(Home(id))[d]

\* Every cubelet of a twisted cube is a rotated one; each may have its own
\* rotation.
Rotated(cube) == \A id \in Id : \E f \in Frame : Shows(cube[id], id, f)

\* The frame after a twist of what is in it.
Spun(t, f) == [x |-> Spin(t, f.x), y |-> Spin(t, f.y), z |-> Spin(t, f.z)]

LEMMA SpunImage ==
    ASSUME NEW f \in Frame, NEW t \in Twists
    PROVE  /\ Spun(t, f) \in Frame
           /\ \A v \in Position : Image(Spun(t, f), v) = Spin(t, Image(f, v))
<1> DEFINE axis == AxisOf(t.command.letter)
           sign == EffectiveSign(t)
           n == t.turns % 4
           Q(g) == Quartered(g, axis, sign)
           R(v) == RotateQuarter(v, axis, sign)
<1>1. axis \in Axis /\ sign \in Sign /\ n \in {0, 1, 2, 3}
  BY AxisOfType, EffectiveSignType DEF Twists, Command
<1>2. \A v : Spin(t, v) = CASE n = 0 -> v [] n = 1 -> R(v) [] n = 2 -> R(R(v)) [] n = 3 -> R(R(R(v)))
  BY DEF Spin, RotateSteps
<1>3. \A g \in Frame : Q(g) \in Frame /\ \A v \in Position : Image(Q(g), v) = R(Image(g, v))
  BY <1>1, QuarteredFrame, QuarteredImage
<1>4. \A g : Q(g) = [x |-> R(g.x), y |-> R(g.y), z |-> R(g.z)]
  BY DEF Quartered
<1>5. f = [x |-> f.x, y |-> f.y, z |-> f.z]
  BY DEF Frame
<1> HIDE DEF axis, sign, n, Q, R
<1>6. CASE n = 0
  <2>1. Spun(t, f) = f /\ \A v : Spin(t, v) = v
    BY <1>2, <1>5, <1>6 DEF Spun
  <2> QED
    BY <2>1
<1>7. CASE n = 1
  <2>1. Spun(t, f) = Q(f) /\ \A v : Spin(t, v) = R(v)
    BY <1>2, <1>4, <1>7 DEF Spun
  <2> QED
    BY <1>3, <2>1
<1>8. CASE n = 2
  <2>1. Spun(t, f) = Q(Q(f)) /\ \A v : Spin(t, v) = R(R(v))
    BY <1>2, <1>4, <1>8 DEF Spun
  <2> QED
    BY <1>3, <2>1
<1>9. CASE n = 3
  <2>1. Spun(t, f) = Q(Q(Q(f))) /\ \A v : Spin(t, v) = R(R(R(v)))
    BY <1>2, <1>4, <1>9 DEF Spun
  <2> QED
    BY <1>3, <2>1
<1> QED
  BY <1>1, <1>6, <1>7, <1>8, <1>9

\* A cubelet that is turned shows the turned rotation.
LEMMA TurnedShows ==
    ASSUME NEW cube \in Cubes, NEW t \in Twists, NEW id \in Id, NEW f \in Frame,
           Shows(cube[id], id, f),
           cube[id].at[AxisOf(t.command.letter)] \in Layers(t.command.letter)
    PROVE  Shows(Turned(cube, t)[id], id, Spun(t, f))
<1> DEFINE c == cube[id]
           moved == Turned(cube, t)[id]
<1>1. moved = [at |-> Spin(t, c.at), faces |-> [e \in Direction |-> c.faces[From(t)[e]]]]
  BY TurnedDef
<1>2. Home(id) \in Position
  BY AddressToPositionInjective DEF Home
<1>3. moved.at = Image(Spun(t, f), Home(id))
  BY <1>1, <1>2, SpunImage DEF Shows
<1>4. ASSUME NEW d \in Direction
      PROVE  moved.faces[Image(Spun(t, f), d)] = SolvedFaces(Home(id))[d]
  <2>1. Image(f, d) \in Direction /\ Image(Spun(t, f), d) = Spin(t, Image(f, d))
    BY SpunImage, ImageOfDirection, DirectionsArePositions
  <2>2. Spin(t, Image(f, d)) \in Direction
    BY <2>1, SpinPermutes, DirectionsArePositions
  <2>3. From(t)[Spin(t, Image(f, d))] = Image(f, d)
    BY <2>1, <2>2, FromIsInverse, SpinPermutes, DirectionsArePositions
  <2> QED
    BY <1>1, <2>1, <2>2, <2>3 DEF Shows
<1> QED
  BY <1>3, <1>4 DEF Shows

LEMMA TurnedRotated ==
    ASSUME NEW cube \in Cubes, NEW t \in Twists, Rotated(cube)
    PROVE  Rotated(Turned(cube, t))
<1> SUFFICES ASSUME NEW id \in Id PROVE \E f \in Frame : Shows(Turned(cube, t)[id], id, f)
  BY DEF Rotated
<1>1. PICK f \in Frame : Shows(cube[id], id, f)
  BY DEF Rotated
<1>2. CASE cube[id].at[AxisOf(t.command.letter)] \in Layers(t.command.letter)
  BY <1>1, <1>2, TurnedShows, SpunImage
<1>3. CASE cube[id].at[AxisOf(t.command.letter)] \notin Layers(t.command.letter)
  <2>1. Turned(cube, t)[id] = cube[id]
    BY <1>3, TurnedDef
  <2> QED
    BY <1>1, <2>1
<1> QED
  BY <1>2, <1>3

\* The rotation that does nothing.
Upright == [x |-> Vec(1, 0, 0), y |-> Vec(0, 1, 0), z |-> Front]

LEMMA SolvedIsUpright ==
    /\ Upright \in Frame
    /\ \A id \in Id : Shows(SolvedCube[id], id, Upright)
<1>1. Upright \in Frame
  BY DEF Upright, Frame, Direction, Front, Vec, ThirdOf
<1>2. \A v \in Position : Image(Upright, v) = v
  BY DEF Upright, Image, Plus, Multiple, Vec, Front, Position, Coord
<1> QED
  BY <1>1, <1>2, AddressToPositionInjective, DirectionsArePositions
     DEF Shows, SolvedCube, Home, SolvedFaces

\* isSolved() in the words of the proof: cubelets on one side show one colour there.
OneColorEach(cube) ==
    \A e \in Direction : \A i, j \in Id :
        OnSide(cube[i].at, e) /\ OnSide(cube[j].at, e) => cube[i].faces[e] = cube[j].faces[e]

IdsOn(cube, e) == {i \in Id : OnSide(cube[i].at, e)}
ColorsOn(cube, e) == {cube[id].faces[e] : id \in IdsOn(cube, e)}

LEMMA ColorsOfSide ==
    ASSUME NEW cube, NEW e
    PROVE  Cardinality(ColorsOn(cube, e)) = 1 <=> \E c : ColorsOn(cube, e) = {c}
<1>1. IsFiniteSet(Id)
  <2>1. 0 \in Int /\ 26 \in Int
    OBVIOUS
  <2> QED
    BY <2>1, FS_Interval, Zenon DEF Id
<1>2. IdsOn(cube, e) \in SUBSET Id
  BY DEF IdsOn
<1>3. IsFiniteSet(IdsOn(cube, e))
  BY <1>1, <1>2, FS_Subset
<1> DEFINE g == [id \in IdsOn(cube, e) |-> cube[id].faces[e]]
<1>4. g \in Surjection(IdsOn(cube, e), ColorsOn(cube, e))
  BY DEF Surjection, ColorsOn
<1> HIDE DEF g
<1>5. IsFiniteSet(ColorsOn(cube, e))
  BY <1>3, <1>4, FS_Surjection
<1> QED
  BY <1>5, FS_Singleton

LEMMA SolvedMeans ==
    ASSUME NEW cube
    PROVE  IsSolved(cube) <=> \A e \in Direction : \E c : ColorsOn(cube, e) = {c}
<1>1. IsSolved(cube) <=> \A e \in Direction : Cardinality(ColorsOn(cube, e)) = 1
  BY Zenon DEF IsSolved, ColorsOn, IdsOn
<1> QED
  BY <1>1, ColorsOfSide

LEMMA SolvedShowsOneColor ==
    ASSUME NEW cube, IsSolved(cube)
    PROVE  OneColorEach(cube)
<1> SUFFICES ASSUME NEW e \in Direction, NEW i \in Id, NEW j \in Id,
                    OnSide(cube[i].at, e), OnSide(cube[j].at, e)
             PROVE  cube[i].faces[e] = cube[j].faces[e]
  BY DEF OneColorEach
<1>1. PICK c : ColorsOn(cube, e) = {c}
  BY SolvedMeans
<1>2. i \in IdsOn(cube, e) /\ j \in IdsOn(cube, e)
  BY DEF IdsOn
<1>3. cube[i].faces[e] \in ColorsOn(cube, e) /\ cube[j].faces[e] \in ColorsOn(cube, e)
  BY <1>2 DEF ColorsOn
<1> QED
  BY <1>1, <1>3

\* The colours of the sides are six.
LEMMA PaletteInjective ==
    \A d, e \in Direction : Palette(d) = Palette(e) => d = e
  BY DEF Palette, Direction, Front, Vec

\* If two cubelets show, of the sides they were made with, d and e on the same
\* side of a solved cube, d and e are the same.
LEMMA SameSideSameColor ==
    ASSUME NEW cube, OneColorEach(cube),
           NEW i \in Id, NEW f \in Frame, Shows(cube[i], i, f),
           NEW j \in Id, NEW g \in Frame, Shows(cube[j], j, g),
           NEW d \in Direction, OnSide(Home(i), d),
           NEW e \in Direction, OnSide(Home(j), e),
           Image(f, d) = Image(g, e)
    PROVE  d = e
<1>1. Home(i) \in Position /\ Home(j) \in Position
  BY AddressToPositionInjective DEF Home
<1>2. OnSide(cube[i].at, Image(f, d)) /\ OnSide(cube[j].at, Image(g, e))
  BY <1>1, OnSideOfImage DEF Shows
<1>3. cube[i].faces[Image(f, d)] = Palette(d) /\ cube[j].faces[Image(g, e)] = Palette(e)
  BY DEF Shows, SolvedFaces
<1>4. Image(f, d) \in Direction
  BY ImageOfDirection
<1>5. Palette(d) = Palette(e)
  BY <1>2, <1>3, <1>4 DEF OneColorEach
<1> QED
  BY <1>5, PaletteInjective

\* The centre of each side, and the corners about the corner at (1, 1, 1).
CentreOf(d) == CHOOSE id \in Id : Home(id) = d

LEMMA Centres ==
    ASSUME NEW d \in Direction
    PROVE  CentreOf(d) \in Id /\ Home(CentreOf(d)) = d /\ OnSide(Home(CentreOf(d)), d)
<1>1. \E id \in Id : Home(id) = d
  <2>1. /\ 4 \in Id /\ 10 \in Id /\ 14 \in Id /\ 16 \in Id /\ 12 \in Id /\ 22 \in Id
        /\ Home(4) = Front /\ Home(10) = Vec(0, 1, 0) /\ Home(14) = Vec(1, 0, 0)
        /\ Home(16) = Vec(0, -1, 0) /\ Home(12) = Vec(-1, 0, 0) /\ Home(22) = Vec(0, 0, -1)
    BY DEF Home, AddressToPosition, Vec, Front, Id
  <2> QED
    BY <2>1 DEF Direction
<1>2. CentreOf(d) \in Id /\ Home(CentreOf(d)) = d
  BY <1>1 DEF CentreOf
<1> QED
  BY <1>2, OneSideEach

LEMMA Corners ==
    /\ 2 \in Id /\ 0 \in Id /\ 8 \in Id /\ 20 \in Id
    /\ Home(2) = Vec(1, 1, 1) /\ Home(0) = Vec(-1, 1, 1)
    /\ Home(8) = Vec(1, -1, 1) /\ Home(20) = Vec(1, 1, -1)
  BY DEF Home, AddressToPosition, Vec, Id

\* On a cube of one colour each side, all cubelets made with side d show it on
\* one side: pi[d].
LEMMA SidesAgree ==
    ASSUME NEW cube, Rotated(cube), OneColorEach(cube)
    PROVE  \E pi \in [Direction -> Direction] :
             \A i \in Id : \A f \in Frame : \A d \in Direction :
                Shows(cube[i], i, f) /\ OnSide(Home(i), d) => Image(f, d) = pi[d]
<1> DEFINE F(i) == CHOOSE f \in Frame : Shows(cube[i], i, f)
           pi == [d \in Direction |-> Image(F(CentreOf(d)), d)]
<1>1. \A i \in Id : F(i) \in Frame /\ Shows(cube[i], i, F(i))
  BY DEF Rotated
<1> HIDE DEF F
<1>2. pi \in [Direction -> Direction]
  BY <1>1, Centres, ImageOfDirection
<1>3. ASSUME NEW i \in Id, NEW f \in Frame, NEW d \in Direction, NEW e \in Direction,
             Shows(cube[i], i, f), OnSide(Home(i), d), Image(f, d) = pi[e]
      PROVE  d = e
  <2>1. CentreOf(e) \in Id /\ OnSide(Home(CentreOf(e)), e)
    BY Centres
  <2>2. Image(f, d) = Image(F(CentreOf(e)), e)
    BY <1>3
  <2> QED
    BY <1>1, <1>3, <2>1, <2>2, SameSideSameColor
<1>4. \A c, d \in Direction : pi[c] = pi[d] => c = d
  <2> SUFFICES ASSUME NEW c \in Direction, NEW d \in Direction, pi[c] = pi[d]
               PROVE  c = d
    OBVIOUS
  <2>1. CentreOf(c) \in Id /\ OnSide(Home(CentreOf(c)), c) /\ Image(F(CentreOf(c)), c) = pi[d]
    BY Centres
  <2> HIDE DEF pi
  <2> QED
    BY <1>1, <1>3, <2>1
<1> HIDE DEF pi
<1>5. \A e \in Direction : \E d \in Direction : pi[d] = e
  BY <1>2, <1>4, OntoSides
<1>6. ASSUME NEW i \in Id, NEW f \in Frame, NEW d \in Direction,
             Shows(cube[i], i, f), OnSide(Home(i), d)
      PROVE  Image(f, d) = pi[d]
  <2>1. PICK e \in Direction : pi[e] = Image(f, d)
    BY <1>5, ImageOfDirection
  <2> QED
    BY <1>3, <1>6, <2>1
<1> QED
  BY <1>2, <1>6

\* The whole cube is turned by one rotation.
ShowsAll(cube, f) == \A id \in Id : Shows(cube[id], id, f)

LEMMA ImageOfAxes ==
    ASSUME NEW f \in Frame
    PROVE  /\ Image(f, Vec(1, 0, 0)) = f.x /\ Image(f, Vec(-1, 0, 0)) = Multiple(-1, f.x)
           /\ Image(f, Vec(0, 1, 0)) = f.y /\ Image(f, Vec(0, -1, 0)) = Multiple(-1, f.y)
           /\ Image(f, Vec(0, 0, 1)) = f.z /\ Image(f, Vec(0, 0, -1)) = Multiple(-1, f.z)
<1>1. f.x \in Vector /\ f.y \in Vector /\ f.z \in Vector
  BY PositionsAreVectors DEF Frame
<1> QED
  BY <1>1 DEF Image, Plus, Multiple, Vec, Vector

\* A rotation of a position is known from the sides the position is on.
LEMMA ImageFromSides ==
    ASSUME NEW f \in Frame, NEW g \in Frame, NEW p \in Position,
           \A d \in Direction : OnSide(p, d) => Image(f, d) = Image(g, d)
    PROVE  Image(f, p) = Image(g, p)
<1>1. p.x \in Coord /\ p.y \in Coord /\ p.z \in Coord
  BY DEF Position
<1>2. Multiple(p.x, f.x) = Multiple(p.x, g.x)
  <2>1. /\ p.x = 1 => OnSide(p, Vec(1, 0, 0)) /\ Vec(1, 0, 0) \in Direction
        /\ p.x = -1 => OnSide(p, Vec(-1, 0, 0)) /\ Vec(-1, 0, 0) \in Direction
    BY DEF OnSide, Vec, Axis, Direction
  <2>2. p.x = 1 => f.x = g.x
    BY <2>1, ImageOfAxes
  <2>3. p.x = -1 => Multiple(-1, f.x) = Multiple(-1, g.x)
    BY <2>1, ImageOfAxes
  <2>4. p.x = 0 => Multiple(p.x, f.x) = Multiple(p.x, g.x)
    BY DEF Multiple
  <2> QED
    BY <1>1, <2>2, <2>3, <2>4 DEF Coord
<1>3. Multiple(p.y, f.y) = Multiple(p.y, g.y)
  <2>1. /\ p.y = 1 => OnSide(p, Vec(0, 1, 0)) /\ Vec(0, 1, 0) \in Direction
        /\ p.y = -1 => OnSide(p, Vec(0, -1, 0)) /\ Vec(0, -1, 0) \in Direction
    BY DEF OnSide, Vec, Axis, Direction
  <2>2. p.y = 1 => f.y = g.y
    BY <2>1, ImageOfAxes
  <2>3. p.y = -1 => Multiple(-1, f.y) = Multiple(-1, g.y)
    BY <2>1, ImageOfAxes
  <2>4. p.y = 0 => Multiple(p.y, f.y) = Multiple(p.y, g.y)
    BY DEF Multiple
  <2> QED
    BY <1>1, <2>2, <2>3, <2>4 DEF Coord
<1>4. Multiple(p.z, f.z) = Multiple(p.z, g.z)
  <2>1. /\ p.z = 1 => OnSide(p, Vec(0, 0, 1)) /\ Vec(0, 0, 1) \in Direction
        /\ p.z = -1 => OnSide(p, Vec(0, 0, -1)) /\ Vec(0, 0, -1) \in Direction
    BY DEF OnSide, Vec, Axis, Direction, Front
  <2>2. p.z = 1 => f.z = g.z
    BY <2>1, ImageOfAxes
  <2>3. p.z = -1 => Multiple(-1, f.z) = Multiple(-1, g.z)
    BY <2>1, ImageOfAxes
  <2>4. p.z = 0 => Multiple(p.z, f.z) = Multiple(p.z, g.z)
    BY DEF Multiple
  <2> QED
    BY <1>1, <2>2, <2>3, <2>4 DEF Coord
<1> QED
  BY <1>2, <1>3, <1>4 DEF Image

\* The sides of a solved cube are a rotation of those it was made with: three
\* of them are those of a corner, and a corner next to it, which shares two,
\* tells where the side opposite to the third is.
LEMMA SidesAreRotated ==
    ASSUME NEW cube, Rotated(cube), NEW pi \in [Direction -> Direction],
           \A i \in Id : \A f \in Frame : \A d \in Direction :
                Shows(cube[i], i, f) /\ OnSide(Home(i), d) => Image(f, d) = pi[d]
    PROVE  \E f \in Frame : \A d \in Direction : pi[d] = Image(f, d)
<1>1. PICK f \in Frame : Shows(cube[2], 2, f)
  BY Corners DEF Rotated
<1>2. PICK g \in Frame : Shows(cube[0], 0, g)
  BY Corners DEF Rotated
<1>3. PICK h \in Frame : Shows(cube[8], 8, h)
  BY Corners DEF Rotated
<1>4. PICK k \in Frame : Shows(cube[20], 20, k)
  BY Corners DEF Rotated
<1>5. /\ OnSide(Home(2), Vec(1, 0, 0)) /\ OnSide(Home(2), Vec(0, 1, 0)) /\ OnSide(Home(2), Front)
      /\ OnSide(Home(0), Vec(-1, 0, 0)) /\ OnSide(Home(0), Vec(0, 1, 0)) /\ OnSide(Home(0), Front)
      /\ OnSide(Home(8), Vec(1, 0, 0)) /\ OnSide(Home(8), Vec(0, -1, 0)) /\ OnSide(Home(8), Front)
      /\ OnSide(Home(20), Vec(1, 0, 0)) /\ OnSide(Home(20), Vec(0, 1, 0))
      /\ OnSide(Home(20), Vec(0, 0, -1))
  BY Corners DEF OnSide, Vec, Front, Axis
<1>6. /\ Vec(1, 0, 0) \in Direction /\ Vec(0, 1, 0) \in Direction /\ Front \in Direction
      /\ Vec(-1, 0, 0) \in Direction /\ Vec(0, -1, 0) \in Direction /\ Vec(0, 0, -1) \in Direction
      /\ Front = Vec(0, 0, 1)
  BY DEF Direction, Front
<1>7. f.x = pi[Vec(1, 0, 0)] /\ f.y = pi[Vec(0, 1, 0)] /\ f.z = pi[Front]
  BY <1>1, <1>5, <1>6, Corners, ImageOfAxes
<1>8. Multiple(-1, f.x) = pi[Vec(-1, 0, 0)]
  <2>1. g.y = f.y /\ g.z = f.z /\ Multiple(-1, g.x) = pi[Vec(-1, 0, 0)]
    BY <1>2, <1>5, <1>6, <1>7, Corners, ImageOfAxes
  <2>2. g.x = f.x
    BY <2>1, FrameAxes
  <2> QED
    BY <2>1, <2>2
<1>9. Multiple(-1, f.y) = pi[Vec(0, -1, 0)]
  <2>1. h.x = f.x /\ h.z = f.z /\ Multiple(-1, h.y) = pi[Vec(0, -1, 0)]
    BY <1>3, <1>5, <1>6, <1>7, Corners, ImageOfAxes
  <2>2. h.y = f.y
    BY <2>1, FrameAxes
  <2> QED
    BY <2>1, <2>2
<1>10. Multiple(-1, f.z) = pi[Vec(0, 0, -1)]
  <2>1. k.x = f.x /\ k.y = f.y /\ Multiple(-1, k.z) = pi[Vec(0, 0, -1)]
    BY <1>4, <1>5, <1>6, <1>7, Corners, ImageOfAxes
  <2>2. k.z = f.z
    BY <2>1, FrameAxes
  <2> QED
    BY <2>1, <2>2
<1>11. ASSUME NEW d \in Direction
       PROVE  pi[d] = Image(f, d)
  BY <1>6, <1>7, <1>8, <1>9, <1>10, ImageOfAxes DEF Direction
<1> QED
  BY <1>11

LEMMA OneRotation ==
    ASSUME NEW cube, Rotated(cube), OneColorEach(cube)
    PROVE  \E f \in Frame : ShowsAll(cube, f)
<1>1. PICK pi \in [Direction -> Direction] :
        \A i \in Id : \A f \in Frame : \A d \in Direction :
           Shows(cube[i], i, f) /\ OnSide(Home(i), d) => Image(f, d) = pi[d]
  BY SidesAgree
<1>2. PICK f \in Frame : \A d \in Direction : pi[d] = Image(f, d)
  BY <1>1, SidesAreRotated
<1>3. ASSUME NEW id \in Id
      PROVE  Shows(cube[id], id, f)
  <2>1. PICK g \in Frame : Shows(cube[id], id, g)
    BY DEF Rotated
  <2>2. \A d \in Direction : OnSide(Home(id), d) => Image(g, d) = Image(f, d)
    BY <1>1, <1>2, <2>1
  <2>3. cube[id].at = Image(f, Home(id))
    BY <2>1, <2>2, AddressToPositionInjective, ImageFromSides DEF Shows, Home
  <2>4. ASSUME NEW d \in Direction
        PROVE  cube[id].faces[Image(f, d)] = SolvedFaces(Home(id))[d]
    <3>1. PICK e \in Direction : Image(g, e) = Image(f, d)
      BY ImageOnto, ImageOfDirection
    <3>2. cube[id].faces[Image(f, d)] = SolvedFaces(Home(id))[e]
      BY <2>1, <3>1 DEF Shows
    <3>3. CASE OnSide(Home(id), e) \/ OnSide(Home(id), d)
      <4>1. Image(f, e) = Image(f, d) \/ Image(g, e) = Image(g, d)
        BY <2>2, <3>1, <3>3
      <4>2. d = e
        BY <4>1, ImageInjective
      <4> QED
        BY <3>2, <4>2
    <3>4. CASE ~OnSide(Home(id), e) /\ ~OnSide(Home(id), d)
      BY <3>2, <3>4 DEF SolvedFaces
    <3> QED
      BY <3>3, <3>4
  <2> QED
    BY <2>3, <2>4 DEF Shows
<1> QED
  BY <1>3 DEF ShowsAll

\* Conversely a cube turned as a whole shows one colour on each side.
LEMMA RotationIsSolved ==
    ASSUME NEW cube, NEW f \in Frame, ShowsAll(cube, f)
    PROVE  IsSolved(cube)
<1>1. ASSUME NEW e \in Direction
      PROVE  \E c : ColorsOn(cube, e) = {c}
  <2>1. PICK d \in Direction : Image(f, d) = e
    BY ImageOnto
  <2>2. ASSUME NEW id \in Id
        PROVE  /\ OnSide(cube[id].at, e) <=> OnSide(Home(id), d)
               /\ OnSide(cube[id].at, e) => cube[id].faces[e] = Palette(d)
    <3>1. Home(id) \in Position /\ cube[id].at = Image(f, Home(id))
      BY AddressToPositionInjective DEF Home, ShowsAll, Shows
    <3>2. OnSide(cube[id].at, e) <=> OnSide(Home(id), d)
      BY <2>1, <3>1, OnSideOfImage
    <3>3. cube[id].faces[e] = SolvedFaces(Home(id))[d]
      BY <2>1 DEF ShowsAll, Shows
    <3> QED
      BY <3>2, <3>3 DEF SolvedFaces
  <2>3. CentreOf(d) \in IdsOn(cube, e)
    BY <2>2, Centres DEF IdsOn
  <2>4. \A id \in IdsOn(cube, e) : cube[id].faces[e] = Palette(d)
    BY <2>2 DEF IdsOn
  <2>5. ColorsOn(cube, e) = {Palette(d)}
    BY <2>3, <2>4 DEF ColorsOn
  <2> QED
    BY <2>5
<1> QED
  BY <1>1, SolvedMeans

\* The rotation determines the cube.
LEMMA RotationDetermines ==
    ASSUME NEW cube \in Cubes, NEW other \in Cubes, NEW f \in Frame,
           ShowsAll(cube, f), ShowsAll(other, f)
    PROVE  cube = other
<1>1. ASSUME NEW id \in Id
      PROVE  cube[id] = other[id]
  <2>1. /\ cube[id] \in [at : Position, faces : [Direction -> Color]]
        /\ other[id] \in [at : Position, faces : [Direction -> Color]]
    BY DEF Cubes
  <2>2. cube[id].at = other[id].at
    BY DEF ShowsAll, Shows
  <2>3. \A e \in Direction : cube[id].faces[e] = other[id].faces[e]
    BY ImageOnto DEF ShowsAll, Shows
  <2>4. cube[id].faces = other[id].faces
    BY <2>1, <2>3
  <2> QED
    BY <2>1, <2>2, <2>4
<1> QED
  BY <1>1 DEF Cubes

\* A turn of the whole cube, as Orientations makes it.
Whole(letter, n) == Twist([letter |-> letter, vector |-> 1], n)

LEMMA WholeTwist ==
    ASSUME NEW letter \in {"X", "Y", "Z"}, NEW n \in 0..3
    PROVE  /\ Whole(letter, n) \in Twists
           /\ Layers(Whole(letter, n).command.letter) = Coord
           /\ \A v : Spin(Whole(letter, n), v) = RotateSteps(v, AxisOf(letter), 1, n)
<1>1. [letter |-> letter, vector |-> 1] \in Command
  BY DEF Command, Letter, Sign
<1>2. Whole(letter, n) = [command |-> [letter |-> letter, vector |-> 1], turns |-> n]
  BY DEF Whole, Twist
<1>3. Whole(letter, n) \in Twists
  BY <1>1, <1>2 DEF Twists
<1>4. Layers(letter) = Coord
  BY DEF Layers
<1>5. EffectiveSign(Whole(letter, n)) = 1
  BY <1>2 DEF EffectiveSign, SignOf
<1> QED
  BY <1>2, <1>3, <1>4, <1>5 DEF Spin

LEMMA WholeShows ==
    ASSUME NEW cube \in Cubes, NEW f \in Frame, ShowsAll(cube, f),
           NEW letter \in {"X", "Y", "Z"}, NEW n \in 0..3
    PROVE  /\ Turned(cube, Whole(letter, n)) \in Cubes
           /\ Spun(Whole(letter, n), f) \in Frame
           /\ ShowsAll(Turned(cube, Whole(letter, n)), Spun(Whole(letter, n), f))
<1> DEFINE t == Whole(letter, n)
<1>1. t \in Twists /\ Layers(t.command.letter) = Coord
  BY WholeTwist
<1> HIDE DEF t
<1>2. Turned(cube, t) \in Cubes /\ Spun(t, f) \in Frame
  BY <1>1, TurnedType, SpunImage
<1>3. ASSUME NEW id \in Id
      PROVE  Shows(Turned(cube, t)[id], id, Spun(t, f))
  <2>1. cube[id].at \in Position /\ AxisOf(t.command.letter) \in Axis
    BY <1>1, AxisOfType DEF Cubes, Twists, Command
  <2>2. cube[id].at[AxisOf(t.command.letter)] \in Layers(t.command.letter)
    BY <1>1, <2>1 DEF Position, Axis
  <2>3. Shows(cube[id], id, f)
    BY DEF ShowsAll
  <2> QED
    BY <1>1, <2>2, <2>3, TurnedShows
<1>4. ShowsAll(Turned(cube, t), Spun(t, f))
  BY <1>3 DEF ShowsAll
<1> QED
  BY <1>2, <1>4 DEF t

Fronts == {Turned(SolvedCube, Whole("X", n)) : n \in 0..3}
            \cup {Turned(SolvedCube, Whole("Y", n)) : n \in {1, 3}}

LEMMA OrientationsAre ==
    Orientations = {Turned(front, Whole("Z", n)) : front \in Fronts, n \in 0..3}
  BY DEF Orientations, Fronts, Whole

\* Every orientation is a rotation of the whole cube.
LEMMA OrientationIsRotation ==
    ASSUME NEW cube \in Orientations
    PROVE  cube \in Cubes /\ \E f \in Frame : ShowsAll(cube, f)
<1>1. SolvedCube \in Cubes /\ Upright \in Frame /\ ShowsAll(SolvedCube, Upright)
  BY SolvedCubeType, SolvedIsUpright DEF ShowsAll
<1>2. PICK front \in Fronts, n \in 0..3 : cube = Turned(front, Whole("Z", n))
  BY OrientationsAre
<1>3. PICK letter \in {"X", "Y", "Z"}, m \in 0..3 : front = Turned(SolvedCube, Whole(letter, m))
  BY <1>2 DEF Fronts
<1>4. front \in Cubes /\ \E f \in Frame : ShowsAll(front, f)
  BY <1>1, <1>3, WholeShows
<1> QED
  BY <1>2, <1>4, WholeShows

\* Quarter turns of a frame about x, y and z.
LEMMA StepsAbout ==
    ASSUME NEW v \in Vector
    PROVE  /\ RotateSteps(v, "x", 1, 0) = v /\ RotateSteps(v, "x", 1, 1) = Vec(v.x, v.z, -v.y)
           /\ RotateSteps(v, "x", 1, 2) = Vec(v.x, -v.y, -v.z)
           /\ RotateSteps(v, "x", 1, 3) = Vec(v.x, -v.z, v.y)
           /\ RotateSteps(v, "y", 1, 1) = Vec(-v.z, v.y, v.x)
           /\ RotateSteps(v, "y", 1, 3) = Vec(v.z, v.y, -v.x)
           /\ RotateSteps(v, "z", 1, 0) = v /\ RotateSteps(v, "z", 1, 1) = Vec(v.y, -v.x, v.z)
           /\ RotateSteps(v, "z", 1, 2) = Vec(-v.x, -v.y, v.z)
           /\ RotateSteps(v, "z", 1, 3) = Vec(-v.y, v.x, v.z)
<1>1. 0 % 4 = 0 /\ 1 % 4 = 1 /\ 2 % 4 = 2 /\ 3 % 4 = 3
  OBVIOUS
<1>2. \A axis : /\ RotateSteps(v, axis, 1, 0) = v
                /\ RotateSteps(v, axis, 1, 1) = RotateQuarter(v, axis, 1)
                /\ RotateSteps(v, axis, 1, 2) = RotateQuarter(RotateQuarter(v, axis, 1), axis, 1)
                /\ RotateSteps(v, axis, 1, 3)
                     = RotateQuarter(RotateQuarter(RotateQuarter(v, axis, 1), axis, 1), axis, 1)
  BY <1>1 DEF RotateSteps
<1>3. /\ v = Vec(v.x, v.y, v.z) /\ v.x \in Int /\ v.y \in Int /\ v.z \in Int
      /\ \A a \in Int : -a \in Int /\ -(-a) = a
  BY DEF Vec, Vector
<1>4. \A a, b, c \in Int : RotateQuarter(Vec(a, b, c), "x", 1) = Vec(a, c, -b)
  BY DEF RotateQuarter, Vec
<1>5. \A a, b, c \in Int : RotateQuarter(Vec(a, b, c), "y", 1) = Vec(-c, b, a)
  BY DEF RotateQuarter, Vec
<1>9. \A a, b, c \in Int : RotateQuarter(Vec(a, b, c), "z", 1) = Vec(b, -a, c)
  BY DEF RotateQuarter, Vec
<1>6. /\ RotateQuarter(v, "x", 1) = Vec(v.x, v.z, -v.y)
      /\ RotateQuarter(Vec(v.x, v.z, -v.y), "x", 1) = Vec(v.x, -v.y, -v.z)
      /\ RotateQuarter(Vec(v.x, -v.y, -v.z), "x", 1) = Vec(v.x, -v.z, v.y)
  BY <1>3, <1>4
<1>7. /\ RotateQuarter(v, "y", 1) = Vec(-v.z, v.y, v.x)
      /\ RotateQuarter(Vec(-v.z, v.y, v.x), "y", 1) = Vec(-v.x, v.y, -v.z)
      /\ RotateQuarter(Vec(-v.x, v.y, -v.z), "y", 1) = Vec(v.z, v.y, -v.x)
  BY <1>3, <1>5
<1>8. /\ RotateQuarter(v, "z", 1) = Vec(v.y, -v.x, v.z)
      /\ RotateQuarter(Vec(v.y, -v.x, v.z), "z", 1) = Vec(-v.x, -v.y, v.z)
      /\ RotateQuarter(Vec(-v.x, -v.y, v.z), "z", 1) = Vec(-v.y, v.x, v.z)
  BY <1>3, <1>9
<1> QED
  BY <1>2, <1>6, <1>7, <1>8

\* The frame with the given images of x and y.
FrameOf(a, b) == [x |-> a, y |-> b, z |-> ThirdOf(a, b)]

\* The six frames of Fronts: each has another side at the front.
LEMMA FrontFrames ==
    /\ Spun(Whole("X", 0), Upright) = FrameOf(Vec(1, 0, 0), Vec(0, 1, 0))
    /\ Spun(Whole("X", 1), Upright) = FrameOf(Vec(1, 0, 0), Vec(0, 0, -1))
    /\ Spun(Whole("X", 2), Upright) = FrameOf(Vec(1, 0, 0), Vec(0, -1, 0))
    /\ Spun(Whole("X", 3), Upright) = FrameOf(Vec(1, 0, 0), Vec(0, 0, 1))
    /\ Spun(Whole("Y", 1), Upright) = FrameOf(Vec(0, 0, 1), Vec(0, 1, 0))
    /\ Spun(Whole("Y", 3), Upright) = FrameOf(Vec(0, 0, -1), Vec(0, 1, 0))
<1>1. Upright.x \in Vector /\ Upright.y \in Vector /\ Upright.z \in Vector
  BY SolvedIsUpright, PositionsAreVectors DEF Frame
<1>2. AxisOf("X") = "x" /\ AxisOf("Y") = "y"
  BY DEF AxisOf
<1>3. \A n \in 0..3 : /\ \A v : Spin(Whole("X", n), v) = RotateSteps(v, "x", 1, n)
                      /\ \A v : Spin(Whole("Y", n), v) = RotateSteps(v, "y", 1, n)
  BY <1>2, WholeTwist
<1> QED
  BY <1>1, <1>3, StepsAbout DEF Spun, FrameOf, Upright, Vec, Front, ThirdOf

\* Turned about z, they are all frames.
LEMMA AboutZ ==
    ASSUME NEW a \in Direction, NEW b \in Direction, FrameOf(a, b) \in Frame
    PROVE  LET Z(n) == Spun(Whole("Z", n), FrameOf(a, b))
           IN  /\ Z(0) = FrameOf(a, b)
               /\ Z(1) = FrameOf(Vec(a.y, -a.x, a.z), Vec(b.y, -b.x, b.z))
               /\ Z(2) = FrameOf(Vec(-a.x, -a.y, a.z), Vec(-b.x, -b.y, b.z))
               /\ Z(3) = FrameOf(Vec(-a.y, a.x, a.z), Vec(-b.y, b.x, b.z))
<1>1. AxisOf("Z") = "z"
  BY DEF AxisOf
<1>2. \A n \in 0..3 : \A v : Spin(Whole("Z", n), v) = RotateSteps(v, "z", 1, n)
  BY <1>1, WholeTwist
<1>3. a \in Vector /\ b \in Vector
  BY PositionsAreVectors
<1>4. \A n \in 0..3 : Spun(Whole("Z", n), FrameOf(a, b)) \in Frame
  BY WholeTwist, SpunImage
<1>5. \A f \in Frame : f = FrameOf(f.x, f.y)
  BY DEF Frame, FrameOf
<1>6. \A n \in 0..3 : Spun(Whole("Z", n), FrameOf(a, b))
                        = FrameOf(RotateSteps(a, "z", 1, n), RotateSteps(b, "z", 1, n))
  BY <1>2, <1>4, <1>5 DEF Spun, FrameOf
<1> QED
  BY <1>3, <1>6, StepsAbout

\* So every rotation of the whole cube is an orientation: bring the side that
\* shall face the front there, then turn about the front.
LEMMA FramesAreTurned ==
    ASSUME NEW f \in Frame
    PROVE  \E letter \in {"X", "Y"}, m \in 0..3, n \in 0..3 :
             /\ letter = "Y" => m \in {1, 3}
             /\ f = Spun(Whole("Z", n), Spun(Whole(letter, m), Upright))
<1> DEFINE Behind(a, b) == \E n \in 0..3 : f = Spun(Whole("Z", n), FrameOf(a, b))
<1>1. f.x \in Direction /\ f.y \in Direction /\ f = FrameOf(f.x, f.y)
      /\ f.x.x * f.y.x + f.x.y * f.y.y + f.x.z * f.y.z = 0
  BY DEF Frame, FrameOf
<1>2. ASSUME NEW a \in Direction, NEW b \in Direction, FrameOf(a, b) \in Frame,
             \/ f.x = a /\ f.y = b
             \/ f.x = Vec(a.y, -a.x, a.z) /\ f.y = Vec(b.y, -b.x, b.z)
             \/ f.x = Vec(-a.x, -a.y, a.z) /\ f.y = Vec(-b.x, -b.y, b.z)
             \/ f.x = Vec(-a.y, a.x, a.z) /\ f.y = Vec(-b.y, b.x, b.z)
      PROVE  Behind(a, b)
  <2>1. \/ f = Spun(Whole("Z", 0), FrameOf(a, b)) \/ f = Spun(Whole("Z", 1), FrameOf(a, b))
        \/ f = Spun(Whole("Z", 2), FrameOf(a, b)) \/ f = Spun(Whole("Z", 3), FrameOf(a, b))
    BY <1>1, <1>2, AboutZ
  <2>2. 0 \in 0..3 /\ 1 \in 0..3 /\ 2 \in 0..3 /\ 3 \in 0..3
    OBVIOUS
  <2> HIDE <1>1, <1>2
  <2> QED
    BY <2>1, <2>2
<1>3. \A letter \in {"X", "Y"}, m \in 0..3 : Spun(Whole(letter, m), Upright) \in Frame
  BY SolvedIsUpright, WholeTwist, SpunImage
<1>4. /\ FrameOf(Vec(1, 0, 0), Vec(0, 1, 0)) \in Frame
      /\ FrameOf(Vec(1, 0, 0), Vec(0, 0, -1)) \in Frame
      /\ FrameOf(Vec(1, 0, 0), Vec(0, -1, 0)) \in Frame
      /\ FrameOf(Vec(1, 0, 0), Vec(0, 0, 1)) \in Frame
      /\ FrameOf(Vec(0, 0, 1), Vec(0, 1, 0)) \in Frame
      /\ FrameOf(Vec(0, 0, -1), Vec(0, 1, 0)) \in Frame
  <2>1. 0 \in 0..3 /\ 1 \in 0..3 /\ 2 \in 0..3 /\ 3 \in 0..3
    OBVIOUS
  <2> QED
    BY <1>3, <2>1, FrontFrames
<1>5. /\ Vec(1, 0, 0) \in Direction /\ Vec(0, 1, 0) \in Direction /\ Vec(0, 0, 1) \in Direction
      /\ Vec(0, -1, 0) \in Direction /\ Vec(0, 0, -1) \in Direction
  BY DEF Direction, Front
<1>6. \/ Behind(Vec(1, 0, 0), Vec(0, 1, 0)) \/ Behind(Vec(1, 0, 0), Vec(0, 0, -1))
      \/ Behind(Vec(1, 0, 0), Vec(0, -1, 0)) \/ Behind(Vec(1, 0, 0), Vec(0, 0, 1))
      \/ Behind(Vec(0, 0, 1), Vec(0, 1, 0)) \/ Behind(Vec(0, 0, -1), Vec(0, 1, 0))
  <2> DEFINE Turns(a, b) ==
               \/ f.x = a /\ f.y = b
               \/ f.x = Vec(a.y, -a.x, a.z) /\ f.y = Vec(b.y, -b.x, b.z)
               \/ f.x = Vec(-a.x, -a.y, a.z) /\ f.y = Vec(-b.x, -b.y, b.z)
               \/ f.x = Vec(-a.y, a.x, a.z) /\ f.y = Vec(-b.y, b.x, b.z)
  <2>1. \/ Turns(Vec(1, 0, 0), Vec(0, 1, 0)) \/ Turns(Vec(1, 0, 0), Vec(0, 0, -1))
        \/ Turns(Vec(1, 0, 0), Vec(0, -1, 0)) \/ Turns(Vec(1, 0, 0), Vec(0, 0, 1))
        \/ Turns(Vec(0, 0, 1), Vec(0, 1, 0)) \/ Turns(Vec(0, 0, -1), Vec(0, 1, 0))
    BY <1>1 DEF Direction, Front, Vec
  <2>2. \A a, b \in Direction : FrameOf(a, b) \in Frame /\ Turns(a, b) => Behind(a, b)
    BY <1>2
  <2> HIDE DEF Turns, Behind
  <2> QED
    BY <1>4, <1>5, <2>1, <2>2
<1> QED
  <2>1. 0 \in 0..3 /\ 1 \in 0..3 /\ 2 \in 0..3 /\ 3 \in 0..3
    OBVIOUS
  <2> QED
    BY <1>6, <2>1, FrontFrames

LEMMA RotationIsOrientation ==
    ASSUME NEW cube \in Cubes, NEW f \in Frame, ShowsAll(cube, f)
    PROVE  cube \in Orientations
<1>1. PICK letter \in {"X", "Y"}, m \in 0..3, n \in 0..3 :
        /\ letter = "Y" => m \in {1, 3}
        /\ f = Spun(Whole("Z", n), Spun(Whole(letter, m), Upright))
  BY FramesAreTurned
<1>2. SolvedCube \in Cubes /\ Upright \in Frame /\ ShowsAll(SolvedCube, Upright)
  BY SolvedCubeType, SolvedIsUpright DEF ShowsAll
<1> DEFINE front == Turned(SolvedCube, Whole(letter, m))
<1>3. /\ front \in Cubes /\ Spun(Whole(letter, m), Upright) \in Frame
      /\ ShowsAll(front, Spun(Whole(letter, m), Upright))
  BY <1>2, WholeShows
<1>4. front \in Fronts
  BY <1>1 DEF Fronts
<1> HIDE DEF front
<1>5. Turned(front, Whole("Z", n)) \in Cubes /\ ShowsAll(Turned(front, Whole("Z", n)), f)
  BY <1>1, <1>3, WholeShows
<1>6. cube = Turned(front, Whole("Z", n))
  BY <1>5, RotationDetermines
<1> QED
  BY <1>4, <1>6, OrientationsAre

\* What a scramble and drags can make of the cube, as far as its stickers go.
CubeletsRotated == Rotated(cubelets)

LEMMA RotatedInvariant == CubeSpec => []CubeletsRotated
<1>1. CubeInit => CubeletsRotated
  <2>1. \A id \in Id : \E f \in Frame : Shows(SolvedCube[id], id, f)
    BY SolvedIsUpright
  <2> QED
    BY <2>1, Zenon DEF CubeInit, Rotated, CubeletsRotated
<1>2. CubeTypeOK /\ CubeletsRotated /\ [CubeNext]_vars => CubeletsRotated'
  <2> SUFFICES ASSUME CubeTypeOK, CubeletsRotated, [CubeNext]_vars
               PROVE  CubeletsRotated'
    OBVIOUS
  <2>1. cubelets \in Cubes
    BY DEF CubeTypeOK, Cubes
  <2> QED
    BY <2>1, StepTurns, TurnedRotated DEF CubeletsRotated
<1> QED
  BY <1>1, <1>2, CubeTypeCorrect, PTL DEF CubeSpec

\* isSolved() compares colours, and finds the solved cube in any orientation
\* and no other, after any scramble and any drags.
THEOREM CubeSolvedIsSolved == CubeSpec => []SolvedIsSolved
<1>1. CubeTypeOK /\ CubeletsRotated => SolvedIsSolved
  <2> SUFFICES ASSUME CubeTypeOK, CubeletsRotated PROVE SolvedIsSolved
    OBVIOUS
  <2>1. cubelets \in Cubes
    BY DEF CubeTypeOK, Cubes
  <2>2. IsSolved(cubelets) => cubelets \in Orientations
    BY <2>1, SolvedShowsOneColor, OneRotation, RotationIsOrientation DEF CubeletsRotated
  <2>3. cubelets \in Orientations => IsSolved(cubelets)
    BY OrientationIsRotation, RotationIsSolved
  <2> QED
    BY <2>2, <2>3 DEF SolvedIsSolved
<1> QED
  BY <1>1, RotatedInvariant, CubeTypeCorrect, PTL

----------------------------------------------------------------------------
(* What a scramble shows *)

\* The places of the corners.
CornerPosition == [x : Sign, y : Sign, z : Sign]

\* The cubelet that is at a corner, and the rotation it shows.
Slot == [id : Id, frame : Frame]

Holds(cube, slots) ==
    \A p \in CornerPosition :
        /\ cube[slots[p].id].at = p
        /\ Shows(cube[slots[p].id], slots[p].id, slots[p].frame)

\* Where a twist brings what is at p from.
Unspin(t, p) ==
    RotateSteps(p, AxisOf(t.command.letter), -EffectiveSign(t), t.turns)

SlotsAfter(t, slots) ==
    [p \in CornerPosition |->
        IF p[AxisOf(t.command.letter)] \in Layers(t.command.letter)
          THEN [id |-> slots[Unspin(t, p)].id, frame |-> Spun(t, slots[Unspin(t, p)].frame)]
          ELSE slots[p]]

\* A twist takes corners to corners, each from one.
LEMMA CornersArePositions == CornerPosition \subseteq Position
  BY DEF CornerPosition, Position, Sign, Coord

LEMMA CornersTurn ==
    ASSUME NEW p \in CornerPosition, NEW axis \in Axis, NEW sign \in Sign, NEW n \in Nat
    PROVE  RotateSteps(p, axis, sign, n) \in CornerPosition
<1> DEFINE Q(v) == RotateQuarter(v, axis, sign)
<1>1. ASSUME NEW v \in CornerPosition
      PROVE  Q(v) \in CornerPosition
  <2>1. CASE axis = "x"
    BY <2>1 DEF RotateQuarter, CornerPosition, Vec, Sign
  <2>2. CASE axis = "y"
    BY <2>2 DEF RotateQuarter, CornerPosition, Vec, Sign
  <2>3. CASE axis = "z"
    BY <2>3 DEF RotateQuarter, CornerPosition, Vec, Sign
  <2> QED
    BY <2>1, <2>2, <2>3 DEF Axis
<1>2. n % 4 \in {0, 1, 2, 3}
  OBVIOUS
<1>3. RotateSteps(p, axis, sign, n) = CASE n % 4 = 0 -> p [] n % 4 = 1 -> Q(p)
                                        [] n % 4 = 2 -> Q(Q(p)) [] n % 4 = 3 -> Q(Q(Q(p)))
  BY DEF RotateSteps
<1> HIDE DEF Q
<1> QED
  BY <1>1, <1>2, <1>3

LEMMA Unspins ==
    ASSUME NEW t \in Twists, NEW p \in CornerPosition
    PROVE  /\ Unspin(t, p) \in CornerPosition
           /\ Unspin(t, p)[AxisOf(t.command.letter)] = p[AxisOf(t.command.letter)]
           /\ Spin(t, Unspin(t, p)) = p
<1> DEFINE axis == AxisOf(t.command.letter)
           sign == EffectiveSign(t)
<1>1. axis \in Axis /\ sign \in Sign /\ -sign \in Sign /\ -(-sign) = sign /\ t.turns \in Nat
  BY AxisOfType, EffectiveSignType DEF Twists, Command, Sign
<1> HIDE DEF axis, sign
<1>2. /\ RotateSteps(p, axis, -sign, t.turns) \in CornerPosition
      /\ RotateSteps(p, axis, -sign, t.turns)[axis] = p[axis]
      /\ RotateSteps(RotateSteps(p, axis, -sign, t.turns), axis, -(-sign), t.turns) = p
  BY <1>1, Steps, CornersTurn, CornersArePositions
<1> QED
  BY <1>1, <1>2 DEF Unspin, Spin, axis, sign

\* A twist moves what is at the corners of its layers, and turns it.
LEMMA HoldsAfter ==
    ASSUME NEW cube \in Cubes, NEW t \in Twists,
           NEW slots \in [CornerPosition -> Slot], Holds(cube, slots)
    PROVE  /\ SlotsAfter(t, slots) \in [CornerPosition -> Slot]
           /\ Holds(Turned(cube, t), SlotsAfter(t, slots))
<1> DEFINE axis == AxisOf(t.command.letter)
           after == SlotsAfter(t, slots)
<1>1. ASSUME NEW p \in CornerPosition
      PROVE  /\ after[p] \in Slot
             /\ Turned(cube, t)[after[p].id].at = p
             /\ Shows(Turned(cube, t)[after[p].id], after[p].id, after[p].frame)
  <2>1. CASE p[axis] \in Layers(t.command.letter)
    <3> DEFINE o == Unspin(t, p)
               s == slots[o]
    <3>1. o \in CornerPosition /\ o[axis] = p[axis] /\ Spin(t, o) = p
      BY Unspins
    <3>2. s.id \in Id /\ s.frame \in Frame /\ cube[s.id].at = o /\ Shows(cube[s.id], s.id, s.frame)
      BY <3>1 DEF Slot, Holds
    <3>3. after[p] = [id |-> s.id, frame |-> Spun(t, s.frame)]
      BY <2>1 DEF SlotsAfter
    <3>4. after[p] \in Slot /\ after[p].id = s.id /\ after[p].frame = Spun(t, s.frame)
      BY <3>2, <3>3, SpunImage DEF Slot
    <3>5. Shows(Turned(cube, t)[s.id], s.id, Spun(t, s.frame))
      BY <2>1, <3>1, <3>2, TurnedShows
    <3>6. Turned(cube, t)[s.id].at = Spin(t, cube[s.id].at)
      BY <2>1, <3>1, <3>2, TurnedDef
    <3> QED
      BY <3>1, <3>2, <3>4, <3>5, <3>6
  <2>2. CASE p[axis] \notin Layers(t.command.letter)
    <3>1. after[p] = slots[p]
      BY <2>2 DEF SlotsAfter
    <3>2. slots[p] \in Slot /\ slots[p].id \in Id /\ cube[slots[p].id].at = p
          /\ Shows(cube[slots[p].id], slots[p].id, slots[p].frame)
      BY DEF Slot, Holds
    <3>3. Turned(cube, t)[slots[p].id] = cube[slots[p].id]
      BY <2>2, <3>2, TurnedDef
    <3> QED
      BY <3>1, <3>2, <3>3
  <2> QED
    BY <2>1, <2>2
<1>2. after = [p \in CornerPosition |-> after[p]]
  BY DEF SlotsAfter
<1> HIDE DEF after
<1>3. after \in [CornerPosition -> Slot] /\ Holds(Turned(cube, t), after)
  BY <1>1, <1>2 DEF Holds
<1> QED
  BY <1>3 DEF after

\* 1 if two numbers are out of order.
Inverted(a, b) == IF a < b THEN 0 ELSE 1

\* How many of the pairs of eight numbers are.
Inversions(a, b, c, d, e, f, g, h) ==
    (Inverted(a, b) + Inverted(a, c) + Inverted(a, d) + Inverted(a, e)
       + Inverted(a, f) + Inverted(a, g) + Inverted(a, h))
    + (Inverted(b, c) + Inverted(b, d) + Inverted(b, e) + Inverted(b, f)
       + Inverted(b, g) + Inverted(b, h))
    + (Inverted(c, d) + Inverted(c, e) + Inverted(c, f) + Inverted(c, g)
       + Inverted(c, h))
    + (Inverted(d, e) + Inverted(d, f) + Inverted(d, g) + Inverted(d, h))
    + (Inverted(e, f) + Inverted(e, g) + Inverted(e, h))
    + (Inverted(f, g) + Inverted(f, h))
    + (Inverted(g, h))

AllDifferent(a, b, c, d, e, f, g, h) ==
    /\ a # b /\ a # c /\ a # d /\ a # e /\ a # f /\ a # g /\ a # h
    /\ b # c /\ b # d /\ b # e /\ b # f /\ b # g /\ b # h
    /\ c # d /\ c # e /\ c # f /\ c # g /\ c # h
    /\ d # e /\ d # f /\ d # g /\ d # h
    /\ e # f /\ e # g /\ e # h
    /\ f # g /\ f # h
    /\ g # h

\* An odd difference changes the parity.
LEMMA OddDifference ==
    \A s, m \in Int : /\ (s + 3 - 2 * m) % 2 # s % 2
                      /\ (s + 7 - 2 * m) % 2 # s % 2
                      /\ (s + 9 - 2 * m) % 2 # s % 2
  OBVIOUS

\* So does a cycle of four numbers, here that of the face at x = 1.
LEMMA CycleXPlus ==
    ASSUME NEW a \in Int, NEW b \in Int, NEW c \in Int, NEW d \in Int,
           NEW e \in Int, NEW f \in Int, NEW g \in Int, NEW h \in Int,
           AllDifferent(a, b, c, d, e, f, g, h)
    PROVE  Inversions(c, b, g, d, a, f, e, h) % 2 # Inversions(a, b, c, d, e, f, g, h) % 2
<1> DEFINE S == Inversions(a, b, c, d, e, f, g, h)
           m == Inverted(b, c) + Inverted(a, c) + Inverted(a, b) + Inverted(d, g)
                + Inverted(a, g) + Inverted(f, g) + Inverted(e, g) + Inverted(a, d)
                + Inverted(e, f)
<1>1. S \in Int
  BY DEF Inversions, Inverted
<1>2. m \in Int
  BY DEF Inverted
<1>3. Inversions(c, b, g, d, a, f, e, h) = S + 9 - 2 * m
  BY DEF Inversions, Inverted, AllDifferent
<1> HIDE DEF m
<1> QED
  BY <1>1, <1>2, <1>3, OddDifference, Zenon

\* So does a cycle of four numbers, here that of the face at x = -1.
LEMMA CycleXMinus ==
    ASSUME NEW a \in Int, NEW b \in Int, NEW c \in Int, NEW d \in Int,
           NEW e \in Int, NEW f \in Int, NEW g \in Int, NEW h \in Int,
           AllDifferent(a, b, c, d, e, f, g, h)
    PROVE  Inversions(a, d, c, h, e, b, g, f) % 2 # Inversions(a, b, c, d, e, f, g, h) % 2
<1> DEFINE S == Inversions(a, b, c, d, e, f, g, h)
           m == Inverted(c, d) + Inverted(b, d) + Inverted(b, c) + Inverted(e, h)
                + Inverted(b, h) + Inverted(g, h) + Inverted(f, h) + Inverted(b, e)
                + Inverted(f, g)
<1>1. S \in Int
  BY DEF Inversions, Inverted
<1>2. m \in Int
  BY DEF Inverted
<1>3. Inversions(a, d, c, h, e, b, g, f) = S + 9 - 2 * m
  BY DEF Inversions, Inverted, AllDifferent
<1> HIDE DEF m
<1> QED
  BY <1>1, <1>2, <1>3, OddDifference, Zenon

\* So does a cycle of four numbers, here that of the face at y = 1.
LEMMA CycleYPlus ==
    ASSUME NEW a \in Int, NEW b \in Int, NEW c \in Int, NEW d \in Int,
           NEW e \in Int, NEW f \in Int, NEW g \in Int, NEW h \in Int,
           AllDifferent(a, b, c, d, e, f, g, h)
    PROVE  Inversions(e, a, c, d, f, b, g, h) % 2 # Inversions(a, b, c, d, e, f, g, h) % 2
<1> DEFINE S == Inversions(a, b, c, d, e, f, g, h)
           m == Inverted(a, e) + Inverted(c, e) + Inverted(d, e) + Inverted(b, e)
                + Inverted(b, c) + Inverted(b, d) + Inverted(b, f)
<1>1. S \in Int
  BY DEF Inversions, Inverted
<1>2. m \in Int
  BY DEF Inverted
<1>3. Inversions(e, a, c, d, f, b, g, h) = S + 7 - 2 * m
  BY DEF Inversions, Inverted, AllDifferent
<1> HIDE DEF m
<1> QED
  BY <1>1, <1>2, <1>3, OddDifference, Zenon

\* So does a cycle of four numbers, here that of the face at y = -1.
LEMMA CycleYMinus ==
    ASSUME NEW a \in Int, NEW b \in Int, NEW c \in Int, NEW d \in Int,
           NEW e \in Int, NEW f \in Int, NEW g \in Int, NEW h \in Int,
           AllDifferent(a, b, c, d, e, f, g, h)
    PROVE  Inversions(a, b, g, c, e, f, h, d) % 2 # Inversions(a, b, c, d, e, f, g, h) % 2
<1> DEFINE S == Inversions(a, b, c, d, e, f, g, h)
           m == Inverted(c, g) + Inverted(e, g) + Inverted(f, g) + Inverted(d, g)
                + Inverted(d, e) + Inverted(d, f) + Inverted(d, h)
<1>1. S \in Int
  BY DEF Inversions, Inverted
<1>2. m \in Int
  BY DEF Inverted
<1>3. Inversions(a, b, g, c, e, f, h, d) = S + 7 - 2 * m
  BY DEF Inversions, Inverted, AllDifferent
<1> HIDE DEF m
<1> QED
  BY <1>1, <1>2, <1>3, OddDifference, Zenon

\* So does a cycle of four numbers, here that of the face at z = -1.
LEMMA CycleZMinus ==
    ASSUME NEW a \in Int, NEW b \in Int, NEW c \in Int, NEW d \in Int,
           NEW e \in Int, NEW f \in Int, NEW g \in Int, NEW h \in Int,
           AllDifferent(a, b, c, d, e, f, g, h)
    PROVE  Inversions(a, b, c, d, f, h, e, g) % 2 # Inversions(a, b, c, d, e, f, g, h) % 2
<1> DEFINE S == Inversions(a, b, c, d, e, f, g, h)
           m == Inverted(e, f) + Inverted(e, h) + Inverted(g, h)
<1>1. S \in Int
  BY DEF Inversions, Inverted
<1>2. m \in Int
  BY DEF Inverted
<1>3. Inversions(a, b, c, d, f, h, e, g) = S + 3 - 2 * m
  BY DEF Inversions, Inverted, AllDifferent
<1> HIDE DEF m
<1> QED
  BY <1>1, <1>2, <1>3, OddDifference, Zenon

InversionsOf(n) ==
    Inversions(n[Vec(1, 1, 1)], n[Vec(-1, 1, 1)], n[Vec(1, -1, 1)], n[Vec(-1, -1, 1)],
               n[Vec(1, 1, -1)], n[Vec(-1, 1, -1)], n[Vec(1, -1, -1)], n[Vec(-1, -1, -1)])

SumOf(n) ==
    n[Vec(1, 1, 1)] + n[Vec(-1, 1, 1)] + n[Vec(1, -1, 1)] + n[Vec(-1, -1, 1)]
    + n[Vec(1, 1, -1)] + n[Vec(-1, 1, -1)] + n[Vec(1, -1, -1)] + n[Vec(-1, -1, -1)]

\* k is n after a quarter turn of one layer of corners.
QuarterMoved(n, k, axis, sign, layer) ==
    \A p \in CornerPosition :
        k[p] = IF p[axis] = layer THEN n[RotateQuarter(p, axis, -sign)] ELSE n[p]

\* The eight corners, and a quarter turn of each the other way.
LEMMA TheCorners ==
    /\ Vec(1, 1, 1) \in CornerPosition /\ Vec(-1, 1, 1) \in CornerPosition
    /\ Vec(1, -1, 1) \in CornerPosition /\ Vec(-1, -1, 1) \in CornerPosition
    /\ Vec(1, 1, -1) \in CornerPosition /\ Vec(-1, 1, -1) \in CornerPosition
    /\ Vec(1, -1, -1) \in CornerPosition /\ Vec(-1, -1, -1) \in CornerPosition
  BY DEF CornerPosition, Vec, Sign

LEMMA CornersBack ==
    ASSUME NEW x \in Sign, NEW y \in Sign, NEW z \in Sign
    PROVE  /\ RotateQuarter(Vec(x, y, z), "x", -1) = Vec(x, -z, y)
           /\ RotateQuarter(Vec(x, y, z), "y", -1) = Vec(z, y, -x)
           /\ RotateQuarter(Vec(x, y, z), "z", -1) = Vec(-y, x, z)
           /\ Vec(x, y, z)["x"] = x /\ Vec(x, y, z)["y"] = y /\ Vec(x, y, z)["z"] = z
           /\ Vec(x, y, z) \in CornerPosition
<1>1. /\ Vec(x, y, z)["x"] = x /\ Vec(x, y, z)["y"] = y /\ Vec(x, y, z)["z"] = z
      /\ Vec(x, y, z).x = x /\ Vec(x, y, z).y = y /\ Vec(x, y, z).z = z
      /\ Vec(x, y, z) \in CornerPosition
  BY DEF Vec, CornerPosition
<1>2. x \in Int /\ y \in Int /\ z \in Int /\ \A a \in Int : (-1) * a = -a /\ -(-1) * a = a
  BY DEF Sign
<1>3. RotateQuarter(Vec(x, y, z), "x", -1) = Vec(x, -z, y)
  BY <1>1, <1>2 DEF RotateQuarter
<1>4. RotateQuarter(Vec(x, y, z), "y", -1) = Vec(z, y, -x)
  BY <1>1, <1>2 DEF RotateQuarter
<1>5. RotateQuarter(Vec(x, y, z), "z", -1) = Vec(-y, x, z)
  BY <1>1, <1>2 DEF RotateQuarter
<1> QED
  BY <1>1, <1>3, <1>4, <1>5

\* What comes to each corner.
LEMMA CornersMoved ==
    ASSUME NEW n, NEW k, NEW axis, NEW layer, QuarterMoved(n, k, axis, 1, layer)
    PROVE  /\ axis = "x" /\ layer = 1 =>
                /\ k[Vec(1, 1, 1)] = n[Vec(1, -1, 1)] /\ k[Vec(-1, 1, 1)] = n[Vec(-1, 1, 1)]
                /\ k[Vec(1, -1, 1)] = n[Vec(1, -1, -1)] /\ k[Vec(-1, -1, 1)] = n[Vec(-1, -1, 1)]
                /\ k[Vec(1, 1, -1)] = n[Vec(1, 1, 1)] /\ k[Vec(-1, 1, -1)] = n[Vec(-1, 1, -1)]
                /\ k[Vec(1, -1, -1)] = n[Vec(1, 1, -1)] /\ k[Vec(-1, -1, -1)] = n[Vec(-1, -1, -1)]
           /\ axis = "x" /\ layer = -1 =>
                /\ k[Vec(1, 1, 1)] = n[Vec(1, 1, 1)] /\ k[Vec(-1, 1, 1)] = n[Vec(-1, -1, 1)]
                /\ k[Vec(1, -1, 1)] = n[Vec(1, -1, 1)] /\ k[Vec(-1, -1, 1)] = n[Vec(-1, -1, -1)]
                /\ k[Vec(1, 1, -1)] = n[Vec(1, 1, -1)] /\ k[Vec(-1, 1, -1)] = n[Vec(-1, 1, 1)]
                /\ k[Vec(1, -1, -1)] = n[Vec(1, -1, -1)] /\ k[Vec(-1, -1, -1)] = n[Vec(-1, 1, -1)]
           /\ axis = "y" /\ layer = 1 =>
                /\ k[Vec(1, 1, 1)] = n[Vec(1, 1, -1)] /\ k[Vec(-1, 1, 1)] = n[Vec(1, 1, 1)]
                /\ k[Vec(1, -1, 1)] = n[Vec(1, -1, 1)] /\ k[Vec(-1, -1, 1)] = n[Vec(-1, -1, 1)]
                /\ k[Vec(1, 1, -1)] = n[Vec(-1, 1, -1)] /\ k[Vec(-1, 1, -1)] = n[Vec(-1, 1, 1)]
                /\ k[Vec(1, -1, -1)] = n[Vec(1, -1, -1)] /\ k[Vec(-1, -1, -1)] = n[Vec(-1, -1, -1)]
           /\ axis = "y" /\ layer = -1 =>
                /\ k[Vec(1, 1, 1)] = n[Vec(1, 1, 1)] /\ k[Vec(-1, 1, 1)] = n[Vec(-1, 1, 1)]
                /\ k[Vec(1, -1, 1)] = n[Vec(1, -1, -1)] /\ k[Vec(-1, -1, 1)] = n[Vec(1, -1, 1)]
                /\ k[Vec(1, 1, -1)] = n[Vec(1, 1, -1)] /\ k[Vec(-1, 1, -1)] = n[Vec(-1, 1, -1)]
                /\ k[Vec(1, -1, -1)] = n[Vec(-1, -1, -1)] /\ k[Vec(-1, -1, -1)] = n[Vec(-1, -1, 1)]
           /\ axis = "z" /\ layer = -1 =>
                /\ k[Vec(1, 1, 1)] = n[Vec(1, 1, 1)] /\ k[Vec(-1, 1, 1)] = n[Vec(-1, 1, 1)]
                /\ k[Vec(1, -1, 1)] = n[Vec(1, -1, 1)] /\ k[Vec(-1, -1, 1)] = n[Vec(-1, -1, 1)]
                /\ k[Vec(1, 1, -1)] = n[Vec(-1, 1, -1)] /\ k[Vec(-1, 1, -1)] = n[Vec(-1, -1, -1)]
                /\ k[Vec(1, -1, -1)] = n[Vec(1, 1, -1)] /\ k[Vec(-1, -1, -1)] = n[Vec(1, -1, -1)]
<1>1. 1 \in Sign /\ -1 \in Sign
  BY DEF Sign
<1>2. CASE axis = "x" /\ layer = 1
  <2>1. \A x, y, z \in Sign :
          k[Vec(x, y, z)] = IF x = 1 THEN n[Vec(x, -z, y)] ELSE n[Vec(x, y, z)]
    BY <1>2, CornersBack DEF QuarterMoved
  <2> QED
    BY <1>1, <1>2, <2>1
<1>3. CASE axis = "x" /\ layer = -1
  <2>1. \A x, y, z \in Sign :
          k[Vec(x, y, z)] = IF x = -1 THEN n[Vec(x, -z, y)] ELSE n[Vec(x, y, z)]
    BY <1>3, CornersBack DEF QuarterMoved
  <2> QED
    BY <1>1, <1>3, <2>1
<1>4. CASE axis = "y" /\ layer = 1
  <2>1. \A x, y, z \in Sign :
          k[Vec(x, y, z)] = IF y = 1 THEN n[Vec(z, y, -x)] ELSE n[Vec(x, y, z)]
    BY <1>4, CornersBack DEF QuarterMoved
  <2> QED
    BY <1>1, <1>4, <2>1
<1>5. CASE axis = "y" /\ layer = -1
  <2>1. \A x, y, z \in Sign :
          k[Vec(x, y, z)] = IF y = -1 THEN n[Vec(z, y, -x)] ELSE n[Vec(x, y, z)]
    BY <1>5, CornersBack DEF QuarterMoved
  <2> QED
    BY <1>1, <1>5, <2>1
<1>6. CASE axis = "z" /\ layer = -1
  <2>1. \A x, y, z \in Sign :
          k[Vec(x, y, z)] = IF z = -1 THEN n[Vec(-y, x, z)] ELSE n[Vec(x, y, z)]
    BY <1>6, CornersBack DEF QuarterMoved
  <2> QED
    BY <1>1, <1>6, <2>1
<1> QED
  BY <1>2, <1>3, <1>4, <1>5, <1>6, Zenon

\* A turn forth is undone by the turn back.
LEMMA MovedBack ==
    ASSUME NEW n, NEW k, NEW axis \in Axis, NEW layer, QuarterMoved(n, k, axis, -1, layer)
    PROVE  QuarterMoved(k, n, axis, 1, layer)
<1> SUFFICES ASSUME NEW p \in CornerPosition
             PROVE  n[p] = IF p[axis] = layer THEN k[RotateQuarter(p, axis, -1)] ELSE k[p]
  BY DEF QuarterMoved
<1> DEFINE q == RotateQuarter(p, axis, -1)
<1>1. -(-1) = 1
  <2>1. \A a, b \in Int : a = -b => -a = b
    OBVIOUS
  <2>2. -1 \in Int /\ 1 \in Int
    OBVIOUS
  <2> QED
    BY <2>1, <2>2, Zenon
<1>6. p \in Position
  BY CornersArePositions
<1>2. q[axis] = p[axis] /\ RotateQuarter(q, axis, -(-1)) = p
  BY <1>1, <1>6, QuarterTurn
<1>3. q \in CornerPosition
  <2>1. 1 \in Nat /\ 1 % 4 = 1
    OBVIOUS
  <2> QED
    BY <1>1, <2>1, CornersTurn DEF RotateSteps
<1> HIDE DEF q
<1>4. k[q] = IF q[axis] = layer THEN n[RotateQuarter(q, axis, -(-1))] ELSE n[q]
  BY <1>3, Zenon DEF QuarterMoved
<1>5. k[p] = IF p[axis] = layer THEN n[RotateQuarter(p, axis, -(-1))] ELSE n[p]
  BY Zenon DEF QuarterMoved
<1> QED
  BY <1>2, <1>4, <1>5 DEF q

Numbering == {n \in [CornerPosition -> Int] : \A p, q \in CornerPosition : n[p] = n[q] => p = q}

\* The corners' numbers, when no two share one.
LEMMA EightNumbers ==
    ASSUME NEW n \in Numbering
    PROVE  /\ \A p \in CornerPosition : n[p] \in Int
           /\ AllDifferent(n[Vec(1, 1, 1)], n[Vec(-1, 1, 1)], n[Vec(1, -1, 1)], n[Vec(-1, -1, 1)],
                           n[Vec(1, 1, -1)], n[Vec(-1, 1, -1)],
                           n[Vec(1, -1, -1)], n[Vec(-1, -1, -1)])
<1>1. \A p, q \in CornerPosition : p # q => n[p] # n[q]
  BY DEF Numbering
<1>2. \A x, y, z, u, v, w \in Int : Vec(x, y, z) = Vec(u, v, w) => x = u /\ y = v /\ z = w
  BY DEF Vec
<1>3. \A p \in CornerPosition : n[p] \in Int
  BY DEF Numbering
<1> QED
  BY <1>1, <1>2, <1>3, TheCorners DEF AllDifferent

\* A quarter turn of a face is a cycle of four corners, so an odd permutation.
LEMMA FaceIsOdd ==
    ASSUME NEW n \in Numbering, NEW k \in Numbering, NEW axis \in Axis,
           NEW layer \in Sign, axis = "z" => layer = -1,
           NEW sign \in Sign, QuarterMoved(n, k, axis, sign, layer)
    PROVE  InversionsOf(k) % 2 # InversionsOf(n) % 2
<1>1. ASSUME NEW u \in Numbering, NEW v, QuarterMoved(u, v, axis, 1, layer)
      PROVE  InversionsOf(v) % 2 # InversionsOf(u) % 2
  <2> DEFINE a == u[Vec(1, 1, 1)]
             b == u[Vec(-1, 1, 1)]
             c == u[Vec(1, -1, 1)]
             d == u[Vec(-1, -1, 1)]
             e == u[Vec(1, 1, -1)]
             f == u[Vec(-1, 1, -1)]
             g == u[Vec(1, -1, -1)]
             h == u[Vec(-1, -1, -1)]
  <2>1. InversionsOf(u) = Inversions(a, b, c, d, e, f, g, h)
    BY DEF InversionsOf
  <2>2. /\ a \in Int /\ b \in Int /\ c \in Int /\ d \in Int
        /\ e \in Int /\ f \in Int /\ g \in Int /\ h \in Int
    BY EightNumbers, TheCorners
  <2>3. AllDifferent(a, b, c, d, e, f, g, h)
    BY EightNumbers
  <2>4. axis \in {"x", "y", "z"} /\ (layer = 1 \/ layer = -1)
    BY DEF Axis, Sign
  <2>5. \/ InversionsOf(v) = Inversions(c, b, g, d, a, f, e, h)
        \/ InversionsOf(v) = Inversions(a, d, c, h, e, b, g, f)
        \/ InversionsOf(v) = Inversions(e, a, c, d, f, b, g, h)
        \/ InversionsOf(v) = Inversions(a, b, g, c, e, f, h, d)
        \/ InversionsOf(v) = Inversions(a, b, c, d, f, h, e, g)
    BY <1>1, <2>4, CornersMoved DEF InversionsOf
  <2> HIDE DEF a, b, c, d, e, f, g, h
  <2>6. Inversions(c, b, g, d, a, f, e, h) % 2 # Inversions(a, b, c, d, e, f, g, h) % 2
    BY <2>2, <2>3, CycleXPlus
  <2>7. Inversions(a, d, c, h, e, b, g, f) % 2 # Inversions(a, b, c, d, e, f, g, h) % 2
    BY <2>2, <2>3, CycleXMinus
  <2>8. Inversions(e, a, c, d, f, b, g, h) % 2 # Inversions(a, b, c, d, e, f, g, h) % 2
    BY <2>2, <2>3, CycleYPlus
  <2>9. Inversions(a, b, g, c, e, f, h, d) % 2 # Inversions(a, b, c, d, e, f, g, h) % 2
    BY <2>2, <2>3, CycleYMinus
  <2>10. Inversions(a, b, c, d, f, h, e, g) % 2 # Inversions(a, b, c, d, e, f, g, h) % 2
    BY <2>2, <2>3, CycleZMinus
  <2> QED
    BY <2>1, <2>5, <2>6, <2>7, <2>8, <2>9, <2>10, Zenon
<1>2. CASE sign = 1
  BY <1>1, <1>2
<1>3. CASE sign = -1
  BY <1>1, <1>3, MovedBack
<1> QED
  BY <1>2, <1>3 DEF Sign

\* It keeps sums.
LEMMA FaceKeepsSum ==
    ASSUME NEW n \in [CornerPosition -> Int], NEW k \in [CornerPosition -> Int],
           NEW axis \in {"x", "y"}, NEW layer \in Sign,
           NEW sign \in Sign, QuarterMoved(n, k, axis, sign, layer)
    PROVE  SumOf(k) = SumOf(n)
<1>1. ASSUME NEW u \in [CornerPosition -> Int], NEW v \in [CornerPosition -> Int],
             QuarterMoved(u, v, axis, 1, layer)
      PROVE  SumOf(v) = SumOf(u)
  <2> DEFINE a == u[Vec(1, 1, 1)]
             b == u[Vec(-1, 1, 1)]
             c == u[Vec(1, -1, 1)]
             d == u[Vec(-1, -1, 1)]
             e == u[Vec(1, 1, -1)]
             f == u[Vec(-1, 1, -1)]
             g == u[Vec(1, -1, -1)]
             h == u[Vec(-1, -1, -1)]
  <2>1. SumOf(u) = a + b + c + d + e + f + g + h
    <3>1. \A p \in CornerPosition : u[p] \in Int
      OBVIOUS
    <3> QED
      BY <3>1, TheCorners DEF SumOf
  <2>2. /\ a \in Int /\ b \in Int /\ c \in Int /\ d \in Int
        /\ e \in Int /\ f \in Int /\ g \in Int /\ h \in Int
    BY TheCorners
  <2>3. layer = 1 \/ layer = -1
    BY DEF Sign
  <2>4. \/ SumOf(v) = c + b + g + d + a + f + e + h
        \/ SumOf(v) = a + d + c + h + e + b + g + f
        \/ SumOf(v) = e + a + c + d + f + b + g + h
        \/ SumOf(v) = a + b + g + c + e + f + h + d
    BY <1>1, <2>3, CornersMoved DEF SumOf
  <2> HIDE DEF a, b, c, d, e, f, g, h
  <2> QED
    BY <2>1, <2>2, <2>4
<1>2. CASE sign = 1
  BY <1>1, <1>2
<1>3. CASE sign = -1
  BY <1>1, <1>3, MovedBack DEF Axis
<1> QED
  BY <1>2, <1>3 DEF Sign

\* What is at the corners, and what each cubelet there shows.
IdsOf(slots) == [p \in CornerPosition |-> slots[p].id]

\* No cubelet is at two corners.
LEMMA IdsAreNumbers ==
    ASSUME NEW cube, NEW slots \in [CornerPosition -> Slot], Holds(cube, slots)
    PROVE  IdsOf(slots) \in Numbering
<1>1. \A p \in CornerPosition : slots[p].id \in Int /\ cube[slots[p].id].at = p
  BY DEF Slot, Holds, Id
<1> QED
  BY <1>1 DEF IdsOf, Numbering

\* What shuffle() draws: a quarter turn of a face, or of the layer between the
\* front and the back.
Drawn == [letter : ShuffleLetter, vector : Sign]

\* The twist of a drawn letter, in the words of the lemmas above.
LEMMA DrawnTwist ==
    ASSUME NEW command \in Drawn
    PROVE  /\ Twist(command, 1) \in Twists
           /\ Twist(command, 1).command.letter = command.letter
           /\ AxisOf(command.letter) \in Axis /\ EffectiveSign(Twist(command, 1)) \in Sign
           /\ \A v : Spin(Twist(command, 1), v)
                       = RotateQuarter(v, AxisOf(command.letter), EffectiveSign(Twist(command, 1)))
           /\ \A p : Unspin(Twist(command, 1), p)
                       = RotateQuarter(p, AxisOf(command.letter), -EffectiveSign(Twist(command, 1)))
           /\ \A f : Spun(Twist(command, 1), f)
                       = Quartered(f, AxisOf(command.letter), EffectiveSign(Twist(command, 1)))
<1> DEFINE t == Twist(command, 1)
<1>1. command \in Command /\ command.letter \in Letter
  BY DEF Drawn, Command, ShuffleLetter, Letter
<1>2. t = [command |-> command, turns |-> 1]
  BY DEF Twist
<1>3. t \in Twists /\ t.command = command /\ t.turns = 1
  BY <1>1, <1>2, TwistType
<1> HIDE DEF t
<1>4. 1 % 4 = 1
  OBVIOUS
<1>5. \A v, axis, sign : RotateSteps(v, axis, sign, 1) = RotateQuarter(v, axis, sign)
  BY <1>4 DEF RotateSteps
<1>6. \A v : Spin(t, v) = RotateQuarter(v, AxisOf(command.letter), EffectiveSign(t))
  BY <1>3, <1>5 DEF Spin
<1>7. \A p : Unspin(t, p) = RotateQuarter(p, AxisOf(command.letter), -EffectiveSign(t))
  BY <1>3, <1>5 DEF Unspin
<1>8. \A f : Spun(t, f) = Quartered(f, AxisOf(command.letter), EffectiveSign(t))
  BY <1>6 DEF Spun, Quartered
<1> QED
  BY <1>1, <1>3, <1>6, <1>7, <1>8, AxisOfType, EffectiveSignType DEF t

\* Of the faces, only the one behind is turned about z.
LEMMA DrawnLayers ==
    ASSUME NEW letter \in ShuffleLetter
    PROVE  /\ letter = "S" => AxisOf(letter) = "z" /\ Layers(letter) = {0}
           /\ letter # "S" => \E layer \in Sign : /\ Layers(letter) = {layer}
                                                  /\ AxisOf(letter) = "z" => layer = -1
  BY DEF ShuffleLetter, Layers, AxisOf, Sign

\* The centre made at the top: only the layer between front and back moves it.
TopId == 10

TopInPlane(cube) ==
    cube[TopId].at \in {Vec(0, 1, 0), Vec(1, 0, 0), Vec(0, -1, 0), Vec(-1, 0, 0)}

TopTilt(cube) == IF cube[TopId].at.y = 0 THEN 1 ELSE 0

\* A face holds the top centre out of its layer, or in the middle of it.
LEMMA TopMoves ==
    ASSUME NEW cube \in Cubes, TopInPlane(cube), NEW command \in Drawn
    PROVE  /\ TopInPlane(Turned(cube, Twist(command, 1)))
           /\ command.letter = "S" => TopTilt(Turned(cube, Twist(command, 1))) = 1 - TopTilt(cube)
           /\ command.letter # "S" => TopTilt(Turned(cube, Twist(command, 1))) = TopTilt(cube)
<1> DEFINE t == Twist(command, 1)
           v == cube[TopId].at
           letter == command.letter
           sign == EffectiveSign(t)
<1>1. /\ t.command.letter = letter /\ letter \in ShuffleLetter
      /\ Spin(t, v) = RotateQuarter(v, AxisOf(letter), sign)
      /\ sign = 1 \/ sign = -1
  BY DrawnTwist DEF Drawn, Sign
<1>2. TopId \in Id
  BY DEF TopId, Id
<1> HIDE DEF t
<1>3. Turned(cube, t)[TopId].at =
        IF v[AxisOf(letter)] \in Layers(letter) THEN RotateQuarter(v, AxisOf(letter), sign) ELSE v
  BY <1>1, <1>2, TurnedDef
<1>4. v = Vec(0, 1, 0) \/ v = Vec(1, 0, 0) \/ v = Vec(0, -1, 0) \/ v = Vec(-1, 0, 0)
  BY DEF TopInPlane
<1> DEFINE w == Turned(cube, t)[TopId].at
<1> HIDE DEF v, letter, sign, w
<1>5. /\ w \in {Vec(0, 1, 0), Vec(1, 0, 0), Vec(0, -1, 0), Vec(-1, 0, 0)}
      /\ letter = "S" => (w.y = 0 <=> v.y # 0)
      /\ letter # "S" => w = v
  <2>1. CASE letter = "S"
    <3>1. w = RotateQuarter(v, "z", sign)
      BY <1>3, <1>4, <2>1 DEF AxisOf, Layers, Vec, w
    <3> QED
      BY <1>1, <1>4, <2>1, <3>1 DEF RotateQuarter, Vec
  <2>2. CASE letter # "S"
    <3>1. \/ AxisOf(letter) = "x" /\ (Layers(letter) = {1} \/ Layers(letter) = {-1})
          \/ AxisOf(letter) = "y" /\ (Layers(letter) = {1} \/ Layers(letter) = {-1})
          \/ AxisOf(letter) = "z" /\ Layers(letter) = {-1}
      BY <1>1, <2>2 DEF AxisOf, Layers, ShuffleLetter
    <3>2. w = v
      BY <1>1, <1>3, <1>4, <3>1 DEF RotateQuarter, Vec, w
    <3> QED
      BY <1>4, <2>2, <3>2
  <2> QED
    BY <2>1, <2>2
<1> QED
  BY <1>5 DEF TopInPlane, TopTilt, v, w, t, letter

\* What every twist of the scramble changes the parity of.
Parity(cube, n) ==
    \E slots \in [CornerPosition -> Slot] :
        Holds(cube, slots) /\ (InversionsOf(IdsOf(slots)) + TopTilt(cube)) % 2 = n % 2

\* Out of order is a count.
LEMMA InversionsAreNumbers ==
    ASSUME NEW n
    PROVE  InversionsOf(n) \in Nat
  BY DEF InversionsOf, Inversions, Inverted

\* The layer between front and back holds no corner.
LEMMA MiddleLeavesCorners ==
    ASSUME NEW command \in Drawn, command.letter = "S", NEW slots \in [CornerPosition -> Slot]
    PROVE  SlotsAfter(Twist(command, 1), slots) = slots
<1>1. \A p \in CornerPosition : p["z"] \notin {0}
  BY DEF CornerPosition, Sign
<1>2. AxisOf("S") = "z" /\ Layers("S") = {0} /\ Twist(command, 1).command.letter = "S"
  BY DrawnTwist, DrawnLayers DEF ShuffleLetter
<1> QED
  BY <1>1, <1>2 DEF SlotsAfter

\* A face's turn moves the ids about its layer.
LEMMA FaceMovesIds ==
    ASSUME NEW command \in Drawn, NEW slots \in [CornerPosition -> Slot],
           NEW layer \in Sign, Layers(command.letter) = {layer}
    PROVE  QuarterMoved(IdsOf(slots), IdsOf(SlotsAfter(Twist(command, 1), slots)),
                        AxisOf(command.letter), EffectiveSign(Twist(command, 1)), layer)
<1> DEFINE t == Twist(command, 1)
<1>1. /\ t \in Twists /\ t.command.letter = command.letter
      /\ \A p : Unspin(t, p) = RotateQuarter(p, AxisOf(command.letter), -EffectiveSign(t))
  BY DrawnTwist
<1> HIDE DEF t
<1>2. \A p \in CornerPosition : Unspin(t, p) \in CornerPosition
  BY <1>1, Unspins
<1> SUFFICES ASSUME NEW p \in CornerPosition
             PROVE  IdsOf(SlotsAfter(t, slots))[p]
                      = IF p[AxisOf(command.letter)] = layer
                          THEN IdsOf(slots)[Unspin(t, p)] ELSE IdsOf(slots)[p]
  BY <1>1 DEF QuarterMoved, t
<1> QED
  BY <1>1, <1>2 DEF IdsOf, SlotsAfter

\* One twist of the scramble, one flip.
LEMMA ParityFlips ==
    ASSUME NEW cube \in Cubes, TopInPlane(cube), NEW command \in Drawn, NEW n \in Nat,
           Parity(cube, n)
    PROVE  Parity(Turned(cube, Twist(command, 1)), n + 1)
<1>1. PICK slots \in [CornerPosition -> Slot] :
        Holds(cube, slots) /\ (InversionsOf(IdsOf(slots)) + TopTilt(cube)) % 2 = n % 2
  BY DEF Parity
<1> DEFINE t == Twist(command, 1)
           after == SlotsAfter(t, slots)
           u == InversionsOf(IdsOf(slots))
           v == InversionsOf(IdsOf(after))
           c == TopTilt(cube)
           d == TopTilt(Turned(cube, t))
<1>2. t \in Twists
  BY DrawnTwist
<1>3. after \in [CornerPosition -> Slot] /\ Holds(Turned(cube, t), after)
  BY <1>1, <1>2, HoldsAfter
<1>4. u \in Nat /\ v \in Nat /\ c \in {0, 1} /\ d \in {0, 1}
  BY InversionsAreNumbers DEF TopTilt
<1>5. \/ v = u /\ d = 1 - c
      \/ v % 2 # u % 2 /\ d = c
  <2>1. CASE command.letter = "S"
    BY <2>1, TopMoves, MiddleLeavesCorners
  <2>2. CASE command.letter # "S"
    <3>1. PICK layer \in Sign : /\ Layers(command.letter) = {layer}
                                /\ AxisOf(command.letter) = "z" => layer = -1
      BY <2>2, DrawnLayers DEF Drawn
    <3>2. QuarterMoved(IdsOf(slots), IdsOf(after), AxisOf(command.letter), EffectiveSign(t), layer)
      BY <3>1, FaceMovesIds
    <3>3. IdsOf(slots) \in Numbering /\ IdsOf(after) \in Numbering
      BY <1>1, <1>3, IdsAreNumbers
    <3>4. AxisOf(command.letter) \in Axis /\ EffectiveSign(t) \in Sign
      BY DrawnTwist
    <3> HIDE DEF t, after
    <3>5. v % 2 # u % 2
      BY <3>1, <3>2, <3>3, <3>4, FaceIsOdd
    <3> QED
      BY <2>2, <3>5, TopMoves DEF t
  <2> QED
    BY <2>1, <2>2
<1> HIDE DEF t, after, u, v, c, d
<1>6. (u + c) % 2 = n % 2 /\ n \in Nat
  BY <1>1 DEF u, c
<1>7. (v + d) % 2 = (n + 1) % 2
  BY <1>4, <1>5, <1>6
<1> QED
  BY <1>3, <1>7 DEF Parity, v, d, t

\* The corners as made.
LEMMA CornerIds ==
    /\ 2 \in Id /\ Home(2) = Vec(1, 1, 1) /\ 0 \in Id /\ Home(0) = Vec(-1, 1, 1)
    /\ 8 \in Id /\ Home(8) = Vec(1, -1, 1) /\ 6 \in Id /\ Home(6) = Vec(-1, -1, 1)
    /\ 20 \in Id /\ Home(20) = Vec(1, 1, -1) /\ 18 \in Id /\ Home(18) = Vec(-1, 1, -1)
    /\ 26 \in Id /\ Home(26) = Vec(1, -1, -1) /\ 24 \in Id /\ Home(24) = Vec(-1, -1, -1)
    /\ \A i, j \in Id : Home(i) = Home(j) => i = j
<1>1. /\ 2 \in Id /\ Home(2) = Vec(1, 1, 1) /\ 0 \in Id /\ Home(0) = Vec(-1, 1, 1)
      /\ 8 \in Id /\ Home(8) = Vec(1, -1, 1) /\ 6 \in Id /\ Home(6) = Vec(-1, -1, 1)
  BY DEF Home, AddressToPosition, Vec, Id
<1>2. /\ 20 \in Id /\ Home(20) = Vec(1, 1, -1) /\ 18 \in Id /\ Home(18) = Vec(-1, 1, -1)
      /\ 26 \in Id /\ Home(26) = Vec(1, -1, -1) /\ 24 \in Id /\ Home(24) = Vec(-1, -1, -1)
  BY DEF Home, AddressToPosition, Vec, Id
<1>3. \A i, j \in Id : Home(i) = Home(j) => i = j
  BY AddressToPositionInjective DEF Home
<1> QED
  BY <1>1, <1>2, <1>3

\* Upright, or turned half about the front, the corners are evenly out of order.
LEMMA UprightIsEven ==
    ASSUME NEW slots \in [CornerPosition -> Slot],
           \A p \in CornerPosition : Home(slots[p].id) = p
    PROVE  InversionsOf(IdsOf(slots)) = 4
<1>1. \A p \in CornerPosition : slots[p].id \in Id /\ IdsOf(slots)[p] = slots[p].id
  BY DEF Slot, IdsOf
<1>2. /\ slots[Vec(1, 1, 1)].id = 2 /\ slots[Vec(-1, 1, 1)].id = 0
      /\ slots[Vec(1, -1, 1)].id = 8 /\ slots[Vec(-1, -1, 1)].id = 6
      /\ slots[Vec(1, 1, -1)].id = 20 /\ slots[Vec(-1, 1, -1)].id = 18
      /\ slots[Vec(1, -1, -1)].id = 26 /\ slots[Vec(-1, -1, -1)].id = 24
  BY <1>1, TheCorners, CornerIds
<1>3. InversionsOf(IdsOf(slots)) = Inversions(2, 0, 8, 6, 20, 18, 26, 24)
  BY <1>1, <1>2, TheCorners DEF InversionsOf
<1> QED
  BY <1>3 DEF Inversions, Inverted

\* The same for the half turn.
LEMMA HalfTurnIsEven ==
    ASSUME NEW slots \in [CornerPosition -> Slot],
           \A p \in CornerPosition : Home(slots[p].id) = Vec(-p.x, -p.y, p.z)
    PROVE  InversionsOf(IdsOf(slots)) = 8
<1>1. \A p \in CornerPosition : slots[p].id \in Id /\ IdsOf(slots)[p] = slots[p].id
  BY DEF Slot, IdsOf
<1>2. \A x, y, z : Vec(x, y, z).x = x /\ Vec(x, y, z).y = y /\ Vec(x, y, z).z = z
  BY DEF Vec
<1>3. -(-1) = 1
  <2>1. \A a, b \in Int : a = -b => -a = b
    OBVIOUS
  <2>2. -1 \in Int /\ 1 \in Int
    OBVIOUS
  <2> QED
    BY <2>1, <2>2, Zenon
<1>4. /\ Home(slots[Vec(1, 1, 1)].id) = Vec(-1, -1, 1)
      /\ Home(slots[Vec(-1, 1, 1)].id) = Vec(1, -1, 1)
      /\ Home(slots[Vec(1, -1, 1)].id) = Vec(-1, 1, 1)
      /\ Home(slots[Vec(-1, -1, 1)].id) = Vec(1, 1, 1)
      /\ Home(slots[Vec(1, 1, -1)].id) = Vec(-1, -1, -1)
      /\ Home(slots[Vec(-1, 1, -1)].id) = Vec(1, -1, -1)
      /\ Home(slots[Vec(1, -1, -1)].id) = Vec(-1, 1, -1)
      /\ Home(slots[Vec(-1, -1, -1)].id) = Vec(1, 1, -1)
  BY <1>2, <1>3, TheCorners
<1>5. /\ slots[Vec(1, 1, 1)].id = 6 /\ slots[Vec(-1, 1, 1)].id = 8
      /\ slots[Vec(1, -1, 1)].id = 0 /\ slots[Vec(-1, -1, 1)].id = 2
      /\ slots[Vec(1, 1, -1)].id = 24 /\ slots[Vec(-1, 1, -1)].id = 26
      /\ slots[Vec(1, -1, -1)].id = 18 /\ slots[Vec(-1, -1, -1)].id = 20
  BY <1>1, <1>4, TheCorners, CornerIds
<1>6. InversionsOf(IdsOf(slots)) = Inversions(6, 8, 0, 2, 24, 26, 18, 20)
  BY <1>1, <1>5, TheCorners DEF InversionsOf
<1> QED
  BY <1>6 DEF Inversions, Inverted

\* As made, every corner holds the cubelet made for it, upright.
LEMMA SolvedHolds ==
    \E slots \in [CornerPosition -> Slot] :
        /\ Holds(SolvedCube, slots)
        /\ \A p \in CornerPosition : Home(slots[p].id) = p /\ slots[p].frame = Upright
<1> DEFINE CornerId(p) == CHOOSE id \in Id : Home(id) = p
           slots == [p \in CornerPosition |-> [id |-> CornerId(p), frame |-> Upright]]
<1>1. ASSUME NEW p \in CornerPosition
      PROVE  CornerId(p) \in Id /\ Home(CornerId(p)) = p
  <2>1. p = Vec(p.x, p.y, p.z) /\ p.x \in {-1, 1} /\ p.y \in {-1, 1} /\ p.z \in {-1, 1}
    BY DEF CornerPosition, Vec, Sign
  <2>2. \E id \in Id : Home(id) = p
    BY <2>1, CornerIds
  <2> QED
    BY <2>2
<1> HIDE DEF CornerId
<1>2. /\ slots \in [CornerPosition -> Slot]
      /\ \A p \in CornerPosition : slots[p].id = CornerId(p) /\ slots[p].frame = Upright
  BY <1>1, SolvedIsUpright DEF Slot
<1> HIDE DEF slots
<1>3. \A id \in Id : SolvedCube[id].at = Home(id)
  BY DEF SolvedCube, Home
<1>4. Holds(SolvedCube, slots)
  BY <1>1, <1>2, <1>3, SolvedIsUpright DEF Holds
<1> QED
  BY <1>1, <1>2, <1>4

\* So the parity is even.
LEMMA SolvedIsEven == TopInPlane(SolvedCube) /\ Parity(SolvedCube, 0)
<1>1. PICK slots \in [CornerPosition -> Slot] :
        Holds(SolvedCube, slots) /\ \A p \in CornerPosition : Home(slots[p].id) = p
  BY SolvedHolds
<1>2. InversionsOf(IdsOf(slots)) = 4
  BY <1>1, UprightIsEven
<1>3. TopId \in Id /\ SolvedCube[TopId].at = Vec(0, 1, 0)
  BY DEF SolvedCube, TopId, Id, AddressToPosition, Vec
<1>4. TopInPlane(SolvedCube) /\ TopTilt(SolvedCube) = 0
  BY <1>3 DEF TopInPlane, TopTilt, Vec
<1>5. (4 + 0) % 2 = 0 % 2
  OBVIOUS
<1> QED
  BY <1>1, <1>2, <1>4, <1>5 DEF Parity

\* The parity of the scramble shows on the cube: every twist of it is a cycle of
\* four corners, or else turns the layer between front and back.
ScrambleParity ==
    drags = 0 => TopInPlane(cubelets) /\ Parity(cubelets, shuffled)

\* It is inductive while only the scramble turns the cube.
LEMMA ScrambleParityKept ==
    ASSUME CubeTypeOK, ScrambleParity, [CubeNext]_vars
    PROVE  ScrambleParity'
<1>1. CASE Shuffle
  <2>1. PICK command \in Drawn : cubelets' = Turned(cubelets, Twist(command, 1))
    BY <1>1 DEF Shuffle, Drawn
  <2>2. cubelets \in Cubes /\ shuffled \in Nat /\ shuffled' = shuffled + 1 /\ drags' = drags
    BY <1>1 DEF Shuffle, CubeTypeOK, Cubes
  <2> QED
    BY <2>1, <2>2, TopMoves, ParityFlips DEF ScrambleParity
<1>2. CASE CommitDrag
  <2>1. drags' # 0
    BY <1>2 DEF CommitDrag, CubeTypeOK
  <2> QED
    BY <2>1 DEF ScrambleParity
<1>3. CASE UNCHANGED vars
  BY <1>3 DEF vars, ScrambleParity, Parity, Holds, TopInPlane, TopTilt
<1> QED
  BY <1>1, <1>2, <1>3 DEF CubeNext

\* Where a rotation about the front takes the corners.
LEMMA AboutFront ==
    ASSUME NEW f \in Frame, f.z = Front
    PROVE  /\ f.y = Vec(0, 1, 0) => /\ f = Upright
                                    /\ \A p \in Position : Image(f, p) = p
           /\ f.y = Vec(0, -1, 0) => \A p \in Position : Image(f, p) = Vec(-p.x, -p.y, p.z)
           /\ f.y = Vec(1, 0, 0) => f = Spun(Whole("Z", 1), Upright)
           /\ f.y = Vec(-1, 0, 0) => f = Spun(Whole("Z", 3), Upright)
           /\ f.y \in {Vec(0, 1, 0), Vec(0, -1, 0), Vec(1, 0, 0), Vec(-1, 0, 0)}
<1>1. f.x \in Direction /\ f.y \in Direction /\ f.x = ThirdOf(f.y, f.z) /\ f.z = ThirdOf(f.x, f.y)
  BY FrameAxes
<1>2. f = [x |-> f.x, y |-> f.y, z |-> f.z]
  BY DEF Frame
<1>3. f.y \in {Vec(0, 1, 0), Vec(0, -1, 0), Vec(1, 0, 0), Vec(-1, 0, 0)}
  BY <1>1 DEF Direction, Front, Vec, ThirdOf
<1>4. /\ f.y = Vec(0, 1, 0) => f.x = Vec(1, 0, 0)
      /\ f.y = Vec(0, -1, 0) => f.x = Vec(-1, 0, 0)
      /\ f.y = Vec(1, 0, 0) => f.x = Vec(0, -1, 0)
      /\ f.y = Vec(-1, 0, 0) => f.x = Vec(0, 1, 0)
  BY <1>1 DEF Front, Vec, ThirdOf
<1>5. f.y = Vec(0, 1, 0) => f = Upright
  BY <1>2, <1>4 DEF Upright
<1>6. f.y = Vec(0, 1, 0) => \A p \in Position : Image(f, p) = p
  BY <1>4, <1>5 DEF Upright, Image, Plus, Multiple, Vec, Front, Position, Coord
<1>7. f.y = Vec(0, -1, 0) => \A p \in Position : Image(f, p) = Vec(-p.x, -p.y, p.z)
  BY <1>4 DEF Image, Plus, Multiple, Vec, Front, Position, Coord
<1>8. Upright = FrameOf(Vec(1, 0, 0), Vec(0, 1, 0)) /\ Upright \in Frame
      /\ Vec(1, 0, 0) \in Direction /\ Vec(0, 1, 0) \in Direction
  BY SolvedIsUpright DEF Upright, FrameOf, ThirdOf, Vec, Front, Direction
<1>9. /\ Spun(Whole("Z", 1), Upright) = FrameOf(Vec(0, -1, 0), Vec(1, 0, 0))
      /\ Spun(Whole("Z", 3), Upright) = FrameOf(Vec(0, 1, 0), Vec(-1, 0, 0))
  BY <1>8, AboutZ DEF Vec
<1>10. f = FrameOf(f.x, f.y)
  BY <1>1, <1>2 DEF FrameOf
<1> QED
  BY <1>3, <1>4, <1>5, <1>6, <1>7, <1>9, <1>10

\* A solved cube whose front centre is at the front and whose parity is odd is
\* turned by a quarter.
LEMMA OddIsQuarterTurned ==
    ASSUME NEW cube \in Cubes, NEW f \in Frame, ShowsAll(cube, f),
           cube[LogoId].at = Front, NEW n \in Nat, n % 2 = 1, Parity(cube, n)
    PROVE  /\ f.z = Front /\ (f.y = Vec(1, 0, 0) \/ f.y = Vec(-1, 0, 0))
           /\ \/ cube = Turned(SolvedCube, Whole("Z", 1))
              \/ cube = Turned(SolvedCube, Whole("Z", 3))
<1>1. /\ LogoId \in Id /\ Home(LogoId) = Front /\ TopId \in Id /\ Home(TopId) = Vec(0, 1, 0)
  BY DEF LogoId, TopId, Id, Home, AddressToPosition, Vec, Front
<1>2. cube[LogoId].at = Image(f, Front) /\ cube[TopId].at = Image(f, Vec(0, 1, 0))
  BY <1>1 DEF ShowsAll, Shows
<1>3. f.z = Front /\ cube[TopId].at = f.y
  BY <1>2, ImageOfAxes DEF Front
<1>4. PICK slots \in [CornerPosition -> Slot] :
        Holds(cube, slots) /\ (InversionsOf(IdsOf(slots)) + TopTilt(cube)) % 2 = n % 2
  BY DEF Parity
<1>5. \A p \in CornerPosition : /\ slots[p].id \in Id
                                /\ Home(slots[p].id) \in Position
                                /\ p = Image(f, Home(slots[p].id))
  BY <1>4, AddressToPositionInjective DEF Holds, Slot, ShowsAll, Shows, Home
<1>6. f.y # Vec(0, 1, 0)
  <2> SUFFICES ASSUME f.y = Vec(0, 1, 0) PROVE FALSE
    OBVIOUS
  <2>1. \A p \in CornerPosition : Home(slots[p].id) = p
    BY <1>3, <1>5, AboutFront
  <2>2. TopTilt(cube) = 0
    BY <1>3 DEF TopTilt, Vec
  <2>3. (4 + 0) % 2 = 1
    BY <1>4, <2>1, <2>2, UprightIsEven
  <2> QED
    BY <2>3
<1>7. f.y # Vec(0, -1, 0)
  <2> SUFFICES ASSUME f.y = Vec(0, -1, 0) PROVE FALSE
    OBVIOUS
  <2>1. \A p \in Position : Image(f, p) = Vec(-p.x, -p.y, p.z)
    BY <1>3, AboutFront
  <2>2. \A h \in Position : Vec(-Vec(-h.x, -h.y, h.z).x, -Vec(-h.x, -h.y, h.z).y,
                                Vec(-h.x, -h.y, h.z).z) = h
    BY DEF Position, Coord, Vec
  <2>3. \A p \in CornerPosition : Home(slots[p].id) = Vec(-p.x, -p.y, p.z)
    BY <1>5, <2>1, <2>2
  <2>4. TopTilt(cube) = 0
    BY <1>3 DEF TopTilt, Vec
  <2>5. (8 + 0) % 2 = 1
    BY <1>4, <2>3, <2>4, HalfTurnIsEven
  <2> QED
    BY <2>5
<1>8. f.y = Vec(1, 0, 0) \/ f.y = Vec(-1, 0, 0)
  BY <1>3, <1>6, <1>7, AboutFront
<1>9. SolvedCube \in Cubes /\ Upright \in Frame /\ ShowsAll(SolvedCube, Upright)
  BY SolvedCubeType, SolvedIsUpright DEF ShowsAll
<1>10. \A m \in 0..3 : /\ Turned(SolvedCube, Whole("Z", m)) \in Cubes
                       /\ ShowsAll(Turned(SolvedCube, Whole("Z", m)), Spun(Whole("Z", m), Upright))
  BY <1>9, WholeShows
<1>11. 1 \in 0..3 /\ 3 \in 0..3
  OBVIOUS
<1>12. \/ cube = Turned(SolvedCube, Whole("Z", 1))
       \/ cube = Turned(SolvedCube, Whole("Z", 3))
  BY <1>3, <1>8, <1>10, <1>11, AboutFront, RotationDetermines
<1> QED
  BY <1>3, <1>8, <1>12

\* So it is an invariant.
LEMMA ParityInvariant == CubeSpec => []ScrambleParity
<1>1. CubeInit => ScrambleParity
  BY SolvedIsEven DEF CubeInit, ScrambleParity
<1>2. CubeTypeOK /\ ScrambleParity /\ [CubeNext]_vars => ScrambleParity'
  BY ScrambleParityKept
<1> QED
  BY <1>1, <1>2, CubeTypeCorrect, PTL DEF CubeSpec

\* The one way an odd scramble, however long, can come out solved: as the solved
\* cube turned a quarter about its front.
OddScrambleIsTurned ==
    shuffled % 2 = 1 /\ drags = 0 /\ IsSolved(cubelets) =>
        cubelets \in {Turned(SolvedCube, Whole("Z", 1)), Turned(SolvedCube, Whole("Z", 3))}

\* isSolved() never holds after an odd scramble but in that position.
THEOREM CubeOddScrambleIsTurned == CubeSpec => []OddScrambleIsTurned
<1>1. CubeTypeOK /\ LogoStays /\ CubeletsRotated /\ ScrambleParity => OddScrambleIsTurned
  <2> SUFFICES ASSUME CubeTypeOK, LogoStays, CubeletsRotated, ScrambleParity,
                      shuffled % 2 = 1, drags = 0, IsSolved(cubelets)
               PROVE  \/ cubelets = Turned(SolvedCube, Whole("Z", 1))
                      \/ cubelets = Turned(SolvedCube, Whole("Z", 3))
    BY DEF OddScrambleIsTurned
  <2>1. cubelets \in Cubes /\ shuffled \in Nat
    BY DEF CubeTypeOK, Cubes
  <2>2. PICK f \in Frame : ShowsAll(cubelets, f)
    BY SolvedShowsOneColor, OneRotation DEF CubeletsRotated
  <2>3. cubelets[LogoId].at = Front
    BY DEF LogoStays, SolvedCube, LogoId, Id, AddressToPosition, Vec, Front
  <2> QED
    BY <2>1, <2>2, <2>3, OddIsQuarterTurned DEF ScrambleParity
<1> QED
  BY <1>1, CubeTypeCorrect, CubeLogoStays, RotatedInvariant, ParityInvariant, PTL

\* How many quarter turns about x and y a rotation takes: half turns apart, it
\* is one of the six ways to lay three axes along three.
Weight(f) ==
    IF f.z.z # 0 THEN (IF f.y.y # 0 THEN 0 ELSE 3)
                 ELSE IF f.x.x # 0 \/ f.y.y # 0 THEN 1 ELSE 2

\* A quarter turn about x or y is one step between those ways.
LEMMA QuarterWeighs ==
    ASSUME NEW f \in Frame, NEW axis \in {"x", "y"}, NEW sign \in Sign
    PROVE  Weight(Quartered(f, axis, sign)) <= Weight(f) + 1
<1>1. /\ f.x \in Direction /\ f.y \in Direction /\ f.z = ThirdOf(f.x, f.y)
      /\ f.x.x * f.y.x + f.x.y * f.y.y + f.x.z * f.y.z = 0
  BY FrameAxes
<1>2. f.x \in Vector /\ f.y \in Vector /\ f.z \in Vector
  BY PositionsAreVectors DEF Frame
<1>3. \A a \in Int : sign * a = 0 <=> a = 0
  BY DEF Sign
<1>4. \A a \in Int : -sign * a = 0 <=> a = 0
  BY DEF Sign
<1>5. CASE axis = "x"
  <2> DEFINE g == Quartered(f, "x", sign)
  <2>1. \A v \in Vector : /\ RotateQuarter(v, "x", sign).x = v.x
                          /\ RotateQuarter(v, "x", sign).y = sign * v.z
                          /\ RotateQuarter(v, "x", sign).z = -sign * v.y
    BY DEF RotateQuarter, Vec
  <2>2. /\ g.x = RotateQuarter(f.x, "x", sign) /\ g.y = RotateQuarter(f.y, "x", sign)
        /\ g.z = RotateQuarter(f.z, "x", sign)
    BY DEF Quartered
  <2>3. /\ g.x.x = f.x.x /\ g.y.y = sign * f.y.z /\ g.z.z = -sign * f.z.y
        /\ f.y.z \in Int /\ f.z.y \in Int
    BY <1>2, <2>1, <2>2 DEF Vector
  <2>4. (g.y.y # 0 <=> f.y.z # 0) /\ (g.z.z # 0 <=> f.z.y # 0) /\ (g.x.x # 0 <=> f.x.x # 0)
    BY <1>3, <1>4, <2>3
  <2> HIDE DEF g
  <2>5. Weight(g) = IF f.z.y # 0 THEN (IF f.y.z # 0 THEN 0 ELSE 3)
                                 ELSE IF f.x.x # 0 \/ f.y.z # 0 THEN 1 ELSE 2
    BY <2>4 DEF Weight
  <2>6. Weight(g) <= Weight(f) + 1
    BY <1>1, <2>5 DEF Weight, ThirdOf, Direction, Front, Vec
  <2> QED
    BY <1>5, <2>6 DEF g
<1>6. CASE axis = "y"
  <2> DEFINE g == Quartered(f, "y", sign)
  <2>1. \A v \in Vector : /\ RotateQuarter(v, "y", sign).x = -sign * v.z
                          /\ RotateQuarter(v, "y", sign).y = v.y
                          /\ RotateQuarter(v, "y", sign).z = sign * v.x
    BY DEF RotateQuarter, Vec
  <2>2. /\ g.x = RotateQuarter(f.x, "y", sign) /\ g.y = RotateQuarter(f.y, "y", sign)
        /\ g.z = RotateQuarter(f.z, "y", sign)
    BY DEF Quartered
  <2>3. /\ g.x.x = -sign * f.x.z /\ g.y.y = f.y.y /\ g.z.z = sign * f.z.x
        /\ f.x.z \in Int /\ f.z.x \in Int
    BY <1>2, <2>1, <2>2 DEF Vector
  <2>4. (g.x.x # 0 <=> f.x.z # 0) /\ (g.z.z # 0 <=> f.z.x # 0) /\ (g.y.y # 0 <=> f.y.y # 0)
    BY <1>3, <1>4, <2>3
  <2> HIDE DEF g
  <2>5. Weight(g) = IF f.z.x # 0 THEN (IF f.y.y # 0 THEN 0 ELSE 3)
                                 ELSE IF f.x.z # 0 \/ f.y.y # 0 THEN 1 ELSE 2
    BY <2>4 DEF Weight
  <2>6. Weight(g) <= Weight(f) + 1
    BY <1>1, <2>5 DEF Weight, ThirdOf, Direction, Front, Vec
  <2> QED
    BY <1>6, <2>6 DEF g
<1> QED
  BY <1>5, <1>6

WeightsOf(slots) == [p \in CornerPosition |-> Weight(slots[p].frame)]

\* A layer has four corners.
LEMMA FourRise ==
    ASSUME NEW c \in [CornerPosition -> Int], NEW w \in [CornerPosition -> Int],
           NEW axis \in {"x", "y"}, NEW layer \in Sign,
           \A p \in CornerPosition : w[p] <= c[p] + (IF p[axis] = layer THEN 1 ELSE 0)
    PROVE  SumOf(w) <= SumOf(c) + 4
<1>1. \A p \in CornerPosition : c[p] \in Int /\ w[p] \in Int
  OBVIOUS
<1>2. layer = 1 \/ layer = -1
  BY DEF Sign
<1>3. \A x, y, z : Vec(x, y, z)["x"] = x /\ Vec(x, y, z)["y"] = y
  BY DEF Vec
<1>4. \A x, y, z \in Sign :
        w[Vec(x, y, z)] <= c[Vec(x, y, z)]
                             + (IF (IF axis = "x" THEN x ELSE y) = layer THEN 1 ELSE 0)
  <2> SUFFICES ASSUME NEW x \in Sign, NEW y \in Sign, NEW z \in Sign
               PROVE  w[Vec(x, y, z)] <= c[Vec(x, y, z)]
                        + (IF (IF axis = "x" THEN x ELSE y) = layer THEN 1 ELSE 0)
    OBVIOUS
  <2>1. Vec(x, y, z) \in CornerPosition
    BY DEF CornerPosition, Vec
  <2> QED
    BY <1>3, <2>1
<1>5. 1 \in Sign /\ -1 \in Sign
  BY DEF Sign
<1> QED
  BY <1>1, <1>2, <1>4, <1>5, TheCorners DEF SumOf

\* So a quarter turn of a face about x or y adds four to the weight of the corners.
LEMMA FaceWeighs ==
    ASSUME NEW command \in Drawn, NEW slots \in [CornerPosition -> Slot],
           AxisOf(command.letter) \in {"x", "y"},
           NEW layer \in Sign, Layers(command.letter) = {layer}
    PROVE  SumOf(WeightsOf(SlotsAfter(Twist(command, 1), slots))) <= SumOf(WeightsOf(slots)) + 4
<1> DEFINE t == Twist(command, 1)
           axis == AxisOf(command.letter)
           sign == EffectiveSign(t)
           n == WeightsOf(slots)
           w == WeightsOf(SlotsAfter(t, slots))
           c == [p \in CornerPosition |-> IF p[axis] = layer THEN n[Unspin(t, p)] ELSE n[p]]
<1>1. /\ t \in Twists /\ t.command.letter = command.letter /\ sign \in Sign
      /\ \A p : Unspin(t, p) = RotateQuarter(p, axis, -sign)
      /\ \A f : Spun(t, f) = Quartered(f, axis, sign)
  BY DrawnTwist
<1>2. \A p \in CornerPosition : Unspin(t, p) \in CornerPosition
  BY <1>1, Unspins
<1>3. \A p \in CornerPosition : slots[p].frame \in Frame
  BY DEF Slot
<1>4. \A f \in Frame : Spun(t, f) \in Frame /\ Weight(Spun(t, f)) <= Weight(f) + 1
  BY <1>1, QuarterWeighs, SpunImage
<1>5. \A f : Weight(f) \in Int
  BY DEF Weight
<1> HIDE DEF t, axis, sign
<1>6. /\ n \in [CornerPosition -> Int] /\ w \in [CornerPosition -> Int]
      /\ c \in [CornerPosition -> Int]
  BY <1>2, <1>5 DEF WeightsOf
<1>7. QuarterMoved(n, c, axis, sign, layer)
  BY <1>1 DEF QuarterMoved
<1>8. SumOf(c) = SumOf(n)
  <2> HIDE DEF n, c
  <2> QED
    BY <1>1, <1>6, <1>7, FaceKeepsSum DEF axis
<1>9. \A p \in CornerPosition : w[p] <= c[p] + (IF p[axis] = layer THEN 1 ELSE 0)
  <2> SUFFICES ASSUME NEW p \in CornerPosition
               PROVE  w[p] <= c[p] + (IF p[axis] = layer THEN 1 ELSE 0)
    OBVIOUS
  <2>1. CASE p[axis] = layer
    <3> DEFINE o == Unspin(t, p)
    <3>1. o \in CornerPosition
      BY <1>2
    <3> HIDE DEF o
    <3>2. w[p] = Weight(Spun(t, slots[o].frame))
      BY <1>1, <2>1 DEF WeightsOf, SlotsAfter, axis, o
    <3>3. c[p] = Weight(slots[o].frame)
      BY <2>1, <3>1 DEF WeightsOf, o
    <3> QED
      BY <1>3, <1>4, <2>1, <3>1, <3>2, <3>3
  <2>2. CASE p[axis] # layer
    <3>1. w[p] = Weight(slots[p].frame) /\ c[p] = Weight(slots[p].frame)
      BY <1>1, <2>2 DEF WeightsOf, SlotsAfter, axis
    <3> QED
      BY <1>5, <2>2, <3>1
  <2> QED
    BY <2>1, <2>2
<1> HIDE DEF n, w, c
<1>10. SumOf(w) <= SumOf(c) + 4
  BY <1>6, <1>9, FourRise DEF axis
<1> QED
  BY <1>8, <1>10 DEF w, n, t

\* A cubelet that no other letter of the scramble moves before its own does.
MarkOf(letter) ==
    CASE letter = "U" -> 1 [] letter = "R" -> 5 [] letter = "D" -> 7
      [] letter = "L" -> 3 [] letter = "S" -> TopId

Marked == {"U", "R", "D", "L", "S"}

\* The marks, and where they are made.
LEMMA Marks ==
    /\ MarkOf("U") = 1 /\ Home(1) = Vec(0, 1, 1) /\ MarkOf("R") = 5 /\ Home(5) = Vec(1, 0, 1)
    /\ MarkOf("D") = 7 /\ Home(7) = Vec(0, -1, 1) /\ MarkOf("L") = 3 /\ Home(3) = Vec(-1, 0, 1)
    /\ MarkOf("S") = 10 /\ Home(10) = Vec(0, 1, 0)
    /\ 1 \in Id /\ 3 \in Id /\ 5 \in Id /\ 7 \in Id /\ 10 \in Id
  BY DEF MarkOf, TopId, Home, AddressToPosition, Vec, Id

\* Another letter's layers miss a mark, or turn about it.
LEMMA MarkStays ==
    ASSUME NEW cube \in Cubes, NEW letter \in Marked,
           cube[MarkOf(letter)].at = Home(MarkOf(letter)),
           NEW command \in Drawn, command.letter # letter
    PROVE  Turned(cube, Twist(command, 1))[MarkOf(letter)].at = Home(MarkOf(letter))
<1> DEFINE t == Twist(command, 1)
           id == MarkOf(letter)
           v == Home(id)
           other == command.letter
<1>1. /\ t.command.letter = other /\ other \in ShuffleLetter
      /\ EffectiveSign(t) = 1 \/ EffectiveSign(t) = -1
      /\ \A u : Spin(t, u) = RotateQuarter(u, AxisOf(other), EffectiveSign(t))
  BY DrawnTwist DEF Drawn, Sign
<1>2. id \in Id
  BY Marks DEF Marked
<1> HIDE DEF t
<1>3. Turned(cube, t)[id].at =
        IF v[AxisOf(other)] \in Layers(other) THEN RotateQuarter(v, AxisOf(other), EffectiveSign(t))
                                              ELSE v
  BY <1>1, <1>2, TurnedDef
<1>4. \/ v[AxisOf(other)] \notin Layers(other)
      \/ v = Vec(0, 1, 0) /\ AxisOf(other) = "y"
  BY <1>1, Marks DEF Marked, ShuffleLetter, AxisOf, Layers, Vec
<1>5. \A sign \in {1, -1} : RotateQuarter(Vec(0, 1, 0), "y", sign) = Vec(0, 1, 0)
  BY DEF RotateQuarter, Vec
<1> QED
  BY <1>1, <1>3, <1>4, <1>5 DEF t

\* What is known of a scramble of n twists from what it used of each letter: the
\* mark of a letter it did not use is where it was, and without B, which turns
\* about z, the corners weigh at most four a turn of a face.
Tally(cube, n, uses) ==
    /\ n = uses["U"] + uses["R"] + uses["D"] + uses["L"] + uses["S"] + uses["B"]
    /\ \A letter \in Marked :
          uses[letter] = 0 => cube[MarkOf(letter)].at = Home(MarkOf(letter))
    /\ uses["B"] = 0 =>
          \E slots \in [CornerPosition -> Slot] :
             /\ Holds(cube, slots)
             /\ SumOf(WeightsOf(slots)) <= 4 * (uses["U"] + uses["R"] + uses["D"] + uses["L"])

\* A twist adds one to its letter.
LEMMA TallyKept ==
    ASSUME NEW cube \in Cubes, NEW n \in Nat, NEW uses \in [ShuffleLetter -> Nat],
           Tally(cube, n, uses), NEW command \in Drawn
    PROVE  \E more \in [ShuffleLetter -> Nat] : Tally(Turned(cube, Twist(command, 1)), n + 1, more)
<1> DEFINE t == Twist(command, 1)
           mine == command.letter
           more == [uses EXCEPT ![mine] = @ + 1]
           after == Turned(cube, t)
           Faces(u) == u["U"] + u["R"] + u["D"] + u["L"]
<1>1. mine \in ShuffleLetter /\ t \in Twists
  BY DrawnTwist DEF Drawn
<1>2. /\ more \in [ShuffleLetter -> Nat]
      /\ \A letter \in ShuffleLetter :
            more[letter] = IF letter = mine THEN uses[letter] + 1 ELSE uses[letter]
  BY <1>1
<1>3. \A letter \in ShuffleLetter : uses[letter] \in Nat
  OBVIOUS
<1>4. /\ "U" \in ShuffleLetter /\ "R" \in ShuffleLetter /\ "D" \in ShuffleLetter
      /\ "L" \in ShuffleLetter /\ "S" \in ShuffleLetter /\ "B" \in ShuffleLetter
  BY DEF ShuffleLetter
<1> HIDE DEF more, t
<1>5. n + 1 = more["U"] + more["R"] + more["D"] + more["L"] + more["S"] + more["B"]
  <2>1. n = uses["U"] + uses["R"] + uses["D"] + uses["L"] + uses["S"] + uses["B"]
    BY DEF Tally
  <2>2. \/ mine = "U" \/ mine = "R" \/ mine = "D" \/ mine = "L" \/ mine = "S" \/ mine = "B"
    BY <1>1 DEF ShuffleLetter
  <2> HIDE DEF mine
  <2> DEFINE One(letter) == IF letter = mine THEN 1 ELSE 0
  <2>3. \A letter \in ShuffleLetter : more[letter] = uses[letter] + One(letter)
    BY <1>2, <1>3
  <2>4. One("U") + One("R") + One("D") + One("L") + One("S") + One("B") = 1
    BY <2>2
  <2>5. \A letter : One(letter) \in Int
    OBVIOUS
  <2> HIDE DEF One
  <2> QED
    BY <1>3, <1>4, <2>1, <2>3, <2>4, <2>5
<1>6. ASSUME NEW letter \in Marked, more[letter] = 0
      PROVE  after[MarkOf(letter)].at = Home(MarkOf(letter))
  <2>1. letter \in ShuffleLetter
    BY DEF Marked, ShuffleLetter
  <2>2. letter # mine /\ uses[letter] = 0
    BY <1>2, <1>3, <1>6, <2>1
  <2>3. cube[MarkOf(letter)].at = Home(MarkOf(letter))
    BY <2>2 DEF Tally
  <2> QED
    BY <2>2, <2>3, MarkStays DEF t
<1>7. ASSUME more["B"] = 0
      PROVE  \E slots \in [CornerPosition -> Slot] :
                Holds(after, slots) /\ SumOf(WeightsOf(slots)) <= 4 * Faces(more)
  <2>1. mine # "B" /\ uses["B"] = 0
    BY <1>2, <1>3, <1>4, <1>7
  <2>2. PICK slots \in [CornerPosition -> Slot] :
          Holds(cube, slots) /\ SumOf(WeightsOf(slots)) <= 4 * Faces(uses)
    BY <2>1 DEF Tally
  <2> DEFINE now == SlotsAfter(t, slots)
             w == SumOf(WeightsOf(slots))
             x == SumOf(WeightsOf(now))
  <2>3. now \in [CornerPosition -> Slot] /\ Holds(after, now)
    BY <1>1, <2>2, HoldsAfter
  <2>4. w \in Int /\ x \in Int
    <3>1. \A f : Weight(f) \in Int
      BY DEF Weight
    <3>2. /\ \A p \in CornerPosition : WeightsOf(slots)[p] \in Int
          /\ \A p \in CornerPosition : WeightsOf(now)[p] \in Int
      BY <3>1 DEF WeightsOf
    <3> HIDE DEF now
    <3> QED
      BY <3>2, TheCorners DEF SumOf
  <2>5. CASE mine = "S"
    <3>1. now = slots
      BY <2>5, MiddleLeavesCorners DEF t
    <3>2. Faces(more) = Faces(uses)
      BY <1>2, <1>3, <1>4, <2>5
    <3> QED
      BY <2>2, <2>3, <3>1, <3>2
  <2>6. CASE mine # "S"
    <3>1. PICK layer \in Sign : Layers(mine) = {layer}
      BY <1>1, <2>6, DrawnLayers
    <3>2. AxisOf(mine) \in {"x", "y"} /\ mine \in {"U", "R", "D", "L"}
      BY <1>1, <2>1, <2>6 DEF ShuffleLetter, AxisOf
    <3>3. x <= w + 4
      BY <3>1, <3>2, FaceWeighs DEF t
    <3>4. Faces(more) = Faces(uses) + 1 /\ Faces(uses) \in Nat
      <4>1. mine = "U" \/ mine = "R" \/ mine = "D" \/ mine = "L"
        BY <3>2
      <4> HIDE DEF mine
      <4> QED
        BY <1>2, <1>3, <1>4, <4>1
    <3>5. w <= 4 * Faces(uses)
      BY <2>2
    <3> HIDE DEF w, x, Faces
    <3>6. x <= 4 * Faces(more)
      BY <2>4, <3>3, <3>4, <3>5
    <3> QED
      BY <2>3, <3>6 DEF x
  <2> QED
    BY <2>5, <2>6
<1>8. Tally(after, n + 1, more)
  BY <1>5, <1>6, <1>7 DEF Tally
<1> QED
  BY <1>2, <1>8 DEF t

\* As made, nothing was used and nothing weighs.
LEMMA SolvedTally == \E uses \in [ShuffleLetter -> Nat] : Tally(SolvedCube, 0, uses)
<1> DEFINE uses == [letter \in ShuffleLetter |-> 0]
<1>1. PICK slots \in [CornerPosition -> Slot] :
        Holds(SolvedCube, slots) /\ \A p \in CornerPosition : slots[p].frame = Upright
  BY SolvedHolds
<1>2. \A id \in Id : SolvedCube[id].at = Home(id)
  BY DEF SolvedCube, Home
<1>3. \A p \in CornerPosition : WeightsOf(slots)[p] = 0
  BY <1>1 DEF WeightsOf, Weight, Upright, Vec, Front
<1>4. SumOf(WeightsOf(slots)) = 0
  BY <1>3, TheCorners DEF SumOf
<1>5. uses \in [ShuffleLetter -> Nat] /\ \A letter \in ShuffleLetter : uses[letter] = 0
  OBVIOUS
<1>6. \A letter \in Marked : MarkOf(letter) \in Id
  BY Marks DEF Marked
<1> HIDE DEF uses
<1>7. Tally(SolvedCube, 0, uses)
  BY <1>1, <1>2, <1>4, <1>5, <1>6 DEF Tally, ShuffleLetter
<1> QED
  BY <1>5, <1>7

\* A cubelet at a corner of a cube turned a quarter about its front is turned
\* just as the cube is, and so weighs three.
LEMMA QuarterTurnedWeighs ==
    ASSUME NEW cube \in Cubes, NEW f \in Frame, ShowsAll(cube, f), f.z = Front,
           f.y = Vec(1, 0, 0) \/ f.y = Vec(-1, 0, 0),
           NEW slots \in [CornerPosition -> Slot], Holds(cube, slots)
    PROVE  SumOf(WeightsOf(slots)) = 24
<1>1. ASSUME NEW p \in CornerPosition
      PROVE  Weight(slots[p].frame) = 3
  <2> DEFINE id == slots[p].id
             g == slots[p].frame
             h == Home(id)
  <2>1. /\ id \in Id /\ g \in Frame /\ h \in Position
        /\ cube[id].at = p /\ Shows(cube[id], id, g) /\ Shows(cube[id], id, f)
    BY AddressToPositionInjective DEF Slot, Holds, ShowsAll, Home
  <2> HIDE DEF id, g
  <2>2. f.x = ThirdOf(f.y, f.z)
    BY FrameAxes
  <2>3. p = Image(f, h)
    BY <2>1 DEF Shows
  <2>4. h.y # 0 /\ h.z # 0
    <3>1. h.x \in Coord /\ h.y \in Coord /\ h.z \in Coord
      BY <2>1 DEF Position
    <3>2. p.x # 0 /\ p.z # 0
      BY DEF CornerPosition, Sign
    <3> HIDE DEF h
    <3> QED
      BY <2>2, <2>3, <3>1, <3>2 DEF Image, Plus, Multiple, ThirdOf, Vec, Front, Coord
  <2>5. ASSUME NEW d \in Direction, OnSide(h, d)
        PROVE  Image(g, d) = Image(f, d)
    <3>1. PICK e \in Direction : Image(g, e) = Image(f, d)
      BY <2>1, ImageOnto, ImageOfDirection
    <3>2. cube[id].faces[Image(f, d)] = Palette(d)
      BY <2>1, <2>5 DEF Shows, SolvedFaces
    <3>3. cube[id].faces[Image(g, e)] = SolvedFaces(h)[e]
      BY <2>1 DEF Shows
    <3>4. SolvedFaces(h)[e] = Palette(d) /\ Palette(d) # "none"
      <4>1. Palette(d) # "none"
        BY DEF Palette, Direction, Front, Vec
      <4> QED
        BY <3>1, <3>2, <3>3, <4>1
    <3>5. Palette(e) = Palette(d)
      <4> HIDE DEF h
      <4> QED
        BY <3>4 DEF SolvedFaces
    <3> QED
      BY <3>1, <3>5, PaletteInjective
  <2>6. /\ h.y = 1 \/ h.y = -1
        /\ h.z = 1 \/ h.z = -1
    BY <2>1, <2>4 DEF Position, Coord
  <2>7. /\ h.y = 1 => Image(g, Vec(0, 1, 0)) = Image(f, Vec(0, 1, 0))
        /\ h.y = -1 => Image(g, Vec(0, -1, 0)) = Image(f, Vec(0, -1, 0))
        /\ h.z = 1 => Image(g, Vec(0, 0, 1)) = Image(f, Vec(0, 0, 1))
        /\ h.z = -1 => Image(g, Vec(0, 0, -1)) = Image(f, Vec(0, 0, -1))
    <3>1. /\ h.y = 1 => OnSide(h, Vec(0, 1, 0))
          /\ h.y = -1 => OnSide(h, Vec(0, -1, 0))
          /\ h.z = 1 => OnSide(h, Vec(0, 0, 1))
          /\ h.z = -1 => OnSide(h, Vec(0, 0, -1))
      <4> HIDE DEF h
      <4> QED
        BY DEF OnSide, Vec, Axis
    <3>2. /\ Vec(0, 1, 0) \in Direction /\ Vec(0, -1, 0) \in Direction
          /\ Vec(0, 0, 1) \in Direction /\ Vec(0, 0, -1) \in Direction
      BY DEF Direction, Front
    <3> HIDE DEF h
    <3> QED
      BY <2>5, <3>1, <3>2
  <2>8. g.y = f.y \/ Multiple(-1, g.y) = Multiple(-1, f.y)
    BY <2>1, <2>6, <2>7, ImageOfAxes
  <2>9. g.z = f.z \/ Multiple(-1, g.z) = Multiple(-1, f.z)
    BY <2>1, <2>6, <2>7, ImageOfAxes
  <2>10. g.y \in Direction /\ g.z \in Direction
    BY <2>1 DEF Frame
  <2>11. g.y.y = 0
    BY <2>8, <2>10 DEF Multiple, Vec, Direction, Front
  <2>12. g.z.z # 0
    BY <2>9, <2>10 DEF Multiple, Vec, Direction, Front
  <2>13. Weight(g) = 3
    BY <2>11, <2>12 DEF Weight
  <2> QED
    BY <2>13 DEF g
<1>2. \A p \in CornerPosition : WeightsOf(slots)[p] = 3
  BY <1>1 DEF WeightsOf
<1> QED
  BY <1>2, TheCorners DEF SumOf

\* Five twists are too few for a quarter turn of the whole cube: each of its
\* five marks has moved, so each of the five letters was used just once, B was
\* not, and the corners would weigh sixteen at most.
LEMMA FiveAreTooFew ==
    ASSUME NEW cube \in Cubes, NEW f \in Frame, ShowsAll(cube, f), f.z = Front,
           f.y = Vec(1, 0, 0) \/ f.y = Vec(-1, 0, 0),
           NEW n \in Nat, NEW uses \in [ShuffleLetter -> Nat], Tally(cube, n, uses)
    PROVE  n > 5
<1>1. f.x = ThirdOf(f.y, f.z)
  BY FrameAxes
<1>2. \A id \in Id : cube[id].at = Image(f, Home(id))
  BY DEF ShowsAll, Shows
<1>3. /\ Image(f, Vec(0, 1, 1)) # Vec(0, 1, 1) /\ Image(f, Vec(1, 0, 1)) # Vec(1, 0, 1)
      /\ Image(f, Vec(0, -1, 1)) # Vec(0, -1, 1) /\ Image(f, Vec(-1, 0, 1)) # Vec(-1, 0, 1)
      /\ Image(f, Vec(0, 1, 0)) # Vec(0, 1, 0)
  BY <1>1 DEF Image, Plus, Multiple, ThirdOf, Vec, Front
<1>4. \A letter \in Marked : cube[MarkOf(letter)].at # Home(MarkOf(letter))
  BY <1>2, <1>3, Marks DEF Marked
<1>5. \A letter \in Marked : uses[letter] # 0
  BY <1>4 DEF Tally
<1>6. \A letter \in ShuffleLetter : uses[letter] \in Nat
  OBVIOUS
<1>7. /\ uses["U"] >= 1 /\ uses["R"] >= 1 /\ uses["D"] >= 1 /\ uses["L"] >= 1 /\ uses["S"] >= 1
      /\ uses["B"] \in Nat /\ uses["U"] \in Nat /\ uses["R"] \in Nat /\ uses["D"] \in Nat
      /\ uses["L"] \in Nat /\ uses["S"] \in Nat
  BY <1>5, <1>6 DEF Marked, ShuffleLetter
<1>8. n = uses["U"] + uses["R"] + uses["D"] + uses["L"] + uses["S"] + uses["B"]
  BY DEF Tally
<1>9. CASE uses["B"] = 0
  <2>1. PICK slots \in [CornerPosition -> Slot] :
          /\ Holds(cube, slots)
          /\ SumOf(WeightsOf(slots)) <= 4 * (uses["U"] + uses["R"] + uses["D"] + uses["L"])
    BY <1>9 DEF Tally
  <2>2. SumOf(WeightsOf(slots)) = 24
    BY <2>1, QuarterTurnedWeighs
  <2>3. 24 <= 4 * (uses["U"] + uses["R"] + uses["D"] + uses["L"])
    BY <2>1, <2>2
  <2> QED
    BY <1>7, <1>8, <2>3
<1>10. CASE uses["B"] # 0
  BY <1>7, <1>8, <1>10
<1> QED
  BY <1>9, <1>10

ScrambleTally ==
    /\ amount \in Amounts
    /\ drags = 0 => \E uses \in [ShuffleLetter -> Nat] : Tally(cubelets, shuffled, uses)

\* What was used explains the scramble, and callers ask for what they ask.
LEMMA TallyInvariant == CubeSpec => []ScrambleTally
<1>1. CubeInit => ScrambleTally
  BY SolvedTally DEF CubeInit, ScrambleTally
<1>2. CubeTypeOK /\ ScrambleTally /\ [CubeNext]_vars => ScrambleTally'
  <2> SUFFICES ASSUME CubeTypeOK, ScrambleTally, [CubeNext]_vars
               PROVE  ScrambleTally'
    OBVIOUS
  <2>1. CASE Shuffle
    <3>1. PICK command \in Drawn : cubelets' = Turned(cubelets, Twist(command, 1))
      BY <2>1 DEF Shuffle, Drawn
    <3>2. /\ cubelets \in Cubes /\ shuffled \in Nat /\ shuffled' = shuffled + 1
          /\ drags' = drags /\ amount' = amount
      BY <2>1 DEF Shuffle, CubeTypeOK, Cubes
    <3> QED
      BY <3>1, <3>2, TallyKept DEF ScrambleTally
  <2>2. CASE CommitDrag
    <3>1. drags' # 0 /\ amount' = amount
      BY <2>2 DEF CommitDrag, CubeTypeOK
    <3> QED
      BY <3>1 DEF ScrambleTally
  <2>3. CASE UNCHANGED vars
    BY <2>3 DEF vars, ScrambleTally, Tally, Holds
  <2> QED
    BY <2>1, <2>2, <2>3 DEF CubeNext
<1> QED
  BY <1>1, <1>2, CubeTypeCorrect, PTL DEF CubeSpec

\* The page's scramble, shuffle(5), always shows: an odd scramble of up to five
\* twists is never solved.
THEOREM CubeScrambleIsVisible ==
    ASSUME \A a \in Amounts : a <= 5
    PROVE  CubeSpec => []ScrambleIsVisible
<1>1. CubeTypeOK /\ LogoStays /\ CubeletsRotated /\ ScrambleParity /\ ScrambleTally
        => ScrambleIsVisible
  <2> SUFFICES ASSUME CubeTypeOK, LogoStays, CubeletsRotated, ScrambleParity, ScrambleTally,
                      shuffled % 2 = 1, drags = 0, IsSolved(cubelets)
               PROVE  FALSE
    BY DEF ScrambleIsVisible
  <2>1. /\ cubelets \in Cubes /\ shuffled \in Nat /\ amount \in Nat
        /\ shuffled <= amount /\ amount <= 5
    BY DEF CubeTypeOK, Cubes, ScrambleTally
  <2>2. PICK f \in Frame : ShowsAll(cubelets, f)
    BY SolvedShowsOneColor, OneRotation DEF CubeletsRotated
  <2>3. cubelets[LogoId].at = Front
    BY DEF LogoStays, SolvedCube, LogoId, Id, AddressToPosition, Vec, Front
  <2>4. f.z = Front /\ (f.y = Vec(1, 0, 0) \/ f.y = Vec(-1, 0, 0))
    BY <2>1, <2>2, <2>3, OddIsQuarterTurned DEF ScrambleParity
  <2>5. PICK uses \in [ShuffleLetter -> Nat] : Tally(cubelets, shuffled, uses)
    BY DEF ScrambleTally
  <2>6. shuffled > 5
    BY <2>1, <2>2, <2>4, <2>5, FiveAreTooFew
  <2> QED
    BY <2>1, <2>6
<1> QED
  BY <1>1, CubeTypeCorrect, CubeLogoStays, RotatedInvariant, ParityInvariant, TallyInvariant, PTL

----------------------------------------------------------------------------
(* Numbers *)

\* A number is what is left of its last byte, and that byte.
LEMMA LastByte ==
    ASSUME NEW n \in Nat
    PROVE  /\ n \div Base \in Nat /\ n % Base \in Byte
           /\ n = (n \div Base) * Base + (n % Base)
<1>1. CASE Base = 32
  BY <1>1 DEF Byte
<1>2. CASE Base = 256
  BY <1>2 DEF Byte
<1> QED
  BY <1>1, <1>2, TranscriptAssumption

LEMMA Uint16Bytes ==
    ASSUME NEW n \in Nat
    PROVE  Uint16(n) \in Seq(Byte) /\ Len(Uint16(n)) = 2
<1>1. (n \div Base) % Base \in Byte /\ n % Base \in Byte
  BY LastByte
<1> QED
  BY <1>1 DEF Uint16

LEMMA MaxUint32Value ==
    /\ Base = 32 => MaxUint32 = 1048575
    /\ Base = 256 => MaxUint32 = 4294967295
<1>1. ASSUME Base = 32 PROVE MaxUint32 = 1048575
  <2>1. MaxUint32 = 32 * 32 * 32 * 32 - 1
    BY <1>1 DEF MaxUint32
  <2> QED
    BY <2>1
<1>2. ASSUME Base = 256 PROVE MaxUint32 = 4294967295
  <2>1. MaxUint32 = 256 * 256 * 256 * 256 - 1
    BY <1>2 DEF MaxUint32
  <2> QED
    BY <2>1
<1> QED
  BY <1>1, <1>2

\* Four bytes hold any sequence number encodeRecord() accepts.
LEMMA Uint32ReadBack ==
    ASSUME NEW n \in 0..MaxUint32
    PROVE  /\ Uint32(n) \in Seq(Byte) /\ Len(Uint32(n)) = 4
           /\ Number(Uint32(n)) = n
<1> DEFINE h1 == n \div Base
           h2 == h1 \div Base
           h3 == h2 \div Base
<1>0. n \in Nat /\ n <= MaxUint32 /\ Base \in Nat /\ MaxUint32 \in Int
  <2>1. CASE Base = 32
    BY <2>1, MaxUint32Value
  <2>2. CASE Base = 256
    BY <2>2, MaxUint32Value
  <2> QED
    BY <2>1, <2>2, TranscriptAssumption
<1>1. h1 \in Nat /\ n % Base \in Byte /\ n = h1 * Base + (n % Base)
  BY <1>0, LastByte
<1>2. h2 \in Nat /\ h1 % Base \in Byte /\ h1 = h2 * Base + (h1 % Base)
  BY <1>1, LastByte
<1>3. h3 \in Nat /\ h2 % Base \in Byte /\ h2 = h3 * Base + (h2 % Base)
  BY <1>2, LastByte
<1>4. Uint32(n) = <<h3 % Base, h2 % Base, h1 % Base, n % Base>>
  BY DEF Uint32
<1> HIDE DEF h1, h2, h3
<1>5. h3 < Base
  <2>1. CASE Base = 32
    BY <2>1, <1>0, <1>1, <1>2, <1>3, MaxUint32Value DEF Byte
  <2>2. CASE Base = 256
    BY <2>2, <1>0, <1>1, <1>2, <1>3, MaxUint32Value DEF Byte
  <2> QED
    BY <2>1, <2>2, TranscriptAssumption
<1>6. h3 % Base = h3 /\ h3 \in Byte
  <2>1. CASE Base = 32
    BY <2>1, <1>3, <1>5 DEF Byte
  <2>2. CASE Base = 256
    BY <2>2, <1>3, <1>5 DEF Byte
  <2> QED
    BY <2>1, <2>2, TranscriptAssumption
<1>7. Uint32(n) = <<h3, h2 % Base, h1 % Base, n % Base>>
  BY <1>4, <1>6
<1>8. Number(Uint32(n)) = ((h3 * Base + (h2 % Base)) * Base + (h1 % Base)) * Base + (n % Base)
  BY <1>7 DEF Number
<1>9. Number(Uint32(n)) = n
  BY <1>1, <1>2, <1>3, <1>8
<1> QED
  BY <1>1, <1>2, <1>3, <1>6, <1>7, <1>9

----------------------------------------------------------------------------
(* Tables *)

\* No two names of a table have the same code.
LEMMA TablesAreOneToOne ==
    /\ \A k \in DOMAIN KIND : KIND[k] \in 0..11 /\ Named(KIND, KIND[k]) = k
    /\ \A c \in DOMAIN COMMAND : COMMAND[c] \in 0..11 /\ Named(COMMAND, COMMAND[c]) = c
    /\ \A t \in DOMAIN TURN : TURN[t] \in 0..11 /\ Named(TURN, TURN[t]) = t
    /\ \A p \in DOMAIN POINTER : POINTER[p] \in 0..11 /\ Named(POINTER, POINTER[p]) = p
    /\ \A c \in Color : COLOR[c] \in 0..11 /\ \A d \in Color : COLOR[c] = COLOR[d] => c = d
<1>1. \A k \in DOMAIN KIND : KIND[k] \in 0..11 /\ Named(KIND, KIND[k]) = k
  BY DEF KIND, Named
<1>2. \A c \in DOMAIN COMMAND : COMMAND[c] \in 0..11 /\ Named(COMMAND, COMMAND[c]) = c
  BY DEF COMMAND, Named
<1>3. \A t \in DOMAIN TURN : TURN[t] \in 0..11 /\ Named(TURN, TURN[t]) = t
  BY DEF TURN, Named
<1>4. \A p \in DOMAIN POINTER : POINTER[p] \in 0..11 /\ Named(POINTER, POINTER[p]) = p
  BY DEF POINTER, Named
<1>5. \A c \in Color : COLOR[c] \in 0..11 /\ \A d \in Color : COLOR[c] = COLOR[d] => c = d
  BY DEF COLOR, Color
<1> QED
  BY <1>1, <1>2, <1>3, <1>4, <1>5

----------------------------------------------------------------------------
(* Records *)

\* Where the elements of two sequences are in their concatenation.
LEMMA ConcatAt ==
    ASSUME NEW s \in Seq(Byte), NEW t \in Seq(Byte)
    PROVE  /\ s \o t \in Seq(Byte) /\ Len(s \o t) = Len(s) + Len(t)
           /\ \A i \in 1..Len(s) : (s \o t)[i] = s[i]
           /\ \A i \in 1..Len(t) : (s \o t)[Len(s) + i] = t[i]
<1>1. /\ s \o t \in Seq(Byte) /\ Len(s \o t) = Len(s) + Len(t)
      /\ \A i \in 1..Len(s) + Len(t) :
           (s \o t)[i] = IF i <= Len(s) THEN s[i] ELSE t[i - Len(s)]
  BY ConcatProperties
<1>2. \A i \in 1..Len(s) : (s \o t)[i] = s[i]
  BY <1>1
<1>3. ASSUME NEW i \in 1..Len(t) PROVE (s \o t)[Len(s) + i] = t[i]
  <2>1. /\ Len(s) + i \in 1..Len(s) + Len(t)
        /\ ~(Len(s) + i <= Len(s)) /\ (Len(s) + i) - Len(s) = i
    OBVIOUS
  <2> QED
    BY <1>1, <2>1
<1> QED
  BY <1>1, <1>2, <1>3

Records == [sequence : 1..MaxUint32, kind : DOMAIN KIND, command : DOMAIN COMMAND,
            signedQuarterTurns : DOMAIN TURN, pointerType : DOMAIN POINTER,
            timingBin : {Null} \cup 0..5, directionSector : 0..7, speedClass : 0..2]

\* The bytes of a record, one by one.
LEMMA RecordBytes ==
    ASSUME NEW r \in Records
    PROVE  /\ EncodeRecord(r) \in Seq(Byte)
           /\ Len(EncodeRecord(r)) = 12
           /\ SubSeq(EncodeRecord(r), 2, 5) = Uint32(r.sequence)
           /\ EncodeRecord(r)[6] = KIND[r.kind]
           /\ EncodeRecord(r)[7] = COMMAND[r.command]
           /\ EncodeRecord(r)[8] = TURN[r.signedQuarterTurns]
           /\ EncodeRecord(r)[9] = POINTER[r.pointerType]
           /\ EncodeRecord(r)[10] = IF r.timingBin = Null THEN Base - 1 ELSE r.timingBin
           /\ EncodeRecord(r)[11] = r.directionSector
           /\ EncodeRecord(r)[12] = r.speedClass
<1> DEFINE head == <<1>>
           number == Uint32(r.sequence)
           tail == <<KIND[r.kind], COMMAND[r.command], TURN[r.signedQuarterTurns],
                     POINTER[r.pointerType],
                     IF r.timingBin = Null THEN Base - 1 ELSE r.timingBin,
                     r.directionSector, r.speedClass>>
<1>1. 11 \in Byte /\ 0..11 \subseteq Byte /\ Base - 1 \in Byte
  BY TranscriptAssumption DEF Byte
<1>2. head \in Seq(Byte) /\ Len(head) = 1
  BY <1>1
<1>3. number \in Seq(Byte) /\ Len(number) = 4
  BY Uint32ReadBack DEF Records
<1>4. tail \in Seq(Byte) /\ Len(tail) = 7
  <2>1. /\ KIND[r.kind] \in Byte /\ COMMAND[r.command] \in Byte
        /\ TURN[r.signedQuarterTurns] \in Byte /\ POINTER[r.pointerType] \in Byte
    BY <1>1, TablesAreOneToOne DEF Records
  <2>2. (IF r.timingBin = Null THEN Base - 1 ELSE r.timingBin) \in Byte
    BY <1>1 DEF Records
  <2>3. r.directionSector \in Byte /\ r.speedClass \in Byte
    BY <1>1 DEF Records
  <2> QED
    BY <2>1, <2>2, <2>3
<1>5. EncodeRecord(r) = head \o number \o tail
  BY DEF EncodeRecord
<1>6. /\ tail[1] = KIND[r.kind] /\ tail[2] = COMMAND[r.command]
      /\ tail[3] = TURN[r.signedQuarterTurns] /\ tail[4] = POINTER[r.pointerType]
      /\ tail[5] = IF r.timingBin = Null THEN Base - 1 ELSE r.timingBin
      /\ tail[6] = r.directionSector /\ tail[7] = r.speedClass
  OBVIOUS
<1> HIDE DEF head, number, tail
<1>7. /\ head \o number \in Seq(Byte) /\ Len(head \o number) = 5
      /\ \A i \in 1..4 : (head \o number)[1 + i] = number[i]
  <2>1. /\ head \o number \in Seq(Byte) /\ Len(head \o number) = Len(head) + Len(number)
        /\ \A i \in 1..Len(number) : (head \o number)[Len(head) + i] = number[i]
    BY <1>2, <1>3, ConcatAt
  <2> QED
    BY <1>2, <1>3, <2>1
<1>8. /\ EncodeRecord(r) \in Seq(Byte) /\ Len(EncodeRecord(r)) = 12
      /\ \A i \in 1..5 : EncodeRecord(r)[i] = (head \o number)[i]
      /\ \A i \in 1..7 : EncodeRecord(r)[5 + i] = tail[i]
  <2> DEFINE front == head \o number
  <2>1. front \in Seq(Byte) /\ Len(front) = 5 /\ EncodeRecord(r) = front \o tail
    BY <1>5, <1>7
  <2> HIDE DEF front
  <2>2. /\ front \o tail \in Seq(Byte) /\ Len(front \o tail) = Len(front) + Len(tail)
        /\ \A i \in 1..Len(front) : (front \o tail)[i] = front[i]
        /\ \A i \in 1..Len(tail) : (front \o tail)[Len(front) + i] = tail[i]
    BY <1>4, <2>1, ConcatAt
  <2> QED
    BY <1>4, <2>1, <2>2, SMTT(20) DEF front
<1>9. \A i \in 2..5 : EncodeRecord(r)[i] \in Byte
  BY <1>8, ElementOfSeq, SMTT(20)
<1>10. /\ SubSeq(EncodeRecord(r), 2, 5) \in Seq(Byte)
       /\ Len(SubSeq(EncodeRecord(r), 2, 5)) = 4
       /\ \A i \in 1..4 : SubSeq(EncodeRecord(r), 2, 5)[i] = EncodeRecord(r)[1 + i]
  BY <1>9, SubSeqProperties
<1>11. \A i \in 1..4 : SubSeq(EncodeRecord(r), 2, 5)[i] = number[i]
  <2> SUFFICES ASSUME NEW i \in 1..4
               PROVE  SubSeq(EncodeRecord(r), 2, 5)[i] = number[i]
    OBVIOUS
  <2>1. EncodeRecord(r)[1 + i] = (head \o number)[1 + i]
    <3>1. 1 + i \in 1..5
      OBVIOUS
    <3> QED
      BY <3>1, <1>8
  <2> QED
    BY <1>7, <1>10, <2>1
<1>12. SubSeq(EncodeRecord(r), 2, 5) = number
  BY <1>3, <1>10, <1>11, SeqEqual
<1> QED
  <2>1. /\ EncodeRecord(r)[5 + 1] = tail[1] /\ EncodeRecord(r)[5 + 2] = tail[2]
        /\ EncodeRecord(r)[5 + 3] = tail[3] /\ EncodeRecord(r)[5 + 4] = tail[4]
        /\ EncodeRecord(r)[5 + 5] = tail[5] /\ EncodeRecord(r)[5 + 6] = tail[6]
        /\ EncodeRecord(r)[5 + 7] = tail[7]
    BY <1>8
  <2> QED
    BY <1>6, <1>8, <1>12, <2>1 DEF number

\* encodeRecord() loses nothing: a record is read back from its bytes, whatever
\* its number, and one without a timing is told from all that have one.
THEOREM RecordIsReadBack ==
    ASSUME NEW r \in Records
    PROVE  DecodeRecord(EncodeRecord(r)) = r
<1> DEFINE bytes == EncodeRecord(r)
<1>1. Number(SubSeq(bytes, 2, 5)) = r.sequence
  <2>1. r.sequence \in 0..MaxUint32
    BY DEF Records
  <2>2. SubSeq(bytes, 2, 5) = Uint32(r.sequence)
    BY RecordBytes
  <2> QED
    BY <2>1, <2>2, Uint32ReadBack
<1>2. /\ Named(KIND, bytes[6]) = r.kind
      /\ Named(COMMAND, bytes[7]) = r.command
      /\ Named(TURN, bytes[8]) = r.signedQuarterTurns
      /\ Named(POINTER, bytes[9]) = r.pointerType
  BY RecordBytes, TablesAreOneToOne DEF Records
<1>3. (IF bytes[10] = Base - 1 THEN Null ELSE bytes[10]) = r.timingBin
  <2>1. bytes[10] = IF r.timingBin = Null THEN Base - 1 ELSE r.timingBin
    BY RecordBytes
  <2>2. r.timingBin \in {Null} \cup 0..5
    BY DEF Records
  <2> QED
    BY <2>1, <2>2, TranscriptAssumption DEF Null
<1>4. bytes[11] = r.directionSector /\ bytes[12] = r.speedClass
  BY RecordBytes
<1> HIDE DEF bytes
<1>5. DecodeRecord(bytes) =
        [sequence |-> r.sequence, kind |-> r.kind, command |-> r.command,
         signedQuarterTurns |-> r.signedQuarterTurns, pointerType |-> r.pointerType,
         timingBin |-> r.timingBin, directionSector |-> r.directionSector,
         speedClass |-> r.speedClass]
  BY <1>1, <1>2, <1>3, <1>4 DEF DecodeRecord
<1> QED
  BY <1>5 DEF Records, bytes

----------------------------------------------------------------------------
(* The initial state *)

LEMMA PositionToAddressInjective ==
    /\ \A p \in Position : PositionToAddress(p) \in Id
    /\ \A p, q \in Position : PositionToAddress(p) = PositionToAddress(q) => p = q
  BY DEF PositionToAddress, Position, Coord, Id

\* Each cubelet has eight bytes of its own: its id, its address and its colours.
LEMMA StateBytes ==
    ASSUME NEW cube \in Cubes, NEW id \in Id
    PROVE  /\ EncodeInitialState(cube)[8 * id + 2] = PositionToAddress(cube[id].at)
           /\ \A k \in 1..6 : EncodeInitialState(cube)[8 * id + 2 + k]
                               = COLOR[cube[id].faces[AllDirections[k]]]
<1>1. \A i \in 1..216, k \in 0..7 : (i - 1) \div 8 = id /\ (i - 1) % 8 = k =>
        EncodeInitialState(cube)[i] =
          IF k = 0 THEN id
          ELSE IF k = 1 THEN PositionToAddress(cube[id].at)
          ELSE COLOR[cube[id].faces[AllDirections[k - 1]]]
  BY DEF EncodeInitialState
<1>2. \A k \in 1..7 : /\ 8 * id + 1 + k \in 1..216
                      /\ ((8 * id + 1 + k) - 1) \div 8 = id
                      /\ ((8 * id + 1 + k) - 1) % 8 = k
  BY DEF Id
<1>3. EncodeInitialState(cube)[8 * id + 2] = PositionToAddress(cube[id].at)
  <2>1. 1 \in 0..7 /\ 1 \in 1..7 /\ 8 * id + 1 + 1 = 8 * id + 2
    BY DEF Id
  <2>2. /\ 8 * id + 1 + 1 \in 1..216
        /\ ((8 * id + 1 + 1) - 1) \div 8 = id /\ ((8 * id + 1 + 1) - 1) % 8 = 1
    BY <1>2, <2>1
  <2>3. EncodeInitialState(cube)[8 * id + 1 + 1] =
          IF 1 = 0 THEN id
          ELSE IF 1 = 1 THEN PositionToAddress(cube[id].at)
          ELSE COLOR[cube[id].faces[AllDirections[1 - 1]]]
    BY <1>1, <2>1, <2>2, Zenon
  <2> QED
    BY <2>1, <2>3
<1>4. ASSUME NEW k \in 1..6
      PROVE  EncodeInitialState(cube)[8 * id + 2 + k] = COLOR[cube[id].faces[AllDirections[k]]]
  <2> DEFINE m == k + 1
  <2>1. m \in 0..7 /\ m \in 1..7 /\ m # 0 /\ m # 1 /\ m - 1 = k /\ 8 * id + 1 + m = 8 * id + 2 + k
    BY DEF Id
  <2> HIDE DEF m
  <2>2. EncodeInitialState(cube)[8 * id + 1 + m] = COLOR[cube[id].faces[AllDirections[m - 1]]]
    BY <1>1, <1>2, <2>1
  <2> QED
    BY <2>1, <2>2
<1> QED
  BY <1>3, <1>4

LEMMA EveryDirection == \A d \in Direction : \E k \in 1..6 : AllDirections[k] = d
  BY DEF Direction, AllDirections

LEMMA StateType ==
    ASSUME NEW cube \in Cubes
    PROVE  EncodeInitialState(cube) \in Seq(Byte) /\ Len(EncodeInitialState(cube)) = 216
<1>1. ASSUME NEW i \in 1..216
      PROVE  LET id == (i - 1) \div 8
                 k == (i - 1) % 8
             IN (IF k = 0 THEN id
                 ELSE IF k = 1 THEN PositionToAddress(cube[id].at)
                 ELSE COLOR[cube[id].faces[AllDirections[k - 1]]]) \in Byte
  <2> DEFINE id == (i - 1) \div 8
             k == (i - 1) % 8
  <2>1. id \in Id /\ k \in 0..7
    BY DEF Id
  <2>2. Id \subseteq Byte /\ 0..11 \subseteq Byte
    BY TranscriptAssumption DEF Id, Byte
  <2> HIDE DEF id, k
  <2>3. PositionToAddress(cube[id].at) \in Id
    BY <2>1, PositionToAddressInjective DEF Cubes
  <2>4. k # 0 /\ k # 1 => k - 1 \in 1..6
    BY <2>1
  <2>5. \A j \in 1..6 : COLOR[cube[id].faces[AllDirections[j]]] \in 0..11
    <3>1. \A j \in 1..6 : AllDirections[j] \in Direction
      BY DEF AllDirections, Direction
    <3> QED
      BY <2>1, <3>1, TablesAreOneToOne DEF Cubes
  <2> QED
    BY <2>1, <2>2, <2>3, <2>4, <2>5 DEF id, k
<1>2. EncodeInitialState(cube) \in [1..216 -> Byte]
  BY <1>1 DEF EncodeInitialState
<1>3. EncodeInitialState(cube) \in Seq(Byte)
  <2>1. 216 \in Nat
    OBVIOUS
  <2>2. [1..216 -> Byte] \in {[1..n -> Byte] : n \in Nat}
    BY <2>1, Zenon
  <2> QED
    BY <1>2, <2>2, SeqDef, ZenonT(30)
<1>4. DOMAIN EncodeInitialState(cube) = 1..Len(EncodeInitialState(cube))
  BY <1>3, LenProperties
<1>5. DOMAIN EncodeInitialState(cube) = 1..216 /\ Len(EncodeInitialState(cube)) \in Nat
  BY <1>2, <1>3
<1>6. \A n \in Nat : 1..n = 1..216 => n = 216
  <2> SUFFICES ASSUME NEW n \in Nat, 1..n = 1..216
               PROVE  n = 216
    OBVIOUS
  <2>1. 216 \in 1..n
    <3>1. 216 \in 1..216
      OBVIOUS
    <3> QED
      BY <3>1, Zenon
  <2>2. n \in 1..216
    BY <2>1
  <2> QED
    BY <2>1, <2>2
<1> QED
  BY <1>3, <1>4, <1>5, <1>6

\* encodeInitialState() loses nothing: two cubes with the same bytes are the
\* same cube, cubelet by cubelet and side by side.
THEOREM InitialStateDeterminesCube ==
    ASSUME NEW c \in Cubes, NEW d \in Cubes, EncodeInitialState(c) = EncodeInitialState(d)
    PROVE  c = d
<1> SUFFICES ASSUME NEW id \in Id
             PROVE  c[id] = d[id]
  BY DEF Cubes
<1>1. /\ c[id] \in [at : Position, faces : [Direction -> Color]]
      /\ d[id] \in [at : Position, faces : [Direction -> Color]]
  BY DEF Cubes
<1>2. c[id].at = d[id].at
  BY <1>1, StateBytes, PositionToAddressInjective
<1>3. \A k \in 1..6 : COLOR[c[id].faces[AllDirections[k]]] = COLOR[d[id].faces[AllDirections[k]]]
  BY StateBytes
<1>4. \A e \in Direction : c[id].faces[e] = d[id].faces[e]
  BY <1>1, <1>3, EveryDirection, TablesAreOneToOne
<1> QED
  BY <1>1, <1>2, <1>4

----------------------------------------------------------------------------
(* Messages *)

\* Sequences that begin with parts of one length are equal part by part.
LEMMA SplitConcat ==
    ASSUME NEW p \in Seq(Byte), NEW q \in Seq(Byte), NEW s \in Seq(Byte), NEW t \in Seq(Byte),
           Len(p) = Len(q), p \o s = q \o t
    PROVE  p = q /\ s = t
<1>1. \A i \in 1..Len(p) : (p \o s)[i] = p[i]
  BY ConcatAt
<1>2. \A i \in 1..Len(q) : (q \o t)[i] = q[i]
  BY ConcatAt
<1>3. p = q
  BY <1>1, <1>2, SeqEqual
<1> QED
  BY <1>3, ConcatSimplifications

LEMMA TextType ==
    ASSUME NEW bytes \in Seq(Byte)
    PROVE  Text(bytes) \in Seq(Byte) /\ Len(Text(bytes)) = 2 + Len(bytes)
<1>1. Len(bytes) \in Nat
  OBVIOUS
<1>2. Uint16(Len(bytes)) \in Seq(Byte) /\ Len(Uint16(Len(bytes))) = 2
  BY <1>1, Uint16Bytes
<1> QED
  BY <1>2, ConcatAt DEF Text

Salts == {s \in Seq(Byte) : Len(s) = 16}
Digests == {s \in Seq(Byte) : Len(s) = 32}

LEMMA NextMessageType ==
    ASSUME NEW current \in Digests, NEW r \in Records
    PROVE  /\ Text(Domain) \o current \in Seq(Byte)
           /\ Len(Text(Domain) \o current) = 2 + Len(Domain) + 32
           /\ Len(NextMessage(current, r)) = 2 + Len(Domain) + 44
<1>1. Text(Domain) \in Seq(Byte) /\ Len(Text(Domain)) = 2 + Len(Domain) /\ Len(Domain) \in Nat
  BY TextType, TranscriptAssumption
<1>2. current \in Seq(Byte) /\ Len(current) = 32
  BY DEF Digests
<1>3. /\ Text(Domain) \o current \in Seq(Byte)
      /\ Len(Text(Domain) \o current) = 2 + Len(Domain) + 32
  <2>1. /\ Text(Domain) \o current \in Seq(Byte)
        /\ Len(Text(Domain) \o current) = Len(Text(Domain)) + Len(current)
    BY <1>1, <1>2, ConcatAt
  <2> QED
    BY <1>1, <1>2, <2>1
<1>4. Len(NextMessage(current, r)) = Len(Text(Domain) \o current) + Len(EncodeRecord(r))
  BY <1>3, RecordBytes, ConcatAt DEF NextMessage
<1>5. Len(EncodeRecord(r)) = 12
  BY RecordBytes
<1> QED
  BY <1>1, <1>3, <1>4, <1>5

\* A link of the chain determines what it was made of: with a hash that does
\* not collide, a digest has one predecessor and one last record.
THEOREM NextMessageDetermines ==
    ASSUME NEW c \in Digests, NEW d \in Digests, NEW r \in Records, NEW s \in Records,
           NextMessage(c, r) = NextMessage(d, s)
    PROVE  c = d /\ r = s
<1>1. Text(Domain) \in Seq(Byte) /\ c \in Seq(Byte) /\ d \in Seq(Byte)
  BY TextType, TranscriptAssumption DEF Digests
<1>2. /\ Text(Domain) \o c \in Seq(Byte) /\ Text(Domain) \o d \in Seq(Byte)
      /\ Len(Text(Domain) \o c) = Len(Text(Domain) \o d)
  BY NextMessageType
<1>3. EncodeRecord(r) \in Seq(Byte) /\ EncodeRecord(s) \in Seq(Byte)
  BY RecordBytes
<1>4. (Text(Domain) \o c) \o EncodeRecord(r) = (Text(Domain) \o d) \o EncodeRecord(s)
  BY DEF NextMessage
<1>5. Text(Domain) \o c = Text(Domain) \o d /\ EncodeRecord(r) = EncodeRecord(s)
  <2> DEFINE p == Text(Domain) \o c
             q == Text(Domain) \o d
             x == EncodeRecord(r)
             y == EncodeRecord(s)
  <2>1. /\ p \in Seq(Byte) /\ q \in Seq(Byte) /\ x \in Seq(Byte) /\ y \in Seq(Byte)
        /\ Len(p) = Len(q) /\ p \o x = q \o y
    BY <1>2, <1>3, <1>4
  <2> HIDE DEF p, q, x, y
  <2>2. p = q /\ x = y
    BY <2>1, SplitConcat
  <2> QED
    BY <2>2 DEF p, q, x, y
<1>6. c = d
  BY <1>1, <1>5, SplitConcat
<1> QED
  BY <1>5, <1>6, RecordIsReadBack

\* Concatenation as an operator that proofs need not expand.
Joined(p, s) == p \o s

Five(a, b, c, d, e) == Joined(Joined(Joined(Joined(a, b), c), d), e)

LEMMA JoinedType ==
    ASSUME NEW p \in Seq(Byte), NEW s \in Seq(Byte)
    PROVE  Joined(p, s) \in Seq(Byte) /\ Len(Joined(p, s)) = Len(p) + Len(s)
BY ConcatAt DEF Joined

LEMMA SplitJoined ==
    ASSUME NEW p \in Seq(Byte), NEW q \in Seq(Byte), NEW s \in Seq(Byte), NEW t \in Seq(Byte),
           Len(p) = Len(q), Joined(p, s) = Joined(q, t)
    PROVE  p = q /\ s = t
<1>1. p \o s = q \o t
  BY DEF Joined
<1> QED
  BY <1>1, SplitConcat

SameFive(a, b, c, d, e, x, y) ==
    /\ Len(b) = Len(x) /\ Len(d) = Len(y)
    /\ Five(a, b, c, d, e) = Five(a, x, c, y, e)

\* The second and fourth of five parts, when they have one length and the others
\* are the same.
LEMMA PartsOfFive ==
    ASSUME NEW a \in Seq(Byte), NEW b \in Seq(Byte), NEW c \in Seq(Byte), NEW d \in Seq(Byte),
           NEW e \in Seq(Byte), NEW x \in Seq(Byte), NEW y \in Seq(Byte),
           SameFive(a, b, c, d, e, x, y)
    PROVE  b = x /\ d = y
<1>0. Len(b) = Len(x) /\ Len(d) = Len(y) /\ Five(a, b, c, d, e) = Five(a, x, c, y, e)
  BY DEF SameFive
<1> DEFINE p1 == Joined(a, b)
           p2 == Joined(p1, c)
           p3 == Joined(p2, d)
           q1 == Joined(a, x)
           q2 == Joined(q1, c)
           q3 == Joined(q2, y)
<1>1. /\ p1 \in Seq(Byte) /\ Len(p1) = Len(a) + Len(b)
      /\ q1 \in Seq(Byte) /\ Len(q1) = Len(a) + Len(x)
  BY JoinedType
<1> HIDE DEF p1, q1
<1>2. /\ p2 \in Seq(Byte) /\ Len(p2) = Len(p1) + Len(c)
      /\ q2 \in Seq(Byte) /\ Len(q2) = Len(q1) + Len(c)
  BY <1>1, JoinedType
<1> HIDE DEF p2, q2
<1>3. /\ p3 \in Seq(Byte) /\ Len(p3) = Len(p2) + Len(d)
      /\ q3 \in Seq(Byte) /\ Len(q3) = Len(q2) + Len(y)
  BY <1>2, JoinedType
<1> HIDE DEF p3, q3
<1>4. Len(p1) = Len(q1) /\ Len(p2) = Len(q2) /\ Len(p3) = Len(q3)
  BY <1>0, <1>1, <1>2, <1>3
<1>5. Joined(p3, e) = Joined(q3, e)
  BY <1>0 DEF p1, p2, p3, q1, q2, q3, Five
<1>6. p3 = q3
  BY <1>3, <1>4, <1>5, SplitJoined
<1>7. p2 = q2 /\ d = y
  BY <1>2, <1>4, <1>6, SplitJoined DEF p3, q3
<1>8. p1 = q1
  BY <1>1, <1>4, <1>7, SplitJoined DEF p2, q2
<1>9. Len(a) = Len(a) /\ b = x
  BY <1>8, SplitJoined DEF p1, q1
<1> QED
  BY <1>7, <1>9

LEMMA LengthOfFive ==
    ASSUME NEW a \in Seq(Byte), NEW b \in Seq(Byte), NEW c \in Seq(Byte), NEW d \in Seq(Byte),
           NEW e \in Seq(Byte)
    PROVE  Len(Five(a, b, c, d, e))
             = Len(a) + Len(b) + Len(c) + Len(d) + Len(e)
<1> DEFINE p1 == Joined(a, b)
           p2 == Joined(p1, c)
           p3 == Joined(p2, d)
<1>1. p1 \in Seq(Byte) /\ Len(p1) = Len(a) + Len(b)
  BY JoinedType
<1> HIDE DEF p1
<1>2. p2 \in Seq(Byte) /\ Len(p2) = Len(p1) + Len(c)
  BY <1>1, JoinedType
<1> HIDE DEF p2
<1>3. p3 \in Seq(Byte) /\ Len(p3) = Len(p2) + Len(d)
  BY <1>2, JoinedType
<1> HIDE DEF p3
<1>4. Len(Joined(p3, e)) = Len(p3) + Len(e)
  BY <1>3, JoinedType
<1>5. Len(Joined(p3, e)) = Len(a) + Len(b) + Len(c) + Len(d) + Len(e)
  BY <1>1, <1>2, <1>3, <1>4
<1> QED
  BY <1>5 DEF p1, p2, p3, Five

LEMMA FirstMessageParts ==
    ASSUME NEW salt \in Salts, NEW cube \in Cubes
    PROVE  LET state == EncodeInitialState(cube)
           IN /\ salt \in Seq(Byte) /\ Len(salt) = 16
              /\ state \in Seq(Byte) /\ Len(state) = 216
              /\ Uint16(216) \in Seq(Byte) /\ Len(Uint16(216)) = 2
              /\ Text(Domain) \in Seq(Byte) /\ Len(Text(Domain)) = 2 + Len(Domain)
              /\ Text(Configuration) \in Seq(Byte) /\ Len(Text(Configuration)) = 2 + Len(Configuration)
              /\ FirstMessage(salt, state)
                   = Five(Text(Domain), salt, Uint16(216), state, Text(Configuration))
<1>1. EncodeInitialState(cube) \in Seq(Byte) /\ Len(EncodeInitialState(cube)) = 216
  BY StateType
<1>2. salt \in Seq(Byte) /\ Len(salt) = 16
  BY DEF Salts
<1>3. Uint16(216) \in Seq(Byte) /\ Len(Uint16(216)) = 2
  BY Uint16Bytes
<1>4. /\ Text(Domain) \in Seq(Byte) /\ Len(Text(Domain)) = 2 + Len(Domain)
      /\ Text(Configuration) \in Seq(Byte) /\ Len(Text(Configuration)) = 2 + Len(Configuration)
  BY TextType, TranscriptAssumption
<1>5. FirstMessage(salt, EncodeInitialState(cube))
        = Five(Text(Domain), salt, Uint16(216), EncodeInitialState(cube), Text(Configuration))
  BY <1>1 DEF FirstMessage, Five, Joined
<1> QED
  BY <1>1, <1>2, <1>3, <1>4, <1>5

\* The first digest of a session determines its salt and the cube it began with.
THEOREM FirstMessageDetermines ==
    ASSUME NEW salt \in Salts, NEW pepper \in Salts, NEW c \in Cubes, NEW d \in Cubes,
           FirstMessage(salt, EncodeInitialState(c)) = FirstMessage(pepper, EncodeInitialState(d))
    PROVE  salt = pepper /\ c = d
<1>1. salt = pepper /\ EncodeInitialState(c) = EncodeInitialState(d)
  <2> DEFINE dom == Text(Domain)
             size == Uint16(216)
             state == EncodeInitialState(c)
             other == EncodeInitialState(d)
             conf == Text(Configuration)
  <2>1. /\ salt \in Seq(Byte) /\ pepper \in Seq(Byte) /\ Len(salt) = Len(pepper)
        /\ state \in Seq(Byte) /\ other \in Seq(Byte) /\ Len(state) = Len(other)
        /\ dom \in Seq(Byte) /\ size \in Seq(Byte) /\ conf \in Seq(Byte)
    BY FirstMessageParts
  <2>2. Five(dom, salt, size, state, conf)
          = Five(dom, pepper, size, other, conf)
    BY FirstMessageParts
  <2> HIDE DEF dom, size, state, other, conf
  <2>3. salt = pepper /\ state = other
    <3>1. SameFive(dom, salt, size, state, conf, pepper, other)
      BY <2>1, <2>2 DEF SameFive
    <3> QED
      BY <2>1, <3>1, PartsOfFive
  <2> QED
    BY <2>3 DEF state, other
<1> QED
  BY <1>1, InitialStateDeterminesCube

\* No first message is a further one: a session's first digest is not the
\* digest of another with a record more, though both begin with the domain.
THEOREM MessagesAreApart ==
    ASSUME NEW salt \in Salts, NEW cube \in Cubes, NEW current \in Digests, NEW r \in Records
    PROVE  FirstMessage(salt, EncodeInitialState(cube)) # NextMessage(current, r)
<1>1. Len(FirstMessage(salt, EncodeInitialState(cube))) = Len(Domain) + Len(Configuration) + 238
  <2> DEFINE dom == Text(Domain)
             size == Uint16(216)
             state == EncodeInitialState(cube)
             conf == Text(Configuration)
  <2>1. /\ salt \in Seq(Byte) /\ state \in Seq(Byte) /\ dom \in Seq(Byte) /\ size \in Seq(Byte)
        /\ conf \in Seq(Byte) /\ Len(salt) = 16 /\ Len(state) = 216 /\ Len(size) = 2
        /\ Len(dom) = 2 + Len(Domain) /\ Len(conf) = 2 + Len(Configuration)
        /\ FirstMessage(salt, state) = Five(dom, salt, size, state, conf)
    BY FirstMessageParts
  <2> HIDE DEF dom, size, state, conf
  <2>2. Len(Five(dom, salt, size, state, conf))
          = Len(dom) + Len(salt) + Len(size) + Len(state) + Len(conf)
    <3>1. /\ salt \in Seq(Byte) /\ dom \in Seq(Byte) /\ size \in Seq(Byte)
          /\ state \in Seq(Byte) /\ conf \in Seq(Byte)
      BY <2>1
    <3> QED
      BY ONLY <3>1, LengthOfFive
  <2>3. Len(FirstMessage(salt, state)) = Len(Domain) + Len(Configuration) + 238
    BY <2>1, <2>2, TranscriptAssumption
  <2> QED
    BY <2>3 DEF state
<1>2. Len(NextMessage(current, r)) = 2 + Len(Domain) + 44
  BY NextMessageType
<1>3. Len(Domain) \in Nat /\ Len(Configuration) \in Nat
  BY TranscriptAssumption
<1> QED
  BY <1>1, <1>2, <1>3

=============================================================================
