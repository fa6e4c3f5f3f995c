------------------------- MODULE DragGestureProofs -------------------------
(***************************************************************************)
(* What holds of a drag of the cube (DragGesture) for every rotation the   *)
(* cube may have, every way a pointer may go and every number of drags,    *)
(* begun before the scramble or after it: its turns are turns of Cube,     *)
(* what is shown to turn is what turns, and its record can be read back.   *)
(***************************************************************************)
EXTENDS DragGesture, TranscriptProofs

----------------------------------------------------------------------------
(* What is shown *)

LEMMA Modulo4 ==
    ASSUME NEW n \in Nat
    PROVE  /\ n % 4 \in 0..3
           /\ (-n) % 4 = IF n % 4 = 0 THEN 0 ELSE 4 - (n % 4)
  OBVIOUS

LEMMA RenderedComponents ==
    ASSUME NEW v
    PROVE  Rendered(v).x = v.x /\ Rendered(v).y = -v.y /\ Rendered(v).z = v.z
  BY DEF Rendered, Vec

\* A quarter turn of the model is one of CSS, about y the other way round.
LEMMA QuarterShown ==
    ASSUME NEW v \in Position, NEW axis \in Axis
    PROVE  /\ Rendered(RotateQuarter(v, axis, 1))
                = IF axis = "y" THEN CssQuarter(CssQuarter(CssQuarter(Rendered(v), axis), axis), axis)
                                ELSE CssQuarter(Rendered(v), axis)
           /\ Rendered(RotateQuarter(v, axis, -1))
                = IF axis = "y" THEN CssQuarter(Rendered(v), axis)
                                ELSE CssQuarter(CssQuarter(CssQuarter(Rendered(v), axis), axis), axis)
<1>0. v.x \in Int /\ v.y \in Int /\ v.z \in Int
  BY DEF Position, Coord
<1>1. CASE axis = "x"
  BY <1>0, <1>1 DEF Rendered, RotateQuarter, CssQuarter, Vec
<1>2. CASE axis = "y"
  BY <1>0, <1>2 DEF Rendered, RotateQuarter, CssQuarter, Vec
<1>3. CASE axis = "z"
  BY <1>0, <1>3 DEF Rendered, RotateQuarter, CssQuarter, Vec
<1> QED
  BY <1>1, <1>2, <1>3 DEF Axis

\* The sweep of the settle animation takes what is rendered of a position to
\* what is rendered of the position turned.
LEMMA SweepShown ==
    ASSUME NEW v \in Position, NEW axis \in Axis, NEW sign \in Sign, NEW n \in Nat
    PROVE  Rendered(RotateSteps(v, axis, sign, n))
             = CssRotate(Rendered(v), axis, CssSweep(axis, sign * n))
<1> DEFINE C(w) == CssQuarter(w, axis)
           w == Rendered(v)
           k == n % 4
           h == CssSweep(axis, sign * n) % 4
           plain == (axis = "y") = (sign = -1)
<1>1. k \in 0..3 /\ h = IF plain \/ k = 0 THEN k ELSE 4 - k
  <2>1. k \in 0..3 /\ (-n) % 4 = IF k = 0 THEN 0 ELSE 4 - k
    BY Modulo4
  <2>2. CssSweep(axis, sign * n) = IF plain THEN n ELSE -n
    BY DEF CssSweep, Sign
  <2> QED
    BY <2>1, <2>2
<1>2. CssRotate(w, axis, CssSweep(axis, sign * n)) =
        CASE h = 0 -> w [] h = 1 -> C(w) [] h = 2 -> C(C(w)) [] h = 3 -> C(C(C(w)))
  BY DEF CssRotate
<1>3. Rendered(RotateQuarter(v, axis, sign)) = IF plain THEN C(w) ELSE C(C(C(w)))
  BY QuarterShown DEF Sign
<1>4. Rendered(RotateQuarter(v, axis, -sign)) = IF plain THEN C(C(C(w))) ELSE C(w)
  BY QuarterShown DEF Sign
<1>5. Rendered(RotateQuarter(RotateQuarter(v, axis, sign), axis, sign)) = C(C(w))
  <2>1. PICK g \in Sign : (axis = "y") = (g = -1)
    BY DEF Sign
  <2>2. RotateQuarter(v, axis, g) \in Position
    BY QuarterTurn
  <2>3. Rendered(RotateQuarter(RotateQuarter(v, axis, g), axis, g)) = C(C(w))
    BY <2>1, <2>2, QuarterShown DEF Sign
  <2>4. g = sign \/ g = -sign
    BY DEF Sign
  <2> QED
    BY <2>3, <2>4, FourQuarterTurns
<1>6. Rendered(RotateQuarter(RotateQuarter(RotateQuarter(v, axis, sign), axis, sign), axis, sign))
        = Rendered(RotateQuarter(v, axis, -sign))
  BY FourQuarterTurns
<1> HIDE DEF C, w, h, plain
<1>7. CASE k = 0
  BY <1>1, <1>2, <1>7 DEF RotateSteps, w
<1>8. CASE k = 1
  BY <1>1, <1>2, <1>3, <1>8 DEF RotateSteps, w
<1>9. CASE k = 2
  BY <1>1, <1>2, <1>5, <1>9 DEF RotateSteps, w
<1>10. CASE k = 3
  BY <1>1, <1>2, <1>4, <1>6, <1>10 DEF RotateSteps, w
<1> QED
  BY <1>1, <1>7, <1>8, <1>9, <1>10

----------------------------------------------------------------------------
(* What is held *)

\* A direction is not None: it has an x.
LEMMA DirectionIsNotNone == None \notin Direction
  BY DEF Direction, Front, Vec, None

LEMMA FaceAxesType ==
    ASSUME NEW d \in Direction, NEW i \in {1, 2}
    PROVE  FaceAxes(d)[i] \in Axis /\ d[FaceAxes(d)[i]] = 0
<1>1. CASE d.z # 0
  <2>1. d.x = 0 /\ d.y = 0
    BY <1>1 DEF Direction, Front, Vec
  <2> QED
    BY <1>1, <2>1 DEF FaceAxes, Axis
<1>2. CASE d.z = 0 /\ d.y # 0
  <2>1. d.x = 0 /\ d.z = 0
    BY <1>2 DEF Direction, Front, Vec
  <2> QED
    BY <1>2, <2>1 DEF FaceAxes, Axis
<1>3. CASE d.z = 0 /\ d.y = 0
  BY <1>3 DEF FaceAxes, Axis
<1> QED
  BY <1>1, <1>2, <1>3

Turning == [axis : Axis, letter : Letter, affected : SUBSET Id, amid : Nat]

Holding == [id : Id \cup {None}, d : Direction \cup {None}, pointerType : PointerTypes,
            horizontalOnly : BOOLEAN, resolved : {None} \cup Turning]

\* The axis turned about is one of the face held; until the scramble twists the
\* cube again, the cubelets taken hold of are still the letter's layer.
HoldsLayer(held) ==
    LET r == held.resolved
    IN /\ r.axis = AxisOf(r.letter)
       /\ r.amid <= shuffled
       /\ r.amid = shuffled => r.affected = {id \in Id : cubelets[id].at[r.axis] \in Layers(r.letter)}
       /\ held.d # None => \E i \in {1, 2} : r.axis = FaceAxes(held.d)[i]

HoldsWell ==
    gesture # None =>
      /\ gesture \in Holding
      /\ amount <= DragsAfter /\ drags < MaxDrags
      /\ gesture.d # None => gesture.id \in Id
      /\ gesture.horizontalOnly => gesture.d = None
      /\ gesture.resolved # None => HoldsLayer(gesture)

GestureInv ==
    /\ CubeTypeOK
    /\ HoldsWell

LEMMA PickAxisType ==
    ASSUME NEW move
    PROVE  /\ PickAxis(None, move) \in Axis
           /\ \A d \in Direction : \E i \in {1, 2} : PickAxis(d, move) = FaceAxes(d)[i]
<1>1. PickAxis(None, move) \in Axis
  BY DEF PickAxis, Axis
<1>2. ASSUME NEW d \in Direction
      PROVE  \E i \in {1, 2} : PickAxis(d, move) = FaceAxes(d)[i]
  BY DirectionIsNotNone DEF PickAxis
<1> QED
  BY <1>1, <1>2

\* The letter of an axis and a layer.
LEMMA LettersType ==
    /\ \A axis \in Axis, layer \in Coord :
          LET letter == LettersByAxis[axis][layer + 2]
          IN letter \in Letter /\ AxisOf(letter) = axis /\ Layers(letter) = {layer}
    /\ \A axis \in Axis :
          LET letter == OrbitLetter[axis]
          IN letter \in Letter /\ AxisOf(letter) = axis /\ Layers(letter) = Coord
<1>1. ASSUME NEW axis \in Axis, NEW layer \in Coord
      PROVE  LET letter == LettersByAxis[axis][layer + 2]
             IN letter \in Letter /\ AxisOf(letter) = axis /\ Layers(letter) = {layer}
  <2>1. CASE axis = "x"
    BY <2>1 DEF LettersByAxis, Coord, Letter, AxisOf, Layers
  <2>2. CASE axis = "y"
    BY <2>2 DEF LettersByAxis, Coord, Letter, AxisOf, Layers
  <2>3. CASE axis = "z"
    BY <2>3 DEF LettersByAxis, Coord, Letter, AxisOf, Layers
  <2> QED
    BY <2>1, <2>2, <2>3 DEF Axis
<1>2. ASSUME NEW axis \in Axis
      PROVE  LET letter == OrbitLetter[axis]
             IN letter \in Letter /\ AxisOf(letter) = axis /\ Layers(letter) = Coord
  BY DEF OrbitLetter, Axis, Letter, AxisOf, Layers
<1> QED
  BY <1>1, <1>2

\* The first drag that is long enough takes hold of a layer.
LEMMA ResolvedHolds ==
    ASSUME CubeTypeOK, HoldsWell, gesture # None, NEW move
    PROVE  LET held == [gesture EXCEPT !.resolved = Resolved(move)]
           IN Resolved(move) \in Turning /\ HoldsLayer(held)
<1> DEFINE axis == PickAxis(gesture.d, move)
           layer == cubelets[gesture.id].at[axis]
           held == [gesture EXCEPT !.resolved = Resolved(move)]
<1>1. gesture \in Holding /\ (gesture.d # None => gesture.d \in Direction /\ gesture.id \in Id)
  BY DEF HoldsWell, Holding
<1>2. held.d = gesture.d /\ held.resolved = Resolved(move)
  BY <1>1 DEF Holding
<1>3. axis \in Axis /\ (gesture.d # None => \E i \in {1, 2} : axis = FaceAxes(gesture.d)[i])
  BY <1>1, PickAxisType, FaceAxesType
<1>4. \A id \in Id, a \in Axis : cubelets[id].at[a] \in Coord
  BY DEF CubeTypeOK, Position, Axis
<1>0. shuffled \in Nat
  BY DEF CubeTypeOK
<1>5. CASE gesture.d # None
  <2>1. Resolved(move) = [axis |-> axis, letter |-> LettersByAxis[axis][layer + 2],
                          affected |-> {id \in Id : cubelets[id].at[axis] = layer}, amid |-> shuffled]
    BY <1>5 DEF Resolved
  <2>2. layer \in Coord
    BY <1>1, <1>3, <1>4, <1>5
  <2> DEFINE letter == LettersByAxis[axis][layer + 2]
  <2>3. letter \in Letter /\ AxisOf(letter) = axis /\ Layers(letter) = {layer}
    BY <1>3, <2>2, LettersType
  <2> HIDE DEF axis, layer, letter
  <2>4. Resolved(move) \in Turning
    BY <1>0, <1>3, <2>1, <2>3 DEF Turning, letter
  <2>5. /\ Resolved(move).axis = axis /\ Resolved(move).letter = letter
        /\ Resolved(move).affected = {id \in Id : cubelets[id].at[axis] = layer}
        /\ Resolved(move).amid = shuffled
    BY <2>1 DEF letter
  <2>6. HoldsLayer(held)
    <3> HIDE DEF held
    <3> QED
      BY <1>0, <1>2, <1>3, <2>3, <2>5 DEF HoldsLayer
  <2> QED
    BY <2>4, <2>6
<1>6. CASE gesture.d = None
  <2>1. Resolved(move) = [axis |-> axis, letter |-> OrbitLetter[axis], affected |-> Id, amid |-> shuffled]
    BY <1>6 DEF Resolved
  <2> HIDE DEF axis, layer
  <2> QED
    BY <1>0, <1>2, <1>3, <1>4, <1>6, <2>1, LettersType DEF Turning, HoldsLayer
<1> QED
  BY <1>5, <1>6

----------------------------------------------------------------------------
(* The steps *)

\* What a pointerup that turns something does.
LEMMA ReleaseParts ==
    ASSUME GestureInv, ReleaseTurn
    PROVE  \E move \in Moves, elapsed \in Durations,
              q \in (-MaxQuarterTurns..MaxQuarterTurns) \ {0} :
             LET letter == gesture.resolved.letter
                 t == Dragged(letter, q)
             IN /\ Commits(Along(gesture.d, gesture.resolved.axis, move),
                           gesture.pointerType, move, elapsed, q)
                /\ Commit(letter, q)
                /\ letter \in Letter
                /\ cubelets' = Turned(cubelets, t)
                /\ drag' = [previewed |-> q, settled |-> q,
                            record |-> Interaction(CommandFor(letter, q), AbsOf(q))]
                /\ interaction' = CommittedInteraction(drag'.record, gesture.pointerType, move, elapsed)
<1>1. PICK move \in Moves, elapsed \in Durations,
           q \in (-MaxQuarterTurns..MaxQuarterTurns) \ {0} :
         /\ Commits(Along(gesture.d, gesture.resolved.axis, move),
                    gesture.pointerType, move, elapsed, q)
         /\ Commit(gesture.resolved.letter, q)
         /\ interaction' = CommittedInteraction(drag'.record, gesture.pointerType, move, elapsed)
  BY DEF ReleaseTurn
<1>3. q \in Int \ {0}
  BY CubeAssumption
<1>4. gesture.resolved.letter \in Letter
  BY DEF ReleaseTurn, GestureInv, HoldsWell, Holding, Turning
<1>5. /\ cubelets' = Turned(cubelets, Dragged(gesture.resolved.letter, q))
      /\ drag' = [previewed |-> q,
                  settled |-> EffectiveSign(Dragged(gesture.resolved.letter, q))
                                * Dragged(gesture.resolved.letter, q).turns,
                  record |-> Interaction(CommandFor(gesture.resolved.letter, q), AbsOf(q))]
  BY <1>1 DEF Commit, Dragged
<1> QED
  BY <1>1, <1>3, <1>4, <1>5, DraggedSettles

\* Every step of a gesture is a step of the cube, or leaves it.
LEMMA GestureTurnsCube ==
    ASSUME GestureInv, [GestureNext]_gestureVars
    PROVE  [CubeNext]_vars
<1>1. CASE Shuffle
  BY <1>1 DEF CubeNext
<1>2. CASE GrabFace \/ GrabSpace \/ PointerMove \/ PointerCancel \/ ReleaseBack
  BY <1>2 DEF GrabFace, GrabSpace, PointerMove, PointerCancel, ReleaseBack, Held, UnchangedCube, vars
<1>3. CASE ReleaseTurn
  <2>1. PICK q \in (-MaxQuarterTurns..MaxQuarterTurns) \ {0} :
           Commit(gesture.resolved.letter, q) /\ gesture.resolved.letter \in Letter
    BY <1>3, ReleaseParts
  <2>2. amount <= DragsAfter /\ drags < MaxDrags
    BY <1>3 DEF ReleaseTurn, GestureInv, HoldsWell
  <2>3. drags' = drags + 1 /\ UNCHANGED <<lastInverse, amount, shuffled>>
    BY <1>3 DEF ReleaseTurn
  <2> QED
    BY <2>1, <2>2, <2>3 DEF CubeNext, CommitDrag
<1>4. CASE UNCHANGED gestureVars
  BY <1>4 DEF gestureVars, vars
<1> QED
  BY <1>1, <1>2, <1>3, <1>4 DEF GestureNext

LEMMA GrabbedType == Grabbed \subseteq Id
  BY GestureAssumption, Zenon

LEMMA HoldsWellKept ==
    ASSUME GestureInv, [GestureNext]_gestureVars
    PROVE  HoldsWell'
<1>1. CASE Shuffle /\ UNCHANGED <<gesture, interaction>>
  <2>1. gesture' = gesture /\ shuffled' = shuffled + 1 /\ amount' = amount /\ drags' = drags
    BY <1>1 DEF Shuffle
  <2>2. ASSUME gesture # None, gesture.resolved # None, HoldsLayer(gesture)
        PROVE  HoldsLayer(gesture)'
    <3>1. gesture.resolved.amid \in Nat /\ shuffled \in Nat
      BY <2>2 DEF GestureInv, HoldsWell, Holding, Turning, CubeTypeOK
    <3>2. gesture.resolved.amid < shuffled'
      BY <2>1, <2>2, <3>1 DEF HoldsLayer
    <3> QED
      BY <2>1, <2>2, <3>1, <3>2 DEF HoldsLayer
  <2> QED
    BY <2>1, <2>2 DEF GestureInv, HoldsWell
<1>2. ASSUME NEW id \in Id \cup {None}, NEW d \in Direction \cup {None},
             NEW pointerType \in PointerTypes, NEW horizontalOnly \in BOOLEAN,
             Held(id, d, pointerType, horizontalOnly),
             d # None => id \in Id,
             horizontalOnly => d = None
      PROVE  HoldsWell'
  <2>1. gesture' = [id |-> id, d |-> d, pointerType |-> pointerType,
                    horizontalOnly |-> horizontalOnly, resolved |-> None]
    BY <1>2 DEF Held
  <2>2. gesture' \in Holding
    BY <2>1 DEF Holding
  <2>3. amount' <= DragsAfter /\ drags' < MaxDrags
    BY <1>2 DEF Held, UnchangedCube
  <2> QED
    BY <1>2, <2>1, <2>2, <2>3 DEF HoldsWell
<1>3. CASE GrabFace
  BY <1>2, <1>3, GrabbedType DEF GrabFace
<1>4. CASE GrabSpace
  BY <1>2, <1>4 DEF GrabSpace
<1>5. CASE PointerMove
  <2>1. PICK move \in Moves : gesture' = [gesture EXCEPT !.resolved = Resolved(move)]
    BY <1>5 DEF PointerMove
  <2>2. /\ gesture # None /\ gesture \in Holding /\ amount <= DragsAfter /\ drags < MaxDrags
        /\ gesture.d # None => gesture.id \in Id
        /\ gesture.horizontalOnly => gesture.d = None
    BY <1>5 DEF PointerMove, GestureInv, HoldsWell
  <2>3. Resolved(move) \in Turning /\ HoldsLayer(gesture')
    BY <2>1, <2>2, ResolvedHolds DEF GestureInv
  <2>4. cubelets' = cubelets /\ shuffled' = shuffled /\ amount' = amount /\ drags' = drags
    BY <1>5 DEF PointerMove, UnchangedCube
  <2>5. /\ gesture' \in Holding /\ gesture'.d = gesture.d /\ gesture'.id = gesture.id
        /\ gesture'.horizontalOnly = gesture.horizontalOnly
    BY <2>1, <2>2, <2>3 DEF Holding
  <2>6. HoldsLayer(gesture)'
    BY <2>3, <2>4 DEF HoldsLayer
  <2> QED
    BY <2>2, <2>4, <2>5, <2>6 DEF HoldsWell
<1>6. CASE PointerCancel \/ ReleaseBack \/ ReleaseTurn
  BY <1>6 DEF PointerCancel, ReleaseBack, ReleaseTurn, HoldsWell
<1>7. CASE UNCHANGED gestureVars
  BY <1>7 DEF gestureVars, HoldsWell, HoldsLayer, GestureInv
<1> QED
  BY <1>1, <1>3, <1>4, <1>5, <1>6, <1>7 DEF GestureNext

LEMMA GestureInvInit == GestureInit => GestureInv
<1> SUFFICES ASSUME GestureInit
             PROVE  GestureInv
  OBVIOUS
<1>1. CubeTypeOK
  <2>1. cubelets \in [Id -> [at : Position, faces : [Direction -> Color]]]
    BY SolvedCubeType DEF GestureInit, CubeInit, Cubes
  <2>2. amount \in Nat /\ shuffled \in 0..amount /\ drags \in Nat
    BY CubeAssumption DEF GestureInit, CubeInit
  <2> QED
    BY <2>1, <2>2 DEF GestureInit, CubeInit, CubeTypeOK
<1> QED
  BY <1>1 DEF GestureInit, CubeInit, GestureInv, HoldsWell

LEMMA GestureInvKept ==
    ASSUME GestureInv, [GestureNext]_gestureVars
    PROVE  GestureInv'
<1>1. CubeTypeOK'
  BY GestureTurnsCube, CubeTypeKept DEF GestureInv
<1>2. HoldsWell'
  BY HoldsWellKept
<1> QED
  BY <1>1, <1>2 DEF GestureInv

THEOREM GestureInvariant == GestureSpec => []GestureInv
<1>1. GestureInv /\ [GestureNext]_gestureVars => GestureInv'
  BY GestureInvKept
<1> QED
  BY <1>1, GestureInvInit, PTL DEF GestureSpec

\* Whatever is grabbed, dragged and released, the cube keeps its type and what
\* is held is a layer about its own axis.
THEOREM GestureTypeCorrect == GestureSpec => []GestureTypeOK
<1>1. GestureInv => GestureTypeOK
  BY DEF GestureInv, HoldsWell, HoldsLayer, Holding, GestureTypeOK
<1> QED
  BY <1>1, GestureInvariant, PTL

\* The turns of a drag are turns Cube knows, so that what is proved of the cube
\* holds of the cube that is dragged.
LEMMA GestureTurnsAreOfCube == GestureSpec => CubeSpec
<1>1. GestureInit => CubeInit
  BY DEF GestureInit
<1>2. GestureInv /\ [GestureNext]_gestureVars => [CubeNext]_vars
  BY GestureTurnsCube
<1> QED
  BY <1>1, <1>2, GestureInvariant, PTL DEF GestureSpec, CubeSpec

\* However the cube is dragged, before, amid or after the scramble, the logo
\* stays until the first drag, cubelets never share an address, isSolved holds of
\* the solved cube alone, and a record replays its drag.
THEOREM GestureKeepsCube == GestureSpec => [](LogoStays /\ AddressesDistinct /\ SolvedIsSolved) /\ RecordReplays
  BY GestureTurnsAreOfCube, CubeLogoStays, CubeAddressesDistinct, CubeSolvedIsSolved, CubeRecordReplays, PTL

----------------------------------------------------------------------------
(* What a drag shows *)

\* For every twist of every cube: CSS's sweep of the layer ends where the model
\* has its cubelets.
THEOREM GestureTurnsAsShown == GestureSpec => TurnsAsShown
<1> DEFINE Shown ==
      LET shown == gesture.resolved
      IN shown.amid = shuffled =>
           \A id \in Id :
             Rendered(cubelets'[id].at) =
               IF id \in shown.affected
                 THEN CssRotate(Rendered(cubelets[id].at), shown.axis, CssSweep(shown.axis, drag'.settled))
                 ELSE Rendered(cubelets[id].at)
<1>1. GestureInv /\ [GestureNext]_gestureVars => [drags' # drags => Shown]_gestureVars
  <2> SUFFICES ASSUME GestureInv, ReleaseTurn, gesture.resolved.amid = shuffled
               PROVE  Shown
    BY DEF GestureNext, Shuffle, GrabFace, GrabSpace, Held, PointerMove, PointerCancel,
           ReleaseBack, UnchangedCube, gestureVars
  <2>1. PICK move \in Moves, q \in (-MaxQuarterTurns..MaxQuarterTurns) \ {0} :
           /\ gesture.resolved.letter \in Letter
           /\ cubelets' = Turned(cubelets, Dragged(gesture.resolved.letter, q))
           /\ drag'.settled = q
    BY ReleaseParts
  <2> DEFINE r == gesture.resolved
             t == Dragged(r.letter, q)
  <2>2. q \in Int \ {0}
    BY CubeAssumption
  <2>3. /\ r.axis = AxisOf(r.letter)
        /\ r.affected = {id \in Id : cubelets[id].at[r.axis] \in Layers(r.letter)}
    BY <2>1 DEF GestureInv, HoldsWell, HoldsLayer, ReleaseTurn
  <2>4. /\ t \in Twists /\ t.command.letter = r.letter
        /\ EffectiveSign(t) \in Sign /\ t.turns \in Nat /\ EffectiveSign(t) * t.turns = q
    <3>1. t \in Twists /\ EffectiveSign(t) * t.turns = q
      BY <2>1, <2>2, DraggedType, DraggedSettles
    <3>2. t.command.letter = r.letter
      BY DEF Dragged, Twist, CommandFor, Flip
    <3> QED
      BY <3>1, <3>2, EffectiveSignType DEF Twists
  <2> SUFFICES ASSUME NEW id \in Id
               PROVE  Rendered(cubelets'[id].at) =
                        IF id \in r.affected
                          THEN CssRotate(Rendered(cubelets[id].at), r.axis, CssSweep(r.axis, q))
                          ELSE Rendered(cubelets[id].at)
    BY <2>1, <2>3
  <2>5. cubelets[id].at \in Position
    BY DEF GestureInv, CubeTypeOK
  <2>6. cubelets'[id].at = IF cubelets[id].at[r.axis] \in Layers(r.letter)
                             THEN Spin(t, cubelets[id].at) ELSE cubelets[id].at
    BY <2>1, <2>3, <2>4, TurnedDef
  <2>7. Rendered(Spin(t, cubelets[id].at))
          = CssRotate(Rendered(cubelets[id].at), r.axis, CssSweep(r.axis, q))
    <3>1. r.axis \in Axis
      BY <2>1, <2>3, AxisOfType
    <3>2. Spin(t, cubelets[id].at) = RotateSteps(cubelets[id].at, r.axis, EffectiveSign(t), t.turns)
      BY <2>3, <2>4 DEF Spin
    <3> QED
      BY <2>4, <2>5, <3>1, <3>2, SweepShown
  <2> QED
    BY <2>3, <2>6, <2>7
<1> QED
  BY <1>1, GestureInvariant, PTL DEF GestureSpec, TurnsAsShown

----------------------------------------------------------------------------
(* The record of a drag *)

LEMMA GestureToken ==
    ASSUME NEW move, NEW elapsed
    PROVE  DirectionSector(move) \in 0..7 /\ SpeedClass(move, elapsed) \in 0..2
<1>1. SpeedClass(move, elapsed) \in 0..2
  BY DEF SpeedClass
<1> DEFINE h == AbsOf(move.x)
           v == AbsOf(move.y)
           flat == (h + v) * (h + v) < 2 * h * h
           steep == (h + v) * (h + v) < 2 * v * v
<1>2. DirectionSector(move) =
        CASE flat -> IF move.x > 0 THEN 0 ELSE 4
          [] steep -> IF move.y > 0 THEN 2 ELSE 6
          [] h = 0 /\ v = 0 -> 0
          [] OTHER -> IF move.y > 0 THEN (IF move.x > 0 THEN 1 ELSE 3)
                                    ELSE (IF move.x > 0 THEN 7 ELSE 5)
  BY DEF DirectionSector
<1> HIDE DEF flat, steep, h, v
<1>3. DirectionSector(move) \in 0..7
  BY <1>2
<1> QED
  BY <1>1, <1>3

\* What onCommitted is given of a turn, numbered and timed, is a record.
LEMMA CommittedRecord ==
    ASSUME NEW turn \in Record, turn # None, NEW pointerType \in PointerTypes,
           NEW move, NEW elapsed, NEW sequence \in Sequences, NEW timingBin \in {Null, 0, 5}
    PROVE  LET made == CommittedInteraction(turn, pointerType, move, elapsed)
               record == [sequence |-> sequence, timingBin |-> timingBin,
                          kind |-> made.kind, command |-> made.command,
                          signedQuarterTurns |-> made.signedQuarterTurns,
                          pointerType |-> made.pointerType,
                          directionSector |-> made.directionSector,
                          speedClass |-> made.speedClass]
           IN record \in Records /\ ValidRecord(record)
<1> DEFINE made == CommittedInteraction(turn, pointerType, move, elapsed)
           record == [sequence |-> sequence, timingBin |-> timingBin,
                      kind |-> made.kind, command |-> made.command,
                      signedQuarterTurns |-> made.signedQuarterTurns,
                      pointerType |-> made.pointerType,
                      directionSector |-> made.directionSector,
                      speedClass |-> made.speedClass]
<1>1. /\ made.kind = (IF turn.letter \in Orbit THEN "orbit" ELSE "layer")
      /\ made.command = turn.letter
      /\ made.signedQuarterTurns = turn.signedQuarterTurns
      /\ made.pointerType = (IF pointerType = "" THEN "other" ELSE pointerType)
      /\ made.directionSector = DirectionSector(move)
      /\ made.speedClass = SpeedClass(move, elapsed)
  BY DEF CommittedInteraction
<1> HIDE DEF made
<1>2. turn.letter \in Letter /\ turn.signedQuarterTurns \in {-1, 1, 2}
  BY DEF Record
<1>3. made.kind \in DOMAIN KIND
  BY <1>1 DEF KIND
<1>4. made.command \in DOMAIN COMMAND
  BY <1>1, <1>2 DEF COMMAND, Letter
<1>5. made.signedQuarterTurns \in DOMAIN TURN
  BY <1>1, <1>2 DEF TURN
<1>6. made.pointerType \in DOMAIN POINTER
  <2>1. PointerTypes \subseteq {"mouse", "touch", "pen", ""}
    BY GestureAssumption, Zenon
  <2> QED
    BY <1>1, <2>1 DEF POINTER
<1>7. made.directionSector \in 0..7 /\ made.speedClass \in 0..2
  BY <1>1, GestureToken
<1>8. sequence \in 1..MaxUint32
  <2>1. Sequences \subseteq 1..MaxUint32
    BY GestureAssumption, Zenon
  <2> QED
    BY <2>1
<1>9. timingBin \in {Null} \cup 0..5
  OBVIOUS
<1>10. made.kind = "orbit" <=> made.command \in Orbit
  BY <1>1
<1>11. record \in Records
  BY <1>3, <1>4, <1>5, <1>6, <1>7, <1>8, <1>9 DEF Records
<1>12. ValidRecord(record)
  BY <1>3, <1>4, <1>5, <1>6, <1>7, <1>8, <1>9, <1>10 DEF ValidRecord
<1> QED
  BY <1>11, <1>12 DEF made

\* Whatever is dragged, what the session is handed becomes a record that
\* encodeRecord() accepts and that is read back from its bytes.
THEOREM GestureRecordReadsBack == GestureSpec => []RecordReadsBack
<1>1. GestureInit => RecordReadsBack
  BY DEF GestureInit, RecordReadsBack
<1>2. GestureInv /\ RecordReadsBack /\ [GestureNext]_gestureVars => RecordReadsBack'
  <2> SUFFICES ASSUME GestureInv, RecordReadsBack, [GestureNext]_gestureVars
               PROVE  RecordReadsBack'
    OBVIOUS
  <2>1. CASE UNCHANGED <<interaction, drag>>
    BY <2>1 DEF RecordReadsBack
  <2>2. CASE ReleaseTurn
    <3>1. PICK move \in Moves, elapsed \in Durations,
               q \in (-MaxQuarterTurns..MaxQuarterTurns) \ {0} :
             /\ gesture.resolved.letter \in Letter
             /\ drag' = [previewed |-> q, settled |-> q,
                         record |-> Interaction(CommandFor(gesture.resolved.letter, q), AbsOf(q))]
             /\ interaction' = CommittedInteraction(drag'.record, gesture.pointerType, move, elapsed)
      BY <2>2, ReleaseParts
    <3> DEFINE turn == drag'.record
    <3>2. turn \in Record
      <4>1. GestureInv'
        BY GestureInvKept
      <4>2. drag' # None
        BY <3>1 DEF None
      <4>3. drag' \in [previewed : Int, settled : Int, record : Record]
        BY <4>1, <4>2 DEF GestureInv, CubeTypeOK
      <4> QED
        BY <4>3
    <3>3. gesture.pointerType \in PointerTypes
      BY <2>2 DEF GestureInv, HoldsWell, Holding, ReleaseTurn
    <3>4. interaction' = CommittedInteraction(turn, gesture.pointerType, move, elapsed)
      BY <3>1
    <3> HIDE DEF turn
    <3> SUFFICES ASSUME interaction' # None
                 PROVE  RecordReadsBack'
      BY DEF RecordReadsBack
    <3>5. turn # None
      BY <3>4 DEF CommittedInteraction
    <3>6. interaction'.command = turn.letter /\ interaction'.signedQuarterTurns = turn.signedQuarterTurns
      BY <3>4, <3>5 DEF CommittedInteraction
    <3>7. ASSUME NEW sequence \in Sequences, NEW timingBin \in {Null, 0, 5}
          PROVE  LET record == [sequence |-> sequence, timingBin |-> timingBin,
                                kind |-> interaction'.kind, command |-> interaction'.command,
                                signedQuarterTurns |-> interaction'.signedQuarterTurns,
                                pointerType |-> interaction'.pointerType,
                                directionSector |-> interaction'.directionSector,
                                speedClass |-> interaction'.speedClass]
                 IN ValidRecord(record) /\ DecodeRecord(EncodeRecord(record)) = record
      BY <3>2, <3>3, <3>4, <3>5, CommittedRecord, RecordIsReadBack, ZenonT(30)
    <3> QED
      BY <3>6, <3>7 DEF RecordReadsBack, turn
  <2> QED
    BY <2>1, <2>2 DEF GestureNext, Shuffle, GrabFace, GrabSpace, Held, PointerMove, PointerCancel,
                      ReleaseBack, UnchangedCube, gestureVars
<1> QED
  BY <1>1, <1>2, GestureInvariant, PTL DEF GestureSpec

=============================================================================
