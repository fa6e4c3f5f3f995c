---------------------------- MODULE DragGesture ----------------------------
(***************************************************************************)
(* Dragging the cube of the about page (interaction.js): which layer a     *)
(* pointer takes hold of, which way and how far it turns, and the record   *)
(* made of it (interaction-record.js).  The group of cubelets is seen      *)
(* through its CSS transform, given here by the images of the unit vectors *)
(* scaled to integers; lengths and times are integers in units of choice.  *)
(* The code computes with that transform alone: the perspective of the     *)
(* container (style.css:37) is not in it, and where on the screen anything *)
(* appears is not modelled.                                                *)
(*                                                                         *)
(* One pointer: a second one is refused while a drag or its settle         *)
(* animation lasts, which CuberPage models.  The scramble may begin while  *)
(* a layer is held, and the drag goes on through it.                       *)
(***************************************************************************)
EXTENDS Transcript

CONSTANTS
    Tilt,           \* where the CSS transform takes CSS's x, y (down) and z
    Scale,          \* the length of those images
    Grabbed,        \* bound: the cubelets that may be taken hold of
    Moves,          \* bound: where a pointer may go from where it went down
    Durations,      \* bound: how long a drag may take
    Sequences,      \* bound: numbers a record may have in its session
    PointerTypes,   \* bound: event.pointerType
    DRAG_THRESHOLD,
    PIXELS_PER_QUARTER_TURN,
    TOUCH_PIXELS_PER_QUARTER_TURN

VARIABLES
    gesture,        \* drag: what is held since pointerdown, or None
    interaction     \* what onCommitted was last given

gestureVars == <<cubelets, lastInverse, amount, shuffled, drags, drag,
                 gesture, interaction>>

----------------------------------------------------------------------------
(* Vectors: functions of the axis, as the positions of Cube are *)

Sgn(n) == IF n > 0 THEN 1 ELSE IF n < 0 THEN -1 ELSE 0

Cross(u, v) == Vec(u.y * v.z - u.z * v.y, u.z * v.x - u.x * v.z, u.x * v.y - u.y * v.x)

Dot(u, v) == u.x * v.x + u.y * v.y + u.z * v.z

Times(n, v) == Vec(n * v.x, n * v.y, n * v.z)

\* The transform is a rotation.
ASSUME GestureAssumption ==
    /\ Scale \in Nat \ {0}
    /\ Tilt \in [Axis -> [Axis -> Int]]
    /\ Cross(Tilt.x, Tilt.y) = Times(Scale, Tilt.z)
    /\ Cross(Tilt.y, Tilt.z) = Times(Scale, Tilt.x)
    /\ Cross(Tilt.z, Tilt.x) = Times(Scale, Tilt.y)
    /\ Grabbed \subseteq Id
    /\ Moves \subseteq [x : Int, y : Int]
    /\ Durations \subseteq Nat
    /\ Sequences \subseteq 1..MaxUint32
    /\ PointerTypes \subseteq {"mouse", "touch", "pen", ""}
    /\ DRAG_THRESHOLD \in Nat \ {0}
    /\ PIXELS_PER_QUARTER_TURN \in Nat \ {0}
    /\ TOUCH_PIXELS_PER_QUARTER_TURN \in Nat \ {0}

Unit(axis) == Vec(IF axis = "x" THEN 1 ELSE 0, IF axis = "y" THEN 1 ELSE 0, IF axis = "z" THEN 1 ELSE 0)

\* transformVector3D(): the model's y is up, CSS's is down.
TransformVector(v) ==
    LET In(c) == v.x * Tilt.x[c] - v.y * Tilt.y[c] + v.z * Tilt.z[c]
    IN Vec(In("x"), In("y"), In("z"))

\* transformVector3D() of an axis; projectAxisToScreen() is its x and y.
AxisVector(axis) == TransformVector(Unit(axis))

----------------------------------------------------------------------------
(* pickAxis(), alongResolvedAxis() *)

\* FACE_AXES: the axes that span a face.
FaceAxes(d) ==
    IF d.z # 0 THEN <<"x", "y">> ELSE IF d.y # 0 THEN <<"x", "z">> ELSE <<"y", "z">>

Det(d) ==
    LET a == AxisVector(FaceAxes(d)[1])
        b == AxisVector(FaceAxes(d)[2])
    IN a.x * b.y - b.x * a.y

\* The page's tilt, style.css:62, turns no side edge-on.
ASSUME TiltAssumption == \A d \in Direction : Det(d) # 0

\* The drag in the plane of the face, Det(d) times as long.
Direction3D(d, move) ==
    LET a == AxisVector(FaceAxes(d)[1])
        b == AxisVector(FaceAxes(d)[2])
        s == move.x * b.y - b.x * move.y
        t == a.x * move.y - move.x * a.y
    IN Vec(s * a.x + t * b.x, s * a.y + t * b.y, s * a.z + t * b.z)

\* The pixels a drag turns about an axis: num / (per * sqrt(root)).
Along(d, axis, move) ==
    IF d # None
      THEN [num |-> Sgn(Det(d)) * Dot(Cross(TransformVector(d), Direction3D(d, move)), AxisVector(axis)),
            per |-> AbsOf(Det(d)) * Scale * Scale,
            root |-> 1]
      ELSE LET a == AxisVector(axis)
           IN [num |-> a.y * move.x - a.x * move.y,
               per |-> 1,
               root |-> IF a.x = 0 /\ a.y = 0 THEN 1 ELSE a.x * a.x + a.y * a.y]

\* |p| > |q| of two such numbers with the same per.
Exceeds(p, q) ==
    IF p.root = q.root THEN AbsOf(p.num) > AbsOf(q.num)
                       ELSE p.num * p.num * q.root > q.num * q.num * p.root

\* The axis the drag turns most about; of equals, the first.
PickAxis(d, move) ==
    LET Best(a, b) == IF Exceeds(Along(d, b, move), Along(d, a, move)) THEN b ELSE a
    IN IF d # None THEN Best(FaceAxes(d)[1], FaceAxes(d)[2])
                   ELSE Best(Best("x", "y"), "z")

----------------------------------------------------------------------------
(* previewDegrees(), in quarter turns, and what onPointerUp makes of them *)

\* num >= den * sqrt(root)
Reaches(num, den, root) ==
    IF root = 1 THEN num >= den
    ELSE IF num >= 0 THEN den <= 0 \/ num * num >= den * den * root
    ELSE den < 0 /\ num * num <= den * den * root

PixelsPerQuarterTurn(pointerType) ==
    IF pointerType = "touch" THEN TOUCH_PIXELS_PER_QUARTER_TURN ELSE PIXELS_PER_QUARTER_TURN

\* Math.round() of the quarter turns dragged is n.
RoundsTo(along, pointerType, n) ==
    LET per == along.per * PixelsPerQuarterTurn(pointerType)
    IN /\ Reaches(2 * along.num, (2 * n - 1) * per, along.root)
       /\ ~Reaches(2 * along.num, (2 * n + 1) * per, along.root)

SquareLength(move) == move.x * move.x + move.y * move.y

\* SWIPE_VELOCITY, 0.5 pixels per millisecond, is exceeded.
IsSwipe(move, elapsed) == 4 * SquareLength(move) > elapsed * elapsed

\* n quarter turns are committed.
Commits(along, pointerType, move, elapsed, n) ==
    IF RoundsTo(along, pointerType, 0) /\ IsSwipe(move, elapsed)
      THEN n = (IF along.num >= 0 THEN 1 ELSE -1)
      ELSE RoundsTo(along, pointerType, n)

----------------------------------------------------------------------------
(* gestureToken() *)

\* Math.round(angle / (pi / 4)) of a drag on the screen: the nearest of eight
\* directions, counted from right over down.  The nearest is horizontal when
\* v / h < tan(pi / 8) = sqrt(2) - 1.
DirectionSector(move) ==
    LET h == AbsOf(move.x)
        v == AbsOf(move.y)
    IN CASE (h + v) * (h + v) < 2 * h * h -> IF move.x > 0 THEN 0 ELSE 4
         [] (h + v) * (h + v) < 2 * v * v -> IF move.y > 0 THEN 2 ELSE 6
         [] h = 0 /\ v = 0 -> 0
         [] OTHER -> IF move.y > 0 THEN (IF move.x > 0 THEN 1 ELSE 3)
                                   ELSE (IF move.x > 0 THEN 7 ELSE 5)

\* The speed against 0.25 and 0.75 pixels per millisecond.
SpeedClass(move, elapsed) ==
    LET time == IF elapsed = 0 THEN 1 ELSE elapsed
    IN IF 16 * SquareLength(move) < time * time THEN 0
       ELSE IF 16 * SquareLength(move) < 9 * time * time THEN 1 ELSE 2

\* committedInteraction(): the turn, with the gesture that made it.
CommittedInteraction(turn, pointerType, move, elapsed) ==
    IF turn = None THEN None ELSE
    [kind |-> IF turn.letter \in Orbit THEN "orbit" ELSE "layer",
     command |-> turn.letter,
     signedQuarterTurns |-> turn.signedQuarterTurns,
     pointerType |-> IF pointerType = "" THEN "other" ELSE pointerType,
     directionSector |-> DirectionSector(move),
     speedClass |-> SpeedClass(move, elapsed)]

----------------------------------------------------------------------------
(* The handlers *)

GestureInit ==
    /\ CubeInit
    /\ gesture = None
    /\ interaction = None

UnchangedCube == UNCHANGED <<cubelets, lastInverse, amount, shuffled, drags, drag>>

\* `enabled` is true from the start and false only while the scramble runs
\* (interaction.js:163, main.js:52-63): what is held when it begins stays held.
Held(id, d, pointerType, horizontalOnly) ==
    /\ gesture = None
    /\ shuffled \in {0, amount}
    /\ amount <= DragsAfter /\ drags < MaxDrags
    /\ gesture' = [id |-> id, d |-> d, pointerType |-> pointerType,
                   horizontalOnly |-> horizontalOnly, resolved |-> None]
    /\ UnchangedCube /\ UNCHANGED interaction

\* onPointerDown() on a face: each cubelet has six, inner ones included
\* (render.js:50-63).
GrabFace ==
    \E id \in Grabbed, d \in Direction, pointerType \in PointerTypes :
        Held(id, d, pointerType, FALSE)

\* onPointerDown() beside the faces: in the container of the cube, or outside
\* it, where a touch may be the start of a scroll.
GrabSpace ==
    \E inside \in BOOLEAN, pointerType \in PointerTypes :
        Held(None, None, pointerType, pointerType = "touch" /\ ~inside)

LettersByAxis == [x |-> <<"L", "M", "R">>, y |-> <<"D", "E", "U">>, z |-> <<"B", "S", "F">>]

OrbitLetter == [x |-> "X", y |-> "Y", z |-> "Z"]

\* resolveAxis(); `amid` is history: the twists of the scramble so far.
Resolved(move) ==
    LET axis == PickAxis(gesture.d, move)
        layer == cubelets[gesture.id].at[axis]
    IN IF gesture.d # None
         THEN [axis |-> axis, letter |-> LettersByAxis[axis][layer + 2],
               affected |-> {id \in Id : cubelets[id].at[axis] = layer}, amid |-> shuffled]
         ELSE [axis |-> axis, letter |-> OrbitLetter[axis], affected |-> Id, amid |-> shuffled]

\* onPointerMove(): the first drag that is long enough, and for a scrolling
\* touch sideways enough, settles what turns.
PointerMove ==
    /\ gesture # None
    /\ gesture.resolved = None
    /\ \E move \in Moves :
         /\ SquareLength(move) >= DRAG_THRESHOLD * DRAG_THRESHOLD
         /\ ~(gesture.horizontalOnly /\ AbsOf(move.y) >= AbsOf(move.x))
         /\ gesture' = [gesture EXCEPT !.resolved = Resolved(move)]
    /\ UnchangedCube /\ UNCHANGED interaction

PointerCancel ==
    /\ gesture # None
    /\ gesture' = None
    /\ UnchangedCube /\ UNCHANGED interaction

\* onPointerUp() of a drag that turns nothing: it was never resolved, or
\* settles back.
ReleaseBack ==
    /\ gesture # None
    /\ \/ gesture.resolved = None
       \/ /\ gesture.resolved # None
          /\ \E move \in Moves : \E along \in {Along(gesture.d, gesture.resolved.axis, move)} :
               \E elapsed \in Durations : Commits(along, gesture.pointerType, move, elapsed, 0)
    /\ gesture' = None
    /\ UnchangedCube /\ UNCHANGED interaction

\* onPointerUp() of a drag that turns something; `enabled` is not read again.
ReleaseTurn ==
    /\ gesture # None
    /\ gesture.resolved # None
    /\ \E move \in Moves : \E along \in {Along(gesture.d, gesture.resolved.axis, move)} :
         \E elapsed \in Durations, q \in (-MaxQuarterTurns..MaxQuarterTurns) \ {0} :
            /\ Commits(along, gesture.pointerType, move, elapsed, q)
            /\ Commit(gesture.resolved.letter, q)
            /\ interaction' = CommittedInteraction(drag'.record, gesture.pointerType, move, elapsed)
    /\ gesture' = None
    /\ drags' = drags + 1
    /\ UNCHANGED <<lastInverse, amount, shuffled>>

GestureNext ==
    \/ Shuffle /\ UNCHANGED <<gesture, interaction>>
    \/ GrabFace \/ GrabSpace \/ PointerMove \/ PointerCancel \/ ReleaseBack \/ ReleaseTurn

GestureSpec == GestureInit /\ [][GestureNext]_gestureVars

----------------------------------------------------------------------------
(* Where the cubelets are seen *)

\* positionTransform(), by cubelet sizes.
Rendered(p) == Vec(p.x, -p.y, p.z)

\* CSS's rotateX, rotateY and rotateZ, by a quarter turn.
CssQuarter(v, axis) ==
    CASE axis = "x" -> Vec(v.x, -v.z, v.y)
      [] axis = "y" -> Vec(v.z, v.y, -v.x)
      [] axis = "z" -> Vec(-v.y, v.x, v.z)

CssRotate(v, axis, quarters) ==
    LET once == CssQuarter(v, axis)
        twice == CssQuarter(once, axis)
    IN CASE quarters % 4 = 0 -> v
         [] quarters % 4 = 1 -> once
         [] quarters % 4 = 2 -> twice
         [] quarters % 4 = 3 -> CssQuarter(twice, axis)

\* Slip: every axis turns the same way in CSS and in the model.
CssSweepPlain(axis, quarters) == quarters

\* cssSweepDegrees(), in quarter turns.
CssSweep(axis, quarters) == IF axis = "y" THEN -quarters ELSE quarters

----------------------------------------------------------------------------
(* Properties *)

\* The cube has its type, and what is held is a layer and names its axis.
GestureTypeOK ==
    /\ CubeTypeOK
    /\ gesture # None =>
         /\ gesture.d \in Direction \cup {None}
         /\ gesture.pointerType \in PointerTypes
         /\ gesture.horizontalOnly => gesture.d = None
         /\ gesture.resolved # None => AxisOf(gesture.resolved.letter) = gesture.resolved.axis

\* What the pointer showed turning is what turned: the settle animation (CSS,
\* about the axis resolved, of the cubelets resolved when the drag was long
\* enough) ends with every cubelet where the model has it after the twist, so
\* nothing jumps when the page is rendered from the model.  A twist of the
\* scramble in between may change which cubelets the layer has.
TurnsAsShown ==
    [][drags' # drags =>
         LET shown == gesture.resolved
         IN shown.amid = shuffled =>
              \A id \in Id :
                Rendered(cubelets'[id].at) =
                  IF id \in shown.affected
                    THEN CssRotate(Rendered(cubelets[id].at), shown.axis, CssSweep(shown.axis, drag'.settled))
                    ELSE Rendered(cubelets[id].at)]_gestureVars

\* Every interaction handed to the session makes a record that encodeRecord()
\* accepts at any number and time, and that can be read back from its bytes;
\* its turn is that of the cube.
RecordReadsBack ==
    interaction # None =>
      /\ interaction.command = drag.record.letter
      /\ interaction.signedQuarterTurns = drag.record.signedQuarterTurns
      /\ \A sequence \in Sequences, timingBin \in {Null, 0, 5} :
           LET record == [sequence |-> sequence, timingBin |-> timingBin,
                          kind |-> interaction.kind, command |-> interaction.command,
                          signedQuarterTurns |-> interaction.signedQuarterTurns,
                          pointerType |-> interaction.pointerType,
                          directionSector |-> interaction.directionSector,
                          speedClass |-> interaction.speedClass]
           IN ValidRecord(record) /\ DecodeRecord(EncodeRecord(record)) = record

=============================================================================
