--------------------------- MODULE MCDragGesture ---------------------------
(* DragGesture for TLC: the page's tilt, rotateX(-18deg) rotateY(-45deg),  *)
(* within two degrees, by the rotation of the quaternion (5, -1, -2, 0);   *)
(* lengths in units of five pixels, times in units of five milliseconds.   *)
EXTENDS DragGesture

MCTilt == [x |-> Vec(22, 4, 20), y |-> Vec(4, 28, -10), z |-> Vec(-20, 10, 20)]

\* Directions of three of the eight sectors, one of which turns the cube about
\* its z; a slip, less and more than a quarter turn.
MCMoves ==
    {[x |-> n * a[1], y |-> n * a[2]] : a \in {<<1, 2>>, <<-2, 0>>, <<2, -1>>}, n \in {7, 22}}
      \cup {[x |-> 0, y |-> 0], [x |-> 1, y |-> 0]}

Bytes(n) == [i \in 1..n |-> i]
MCDomain == Bytes(5)
MCConfiguration == Bytes(9)

=============================================================================
