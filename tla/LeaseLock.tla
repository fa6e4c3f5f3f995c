----------------------------- MODULE LeaseLock -----------------------------
(***************************************************************************)
(* What the refresh lock promises, each operation in one step: a worker is *)
(* granted the lease when there is none or the last one has expired, and   *)
(* only the worker the lease names gives it back.  A worker that outlives  *)
(* its lease still believes in it until it finishes; it can then only      *)
(* lapse, leaving its successor's lease alone.                             *)
(***************************************************************************)
EXTENDS Integers

CONSTANTS Worker, LOCK_TTL, NoLease

VARIABLES
    clock,
    lease,      \* [owner, expires] or NoLease
    believers   \* the workers that act as if they held the lease

vars == <<clock, lease, believers>>

Init ==
    /\ clock = 0
    /\ lease = NoLease
    /\ believers = {}

Free == lease = NoLease \/ lease.expires <= clock

\* The lease may have begun to run before it is granted.
Grant(w) ==
    /\ w \notin believers
    /\ Free
    /\ \E since \in 0 .. clock :
          lease' = [owner |-> w, expires |-> since + LOCK_TTL]
    /\ believers' = believers \cup {w}
    /\ UNCHANGED clock

Return(w) ==
    /\ w \in believers
    /\ lease # NoLease
    /\ lease.owner = w
    /\ lease' = NoLease
    /\ believers' = believers \ {w}
    /\ UNCHANGED clock

\* A crash, or a release by a worker whose lease was taken over.
Lapse(w) ==
    /\ w \in believers
    /\ believers' = believers \ {w}
    /\ UNCHANGED <<clock, lease>>

Tick ==
    /\ clock' = clock + 1
    /\ UNCHANGED <<lease, believers>>

Next ==
    \/ \E w \in Worker : Grant(w) \/ Return(w) \/ Lapse(w)
    \/ Tick

Spec == Init /\ [][Next]_vars
=============================================================================
