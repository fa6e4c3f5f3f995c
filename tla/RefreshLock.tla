---------------------------- MODULE RefreshLock ----------------------------
(***************************************************************************)
(* The owner-token lock of the Ampache plugin's snapshot refresh           *)
(* (Snapshot_Repository::acquire_lock, ::release_lock): one row of         *)
(* wp_options that holds the owner's token and the time its lease expires. *)
(* A Worker is one call of Refresh_Service::run, by WP-Cron or "Refresh    *)
(* now"; its random 32-character token is the worker itself.  Calls one    *)
(* request makes in turn are workers that happen not to overlap.  Every    *)
(* database statement is a step: other workers, the clock and a crash of   *)
(* the PHP process fall between any two of them.                           *)
(***************************************************************************)
EXTENDS Integers

CONSTANTS
    Worker,     \* the calls of Refresh_Service::run
    LOCK_TTL,   \* seconds a lease lasts
    MaxTime,    \* bound: the clock stops here
    NoLock      \* there is no row jba_refresh_lock

Entry == [owner : Worker, expires : Nat]

ASSUME LockAssumption ==
    /\ LOCK_TTL \in Nat \ {0}
    /\ MaxTime \in Nat
    /\ NoLock \notin Entry

VARIABLES
    clock,      \* time()
    lock,       \* the row: an Entry, or NoLock
    pc,         \* where each worker is in run()
    entry,      \* $entry: what the worker writes into the row
    raw         \* $raw: the row as the worker last SELECTed it

lockVars == <<clock, lock, pc, entry, raw>>

Acquiring  == {"add", "select", "check", "steal"}
Holding    == {"held", "delete"}
Finished   == {"busy", "done", "crashed"}
PC         == {"idle"} \cup Acquiring \cup Holding \cup Finished

LockInit ==
    /\ clock = 0
    /\ lock = NoLock
    /\ pc = [p \in Worker |-> "idle"]
    /\ entry = [p \in Worker |-> NoLock]
    /\ raw = [p \in Worker |-> NoLock]

----------------------------------------------------------------------------
(* acquire_lock() *)

\* Slip: the expiry is computed on the wrong side of the present.
BeginAcquireExpired(p) ==
    /\ pc[p] = "idle"
    /\ entry' = [entry EXCEPT ![p] = [owner |-> p, expires |-> clock - LOCK_TTL]]
    /\ pc' = [pc EXCEPT ![p] = "add"]
    /\ UNCHANGED <<clock, lock, raw>>

\* The token is drawn and the expiry computed before the row is touched.
BeginAcquire(p) ==
    /\ pc[p] = "idle"
    /\ entry' = [entry EXCEPT ![p] = [owner |-> p, expires |-> clock + LOCK_TTL]]
    /\ pc' = [pc EXCEPT ![p] = "add"]
    /\ UNCHANGED <<clock, lock, raw>>

\* add_option(): inserts the row only if there is none.
AddOption(p) ==
    /\ pc[p] = "add"
    /\ IF lock = NoLock
         THEN /\ lock' = entry[p]
              /\ pc' = [pc EXCEPT ![p] = "held"]
         ELSE /\ pc' = [pc EXCEPT ![p] = "select"]
              /\ UNCHANGED lock
    /\ UNCHANGED <<clock, entry, raw>>

\* The SELECT of the row another worker left.
SelectLock(p) ==
    /\ pc[p] = "select"
    /\ raw' = [raw EXCEPT ![p] = lock]
    /\ pc' = [pc EXCEPT ![p] = "check"]
    /\ UNCHANGED <<clock, lock, entry>>

\* Slip: an existing row is always taken for a live one.
CheckAlwaysBusy(p) ==
    /\ pc[p] = "check"
    /\ pc' = [pc EXCEPT ![p] = "busy"]
    /\ UNCHANGED <<clock, lock, entry, raw>>

\* A row that has gone since add_option() failed, or a live one: return null.
\* time() is read here, after the SELECT.
CheckExpiry(p) ==
    /\ pc[p] = "check"
    /\ pc' = [pc EXCEPT ![p] =
                IF raw[p] = NoLock \/ raw[p].expires > clock THEN "busy" ELSE "steal"]
    /\ UNCHANGED <<clock, lock, entry, raw>>

\* Slip: UPDATE ... WHERE option_name = %s, without the value the worker saw.
StealAny(p) ==
    /\ pc[p] = "steal"
    /\ lock' = entry[p]
    /\ pc' = [pc EXCEPT ![p] = "held"]
    /\ UNCHANGED <<clock, entry, raw>>

\* UPDATE ... WHERE option_value = raw: only one of the workers that saw the
\* same expired row changes it; the others return null.
StealLock(p) ==
    /\ pc[p] = "steal"
    /\ IF lock = raw[p]
         THEN /\ lock' = entry[p]
              /\ pc' = [pc EXCEPT ![p] = "held"]
         ELSE /\ pc' = [pc EXCEPT ![p] = "busy"]
              /\ UNCHANGED lock
    /\ UNCHANGED <<clock, entry, raw>>

----------------------------------------------------------------------------
(* release_lock(), from the finally of run() *)

\* The SELECT, and the return when the row is not this token's.
SelectOwn(p) ==
    /\ pc[p] = "held"
    /\ raw' = [raw EXCEPT ![p] = lock]
    /\ pc' = [pc EXCEPT ![p] =
                IF lock = NoLock \/ lock.owner # p THEN "done" ELSE "delete"]
    /\ UNCHANGED <<clock, lock, entry>>

\* Slip: a plain read-then-delete.
DeleteAny(p) ==
    /\ pc[p] = "delete"
    /\ lock' = NoLock
    /\ pc' = [pc EXCEPT ![p] = "done"]
    /\ UNCHANGED <<clock, entry, raw>>

\* DELETE ... WHERE option_value = raw.
DeleteOwn(p) ==
    /\ pc[p] = "delete"
    /\ lock' = IF lock = raw[p] THEN NoLock ELSE lock
    /\ pc' = [pc EXCEPT ![p] = "done"]
    /\ UNCHANGED <<clock, entry, raw>>

----------------------------------------------------------------------------
(* The environment *)

\* The PHP process dies (fatal error, kill, reboot): no finally runs.
Crash(p) ==
    /\ pc[p] \in Acquiring \cup Holding
    /\ pc' = [pc EXCEPT ![p] = "crashed"]
    /\ UNCHANGED <<clock, lock, entry, raw>>

Tick ==
    /\ clock < MaxTime
    /\ clock' = clock + 1
    /\ UNCHANGED <<lock, pc, entry, raw>>

Acquire(p) ==
    \/ BeginAcquire(p)
    \/ AddOption(p)
    \/ SelectLock(p)
    \/ CheckExpiry(p)
    \/ StealLock(p)

Release(p) ==
    \/ SelectOwn(p)
    \/ DeleteOwn(p)

LockNext ==
    \/ \E p \in Worker : Acquire(p) \/ Release(p) \/ Crash(p)
    \/ Tick

LockSpec == LockInit /\ [][LockNext]_lockVars

\* A worker that does not crash keeps running, the timer starts every idle
\* worker, and time passes.
LockFairSpec ==
    /\ LockSpec
    /\ \A p \in Worker : WF_lockVars(Acquire(p) \/ Release(p))
    /\ WF_lockVars(Tick)

----------------------------------------------------------------------------
(* Properties *)

\* The row holds a worker's own entry or nothing, and so does what a worker
\* keeps of it.
LockTypeOK ==
    /\ clock \in Nat
    /\ lock \in Entry \cup {NoLock}
    /\ pc \in [Worker -> PC]
    /\ entry \in [Worker -> Entry \cup {NoLock}]
    /\ raw \in [Worker -> Entry \cup {NoLock}]

Holds(p) == pc[p] \in Holding
Live(p) == clock < entry[p].expires

\* "At most one refresh owns the lock" (plan README): two workers between
\* acquire_lock and release_lock are never both within their leases.
OneLiveOwner ==
    \A p, q \in Worker :
        Holds(p) /\ Live(p) /\ Holds(q) /\ Live(q) => p = q

\* "An expired worker must never delete its successor's lock"
\* (release_lock): a row goes away only by the hand of the worker it names.
OnlyOwnerReleases ==
    [][lock # NoLock /\ lock' = NoLock
         => pc[lock.owner] = "delete" /\ pc'[lock.owner] = "done"]_lockVars

\* A worker that crashed with the lock does not shut refreshes out for good:
\* once its lease is over, any run that starts from then on takes the row
\* over, unless it crashes too or another run does so first.
AbandonedLeaseRecovered ==
    \A p, q \in Worker :
        (/\ lock # NoLock
         /\ lock.owner = p
         /\ pc[p] = "crashed"
         /\ lock.expires <= clock
         /\ pc[q] = "idle")
        ~> (lock = NoLock \/ lock.owner # p \/ pc[q] = "crashed")

\* What callers may rely on, without the statements it takes.
Lease == INSTANCE LeaseLock
           WITH lease <- lock, NoLease <- NoLock,
                believers <- {p \in Worker : Holds(p)}

ImplementsLease == Lease!Spec
=============================================================================
