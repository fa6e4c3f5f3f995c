----------------------- MODULE SnapshotRefreshProofs -----------------------
(***************************************************************************)
(* Proofs about RefreshLock, for any number of workers, any time to live   *)
(* and any bound on the clock, and about SnapshotRefresh, for any number   *)
(* of runs, page views and administrators in any requests, any servers and *)
(* any layout of the object caches the theorems do not exclude.            *)
(***************************************************************************)
EXTENDS SnapshotRefresh, TLAPS

----------------------------------------------------------------------------
(* The inductive invariant, part by part *)

\* What a worker writes names it, and its lease began in the past.
EntryIsOwn ==
    \A p \in Worker :
        pc[p] # "idle" => /\ entry[p] \in Entry
                          /\ entry[p].owner = p
                          /\ entry[p].expires - LOCK_TTL \in 0 .. clock

\* A row, and a remembered row, is exactly what its owner wrote.
IsWritten(row) ==
    row # NoLock => /\ pc[row.owner] # "idle"
                    /\ row = entry[row.owner]

RowsAreWritten ==
    /\ IsWritten(lock)
    /\ \A p \in Worker : IsWritten(raw[p])

\* The statement about to run is conditional on the right row: an expired
\* one to steal, the worker's own to delete.
ConditionIsRight ==
    \A p \in Worker :
        /\ pc[p] = "steal" => raw[p] # NoLock /\ raw[p].expires <= clock
        /\ pc[p] = "delete" => raw[p] = entry[p]

\* Within its lease, the row is the holder's.
LiveHolderOwnsRow ==
    \A p \in Worker : Holds(p) /\ Live(p) => lock = entry[p]

LockInv ==
    /\ LockTypeOK
    /\ EntryIsOwn
    /\ RowsAreWritten
    /\ ConditionIsRight
    /\ LiveHolderOwnsRow

----------------------------------------------------------------------------

LEMMA InitLockInv == LockInit => LockInv
  BY LockAssumption
  DEF LockInit, LockInv, LockTypeOK, EntryIsOwn, RowsAreWritten, IsWritten,
      ConditionIsRight, LiveHolderOwnsRow, Holds, Holding, PC, Acquiring, Finished

\* No step breaks the types.
LEMMA NextLockTypeOK == LockTypeOK /\ EntryIsOwn /\ [LockNext]_lockVars => LockTypeOK'
<1> SUFFICES ASSUME LockTypeOK, EntryIsOwn, [LockNext]_lockVars PROVE LockTypeOK'
  OBVIOUS
<1> USE LockAssumption DEF LockTypeOK, PC, Acquiring, Holding, Finished
<1>1. ASSUME NEW p \in Worker, BeginAcquire(p) PROVE LockTypeOK'
  <2>1. [owner |-> p, expires |-> clock + LOCK_TTL] \in Entry
    BY DEF Entry
  <2> QED
    BY <1>1, <2>1 DEF BeginAcquire
<1>2. ASSUME NEW p \in Worker, AddOption(p) PROVE LockTypeOK'
  BY <1>2 DEF AddOption, EntryIsOwn
<1>3. ASSUME NEW p \in Worker, SelectLock(p) PROVE LockTypeOK'
  BY <1>3 DEF SelectLock
<1>4. ASSUME NEW p \in Worker, CheckExpiry(p) PROVE LockTypeOK'
  BY <1>4 DEF CheckExpiry
<1>5. ASSUME NEW p \in Worker, StealLock(p) PROVE LockTypeOK'
  BY <1>5 DEF StealLock, EntryIsOwn
<1>6. ASSUME NEW p \in Worker, SelectOwn(p) PROVE LockTypeOK'
  BY <1>6 DEF SelectOwn
<1>7. ASSUME NEW p \in Worker, DeleteOwn(p) PROVE LockTypeOK'
  BY <1>7 DEF DeleteOwn
<1>8. ASSUME NEW p \in Worker, Crash(p) PROVE LockTypeOK'
  BY <1>8 DEF Crash
<1>9. CASE Tick
  BY <1>9 DEF Tick
<1>10. CASE UNCHANGED lockVars
  BY <1>10 DEF lockVars
<1> QED
  BY <1>1, <1>2, <1>3, <1>4, <1>5, <1>6, <1>7, <1>8, <1>9, <1>10
  DEF LockNext, Acquire, Release

\* No step breaks the inductive invariant.
LEMMA NextLockInv == LockInv /\ [LockNext]_lockVars => LockInv'
<1> SUFFICES ASSUME LockInv, [LockNext]_lockVars PROVE LockInv'
  OBVIOUS
<1>t. LockTypeOK'
  BY NextLockTypeOK DEF LockInv
<1> USE LockAssumption, <1>t
    DEF LockInv, EntryIsOwn, RowsAreWritten, IsWritten, ConditionIsRight,
        LiveHolderOwnsRow, Holds, Live, Holding
<1> DEFINE Rest == (EntryIsOwn /\ RowsAreWritten /\ ConditionIsRight /\ LiveHolderOwnsRow)'
<1>1. ASSUME NEW p \in Worker, BeginAcquire(p) PROVE Rest
  BY <1>1 DEF BeginAcquire, LockTypeOK, Entry
<1>2. ASSUME NEW p \in Worker, AddOption(p) PROVE Rest
  BY <1>2 DEF AddOption, LockTypeOK, Entry
<1>3. ASSUME NEW p \in Worker, SelectLock(p) PROVE Rest
  BY <1>3 DEF SelectLock, LockTypeOK
<1>4. ASSUME NEW p \in Worker, CheckExpiry(p) PROVE Rest
  BY <1>4 DEF CheckExpiry, LockTypeOK, Entry
<1>5. ASSUME NEW p \in Worker, StealLock(p) PROVE Rest
  BY <1>5 DEF StealLock, LockTypeOK, Entry
<1>6. ASSUME NEW p \in Worker, SelectOwn(p) PROVE Rest
  BY <1>6 DEF SelectOwn, LockTypeOK
<1>7. ASSUME NEW p \in Worker, DeleteOwn(p) PROVE Rest
  BY <1>7 DEF DeleteOwn, LockTypeOK, Entry
<1>8. ASSUME NEW p \in Worker, Crash(p) PROVE Rest
  BY <1>8 DEF Crash, LockTypeOK, Acquiring
<1>9. CASE Tick
  BY <1>9 DEF Tick, LockTypeOK, Entry
<1>10. CASE UNCHANGED lockVars
  BY <1>10 DEF lockVars
<1> QED
  BY <1>1, <1>2, <1>3, <1>4, <1>5, <1>6, <1>7, <1>8, <1>9, <1>10
  DEF LockNext, Acquire, Release

\* The inductive invariant holds in every reachable state.
LEMMA AlwaysLockInv == LockSpec => []LockInv
  BY InitLockInv, NextLockInv, PTL DEF LockSpec

----------------------------------------------------------------------------

\* acquire_lock and release_lock keep the row and every remembered row an
\* entry some worker wrote, or none.
THEOREM LockTypeCorrect == LockSpec => []LockTypeOK
<1>1. LockInv => LockTypeOK
  BY DEF LockInv
<1> QED
  BY <1>1, AlwaysLockInv, PTL

\* "At most one refresh owns the lock": two workers inside the lock are never
\* both within their leases.
THEOREM LockOneLiveOwner == LockSpec => []OneLiveOwner
<1>1. LockInv => OneLiveOwner
  BY LockAssumption
  DEF LockInv, OneLiveOwner, LiveHolderOwnsRow, EntryIsOwn, Holds, Holding
<1> QED
  BY <1>1, AlwaysLockInv, PTL

\* "only that owner may release it": the row goes away by the conditional
\* DELETE of the worker it names and in no other way.
THEOREM LockOnlyOwnerReleases == LockSpec => OnlyOwnerReleases
<1> DEFINE Owned == lock # NoLock /\ lock' = NoLock
                      => pc[lock.owner] = "delete" /\ pc'[lock.owner] = "done"
<1>1. LockInv /\ [LockNext]_lockVars => [Owned]_lockVars
  <2> SUFFICES ASSUME LockInv, LockNext, lock # NoLock, lock' = NoLock
               PROVE  pc[lock.owner] = "delete" /\ pc'[lock.owner] = "done"
    BY DEF lockVars
  <2>1. PICK p \in Worker : AddOption(p) \/ StealLock(p) \/ DeleteOwn(p)
    BY DEF LockNext, Acquire, Release, BeginAcquire, SelectLock, CheckExpiry,
           SelectOwn, Crash, Tick
  <2>2. CASE AddOption(p)
    BY <2>2 DEF AddOption
  <2>3. CASE StealLock(p)
    BY <2>3, LockAssumption DEF StealLock, LockInv, EntryIsOwn
  <2>4. CASE DeleteOwn(p)
    <3>1. lock = raw[p] /\ raw[p] = entry[p] /\ lock.owner = p
      BY <2>4 DEF DeleteOwn, LockInv, ConditionIsRight, EntryIsOwn
    <3> QED
      BY <2>4, <3>1 DEF DeleteOwn, LockInv, LockTypeOK
  <2> QED
    BY <2>1, <2>2, <2>3, <2>4
<1> QED
  BY <1>1, AlwaysLockInv, PTL DEF LockSpec, OnlyOwnerReleases

----------------------------------------------------------------------------
(* The statements of acquire_lock and release_lock implement LeaseLock. *)

\* Every statement is a step of the abstract lease, or invisible to it.
LEMMA LockStepRefines == LockInv /\ [LockNext]_lockVars => [Lease!Next]_(Lease!vars)
<1> SUFFICES ASSUME LockInv, [LockNext]_lockVars
             PROVE  [Lease!Next]_(Lease!vars)
  OBVIOUS
<1> DEFINE believers == {q \in Worker : Holds(q)}
<1> USE LockAssumption
    DEF LockInv, LockTypeOK, Holds, Holding, Lease!vars
<1>1. ASSUME NEW p \in Worker, BeginAcquire(p) PROVE UNCHANGED <<clock, lock, believers>>
  BY <1>1 DEF BeginAcquire
<1>2. ASSUME NEW p \in Worker, AddOption(p)
      PROVE  Lease!Grant(p) \/ UNCHANGED <<clock, lock, believers>>
  <2>1. CASE lock = NoLock
    <3>1. p \notin believers /\ believers' = believers \cup {p}
      BY <1>2, <2>1 DEF AddOption
    <3>2. /\ entry[p].expires - LOCK_TTL \in 0 .. clock
          /\ entry[p] = [owner |-> p, expires |-> (entry[p].expires - LOCK_TTL) + LOCK_TTL]
      BY <1>2 DEF AddOption, EntryIsOwn, Entry
    <3> QED
      BY <1>2, <2>1, <3>1, <3>2 DEF AddOption, Lease!Grant, Lease!Free
  <2>2. CASE lock # NoLock
    BY <1>2, <2>2 DEF AddOption
  <2> QED
    BY <2>1, <2>2
<1>3. ASSUME NEW p \in Worker, SelectLock(p) PROVE UNCHANGED <<clock, lock, believers>>
  BY <1>3 DEF SelectLock
<1>4. ASSUME NEW p \in Worker, CheckExpiry(p) PROVE UNCHANGED <<clock, lock, believers>>
  BY <1>4 DEF CheckExpiry
<1>5. ASSUME NEW p \in Worker, StealLock(p)
      PROVE  Lease!Grant(p) \/ UNCHANGED <<clock, lock, believers>>
  <2>1. CASE lock = raw[p]
    <3>1. p \notin believers /\ believers' = believers \cup {p}
      BY <1>5, <2>1 DEF StealLock
    <3>2. /\ entry[p].expires - LOCK_TTL \in 0 .. clock
          /\ entry[p] = [owner |-> p, expires |-> (entry[p].expires - LOCK_TTL) + LOCK_TTL]
      BY <1>5 DEF StealLock, EntryIsOwn, Entry
    <3>3. lock.expires <= clock
      BY <1>5, <2>1 DEF StealLock, ConditionIsRight
    <3> QED
      BY <1>5, <2>1, <3>1, <3>2, <3>3 DEF StealLock, Lease!Grant, Lease!Free
  <2>2. CASE lock # raw[p]
    BY <1>5, <2>2 DEF StealLock
  <2> QED
    BY <2>1, <2>2
<1>6. ASSUME NEW p \in Worker, SelectOwn(p)
      PROVE  Lease!Lapse(p) \/ UNCHANGED <<clock, lock, believers>>
  <2>1. CASE lock = NoLock \/ lock.owner # p
    <3>1. p \in believers /\ believers' = believers \ {p}
      BY <1>6, <2>1 DEF SelectOwn
    <3> QED
      BY <1>6, <3>1 DEF SelectOwn, Lease!Lapse
  <2>2. CASE ~(lock = NoLock \/ lock.owner # p)
    BY <1>6, <2>2 DEF SelectOwn
  <2> QED
    BY <2>1, <2>2
<1>7. ASSUME NEW p \in Worker, DeleteOwn(p) PROVE Lease!Return(p) \/ Lease!Lapse(p)
  <2>1. p \in believers /\ believers' = believers \ {p}
    BY <1>7 DEF DeleteOwn
  <2>2. raw[p] = entry[p] /\ entry[p] \in Entry /\ entry[p].owner = p
    BY <1>7 DEF DeleteOwn, ConditionIsRight, EntryIsOwn
  <2>3. CASE lock = raw[p]
    BY <1>7, <2>1, <2>2, <2>3 DEF DeleteOwn, Lease!Return
  <2>4. CASE lock # raw[p]
    BY <1>7, <2>1, <2>4 DEF DeleteOwn, Lease!Lapse
  <2> QED
    BY <2>3, <2>4
<1>8. ASSUME NEW p \in Worker, Crash(p)
      PROVE  Lease!Lapse(p) \/ UNCHANGED <<clock, lock, believers>>
  <2>1. believers' = believers \ {p}
    BY <1>8 DEF Crash
  <2>2. CASE p \in believers
    BY <1>8, <2>1, <2>2 DEF Crash, Lease!Lapse
  <2>3. CASE p \notin believers
    BY <1>8, <2>1, <2>3 DEF Crash
  <2> QED
    BY <2>2, <2>3
<1>9. CASE Tick
  <2>1. UNCHANGED believers
    BY <1>9 DEF Tick
  <2> QED
    BY <1>9, <2>1 DEF Tick, Lease!Next, Lease!Tick
<1>10. CASE UNCHANGED lockVars
  BY <1>10 DEF lockVars
<1> QED
  BY <1>1, <1>2, <1>3, <1>4, <1>5, <1>6, <1>7, <1>8, <1>9, <1>10
  DEF LockNext, Acquire, Release, Lease!Next

\* Split into statements, interrupted by crashes, the lock still behaves as a
\* lease granted and returned in single steps.
THEOREM LockImplementsLease == LockSpec => ImplementsLease
<1>1. LockInit => Lease!Init
  BY DEF LockInit, Lease!Init, Holds, Holding
<1> QED
  BY <1>1, LockStepRefines, AlwaysLockInv, PTL
  DEF LockSpec, ImplementsLease, Lease!Spec

----------------------------------------------------------------------------
(* A refresh takes and returns the lock as RefreshLock says. *)

LEMMA RefreshStepsLock == ASSUME [Next]_vars PROVE [LockNext]_lockVars
<1> USE DEF LockNext, Acquire, Release
<1>1. CASE UNCHANGED vars
  BY <1>1 DEF vars
<1>2. ASSUME NEW p \in Worker, Run(p) PROVE [LockNext]_lockVars
  BY <1>2 DEF Run, StartRun, ContinueAcquire, Fetch, GetForWrite, FillForWrite,
              PutSnapshot, DropCache, RecordStatus, EndRun, CrashRun
<1>3. ASSUME NEW v \in Visitor, View(v) \/ FillForView(v) PROVE [LockNext]_lockVars
  BY <1>3 DEF View, FillForView
<1>4. ASSUME NEW a \in Admin, Administer(a) PROVE [LockNext]_lockVars
  BY <1>4 DEF Administer, SaveOrigin, ClearSnapshot, DeleteSnapshot, DropForAdmin
<1>5. CASE TickRefresh
  BY <1>5 DEF TickRefresh
<1> QED
  BY <1>1, <1>2, <1>3, <1>4, <1>5 DEF Next

\* Whatever else a refresh does, it uses the lock statement by statement as
\* RefreshLock has it: what is proved of the lock holds during refreshes.
THEOREM RefreshUsesLock == Spec => LockSpec
<1>1. Init => LockInit
  BY DEF Init
<1> QED
  BY <1>1, RefreshStepsLock, PTL DEF Spec, LockSpec

----------------------------------------------------------------------------
(* Types *)

Stage == {"start", "fetch", "get", "fill", "put", "drop", "record",
          "shown", "invalidate", "done"}

\* A run has sections left while it is in one, and is past acquire_lock then;
\* a request that has made a call has read its settings.
RunTypeOK ==
    /\ stage \in [Call -> Stage]
    /\ todo \in [Worker -> Seq(Section)]
    /\ \A p \in Worker :
          /\ stage[p] = "start" <=> pc[p] = "idle"
          /\ pc[p] \in Acquiring => stage[p] = "fetch"
          /\ stage[p] \notin {"start", "fetch"} => todo[p] # <<>> /\ pc[p] \in {"held", "crashed"}
    /\ \A c \in Call : stage[c] # "start" => settings[RequestOf[c]] # Unread

TypeInv == SnapshotTypeOK /\ RunTypeOK

LEMMA NonePossible ==
    /\ EmptySnapshot \in Snapshot
    /\ NoStatus \in Status
  BY DEF EmptySnapshot, Snapshot, NoStatus, Status

LEMMA InitTypes == ASSUME Init PROVE TypeInv
<1> USE DEF Init
<1>1. LockTypeOK
  BY InitLockInv DEF LockInv
<1>2. SnapshotTypeOK
  BY <1>1, NonePossible DEF SnapshotTypeOK
<1>3. RunTypeOK
  BY SnapshotAssumption DEF RunTypeOK, Stage, Call, LockInit, Acquiring
<1> QED
  BY <1>2, <1>3 DEF TypeInv

\* What a section's step finds.
LEMMA SectionTypes ==
    ASSUME TypeInv, NEW p \in Worker, todo[p] # <<>>
    PROVE  SectionOf(p) \in Section /\ Tail(todo[p]) \in Seq(Section)
  BY DEF TypeInv, RunTypeOK, SectionOf

LEMMA LookupTypes ==
    ASSUME TypeInv, NEW c \in Worker \cup Visitor, NEW hit \in Stage, NEW miss \in Stage,
           Lookup(c, hit, miss)
    PROVE  /\ snap' \in [Worker \cup Visitor -> Snapshot]
           /\ copy' \in [Request -> Snapshot \cup {NoRow, Unread}]
           /\ \E s \in {hit, miss} : stage' = [stage EXCEPT ![c] = s]
<1> DEFINE r == RequestOf[c]
           cached == cache[CacheOf[r]]
<1> USE SnapshotAssumption, NonePossible DEF TypeInv, SnapshotTypeOK
<1>1. r \in Request /\ c \in Call /\ cached \in Snapshot \cup {None}
  BY DEF Call
<1>2. CASE cached # None
  BY <1>1, <1>2 DEF Lookup, GoTo
<1>3. CASE cached = None
  <2>1. /\ copy' = [copy EXCEPT ![r] = Known(copy[r], snapshot)]
        /\ snap' = [snap EXCEPT ![c] = SectionsIn(copy'[r])]
        /\ GoTo(c, miss)
    BY <1>3 DEF Lookup
  <2>2. Known(copy[r], snapshot) \in Snapshot \cup {NoRow}
    BY <1>1 DEF Known
  <2>3. copy'[r] \in Snapshot \cup {NoRow} /\ copy' \in [Request -> Snapshot \cup {NoRow, Unread}]
    BY <1>1, <2>1, <2>2
  <2>4. SectionsIn(copy'[r]) \in Snapshot
    BY <2>3 DEF SectionsIn
  <2> QED
    BY <2>1, <2>3, <2>4 DEF GoTo
<1> QED
  BY <1>2, <1>3

\* One section of the snapshot, or one record of the status, replaced.
LEMMA ReplaceTypes ==
    ASSUME TypeInv, NEW p \in Worker, SectionOf(p) \in Section
    PROVE  /\ Rewritten(p) \in Snapshot
           /\ Known(statusCopy[RequestOf[p]], status) \in Status
           /\ [Known(statusCopy[RequestOf[p]], status) EXCEPT
                 ![SectionOf(p)] = Outcome(p, @)] \in Status
<1> USE SnapshotAssumption DEF TypeInv, SnapshotTypeOK
<1>1. snap[p] \in Snapshot /\ got[p] \in Data \cup {None}
  OBVIOUS
<1>2. Rewritten(p) \in Snapshot
  BY <1>1 DEF Rewritten, Snapshot
<1> DEFINE known == Known(statusCopy[RequestOf[p]], status)
           Record == [success : Worker \cup {None}, failures : Nat]
<1>3. known \in Status
  BY DEF Known, Call
<1>4. \A record \in Record : Outcome(p, record) \in Record
  BY DEF Outcome
<1>5. [known EXCEPT ![SectionOf(p)] = Outcome(p, @)] \in Status
  <2> HIDE DEF known
  <2> QED
    BY <1>3, <1>4 DEF Status
<1> QED
  BY <1>2, <1>3, <1>5

LEMMA KindTypes == \A kind \in RunKind : kind \in Seq(Section)
<1> DEFINE a == "now_playing" b == "stats" c == "recent"
<1>1. a \in Section /\ b \in Section /\ c \in Section
  BY DEF Section
<1> HIDE DEF a, b, c
<1>2. <<a>> \in Seq(Section) /\ <<b, c>> \in Seq(Section) /\ <<a, b, c>> \in Seq(Section)
  BY <1>1
<1> QED
  BY <1>2 DEF RunKind, a, b, c

LEMMA BootTypes ==
    ASSUME TypeInv, NEW c \in Call, Boot(c)
    PROVE  /\ settings' \in [Request -> Origin \cup {Unread}]
           /\ settings'[RequestOf[c]] # Unread
           /\ \A r \in Request : settings[r] # Unread => settings'[r] # Unread
  BY SnapshotAssumption DEF TypeInv, SnapshotTypeOK, Boot, Known

LEMMA RunTypes ==
    ASSUME TypeInv, NEW p \in Worker, Run(p), LockTypeOK' PROVE TypeInv'
<1> USE DEF TypeInv
<1>0. p \in Call /\ RequestOf[p] \in Request /\ CacheOf[RequestOf[p]] \in CacheId
  BY SnapshotAssumption DEF Call
<1> DEFINE Enters(q) == /\ stage[q] = "start" <=> pc[q] = "idle"
                        /\ pc[q] \in Acquiring => stage[q] = "fetch"
                        /\ stage[q] \notin {"start", "fetch"}
                             => todo[q] # <<>> /\ pc[q] \in {"held", "crashed"}
<1>e. ASSUME stage' \in [Call -> Stage], todo' \in [Worker -> Seq(Section)],
             \A r \in Request : settings[r] # Unread => settings'[r] # Unread,
             settings'[RequestOf[p]] # Unread,
             \A c \in Call \ {p} : stage'[c] = stage[c],
             \A q \in Worker \ {p} : pc'[q] = pc[q] /\ todo'[q] = todo[q],
             Enters(p)'
      PROVE  RunTypeOK'
  <2>1. ASSUME NEW q \in Worker PROVE Enters(q)'
    <3>1. CASE q = p
      BY <1>e, <3>1
    <3>2. CASE q # p
      <4>1. stage'[q] = stage[q] /\ pc'[q] = pc[q] /\ todo'[q] = todo[q]
        BY <1>e, <3>2 DEF Call
      <4> QED
        BY <4>1 DEF RunTypeOK
    <3> QED
      BY <3>1, <3>2
  <2>2. ASSUME NEW c \in Call, stage'[c] # "start" PROVE settings'[RequestOf[c]] # Unread
    BY <1>e, <2>2, SnapshotAssumption DEF RunTypeOK
  <2> QED
    BY <1>e, <2>1, <2>2 DEF RunTypeOK
<1>b. stage[p] # "start" => settings[RequestOf[p]] # Unread
  BY <1>0 DEF RunTypeOK
<1>i. ASSUME NEW s, InSection(p, s), s # "start"
      PROVE  /\ pc[p] = "held" /\ todo[p] # <<>> /\ stage[p] = s
             /\ SectionOf(p) \in Section /\ Tail(todo[p]) \in Seq(Section)
             /\ settings[RequestOf[p]] \in Origin
  BY <1>0, <1>b, <1>i, SectionTypes DEF InSection, SnapshotTypeOK
<1>1. CASE StartRun(p)
  <2>1. todo' \in [Worker -> Seq(Section)] /\ \A q \in Worker \ {p} : todo'[q] = todo[q]
    BY <1>1, KindTypes DEF StartRun, RunTypeOK
  <2>2. /\ stage' \in [Call -> Stage] /\ stage'[p] = "fetch"
        /\ \A c \in Call \ {p} : stage'[c] = stage[c]
    BY <1>0, <1>1 DEF StartRun, GoTo, RunTypeOK, Stage
  <2>3. pc'[p] = "add" /\ \A q \in Worker \ {p} : pc'[q] = pc[q]
    BY <1>1 DEF StartRun, BeginAcquire, SnapshotTypeOK, LockTypeOK
  <2>4. Boot(p)
    BY <1>1 DEF StartRun
  <2>5. SnapshotTypeOK'
    BY <1>0, <1>1, <2>4, BootTypes DEF StartRun, SnapshotTypeOK, rowVars
  <2>6. RunTypeOK'
    BY <1>e, <1>0, <2>1, <2>2, <2>3, <2>4, BootTypes DEF Acquiring
  <2> QED
    BY <2>5, <2>6
<1>2. CASE ContinueAcquire(p) \/ CrashRun(p) \/ EndRun(p)
  <2>1. /\ outdated' \subseteq Worker
        /\ UNCHANGED <<rowVars, memVars, localVars>>
    BY <1>2 DEF ContinueAcquire, CrashRun, EndRun, SnapshotTypeOK
  <2>2. SnapshotTypeOK'
    BY <2>1 DEF SnapshotTypeOK, rowVars, memVars, localVars
  <2>3. \A q \in Worker \ {p} : pc'[q] = pc[q]
    BY <1>2 DEF ContinueAcquire, CrashRun, EndRun, AddOption, SelectLock, CheckExpiry, StealLock, Crash,
                SelectOwn, DeleteOwn, SnapshotTypeOK, LockTypeOK
  <2>4. Enters(p)'
    <3>1. stage'[p] = stage[p] /\ todo'[p] = todo[p] /\ Enters(p)
      BY <2>1 DEF localVars, RunTypeOK
    <3>2. CASE ContinueAcquire(p)
      <4>1. pc[p] \in Acquiring /\ pc'[p] \in Acquiring \cup {"held", "busy"}
        BY <3>2 DEF ContinueAcquire, AddOption, SelectLock, CheckExpiry, StealLock,
                    SnapshotTypeOK, LockTypeOK, Acquiring
      <4> QED
        BY <3>1, <4>1 DEF Acquiring
    <3>3. CASE CrashRun(p)
      BY <3>1, <3>3 DEF CrashRun, Crash, SnapshotTypeOK, LockTypeOK, Acquiring, Holding
    <3>4. CASE EndRun(p)
      <4>1. /\ pc[p] \in {"held", "delete"} /\ pc'[p] \in {"delete", "done"}
            /\ pc[p] = "held" => todo[p] = <<>>
        BY <3>4 DEF EndRun, SelectOwn, DeleteOwn, SnapshotTypeOK, LockTypeOK
      <4> QED
        BY <3>1, <4>1 DEF Acquiring
    <3> QED
      BY <1>2, <3>2, <3>3, <3>4
  <2>5. stage[p] # "start"
    BY <1>2 DEF RunTypeOK, ContinueAcquire, CrashRun, EndRun, AddOption, SelectLock, CheckExpiry,
                StealLock, Crash, SelectOwn, DeleteOwn, Acquiring, Holding
  <2>6. RunTypeOK'
    BY <1>e, <1>b, <2>1, <2>3, <2>4, <2>5 DEF RunTypeOK, localVars, memVars
  <2> QED
    BY <2>2, <2>6
\* A step within a section that goes on in it.
<1>s. ASSUME NEW s \in {"fetch", "get", "fill", "put", "drop"}, InSection(p, s),
             NEW t \in {"get", "fill", "put", "drop", "record"}, GoTo(p, t),
             UNCHANGED <<lockVars, todo, settings>>
      PROVE  RunTypeOK'
  <2>1. /\ stage' \in [Call -> Stage] /\ stage'[p] = t
        /\ \A c \in Call \ {p} : stage'[c] = stage[c]
    BY <1>0, <1>s DEF GoTo, RunTypeOK, Stage
  <2>2. pc[p] = "held" /\ todo[p] # <<>> /\ stage[p] = s
    BY <1>s DEF InSection
  <2>3. Enters(p)'
    BY <1>s, <2>1, <2>2 DEF lockVars, Acquiring
  <2> QED
    BY <1>e, <1>b, <1>s, <2>1, <2>2, <2>3 DEF lockVars, RunTypeOK
<1>3. CASE Fetch(p)
  <2>1. settings[RequestOf[p]] \in Origin
    BY <1>3, <1>i DEF Fetch
  <2>2. got' \in [Worker -> Data \cup {None}]
    BY <1>3, <2>1 DEF Fetch, SnapshotTypeOK, FetchResult, Data
  <2>3. statusCopy' \in [Request -> Status \cup {Unread}]
    BY <1>0, <1>3 DEF Fetch, ReadStatus, Known, SnapshotTypeOK
  <2>4. SnapshotTypeOK'
    BY <1>3, <2>2, <2>3 DEF Fetch, SnapshotTypeOK, rowVars
  <2>5. \E t \in {"get", "record"} : GoTo(p, t)
    BY <1>3 DEF Fetch
  <2> QED
    BY <1>3, <1>s, <2>4, <2>5 DEF Fetch
<1>4. CASE GetForWrite(p)
  <2>1. /\ snap' \in [Worker \cup Visitor -> Snapshot]
        /\ copy' \in [Request -> Snapshot \cup {NoRow, Unread}]
        /\ \E t \in {"put", "fill"} : GoTo(p, t)
    BY <1>4, LookupTypes DEF GetForWrite, Stage, GoTo
  <2>2. SnapshotTypeOK'
    BY <1>4, <2>1 DEF GetForWrite, SnapshotTypeOK, rowVars
  <2> QED
    BY <1>4, <1>s, <2>1, <2>2 DEF GetForWrite
<1>5. CASE FillForWrite(p)
  <2>1. cache' \in [CacheId -> Snapshot \cup {None}] /\ GoTo(p, "put")
    BY <1>5 DEF FillForWrite, Fill, SnapshotTypeOK
  <2>2. SnapshotTypeOK'
    BY <1>5, <2>1 DEF FillForWrite, SnapshotTypeOK, rowVars
  <2> QED
    BY <1>5, <1>s, <2>1, <2>2 DEF FillForWrite
<1>6. CASE PutSnapshot(p)
  <2>1. Rewritten(p) \in Snapshot
    BY <1>6, <1>i, ReplaceTypes DEF PutSnapshot
  <2>2. Known(copy[RequestOf[p]], snapshot) \in Snapshot \cup {NoRow}
    BY <1>0 DEF Known, SnapshotTypeOK
  <2>3. snapshot' \in Snapshot \cup {NoRow} /\ copy' \in [Request -> Snapshot \cup {NoRow, Unread}]
    BY <1>0, <1>6, <2>1, <2>2 DEF PutSnapshot, SnapshotTypeOK
  <2>4. SnapshotTypeOK'
    BY <1>6, <2>3 DEF PutSnapshot, SnapshotTypeOK
  <2> QED
    BY <1>6, <1>s, <2>4 DEF PutSnapshot
<1>7. CASE DropCache(p)
  <2>1. cache' \in [CacheId -> Snapshot \cup {None}]
    BY <1>7 DEF DropCache, SnapshotTypeOK
  <2>2. SnapshotTypeOK'
    BY <1>7, <2>1 DEF DropCache, SnapshotTypeOK, rowVars
  <2> QED
    BY <1>7, <1>s, <2>2 DEF DropCache
<1>8. CASE RecordStatus(p)
  <2>1. /\ pc[p] = "held" /\ SectionOf(p) \in Section /\ Tail(todo[p]) \in Seq(Section)
        /\ stage[p] = "record"
    BY <1>8, <1>i DEF RecordStatus
  <2>2. status' \in Status
    BY <1>8, <2>1, ReplaceTypes DEF RecordStatus
  <2>3. statusCopy' \in [Request -> Status \cup {Unread}]
    BY <1>0, <1>8, <2>2 DEF RecordStatus, SnapshotTypeOK
  <2>4. SnapshotTypeOK'
    BY <1>8, <2>2, <2>3, NonePossible DEF RecordStatus, NextSection, SnapshotTypeOK
  <2>5. /\ stage' \in [Call -> Stage] /\ stage'[p] = "fetch"
        /\ \A c \in Call \ {p} : stage'[c] = stage[c]
    BY <1>0, <1>8 DEF RecordStatus, NextSection, GoTo, RunTypeOK, Stage
  <2>6. /\ todo' \in [Worker -> Seq(Section)]
        /\ \A q \in Worker \ {p} : todo'[q] = todo[q]
    BY <1>8, <2>1 DEF RecordStatus, NextSection, RunTypeOK
  <2>7. UNCHANGED <<pc, settings>>
    BY <1>8 DEF RecordStatus, lockVars
  <2>8. Enters(p)'
    BY <2>1, <2>5, <2>7 DEF Acquiring
  <2>9. RunTypeOK'
    BY <1>e, <1>b, <2>1, <2>5, <2>6, <2>7, <2>8
  <2> QED
    BY <2>4, <2>9
<1> QED
  BY <1>1, <1>2, <1>3, <1>4, <1>5, <1>6, <1>7, <1>8 DEF Run

LEMMA OtherTypes ==
    ASSUME TypeInv, LockTypeOK',
           \/ \E v \in Visitor : View(v) \/ FillForView(v)
           \/ \E a \in Admin : Administer(a)
           \/ TickRefresh
           \/ UNCHANGED vars
    PROVE  TypeInv'
<1> USE SnapshotAssumption DEF TypeInv
\* A call that is not a run moves from stage to stage, its settings read.
<1>s. ASSUME NEW c \in Visitor \cup Admin, NEW t \in Stage, GoTo(c, t),
             settings'[RequestOf[c]] # Unread,
             \A r \in Request : settings[r] # Unread => settings'[r] # Unread,
             UNCHANGED <<lockVars, todo>>
      PROVE  RunTypeOK'
  <2>1. /\ stage' \in [Call -> Stage]
        /\ \A d \in Call \ {c} : stage'[d] = stage[d]
    BY <1>s DEF GoTo, RunTypeOK, Call
  <2>2. ASSUME NEW q \in Worker PROVE stage'[q] = stage[q] /\ pc'[q] = pc[q] /\ todo'[q] = todo[q]
    BY <1>s, <2>1 DEF Call, lockVars
  <2>3. ASSUME NEW d \in Call, stage'[d] # "start" PROVE settings'[RequestOf[d]] # Unread
    BY <1>s, <2>1, <2>3 DEF RunTypeOK
  <2> QED
    BY <1>s, <2>1, <2>2, <2>3 DEF RunTypeOK
<1>1. ASSUME NEW v \in Visitor, View(v) PROVE TypeInv'
  <2>0. v \in Call
    BY DEF Call
  <2>1. /\ snap' \in [Worker \cup Visitor -> Snapshot]
        /\ copy' \in [Request -> Snapshot \cup {NoRow, Unread}]
        /\ \E t \in {"shown", "fill"} : GoTo(v, t)
    BY <1>1, LookupTypes DEF View, Stage, GoTo
  <2>2. Boot(v)
    BY <1>1 DEF View
  <2>3. SnapshotTypeOK'
    BY <1>1, <2>0, <2>1, <2>2, BootTypes DEF View, SnapshotTypeOK, rowVars
  <2>4. RunTypeOK'
    BY <1>1, <1>s, <2>0, <2>1, <2>2, BootTypes DEF View, Stage
  <2> QED
    BY <2>3, <2>4
<1>2. ASSUME NEW v \in Visitor, FillForView(v) PROVE TypeInv'
  <2>1. cache' \in [CacheId -> Snapshot \cup {None}] /\ GoTo(v, "shown")
    BY <1>2 DEF FillForView, Fill, SnapshotTypeOK
  <2>2. SnapshotTypeOK'
    BY <1>2, <2>1 DEF FillForView, SnapshotTypeOK, rowVars
  <2>3. settings[RequestOf[v]] # Unread /\ UNCHANGED <<settings, todo, lockVars>>
    BY <1>2 DEF FillForView, RunTypeOK, Call
  <2>4. RunTypeOK'
    BY <1>s, <2>1, <2>3 DEF Stage
  <2> QED
    BY <2>2, <2>4
<1>3. ASSUME NEW a \in Admin, Administer(a) PROVE TypeInv'
  <2>0. a \in Call /\ RequestOf[a] \in Request /\ a \in Visitor \cup Admin
    BY DEF Call
  <2>1. CASE SaveOrigin(a)
    <3>1. /\ origin' \in Origin
          /\ settings' \in [Request -> Origin \cup {Unread}]
          /\ settings'[RequestOf[a]] # Unread
          /\ \A r \in Request : settings[r] # Unread => settings'[r] # Unread
      BY <2>0, <2>1 DEF SaveOrigin, SnapshotTypeOK
    <3>2. SnapshotTypeOK'
      BY <2>1, <3>1 DEF SaveOrigin, SnapshotTypeOK
    <3>3. RunTypeOK'
      BY <1>s, <2>0, <2>1, <3>1 DEF SaveOrigin, Stage
    <3> QED
      BY <3>2, <3>3
  <2>2. CASE ClearSnapshot(a)
    <3>1. Boot(a)
      BY <2>2 DEF ClearSnapshot
    <3>2. SnapshotTypeOK'
      BY <2>0, <2>2, <3>1, BootTypes DEF ClearSnapshot, SnapshotTypeOK, rowVars
    <3>3. RunTypeOK'
      BY <1>s, <2>0, <2>2, <3>1, BootTypes DEF ClearSnapshot, Stage
    <3> QED
      BY <3>2, <3>3
  <2>3. CASE DeleteSnapshot(a) \/ DropForAdmin(a)
    <3>1. /\ snapshot' \in Snapshot \cup {NoRow} /\ cache' \in [CacheId -> Snapshot \cup {None}]
          /\ copy' \in [Request -> Snapshot \cup {NoRow, Unread}]
      BY <2>0, <2>3 DEF DeleteSnapshot, DropForAdmin, SnapshotTypeOK, rowVars
    <3>2. SnapshotTypeOK'
      BY <2>3, <3>1 DEF DeleteSnapshot, DropForAdmin, SnapshotTypeOK, rowVars
    <3>3. settings[RequestOf[a]] # Unread /\ UNCHANGED <<settings, todo, lockVars>>
      BY <2>0, <2>3 DEF DeleteSnapshot, DropForAdmin, RunTypeOK
    <3>4. RunTypeOK'
      BY <1>s, <2>0, <2>3, <3>3 DEF DeleteSnapshot, DropForAdmin, Stage
    <3> QED
      BY <3>2, <3>4
  <2> QED
    BY <1>3, <2>1, <2>2, <2>3 DEF Administer
<1>4. CASE TickRefresh \/ UNCHANGED vars
  BY <1>4 DEF TickRefresh, Tick, vars, rowVars, memVars, localVars, lockVars, SnapshotTypeOK, RunTypeOK
<1> QED
  BY <1>1, <1>2, <1>3, <1>4

LEMMA NextTypes == ASSUME TypeInv, [Next]_vars, LockTypeOK' PROVE TypeInv'
  BY RunTypes, OtherTypes DEF Next

LEMMA AlwaysTypeInv == Spec => []TypeInv
<1>1. Init => TypeInv
  BY InitTypes
<1>2. TypeInv /\ LockTypeOK' /\ [Next]_vars => TypeInv'
  BY NextTypes
<1> QED
  BY <1>1, <1>2, RefreshUsesLock, LockTypeCorrect, PTL DEF Spec

\* The snapshot, the status, the copies and caches requests have of them and
\* what calls hold keep their schema, whatever fails, crashes or overlaps.
THEOREM RefreshTypeCorrect == Spec => []SnapshotTypeOK
<1>1. TypeInv => SnapshotTypeOK
  BY DEF TypeInv
<1> QED
  BY <1>1, AlwaysTypeInv, PTL

----------------------------------------------------------------------------
(* What a step of one call leaves alone *)

\* A step of a call, whatever kind of call it is.
Step(c) ==
    \/ c \in Worker /\ Run(c)
    \/ c \in Visitor /\ (View(c) \/ FillForView(c))
    \/ c \in Admin /\ Administer(c)

Idling == TickRefresh \/ UNCHANGED vars

LEMMA NextSteps == ASSUME [Next]_vars PROVE (\E c \in Call : Step(c)) \/ Idling
  BY DEF Next, Step, Idling, Call

\* With WordPress's default, no two requests have an object cache in common.
OwnCaches == \A q, r \in Request : CacheOf[q] = CacheOf[r] => q = r

\* A step of one call leaves the locals of the others, and the copies and the
\* cache of the other requests, as they are.
LEMMA StepIsLocal ==
    ASSUME TypeInv, NEW c \in Call, Step(c)
    PROVE  /\ \A d \in Call \ {c} : stage'[d] = stage[d]
           /\ \A q \in Worker \ {c} : pc'[q] = pc[q] /\ todo'[q] = todo[q] /\ got'[q] = got[q]
           /\ \A d \in (Worker \cup Visitor) \ {c} : snap'[d] = snap[d]
           /\ \A r \in Request \ {RequestOf[c]} :
                 /\ copy'[r] = copy[r] /\ statusCopy'[r] = statusCopy[r]
                 /\ OwnCaches => cache'[CacheOf[r]] = cache[CacheOf[r]]
           /\ outdated \subseteq outdated'
<1> USE SnapshotAssumption DEF TypeInv, SnapshotTypeOK, RunTypeOK, LockTypeOK, OwnCaches, GoTo
<1>0. RequestOf[c] \in Request /\ CacheOf[RequestOf[c]] \in CacheId
  OBVIOUS
<1>1. CASE StartRun(c)
  BY <1>1 DEF StartRun, BeginAcquire, rowVars
<1>2. CASE ContinueAcquire(c)
  BY <1>2 DEF ContinueAcquire, AddOption, SelectLock, CheckExpiry, StealLock, memVars, localVars
<1>3. CASE Fetch(c)
  BY <1>3 DEF Fetch, ReadStatus, lockVars
<1>4. CASE GetForWrite(c)
  BY <1>4 DEF GetForWrite, Lookup, lockVars
<1>5. CASE FillForWrite(c)
  BY <1>0, <1>5 DEF FillForWrite, Fill, lockVars
<1>6. CASE PutSnapshot(c)
  BY <1>6 DEF PutSnapshot, lockVars
<1>7. CASE DropCache(c)
  BY <1>0, <1>7 DEF DropCache, lockVars
<1>8. CASE RecordStatus(c)
  BY <1>8 DEF RecordStatus, NextSection, lockVars
<1>9. CASE EndRun(c)
  BY <1>9 DEF EndRun, SelectOwn, DeleteOwn, memVars, localVars
<1>10. CASE CrashRun(c)
  BY <1>10 DEF CrashRun, Crash, memVars, localVars
<1>11. CASE View(c)
  BY <1>11 DEF View, Lookup, lockVars
<1>12. CASE FillForView(c)
  BY <1>0, <1>12 DEF FillForView, Fill, lockVars
<1>13. CASE SaveOrigin(c)
  BY <1>13 DEF SaveOrigin, lockVars
<1>14. CASE ClearSnapshot(c)
  BY <1>14 DEF ClearSnapshot, lockVars
<1>15. CASE DeleteSnapshot(c)
  BY <1>15 DEF DeleteSnapshot, lockVars
<1>16. CASE DropForAdmin(c)
  BY <1>0, <1>16 DEF DropForAdmin, lockVars
<1> QED
  BY <1>1, <1>2, <1>3, <1>4, <1>5, <1>6, <1>7, <1>8, <1>9, <1>10, <1>11, <1>12,
     <1>13, <1>14, <1>15, <1>16 DEF Step, Run, Administer

LEMMA IdlingIsLocal ==
    ASSUME Idling
    PROVE  UNCHANGED <<pc, rowVars, memVars, localVars, outdated>>
  BY DEF Idling, TickRefresh, Tick, vars, lockVars

\* A call that has begun and not ended, or whose process died, is the only one
\* of its request.
OneCall ==
    \A c, d \in Call : UnderWay(c) /\ UnderWay(d) /\ RequestOf[c] = RequestOf[d] => c = d

\* While a call takes a step, no other call of its request is under way.
LEMMA StepAlone ==
    ASSUME TypeInv, OneCall, NEW c \in Call, Step(c),
           NEW d \in Call \ {c}, RequestOf[d] = RequestOf[c]
    PROVE  ~UnderWay(d)
<1>1. CASE Begin(c)
  BY <1>1 DEF Begin
<1>2. CASE UnderWay(c)
  BY <1>2 DEF OneCall
<1>3. Begin(c) \/ UnderWay(c)
  <2> USE SnapshotAssumption
  <2>1. CASE c \in Worker
    <3>1. CASE StartRun(c)
      BY <3>1 DEF StartRun
    <3>2. CASE ContinueAcquire(c) \/ EndRun(c) \/ CrashRun(c)
      BY <2>1, <3>2 DEF ContinueAcquire, EndRun, CrashRun, AddOption, SelectLock, CheckExpiry, StealLock,
                        SelectOwn, DeleteOwn, Crash, Acquiring, Holding, UnderWay
    <3>3. CASE pc[c] = "held"
      BY <2>1, <3>3 DEF UnderWay
    <3> QED
      BY <2>1, <3>1, <3>2, <3>3
      DEF Step, Run, Fetch, GetForWrite, FillForWrite, PutSnapshot, DropCache, RecordStatus, InSection
  <2>2. CASE c \notin Worker
    BY <2>2 DEF Step, View, FillForView, Administer, SaveOrigin, ClearSnapshot, DeleteSnapshot,
                DropForAdmin, UnderWay
  <2> QED
    BY <2>1, <2>2
<1> QED
  BY <1>1, <1>2, <1>3

LEMMA OneCallStep == ASSUME TypeInv, OneCall, [Next]_vars PROVE OneCall'
<1>1. ASSUME NEW c \in Call, Step(c) PROVE OneCall'
  <2>1. ASSUME NEW d \in Call \ {c} PROVE UnderWay(d)' <=> UnderWay(d)
    BY <1>1, StepIsLocal DEF UnderWay
  <2>2. ASSUME NEW d \in Call \ {c}, RequestOf[d] = RequestOf[c] PROVE ~UnderWay(d)'
    BY <1>1, <2>1, <2>2, StepAlone
  <2>3. ASSUME NEW d \in Call, NEW e \in Call, UnderWay(d)', UnderWay(e)', RequestOf[d] = RequestOf[e]
        PROVE  d = e
    <3>1. CASE d = c \/ e = c
      BY <2>2, <2>3, <3>1
    <3>2. CASE d # c /\ e # c
      BY <2>1, <2>3, <3>2 DEF OneCall
    <3> QED
      BY <3>1, <3>2
  <2> QED
    BY <2>3 DEF OneCall
<1>2. CASE Idling
  BY <1>2, IdlingIsLocal DEF OneCall, UnderWay, localVars
<1> QED
  BY <1>1, <1>2, NextSteps

----------------------------------------------------------------------------
(* With runs shorter than their leases *)

\* No run is overtaken by the end of its lease.
Leased == \A p \in Worker : pc[p] \in Acquiring \cup Holding => Live(p)

\* The lease makes the lock a mutex.
LEMMA OneHolder ==
    ASSUME LockInv, Leased, NEW p \in Worker, NEW q \in Worker, Holds(p), Holds(q)
    PROVE  p = q
  BY LockAssumption DEF LockInv, LiveHolderOwnsRow, EntryIsOwn, Leased, Holds, Holding

LEMMA LeasedStep == ASSUME Prompt, TypeInv, Leased, [Next]_vars PROVE Leased'
<1> USE LockAssumption DEF Leased, Live, TypeInv, SnapshotTypeOK, LockTypeOK
<1>1. CASE TickRefresh
  BY <1>1 DEF TickRefresh, Tick
<1>2. ASSUME NEW p \in Worker, StartRun(p) PROVE Leased'
  BY <1>2 DEF StartRun, BeginAcquire
<1>3. CASE /\ UNCHANGED <<clock, entry>>
           /\ \A q \in Worker : pc'[q] \in Acquiring \cup Holding => pc[q] \in Acquiring \cup Holding
  BY <1>3
<1>4. ASSUME NEW p \in Worker, Run(p), ~StartRun(p)
      PROVE  /\ UNCHANGED <<clock, entry>>
             /\ \A q \in Worker : pc'[q] \in Acquiring \cup Holding => pc[q] \in Acquiring \cup Holding
  <2>1. CASE UNCHANGED lockVars
    BY <2>1 DEF lockVars
  <2>2. CASE ContinueAcquire(p)
    BY <2>2 DEF ContinueAcquire, AddOption, SelectLock, CheckExpiry, StealLock, Acquiring, Holding
  <2>3. CASE EndRun(p) \/ CrashRun(p)
    BY <2>3 DEF EndRun, CrashRun, SelectOwn, DeleteOwn, Crash, Acquiring, Holding
  <2> QED
    BY <1>4, <2>1, <2>2, <2>3
    DEF Run, Fetch, GetForWrite, FillForWrite, PutSnapshot, DropCache, RecordStatus
<1>5. CASE UNCHANGED lockVars
  BY <1>5 DEF lockVars
<1> QED
  BY <1>1, <1>2, <1>3, <1>4, <1>5
  DEF Next, Administer, View, FillForView, SaveOrigin, ClearSnapshot, DeleteSnapshot, DropForAdmin, vars

----------------------------------------------------------------------------
(* What a request holds of the snapshot and of the status *)

\* Except between a write and wp_cache_delete, a request's object cache says
\* what its copy of the option says, or nothing.
CacheMirrorsCopy ==
    \A r \in Request :
        \/ cache[CacheOf[r]] = None
        \/ copy[r] # Unread /\ cache[CacheOf[r]] = SectionsIn(copy[r])
        \/ \E c \in Call : RequestOf[c] = r /\ stage[c] = "drop"

\* So does what get_snapshot returned.
SnapMirrorsCopy ==
    \A c \in Worker \cup Visitor : stage[c] \in {"fill", "put"} =>
        copy[RequestOf[c]] # Unread /\ snap[c] = SectionsIn(copy[RequestOf[c]])

\* The copies of a run that took the lock with current ones stay current, but
\* for a row the administrator deletes.
CopiesCurrent ==
    \A p \in Worker \ outdated : pc[p] = "held" =>
        LET r == RequestOf[p]
        IN  /\ copy[r] \in {Unread, snapshot} \/ (snapshot = NoRow /\ ~Undisturbed)
            /\ statusCopy[r] \in {Unread, status}

RefreshInv ==
    /\ LockInv
    /\ TypeInv
    /\ OneCall
    /\ Leased
    /\ CacheMirrorsCopy
    /\ SnapMirrorsCopy
    /\ CopiesCurrent

LEMMA InitRefreshInv == ASSUME Init PROVE RefreshInv
<1>1. LockInv /\ TypeInv
  BY InitTypes, InitLockInv DEF Init
<1>2. OneCall /\ Leased
  BY SnapshotAssumption DEF Init, LockInit, OneCall, UnderWay, Call, Leased, Acquiring, Holding
<1>3. CacheMirrorsCopy /\ SnapMirrorsCopy /\ CopiesCurrent
  BY SnapshotAssumption DEF Init, LockInit, CacheMirrorsCopy, SnapMirrorsCopy, CopiesCurrent, Call
<1> QED
  BY <1>1, <1>2, <1>3 DEF RefreshInv

\* What get_snapshot returns, by either way.
LEMMA LookupMirrors ==
    ASSUME OwnCaches, TypeInv, CacheMirrorsCopy, NEW c \in Worker \cup Visitor,
           NEW hit \in Stage, NEW miss \in Stage, Lookup(c, hit, miss), UNCHANGED cache,
           stage[c] # "drop",
           \A d \in Call \ {c} : RequestOf[d] = RequestOf[c] => stage[d] # "drop"
    PROVE  /\ copy'[RequestOf[c]] = Known(copy[RequestOf[c]], snapshot)
                \/ copy'[RequestOf[c]] = copy[RequestOf[c]]
           /\ copy'[RequestOf[c]] # Unread
           /\ snap'[c] = SectionsIn(copy'[RequestOf[c]])
           /\ cache'[CacheOf[RequestOf[c]]] = None
                \/ cache'[CacheOf[RequestOf[c]]] = SectionsIn(copy'[RequestOf[c]])
<1> DEFINE r == RequestOf[c]
           cached == cache[CacheOf[r]]
<1> USE SnapshotAssumption DEF TypeInv, SnapshotTypeOK, RunTypeOK
<1>1. c \in Call /\ r \in Request /\ copy[r] \in Snapshot \cup {NoRow, Unread}
  BY DEF Call
<1>2. CASE cached # None
  <2>1. copy[r] # Unread /\ cached = SectionsIn(copy[r])
    BY <1>1, <1>2 DEF CacheMirrorsCopy
  <2>2. snap'[c] = cached /\ UNCHANGED copy
    BY <1>2 DEF Lookup
  <2> QED
    BY <2>1, <2>2
<1>3. CASE cached = None
  <2>1. /\ copy' = [copy EXCEPT ![r] = Known(copy[r], snapshot)]
        /\ snap' = [snap EXCEPT ![c] = SectionsIn(copy'[r])]
    BY <1>3 DEF Lookup
  <2>2. Known(copy[r], snapshot) # Unread
    BY <1>1 DEF Known
  <2>3. copy'[r] = Known(copy[r], snapshot) /\ snap'[c] = SectionsIn(copy'[r])
    BY <1>1, <2>1
  <2> QED
    BY <1>3, <2>2, <2>3
<1> QED
  BY <1>2, <1>3

\* A call that is not under way is at none of the stages that matter here.
LEMMA RestingStage ==
    ASSUME TypeInv, NEW d \in Call, ~UnderWay(d)
    PROVE  stage[d] \notin {"fill", "put", "drop"}
  BY DEF TypeInv, RunTypeOK, UnderWay, Acquiring

\* The call's own request, after its step.
LEMMA OwnMirrors ==
    ASSUME OwnCaches, TypeInv, OneCall, CacheMirrorsCopy, SnapMirrorsCopy, NEW c \in Call, Step(c)
    PROVE  LET r == RequestOf[c]
           IN  /\ \/ cache'[CacheOf[r]] = None
                  \/ copy'[r] # Unread /\ cache'[CacheOf[r]] = SectionsIn(copy'[r])
                  \/ stage'[c] = "drop"
               /\ c \in Worker \cup Visitor /\ stage'[c] \in {"fill", "put"} =>
                     copy'[r] # Unread /\ snap'[c] = SectionsIn(copy'[r])
<1> DEFINE r == RequestOf[c]
           Mirrors == /\ \/ cache[CacheOf[r]] = None
                         \/ copy[r] # Unread /\ cache[CacheOf[r]] = SectionsIn(copy[r])
                         \/ stage[c] = "drop"
                      /\ c \in Worker \cup Visitor /\ stage[c] \in {"fill", "put"} =>
                            copy[r] # Unread /\ snap[c] = SectionsIn(copy[r])
<1> USE SnapshotAssumption DEF TypeInv, SnapshotTypeOK, RunTypeOK
<1>0. r \in Request /\ CacheOf[r] \in CacheId
  OBVIOUS
<1>1. \A d \in Call \ {c} : RequestOf[d] = r => stage[d] \notin {"fill", "put", "drop"}
  BY StepAlone, RestingStage
<1>2. Mirrors
  BY <1>0, <1>1 DEF CacheMirrorsCopy, SnapMirrorsCopy
<1>3. CASE ContinueAcquire(c) \/ EndRun(c) \/ CrashRun(c)
  BY <1>2, <1>3 DEF ContinueAcquire, EndRun, CrashRun, memVars, localVars
<1>4. CASE StartRun(c)
  <2>1. UNCHANGED <<cache, copy>> /\ stage'[c] = "fetch" /\ stage[c] = "start"
    BY <1>4 DEF StartRun, GoTo, Begin
  <2> QED
    BY <1>2, <2>1
<1>5. CASE Fetch(c)
  <2>1. UNCHANGED <<cache, copy>> /\ stage'[c] \in {"record", "get"} /\ stage[c] = "fetch"
    BY <1>5 DEF Fetch, GoTo, InSection
  <2> QED
    BY <1>2, <2>1
<1>6. CASE GetForWrite(c) /\ c \in Worker
  <2>1. Lookup(c, "put", "fill") /\ UNCHANGED cache /\ stage[c] = "get"
    BY <1>6 DEF GetForWrite, InSection
  <2> QED
    BY <1>1, <1>6, <2>1, LookupMirrors DEF Stage
<1>7. CASE View(c) /\ c \in Visitor
  <2>1. Lookup(c, "shown", "fill") /\ UNCHANGED cache /\ stage[c] = "start"
    BY <1>7 DEF View, Begin
  <2> QED
    BY <1>1, <1>7, <2>1, LookupMirrors DEF Stage
<1>8. CASE (FillForWrite(c) /\ c \in Worker) \/ (FillForView(c) /\ c \in Visitor)
  <2>1. /\ UNCHANGED <<copy, snap>> /\ cache'[CacheOf[r]] = snap[c]
        /\ stage[c] = "fill" /\ c \in Worker \cup Visitor
    BY <1>0, <1>8 DEF FillForWrite, FillForView, Fill, InSection
  <2> QED
    BY <1>2, <2>1
<1>9. CASE PutSnapshot(c) \/ DeleteSnapshot(c)
  <2>1. stage'[c] = "drop"
    BY <1>9 DEF PutSnapshot, DeleteSnapshot, GoTo
  <2> QED
    BY <2>1
<1>10. CASE DropCache(c) \/ DropForAdmin(c)
  <2>1. cache'[CacheOf[r]] = None /\ stage'[c] \in {"record", "done"}
    BY <1>0, <1>10 DEF DropCache, DropForAdmin, GoTo
  <2> QED
    BY <2>1
<1>11. CASE RecordStatus(c)
  <2>1. UNCHANGED <<cache, copy>> /\ stage'[c] = "fetch" /\ stage[c] = "record"
    BY <1>11 DEF RecordStatus, NextSection, GoTo, InSection
  <2> QED
    BY <1>2, <2>1
<1>12. CASE SaveOrigin(c) \/ ClearSnapshot(c)
  <2>1. UNCHANGED <<cache, copy>> /\ stage'[c] = "invalidate" /\ stage[c] = "start"
    BY <1>12 DEF SaveOrigin, ClearSnapshot, GoTo, Begin
  <2> QED
    BY <1>2, <2>1
<1> HIDE DEF Mirrors
<1> QED
  BY <1>3, <1>4, <1>5, <1>6, <1>7, <1>8, <1>9, <1>10, <1>11, <1>12 DEF Step, Run, Administer

LEMMA MirrorStep ==
    ASSUME OwnCaches, TypeInv, OneCall, CacheMirrorsCopy, SnapMirrorsCopy, [Next]_vars
    PROVE  CacheMirrorsCopy' /\ SnapMirrorsCopy'
<1>1. ASSUME NEW c \in Call, Step(c) PROVE CacheMirrorsCopy' /\ SnapMirrorsCopy'
  <2>1. ASSUME NEW r \in Request
        PROVE  \/ cache'[CacheOf[r]] = None
               \/ copy'[r] # Unread /\ cache'[CacheOf[r]] = SectionsIn(copy'[r])
               \/ \E d \in Call : RequestOf[d] = r /\ stage'[d] = "drop"
    <3>1. CASE r = RequestOf[c]
      BY <1>1, <3>1, OwnMirrors
    <3>2. CASE r # RequestOf[c]
      <4>1. copy'[r] = copy[r] /\ cache'[CacheOf[r]] = cache[CacheOf[r]]
        BY <1>1, <3>2, StepIsLocal
      <4>2. \A d \in Call : RequestOf[d] = r => stage'[d] = stage[d]
        BY <1>1, <3>2, StepIsLocal
      <4> QED
        BY <4>1, <4>2 DEF CacheMirrorsCopy
    <3> QED
      BY <3>1, <3>2
  <2>2. ASSUME NEW d \in Worker \cup Visitor, stage'[d] \in {"fill", "put"}
        PROVE  copy'[RequestOf[d]] # Unread /\ snap'[d] = SectionsIn(copy'[RequestOf[d]])
    <3>1. CASE d = c
      BY <1>1, <2>2, <3>1, OwnMirrors
    <3>2. CASE d # c
      <4>1. d \in Call /\ RequestOf[d] \in Request
        BY SnapshotAssumption DEF Call
      <4>2. stage'[d] = stage[d] /\ snap'[d] = snap[d]
        BY <1>1, <3>2, <4>1, StepIsLocal
      <4>3. RequestOf[d] # RequestOf[c]
        BY <1>1, <2>2, <3>2, <4>1, <4>2, StepAlone, RestingStage
      <4>4. copy'[RequestOf[d]] = copy[RequestOf[d]]
        BY <1>1, <4>1, <4>3, StepIsLocal
      <4> QED
        BY <2>2, <4>2, <4>4 DEF SnapMirrorsCopy
    <3> QED
      BY <3>1, <3>2
  <2> QED
    BY <2>1, <2>2 DEF CacheMirrorsCopy, SnapMirrorsCopy
<1>2. CASE Idling
  BY <1>2, IdlingIsLocal DEF CacheMirrorsCopy, SnapMirrorsCopy, memVars, localVars
<1> QED
  BY <1>1, <1>2, NextSteps

\* Only write_section and invalidate write the snapshot, only record_status the
\* status, and only for the holder of the lock or an administrator.
LEMMA StepWrites ==
    ASSUME NEW c \in Call, Step(c)
    PROVE  /\ \/ snapshot' = snapshot
              \/ PutSnapshot(c) /\ c \in Worker /\ Holds(c)
              \/ DeleteSnapshot(c) /\ c \in Admin
           /\ status' = status \/ (RecordStatus(c) /\ c \in Worker /\ Holds(c))
  BY DEF Step, Run, StartRun, ContinueAcquire, Fetch, GetForWrite, FillForWrite, PutSnapshot, DropCache,
         RecordStatus, EndRun, CrashRun, rowVars, InSection, Holds, Holding, View, FillForView,
         Administer, SaveOrigin, ClearSnapshot, DeleteSnapshot, DropForAdmin

\* Nothing undoes an administrator's call.
LEMMA StaysDisturbed ==
    ASSUME TypeInv, NEW c \in Call, Step(c), Undisturbed'
    PROVE  Undisturbed /\ c \notin Admin
<1> USE SnapshotAssumption
<1>1. CASE c \in Admin
  <2>1. stage'[c] \in {"invalidate", "drop", "done"}
    BY <1>1 DEF Step, Administer, SaveOrigin, ClearSnapshot, DeleteSnapshot, DropForAdmin, GoTo,
                TypeInv, RunTypeOK, Run, Call
  <2> QED
    BY <1>1, <2>1 DEF Undisturbed
<1>2. CASE c \notin Admin
  BY <1>2, StepIsLocal DEF Undisturbed, Call
<1> QED
  BY <1>1, <1>2

\* The copies of the run that takes the step.
LEMMA OwnCurrent ==
    ASSUME RefreshInv, NEW p \in Worker, Step(p), p \notin outdated', pc'[p] = "held"
    PROVE  LET r == RequestOf[p]
           IN  /\ copy'[r] \in {Unread, snapshot'} \/ (snapshot' = NoRow /\ ~Undisturbed)
               /\ statusCopy'[r] \in {Unread, status'}
<1> DEFINE r == RequestOf[p]
<1> USE SnapshotAssumption DEF RefreshInv, TypeInv, SnapshotTypeOK, RunTypeOK
<1>0. p \in Call /\ r \in Request /\ p \notin Visitor /\ p \notin Admin
  BY DEF Call
<1>1. Run(p) /\ p \notin outdated
  BY <1>0, StepIsLocal DEF Step
<1>2. CASE ContinueAcquire(p)
  BY <1>2 DEF ContinueAcquire, UpToDate, rowVars, memVars
<1>3. ASSUME pc[p] = "held"
      PROVE  /\ copy[r] \in {Unread, snapshot} \/ (snapshot = NoRow /\ ~Undisturbed)
             /\ statusCopy[r] \in {Unread, status}
  BY <1>1, <1>3 DEF CopiesCurrent
<1>4. ~StartRun(p) /\ ~EndRun(p) /\ ~CrashRun(p)
  BY DEF StartRun, BeginAcquire, EndRun, SelectOwn, DeleteOwn, CrashRun, Crash, LockTypeOK
<1>5. CASE Fetch(p)
  BY <1>0, <1>3, <1>5 DEF Fetch, ReadStatus, Known, InSection, rowVars
<1>6. CASE GetForWrite(p)
  <2>1. copy'[r] = Known(copy[r], snapshot) \/ copy'[r] = copy[r]
    BY <1>0, <1>6 DEF GetForWrite, Lookup
  <2> QED
    BY <1>3, <1>6, <2>1 DEF GetForWrite, Known, InSection, rowVars
<1>7. CASE FillForWrite(p) \/ DropCache(p)
  BY <1>3, <1>7 DEF FillForWrite, DropCache, InSection, rowVars
<1>8. CASE PutSnapshot(p)
  <2>1. pc[p] = "held" /\ UNCHANGED <<status, statusCopy>>
    BY <1>8 DEF PutSnapshot, InSection
  <2>2. CASE Known(copy[r], snapshot) # NoRow /\ snapshot = NoRow
    <3>1. copy[r] # Unread /\ copy[r] # snapshot /\ snapshot' = NoRow
      BY <1>8, <2>2 DEF PutSnapshot, Known
    <3> QED
      BY <1>3, <2>1, <3>1
  <2>3. CASE ~(Known(copy[r], snapshot) # NoRow /\ snapshot = NoRow)
    BY <1>0, <1>3, <1>8, <2>1, <2>3 DEF PutSnapshot
  <2> QED
    BY <2>2, <2>3
<1>9. CASE RecordStatus(p)
  <2>1. pc[p] = "held" /\ UNCHANGED <<snapshot, copy>> /\ statusCopy'[r] = status'
    BY <1>0, <1>9 DEF RecordStatus, InSection
  <2> QED
    BY <1>3, <2>1
<1> QED
  BY <1>1, <1>2, <1>4, <1>5, <1>6, <1>7, <1>8, <1>9 DEF Run

LEMMA CurrentStep == ASSUME RefreshInv, [Next]_vars PROVE CopiesCurrent'
<1> USE DEF RefreshInv
<1>1. ASSUME NEW c \in Call, Step(c), NEW p \in Worker \ outdated', pc'[p] = "held"
      PROVE  LET r == RequestOf[p]
             IN  /\ copy'[r] \in {Unread, snapshot'} \/ (snapshot' = NoRow /\ ~Undisturbed')
                 /\ statusCopy'[r] \in {Unread, status'}
  <2> DEFINE r == RequestOf[p]
  <2>0. p \in Call /\ r \in Request
    BY SnapshotAssumption DEF Call
  <2>d. ~Undisturbed => ~Undisturbed'
    BY <1>1, StaysDisturbed
  <2>1. CASE p = c
    BY <1>1, <2>1, <2>d, OwnCurrent
  <2>2. CASE p # c
    <3>1. pc[p] = "held" /\ p \notin outdated
      BY <1>1, <2>2, StepIsLocal
    <3>2. /\ copy[r] \in {Unread, snapshot} \/ (snapshot = NoRow /\ ~Undisturbed)
          /\ statusCopy[r] \in {Unread, status}
      BY <3>1 DEF CopiesCurrent
    <3>3. UnderWay(p)
      BY <3>1 DEF UnderWay
    <3>4. r # RequestOf[c]
      BY <1>1, <2>0, <2>2, <3>3, StepAlone
    <3>5. copy'[r] = copy[r] /\ statusCopy'[r] = statusCopy[r]
      BY <1>1, <2>0, <3>4, StepIsLocal
    <3>6. c \in Worker => ~Holds(c)
      BY <2>2, <3>1, OneHolder DEF Holds, Holding
    <3>7. status' = status /\ (snapshot' = snapshot \/ (DeleteSnapshot(c) /\ c \in Admin))
      BY <1>1, <3>6, StepWrites
    <3>8. DeleteSnapshot(c) /\ c \in Admin => snapshot' = NoRow /\ ~Undisturbed'
      BY <1>1, StaysDisturbed DEF DeleteSnapshot
    <3> QED
      BY <2>d, <3>2, <3>5, <3>7, <3>8
  <2> QED
    BY <2>1, <2>2
<1>2. CASE Idling
  BY <1>2, IdlingIsLocal DEF CopiesCurrent, Undisturbed, rowVars, memVars, localVars
<1> QED
  BY <1>1, <1>2, NextSteps DEF CopiesCurrent

LEMMA NextRefreshInv ==
    ASSUME Prompt, OwnCaches, RefreshInv, [Next]_vars PROVE RefreshInv'
<1>1. LockInv'
  BY RefreshStepsLock, NextLockInv DEF RefreshInv
<1>2. TypeInv'
  BY <1>1, NextTypes DEF RefreshInv, LockInv
<1>3. OneCall' /\ Leased' /\ CacheMirrorsCopy' /\ SnapMirrorsCopy'
  BY OneCallStep, LeasedStep, MirrorStep DEF RefreshInv
<1> QED
  BY <1>1, <1>2, <1>3, CurrentStep DEF RefreshInv

LEMMA AlwaysRefreshInv == ASSUME Prompt, OwnCaches PROVE Spec => []RefreshInv
<1>1. Init => RefreshInv
  BY InitRefreshInv
<1>2. RefreshInv /\ [Next]_vars => RefreshInv'
  BY NextRefreshInv
<1> QED
  BY <1>1, <1>2, PTL DEF Spec

\* A run's step from "put" to "drop" is its write of the snapshot.
LEMMA WriteIsPut ==
    ASSUME TypeInv, [Next]_vars, NEW p \in Worker, Writes(p)
    PROVE  Step(p) /\ PutSnapshot(p) /\ pc[p] = "held"
<1> USE SnapshotAssumption DEF Writes
<1>0. p \in Call /\ p \notin Visitor /\ p \notin Admin
  BY DEF Call
<1>1. ~Idling
  BY IdlingIsLocal DEF localVars
<1>2. Step(p)
  BY <1>0, <1>1, NextSteps, StepIsLocal
<1>3. Run(p)
  BY <1>0, <1>2 DEF Step
<1>4. ~ContinueAcquire(p) /\ ~EndRun(p) /\ ~CrashRun(p)
  BY DEF ContinueAcquire, EndRun, CrashRun, localVars
<1>5. PutSnapshot(p)
  BY <1>3, <1>4 DEF Run, StartRun, Begin, Fetch, GetForWrite, FillForWrite, DropCache, RecordStatus, InSection
<1> QED
  BY <1>2, <1>5 DEF PutSnapshot, InSection

\* What a write by a run with current copies makes of the row.
LEMMA WriteKeeps ==
    ASSUME RefreshInv, [Next]_vars, NEW p \in Worker \ outdated, Writes(p)
    PROVE  /\ OthersKept(p)
           /\ Undisturbed => SectionsIn(snapshot')[SectionOf(p)] = got[p]
<1> DEFINE r == RequestOf[p]
<1> USE SnapshotAssumption
<1>1. Step(p) /\ PutSnapshot(p) /\ pc[p] = "held" /\ stage[p] = "put"
  BY WriteIsPut DEF RefreshInv, Writes
<1>2. copy[r] # Unread /\ snap[p] = SectionsIn(copy[r]) /\ snap[p] \in Snapshot
  BY <1>1 DEF RefreshInv, SnapMirrorsCopy, TypeInv, SnapshotTypeOK
<1>3. Known(copy[r], snapshot) = copy[r]
  BY <1>2 DEF Known
<1>4. copy[r] = snapshot \/ (snapshot = NoRow /\ ~Undisturbed)
  BY <1>1, <1>2 DEF RefreshInv, CopiesCurrent
<1>5. SectionOf(p) \in Section
  BY <1>1, SectionTypes DEF PutSnapshot, InSection, RefreshInv
<1>6. CASE copy[r] # NoRow /\ snapshot = NoRow
  <2>1. snapshot' = snapshot /\ ~Undisturbed
    BY <1>1, <1>3, <1>4, <1>6 DEF PutSnapshot
  <2> QED
    BY <2>1 DEF OthersKept
<1>7. CASE copy[r] = snapshot
  <2>1. snapshot' = Rewritten(p)
    BY <1>1, <1>3, <1>7 DEF PutSnapshot
  <2>2. /\ Rewritten(p) \in Snapshot
        /\ Rewritten(p)[SectionOf(p)] = got[p]
        /\ \A s \in Section \ {SectionOf(p)} : Rewritten(p)[s] = snap[p][s]
    BY <1>2, <1>5, ReplaceTypes DEF Rewritten, Snapshot, RefreshInv
  <2>3. SectionsIn(snapshot') = Rewritten(p)
    BY <2>1, <2>2 DEF SectionsIn
  <2> QED
    BY <1>2, <1>7, <2>2, <2>3 DEF OthersKept
<1> QED
  BY <1>4, <1>6, <1>7

\* "Replaces only the given section; every other section ... is preserved
\* untouched" (write_section): for any number of runs, page views and
\* administrators in any number of processes, as long as no run outlives its
\* lease, no two requests share an object cache, and the run's own process had
\* read nothing that was old when it took the lock.
THEOREM RefreshPreservesSections ==
    ASSUME Prompt, OwnCaches PROVE Spec => CurrentRunPreserves
<1>1. RefreshInv /\ [Next]_vars =>
        [\A p \in Worker \ outdated : Writes(p) => OthersKept(p)]_vars
  BY WriteKeeps
<1> QED
  BY <1>1, AlwaysRefreshInv, PTL DEF Spec, CurrentRunPreserves

----------------------------------------------------------------------------
(* The status does not run ahead of the snapshot *)

\* Between its write of a section and its record of the success.
Storing(p) == pc[p] = "held" /\ stage[p] \in {"drop", "record"} /\ got[p] # None

GotIsOwn ==
    \A p \in Worker :
        /\ got[p] # None => got[p].by = p
        /\ stage[p] \in {"get", "fill", "put", "drop"} => got[p] # None

Held(s) == SectionsIn(snapshot)[s]

\* StatusIsBacked, with the section the run about to record it is in.
Backed(s) ==
    status[s].success # None =>
        /\ Held(s) # None
        /\ \/ Held(s).by = status[s].success
           \/ pc[Held(s).by] = "crashed"
           \/ Storing(Held(s).by) /\ s = SectionOf(Held(s).by)

Calm == Undisturbed /\ outdated = {}

BackingInv ==
    /\ RefreshInv
    /\ GotIsOwn
    /\ Calm => /\ \A p \in Worker : Storing(p) => Held(SectionOf(p)) = got[p]
               /\ \A s \in Section : Backed(s)

LEMMA InitBackingInv == ASSUME Init PROVE BackingInv
<1>1. RefreshInv
  BY InitRefreshInv
<1>2. GotIsOwn /\ \A p \in Worker : ~Storing(p)
  BY DEF Init, LockInit, GotIsOwn, Storing, Call
<1>3. \A s \in Section : Backed(s)
  BY DEF Init, NoStatus, Backed
<1> QED
  BY <1>1, <1>2, <1>3 DEF BackingInv

\* What the snapshot holds was fetched by some run.
LEMMA HeldTypes ==
    ASSUME TypeInv, NEW s \in Section
    PROVE  Held(s) \in Data \cup {None} /\ (Held(s) # None => Held(s).by \in Worker)
<1>1. SectionsIn(snapshot) \in Snapshot
  BY NonePossible DEF SectionsIn, TypeInv, SnapshotTypeOK
<1>2. Held(s) \in Data \cup {None}
  BY <1>1 DEF Held, Snapshot
<1> QED
  BY <1>2 DEF Data

\* A run that has stored a section keeps to it until it records the success.
LEMMA StoringForward ==
    ASSUME TypeInv, NEW p \in Worker, Run(p), ~RecordStatus(p), Storing(p)
    PROVE  \/ Storing(p)' /\ todo'[p] = todo[p]
           \/ pc'[p] = "crashed"
<1> USE DEF Storing, TypeInv, SnapshotTypeOK, RunTypeOK, LockTypeOK, Call
<1>1. CASE DropCache(p)
  BY <1>1 DEF DropCache, GoTo, lockVars
<1>2. CASE CrashRun(p)
  BY <1>2 DEF CrashRun, Crash
<1>3. ~EndRun(p)
  BY DEF EndRun, DeleteOwn
<1>4. /\ ~StartRun(p) /\ ~ContinueAcquire(p) /\ ~Fetch(p)
      /\ ~GetForWrite(p) /\ ~FillForWrite(p) /\ ~PutSnapshot(p)
  BY DEF StartRun, BeginAcquire, ContinueAcquire, AddOption, SelectLock, CheckExpiry, StealLock,
         Fetch, GetForWrite, FillForWrite, PutSnapshot, InSection
<1> QED
  BY <1>1, <1>2, <1>3, <1>4 DEF Run

\* and it stored it by its write.
LEMMA StoringBackward ==
    ASSUME TypeInv, NEW p \in Worker, Run(p), ~PutSnapshot(p), Storing(p)'
    PROVE  Storing(p) /\ todo'[p] = todo[p] /\ got'[p] = got[p]
<1> USE DEF Storing, TypeInv, SnapshotTypeOK, RunTypeOK, LockTypeOK, Call
<1>1. CASE DropCache(p)
  BY <1>1 DEF DropCache, GoTo, InSection, lockVars
<1>2. ~StartRun(p) /\ ~RecordStatus(p)
  BY DEF StartRun, RecordStatus, NextSection, GoTo
<1>3. ~ContinueAcquire(p)
  <2>1. ASSUME ContinueAcquire(p) PROVE stage'[p] = "fetch"
    BY <2>1 DEF ContinueAcquire, AddOption, SelectLock, CheckExpiry, StealLock, localVars, Acquiring
  <2> QED
    BY <2>1
<1>4. ~EndRun(p) /\ ~CrashRun(p)
  BY DEF EndRun, CrashRun, SelectOwn, DeleteOwn, Crash
<1>5. CASE Fetch(p)
  BY <1>5 DEF Fetch, GoTo
<1>6. ~GetForWrite(p) /\ ~FillForWrite(p)
  BY DEF GetForWrite, FillForWrite, Lookup, Fill, GoTo
<1> QED
  BY <1>1, <1>2, <1>3, <1>4, <1>5, <1>6 DEF Run

\* Nothing a run has stored is disturbed by a step of another call.
LEMMA StoringAside ==
    ASSUME TypeInv, NEW c \in Call, Step(c), NEW q \in Worker, q # c
    PROVE  (Storing(q)' <=> Storing(q)) /\ SectionOf(q)' = SectionOf(q) /\ got'[q] = got[q]
  BY StepIsLocal DEF Storing, SectionOf, Call

LEMMA GotStep == ASSUME TypeInv, GotIsOwn, [Next]_vars PROVE GotIsOwn'
<1> USE SnapshotAssumption DEF GotIsOwn
<1>1. ASSUME NEW c \in Call, Step(c) PROVE GotIsOwn'
  <2> DEFINE Own(q) == /\ got[q] # None => got[q].by = q
                       /\ stage[q] \in {"get", "fill", "put", "drop"} => got[q] # None
  <2>1. ASSUME NEW q \in Worker, q # c PROVE Own(q)'
    BY <1>1, <2>1, StepIsLocal DEF Call
  <2>2. ASSUME NEW p \in Worker, Run(p) PROVE Own(p)'
    <3> USE DEF TypeInv, SnapshotTypeOK, RunTypeOK, Call
    <3>1. CASE StartRun(p) \/ ContinueAcquire(p) \/ EndRun(p) \/ CrashRun(p)
      BY <3>1 DEF StartRun, ContinueAcquire, EndRun, CrashRun, GoTo, localVars
    <3>2. CASE Fetch(p)
      BY <3>2 DEF Fetch, FetchResult, GoTo
    <3>3. CASE GetForWrite(p)
      BY <3>3 DEF GetForWrite, Lookup, InSection, GoTo
    <3>4. CASE FillForWrite(p)
      BY <3>4 DEF FillForWrite, Fill, InSection, GoTo
    <3>5. CASE PutSnapshot(p) \/ DropCache(p)
      BY <3>5 DEF PutSnapshot, DropCache, InSection, GoTo
    <3>6. CASE RecordStatus(p)
      BY <3>6 DEF RecordStatus, NextSection, GoTo
    <3> QED
      BY <2>2, <3>1, <3>2, <3>3, <3>4, <3>5, <3>6 DEF Run
  <2>3. c \in Worker => Run(c)
    BY <1>1 DEF Step
  <2> QED
    BY <2>1, <2>2, <2>3
<1>2. CASE Idling
  BY <1>2, IdlingIsLocal DEF localVars
<1> QED
  BY <1>1, <1>2, NextSteps

\* The write of a section.
LEMMA PutBacks ==
    ASSUME BackingInv, [Next]_vars, NEW p \in Worker, Step(p), PutSnapshot(p), Calm
    PROVE  /\ \A q \in Worker : Storing(q)' => Held(SectionOf(q))' = got'[q]
           /\ \A s \in Section : Backed(s)'
<1> DEFINE here == SectionOf(p)
<1> USE DEF BackingInv, RefreshInv
<1>0. p \in Call
  BY DEF Call
<1>1. /\ pc[p] = "held" /\ stage[p] = "put" /\ Holds(p)
      /\ got[p] # None /\ got[p].by = p /\ here \in Section
  BY SectionTypes DEF PutSnapshot, InSection, GotIsOwn, Holds, Holding
<1>2. /\ UNCHANGED <<pc, todo, got, status>>
      /\ stage' = [stage EXCEPT ![p] = "drop"]
  BY DEF PutSnapshot, GoTo, lockVars
<1>3. stage'[p] = "drop"
  BY <1>0, <1>2 DEF TypeInv, RunTypeOK
<1>4. ASSUME NEW q \in Worker, q # p PROVE ~Storing(q) /\ ~Storing(q)'
  BY <1>0, <1>1, <1>4, OneHolder, StoringAside DEF Storing, Holds, Holding
<1>5. ~Storing(p) /\ Storing(p)' /\ SectionOf(p)' = here
  BY <1>1, <1>2, <1>3 DEF Storing, SectionOf
<1>6. Held(here)' = got[p] /\ \A s \in Section \ {here} : Held(s)' = Held(s)
  <2>1. Writes(p) /\ p \in Worker \ outdated /\ Undisturbed
    BY <1>1, <1>3 DEF Calm, Writes
  <2>2. OthersKept(p) /\ SectionsIn(snapshot')[here] = got[p]
    BY <2>1, WriteKeeps
  <2>3. Held(here)' = SectionsIn(snapshot')[here]
    BY <1>5 DEF Held
  <2>4. ASSUME NEW s \in Section \ {here} PROVE Held(s)' = Held(s)
    BY <2>2 DEF OthersKept, Held, SectionsIn
  <2> QED
    BY <2>2, <2>3, <2>4
<1>7. \A q \in Worker : Storing(q)' => Held(SectionOf(q))' = got'[q]
  <2>1. Held(SectionOf(p))' = got'[p]
    BY <1>2, <1>5, <1>6 DEF Held
  <2> QED
    BY <1>4, <2>1
<1>8. ASSUME NEW s \in Section, s = here PROVE Backed(s)'
  BY <1>1, <1>5, <1>6, <1>8 DEF Backed
<1>9. ASSUME NEW s \in Section, s # here PROVE Backed(s)'
  <2>1. Held(s)' = Held(s) /\ status'[s] = status[s] /\ (Held(s) # None => Held(s).by \in Worker)
    BY <1>2, <1>6, <1>9, HeldTypes
  <2>2. Backed(s)
    OBVIOUS
  <2>3. Held(s) # None => ~Storing(Held(s).by)
    BY <1>4, <1>5, <2>1
  <2> QED
    BY <1>2, <2>1, <2>2, <2>3 DEF Backed
<1> QED
  BY <1>7, <1>8, <1>9

\* The record of a section's outcome.
LEMMA RecordBacks ==
    ASSUME BackingInv, NEW p \in Worker, Step(p), RecordStatus(p), Calm
    PROVE  /\ \A q \in Worker : Storing(q)' => Held(SectionOf(q))' = got'[q]
           /\ \A s \in Section : Backed(s)'
<1> DEFINE here == SectionOf(p)
<1> USE DEF BackingInv, RefreshInv
<1>0. p \in Call
  BY DEF Call
<1>1. /\ pc[p] = "held" /\ stage[p] = "record" /\ Holds(p)
      /\ got[p] # None => got[p].by = p
      /\ here \in Section
      /\ statusCopy[RequestOf[p]] \in {Unread, status}
  BY SectionTypes DEF RecordStatus, InSection, GotIsOwn, CopiesCurrent, Calm, Holds, Holding
<1>2. /\ UNCHANGED <<pc, snapshot>>
      /\ stage'[p] = "fetch"
  BY <1>0 DEF RecordStatus, NextSection, GoTo, lockVars, TypeInv, RunTypeOK
<1>3. ASSUME NEW q \in Worker, q # p PROVE ~Storing(q) /\ ~Storing(q)'
  BY <1>0, <1>1, <1>3, OneHolder, StoringAside DEF Storing, Holds, Holding
<1>4. ~Storing(p)' /\ (Storing(p) <=> got[p] # None)
  BY <1>1, <1>2 DEF Storing
<1>5. status \in Status
  BY DEF TypeInv, SnapshotTypeOK
<1>6. status' = [status EXCEPT ![here] = Outcome(p, @)]
  BY <1>1 DEF RecordStatus, Known
<1>7. /\ got[p] = None => status'[here].success = status[here].success
      /\ got[p] # None => status'[here].success = p
      /\ \A s \in Section \ {here} : status'[s] = status[s]
  BY <1>1, <1>5, <1>6 DEF Outcome, Status
<1>8. ASSUME NEW s \in Section PROVE Held(s)' = Held(s) /\ (Held(s) # None => Held(s).by \in Worker) /\ Backed(s)
  BY <1>2, HeldTypes DEF Held
<1>9. ASSUME NEW s \in Section, got[p] = None \/ s # here PROVE Backed(s)'
  <2>1. status'[s].success = status[s].success
    BY <1>7, <1>9
  <2>2. Held(s) # None => ~(Storing(Held(s).by) /\ s = SectionOf(Held(s).by))
    BY <1>3, <1>4, <1>8, <1>9
  <2> QED
    BY <1>2, <1>8, <2>1, <2>2 DEF Backed
<1>10. ASSUME NEW s \in Section, s = here, got[p] # None PROVE Backed(s)'
  <2>1. Held(s)' = got[p]
    BY <1>4, <1>8, <1>10
  <2> QED
    BY <1>1, <1>7, <1>10, <2>1 DEF Backed
<1> QED
  BY <1>3, <1>4, <1>9, <1>10

\* A step that writes neither.
LEMMA OtherBacks ==
    ASSUME BackingInv, NEW c \in Call, Step(c), UNCHANGED <<snapshot, status>>,
           ~(c \in Worker /\ PutSnapshot(c)), ~(c \in Worker /\ RecordStatus(c)), Calm
    PROVE  /\ \A q \in Worker : Storing(q)' => Held(SectionOf(q))' = got'[q]
           /\ \A s \in Section : Backed(s)'
<1> USE DEF BackingInv, RefreshInv
<1>1. \A s : Held(s)' = Held(s)
  BY DEF Held
<1>2. ASSUME NEW q \in Worker, Storing(q)' PROVE Held(SectionOf(q))' = got'[q]
  <2>1. CASE q # c
    <3>1. Storing(q) /\ SectionOf(q)' = SectionOf(q) /\ got'[q] = got[q]
      BY <1>2, <2>1, StoringAside
    <3> QED
      BY <3>1 DEF Held
  <2>2. CASE q = c
    <3>1. Run(q) /\ ~PutSnapshot(q)
      BY <2>2, SnapshotAssumption DEF Step
    <3>2. Storing(q) /\ todo'[q] = todo[q] /\ got'[q] = got[q]
      BY <1>2, <3>1, StoringBackward
    <3> QED
      BY <3>2 DEF Held, SectionOf
  <2> QED
    BY <2>1, <2>2
<1>3. ASSUME NEW q \in Worker
      PROVE  /\ pc[q] = "crashed" => pc'[q] = "crashed"
             /\ Storing(q) => pc'[q] = "crashed" \/ (Storing(q)' /\ SectionOf(q)' = SectionOf(q))
  <2>1. CASE q # c
    BY <2>1, StepIsLocal, StoringAside
  <2>2. CASE q = c
    <3>1. Run(q) /\ ~RecordStatus(q)
      BY <2>2, SnapshotAssumption DEF Step
    <3>2. pc[q] # "crashed"
      BY <3>1 DEF Run, StartRun, BeginAcquire, ContinueAcquire, AddOption, SelectLock, CheckExpiry, StealLock,
             Fetch, GetForWrite, FillForWrite, PutSnapshot, DropCache, InSection, EndRun, SelectOwn,
             DeleteOwn, CrashRun, Crash, Acquiring, Holding
    <3>3. Storing(q) => pc'[q] = "crashed" \/ (Storing(q)' /\ SectionOf(q)' = SectionOf(q))
      BY <3>1, StoringForward DEF SectionOf
    <3> QED
      BY <3>2, <3>3
  <2> QED
    BY <2>1, <2>2
<1>4. ASSUME NEW s \in Section PROVE Backed(s)'
  <2>1. Held(s)' = Held(s) /\ (Held(s) # None => Held(s).by \in Worker) /\ Backed(s)
    BY <1>1, HeldTypes
  <2> QED
    BY <1>3, <2>1 DEF Backed
<1> QED
  BY <1>2, <1>4

LEMMA NextBackingInv ==
    ASSUME Prompt, OwnCaches, BackingInv, [Next]_vars PROVE BackingInv'
<1> DEFINE Kept == /\ \A p \in Worker : Storing(p)' => Held(SectionOf(p))' = got'[p]
                   /\ \A s \in Section : Backed(s)'
<1>1. RefreshInv' /\ GotIsOwn'
  BY NextRefreshInv, GotStep DEF BackingInv, RefreshInv
<1>2. ASSUME NEW c \in Call, Step(c), Calm' PROVE Kept
  <2>1. Calm /\ c \notin Admin
    BY <1>2, StaysDisturbed, StepIsLocal DEF BackingInv, RefreshInv, Calm
  <2>2. CASE c \in Worker /\ PutSnapshot(c)
    BY <1>2, <2>1, <2>2, PutBacks
  <2>3. CASE c \in Worker /\ RecordStatus(c)
    BY <1>2, <2>1, <2>3, RecordBacks
  <2>4. CASE ~(c \in Worker /\ PutSnapshot(c)) /\ ~(c \in Worker /\ RecordStatus(c))
    <3>1. UNCHANGED <<snapshot, status>>
      BY <1>2, <2>1, <2>4, StepWrites
    <3>2. BackingInv
      OBVIOUS
    <3> QED
      BY <1>2, <2>1, <2>4, <3>1, <3>2, OtherBacks, Zenon
  <2> QED
    BY <2>2, <2>3, <2>4
<1>3. ASSUME Idling, Calm' PROVE Kept
  <2>1. UNCHANGED <<pc, todo, got, status, snapshot, stage, outdated>>
    BY <1>3, IdlingIsLocal DEF rowVars, localVars
  <2>2. Calm
    BY <1>3, <2>1 DEF Calm, Undisturbed
  <2>3. ASSUME NEW q \in Worker, Storing(q)' PROVE Held(SectionOf(q))' = got'[q]
    BY <2>1, <2>2, <2>3 DEF BackingInv, Storing, Held, SectionOf
  <2>4. ASSUME NEW s \in Section PROVE Backed(s)'
    BY <2>1, <2>2 DEF BackingInv, Backed, Storing, Held, SectionOf
  <2> QED
    BY <2>3, <2>4
<1>4. Calm' => Kept
  BY <1>2, <1>3, NextSteps
<1> QED
  BY <1>1, <1>4 DEF BackingInv

\* record_status follows write_section: the section a status calls a success
\* is in the snapshot, from that run or a later one, under the assumptions of
\* RefreshPreservesSections and until the administrator intervenes.
THEOREM RefreshBacksStatus ==
    ASSUME Prompt, OwnCaches PROVE Spec => []StatusIsBacked
<1>1. BackingInv => StatusIsBacked
  <2> SUFFICES ASSUME BackingInv, Undisturbed, outdated = {}, NEW s \in Section, status[s].success # None
               PROVE  /\ Held(s) # None
                      /\ \/ Held(s).by = status[s].success
                         \/ pc[Held(s).by] = "crashed"
                         \/ stage[Held(s).by] \in {"drop", "record"}
    BY DEF StatusIsBacked, Held
  <2>1. Backed(s)
    BY DEF BackingInv, Calm
  <2> QED
    BY <2>1 DEF Backed, Storing
<1>2. Init => BackingInv
  BY InitBackingInv
<1>3. BackingInv /\ [Next]_vars => BackingInv'
  BY NextBackingInv
<1> QED
  BY <1>1, <1>2, <1>3, PTL DEF Spec
=============================================================================
