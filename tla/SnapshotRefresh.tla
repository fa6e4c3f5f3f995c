-------------------------- MODULE SnapshotRefresh --------------------------
(***************************************************************************)
(* Refresh_Service::run over the snapshot and status options, composed     *)
(* with the refresh lock, reads of the snapshot through the object cache,  *)
(* and the administrator's clear and origin-change handlers, which do not  *)
(* take the lock.                                                          *)
(*                                                                         *)
(* A Call is made in a request, one PHP process, and several calls may     *)
(* share one: wp-cron.php fires all the hooks that are due in one process. *)
(* get_option reads a row once per request and answers from that copy ever *)
(* after; the request's own updates and deletions keep the copy in step,   *)
(* those of others do not.  Where wp_cache_* keeps its values depends on   *)
(* the site: CacheOf gives each request the cache it uses, its own         *)
(* (WordPress's default) or a persistent one common to all.                *)
(***************************************************************************)
EXTENDS RefreshLock, Sequences

CONSTANTS
    Visitor,    \* the calls that only read the snapshot: page views, daily cleanup
    Admin,      \* the calls that invalidate it
    Request, RequestOf,
    CacheId, CacheOf,
    Origin,     \* the Ampache servers the setting may name
    Prompt,     \* TRUE: a run ends, or crashes, before its lease does
    None,       \* a section with no data, a cache miss, a failed fetch
    NoRow,      \* there is no row jba_snapshot
    Unread      \* a row the request has not read yet

Section == {"now_playing", "stats", "recent"}
Call == Worker \cup Visitor \cup Admin

\* refresh_now_playing, refresh_stats_and_recent, refresh_all
RunKind == { <<"now_playing">>, <<"stats", "recent">>,
             <<"now_playing", "stats", "recent">> }

\* The data of one successful fetch: who fetched it, from which server.
Data == [by : Worker, origin : Origin]
Snapshot == [Section -> Data \cup {None}]
EmptySnapshot == [s \in Section |-> None]

\* Per section: the run of the last success and the failures since.
Status == [Section -> [success : Worker \cup {None}, failures : Nat]]

NoStatus == [s \in Section |-> [success |-> None, failures |-> 0]]

ASSUME SnapshotAssumption ==
    /\ RequestOf \in [Call -> Request]
    /\ CacheOf \in [Request -> CacheId]
    /\ Prompt \in BOOLEAN
    /\ None \notin Data \cup Snapshot \cup Worker
    /\ NoRow \notin Snapshot
    /\ Unread \notin Snapshot \cup {NoRow} \cup Status \cup Origin
    /\ Worker \cap Visitor = {} /\ Worker \cap Admin = {} /\ Visitor \cap Admin = {}

VARIABLES
    snapshot,   \* jba_snapshot, or NoRow
    status,     \* jba_status
    origin,     \* jba_settings['origin']
    copy, statusCopy, settings, \* each request's copies of the three
    cache,      \* what each object cache holds under jba_snapshot
    todo,       \* the sections a run has left, the current one first
    stage,      \* where each call is
    got,        \* $result of the current section's fetch
    snap,       \* $snapshot as the call last obtained it
    outdated    \* history: the runs that took the lock on old copies

rowVars == <<snapshot, status, origin>>
memVars == <<copy, statusCopy, settings, cache>>
localVars == <<todo, stage, got, snap>>
vars == <<lockVars, rowVars, memVars, localVars, outdated>>

Init ==
    /\ LockInit
    /\ snapshot = NoRow
    /\ status = NoStatus
    /\ origin \in Origin
    /\ copy = [r \in Request |-> Unread]
    /\ statusCopy = [r \in Request |-> Unread]
    /\ settings = [r \in Request |-> Unread]
    /\ cache = [c \in CacheId |-> None]
    /\ todo = [p \in Worker |-> <<>>]
    /\ stage = [c \in Call |-> "start"]
    /\ got = [p \in Worker |-> None]
    /\ snap = [c \in Worker \cup Visitor |-> EmptySnapshot]
    /\ outdated = {}

GoTo(c, s) == stage' = [stage EXCEPT ![c] = s]

----------------------------------------------------------------------------
(* Requests *)

\* A process that died makes no other call.
UnderWay(c) ==
    IF c \in Worker THEN pc[c] \notin {"idle", "busy", "done"}
                    ELSE stage[c] \notin {"start", "shown", "done"}

\* A request makes one call after the other.  Its settings are loaded when it
\* starts (they are autoloaded, and Scheduler::reconcile reads them on init).
Begin(c) ==
    /\ stage[c] = "start"
    /\ \A d \in Call \ {c} : RequestOf[d] = RequestOf[c] => ~UnderWay(d)

\* get_option: the request's copy of a row, read now unless it was before.
Known(copied, row) == IF copied = Unread THEN row ELSE copied

Boot(c) == settings' = [settings EXCEPT ![RequestOf[c]] = Known(@, origin)]

SectionsIn(row) == IF row = NoRow THEN EmptySnapshot ELSE row

----------------------------------------------------------------------------
(* get_snapshot(), by a run or by a page view *)

\* A hit is returned as it is; a miss reads the option.
Lookup(c, hit, miss) ==
    LET r == RequestOf[c]
        cached == cache[CacheOf[r]]
    IN  IF cached # None
          THEN /\ snap' = [snap EXCEPT ![c] = cached]
               /\ GoTo(c, hit)
               /\ UNCHANGED copy
          ELSE /\ copy' = [copy EXCEPT ![r] = Known(@, snapshot)]
               /\ snap' = [snap EXCEPT ![c] = SectionsIn(copy'[r])]
               /\ GoTo(c, miss)

\* wp_cache_set with the value read before.
Fill(c, next) ==
    /\ cache' = [cache EXCEPT ![CacheOf[RequestOf[c]]] = snap[c]]
    /\ GoTo(c, next)

----------------------------------------------------------------------------
(* A run: the lock, then every section in turn *)

StartRun(p) ==
    /\ Begin(p)
    /\ BeginAcquire(p)
    /\ Boot(p)
    /\ \E kind \in RunKind : todo' = [todo EXCEPT ![p] = kind]
    /\ GoTo(p, "fetch")
    /\ UNCHANGED <<rowVars, copy, statusCopy, cache, got, snap, outdated>>

\* The copies the request has of the rows a run rewrites are what they hold.
UpToDate(r) ==
    /\ copy[r] \in {Unread, snapshot}
    /\ statusCopy[r] \in {Unread, status}

ContinueAcquire(p) ==
    /\ AddOption(p) \/ SelectLock(p) \/ CheckExpiry(p) \/ StealLock(p)
    /\ outdated' = IF pc'[p] = "held" /\ ~UpToDate(RequestOf[p])
                     THEN outdated \cup {p} ELSE outdated
    /\ UNCHANGED <<rowVars, memVars, localVars>>

SectionOf(p) == Head(todo[p])

InSection(p, s) == pc[p] = "held" /\ todo[p] # <<>> /\ stage[p] = s

\* fetch(): what the section's requests to Ampache bring: its data, from the
\* server the request's settings name, or an error.  Statistics are data as
\* soon as one of their counts is answered.
FetchResult(p) == {[by |-> p, origin |-> settings[RequestOf[p]]], None}

\* get_status()
ReadStatus(p) == statusCopy' = [statusCopy EXCEPT ![RequestOf[p]] = Known(@, status)]

\* Slip: the branch for a failed fetch does not return.
FetchNoReturn(p) ==
    /\ InSection(p, "fetch")
    /\ \E result \in FetchResult(p) :
          got' = [got EXCEPT ![p] = result]
    /\ GoTo(p, "get")
    /\ ReadStatus(p)
    /\ UNCHANGED <<lockVars, rowVars, copy, settings, cache, todo, snap, outdated>>

\* refresh_section(): the fetch, then the section's previous status.
Fetch(p) ==
    /\ InSection(p, "fetch")
    /\ \E result \in FetchResult(p) :
          /\ got' = [got EXCEPT ![p] = result]
          /\ GoTo(p, IF result = None THEN "record" ELSE "get")
    /\ ReadStatus(p)
    /\ UNCHANGED <<lockVars, rowVars, copy, settings, cache, todo, snap, outdated>>

GetForWrite(p) ==
    /\ InSection(p, "get")
    /\ Lookup(p, "put", "fill")
    /\ UNCHANGED <<lockVars, rowVars, statusCopy, settings, cache, todo, got, outdated>>

FillForWrite(p) ==
    /\ InSection(p, "fill")
    /\ Fill(p, "put")
    /\ UNCHANGED <<lockVars, rowVars, copy, statusCopy, settings, todo, got, snap, outdated>>

\* The value a run writes: the whole snapshot, its section replaced.
Rewritten(p) == [snap[p] EXCEPT ![SectionOf(p)] = got[p]]

\* update_option: adds the row where the request has read that there is none,
\* else updates it, which does nothing if the row has been deleted since.
PutSnapshot(p) ==
    LET r == RequestOf[p]
        old == Known(copy[r], snapshot)
        new == IF old # NoRow /\ snapshot = NoRow THEN old ELSE Rewritten(p)
    IN  /\ InSection(p, "put")
        /\ snapshot' = IF old # NoRow /\ snapshot = NoRow THEN NoRow ELSE new
        /\ copy' = [copy EXCEPT ![r] = new]
        /\ GoTo(p, "drop")
        /\ UNCHANGED <<lockVars, status, origin, statusCopy, settings, cache, todo, got, snap, outdated>>

\* Slip: the object cache keeps the snapshot as it was.
DropNothing(p) ==
    /\ InSection(p, "drop")
    /\ GoTo(p, "record")
    /\ UNCHANGED <<lockVars, rowVars, memVars, todo, got, snap, outdated>>

DropCache(p) ==
    /\ InSection(p, "drop")
    /\ cache' = [cache EXCEPT ![CacheOf[RequestOf[p]]] = None]
    /\ GoTo(p, "record")
    /\ UNCHANGED <<lockVars, rowVars, copy, statusCopy, settings, todo, got, snap, outdated>>

\* refresh_section() returns: its locals are gone.
NextSection(p) ==
    /\ todo' = [todo EXCEPT ![p] = Tail(@)]
    /\ GoTo(p, "fetch")
    /\ got' = [got EXCEPT ![p] = None]
    /\ snap' = [snap EXCEPT ![p] = EmptySnapshot]

\* What becomes of a section's record: a failure keeps the last success and
\* counts one more.
Outcome(p, record) ==
    IF got[p] = None THEN [record EXCEPT !.failures = @ + 1]
                     ELSE [success |-> p, failures |-> 0]

\* Slip: the count of failures runs backwards.
RecordCountDown(p) ==
    /\ InSection(p, "record")
    /\ status' = [Known(statusCopy[RequestOf[p]], status) EXCEPT
                     ![SectionOf(p)] = IF got[p] = None THEN [@ EXCEPT !.failures = @ - 1]
                                                        ELSE Outcome(p, @)]
    /\ statusCopy' = [statusCopy EXCEPT ![RequestOf[p]] = status']
    /\ NextSection(p)
    /\ UNCHANGED <<lockVars, snapshot, origin, copy, settings, cache, outdated>>

\* record_status(): the whole status as the request knows it, this section's
\* record replaced.  The row is never deleted, so the update succeeds.
RecordStatus(p) ==
    /\ InSection(p, "record")
    /\ status' = [Known(statusCopy[RequestOf[p]], status) EXCEPT
                     ![SectionOf(p)] = Outcome(p, @)]
    /\ statusCopy' = [statusCopy EXCEPT ![RequestOf[p]] = status']
    /\ NextSection(p)
    /\ UNCHANGED <<lockVars, snapshot, origin, copy, settings, cache, outdated>>

\* The finally of run().
EndRun(p) ==
    /\ (SelectOwn(p) /\ todo[p] = <<>>) \/ DeleteOwn(p)
    /\ UNCHANGED <<rowVars, memVars, localVars, outdated>>

\* The process dies, with whatever calls it had yet to make.
CrashRun(p) ==
    /\ Crash(p)
    /\ UNCHANGED <<rowVars, memVars, localVars, outdated>>

Run(p) ==
    \/ StartRun(p)
    \/ ContinueAcquire(p)
    \/ Fetch(p)
    \/ GetForWrite(p)
    \/ FillForWrite(p)
    \/ PutSnapshot(p)
    \/ DropCache(p)
    \/ RecordStatus(p)
    \/ EndRun(p)
    \/ CrashRun(p)

----------------------------------------------------------------------------
(* Page views, and the daily cleanup of a snapshot that is not too old *)

View(v) ==
    /\ Begin(v)
    /\ Boot(v)
    /\ Lookup(v, "shown", "fill")
    /\ UNCHANGED <<lockVars, rowVars, statusCopy, cache, todo, got, outdated>>

FillForView(v) ==
    /\ stage[v] = "fill"
    /\ Fill(v, "shown")
    /\ UNCHANGED <<lockVars, rowVars, copy, statusCopy, settings, todo, got, snap, outdated>>

----------------------------------------------------------------------------
(* The administrator: invalidate() outside the lock *)

\* Settings saved with another origin: the hook update_option_jba_settings
\* runs once the new origin is stored.
SaveOrigin(a) ==
    /\ Begin(a)
    /\ \E o \in Origin \ {origin} :
          /\ origin' = o
          /\ settings' = [settings EXCEPT ![RequestOf[a]] = o]
    /\ GoTo(a, "invalidate")
    /\ UNCHANGED <<lockVars, snapshot, status, copy, statusCopy, cache, todo, got, snap, outdated>>

\* "Clear cached snapshot"
ClearSnapshot(a) ==
    /\ Begin(a)
    /\ Boot(a)
    /\ GoTo(a, "invalidate")
    /\ UNCHANGED <<lockVars, rowVars, copy, statusCopy, cache, todo, got, snap, outdated>>

\* delete_option returns at once when there is no row.
DeleteSnapshot(a) ==
    /\ stage[a] = "invalidate"
    /\ snapshot' = NoRow
    /\ copy' = IF snapshot = NoRow THEN copy ELSE [copy EXCEPT ![RequestOf[a]] = NoRow]
    /\ GoTo(a, "drop")
    /\ UNCHANGED <<lockVars, status, origin, statusCopy, settings, cache, todo, got, snap, outdated>>

DropForAdmin(a) ==
    /\ stage[a] = "drop"
    /\ cache' = [cache EXCEPT ![CacheOf[RequestOf[a]]] = None]
    /\ GoTo(a, "done")
    /\ UNCHANGED <<lockVars, rowVars, copy, statusCopy, settings, todo, got, snap, outdated>>

Administer(a) ==
    \/ SaveOrigin(a)
    \/ ClearSnapshot(a)
    \/ DeleteSnapshot(a)
    \/ DropForAdmin(a)

----------------------------------------------------------------------------

\* With Prompt, no worker is still running when its lease ends.
TickRefresh ==
    /\ Tick
    /\ Prompt => \A p \in Worker :
                    pc[p] \in Acquiring \cup Holding => clock + 1 < entry[p].expires
    /\ UNCHANGED <<rowVars, memVars, localVars, outdated>>

Next ==
    \/ \E p \in Worker : Run(p)
    \/ \E v \in Visitor : View(v) \/ FillForView(v)
    \/ \E a \in Admin : Administer(a)
    \/ TickRefresh

Spec == Init /\ [][Next]_vars

----------------------------------------------------------------------------
(* Properties *)

\* The rows, the copies and what each call holds have their types.
SnapshotTypeOK ==
    /\ LockTypeOK
    /\ snapshot \in Snapshot \cup {NoRow}
    /\ status \in Status
    /\ origin \in Origin
    /\ copy \in [Request -> Snapshot \cup {NoRow, Unread}]
    /\ statusCopy \in [Request -> Status \cup {Unread}]
    /\ settings \in [Request -> Origin \cup {Unread}]
    /\ cache \in [CacheId -> Snapshot \cup {None}]
    /\ got \in [Worker -> Data \cup {None}]
    /\ snap \in [Worker \cup Visitor -> Snapshot]
    /\ outdated \subseteq Worker

Writes(p) == stage[p] = "put" /\ stage'[p] = "drop"

OthersKept(p) ==
    \A s \in Section \ {SectionOf(p)} : SectionsIn(snapshot')[s] = SectionsIn(snapshot)[s]

\* No administrator has cleared the snapshot or changed the origin.
Undisturbed == \A a \in Admin : stage[a] = "start"

\* "Replaces only the given section; every other section (including one this
\* refresh attempt failed to fetch) is preserved untouched" (write_section).
SectionsPreserved ==
    [][\A p \in Worker : Undisturbed /\ Writes(p) => OthersKept(p)]_vars

\* What does hold of that promise: a run whose request had no old copy when it
\* took the lock leaves the other sections as they are in the row, whatever
\* other requests do meanwhile; it does not bring back, in particular, what
\* the administrator clears after the run has read it.
CurrentRunPreserves ==
    [][\A p \in Worker \ outdated : Writes(p) => OthersKept(p)]_vars

\* Status does not claim a success the snapshot does not hold: the section is
\* the one of the last success recorded, or newer, from a run that crashed
\* or is about to record it (record_status follows write_section), until an
\* administrator clears the snapshot, which leaves the status alone, or a run
\* works on old copies.
StatusIsBacked ==
    Undisturbed /\ outdated = {} =>
        \A s \in Section : status[s].success # None =>
            LET held == SectionsIn(snapshot)[s]
            IN  /\ held # None
                /\ \/ held.by = status[s].success
                   \/ pc[held.by] = "crashed"
                   \/ stage[held.by] \in {"drop", "record"}

\* "Snapshot reads served through the object cache match a direct option read
\* and are invalidated immediately after any snapshot write" (plan
\* 06-validation-deployment): when no request is in the middle of
\* get_snapshot, write_section or invalidate, no cache differs from the option.
CacheMatchesOption ==
    (\A c \in Call : stage[c] \notin {"fill", "drop", "invalidate"})
        => \A c \in CacheId : cache[c] \in {None, SectionsIn(snapshot)}

\* "Origin changes invalidate and purge the snapshot/artwork immediately"
\* (plan 02-architecture-api): once the settings handler is done, no section
\* holds data of another server.
SnapshotOfCurrentOrigin ==
    (\A a \in Admin : stage[a] \in {"start", "done"})
        => \A s \in Section : SectionsIn(snapshot)[s] # None
                                 => SectionsIn(snapshot)[s].origin = origin
=============================================================================
