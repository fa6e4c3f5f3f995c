--------------------------- MODULE SchedulerProofs ---------------------------
(***************************************************************************)
(* For any number of requests, hooks, saves, crashes and toggles: the rows *)
(* of the scheduler keep their types, and no hook is left without events   *)
(* by a request that lived to the end of its repairs.                      *)
(***************************************************************************)
EXTENDS Scheduler, TLAPS

\* A request under way has read the settings.
Loaded == \A r \in Request : stage[r] # "idle" => config[r] \in [Hook -> Interval]

\* In the copy of a request the hooks it has already repaired have events; once
\* it is past its repairs all have.
Kept(r) ==
    /\ stage[r] = "reconcile" => \A h \in Hook : h < at[r] => events[r][h] # {}
    /\ stage[r] \in {"serve", "fire"} => \A h \in Hook : events[r][h] # {}
    /\ stage[r] = "fire" => at[r] \in Hook

\* The row is the copy of the request that wrote it last while that request
\* goes on, and has events for each hook when it has ended.
WriterHasRow ==
    writer # None =>
        /\ stage[writer] # "idle" => cron = events[writer]
        /\ stage[writer] \in {"idle", "booted"} => \A h \in Hook : cron[h] # {}

SchedulerInv ==
    /\ SchedulerTypeOK
    /\ Loaded
    /\ \A r \in Request : Kept(r)
    /\ WriterHasRow

----------------------------------------------------------------------------

\* The hooks before the next one are those before this one and this one.
LEMMA HooksTaken ==
    ASSUME NEW k \in Hook
    PROVE  /\ k + 1 \in 0..(HookCount + 1)
           /\ \A h \in Hook : h < k + 1 => h = k \/ h < k
           /\ \A h \in Hook : h < k => h # k
  BY SchedulerAssumption DEF Hook

LEMMA IntervalsTypes == \A i \in Intervals : i \in [Hook -> Interval]
  BY DEF Intervals

LEMMA InitEstablishes == ASSUME Init PROVE SchedulerInv
<1> USE SchedulerAssumption DEF Init, NoEvents, NothingKnown
<1>1. SchedulerTypeOK
  <2>1. /\ cron \in [Hook -> SUBSET Interval]
        /\ settings \in Intervals
        /\ remembered \in [Hook -> Interval \cup {None}]
    OBVIOUS
  <2>2. /\ config \in [Request -> [Hook -> Interval \cup {None}]]
        /\ known \in [Request -> [Hook -> Interval \cup {None}]]
    OBVIOUS
  <2>3. events \in [Request -> [Hook -> SUBSET Interval]]
    OBVIOUS
  <2>4. at \in [Request -> 0..(HookCount + 1)]
    OBVIOUS
  <2>5. stage \in [Request -> {"idle", "booted", "reconcile", "serve", "fire",
                               "activate", "deactivate"}]
    OBVIOUS
  <2>6. /\ {activated, calm} \subseteq BOOLEAN
        /\ saves \in Nat /\ crashes \in Nat /\ toggles \in Nat
    OBVIOUS
  <2>7. /\ due \subseteq Hook
        /\ firing \in Interval \cup {None}
        /\ writer \in Request \cup {None}
        /\ overtaken \subseteq Request
    OBVIOUS
  <2> QED
    BY <2>1, <2>2, <2>3, <2>4, <2>5, <2>6, <2>7 DEF SchedulerTypeOK
<1>2. Loaded
  BY DEF Loaded
<1>3. \A r \in Request : Kept(r)
  BY DEF Kept
<1>4. WriterHasRow
  BY DEF WriterHasRow
<1> QED
  BY <1>1, <1>2, <1>3, <1>4 DEF SchedulerInv

\* A copy of one hook replaced by events of the interval keeps the row's type.
LEMMA PutKeepsType ==
    ASSUME SchedulerTypeOK, NEW r \in Request, NEW h \in Hook,
           NEW intervals \in SUBSET Interval, Put(r, h, intervals)
    PROVE  /\ events' \in [Request -> [Hook -> SUBSET Interval]]
           /\ cron' \in [Hook -> SUBSET Interval]
           /\ writer' = r
           /\ calm' \in BOOLEAN
           /\ overtaken' \subseteq Request
           /\ cron' = events'[r]
           /\ events'[r] = [events[r] EXCEPT ![h] = intervals]
           /\ \A q \in Request \ {r} : events'[q] = events[q]
  BY DEF SchedulerTypeOK, Put, Overtake

\* A request that ends leaves copies of the right types.
LEMMA QuitKeepsType ==
    ASSUME SchedulerTypeOK, NEW r \in Request, Quit(r)
    PROVE  /\ stage' = [stage EXCEPT ![r] = "idle"]
           /\ at' \in [Request -> 0..(HookCount + 1)]
           /\ config' \in [Request -> [Hook -> Interval \cup {None}]]
           /\ events' \in [Request -> [Hook -> SUBSET Interval]]
           /\ known' \in [Request -> [Hook -> Interval \cup {None}]]
           /\ \A q \in Request \ {r} : events'[q] = events[q] /\ config'[q] = config[q] /\ at'[q] = at[q]
<1>1. NoEvents \in [Hook -> SUBSET Interval]
  BY DEF NoEvents
<1>2. NothingKnown \in [Hook -> Interval \cup {None}]
  BY DEF NothingKnown
<1>3. 0 \in 0..(HookCount + 1)
  BY SchedulerAssumption
<1> QED
  BY <1>1, <1>2, <1>3 DEF SchedulerTypeOK, Quit, Go

----------------------------------------------------------------------------
(* One step *)

LEMMA BootKeeps ==
    ASSUME SchedulerInv, NEW r \in Request, Boot(r) \/ ReadRemembered(r) PROVE SchedulerInv'
<1> USE SchedulerAssumption DEF SchedulerInv, Go, rows, fires, history, bounds
<1>1. CASE Boot(r)
  <2>0. settings \in [Hook -> Interval]
    BY IntervalsTypes DEF SchedulerTypeOK
  <2>1. SchedulerTypeOK'
    BY <1>1, <2>0 DEF SchedulerTypeOK, Boot
  <2>2. Loaded'
    BY <1>1, <2>0 DEF SchedulerTypeOK, Loaded, Boot
  <2>3. \A q \in Request : Kept(q)'
    BY <1>1 DEF SchedulerTypeOK, Kept, Boot
  <2>4. WriterHasRow'
    BY <1>1 DEF SchedulerTypeOK, WriterHasRow, Boot
  <2> QED
    BY <2>1, <2>2, <2>3, <2>4
<1>2. CASE ReadRemembered(r)
  <2>1. SchedulerTypeOK'
    BY <1>2 DEF SchedulerTypeOK, ReadRemembered
  <2>2. Loaded'
    BY <1>2 DEF SchedulerTypeOK, Loaded, ReadRemembered
  <2>3. \A q \in Request : Kept(q)'
    <3>1. \A h \in Hook : ~(h < 1)
      BY DEF Hook
    <3> QED
      BY <1>2, <3>1 DEF SchedulerTypeOK, Kept, ReadRemembered
  <2>4. WriterHasRow'
    BY <1>2 DEF SchedulerTypeOK, WriterHasRow, ReadRemembered
  <2> QED
    BY <2>1, <2>2, <2>3, <2>4
<1> QED
  BY <1>1, <1>2

\* A hook cleared by the repairs is one the request has not taken yet.
LEMMA ClearHookKeeps ==
    ASSUME SchedulerInv, NEW r \in Request, ClearHook(r) PROVE SchedulerInv'
<1> USE SchedulerAssumption DEF SchedulerInv, bounds, fires
<1> PICK i \in events[r][at[r]] : Put(r, at[r], events[r][at[r]] \ {i})
  BY DEF ClearHook
<1>0. /\ at[r] \in Hook
      /\ stage[r] = "reconcile"
      /\ events[r][at[r]] \ {i} \in SUBSET Interval
      /\ UNCHANGED <<stage, at, config>>
  BY DEF ClearHook, SchedulerTypeOK
<1> HIDE DEF fires
<1>1. /\ events' \in [Request -> [Hook -> SUBSET Interval]]
      /\ cron' \in [Hook -> SUBSET Interval]
      /\ writer' = r
      /\ calm' \in BOOLEAN
      /\ overtaken' \subseteq Request
      /\ cron' = events'[r]
      /\ events'[r] = [events[r] EXCEPT ![at[r]] = @ \ {i}]
      /\ \A q \in Request \ {r} : events'[q] = events[q]
  BY <1>0, PutKeepsType
<1>2. SchedulerTypeOK'
  BY <1>1 DEF SchedulerTypeOK, ClearHook, fires
<1>3. Loaded'
  BY <1>0 DEF Loaded
<1>4. \A q \in Request : Kept(q)'
  <2> TAKE q \in Request
  <2>1. CASE q = r
    <3>1. \A h \in Hook : h < at[r] => events'[r][h] = events[r][h]
      BY <1>0, <1>1, HooksTaken DEF SchedulerTypeOK
    <3> QED
      BY <1>0, <3>1, <2>1 DEF Kept
  <2>2. CASE q # r
    BY <1>0, <1>1, <2>2 DEF Kept
  <2> QED
    BY <2>1, <2>2
<1>5. WriterHasRow'
  BY <1>0, <1>1 DEF WriterHasRow
<1> QED
  BY <1>2, <1>3, <1>4, <1>5

\* When a hook has been taken it has an event in the request's copy.
LEMMA ScheduleHookKeeps ==
    ASSUME SchedulerInv, NEW r \in Request, ScheduleHook(r) PROVE SchedulerInv'
<1> USE SchedulerAssumption DEF SchedulerInv
<1>0. /\ at[r] \in Hook
      /\ stage[r] \in {"reconcile", "activate"}
      /\ stage' = stage
      /\ at' = [at EXCEPT ![r] = at[r] + 1]
      /\ config' = config
      /\ config[r][at[r]] \in Interval
  BY DEF ScheduleHook, Go, SchedulerTypeOK, Loaded
<1>1. CASE events[r][at[r]] = {} /\ KnowsRecurrence(r, at[r])
  <2>1. /\ events' \in [Request -> [Hook -> SUBSET Interval]]
        /\ cron' \in [Hook -> SUBSET Interval]
        /\ writer' = r
        /\ calm' \in BOOLEAN
        /\ overtaken' \subseteq Request
        /\ cron' = events'[r]
        /\ events'[r] = [events[r] EXCEPT ![at[r]] = {config[r][at[r]]}]
        /\ \A q \in Request \ {r} : events'[q] = events[q]
    <3>1. Put(r, at[r], {config[r][at[r]]})
      BY <1>1 DEF ScheduleHook
    <3>2. {config[r][at[r]]} \in SUBSET Interval
      BY <1>0
    <3> QED
      BY <1>0, <3>1, <3>2, PutKeepsType
  <2>2. SchedulerTypeOK'
    BY <1>0, <2>1, HooksTaken DEF SchedulerTypeOK, ScheduleHook, fires, bounds
  <2>3. Loaded'
    BY <1>0 DEF Loaded
  <2>4. \A q \in Request : Kept(q)'
    <3> TAKE q \in Request
    <3>1. CASE q = r
      <4>1. \A h \in Hook : events'[r][h] = IF h = at[r] THEN {config[r][at[r]]} ELSE events[r][h]
        BY <1>0, <2>1 DEF SchedulerTypeOK
      <4>2. at'[r] = at[r] + 1 /\ stage'[r] \in {"reconcile", "activate"}
        BY <1>0 DEF SchedulerTypeOK
      <4> QED
        BY <1>0, <3>1, <4>1, <4>2, HooksTaken DEF Kept
    <3>2. CASE q # r
      <4>1. at'[q] = at[q] /\ stage'[q] = stage[q] /\ events'[q] = events[q]
        BY <1>0, <2>1, <3>2 DEF SchedulerTypeOK
      <4>2. Kept(q)
        OBVIOUS
      <4> QED
        BY <4>1, <4>2 DEF Kept
    <3> QED
      BY <3>1, <3>2
  <2>5. WriterHasRow'
    BY <1>0, <2>1 DEF WriterHasRow
  <2> QED
    BY <2>2, <2>3, <2>4, <2>5
<1>2. CASE ~(events[r][at[r]] = {} /\ KnowsRecurrence(r, at[r]))
  <2>1. UNCHANGED <<cron, events, writer, overtaken, calm>>
    BY <1>2 DEF ScheduleHook, history
  <2>2. SchedulerTypeOK'
    BY <1>0, <2>1, HooksTaken DEF SchedulerTypeOK, ScheduleHook, fires, bounds
  <2>3. Loaded'
    BY <1>0 DEF Loaded
  <2>4. \A q \in Request : Kept(q)'
    <3> TAKE q \in Request
    <3>1. CASE q = r
      BY <1>0, <1>2, <2>1, <3>1, HooksTaken DEF Kept, SchedulerTypeOK, KnowsRecurrence
    <3>2. CASE q # r
      <4>1. at'[q] = at[q] /\ stage'[q] = stage[q] /\ events'[q] = events[q]
        BY <1>0, <2>1, <3>2 DEF SchedulerTypeOK
      <4>2. Kept(q)
        OBVIOUS
      <4> QED
        BY <4>1, <4>2 DEF Kept
    <3> QED
      BY <3>1, <3>2
  <2>5. WriterHasRow'
    BY <1>0, <2>1 DEF WriterHasRow
  <2> QED
    BY <2>2, <2>3, <2>4, <2>5
<1> QED
  BY <1>1, <1>2

\* What is past its repairs has taken all hooks.
LEMMA AllTaken ==
    ASSUME SchedulerInv, NEW r \in Request,
           stage[r] = "reconcile", at[r] = HookCount + 1
    PROVE  \A h \in Hook : events[r][h] # {}
<1>1. \A h \in Hook : h < HookCount + 1
  BY SchedulerAssumption DEF Hook
<1> QED
  BY <1>1 DEF SchedulerInv, Kept

LEMMA RememberKeeps ==
    ASSUME SchedulerInv, NEW r \in Request, Remember(r) PROVE SchedulerInv'
<1> USE DEF SchedulerInv
<1>0. /\ stage' = [stage EXCEPT ![r] = "serve"]
      /\ at' = [at EXCEPT ![r] = 0]
      /\ stage[r] = "reconcile"
      /\ UNCHANGED <<cron, config, events, writer, known>>
  BY DEF Remember, Go
<1>1. SchedulerTypeOK'
  <2>1. remembered' \in [Hook -> Interval \cup {None}]
    BY DEF Remember, Loaded, SchedulerTypeOK
  <2>2. at' \in [Request -> 0..(HookCount + 1)]
    BY <1>0, SchedulerAssumption DEF SchedulerTypeOK
  <2>3. due' \subseteq Hook /\ calm' \in BOOLEAN /\ overtaken' \subseteq Request
    BY DEF Remember, Overtake, SchedulerTypeOK
  <2> QED
    BY <1>0, <2>1, <2>2, <2>3 DEF Remember, SchedulerTypeOK, bounds
<1>2. Loaded'
  BY <1>0 DEF Loaded, SchedulerTypeOK
<1>3. \A q \in Request : Kept(q)'
  <2> TAKE q \in Request
  <2>1. CASE q = r
    BY <1>0, <2>1, AllTaken DEF Kept, SchedulerTypeOK, Remember
  <2>2. CASE q # r
    BY <1>0, <2>2 DEF Kept, SchedulerTypeOK
  <2> QED
    BY <2>1, <2>2
<1>4. WriterHasRow'
  BY <1>0 DEF WriterHasRow, SchedulerTypeOK
<1> QED
  BY <1>1, <1>2, <1>3, <1>4

\* A request that ends past its repairs leaves a row with events for each hook,
\* if it is the last writer.
LEMMA EndingKeeps ==
    ASSUME SchedulerInv, NEW r \in Request, Quit(r), cron' = cron,
           writer' = writer \/ writer' = None,
           writer' = r => \A h \in Hook : events[r][h] # {},
           stage[r] # "idle"
    PROVE  Loaded' /\ (\A q \in Request : Kept(q)') /\ WriterHasRow'
<1> USE DEF SchedulerInv
<1>0. /\ stage' = [stage EXCEPT ![r] = "idle"]
      /\ \A q \in Request \ {r} : events'[q] = events[q] /\ config'[q] = config[q] /\ at'[q] = at[q]
  BY QuitKeepsType
<1>1. stage'[r] = "idle" /\ \A q \in Request \ {r} : stage'[q] = stage[q]
  BY <1>0 DEF SchedulerTypeOK
<1>2. Loaded'
  BY <1>0, <1>1 DEF Loaded
<1>3. ASSUME NEW q \in Request PROVE Kept(q)'
  <2>1. CASE q = r
    BY <1>1, <2>1 DEF Kept
  <2>2. CASE q # r
    <3>1. Kept(q)
      OBVIOUS
    <3> QED
      BY <1>0, <1>1, <2>2, <3>1 DEF Kept
  <2> QED
    BY <2>1, <2>2
<1>4. WriterHasRow'
  <2> SUFFICES ASSUME writer' # None PROVE WriterHasRow'
    BY DEF WriterHasRow
  <2>1. writer' = writer
    OBVIOUS
  <2>2. CASE writer = r
    BY <1>1, <2>1, <2>2 DEF WriterHasRow
  <2>3. CASE writer # r
    BY <1>0, <1>1, <2>1, <2>3 DEF WriterHasRow, SchedulerTypeOK
  <2> QED
    BY <2>2, <2>3
<1> QED
  BY <1>2, <1>3, <1>4

LEMMA QuitsKeep ==
    ASSUME SchedulerInv, NEW r \in Request,
           End(r) \/ Crash(r) \/ (r \in Visitor /\ (Save(r) \/ Activate(r) \/ Deactivate(r)))
    PROVE  SchedulerInv'
<1> USE DEF SchedulerInv
<1>1. /\ Quit(r)
      /\ cron' = cron
      /\ stage[r] # "idle"
      /\ writer' \in {writer, None}
      /\ due' \subseteq Hook
      /\ firing' \in {firing, None}
      /\ calm' \in BOOLEAN /\ overtaken' \subseteq Request
      /\ activated' \in BOOLEAN
      /\ settings' \in Intervals
      /\ saves' \in Nat /\ crashes' \in Nat /\ toggles' \in Nat
  <2>1. CASE End(r)
    BY <2>1 DEF End, SchedulerTypeOK, bounds, rows
  <2>2. CASE Crash(r)
    <3>1. /\ Quit(r) /\ stage[r] # "idle"
          /\ crashes' = crashes + 1 /\ calm' = FALSE /\ overtaken' = overtaken \ {r}
          /\ UNCHANGED <<rows, saves, toggles>>
      BY <2>2 DEF Crash
    <3>2. writer' \in {writer, None} /\ firing' \in {firing, None} /\ due' \in {due, {}}
      BY <2>2 DEF Crash
    <3>3. saves' \in Nat /\ crashes' \in Nat /\ toggles' \in Nat
      BY <3>1 DEF SchedulerTypeOK
    <3>4. due' \subseteq Hook /\ overtaken' \subseteq Request
      BY <3>1, <3>2 DEF SchedulerTypeOK
    <3>5. activated' \in BOOLEAN /\ settings' \in Intervals /\ cron' = cron
      BY <3>1 DEF SchedulerTypeOK, rows
    <3> QED
      BY <3>1, <3>2, <3>3, <3>4, <3>5
  <2>3. CASE r \in Visitor /\ Save(r)
    BY <2>3 DEF Save, SchedulerTypeOK, fires
  <2>4. CASE r \in Visitor /\ Activate(r)
    BY <2>4 DEF Activate, LastWrite, SchedulerTypeOK, fires, bounds
  <2>5. CASE r \in Visitor /\ Deactivate(r)
    BY <2>5 DEF Deactivate, LastWrite, SchedulerTypeOK, fires, bounds
  <2> QED
    BY <2>1, <2>2, <2>3, <2>4, <2>5
<1>2. remembered' \in [Hook -> Interval \cup {None}]
  <2>1. NothingKnown \in [Hook -> Interval \cup {None}]
    BY DEF NothingKnown
  <2> QED
    BY <2>1 DEF End, Crash, Save, Activate, Deactivate, SchedulerTypeOK, rows
<1>3. SchedulerTypeOK'
  BY <1>1, <1>2, QuitKeepsType DEF SchedulerTypeOK
<1>4. writer' = r => \A h \in Hook : events[r][h] # {}
  <2>0. Kept(r)
    OBVIOUS
  <2>1. CASE End(r) \/ Save(r)
    BY <2>0, <2>1 DEF Kept, End, Save
  <2>2. CASE Crash(r) \/ Activate(r) \/ Deactivate(r)
    <3>1. writer' # r
      BY <2>2, SchedulerAssumption DEF Crash, Activate, Deactivate, Request
    <3> QED
      BY <3>1
  <2> QED
    BY <2>1, <2>2
<1> QED
  BY <1>1, <1>3, <1>4, EndingKeeps

\* The successor is in the run's copy before its predecessor leaves it.
LEMMA FireKeeps ==
    ASSUME SchedulerInv, Fire PROVE SchedulerInv'
<1> USE DEF SchedulerInv
<1> DEFINE r == CronRun
<1>0. /\ r \in Request
      /\ stage[r] \in {"serve", "fire"}
      /\ UNCHANGED <<activated, settings, remembered, config, known, bounds>>
      /\ due' \subseteq Hook
      /\ firing' \in Interval \cup {None}
  BY DEF Fire, Reschedule, Unschedule, Request, SchedulerTypeOK
<1>1. config[r] \in [Hook -> Interval] /\ events[r] \in [Hook -> SUBSET Interval] /\ Kept(r)
  BY <1>0 DEF Loaded, SchedulerTypeOK
<1>2. PICK h \in Hook, intervals \in SUBSET Interval :
         /\ intervals # {}
         /\ Put(r, h, intervals)
         /\ Go(r, "fire", h) \/ Go(r, "serve", 0)
  <2>1. ASSUME NEW h \in Hook, NEW i \in Interval, Reschedule(h, i)
        PROVE  /\ events[r][h] \cup {config[r][h]} \in SUBSET Interval
               /\ Put(r, h, events[r][h] \cup {config[r][h]})
               /\ Go(r, "fire", h)
    <3>1. config[r][h] \in Interval /\ events[r][h] \in SUBSET Interval
      BY <1>1
    <3> QED
      BY <2>1, <3>1 DEF Reschedule, Successor
  <2>2. ASSUME Unschedule
        PROVE  /\ at[r] \in Hook
               /\ (events[r][at[r]] \ {firing}) \cup {config[r][at[r]]} \in SUBSET Interval
               /\ Put(r, at[r], (events[r][at[r]] \ {firing}) \cup {config[r][at[r]]})
               /\ Go(r, "serve", 0)
    <3>1. at[r] \in Hook
      BY <1>1, <2>2 DEF Unschedule, Kept
    <3>2. config[r][at[r]] \in Interval /\ events[r][at[r]] \in SUBSET Interval
      BY <1>1, <3>1
    <3> QED
      BY <2>2, <3>1, <3>2 DEF Unschedule, Successor
  <2>3. CASE Unschedule
    BY <2>2, <2>3
  <2>4. CASE \E h \in Hook, i \in Interval : Reschedule(h, i)
    BY <2>1, <2>4
  <2> QED
    BY <2>3, <2>4 DEF Fire
<1>3. /\ events' \in [Request -> [Hook -> SUBSET Interval]]
      /\ cron' \in [Hook -> SUBSET Interval]
      /\ writer' = r
      /\ calm' \in BOOLEAN
      /\ overtaken' \subseteq Request
      /\ cron' = events'[r]
      /\ events'[r] = [events[r] EXCEPT ![h] = intervals]
      /\ \A q \in Request \ {r} : events'[q] = events[q]
  BY <1>0, <1>2, PutKeepsType
<1>4. /\ (stage'[r] = "fire" /\ at'[r] = h) \/ stage'[r] = "serve"
      /\ \A q \in Request \ {r} : stage'[q] = stage[q] /\ at'[q] = at[q]
      /\ stage' \in [Request -> {"idle", "booted", "reconcile", "serve", "fire",
                                  "activate", "deactivate"}]
      /\ at' \in [Request -> 0..(HookCount + 1)]
  <2>1. h \in 0..(HookCount + 1) /\ 0 \in 0..(HookCount + 1)
    BY SchedulerAssumption DEF Hook
  <2> QED
    BY <1>0, <1>2, <2>1 DEF Go, SchedulerTypeOK
<1>5. SchedulerTypeOK'
  BY <1>0, <1>3, <1>4 DEF SchedulerTypeOK, bounds
<1>6. Loaded'
  BY <1>0, <1>4 DEF Loaded
<1>7. ASSUME NEW q \in Request PROVE Kept(q)'
  <2>1. CASE q = r
    <3>1. \A g \in Hook : events'[r][g] # {}
      BY <1>0, <1>1, <1>2, <1>3 DEF Kept
    <3> QED
      BY <1>4, <2>1, <3>1 DEF Kept
  <2>2. CASE q # r
    <3>1. Kept(q)
      OBVIOUS
    <3> QED
      BY <1>3, <1>4, <2>2, <3>1 DEF Kept
  <2> QED
    BY <2>1, <2>2
<1>8. WriterHasRow'
  BY <1>3, <1>4 DEF WriterHasRow
<1> QED
  BY <1>5, <1>6, <1>7, <1>8

\* The administrator's requests write hooks they clear for good only in the
\* stage of the deactivation, of which nothing is asked.
LEMMA AdministerKeeps ==
    ASSUME SchedulerInv, NEW v \in Visitor,
           BeginActivate(v) \/ BeginDeactivate(v) \/ ClearForGood(v)
    PROVE  SchedulerInv'
<1> USE DEF SchedulerInv
<1>0. v \in Request
  BY DEF Request
<1>1. CASE BeginActivate(v) \/ BeginDeactivate(v)
  <2>1. \E s \in {"activate", "deactivate"} : stage' = [stage EXCEPT ![v] = s]
    BY <1>1 DEF BeginActivate, BeginDeactivate, Go
  <2>2. /\ at' = [at EXCEPT ![v] = 1]
        /\ UNCHANGED <<rows, known, fires, history, saves, crashes>>
        /\ toggles' = toggles + 1
    BY <1>1 DEF BeginActivate, BeginDeactivate, Go
  <2>3. 1 \in 0..(HookCount + 1) /\ \A h \in Hook : ~(h < 1)
    BY SchedulerAssumption DEF Hook
  <2>4. \/ config' = config /\ events' = events /\ stage[v] = "serve" /\ stage'[v] = "deactivate"
        \/ /\ config' = [config EXCEPT ![v] = settings]
           /\ events' = [events EXCEPT ![v] = cron]
           /\ stage[v] = "idle"
           /\ stage'[v] = "activate"
    BY <1>0, <1>1 DEF BeginActivate, BeginDeactivate, Go, SchedulerTypeOK
  <2>5. SchedulerTypeOK'
    <3>1. at' \in [Request -> 0..(HookCount + 1)]
      BY <2>2, <2>3 DEF SchedulerTypeOK
    <3>2. stage' \in [Request -> {"idle", "booted", "reconcile", "serve", "fire",
                                  "activate", "deactivate"}]
      BY <2>1 DEF SchedulerTypeOK
    <3>3. config' \in [Request -> [Hook -> Interval \cup {None}]]
      <4>1. settings \in [Hook -> Interval \cup {None}]
        BY IntervalsTypes DEF SchedulerTypeOK
      <4> QED
        BY <2>4, <4>1 DEF SchedulerTypeOK
    <3>4. events' \in [Request -> [Hook -> SUBSET Interval]]
      BY <2>4 DEF SchedulerTypeOK
    <3>5. saves' \in Nat /\ crashes' \in Nat /\ toggles' \in Nat
      BY <2>2 DEF SchedulerTypeOK
    <3> QED
      BY <2>2, <3>1, <3>2, <3>3, <3>4, <3>5 DEF SchedulerTypeOK, rows, fires, history
  <2>6. Loaded'
    BY <1>0, <2>1, <2>4, IntervalsTypes DEF Loaded, SchedulerTypeOK
  <2>7. ASSUME NEW q \in Request PROVE Kept(q)'
    <3>1. CASE q = v
      BY <1>0, <2>2, <2>3, <2>4, <3>1 DEF Kept, SchedulerTypeOK
    <3>2. CASE q # v
      <4>1. Kept(q)
        OBVIOUS
      <4>2. stage'[q] = stage[q] /\ at'[q] = at[q] /\ events'[q] = events[q]
        BY <1>0, <2>1, <2>2, <2>4, <3>2 DEF SchedulerTypeOK
      <4> QED
        BY <4>1, <4>2 DEF Kept
    <3> QED
      BY <3>1, <3>2
  <2>8. WriterHasRow'
    <3>1. cron' = cron /\ writer' = writer
      BY <2>2 DEF rows, history
    <3>2. CASE writer = v
      BY <1>0, <2>4, <3>1, <3>2 DEF WriterHasRow, SchedulerTypeOK
    <3>3. CASE writer # v
      BY <1>0, <2>1, <2>4, <3>1, <3>3 DEF WriterHasRow, SchedulerTypeOK
    <3> QED
      BY <3>2, <3>3
  <2> QED
    BY <2>5, <2>6, <2>7, <2>8
<1>2. CASE ClearForGood(v)
  <2>1. /\ at[v] \in Hook
        /\ stage[v] = "deactivate"
        /\ stage' = stage
        /\ at' = at \/ at' = [at EXCEPT ![v] = at[v] + 1]
        /\ UNCHANGED <<activated, settings, remembered, config, known, fires, bounds>>
    BY <1>0, <1>2 DEF ClearForGood, Go, SchedulerTypeOK
  <2>2. /\ events' \in [Request -> [Hook -> SUBSET Interval]]
        /\ cron' \in [Hook -> SUBSET Interval]
        /\ writer' \in Request \cup {None}
        /\ calm' \in BOOLEAN
        /\ overtaken' \subseteq Request
        /\ \A q \in Request \ {v} : events'[q] = events[q]
        /\ \/ writer' = v /\ cron' = events'[v]
           \/ UNCHANGED <<writer, cron, events>>
    <3>1. CASE events[v][at[v]] # {}
      <4>1. PICK i \in events[v][at[v]] : Put(v, at[v], events[v][at[v]] \ {i})
        BY <1>2, <3>1 DEF ClearForGood
      <4>2. events[v][at[v]] \ {i} \in SUBSET Interval
        BY <1>0, <2>1 DEF SchedulerTypeOK
      <4> QED
        BY <1>0, <2>1, <4>1, <4>2, PutKeepsType
    <3>2. CASE events[v][at[v]] = {}
      BY <1>0, <1>2, <3>2 DEF ClearForGood, history, SchedulerTypeOK
    <3> QED
      BY <3>1, <3>2
  <2>3. SchedulerTypeOK'
    <3>1. at' \in [Request -> 0..(HookCount + 1)]
      BY <1>0, <2>1, HooksTaken DEF SchedulerTypeOK
    <3> QED
      BY <2>1, <2>2, <3>1 DEF SchedulerTypeOK, fires, bounds
  <2>4. Loaded'
    BY <2>1 DEF Loaded
  <2>5. ASSUME NEW q \in Request PROVE Kept(q)'
    <3>1. CASE q = v
      BY <2>1, <3>1 DEF Kept
    <3>2. CASE q # v
      <4>1. Kept(q)
        OBVIOUS
      <4>2. stage'[q] = stage[q] /\ at'[q] = at[q] /\ events'[q] = events[q]
        BY <1>0, <2>1, <2>2, <3>2 DEF SchedulerTypeOK
      <4> QED
        BY <4>1, <4>2 DEF Kept
    <3> QED
      BY <3>1, <3>2
  <2>6. WriterHasRow'
    BY <1>0, <2>1, <2>2 DEF WriterHasRow
  <2> QED
    BY <2>3, <2>4, <2>5, <2>6
<1> QED
  BY <1>1, <1>2

LEMMA StutterKeeps == ASSUME SchedulerInv, UNCHANGED vars PROVE SchedulerInv'
  BY DEF SchedulerInv, SchedulerTypeOK, Loaded, Kept, WriterHasRow,
         vars, rows, locals, fires, history, bounds

LEMMA SchedulerStep == ASSUME SchedulerInv, [Next]_vars PROVE SchedulerInv'
<1>1. CASE \E r \in Request : Boot(r) \/ Continue(r) \/ Crash(r)
  BY <1>1, BootKeeps, ClearHookKeeps, ScheduleHookKeeps, RememberKeeps, QuitsKeep DEF Continue
<1>2. CASE \E v \in Visitor : Administer(v)
  BY <1>2, AdministerKeeps, QuitsKeep DEF Administer, Request
<1>3. CASE Fire
  BY <1>3, FireKeeps
<1>4. CASE UNCHANGED vars
  BY <1>4, StutterKeeps
<1> QED
  BY <1>1, <1>2, <1>3, <1>4 DEF Next

THEOREM SchedulerInvariant == Spec => []SchedulerInv
<1>1. Init => SchedulerInv
  BY InitEstablishes
<1>2. SchedulerInv /\ [Next]_vars => SchedulerInv'
  BY SchedulerStep
<1> QED
  BY <1>1, <1>2, PTL DEF Spec

\* The rows and the requests' copies of them keep their types: no event is ever
\* scheduled with an interval the settings do not allow.
THEOREM SchedulerTypeCorrect == Spec => []SchedulerTypeOK
<1>1. SchedulerInv => SchedulerTypeOK
  BY DEF SchedulerInv
<1> QED
  BY <1>1, SchedulerInvariant, PTL

\* However many requests overwrite one another's copies of the events row, no
\* hook is left without events but by a request that died while repairing, or
\* by the activation, until another request writes the row.
THEOREM SchedulerHooksStay == Spec => []HooksStayScheduled
<1>1. SchedulerInv => HooksStayScheduled
  <2> SUFFICES ASSUME SchedulerInv, writer # None, ~Repairing(writer)
               PROVE  \A h \in Hook : cron[h] # {}
    BY DEF HooksStayScheduled
  <2>1. writer \in Request /\ Kept(writer)
    BY DEF SchedulerInv, SchedulerTypeOK
  <2>2. stage[writer] \in {"idle", "booted", "serve", "fire"}
    BY <2>1 DEF SchedulerInv, SchedulerTypeOK, Repairing
  <2> QED
    BY <2>1, <2>2 DEF SchedulerInv, WriterHasRow, Kept
<1> QED
  BY <1>1, SchedulerInvariant, PTL

----------------------------------------------------------------------------
(* What is remembered *)

\* The settings of hook h changed since what r knows was remembered.
Changed(r, h) == known[r][h] # None /\ known[r][h] # config[r][h]

\* A request nobody overtook has the rows as they are; unless it is about to
\* activate the plugin, the plugin is active.
Current(r) ==
    stage[r] # "idle" /\ r \notin overtaken =>
        /\ events[r] = cron
        /\ stage[r] = "reconcile" => known[r] = remembered
        /\ stage[r] \in {"serve", "fire"} => config[r] = remembered
        /\ activated <=> stage[r] # "activate"

\* In the copy of a request the hooks it has repaired, or cleared for good, are
\* as it wants them.
OwnTaken(r) ==
    /\ stage[r] = "reconcile" =>
          \A h \in Hook : h < at[r] /\ Changed(r, h) => events[r][h] = {config[r][h]}
    /\ stage[r] = "deactivate" => \A h \in Hook : h < at[r] => events[r][h] = {}

\* Who answers for a hook whose events are not those of the remembered
\* interval: a request that repairs it and cannot end without writing what is
\* remembered, one that deactivates the plugin, or an overtaken activation.
Excuse(w, h) ==
    \/ /\ stage[w] = "reconcile"
       /\ known[w][h] # config[w][h]
       /\ config[w][h] # remembered[h]
    \/ stage[w] = "deactivate"
    \/ stage[w] = "activate" /\ w \in overtaken

\* Who answers for the events of an inactive plugin.
Answer(w, h) == stage[w] = "activate" /\ (w \in overtaken \/ cron[h] \subseteq {config[w][h]})

RowAgrees(h) ==
    /\ activated => cron[h] \subseteq {remembered[h]} \/ \E w \in Request : Excuse(w, h)
    /\ ~activated => cron[h] = {} \/ \E w \in Request : Answer(w, h)

RememberedInv ==
    /\ \A r \in Request : Current(r) /\ OwnTaken(r)
    /\ activated => remembered \in [Hook -> Interval]
    /\ calm => \A h \in Hook : RowAgrees(h)

\* A step of another request leaves a request where it is; if it writes a row,
\* the request is overtaken.
Left(q) ==
    /\ stage'[q] = stage[q] /\ at'[q] = at[q]
    /\ config'[q] = config[q] /\ events'[q] = events[q] /\ known'[q] = known[q]
    /\ q \in overtaken => q \in overtaken'

LEMMA LeftKeeps ==
    ASSUME NEW q, Left(q), Current(q) /\ OwnTaken(q),
           \/ stage[q] = "idle" \/ q \in overtaken'
           \/ cron' = cron /\ remembered' = remembered /\ (activated' <=> activated)
    PROVE  Current(q)' /\ OwnTaken(q)'
<1>1. OwnTaken(q)'
  BY DEF Left, OwnTaken, Changed
<1>2. Current(q)'
  BY DEF Left, Current
<1> QED
  BY <1>1, <1>2

\* A hook whose rows a step leaves alone stays answered for, unless by the
\* request that took the step.
LEMMA RowKept ==
    ASSUME NEW h \in Hook, NEW r \in Request, RowAgrees(h),
           cron'[h] = cron[h], remembered'[h] = remembered[h], activated' <=> activated,
           \A q \in Request \ {r} : Left(q),
           Left(r) \/ ~(Excuse(r, h) \/ Answer(r, h))
    PROVE  RowAgrees(h)'
<1>1. ASSUME NEW w \in Request, Left(w)
      PROVE  (Excuse(w, h) => Excuse(w, h)') /\ (Answer(w, h) => Answer(w, h)')
  BY <1>1 DEF Left, Excuse, Answer
<1> QED
  BY <1>1 DEF RowAgrees

\* A write of the events of one hook by a request nobody overtook.
LEMMA RowPut ==
    ASSUME SchedulerTypeOK, RememberedInv, NEW r \in Request, stage[r] # "idle",
           NEW k \in Hook, NEW intervals \in SUBSET Interval, Put(r, k, intervals),
           remembered' = remembered, activated' <=> activated, config' = config, known' = known,
           \A q \in Request \ {r} : stage'[q] = stage[q] /\ at'[q] = at[q],
           stage'[r] = stage[r] \/ stage[r] \notin {"reconcile", "activate", "deactivate"},
           calm /\ r \notin overtaken => RowAgrees(k)'
    PROVE  /\ \A q \in Request \ {r} : Current(q)' /\ OwnTaken(q)'
           /\ calm' => \A h \in Hook : RowAgrees(h)'
           /\ cron' = events'[r] /\ (r \in overtaken' <=> r \in overtaken)
           /\ events'[r] = [events[r] EXCEPT ![k] = intervals]
<1>1. /\ cron' = events'[r] /\ calm' = (calm /\ r \notin overtaken)
      /\ overtaken' = overtaken \cup {q \in Request \ {r} : stage[q] # "idle"}
      /\ events'[r] = [events[r] EXCEPT ![k] = intervals]
      /\ \A q \in Request \ {r} : events'[q] = events[q]
  BY DEF Put, Overtake, SchedulerTypeOK
<1>2. \A q \in Request \ {r} : Left(q) /\ (stage[q] = "idle" \/ q \in overtaken')
  BY <1>1 DEF Left
<1>3. \A q \in Request \ {r} : Current(q)' /\ OwnTaken(q)'
  BY <1>2, LeftKeeps DEF RememberedInv
<1>4. ASSUME calm', NEW h \in Hook
      PROVE  RowAgrees(h)'
  <2>1. calm /\ r \notin overtaken
    BY <1>1, <1>4
  <2>2. CASE h = k
    BY <2>1, <2>2
  <2>3. CASE h # k
    <3>1. events[r] = cron /\ RowAgrees(h)
      BY <2>1 DEF RememberedInv, Current
    <3>2. cron'[h] = cron[h]
      BY <1>1, <2>3, <3>1
    <3>3. ASSUME NEW w \in Request, Excuse(w, h)
          PROVE  Excuse(w, h)'
      BY <1>1, <3>3 DEF Excuse
    <3>4. ASSUME NEW w \in Request, Answer(w, h)
          PROVE  Answer(w, h)'
      BY <1>1, <3>2, <3>4 DEF Answer
    <3> QED
      BY <3>1, <3>2, <3>3, <3>4 DEF RowAgrees
  <2> QED
    BY <2>2, <2>3
<1> QED
  BY <1>1, <1>3, <1>4

LEMMA RememberedInit == ASSUME Init PROVE RememberedInv
  BY DEF Init, RememberedInv, Current, OwnTaken, RowAgrees, NoEvents

LEMMA BeginRemembers ==
    ASSUME SchedulerInv, RememberedInv, NEW r \in Request,
           Boot(r) \/ ReadRemembered(r) \/ (r \in Visitor /\ (BeginActivate(r) \/ BeginDeactivate(r)))
    PROVE  RememberedInv'
<1> USE DEF RememberedInv
<1>1. /\ UNCHANGED <<activated, settings, cron, remembered, calm, overtaken>>
      /\ \A q \in Request \ {r} : Left(q)
      /\ stage[r] \in {"idle", "booted", "serve"}
  BY DEF Boot, ReadRemembered, BeginActivate, BeginDeactivate, Go, rows, history, Left,
         SchedulerInv, SchedulerTypeOK
<1>2. activated' <=> activated
  BY <1>1
<1>3. \A q \in Request \ {r} : Current(q)' /\ OwnTaken(q)'
  BY <1>1, <1>2, LeftKeeps
<1>4. ASSUME NEW h \in Hook, RowAgrees(h)
      PROVE  RowAgrees(h)'
  <2>1. ~(Excuse(r, h) \/ Answer(r, h))
    BY <1>1 DEF Excuse, Answer
  <2> QED
    BY <1>1, <1>2, <1>4, <2>1, RowKept
<1>5. Current(r)' /\ OwnTaken(r)'
  <2>0. \A h \in Hook : ~(h < 1)
    BY DEF Hook
  <2>1. Current(r)
    OBVIOUS
  <2>2. CASE Boot(r)
    BY <1>1, <1>2, <2>2 DEF Boot, Go, Current, OwnTaken, SchedulerInv, SchedulerTypeOK
  <2>3. CASE ReadRemembered(r)
    <3>1. /\ stage[r] = "booted" /\ stage'[r] = "reconcile" /\ at'[r] = 1
          /\ known'[r] = remembered /\ events'[r] = events[r]
      BY <2>3 DEF ReadRemembered, Go, SchedulerInv, SchedulerTypeOK
    <3> QED
      BY <1>1, <1>2, <2>0, <2>1, <3>1 DEF Current, OwnTaken
  <2>4. CASE BeginActivate(r)
    BY <1>1, <1>2, <2>4 DEF BeginActivate, Go, Current, OwnTaken, SchedulerInv, SchedulerTypeOK
  <2>5. CASE BeginDeactivate(r)
    <3>1. /\ stage[r] = "serve" /\ stage'[r] = "deactivate" /\ at'[r] = 1
          /\ events'[r] = events[r]
      BY <2>5 DEF BeginDeactivate, Go, SchedulerInv, SchedulerTypeOK
    <3> QED
      BY <1>1, <1>2, <2>0, <2>1, <3>1 DEF Current, OwnTaken
  <2> QED
    BY <2>2, <2>3, <2>4, <2>5
<1> QED
  BY <1>1, <1>2, <1>3, <1>4, <1>5

\* A hook that is cleared is one whose interval changed, and will be written to
\* what is remembered.
LEMMA ClearHookRemembers ==
    ASSUME SchedulerInv, RememberedInv, NEW r \in Request, ClearHook(r)
    PROVE  RememberedInv'
<1> DEFINE k == at[r]
<1> PICK i \in events[r][k] : Put(r, k, events[r][k] \ {i})
  BY DEF ClearHook
<1>1. /\ k \in Hook /\ stage[r] = "reconcile" /\ events[r][k] \ {i} \in SUBSET Interval
      /\ known[r][k] # None /\ known[r][k] # config[r][k]
      /\ UNCHANGED <<stage, at, config, known, remembered, activated>>
  BY DEF ClearHook, IntervalChanged, SchedulerInv, SchedulerTypeOK
<1>2. Current(r) /\ OwnTaken(r) /\ SchedulerTypeOK
  BY DEF RememberedInv, SchedulerInv
<1>3. ASSUME r \notin overtaken
      PROVE  RowAgrees(k)'
  <2>1. known[r] = remembered /\ activated
    BY <1>1, <1>2, <1>3 DEF Current
  <2>2. Excuse(r, k)'
    BY <1>1, <2>1 DEF Excuse
  <2> QED
    BY <1>1, <2>1, <2>2 DEF RowAgrees
<1>4. /\ \A q \in Request \ {r} : Current(q)' /\ OwnTaken(q)'
      /\ calm' => \A h \in Hook : RowAgrees(h)'
      /\ cron' = events'[r] /\ (r \in overtaken' <=> r \in overtaken)
      /\ events'[r] = [events[r] EXCEPT ![k] = events[r][k] \ {i}]
  BY <1>1, <1>2, <1>3, RowPut
<1>5. Current(r)'
  BY <1>1, <1>2, <1>4 DEF Current
<1>6. OwnTaken(r)'
  <2>1. \A h \in Hook : h < k => events'[r][h] = events[r][h]
    BY <1>1, <1>2, <1>4, HooksTaken DEF SchedulerTypeOK
  <2> QED
    BY <1>1, <1>2, <2>1 DEF OwnTaken, Changed
<1> QED
  BY <1>1, <1>4, <1>5, <1>6 DEF RememberedInv

LEMMA ScheduleHookRemembers ==
    ASSUME SchedulerInv, RememberedInv, NEW r \in Request, ScheduleHook(r)
    PROVE  RememberedInv'
<1>0. PICK k \in Hook : k = at[r]
  BY DEF ScheduleHook
<1>1. /\ k \in Hook /\ k = at[r] /\ stage[r] \in {"reconcile", "activate"}
      /\ stage[r] = "reconcile" /\ Changed(r, k) => events[r][k] = {}
      /\ stage' = stage /\ at' = [at EXCEPT ![r] = k + 1]
      /\ config' = config /\ known' = known /\ remembered' = remembered
      /\ (activated' <=> activated) /\ config[r][k] \in Interval
  BY <1>0 DEF ScheduleHook, IntervalChanged, Changed, Go, SchedulerInv, SchedulerTypeOK, Loaded
<1>2. Current(r) /\ OwnTaken(r) /\ SchedulerTypeOK
  BY DEF RememberedInv, SchedulerInv
<1>3. at'[r] = k + 1 /\ \A q \in Request \ {r} : at'[q] = at[q]
  BY <1>1, <1>2 DEF SchedulerTypeOK
<1>4. CASE events[r][k] = {} /\ KnowsRecurrence(r, k)
  <2>1. Put(r, k, {config[r][k]}) /\ {config[r][k]} \in SUBSET Interval
    BY <1>1, <1>4 DEF ScheduleHook
  <2>2. ASSUME r \notin overtaken
        PROVE  RowAgrees(k)'
    <3>1. cron'[k] = {config[r][k]}
      BY <1>1, <1>2, <2>1 DEF Put, SchedulerTypeOK
    <3>2. CASE stage[r] = "reconcile"
      <4>1. known[r] = remembered /\ activated
        BY <1>2, <2>2, <3>2 DEF Current
      <4>2. CASE known[r][k] = config[r][k]
        <5>1. cron'[k] = {remembered'[k]} /\ activated'
          BY <1>1, <3>1, <4>1, <4>2
        <5> QED
          BY <5>1 DEF RowAgrees
      <4>3. CASE known[r][k] # config[r][k]
        <5>1. Excuse(r, k)'
          <6>1. stage'[r] = "reconcile" /\ known'[r][k] # config'[r][k] /\ config'[r][k] # remembered'[k]
            BY <1>1, <3>2, <4>1, <4>3
          <6> QED
            BY <6>1 DEF Excuse
        <5> QED
          BY <1>1, <4>1, <5>1 DEF RowAgrees
      <4> QED
        BY <4>2, <4>3
    <3>3. CASE stage[r] = "activate"
      <4>1. ~activated /\ Answer(r, k)'
        <5>1. ~activated
          BY <1>2, <2>2, <3>3 DEF Current
        <5>2. stage'[r] = "activate" /\ cron'[k] = {config'[r][k]}
          BY <1>1, <3>1, <3>3
        <5> QED
          BY <5>1, <5>2 DEF Answer
      <4> QED
        BY <1>1, <4>1 DEF RowAgrees
    <3> QED
      BY <1>1, <3>2, <3>3
  <2>3. /\ \A q \in Request \ {r} : Current(q)' /\ OwnTaken(q)'
        /\ calm' => \A h \in Hook : RowAgrees(h)'
        /\ cron' = events'[r] /\ (r \in overtaken' <=> r \in overtaken)
        /\ events'[r] = [events[r] EXCEPT ![k] = {config[r][k]}]
    <3>1. stage[r] # "idle" /\ \A q \in Request \ {r} : stage'[q] = stage[q] /\ at'[q] = at[q]
      BY <1>1, <1>3
    <3>2. {config[r][k]} \in SUBSET Interval /\ k \in Hook
      BY <1>1
    <3>3. stage'[r] = stage[r]
      BY <1>1
    <3> QED
      BY <1>1, <1>2, <2>1, <2>2, <3>1, <3>2, <3>3, RowPut, SMTT(20)
  <2>4. Current(r)'
    BY <1>1, <1>2, <2>3 DEF Current
  <2>5. OwnTaken(r)'
    <3>1. events'[r][k] = {config[r][k]} /\ \A h \in Hook : h < k => events'[r][h] = events[r][h]
      BY <1>1, <1>2, <2>3, HooksTaken DEF SchedulerTypeOK
    <3>2. \A h \in Hook : h < k + 1 => h = k \/ h < k
      BY <1>1, HooksTaken
    <3> QED
      BY <1>1, <1>2, <1>3, <3>1, <3>2 DEF OwnTaken, Changed
  <2> QED
    BY <1>1, <2>3, <2>4, <2>5 DEF RememberedInv
<1>5. CASE ~(events[r][k] = {} /\ KnowsRecurrence(r, k))
  <2>1. UNCHANGED <<cron, events, calm, overtaken>>
    BY <1>1, <1>5 DEF ScheduleHook, history
  <2>2. \A q \in Request \ {r} : Current(q)' /\ OwnTaken(q)'
    <3>1. \A q \in Request \ {r} : Left(q)
      BY <1>1, <1>3, <2>1 DEF Left
    <3>2. activated' <=> activated
      BY <1>1
    <3> QED
      BY <1>1, <2>1, <3>1, <3>2, LeftKeeps DEF RememberedInv
  <2>3. Current(r)'
    BY <1>1, <1>2, <2>1 DEF Current
  <2>4. OwnTaken(r)'
    <3>1. \A h \in Hook : h < k + 1 => h = k \/ h < k
      BY <1>1, HooksTaken
    <3> QED
      BY <1>1, <1>2, <1>3, <1>5, <2>1, <3>1 DEF OwnTaken, Changed, KnowsRecurrence
  <2>5. ASSUME NEW h \in Hook, RowAgrees(h)
        PROVE  RowAgrees(h)'
    BY <1>1, <2>1, <2>5 DEF RowAgrees, Excuse, Answer
  <2> QED
    BY <1>1, <2>1, <2>2, <2>3, <2>4, <2>5 DEF RememberedInv
<1> QED
  BY <1>4, <1>5

\* The hooks whose interval changed are right in the row when the new intervals
\* are remembered, and of the others nothing changes.
LEMMA RememberRemembers ==
    ASSUME SchedulerInv, RememberedInv, NEW r \in Request, Remember(r)
    PROVE  RememberedInv'
<1>1. /\ stage[r] = "reconcile" /\ at[r] = HookCount + 1
      /\ stage' = [stage EXCEPT ![r] = "serve"] /\ at' = [at EXCEPT ![r] = 0]
      /\ cron' = cron /\ config' = config /\ events' = events /\ known' = known
      /\ (activated' <=> activated)
  BY DEF Remember, Go
<1>2. Current(r) /\ OwnTaken(r) /\ SchedulerTypeOK
  BY DEF RememberedInv, SchedulerInv
<1>3. stage'[r] = "serve" /\ \A q \in Request \ {r} : stage'[q] = stage[q] /\ at'[q] = at[q]
  BY <1>1, <1>2 DEF SchedulerTypeOK
<1>4. config[r] \in [Hook -> Interval] /\ (remembered' = remembered \/ remembered' = config[r])
  BY <1>1 DEF Remember, SchedulerInv, Loaded
<1>5. activated' => remembered' \in [Hook -> Interval]
  BY <1>1, <1>4 DEF RememberedInv
<1>6. OwnTaken(r)'
  BY <1>3 DEF OwnTaken
<1>7. \A h \in Hook : h < at[r]
  BY <1>1, SchedulerAssumption DEF Hook
<1>8. CASE remembered' = remembered
  <2>1. calm' = calm /\ overtaken' = overtaken
    BY <1>8 DEF Remember
  <2>2. \A q \in Request \ {r} : Left(q)
    BY <1>1, <1>3, <2>1 DEF Left
  <2>3. \A q \in Request \ {r} : Current(q)' /\ OwnTaken(q)'
    BY <1>1, <1>8, <2>2, LeftKeeps DEF RememberedInv
  <2>4. ASSUME r \notin overtaken
        PROVE  config[r] = remembered /\ events[r] = cron /\ activated
    <3>1. known[r] = remembered /\ events[r] = cron /\ activated
      BY <1>1, <1>2, <2>4 DEF Current
    <3> QED
      BY <1>8, <3>1 DEF Remember
  <2>5. Current(r)'
    BY <1>1, <1>3, <1>8, <2>1, <2>4 DEF Current
  <2>6. ASSUME NEW h \in Hook, RowAgrees(h)
        PROVE  RowAgrees(h)'
    <3>1. CASE activated
      <4>1. remembered \in [Hook -> Interval] /\ None \notin Interval
        BY <3>1, SchedulerAssumption DEF RememberedInv
      <4>2. remembered # NothingKnown
        BY <4>1 DEF NothingKnown
      <4>3. known[r] = config[r] \/ remembered = config[r]
        BY <1>8, <4>2 DEF Remember
      <4>4. ~(Excuse(r, h) \/ Answer(r, h))
        BY <1>1, <4>3 DEF Excuse, Answer
      <4> QED
        BY <1>1, <1>8, <2>2, <2>6, <4>4, RowKept
    <3>2. CASE ~activated
      <4>1. \A w \in Request : Answer(w, h) => w # r /\ Answer(w, h)'
        BY <1>1, <1>3, <2>1 DEF Answer
      <4> QED
        BY <1>1, <2>6, <3>2, <4>1 DEF RowAgrees
    <3> QED
      BY <3>1, <3>2
  <2> QED
    BY <1>5, <1>6, <2>1, <2>3, <2>5, <2>6 DEF RememberedInv
<1>9. CASE remembered' # remembered
  <2>1. /\ remembered' = config[r] /\ calm' = (calm /\ r \notin overtaken)
        /\ overtaken' = overtaken \cup {q \in Request \ {r} : stage[q] # "idle"}
    BY <1>4, <1>9 DEF Remember, Overtake
  <2>2. \A q \in Request \ {r} : Left(q) /\ (stage[q] = "idle" \/ q \in overtaken')
    BY <1>1, <1>3, <2>1 DEF Left
  <2>3. \A q \in Request \ {r} : Current(q)' /\ OwnTaken(q)'
    BY <2>2, LeftKeeps DEF RememberedInv
  <2>4. Current(r)'
    BY <1>1, <1>2, <1>3, <2>1 DEF Current
  <2>5. ASSUME calm', NEW h \in Hook
        PROVE  RowAgrees(h)'
    <3>1. RowAgrees(h) /\ r \notin overtaken
      BY <2>1, <2>5 DEF RememberedInv
    <3>2. events[r] = cron /\ known[r] = remembered /\ activated
      BY <1>1, <1>2, <3>1 DEF Current
    <3>3. remembered[h] # None
      BY <3>2, SchedulerAssumption DEF RememberedInv
    <3>4. CASE known[r][h] # config[r][h]
      <4>1. cron[h] = {config[r][h]}
        BY <1>1, <1>2, <1>7, <3>2, <3>3, <3>4 DEF OwnTaken, Changed
      <4>2. cron'[h] = {remembered'[h]} /\ activated'
        BY <1>1, <2>1, <3>2, <4>1
      <4> QED
        BY <4>2 DEF RowAgrees
    <3>5. CASE known[r][h] = config[r][h]
      <4>1. remembered'[h] = remembered[h]
        BY <2>1, <3>2, <3>5
      <4>2. ~(Excuse(r, h) \/ Answer(r, h))
        BY <1>1, <3>5 DEF Excuse, Answer
      <4> QED
        BY <1>1, <2>2, <3>1, <4>1, <4>2, RowKept
    <3> QED
      BY <3>4, <3>5
  <2> QED
    BY <1>5, <1>6, <2>3, <2>4, <2>5 DEF RememberedInv
<1> QED
  BY <1>8, <1>9

\* A request that ends has nothing to answer for, unless it died.
LEMMA EndRemembers ==
    ASSUME SchedulerInv, RememberedInv, NEW r \in Request,
           End(r) \/ Crash(r) \/ (r \in Visitor /\ Save(r))
    PROVE  RememberedInv'
<1>1. /\ Quit(r) /\ overtaken' = overtaken \ {r}
      /\ cron' = cron /\ remembered' = remembered /\ (activated' <=> activated)
      /\ calm' => calm /\ stage[r] = "serve"
  BY DEF End, Crash, Save, rows
<1>2. stage'[r] = "idle" /\ \A q \in Request \ {r} : Left(q)
  BY <1>1 DEF Quit, Go, Left, SchedulerInv, SchedulerTypeOK
<1>3. \A q \in Request \ {r} : Current(q)' /\ OwnTaken(q)'
  BY <1>1, <1>2, LeftKeeps DEF RememberedInv
<1>4. Current(r)' /\ OwnTaken(r)'
  BY <1>2 DEF Current, OwnTaken
<1>5. ASSUME calm', NEW h \in Hook
      PROVE  RowAgrees(h)'
  <2>1. RowAgrees(h) /\ ~(Excuse(r, h) \/ Answer(r, h))
    BY <1>1, <1>5 DEF RememberedInv, Excuse, Answer
  <2> QED
    BY <1>1, <1>2, <2>1, RowKept
<1> QED
  BY <1>1, <1>3, <1>4, <1>5 DEF RememberedInv

\* An activation that nobody overtook remembers the intervals of what it
\* scheduled, and of what it could not; any other under way will be known to be overtaken.
LEMMA ActivateRemembers ==
    ASSUME SchedulerInv, RememberedInv, NEW r \in Request, Activate(r)
    PROVE  RememberedInv'
<1>1. /\ Quit(r) /\ stage[r] = "activate" /\ at[r] = HookCount + 1
      /\ cron' = cron /\ remembered' = config[r] /\ activated'
      /\ calm' = (calm /\ r \notin overtaken)
      /\ overtaken' = {q \in Request \ {r} : stage[q] # "idle"}
  BY DEF Activate, LastWrite
<1>2. /\ stage'[r] = "idle"
      /\ \A q \in Request \ {r} :
            /\ stage'[q] = stage[q] /\ at'[q] = at[q] /\ config'[q] = config[q]
            /\ events'[q] = events[q] /\ known'[q] = known[q]
  BY <1>1 DEF Quit, Go, SchedulerInv, SchedulerTypeOK
<1>3. \A q \in Request \ {r} : Current(q)' /\ OwnTaken(q)'
  BY <1>1, <1>2 DEF RememberedInv, Current, OwnTaken, Changed
<1>4. Current(r)' /\ OwnTaken(r)'
  BY <1>2 DEF Current, OwnTaken
<1>5. remembered' \in [Hook -> Interval]
  BY <1>1 DEF SchedulerInv, Loaded
<1>6. ASSUME calm', NEW h \in Hook
      PROVE  RowAgrees(h)'
  <2>1. RowAgrees(h) /\ r \notin overtaken /\ Current(r)
    BY <1>1, <1>6 DEF RememberedInv
  <2>2. ~activated /\ events[r] = cron
    BY <1>1, <2>1 DEF Current
  <2>3. CASE cron[h] = {}
    BY <1>1, <2>3 DEF RowAgrees
  <2> SUFFICES ASSUME cron[h] # {} PROVE RowAgrees(h)'
    BY <2>3
  <2>4. PICK w \in Request : Answer(w, h)
    BY <2>1, <2>2 DEF RowAgrees
  <2>5. CASE w = r
    <3>1. cron'[h] \subseteq {remembered'[h]}
      BY <1>1, <2>1, <2>4, <2>5 DEF Answer
    <3> QED
      BY <1>1, <3>1 DEF RowAgrees
  <2>6. CASE w # r
    <3>1. Excuse(w, h)'
      BY <1>1, <1>2, <2>4, <2>6 DEF Answer, Excuse
    <3> QED
      BY <1>1, <3>1 DEF RowAgrees
  <2> QED
    BY <2>5, <2>6
<1> QED
  BY <1>3, <1>4, <1>5, <1>6 DEF RememberedInv

\* A deactivation that nobody overtook leaves no events.
LEMMA DeactivateRemembers ==
    ASSUME SchedulerInv, RememberedInv, NEW r \in Request, Deactivate(r)
    PROVE  RememberedInv'
<1>1. /\ Quit(r) /\ stage[r] = "deactivate" /\ at[r] = HookCount + 1
      /\ cron' = cron /\ ~activated'
      /\ calm' = (calm /\ r \notin overtaken)
      /\ overtaken' = {q \in Request \ {r} : stage[q] # "idle"}
  BY DEF Deactivate, LastWrite
<1>2. /\ stage'[r] = "idle"
      /\ \A q \in Request \ {r} :
            /\ stage'[q] = stage[q] /\ at'[q] = at[q] /\ config'[q] = config[q]
            /\ events'[q] = events[q] /\ known'[q] = known[q]
  BY <1>1 DEF Quit, Go, SchedulerInv, SchedulerTypeOK
<1>3. \A q \in Request \ {r} : Current(q)' /\ OwnTaken(q)'
  BY <1>1, <1>2 DEF RememberedInv, Current, OwnTaken, Changed
<1>4. Current(r)' /\ OwnTaken(r)'
  BY <1>2 DEF Current, OwnTaken
<1>5. ASSUME calm', NEW h \in Hook
      PROVE  RowAgrees(h)'
  <2>1. r \notin overtaken /\ Current(r) /\ OwnTaken(r)
    BY <1>1, <1>5 DEF RememberedInv
  <2>2. h < at[r]
    BY <1>1, SchedulerAssumption DEF Hook
  <2>3. cron[h] = {}
    BY <1>1, <2>1, <2>2 DEF Current, OwnTaken
  <2> QED
    BY <1>1, <2>3 DEF RowAgrees
<1> QED
  BY <1>1, <1>3, <1>4, <1>5 DEF RememberedInv

LEMMA ClearForGoodRemembers ==
    ASSUME SchedulerInv, RememberedInv, NEW r \in Request, ClearForGood(r)
    PROVE  RememberedInv'
<1>0. PICK k \in Hook : k = at[r]
  BY DEF ClearForGood
<1>1. /\ stage[r] = "deactivate" /\ k = at[r]
      /\ config' = config /\ known' = known /\ remembered' = remembered
      /\ (activated' <=> activated)
  BY <1>0 DEF ClearForGood
<1>2. Current(r) /\ OwnTaken(r) /\ SchedulerTypeOK
  BY DEF RememberedInv, SchedulerInv
<1>3. CASE events[r][k] # {}
  <2>1. PICK i \in events[r][k] : Put(r, k, events[r][k] \ {i})
    BY <1>0, <1>3 DEF ClearForGood
  <2>2. stage' = stage /\ at' = at
    BY <1>0, <1>3 DEF ClearForGood
  <2>3. events[r][k] \ {i} \in SUBSET Interval
    BY <1>2 DEF SchedulerTypeOK
  <2>4. ASSUME r \notin overtaken
        PROVE  RowAgrees(k)'
    <3>1. activated' /\ Excuse(r, k)'
      BY <1>1, <1>2, <2>2, <2>4 DEF Current, Excuse
    <3> QED
      BY <3>1 DEF RowAgrees
  <2>5. /\ \A q \in Request \ {r} : Current(q)' /\ OwnTaken(q)'
        /\ calm' => \A h \in Hook : RowAgrees(h)'
        /\ cron' = events'[r] /\ (r \in overtaken' <=> r \in overtaken)
        /\ events'[r] = [events[r] EXCEPT ![k] = events[r][k] \ {i}]
    BY <1>1, <1>2, <2>1, <2>2, <2>3, <2>4, RowPut, SMTT(20)
  <2>6. Current(r)'
    BY <1>1, <1>2, <2>2, <2>5 DEF Current
  <2>7. OwnTaken(r)'
    <3>1. \A h \in Hook : h < k => events'[r][h] = events[r][h]
      BY <1>2, <2>5, HooksTaken DEF SchedulerTypeOK
    <3> QED
      BY <1>1, <1>2, <2>2, <3>1 DEF OwnTaken
  <2> QED
    BY <1>1, <2>5, <2>6, <2>7 DEF RememberedInv
<1>4. CASE events[r][k] = {}
  <2>1. UNCHANGED <<cron, events, calm, overtaken>> /\ Go(r, "deactivate", k + 1)
    BY <1>0, <1>4 DEF ClearForGood, history
  <2>2. /\ stage' = stage /\ at'[r] = k + 1
        /\ \A q \in Request \ {r} : at'[q] = at[q]
    BY <1>1, <1>2, <2>1 DEF Go, SchedulerTypeOK
  <2>3. \A q \in Request \ {r} : Current(q)' /\ OwnTaken(q)'
    <3>1. \A q \in Request \ {r} : Left(q)
      BY <1>1, <2>1, <2>2 DEF Left
    <3> QED
      BY <1>1, <2>1, <3>1, LeftKeeps DEF RememberedInv
  <2>4. Current(r)'
    BY <1>1, <1>2, <2>1, <2>2 DEF Current
  <2>5. OwnTaken(r)'
    <3>1. \A h \in Hook : h < k + 1 => h = k \/ h < k
      BY HooksTaken
    <3> QED
      BY <1>1, <1>2, <1>4, <2>1, <2>2, <3>1 DEF OwnTaken
  <2>6. ASSUME NEW h \in Hook, RowAgrees(h)
        PROVE  RowAgrees(h)'
    BY <1>1, <2>1, <2>2, <2>6 DEF RowAgrees, Excuse, Answer
  <2> QED
    BY <1>1, <2>1, <2>3, <2>4, <2>5, <2>6 DEF RememberedInv
<1> QED
  BY <1>3, <1>4

\* A run of wp-cron that nobody overtook reschedules with the interval that is
\* remembered.
LEMMA FireRemembers ==
    ASSUME SchedulerInv, RememberedInv, Fire
    PROVE  RememberedInv'
<1> DEFINE r == CronRun
<1>1. /\ r \in Request /\ stage[r] \in {"serve", "fire"}
      /\ config' = config /\ known' = known /\ remembered' = remembered
      /\ (activated' <=> activated)
  <2>1. ASSUME NEW h \in Hook, NEW i \in Interval, Reschedule(h, i)
        PROVE  /\ stage[r] = "serve" /\ (activated' <=> activated)
               /\ config' = config /\ known' = known /\ remembered' = remembered
    BY <2>1 DEF Reschedule
  <2>2. ASSUME Unschedule
        PROVE  /\ stage[r] = "fire" /\ (activated' <=> activated)
               /\ config' = config /\ known' = known /\ remembered' = remembered
    BY <2>2 DEF Unschedule
  <2>3. r \in Request
    BY DEF Request
  <2> HIDE DEF r
  <2> QED
    BY <2>1, <2>2, <2>3 DEF Fire
<1>2. Current(r) /\ Kept(r) /\ SchedulerTypeOK /\ config[r] \in [Hook -> Interval]
  BY <1>1 DEF RememberedInv, SchedulerInv, Loaded
<1>3. PICK k \in Hook, s \in {"serve", "fire"}, n \in 0..(HookCount + 1), gone \in SUBSET Interval :
         /\ Put(r, k, (events[r][k] \ gone) \cup {config[r][k]})
         /\ Go(r, s, n)
  <2>1. ASSUME NEW h \in Hook, NEW i \in Interval, Reschedule(h, i)
        PROVE  Put(r, h, (events[r][h] \ {}) \cup {config[r][h]}) /\ Go(r, "fire", h)
    BY <2>1 DEF Reschedule, Successor
  <2>2. \A h \in Hook : h \in 0..(HookCount + 1)
    BY SchedulerAssumption DEF Hook
  <2>3. CASE \E h \in Hook, i \in Interval : Reschedule(h, i)
    <3>1. PICK h \in Hook, i \in Interval : Reschedule(h, i)
      BY <2>3
    <3>2. Put(r, h, (events[r][h] \ {}) \cup {config[r][h]}) /\ Go(r, "fire", h)
      BY <2>1, <3>1
    <3>3. h \in 0..(HookCount + 1) /\ {} \in SUBSET Interval
      BY <2>2
    <3> HIDE DEF r
    <3> QED
      BY <3>2, <3>3
  <2>4. CASE Unschedule
    <3>1. at[r] \in Hook
      BY <1>2, <2>4 DEF Unschedule, Kept
    <3>2. PICK k \in Hook : k = at[r]
      BY <3>1
    <3>3. Put(r, k, (events[r][k] \ {firing}) \cup {config[r][k]}) /\ Go(r, "serve", 0)
      BY <2>4, <3>2 DEF Unschedule, Successor
    <3>4. events[r][k] \ {firing} = events[r][k] \ ({firing} \cap Interval)
      BY <1>1, <1>2 DEF SchedulerTypeOK
    <3>5. 0 \in 0..(HookCount + 1)
      BY SchedulerAssumption
    <3> QED
      BY <3>3, <3>4, <3>5
  <2> QED
    BY <2>3, <2>4 DEF Fire
<1> DEFINE intervals == (events[r][k] \ gone) \cup {config[r][k]}
<1>4. /\ intervals \in SUBSET Interval
      /\ stage'[r] \in {"serve", "fire"}
      /\ \A q \in Request \ {r} : stage'[q] = stage[q] /\ at'[q] = at[q]
  BY <1>1, <1>2, <1>3 DEF Go, SchedulerTypeOK
<1>5. ASSUME r \notin overtaken, calm
      PROVE  RowAgrees(k)'
  <2>1. /\ cron'[k] = intervals
        /\ overtaken' = overtaken \cup {q \in Request \ {r} : stage[q] # "idle"}
    BY <1>1, <1>2, <1>3 DEF Put, Overtake, SchedulerTypeOK
  <2>2. events[r] = cron /\ config[r] = remembered /\ activated
    BY <1>1, <1>2, <1>5 DEF Current
  <2>3. RowAgrees(k)
    BY <1>5 DEF RememberedInv
  <2>4. CASE cron[k] \subseteq {remembered[k]}
    <3>1. cron'[k] \subseteq {remembered'[k]}
      BY <1>1, <2>1, <2>2, <2>4
    <3> QED
      BY <1>1, <2>2, <3>1 DEF RowAgrees
  <2>5. ASSUME NEW w \in Request, Excuse(w, k)
        PROVE  RowAgrees(k)'
    <3>1. stage'[w] = stage[w]
      BY <1>1, <1>4, <2>5 DEF Excuse
    <3>2. Excuse(w, k)'
      BY <1>1, <2>1, <2>5, <3>1 DEF Excuse
    <3> QED
      BY <1>1, <2>2, <3>2 DEF RowAgrees
  <2> QED
    BY <2>2, <2>3, <2>4, <2>5 DEF RowAgrees
<1>6. /\ \A q \in Request \ {r} : Current(q)' /\ OwnTaken(q)'
      /\ calm' => \A h \in Hook : RowAgrees(h)'
      /\ cron' = events'[r] /\ (r \in overtaken' <=> r \in overtaken)
  <2>1. Put(r, k, intervals)
    BY <1>3
  <2>2. stage[r] # "idle" /\ stage[r] \notin {"reconcile", "activate", "deactivate"}
    BY <1>1
  <2> HIDE DEF intervals
  <2> QED
    BY <1>1, <1>2, <1>4, <1>5, <2>1, <2>2, RowPut
<1>7. Current(r)'
  BY <1>1, <1>2, <1>4, <1>6 DEF Current
<1>8. OwnTaken(r)'
  BY <1>4 DEF OwnTaken
<1> QED
  BY <1>1, <1>6, <1>7, <1>8 DEF RememberedInv

LEMMA RememberedStep ==
    ASSUME SchedulerInv, RememberedInv, [Next]_vars
    PROVE  RememberedInv'
<1>1. CASE \E r \in Request : Boot(r) \/ Continue(r) \/ Crash(r)
  BY <1>1, BeginRemembers, ClearHookRemembers, ScheduleHookRemembers, RememberRemembers,
     EndRemembers DEF Continue
<1>2. CASE \E v \in Visitor : Administer(v)
  BY <1>2, BeginRemembers, EndRemembers, ActivateRemembers, DeactivateRemembers,
     ClearForGoodRemembers DEF Administer, Request
<1>3. CASE Fire
  BY <1>3, FireRemembers
<1>4. CASE UNCHANGED vars
  BY <1>4 DEF RememberedInv, Current, OwnTaken, Changed, RowAgrees, Excuse, Answer,
              vars, rows, locals, fires, history
<1> QED
  BY <1>1, <1>2, <1>3, <1>4 DEF Next

\* There are no events but of the intervals reconcile compares the settings
\* with, when no request is under way, as long as none has written from an old
\* copy.
THEOREM SchedulerRememberedIsTrue == Spec => []RememberedIsTrue
<1>1. Init => RememberedInv
  BY RememberedInit
<1>2. SchedulerInv /\ RememberedInv /\ [Next]_vars => RememberedInv'
  BY RememberedStep
<1>3. RememberedInv => RememberedIsTrue
  BY DEF RememberedInv, RememberedIsTrue, Undisturbed, RowAgrees, Excuse
<1> QED
  BY <1>1, <1>2, <1>3, SchedulerInvariant, PTL DEF Spec
=============================================================================
