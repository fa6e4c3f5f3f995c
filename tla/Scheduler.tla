------------------------------ MODULE Scheduler ------------------------------
(***************************************************************************)
(* The two refresh cadences (class-scheduler.php) as rows of wp_options:   *)
(* WordPress keeps all cron events in one row, the settings and the        *)
(* intervals the events were last built for in two more.  Every request of *)
(* the site compares the latter two and repairs the events (reconcile, on  *)
(* init).                                                                  *)
(*                                                                         *)
(* A request loads the events once and writes the whole row from its copy, *)
(* so a request that began before another one wrote puts old events back.  *)
(* Of an event only its interval matters here; two events of one hook with *)
(* the same interval are taken as one.                                     *)
(***************************************************************************)
EXTENDS Integers

CONSTANTS
    Visitor,        \* requests of visitors and administrators
    CronRun,        \* the run of wp-cron; its own lock allows one at a time
    HookCount,      \* hooks, numbered in the order reconcile takes them
    Daily,          \* those with WordPress's own recurrence 'daily'
    Interval,       \* the intervals an event may have
    DailyInterval,  \* that of the recurrence 'daily'
    MaxSaves,       \* bound: saves of the settings form
    MaxCrashes,     \* bound: requests that die
    MaxToggles,     \* bound: activations and deactivations of the plugin
    None

ASSUME SchedulerAssumption ==
    /\ CronRun \notin Visitor
    /\ HookCount \in Nat
    /\ DailyInterval \in Interval
    /\ {MaxSaves, MaxCrashes, MaxToggles} \subseteq Nat
    /\ None \notin Interval \cup Visitor \cup {CronRun}

VARIABLES
    activated,      \* the plugin is among the active plugins
    settings,       \* option jba_settings: the interval of each hook
    cron,           \* option cron: the intervals of the events of each hook
    remembered,     \* option jba_scheduled_intervals
    stage,          \* where each request is
    at,             \* the hook it is about
    config,         \* its copy of the settings
    events,         \* its copy of the events
    known,          \* what it read as $remembered
    due,            \* the hooks the run of wp-cron has left to fire
    firing,         \* the event it has just built a successor for
    writer,         \* history: the request that wrote the events last, or None
    overtaken,      \* history: requests that began before another one's last
                    \* write of the events or of what is remembered
    calm,           \* history: no overtaken request has written
    saves, crashes, toggles

rows == <<activated, settings, cron, remembered>>
fires == <<due, firing>>
locals == <<stage, at, config, events, known, fires>>
history == <<writer, overtaken, calm>>
bounds == <<saves, crashes, toggles>>
vars == <<rows, locals, history, bounds>>

Request == Visitor \cup {CronRun}
Hook == 1..HookCount

\* The settings choose the interval of every hook but the daily ones.
Intervals == {i \in [Hook -> Interval] : \A h \in Hook \cap Daily : i[h] = DailyInterval}

NoEvents == [h \in Hook |-> {}]
NothingKnown == [h \in Hook |-> None]

Init ==
    /\ activated = FALSE
    /\ settings \in Intervals
    /\ cron = NoEvents
    /\ remembered = NothingKnown
    /\ stage = [r \in Request |-> "idle"]
    /\ at = [r \in Request |-> 0]
    /\ config = [r \in Request |-> NothingKnown]
    /\ events = [r \in Request |-> NoEvents]
    /\ known = [r \in Request |-> NothingKnown]
    /\ due = {}
    /\ firing = None
    /\ writer = None
    /\ overtaken = {}
    /\ calm = TRUE
    /\ saves = 0 /\ crashes = 0 /\ toggles = 0

\* r writes a row: what the other requests have read of it is old.
Overtake(r) ==
    /\ calm' = (calm /\ r \notin overtaken)
    /\ overtaken' = overtaken \cup {q \in Request \ {r} : stage[q] # "idle"}

\* r writes the events of hook h: its whole copy replaces the row.
Put(r, h, intervals) ==
    /\ events' = [events EXCEPT ![r][h] = intervals]
    /\ cron' = events'[r]
    /\ writer' = r
    /\ Overtake(r)

Go(r, s, h) ==
    /\ stage' = [stage EXCEPT ![r] = s]
    /\ at' = [at EXCEPT ![r] = h]

\* A request ends; its copies end with it.  (Quit leaves overtaken to its caller.)
Quit(r) ==
    /\ Go(r, "idle", 0)
    /\ config' = [config EXCEPT ![r] = NothingKnown]
    /\ events' = [events EXCEPT ![r] = NoEvents]
    /\ known' = [known EXCEPT ![r] = NothingKnown]

\* As Overtake, by a request that ends with it.
LastWrite(r) ==
    /\ calm' = (calm /\ r \notin overtaken)
    /\ overtaken' = {q \in Request \ {r} : stage[q] # "idle"}

----------------------------------------------------------------------------
(* reconcile(), at the beginning of every request *)

Boot(r) ==
    /\ stage[r] = "idle"
    /\ activated
    /\ Go(r, "booted", 0)
    /\ config' = [config EXCEPT ![r] = settings]
    /\ events' = [events EXCEPT ![r] = cron]
    /\ UNCHANGED <<rows, known, fires, history, bounds>>

ReadRemembered(r) ==
    /\ stage[r] = "booted"
    /\ Go(r, "reconcile", 1)
    /\ known' = [known EXCEPT ![r] = remembered]
    /\ UNCHANGED <<rows, config, events, fires, history, bounds>>

\* Slip: the test for a remembered interval is the wrong way round.
IntervalChangedNull(r) ==
    /\ known[r][at[r]] = None
    /\ known[r][at[r]] # config[r][at[r]]

IntervalChanged(r) ==
    /\ known[r][at[r]] # None
    /\ known[r][at[r]] # config[r][at[r]]

\* Slip: what was cleared is left to a later request to schedule.
ClearAndGoOn(r) ==
    /\ stage[r] = "reconcile"
    /\ at[r] \in Hook
    /\ IntervalChanged(r)
    /\ \E i \in events[r][at[r]] : Put(r, at[r], events[r][at[r]] \ {i})
    /\ Go(r, "reconcile", IF events'[r][at[r]] = {} THEN at[r] + 1 ELSE at[r])
    /\ UNCHANGED <<activated, settings, remembered, config, known, fires, bounds>>

\* wp_clear_scheduled_hook() takes the hook's events away one by one.
ClearHook(r) ==
    /\ stage[r] = "reconcile"
    /\ at[r] \in Hook
    /\ IntervalChanged(r)
    /\ \E i \in events[r][at[r]] : Put(r, at[r], events[r][at[r]] \ {i})
    /\ UNCHANGED <<activated, settings, remembered, stage, at, config, known, fires, bounds>>

\* wp_schedule_event() fails for a recurrence it has not heard of.  Those of
\* the settings are announced by register_hooks(), on plugins_loaded, which
\* the request that activates the plugin has behind it.
KnowsRecurrence(r, h) == stage[r] = "activate" => h \in Daily

\* Slip: the interval of the event is the remembered one.
ScheduleRemembered(r) ==
    /\ stage[r] \in {"reconcile", "activate"}
    /\ at[r] \in Hook
    /\ stage[r] = "reconcile" => ~IntervalChanged(r) \/ events[r][at[r]] = {}
    /\ IF events[r][at[r]] = {} /\ KnowsRecurrence(r, at[r])
         THEN Put(r, at[r], {known[r][at[r]]})
         ELSE UNCHANGED <<cron, events, history>>
    /\ Go(r, stage[r], at[r] + 1)
    /\ UNCHANGED <<activated, settings, remembered, config, known, fires, bounds>>

\* schedule(): of a hook that has no event in the request's copy, once
\* reconcile has cleared what it had to.
ScheduleHook(r) ==
    /\ stage[r] \in {"reconcile", "activate"}
    /\ at[r] \in Hook
    /\ stage[r] = "reconcile" => ~IntervalChanged(r) \/ events[r][at[r]] = {}
    /\ IF events[r][at[r]] = {} /\ KnowsRecurrence(r, at[r])
         THEN Put(r, at[r], {config[r][at[r]]})
         ELSE UNCHANGED <<cron, events, history>>
    /\ Go(r, stage[r], at[r] + 1)
    /\ UNCHANGED <<activated, settings, remembered, config, known, fires, bounds>>

\* update_option() of a row the request has read and another one deleted does
\* nothing.
Remember(r) ==
    /\ stage[r] = "reconcile"
    /\ at[r] = HookCount + 1
    /\ remembered' = IF known[r] = config[r] \/ (known[r] # NothingKnown /\ remembered = NothingKnown)
                       THEN remembered
                       ELSE config[r]
    /\ IF remembered' = remembered THEN UNCHANGED <<calm, overtaken>> ELSE Overtake(r)
    /\ Go(r, "serve", 0)
    /\ due' = IF r = CronRun THEN Hook ELSE due
    /\ UNCHANGED <<activated, settings, cron, config, events, known, firing, writer, bounds>>

----------------------------------------------------------------------------
(* What the request is for *)

\* The page is served, or no event is due any more.
End(r) ==
    /\ stage[r] = "serve"
    /\ Quit(r)
    /\ overtaken' = overtaken \ {r}
    /\ due' = IF r = CronRun THEN {} ELSE due
    /\ UNCHANGED <<rows, firing, writer, calm, bounds>>

\* options.php: the form's intervals replace the row.
Save(v) ==
    /\ stage[v] = "serve"
    /\ saves < MaxSaves
    /\ \E intervals \in Intervals \ {config[v]} : settings' = intervals
    /\ Quit(v)
    /\ overtaken' = overtaken \ {v}
    /\ saves' = saves + 1
    /\ UNCHANGED <<activated, cron, remembered, fires, writer, calm, crashes, toggles>>

\* Slip: a successor has the interval its event was scheduled with.
SuccessorAsBefore(h, i) == i

\* The interval of the event that follows one of interval i: that of the run's
\* own copy of the settings (register_cron_schedules), whatever i was.
Successor(h, i) == config[CronRun][h]

\* wp-cron builds the event's successor before it removes the event.
Reschedule(h, i) ==
    /\ stage[CronRun] = "serve"
    /\ h \in due
    /\ i \in events[CronRun][h]
    /\ due' = due \ {h}
    /\ firing' = i
    /\ Put(CronRun, h, events[CronRun][h] \cup {Successor(h, i)})
    /\ Go(CronRun, "fire", h)
    /\ UNCHANGED <<activated, settings, remembered, config, known, bounds>>

\* Then the hook's action runs, and the next due event is taken.
Unschedule ==
    /\ stage[CronRun] = "fire"
    /\ LET h == at[CronRun]
       IN  Put(CronRun, h, (events[CronRun][h] \ {firing}) \cup {Successor(h, firing)})
    /\ firing' = None
    /\ Go(CronRun, "serve", 0)
    /\ UNCHANGED <<due, activated, settings, remembered, config, known, bounds>>

----------------------------------------------------------------------------
(* activate() and deactivate() *)

\* The plugin is not loaded by the request that activates it: no reconcile.
BeginActivate(v) ==
    /\ stage[v] = "idle"
    /\ ~activated
    /\ toggles < MaxToggles
    /\ toggles' = toggles + 1
    /\ Go(v, "activate", 1)
    /\ config' = [config EXCEPT ![v] = settings]
    /\ events' = [events EXCEPT ![v] = cron]
    /\ UNCHANGED <<rows, known, fires, history, saves, crashes>>

\* remember_intervals(), of the events this request could not schedule too,
\* after which WordPress lists the plugin as active.
Activate(v) ==
    /\ stage[v] = "activate"
    /\ at[v] = HookCount + 1
    /\ remembered' = config[v]
    /\ activated' = TRUE
    /\ Quit(v)
    /\ writer' = IF writer = v THEN None ELSE writer
    /\ LastWrite(v)
    /\ UNCHANGED <<settings, cron, fires, bounds>>

BeginDeactivate(v) ==
    /\ stage[v] = "serve"
    /\ toggles < MaxToggles
    /\ toggles' = toggles + 1
    /\ Go(v, "deactivate", 1)
    /\ UNCHANGED <<rows, config, events, known, fires, history, saves, crashes>>

ClearForGood(v) ==
    /\ stage[v] = "deactivate"
    /\ at[v] \in Hook
    /\ \/ /\ events[v][at[v]] = {}
          /\ Go(v, "deactivate", at[v] + 1)
          /\ UNCHANGED <<cron, events, history>>
       \/ /\ \E i \in events[v][at[v]] : Put(v, at[v], events[v][at[v]] \ {i})
          /\ UNCHANGED <<stage, at>>
    /\ UNCHANGED <<activated, settings, remembered, config, known, fires, bounds>>

\* The intervals are forgotten, and WordPress delists the plugin.  Requests
\* under way have it loaded and may still schedule events.
Deactivate(v) ==
    /\ stage[v] = "deactivate"
    /\ at[v] = HookCount + 1
    /\ remembered' = NothingKnown
    /\ activated' = FALSE
    /\ Quit(v)
    /\ writer' = IF writer = v THEN None ELSE writer
    /\ LastWrite(v)
    /\ UNCHANGED <<settings, cron, fires, bounds>>

----------------------------------------------------------------------------

Crash(r) ==
    /\ stage[r] # "idle"
    /\ crashes < MaxCrashes
    /\ crashes' = crashes + 1
    /\ Quit(r)
    /\ overtaken' = overtaken \ {r}
    /\ due' = IF r = CronRun THEN {} ELSE due
    /\ firing' = IF r = CronRun THEN None ELSE firing
    /\ writer' = IF writer = r THEN None ELSE writer
    /\ calm' = FALSE
    /\ UNCHANGED <<rows, saves, toggles>>

\* What a request that has begun does on its own.
Continue(r) ==
    \/ ReadRemembered(r) \/ ClearHook(r) \/ ScheduleHook(r) \/ Remember(r) \/ End(r)

Administer(v) ==
    \/ Save(v)
    \/ BeginActivate(v) \/ Activate(v)
    \/ BeginDeactivate(v) \/ ClearForGood(v) \/ Deactivate(v)

Fire == Unschedule \/ \E h \in Hook, i \in Interval : Reschedule(h, i)

Next ==
    \/ \E r \in Request : Boot(r) \/ Continue(r) \/ Crash(r)
    \/ \E v \in Visitor : Administer(v)
    \/ Fire

Spec == Init /\ [][Next]_vars

\* Requests that do not die go on.  A timer of the host runs wp-cron, and every
\* event becomes due and is found by one of its runs.
FairSpec ==
    /\ Spec
    /\ \A r \in Request : WF_vars(Continue(r))
    /\ \A v \in Visitor : WF_vars(ClearForGood(v) \/ Deactivate(v) \/ Activate(v))
    /\ WF_vars(Boot(CronRun)) /\ WF_vars(Unschedule)
    /\ \A h \in Hook, i \in Interval : SF_vars(Reschedule(h, i))

----------------------------------------------------------------------------
(* Properties *)

SchedulerTypeOK ==
    /\ {activated, calm} \subseteq BOOLEAN
    /\ settings \in Intervals
    /\ cron \in [Hook -> SUBSET Interval]
    /\ remembered \in [Hook -> Interval \cup {None}]
    /\ stage \in [Request -> {"idle", "booted", "reconcile", "serve", "fire",
                              "activate", "deactivate"}]
    /\ at \in [Request -> 0..(HookCount + 1)]
    /\ config \in [Request -> [Hook -> Interval \cup {None}]]
    /\ events \in [Request -> [Hook -> SUBSET Interval]]
    /\ known \in [Request -> [Hook -> Interval \cup {None}]]
    /\ due \subseteq Hook
    /\ firing \in Interval \cup {None}
    /\ writer \in Request \cup {None}
    /\ overtaken \subseteq Request
    /\ saves \in Nat /\ crashes \in Nat /\ toggles \in Nat

Repairing(r) == stage[r] \in {"reconcile", "activate", "deactivate"}

\* However requests overwrite one another's copies of the events, no hook is
\* left without an event: a missing one is about to be scheduled by the request
\* that wrote the row last, unless that request died or was the activation,
\* which leaves most hooks to the first request that follows it.
HooksStayScheduled ==
    activated /\ writer # None /\ ~Repairing(writer) => \A h \in Hook : cron[h] # {}

\* No request is under way, and none has written from an old copy.
Undisturbed == calm /\ activated /\ \A r \in Request : stage[r] = "idle"

\* reconcile() compares the settings with what it remembers, never with the
\* events: there must be none built for another interval than the remembered.
RememberedIsTrue ==
    Undisturbed => \A h \in Hook : cron[h] \subseteq {remembered[h]}

\* Whatever was overwritten, lost or left behind, in the end each hook has the
\* events of the interval the settings ask for and no other.
CadenceFollowsSettings ==
    <>[](activated => \A h \in Hook : cron[h] = {settings[h]})
=============================================================================
