----------------------------- MODULE CuberPage -----------------------------
(***************************************************************************)
(* The cube page as a whole (main.js): the drag gestures of                *)
(* attachInteraction, the scramble on load, the Start and Reset buttons of *)
(* the entropy indicator, and the measurement session they drive.          *)
(*                                                                         *)
(* A turn is a committed twist that changes the cube; it is applied when   *)
(* the pointer goes up and recorded when its animation has settled.  Turns *)
(* are numbered in the order they are applied, and the session numbers the *)
(* calls of record() (moves).  Whether a twist leaves the cube solved is   *)
(* left open.                                                              *)
(***************************************************************************)
EXTENDS EntropySession, FiniteSets

CONSTANT ScrambleTwists     \* cube.shuffle(5, ...)

ASSUME PageAssumption == ScrambleTwists \in Nat \ {0}

VARIABLES
    enabled,        \* pointerdown starts a drag
    drag,           \* "none", "down" or, past the threshold, "resolved"
    settling,       \* what the settle animation under way does at its end
    scramble,       \* "waiting" for the viewport, "running" or "done"
    twistsLeft,     \* twists the scramble has still to make
    available,      \* the indicator knows of the end of the scramble
    startDisabled,  \* the Start button
    solved,         \* cube.isSolved()
    wasSolved,      \* ... before the turn that is settling
    turned,         \* history: turns applied
    initial,        \* history: turns applied when each session was started
    hasty,          \* history: sessions started amid a gesture or another start
    solving         \* history: the moves that raised the solved event

inputVars == <<enabled, drag, settling, scramble, twistsLeft>>
buttonVars == <<available, startDisabled>>
cubeVars == <<solved, wasSolved, turned>>
ghostVars == <<initial, hasty, solving>>
pageVars == <<sessionVars, inputVars, buttonVars, cubeVars, ghostVars>>

PageInit ==
    /\ SessionInit
    /\ enabled = TRUE
    /\ drag = "none"
    /\ settling = "nothing"
    /\ scramble = "waiting"
    /\ twistsLeft = ScrambleTwists
    /\ available = FALSE
    /\ startDisabled = TRUE
    /\ solved = TRUE
    /\ wasSolved = TRUE
    /\ turned = 0
    /\ initial = [g \in Session |-> 0]
    /\ hasty = {}
    /\ solving = {}

\* render(), called by every publish().
Render == startDisabled' = (~available \/ shown'.status = "measuring")

\* The listener of the solved event runs in the task that raised it: nothing
\* else happens before it returns.
NoEvent == settling # "announce"

----------------------------------------------------------------------------
(* The pointer (interaction.js) *)

\* Slip: a new drag may begin while the last one settles.
PointerDownAnytime ==
    /\ NoEvent
    /\ enabled
    /\ drag = "none"
    /\ drag' = "down"
    /\ UNCHANGED <<sessionVars, enabled, settling, scramble, twistsLeft,
                   buttonVars, cubeVars, ghostVars>>

PointerDown ==
    /\ NoEvent
    /\ enabled
    /\ drag = "none"
    /\ settling = "nothing"
    /\ drag' = "down"
    /\ UNCHANGED <<sessionVars, enabled, settling, scramble, twistsLeft,
                   buttonVars, cubeVars, ghostVars>>

\* pointermove: the axis and layer are resolved once, the rest is preview.
PointerMove ==
    /\ NoEvent
    /\ drag = "down"
    /\ drag' = "resolved"
    /\ UNCHANGED <<sessionVars, enabled, settling, scramble, twistsLeft,
                   buttonVars, cubeVars, ghostVars>>

PointerCancel ==
    /\ NoEvent
    /\ drag # "none"
    /\ drag' = "none"
    /\ UNCHANGED <<sessionVars, enabled, settling, scramble, twistsLeft,
                   buttonVars, cubeVars, ghostVars>>

\* pointerup: neither `enabled` nor isSettling is read again.  A drag that
\* resolved settles back (as a full circle does, for all that is recorded), or
\* turns the cube now and is recorded when it has settled.
PointerUp ==
    /\ NoEvent
    /\ drag # "none"
    /\ drag' = "none"
    /\ \/ /\ drag = "down"
          /\ UNCHANGED <<settling, cubeVars>>
       \/ /\ drag = "resolved"
          /\ settling' = "back"
          /\ UNCHANGED cubeVars
       \/ /\ drag = "resolved"
          /\ turned < MaxMoves
          /\ settling' = "turn"
          /\ turned' = turned + 1
          /\ wasSolved' = solved
          /\ solved' \in BOOLEAN
    /\ UNCHANGED <<sessionVars, enabled, scramble, twistsLeft, buttonVars, ghostVars>>

SettleBack ==
    /\ settling = "back"
    /\ settling' = "nothing"
    /\ UNCHANGED <<sessionVars, enabled, drag, scramble, twistsLeft,
                   buttonVars, cubeVars, ghostVars>>

\* Slip: the solved event comes first, and the session that it closes refuses
\* the turn that solved the cube.
SettleTurnSolvedFirst ==
    /\ settling = "turn"
    /\ moves' = moves + 1
    /\ IF ~wasSolved /\ solved /\ active /\ solveCall[generation] = Null
         THEN /\ queue' = [queue EXCEPT ![generation] =
                             Append(@, [kind |-> "solve", at |-> moves'])]
              /\ solveCall' = [solveCall EXCEPT ![generation] = Len(asked[generation])]
              /\ UNCHANGED asked
         ELSE IF active
           THEN /\ queue' = [queue EXCEPT ![generation] =
                               Append(@, [kind |-> "record", at |-> moves'])]
                /\ asked' = [asked EXCEPT ![generation] = Append(@, moves')]
                /\ UNCHANGED solveCall
           ELSE UNCHANGED <<queue, asked, solveCall>>
    /\ settling' = "nothing"
    /\ solving' = IF ~wasSolved /\ solved THEN solving \cup {moves'} ELSE solving
    /\ UNCHANGED <<core, opening, inflight, chain, shown>>
    /\ UNCHANGED <<enabled, drag, scramble, twistsLeft, buttonVars, cubeVars, initial, hasty>>

\* onCommitted(), and the solved event on the transition to solved ...
SettleTurn ==
    /\ settling = "turn"
    /\ Record
    /\ settling' = IF ~wasSolved /\ solved THEN "announce" ELSE "nothing"
    /\ solving' = IF ~wasSolved /\ solved THEN solving \cup {moves'} ELSE solving
    /\ UNCHANGED <<enabled, drag, scramble, twistsLeft, buttonVars, cubeVars, initial, hasty>>

\* ... whose listener calls solve() in the same task.  A second solve of a
\* session queues behind the first and finds it closed.
Announce ==
    /\ settling = "announce"
    /\ settling' = "nothing"
    /\ IF active /\ solveCall[generation] = Null THEN Solve ELSE UNCHANGED sessionVars
    /\ UNCHANGED <<enabled, drag, scramble, twistsLeft, buttonVars, cubeVars, ghostVars>>

----------------------------------------------------------------------------
(* shuffleOnLoad() *)

\* Each twist is applied at once and then animated.
Twisted ==
    /\ twistsLeft' = twistsLeft - 1
    /\ solved' \in BOOLEAN
    /\ UNCHANGED <<wasSolved, turned>>

\* Slip: Start is offered when the scramble begins.
ScrambleBeginAvailable ==
    /\ NoEvent
    /\ scramble = "waiting"
    /\ scramble' = "running"
    /\ enabled' = FALSE
    /\ available' = TRUE
    /\ startDisabled' = FALSE
    /\ Twisted
    /\ UNCHANGED <<sessionVars, drag, settling, ghostVars>>

\* Slip: the interaction is not disabled.
ScrambleBeginEnabled ==
    /\ NoEvent
    /\ scramble = "waiting"
    /\ scramble' = "running"
    /\ Twisted
    /\ UNCHANGED <<sessionVars, enabled, drag, settling, buttonVars, ghostVars>>

\* The cube scrolls into view.  A drag under way goes on.
ScrambleBegin ==
    /\ NoEvent
    /\ scramble = "waiting"
    /\ scramble' = "running"
    /\ enabled' = FALSE
    /\ Twisted
    /\ UNCHANGED <<sessionVars, drag, settling, buttonVars, ghostVars>>

ScrambleTwist ==
    /\ NoEvent
    /\ scramble = "running"
    /\ twistsLeft > 0
    /\ Twisted
    /\ UNCHANGED <<sessionVars, enabled, drag, settling, scramble, buttonVars, ghostVars>>

ScrambleEnd ==
    /\ NoEvent
    /\ scramble = "running"
    /\ twistsLeft = 0
    /\ scramble' = "done"
    /\ enabled' = TRUE
    /\ available' = TRUE
    /\ startDisabled' = FALSE
    /\ UNCHANGED <<sessionVars, drag, settling, twistsLeft, cubeVars, ghostVars>>

----------------------------------------------------------------------------
(* The buttons (entropy-indicator.js, main.js) *)

\* Slip: the interaction is left enabled while the session opens.
StartClickEnabled ==
    /\ NoEvent
    /\ ~startDisabled
    /\ Start
    /\ startDisabled' = TRUE
    /\ initial' = [initial EXCEPT ![generation'] = turned]
    /\ hasty' = IF drag # "none" \/ settling # "nothing" \/ opening # {}
                  THEN hasty \cup {generation'} ELSE hasty
    /\ UNCHANGED <<inputVars, available, cubeVars, solving>>

\* onStart(): the interaction is disabled, but neither a drag under way nor a
\* turn that settles is waited for.
StartClick ==
    /\ NoEvent
    /\ ~startDisabled
    /\ Start
    /\ startDisabled' = TRUE
    /\ enabled' = FALSE
    /\ initial' = [initial EXCEPT ![generation'] = turned]
    /\ hasty' = IF drag # "none" \/ settling # "nothing" \/ opening # {}
                  THEN hasty \cup {generation'} ELSE hasty
    /\ UNCHANGED <<drag, settling, scramble, twistsLeft, available, cubeVars, solving>>

\* Slip: no finally, and a failed or superseded start returns early.
StartReturnsOpen(g) ==
    /\ NoEvent
    /\ Open(g) \/ OpenFails(g)
    /\ enabled' = (enabled \/ active')
    /\ IF g = generation THEN Render ELSE UNCHANGED startDisabled
    /\ UNCHANGED <<drag, settling, scramble, twistsLeft, available, cubeVars, ghostVars>>

\* Slip: only a session that opens is shown.
StartReturnsSilent(g) ==
    /\ NoEvent
    /\ Open(g) \/ OpenFails(g)
    /\ enabled' = TRUE
    /\ IF active' THEN Render ELSE UNCHANGED startDisabled
    /\ UNCHANGED <<drag, settling, scramble, twistsLeft, available, cubeVars, ghostVars>>

\* start() returns, with a session or without: the finally of onStart().
StartReturns(g) ==
    /\ NoEvent
    /\ Open(g) \/ OpenFails(g)
    /\ enabled' = TRUE
    /\ IF g = generation THEN Render ELSE UNCHANGED startDisabled
    /\ UNCHANGED <<drag, settling, scramble, twistsLeft, available, cubeVars, ghostVars>>

\* The button is disabled while the session shown is "ready".
ResetClick ==
    /\ NoEvent
    /\ shown.status # "ready"
    /\ Reset
    /\ Render
    /\ UNCHANGED <<inputVars, available, cubeVars, ghostVars>>

----------------------------------------------------------------------------
(* The session on its own *)

SessionWorks(g) ==
    /\ NoEvent
    /\ \/ (RunDropped(g) \/ RunRecord(g)) /\ UNCHANGED startDisabled
       \/ RunSolve(g) /\ Render
       \/ /\ AppendDone(g) \/ AppendFails(g)
          /\ IF g = generation THEN Render ELSE UNCHANGED startDisabled
    /\ UNCHANGED <<inputVars, available, cubeVars, ghostVars>>

PageNext ==
    \/ PointerDown
    \/ PointerMove
    \/ PointerCancel
    \/ PointerUp
    \/ SettleBack
    \/ SettleTurn
    \/ Announce
    \/ ScrambleBegin
    \/ ScrambleTwist
    \/ ScrambleEnd
    \/ StartClick
    \/ ResetClick
    \/ \E g \in Session : StartReturns(g) \/ SessionWorks(g)

PageSpec == PageInit /\ [][PageNext]_pageVars

\* Timers and promises are served: the scramble goes on once begun, animations
\* end, digests arrive.  The visitor need not do anything.
PageFairSpec ==
    /\ PageSpec
    /\ WF_pageVars(Announce \/ SettleBack \/ SettleTurn)
    /\ WF_pageVars(ScrambleTwist \/ ScrambleEnd)
    /\ \A g \in Session : WF_pageVars(StartReturns(g) \/ SessionWorks(g))

----------------------------------------------------------------------------
(* Properties *)

\* Every variable has its type; the buttons follow what is shown: Start is
\* offered only after the scramble and never over a session that measures.
PageTypeOK ==
    /\ SessionTypeOK
    /\ enabled \in BOOLEAN
    /\ drag \in {"none", "down", "resolved"}
    /\ settling \in {"nothing", "back", "turn", "announce"}
    /\ scramble \in {"waiting", "running", "done"}
    /\ twistsLeft \in 0..ScrambleTwists
    /\ available = (scramble = "done")
    /\ startDisabled \in BOOLEAN
    /\ ~startDisabled => available /\ shown.status # "measuring"
    /\ {solved, wasSolved} \subseteq BOOLEAN
    /\ turned \in 0..MaxMoves
    /\ initial \in [Session -> 0..turned]
    /\ hasty \cup opening \subseteq 1..generation
    /\ solving \subseteq 1..moves

\* Turns are recorded one by one in the order they were applied, although a
\* turn waits 400 ms for its animation: only the last may be unrecorded
\* (isSettling, interaction.js:232).
TurnsRecordedInOrder ==
    turned = moves + (IF settling = "turn" THEN 1 ELSE 0)

\* A session shown as solved ends with the turn that solved the cube
\* (interaction.js:328-341, "solving-move omission" in the plan's log).
SolvedEndsWithSolvingTurn ==
    shown.status = "solved" =>
        /\ shown.recs # <<>>
        /\ shown.recs[Len(shown.recs)].at \in solving

\* The transcript of session g leads from its initial state to the cube as it
\* is: its first turn is the first after the initial state was taken, none is
\* missing in between and, while it goes on, none at the end.
Replays(g) ==
    /\ \A i \in 1..Len(asked[g]) : asked[g][i] = initial[g] + i
    /\ active /\ g = generation => moves = initial[g] + Len(asked[g])

\* So it is for every session that was not started in the middle of a drag, of
\* a settle animation, or of an earlier start.
CalmSessionsReplay ==
    \A g \in (1..generation) \ hasty : Replays(g)

\* While the scramble runs no drag begins and no session is started, although
\* the interaction has two independent writers (main.js:52, :22-28).  A drag that
\* began while the scramble waited for the viewport goes on through it: pointerup
\* reads no flag (interaction.js:278), and the cube turns between its twists.
ScrambleUndisturbed ==
    [][(drag = "none" /\ drag' = "down") \/ opening' \ opening # {}
         => scramble # "running"]_pageVars

\* Whatever becomes of the starts, the cube does not stay dead to the pointer.
InputComesBack == ~enabled ~> enabled

\* Start is offered again, or a session measures: no failed or superseded start
\* leaves the visitor without a button (entropy-indicator.js:31-34, :89).
StartComesBack ==
    (available /\ startDisabled) ~> (~startDisabled \/ shown.status = "measuring")
=============================================================================
