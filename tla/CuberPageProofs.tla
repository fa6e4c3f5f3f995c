-------------------------- MODULE CuberPageProofs --------------------------
(***************************************************************************)
(* What holds of the page (CuberPage) for every number of sessions, turns  *)
(* and scramble twists.  The page makes only calls that a session allows,  *)
(* so it inherits what EntropySessionProofs says of one; the rest is about *)
(* what only the page has: gestures, the scramble and the buttons.         *)
(***************************************************************************)
EXTENDS CuberPage, EntropySessionProofs, TLAPS

\* The actions that leave the session alone.
Apart ==
    \/ PointerDown \/ PointerMove \/ PointerCancel \/ PointerUp \/ SettleBack
    \/ ScrambleBegin \/ ScrambleTwist \/ ScrambleEnd

LEMMA ApartSession == Apart => UNCHANGED sessionVars
    BY Zenon DEF Apart, PointerDown, PointerMove, PointerCancel, PointerUp, SettleBack,
                 ScrambleBegin, ScrambleTwist, ScrambleEnd

LEMMA WorksSession ==
    ASSUME NEW g \in Session, StartReturns(g) \/ SessionWorks(g)
    PROVE  Proceed(g)
    BY Zenon DEF StartReturns, SessionWorks, Proceed

\* Every step of the page is a step of the session, or none.
LEMMA PageStepIsSessionStep ==
    [PageNext]_pageVars => [SessionNext]_sessionVars
<1> SUFFICES ASSUME [PageNext]_pageVars PROVE [SessionNext]_sessionVars
    OBVIOUS
<1>1. CASE Apart \/ UNCHANGED pageVars
    BY <1>1, ApartSession, Zenon DEF pageVars
<1>2. CASE SettleTurn
    BY <1>2, Zenon DEF SettleTurn, SessionNext
<1>3. CASE Announce
    BY <1>3, Zenon DEF Announce, SessionNext
<1>4. CASE StartClick
    BY <1>4, Zenon DEF StartClick, SessionNext
<1>5. CASE ResetClick
    BY <1>5, Zenon DEF ResetClick, SessionNext
<1>6. CASE \E g \in Session : StartReturns(g) \/ SessionWorks(g)
    BY <1>6, WorksSession, Zenon DEF SessionNext
<1> QED
    BY <1>1, <1>2, <1>3, <1>4, <1>5, <1>6, Zenon DEF PageNext, Apart

\* The page calls the session only as its specification allows: all that is
\* proved of every session holds of the one on the page.
THEOREM PageRunsSession == PageSpec => SessionSpec
<1>1. PageInit => SessionInit
    BY DEF PageInit
<1> QED
    BY <1>1, PageStepIsSessionStep, PTL DEF PageSpec, SessionSpec

----------------------------------------------------------------------------
(* Types and buttons *)

InputTypeOK ==
    /\ enabled \in BOOLEAN
    /\ drag \in {"none", "down", "resolved"}
    /\ settling \in {"nothing", "back", "turn", "announce"}
    /\ scramble \in {"waiting", "running", "done"}
    /\ twistsLeft \in 0..ScrambleTwists

ButtonTypeOK ==
    /\ available \in BOOLEAN
    /\ available <=> scramble = "done"
    /\ startDisabled \in BOOLEAN
    /\ ~startDisabled => available /\ shown.status # "measuring"

CubeTypeOK ==
    /\ solved \in BOOLEAN /\ wasSolved \in BOOLEAN
    /\ turned \in 0..MaxMoves

GhostTypeOK ==
    /\ initial \in [Session -> 0..turned]
    /\ hasty \subseteq 1..generation
    /\ solving \subseteq 1..moves

\* Before the scramble is over no session was started, and the pointer is dead
\* while it runs; a settle animation and a drag exclude one another.
Ordered ==
    /\ scramble # "done" => generation = 0 /\ opening = {} /\ shown.status = "ready"
    /\ scramble = "running" => ~enabled
    /\ scramble = "waiting" => twistsLeft = ScrambleTwists
    /\ settling # "nothing" => drag = "none"

PageInv == SessionTypeOK /\ InputTypeOK /\ ButtonTypeOK /\ CubeTypeOK /\ GhostTypeOK /\ Ordered

LEMMA PageInvType == PageInv => PageTypeOK
<1> SUFFICES ASSUME PageInv PROVE PageTypeOK
    OBVIOUS
<1>1. available = (scramble = "done")
    BY Zenon DEF PageInv, ButtonTypeOK
<1>2. opening \subseteq 1..generation
    BY DEF PageInv, SessionTypeOK, CoreTypeOK
<1>3. {solved, wasSolved} \subseteq BOOLEAN
    BY Zenon DEF PageInv, CubeTypeOK
<1>4. hasty \cup opening \subseteq 1..generation
    BY <1>2 DEF PageInv, GhostTypeOK
<1> QED
    BY <1>1, <1>3, <1>4, Zenon DEF PageInv, InputTypeOK, ButtonTypeOK, CubeTypeOK,
                                   GhostTypeOK, PageTypeOK

\* What the steps of the session do to what the page looks at.
LEMMA SessionEffects ==
    /\ Record \/ Solve => generation' = generation /\ opening' = opening /\ shown' = shown
    /\ Start => generation' = generation + 1 /\ opening' = opening \cup {generation + 1}
                /\ shown' = shown
    /\ Reset => generation' = generation + 1 /\ opening' = opening
    /\ \A g \in Session : Proceed(g) =>
          /\ generation' = generation
          /\ opening' \subseteq opening
          /\ g \notin opening /\ g # generation => shown' = shown
    /\ UNCHANGED sessionVars => generation' = generation /\ opening' = opening /\ shown' = shown
<1>1. Record \/ Solve => generation' = generation /\ opening' = opening /\ shown' = shown
    BY CoreUnchanged DEF Record, Solve
<1>2. Start => generation' = generation + 1 /\ opening' = opening \cup {generation + 1}
               /\ shown' = shown
    BY DEF Start
<1>3. Reset => generation' = generation + 1 /\ opening' = opening
    BY DEF Reset
<1>4. ASSUME NEW g \in Session, Proceed(g)
      PROVE  /\ generation' = generation
             /\ opening' \subseteq opening
             /\ g \notin opening /\ g # generation => shown' = shown
    BY <1>4, CoreUnchanged DEF Proceed, Open, OpenFails, Ready, RunDropped, RunRecord, RunSolve,
                               AppendDone, AppendFails
<1>5. UNCHANGED sessionVars => generation' = generation /\ opening' = opening /\ shown' = shown
    BY CoreUnchanged DEF sessionVars
<1> QED
    BY <1>1, <1>2, <1>3, <1>4, <1>5

LEMMA InputStep ==
    ASSUME PageInv, [PageNext]_pageVars
    PROVE  InputTypeOK'
<1> USE PageAssumption DEF InputTypeOK, PageInv
<1>1. CASE PointerDown \/ PointerMove \/ PointerCancel \/ SettleBack
    BY <1>1 DEF PointerDown, PointerMove, PointerCancel, SettleBack
<1>2. CASE PointerUp
    BY <1>2 DEF PointerUp
<1>3. CASE ScrambleBegin
  <2>1. twistsLeft = ScrambleTwists /\ twistsLeft' = twistsLeft - 1
      BY <1>3 DEF ScrambleBegin, Twisted, Ordered
  <2>2. twistsLeft' \in 0..ScrambleTwists
      BY <2>1
  <2>3. enabled' = FALSE /\ scramble' = "running" /\ UNCHANGED <<drag, settling>>
      BY <1>3 DEF ScrambleBegin
  <2> QED
      BY <2>2, <2>3
<1>4. CASE ScrambleTwist
  <2>1. twistsLeft > 0 /\ twistsLeft' = twistsLeft - 1
      BY <1>4 DEF ScrambleTwist, Twisted
  <2>2. twistsLeft' \in 0..ScrambleTwists
      BY <2>1
  <2>3. UNCHANGED <<enabled, scramble, drag, settling>>
      BY <1>4, Zenon DEF ScrambleTwist
  <2> QED
      BY <2>2, <2>3, Zenon
<1>9. CASE ScrambleEnd
    BY <1>9 DEF ScrambleEnd
<1>5. CASE SettleTurn \/ Announce
    BY <1>5 DEF SettleTurn, Announce
<1>6. CASE StartClick \/ ResetClick
    BY <1>6 DEF StartClick, ResetClick, inputVars
<1>7. CASE \E g \in Session : StartReturns(g) \/ SessionWorks(g)
    BY <1>7 DEF StartReturns, SessionWorks, inputVars
<1>8. CASE UNCHANGED pageVars
    BY <1>8 DEF pageVars, inputVars
<1> QED
    BY <1>1, <1>2, <1>3, <1>4, <1>5, <1>6, <1>7, <1>8, <1>9 DEF PageNext

LEMMA CubeGhostStep ==
    ASSUME PageInv, SessionTypeOK', [PageNext]_pageVars
    PROVE  CubeTypeOK' /\ GhostTypeOK'
<1> USE SessionAssumption DEF CubeTypeOK, GhostTypeOK, PageInv
<1>0. /\ generation \in Nat /\ moves \in Nat /\ turned \in Nat
    BY DEF SessionTypeOK, CoreTypeOK, QueueTypeOK
<1>1. UNCHANGED sessionVars => generation' = generation /\ moves' = moves
    BY SessionEffects DEF sessionVars, history
<1>2. CASE PointerDown \/ PointerMove \/ PointerCancel \/ SettleBack
  <2>1. UNCHANGED <<sessionVars, cubeVars, ghostVars>>
      BY <1>2 DEF PointerDown, PointerMove, PointerCancel, SettleBack
  <2> QED
      BY <1>1, <2>1, Zenon DEF cubeVars, ghostVars
<1>3. CASE PointerUp
  <2>1. UNCHANGED <<sessionVars, ghostVars>>
      BY <1>3 DEF PointerUp
  <2>2. \/ UNCHANGED cubeVars
        \/ turned < MaxMoves /\ turned' = turned + 1 /\ wasSolved' = solved /\ solved' \in BOOLEAN
      BY <1>3 DEF PointerUp
  <2>3. solved' \in BOOLEAN /\ wasSolved' \in BOOLEAN
      BY <2>2, Zenon DEF cubeVars
  <2>4. turned' \in 0..MaxMoves /\ turned <= turned'
      BY <1>0, <2>2 DEF cubeVars
  <2>5. initial' \in [Session -> 0..turned']
      BY <1>0, <2>1, <2>4 DEF ghostVars
  <2> QED
      BY <1>1, <2>1, <2>3, <2>4, <2>5 DEF ghostVars
<1>4. CASE ScrambleBegin \/ ScrambleTwist
  <2>1. /\ UNCHANGED <<sessionVars, ghostVars>>
        /\ solved' \in BOOLEAN /\ wasSolved' = wasSolved /\ turned' = turned
      BY <1>4, Zenon DEF ScrambleBegin, ScrambleTwist, Twisted
  <2>2. wasSolved' \in BOOLEAN
      BY <2>1, Zenon
  <2> QED
      BY <1>1, <2>1, <2>2 DEF ghostVars
<1>5. CASE ScrambleEnd
  <2>1. UNCHANGED <<sessionVars, cubeVars, ghostVars>>
      BY <1>5, Zenon DEF ScrambleEnd
  <2> QED
      BY <1>1, <2>1, Zenon DEF cubeVars, ghostVars
<1>6. CASE SettleTurn
  <2>1. UNCHANGED <<cubeVars, initial, hasty>> /\ moves' = moves + 1 /\ generation' = generation
      BY <1>6, SessionEffects DEF SettleTurn, Record
  <2>2. solving' = solving \/ solving' = solving \cup {moves'}
      BY <1>6 DEF SettleTurn
  <2>3. solving' \subseteq 1..moves'
    <3>1. moves + 1 \in 1..(moves + 1) /\ 1..moves \subseteq 1..(moves + 1)
        BY <1>0
    <3> QED
        BY <2>1, <2>2, <3>1
  <2>4. CubeTypeOK'
      BY <2>1, Zenon DEF cubeVars
  <2>5. turned' = turned
      BY <2>1 DEF cubeVars
  <2> QED
      BY <2>1, <2>3, <2>4, <2>5
<1>7. CASE Announce
  <2>1. UNCHANGED <<cubeVars, ghostVars>> /\ generation' = generation /\ moves' = moves
      BY <1>1, <1>7, SessionEffects DEF Announce, Solve
  <2> QED
      BY <2>1, Zenon DEF cubeVars, ghostVars
<1>8. CASE StartClick
  <2>1. /\ UNCHANGED cubeVars /\ solving' = solving /\ moves' = moves
        /\ generation' = generation + 1 /\ generation + 1 \in Session
        /\ initial' = [initial EXCEPT ![generation + 1] = turned]
        /\ hasty' \subseteq hasty \cup {generation + 1}
      BY <1>0, <1>8, SessionEffects DEF StartClick, Start, history, Session
  <2>2. CubeTypeOK' /\ turned' = turned
      BY <2>1, Zenon DEF cubeVars
  <2>3. initial' \in [Session -> 0..turned]
      BY <1>0, <2>1
  <2>4. hasty' \subseteq 1..(generation + 1)
      BY <1>0, <2>1
  <2> QED
      BY <2>1, <2>2, <2>3, <2>4
<1>9. CASE ResetClick
  <2>1. UNCHANGED <<cubeVars, ghostVars>> /\ generation' = generation + 1 /\ moves' = moves
      BY <1>9, SessionEffects DEF ResetClick, Reset, history
  <2>2. CubeTypeOK'
      BY <2>1, Zenon DEF cubeVars
  <2>3. hasty \subseteq 1..(generation + 1)
      BY <1>0
  <2> QED
      BY <2>1, <2>2, <2>3 DEF ghostVars, cubeVars
<1>10. ASSUME NEW g \in Session, StartReturns(g) \/ SessionWorks(g)
       PROVE  CubeTypeOK' /\ GhostTypeOK'
  <2>1. UNCHANGED <<cubeVars, ghostVars>>
      BY <1>10 DEF StartReturns, SessionWorks
  <2>2. Proceed(g)
      BY <1>10, WorksSession
  <2>3. generation' = generation /\ moves' = moves
      BY <2>2, SessionEffects DEF Proceed, Open, OpenFails, RunDropped, RunRecord, RunSolve,
                                  AppendDone, AppendFails, history
  <2> QED
      BY <2>1, <2>3, Zenon DEF cubeVars, ghostVars
<1>11. CASE UNCHANGED pageVars
  <2>1. UNCHANGED <<sessionVars, cubeVars, ghostVars>>
      BY <1>11, Zenon DEF pageVars
  <2> QED
      BY <1>1, <2>1, Zenon DEF cubeVars, ghostVars
<1> QED
    BY <1>2, <1>3, <1>4, <1>5, <1>6, <1>7, <1>8, <1>9, <1>10, <1>11 DEF PageNext

LEMMA ButtonStep ==
    ASSUME PageInv, [PageNext]_pageVars
    PROVE  ButtonTypeOK'
<1> USE DEF ButtonTypeOK, PageInv
<1>1. CASE UNCHANGED <<shown, available, startDisabled, scramble>>
    BY <1>1, Zenon
<1>2. CASE PointerDown \/ PointerMove \/ PointerCancel \/ PointerUp \/ SettleBack \/ ScrambleTwist
               \/ UNCHANGED pageVars
  <2>1. UNCHANGED <<sessionVars, buttonVars, scramble>>
      BY <1>2, Zenon DEF PointerDown, PointerMove, PointerCancel, PointerUp, SettleBack,
                         ScrambleTwist, pageVars, inputVars
  <2> QED
      BY <1>1, <2>1, Zenon DEF sessionVars, buttonVars
<1>3. CASE ScrambleBegin
  <2>1. UNCHANGED <<sessionVars, buttonVars>> /\ scramble = "waiting" /\ scramble' = "running"
      BY <1>3, Zenon DEF ScrambleBegin
  <2>2. UNCHANGED <<shown, available, startDisabled>>
      BY <2>1, Zenon DEF sessionVars, buttonVars
  <2>3. ~available
      BY <2>1
  <2>4. ~available' /\ available' \in BOOLEAN /\ startDisabled' \in BOOLEAN /\ startDisabled'
      BY <2>2, <2>3, Zenon
  <2> QED
      BY <2>1, <2>4
<1>4. CASE ScrambleEnd
  <2>1. /\ available' = TRUE /\ startDisabled' = FALSE
        /\ scramble' = "done" /\ scramble = "running" /\ UNCHANGED sessionVars
      BY <1>4, Zenon DEF ScrambleEnd
  <2>2. shown' = shown /\ shown.status = "ready"
      BY <2>1, SessionEffects DEF Ordered
  <2> QED
      BY <2>1, <2>2
<1>5. CASE SettleTurn \/ Announce
  <2>1. UNCHANGED <<buttonVars, scramble>>
      BY <1>5, Zenon DEF SettleTurn, Announce
  <2>2. shown' = shown
      BY <1>5, SessionEffects DEF SettleTurn, Announce
  <2> QED
      BY <1>1, <2>1, <2>2, Zenon DEF buttonVars
<1>6. CASE StartClick
  <2>1. startDisabled' = TRUE /\ UNCHANGED <<available, scramble>>
      BY <1>6, Zenon DEF StartClick
  <2> QED
      BY <2>1, Zenon
<1>7. ASSUME Render, UNCHANGED <<available, scramble>>
      PROVE  ButtonTypeOK'
  <2>1. /\ startDisabled' \in BOOLEAN
        /\ ~startDisabled' => available /\ shown'.status # "measuring"
      BY <1>7, Zenon DEF Render
  <2> QED
      BY <1>7, <2>1, Zenon
<1>8. CASE ResetClick
    BY <1>7, <1>8, Zenon DEF ResetClick, inputVars
<1>9. ASSUME NEW g \in Session, StartReturns(g) \/ SessionWorks(g)
      PROVE  ButtonTypeOK'
  <2>1. UNCHANGED <<available, scramble>>
      BY <1>9, Zenon DEF StartReturns, SessionWorks, inputVars
  <2>2. Render \/ (shown' = shown /\ UNCHANGED startDisabled)
    <3>1. CASE StartReturns(g)
        BY <3>1, Zenon DEF StartReturns, Open, OpenFails
    <3>2. CASE SessionWorks(g)
        BY <3>2, Zenon DEF SessionWorks, RunDropped, RunRecord, AppendDone, AppendFails
    <3> QED
        BY <1>9, <3>1, <3>2
  <2> QED
      BY <1>1, <1>7, <2>1, <2>2, Zenon
<1> QED
    BY <1>2, <1>3, <1>4, <1>5, <1>6, <1>8, <1>9 DEF PageNext

\* What the pointer and the scramble may do to one another.
LEMMA OrderedStep ==
    ASSUME PageInv, [PageNext]_pageVars
    PROVE  Ordered'
<1> USE DEF Ordered, PageInv
<1>0. opening # {} \/ generation # 0 \/ ~startDisabled \/ shown.status # "ready" => scramble = "done"
    BY DEF ButtonTypeOK
<1>1. ASSUME generation' = generation, opening' = opening, shown' = shown,
             UNCHANGED <<enabled, scramble, twistsLeft>>, settling' # "nothing" => drag' = "none"
      PROVE  Ordered'
    BY <1>1
<1>2. CASE PointerDown \/ PointerMove \/ PointerCancel \/ SettleBack
  <2>1. UNCHANGED sessionVars /\ UNCHANGED <<enabled, scramble, twistsLeft>>
      BY <1>2, Zenon DEF PointerDown, PointerMove, PointerCancel, SettleBack
  <2>2. settling' # "nothing" => drag' = "none"
      BY <1>2 DEF PointerDown, PointerMove, PointerCancel, SettleBack
  <2> QED
      BY <1>1, <2>1, <2>2, SessionEffects
<1>3. CASE PointerUp
  <2>1. UNCHANGED sessionVars /\ UNCHANGED <<enabled, scramble, twistsLeft>> /\ drag' = "none"
      BY <1>3, Zenon DEF PointerUp
  <2> QED
      BY <1>1, <2>1, SessionEffects
<1>4. CASE ScrambleBegin \/ ScrambleTwist
  <2>1. UNCHANGED <<sessionVars, drag, settling>>
      BY <1>4, Zenon DEF ScrambleBegin, ScrambleTwist
  <2>2. scramble # "done" /\ scramble' = "running" /\ ~enabled'
      BY <1>4 DEF ScrambleBegin, ScrambleTwist, InputTypeOK
  <2> QED
      BY <2>1, <2>2, SessionEffects
<1>5. CASE ScrambleEnd
    BY <1>5 DEF ScrambleEnd
<1>6. CASE SettleTurn \/ Announce
  <2>1. UNCHANGED <<enabled, drag, scramble, twistsLeft>> /\ settling # "nothing"
      BY <1>6, Zenon DEF SettleTurn, Announce
  <2>2. generation' = generation /\ opening' = opening /\ shown' = shown
      BY <1>6, SessionEffects DEF SettleTurn, Announce
  <2> QED
      BY <1>1, <2>1, <2>2
<1>7. CASE StartClick \/ ResetClick
  <2>1. scramble = "done"
      BY <1>0, <1>7 DEF StartClick, ResetClick
  <2>2. UNCHANGED <<scramble, drag, settling>>
      BY <1>7, Zenon DEF StartClick, ResetClick, inputVars
  <2> QED
      BY <2>1, <2>2
<1>8. ASSUME NEW g \in Session, StartReturns(g) \/ SessionWorks(g)
      PROVE  Ordered'
  <2>1. UNCHANGED <<scramble, drag, settling, twistsLeft>>
      BY <1>8, Zenon DEF StartReturns, SessionWorks, inputVars
  <2>2. CASE scramble = "done"
      BY <2>1, <2>2
  <2>3. CASE scramble # "done"
    <3>1. generation = 0 /\ opening = {} /\ g # 0
        BY <2>3, SessionAssumption DEF Session
    <3>2. generation' = generation /\ opening' = opening /\ shown' = shown
        BY <1>8, <3>1, WorksSession, SessionEffects
    <3>3. enabled' = enabled
        BY <1>8, <3>1, Zenon DEF StartReturns, SessionWorks, inputVars, Open, OpenFails, Ready
    <3> QED
        BY <1>1, <2>1, <3>2, <3>3
  <2> QED
      BY <2>2, <2>3
<1>9. CASE UNCHANGED pageVars
  <2>1. UNCHANGED sessionVars /\ UNCHANGED <<enabled, scramble, twistsLeft, drag, settling>>
      BY <1>9, Zenon DEF pageVars, inputVars
  <2> QED
      BY <1>1, <2>1, SessionEffects
<1> QED
    BY <1>2, <1>3, <1>4, <1>5, <1>6, <1>7, <1>8, <1>9 DEF PageNext

LEMMA PageInvariant == PageSpec => []PageInv
<1>1. PageInit => PageInv
  <2> SUFFICES ASSUME PageInit PROVE PageInv
      OBVIOUS
  <2>1. SessionTypeOK
    <3>1. CoreTypeOK
        BY SessionAssumption DEF PageInit, SessionInit, CoreTypeOK
    <3>2. QueueTypeOK
        BY BlankIsShown DEF PageInit, SessionInit, QueueTypeOK
    <3> QED
        BY <3>1, <3>2, Zenon DEF SessionTypeOK, PageInit, SessionInit
  <2>2. InputTypeOK
      BY PageAssumption DEF PageInit, InputTypeOK
  <2>3. ButtonTypeOK
      BY DEF PageInit, ButtonTypeOK
  <2>4. CubeTypeOK
      BY SessionAssumption DEF PageInit, CubeTypeOK
  <2>5. GhostTypeOK
      BY SessionAssumption DEF PageInit, SessionInit, GhostTypeOK
  <2>6. Ordered
      BY DEF PageInit, SessionInit, Ordered, Blank
  <2> QED
      BY <2>1, <2>2, <2>3, <2>4, <2>5, <2>6, Zenon DEF PageInv
<1>2. SessionTypeOK' /\ PageInv /\ [PageNext]_pageVars => PageInv'
    BY InputStep, ButtonStep, CubeGhostStep, OrderedStep, Zenon DEF PageInv
<1> QED
    BY <1>1, <1>2, PageRunsSession, SessionTypeCorrect, PTL DEF PageSpec

\* The page's variables have their types; Start is offered only after the
\* scramble, and never over a session that measures.
THEOREM PageTypeCorrect == PageSpec => []PageTypeOK
    BY PageInvariant, PageInvType, PTL

----------------------------------------------------------------------------
(* Turns and records *)

\* Only a turn that has settled is recorded.
LEMMA MovesUnchanged ==
    ASSUME [PageNext]_pageVars, ~SettleTurn
    PROVE  moves' = moves
<1>1. UNCHANGED sessionVars => moves' = moves
    BY DEF sessionVars, history
<1>2. Start \/ Reset \/ Solve => moves' = moves
    BY DEF Start, Reset, Solve, history
<1>3. \A g \in Session : Proceed(g) => moves' = moves
    BY DEF Proceed, Open, OpenFails, RunDropped, RunRecord, RunSolve, AppendDone, AppendFails,
           history
<1>4. CASE Apart \/ UNCHANGED pageVars
    BY <1>1, <1>4, ApartSession, Zenon DEF pageVars
<1>5. CASE Announce \/ StartClick \/ ResetClick
    BY <1>1, <1>2, <1>5, Zenon DEF Announce, StartClick, ResetClick
<1>6. CASE \E g \in Session : StartReturns(g) \/ SessionWorks(g)
    BY <1>3, <1>6, WorksSession, Zenon
<1> QED
    BY <1>4, <1>5, <1>6, Zenon DEF PageNext, Apart

\* Every turn but the one that settles has been recorded, in order.
THEOREM PageTurnsRecorded == PageSpec => []TurnsRecordedInOrder
<1>1. PageInit => TurnsRecordedInOrder
    BY DEF PageInit, SessionInit, TurnsRecordedInOrder
<1>2. ASSUME PageInv, TurnsRecordedInOrder, [PageNext]_pageVars
      PROVE  TurnsRecordedInOrder'
  <2> USE DEF TurnsRecordedInOrder
  <2>0. moves \in Nat
      BY <1>2 DEF PageInv, SessionTypeOK, QueueTypeOK
  <2>1. CASE SettleTurn
    <3>1. settling = "turn" /\ settling' # "turn" /\ moves' = moves + 1 /\ turned' = turned
        BY <2>1 DEF SettleTurn, Record, cubeVars
    <3> QED
        BY <1>2, <2>0, <3>1
  <2>2. CASE ~SettleTurn
    <3>0. moves' = moves
        BY <1>2, <2>2, MovesUnchanged
    <3>1. CASE PointerUp
      <4>1. settling = "nothing"
          BY <1>2, <3>1 DEF PointerUp, PageInv, Ordered
      <4>2. \/ turned' = turned /\ settling' \in {settling, "back"}
            \/ turned' = turned + 1 /\ settling' = "turn"
          BY <3>1 DEF PointerUp, cubeVars
      <4> QED
          BY <1>2, <2>0, <3>0, <4>1, <4>2
    <3>2. ASSUME turned' = turned, settling' = "turn" <=> settling = "turn"
          PROVE  TurnsRecordedInOrder'
        BY <1>2, <3>0, <3>2
    <3>3. ~PointerUp => turned' = turned
        BY <1>2, <2>2, Zenon DEF PageNext, PointerDown, PointerMove, PointerCancel, SettleBack,
              Announce, ScrambleBegin, ScrambleTwist, ScrambleEnd, Twisted, StartClick, ResetClick,
              StartReturns, SessionWorks, cubeVars, pageVars
    <3>4. ~PointerUp => settling' = settling \/ (settling \in {"back", "announce"} /\ settling' = "nothing")
        BY <1>2, <2>2 DEF PageNext, PointerDown, PointerMove, PointerCancel, SettleBack,
              Announce, ScrambleBegin, ScrambleTwist, ScrambleEnd, StartClick, ResetClick,
              StartReturns, SessionWorks, inputVars, pageVars
    <3> QED
        BY <3>1, <3>2, <3>3, <3>4
  <2> QED
      BY <2>1, <2>2
<1> QED
    BY <1>1, <1>2, PageInvariant, PTL DEF PageSpec

\* While the scramble runs no drag begins and no session is started, whatever
\* the visitor clicks.  A drag begun before it is not excluded.
THEOREM PageScrambleUndisturbed == PageSpec => ScrambleUndisturbed
<1>1. ASSUME PageInv, [PageNext]_pageVars, scramble = "running"
      PROVE  ~((drag = "none" /\ drag' = "down") \/ opening' \ opening # {})
  <2>1. ~enabled /\ startDisabled
      BY <1>1 DEF PageInv, Ordered, ButtonTypeOK
  <2>2. ~PointerDown /\ ~StartClick
      BY <2>1 DEF PointerDown, StartClick
  <2>3. ~(drag = "none" /\ drag' = "down")
      BY <1>1, <2>2 DEF PageNext, PointerMove, PointerCancel, PointerUp, SettleBack, SettleTurn,
              Announce, ScrambleBegin, ScrambleTwist, ScrambleEnd, ResetClick,
              StartReturns, SessionWorks, inputVars, pageVars
  <2>4. opening' \subseteq opening
    <3>1. CASE Apart \/ UNCHANGED pageVars
        BY <3>1, ApartSession, SessionEffects DEF pageVars
    <3>2. CASE SettleTurn \/ Announce \/ ResetClick
        BY <3>2, SessionEffects DEF SettleTurn, Announce, ResetClick
    <3>3. CASE \E g \in Session : StartReturns(g) \/ SessionWorks(g)
        BY <3>3, WorksSession, SessionEffects
    <3> QED
        BY <1>1, <2>2, <3>1, <3>2, <3>3 DEF PageNext, Apart
  <2> QED
      BY <2>3, <2>4
<1>2. PageInv /\ [PageNext]_pageVars =>
        [(drag = "none" /\ drag' = "down") \/ opening' \ opening # {}
            => scramble # "running"]_pageVars
    BY <1>1
<1> QED
    BY <1>2, PageInvariant, PTL DEF PageSpec, ScrambleUndisturbed

----------------------------------------------------------------------------
(* The solving turn *)

\* The listener of the solved event finds the turn that raised it at the end of
\* what the session was asked, so solve() waits behind that turn.
SolvingIsLast ==
    /\ settling = "announce" =>
          /\ moves \in solving
          /\ active => /\ Len(asked[generation]) > 0
                       /\ asked[generation][Len(asked[generation])] = moves
    /\ active /\ solveCall[generation] # Null =>
          /\ solveCall[generation] \in 1..Len(asked[generation])
          /\ asked[generation][solveCall[generation]] \in solving

\* A step that neither records nor announces leaves all this alone, or ends it.
LEMMA SolvingIsLastApart ==
    ASSUME SolvingIsLast, SessionInv, [PageNext]_pageVars, ~SettleTurn, ~Announce
    PROVE  SolvingIsLast'
<1>0. moves' = moves
    BY MovesUnchanged
<1>1. solving' = solving /\ (settling' = "announce" => settling = "announce")
  <2>1. solving' = solving
      BY Zenon DEF PageNext, PointerDown, PointerMove, PointerCancel, PointerUp, SettleBack,
             ScrambleBegin, ScrambleTwist, ScrambleEnd, StartClick, ResetClick,
             StartReturns, SessionWorks, ghostVars, pageVars
  <2>2. settling' = "announce" => settling = "announce"
      BY DEF PageNext, PointerDown, PointerMove, PointerCancel, PointerUp, SettleBack,
             ScrambleBegin, ScrambleTwist, ScrambleEnd, StartClick, ResetClick,
             StartReturns, SessionWorks, inputVars, pageVars
  <2> QED
      BY <2>1, <2>2
<1>2. ASSUME generation' = generation, active' => active, asked' = asked, solveCall' = solveCall
      PROVE  SolvingIsLast'
    BY <1>0, <1>1, <1>2 DEF SolvingIsLast
<1>3. CASE Apart \/ UNCHANGED pageVars
    BY <1>2, <1>3, ApartSession, CoreUnchanged DEF pageVars, sessionVars, history
<1>4. CASE StartClick \/ ResetClick
  <2>1. ~active' /\ settling # "announce"
      BY <1>4 DEF StartClick, ResetClick, Start, Reset, NoEvent
  <2> QED
      BY <1>1, <2>1 DEF SolvingIsLast
<1>5. ASSUME NEW g \in Session, StartReturns(g) \/ SessionWorks(g)
      PROVE  SolvingIsLast'
  <2>1. Proceed(g) /\ settling # "announce"
      BY <1>5, WorksSession DEF StartReturns, SessionWorks, NoEvent
  <2>2. generation' = generation /\ asked' = asked /\ solveCall' = solveCall
      BY <2>1, SessionEffects DEF Proceed, Open, OpenFails, RunDropped, RunRecord, RunSolve,
                                  AppendDone, AppendFails, history
  <2>3. CASE Open(g) /\ g = generation
    <3>1. solveCall[g] = Null
        BY <2>3 DEF Open, Ready, SessionInv, Unasked
    <3> QED
        BY <1>1, <2>1, <2>2, <2>3, <3>1 DEF SolvingIsLast
  <2>4. CASE ~(Open(g) /\ g = generation)
    <3>1. active' = active \/ active' = FALSE
        BY <2>1, <2>4, Zenon DEF Proceed, Open, OpenFails, RunDropped, RunRecord, RunSolve,
                                 AppendDone, AppendFails, core
    <3>2. active' => active
        BY <3>1, Zenon
    <3> QED
        BY <1>2, <2>2, <3>2
  <2> QED
      BY <2>3, <2>4
<1> QED
    BY <1>3, <1>4, <1>5 DEF PageNext, Apart

LEMMA SolvingIsLastStep ==
    ASSUME SolvingIsLast, SessionInv, [PageNext]_pageVars
    PROVE  SolvingIsLast'
<1>0. /\ SessionTypeOK /\ DigestIsOwn
      /\ active => generation \in Session
    BY DEF SessionInv, DigestIsOwn, SessionTypeOK, CoreTypeOK
<1>1. CASE SettleTurn
  <2>1. /\ generation' = generation /\ (active' <=> active) /\ solveCall' = solveCall
        /\ moves' = moves + 1
      BY <1>1, CoreUnchanged DEF SettleTurn, Record
  <2>2. /\ solving \subseteq solving'
        /\ settling' = "announce" => moves' \in solving'
      BY <1>1 DEF SettleTurn
  <2>3. ASSUME active, NEW g \in Session, g = generation
        PROVE  /\ asked'[g] = Append(asked[g], moves') /\ asked[g] \in Seq(Nat)
               /\ moves' \in Nat /\ solveCall[g] \in Nat \cup {Null}
    <3>1. asked' = [asked EXCEPT ![g] = Append(@, moves')]
        BY <1>1, <2>3 DEF SettleTurn, Record
    <3> QED
        BY <1>0, <2>1, <2>3, <3>1 DEF SessionTypeOK, QueueTypeOK
  <2>4. ASSUME active, NEW g \in Session, g = generation
        PROVE  /\ Len(asked'[g]) = Len(asked[g]) + 1 /\ asked'[g][Len(asked[g]) + 1] = moves'
               /\ \A i \in 1..Len(asked[g]) : asked'[g][i] = asked[g][i]
               /\ Len(asked[g]) \in Nat
      BY <2>3, <2>4
  <2>5. settling' = "announce" =>
          /\ moves' \in solving'
          /\ active => /\ Len(asked'[generation]) > 0
                       /\ asked'[generation][Len(asked'[generation])] = moves'
      BY <1>0, <2>2, <2>4
  <2>6. active /\ solveCall[generation] # Null =>
          /\ solveCall[generation] \in 1..Len(asked'[generation])
          /\ asked'[generation][solveCall[generation]] \in solving'
      BY <1>0, <2>2, <2>4 DEF SolvingIsLast
  <2> QED
      BY <2>1, <2>5, <2>6 DEF SolvingIsLast
<1>2. CASE Announce
  <2>1. settling = "announce" /\ settling' = "nothing" /\ solving' = solving
      BY <1>2 DEF Announce, ghostVars
  <2>2. CASE active /\ solveCall[generation] = Null
    <3>1. Solve
        BY <1>2, <2>2 DEF Announce
    <3>2. generation' = generation /\ asked' = asked
        BY <3>1, SessionEffects DEF Solve
    <3>3. solveCall'[generation] = Len(asked[generation])
        BY <1>0, <2>2, <3>1 DEF Solve, SessionTypeOK, QueueTypeOK
    <3>4. asked[generation] \in Seq(Nat)
        BY <1>0, <2>2 DEF SessionTypeOK, QueueTypeOK
    <3>5. Len(asked[generation]) \in 1..Len(asked[generation])
        BY <2>1, <2>2, <3>4 DEF SolvingIsLast
    <3>6. asked[generation][Len(asked[generation])] \in solving
        BY <2>1, <2>2 DEF SolvingIsLast
    <3> QED
        BY <2>1, <3>2, <3>3, <3>5, <3>6 DEF SolvingIsLast
  <2>3. CASE ~(active /\ solveCall[generation] = Null)
    <3>1. UNCHANGED sessionVars
        BY <1>2, <2>3, Zenon DEF Announce
    <3>2. generation' = generation /\ (active' <=> active) /\ asked' = asked /\ solveCall' = solveCall
        BY <3>1, CoreUnchanged DEF sessionVars, history
    <3> QED
        BY <2>1, <3>2 DEF SolvingIsLast
  <2> QED
      BY <2>2, <2>3
<1> QED
    BY <1>1, <1>2, SolvingIsLastApart

LEMMA PageSessionInv ==
    ASSUME InOrder
    PROVE  PageSpec => []SessionInv
    BY PageRunsSession, SessionInvariant, PTL

\* A session shown as solved ends with the turn that solved the cube.
THEOREM PageSolvedEndsWithSolvingTurn ==
    ASSUME InOrder
    PROVE  PageSpec => []SolvedEndsWithSolvingTurn
<1>1. PageInit => SolvingIsLast /\ SolvedEndsWithSolvingTurn
    BY DEF PageInit, SessionInit, SolvingIsLast, SolvedEndsWithSolvingTurn, Blank
<1>2. ASSUME SolvingIsLast, SessionInv, SolvedEndsWithSolvingTurn, [PageNext]_pageVars
      PROVE  SolvedEndsWithSolvingTurn'
  <2> USE DEF SolvedEndsWithSolvingTurn
  <2>0. /\ SessionTypeOK /\ PageIsCurrent /\ Pending
        /\ solving \subseteq solving'
    <3>1. solving' = solving \/ solving' = solving \cup {moves'}
        BY <1>2 DEF PageNext, PointerDown, PointerMove, PointerCancel, PointerUp, SettleBack,
               SettleTurn, Announce, ScrambleBegin, ScrambleTwist, ScrambleEnd, StartClick,
               ResetClick, StartReturns, SessionWorks, ghostVars, pageVars
    <3> QED
        BY <1>2, <3>1 DEF SessionInv
  <2>1. CASE shown' = shown
      BY <1>2, <2>0, <2>1
  <2>2. CASE shown'.status # "solved"
      BY <2>2
  <2>3. ASSUME NEW g \in Session, RunSolve(g)
        PROVE  SolvedEndsWithSolvingTurn'
    <3>1. /\ solveCall[g] \in Nat /\ Len(chain[g]) = solveCall[g]
          /\ shown.salt = g /\ shown.recs = chain[g]
        BY <2>0, <2>3, SolvedInTurn
    <3>2. active /\ g = generation /\ shown'.recs = chain[g]
        BY <2>3, <3>1 DEF RunSolve, Republished
    <3>3. solveCall[g] \in 1..Len(asked[g]) /\ asked[g][solveCall[g]] \in solving
        BY <1>2, <3>1, <3>2, SessionAssumption DEF SolvingIsLast
    <3>4. InLine(g)
        BY <2>0, <3>2 DEF Pending
    <3>5. Len(chain[g]) \in 1..Len(chain[g])
        BY <3>1, <3>3
    <3>6. chain[g][Len(chain[g])].at = asked[g][Len(chain[g])]
        BY <3>4, <3>5 DEF InLine
    <3>7. chain[g] # <<>>
        BY <3>1, <3>3
    <3> QED
        BY <2>0, <3>1, <3>2, <3>3, <3>6, <3>7
  <2>4. ASSUME NEW g \in Session, Proceed(g), ~RunSolve(g)
        PROVE  shown' = shown \/ shown'.status # "solved"
    <3>1. AppendDone(g) /\ g = generation => shown.status = "measuring"
        BY <2>0 DEF AppendDone, PageIsCurrent, Pending
    <3> QED
        BY <2>4, <3>1 DEF Proceed, Open, OpenFails, RunDropped, RunRecord, AppendDone, AppendFails,
                          Blank, Republished
  <2>5. CASE Apart \/ SettleTurn \/ Announce \/ StartClick \/ UNCHANGED pageVars
      BY <2>1, <2>5, ApartSession, SessionEffects
         DEF SettleTurn, Announce, StartClick, pageVars
  <2>6. CASE ResetClick
      BY <2>2, <2>6 DEF ResetClick, Reset, Blank
  <2>7. CASE \E g \in Session : StartReturns(g) \/ SessionWorks(g)
      BY <2>1, <2>2, <2>3, <2>4, <2>7, WorksSession
  <2> QED
      BY <1>2, <2>5, <2>6, <2>7 DEF PageNext, Apart
<1> QED
    BY <1>1, <1>2, SolvingIsLastStep, PageSessionInv, PTL DEF PageSpec

----------------------------------------------------------------------------
(* Replaying a session *)

\* While a session that was started on a still cube waits for its digest, the
\* cube stays still: the pointer is dead until that very start returns.
CalmOpening ==
    generation \in opening /\ generation \notin hasty =>
        /\ opening = {generation}
        /\ ~enabled
        /\ drag = "none" /\ settling = "nothing"
        /\ moves = initial[generation]

LEMMA PageNumbers ==
    ASSUME PageInv
    PROVE  /\ generation \in Nat /\ generation \in 0..MaxGeneration /\ MaxGeneration \in Nat
           /\ moves \in Nat /\ turned \in Nat
           /\ opening \subseteq 1..generation
           /\ initial \in [Session -> 0..turned] /\ asked \in [Session -> Seq(Nat)]
<1>1. generation \in 0..MaxGeneration /\ opening \subseteq 1..generation
    BY DEF PageInv, SessionTypeOK, CoreTypeOK
<1>2. moves \in Nat /\ asked \in [Session -> Seq(Nat)]
    BY DEF PageInv, SessionTypeOK, QueueTypeOK
<1>3. turned \in 0..MaxMoves
    BY DEF PageInv, CubeTypeOK
<1>4. generation \in Nat /\ turned \in Nat /\ MaxGeneration \in Nat
    BY <1>1, <1>3, SessionAssumption
<1>5. initial \in [Session -> 0..turned]
    BY DEF PageInv, GhostTypeOK
<1> QED
    BY <1>1, <1>2, <1>4, <1>5

\* The session a button makes is one of those the model allows.
LEMMA NextSession ==
    ASSUME PageInv, StartClick \/ ResetClick
    PROVE  generation + 1 \in Session /\ generation' = generation + 1
<1>1. generation < MaxGeneration /\ generation' = generation + 1
    BY DEF StartClick, ResetClick, Start, Reset
<1> QED
    BY <1>1, PageNumbers DEF Session

\* Sessions come with the buttons only.
LEMMA CalmUntouched ==
    ASSUME [PageNext]_pageVars, ~StartClick, ~ResetClick
    PROVE  generation' = generation /\ hasty' = hasty
<1>1. CASE Apart \/ UNCHANGED pageVars
  <2>1. UNCHANGED sessionVars
      BY <1>1, ApartSession, Zenon DEF pageVars
  <2>2. hasty' = hasty
      BY <1>1, Zenon DEF Apart, PointerDown, PointerMove, PointerCancel, PointerUp, SettleBack,
            ScrambleBegin, ScrambleTwist, ScrambleEnd, ghostVars, pageVars
  <2> QED
      BY <2>1, <2>2, SessionEffects
<1>2. CASE SettleTurn \/ Announce
    BY <1>2, SessionEffects DEF SettleTurn, Announce, ghostVars
<1>3. CASE \E g \in Session : StartReturns(g) \/ SessionWorks(g)
    BY <1>3, WorksSession, SessionEffects DEF StartReturns, SessionWorks, ghostVars
<1> QED
    BY <1>1, <1>2, <1>3 DEF PageNext, Apart

\* What the input does while such a session opens.
LEMMA CalmOpeningStep ==
    ASSUME PageInv, PageInv', TurnsRecordedInOrder, CalmOpening, [PageNext]_pageVars
    PROVE  CalmOpening'
<1>0. /\ opening \subseteq 1..generation /\ generation \in Nat /\ turned \in Nat /\ moves \in Nat
      /\ initial \in [Session -> 0..turned]
    BY PageNumbers
<1>1. CASE StartClick
  <2>1. /\ generation' = generation + 1 /\ generation + 1 \in Session
        /\ opening' = opening \cup {generation + 1} /\ moves' = moves
        /\ enabled' = FALSE /\ UNCHANGED <<drag, settling>>
        /\ initial' = [initial EXCEPT ![generation + 1] = turned]
        /\ drag # "none" \/ settling # "nothing" \/ opening # {} => generation + 1 \in hasty'
    <3>1. generation' = generation + 1 /\ generation + 1 \in Session
        BY <1>1, NextSession
    <3>2. /\ Start /\ enabled' = FALSE /\ UNCHANGED <<drag, settling>>
          /\ initial' = [initial EXCEPT ![generation'] = turned]
          /\ hasty' = IF drag # "none" \/ settling # "nothing" \/ opening # {}
                        THEN hasty \cup {generation'} ELSE hasty
        BY <1>1 DEF StartClick
    <3>3. opening' = opening \cup {generation + 1} /\ moves' = moves
        BY <3>2 DEF Start, history
    <3> QED
        BY <3>1, <3>2, <3>3
  <2>2. ASSUME generation + 1 \notin hasty'
        PROVE  /\ opening' = {generation + 1} /\ drag' = "none" /\ settling' = "nothing"
               /\ moves' = initial'[generation + 1]
    <3>1. drag = "none" /\ settling = "nothing" /\ opening = {}
        BY <2>1, <2>2
    <3>2. turned = moves
        BY <1>0, <3>1 DEF TurnsRecordedInOrder
    <3> QED
        BY <1>0, <2>1, <3>1, <3>2
  <2> QED
      BY <2>1, <2>2 DEF CalmOpening
<1>2. CASE ResetClick
  <2>1. generation' = generation + 1 /\ opening' = opening
      BY <1>2, SessionEffects DEF ResetClick
  <2>2. generation + 1 \notin opening
      BY <1>0
  <2> QED
      BY <2>1, <2>2 DEF CalmOpening
<1>3. CASE generation' = generation /\ hasty' = hasty
  <2> SUFFICES ASSUME generation \in opening', generation \notin hasty, opening' \subseteq opening
               PROVE  CalmOpening'
    <3>1. opening' \subseteq opening
      <4>1. CASE Apart \/ UNCHANGED pageVars
          BY <4>1, ApartSession, SessionEffects DEF pageVars
      <4>2. CASE SettleTurn \/ Announce
          BY <4>2, SessionEffects DEF SettleTurn, Announce
      <4>3. CASE \E g \in Session : StartReturns(g) \/ SessionWorks(g)
          BY <4>3, WorksSession, SessionEffects
      <4>4. ~StartClick /\ ~ResetClick
          BY <1>0, <1>3, SessionEffects DEF StartClick, ResetClick
      <4> QED
          BY <4>1, <4>2, <4>3, <4>4 DEF PageNext, Apart
    <3> QED
        BY <1>3, <3>1 DEF CalmOpening
  <2>1. /\ opening = {generation} /\ opening' = {generation}
        /\ ~enabled /\ drag = "none" /\ settling = "nothing" /\ moves = initial[generation]
      BY DEF CalmOpening
  <2>2. scramble = "done"
      BY <2>1 DEF PageInv, Ordered
  <2>3. ASSUME ~enabled', UNCHANGED <<drag, settling, moves, initial>>
        PROVE  CalmOpening'
      BY <1>3, <2>1, <2>3 DEF CalmOpening
  <2>4. ~SettleTurn
      BY <2>1 DEF SettleTurn
  <2>5. moves' = moves
      BY <2>4, MovesUnchanged
  <2>6. ~PointerDown /\ ~PointerMove /\ ~PointerCancel /\ ~PointerUp /\ ~SettleBack /\ ~Announce
        /\ ~ScrambleBegin /\ ~ScrambleTwist /\ ~ScrambleEnd
      BY <2>1, <2>2 DEF PointerDown, PointerMove, PointerCancel, PointerUp, SettleBack, Announce,
                        ScrambleBegin, ScrambleTwist, ScrambleEnd
  <2>7. ~StartClick /\ ~ResetClick
      BY <1>0, <1>3, SessionEffects DEF StartClick, ResetClick
  <2>8. ASSUME NEW g \in Session, SessionWorks(g)
        PROVE  CalmOpening'
    <3>1. UNCHANGED <<enabled, drag, settling, initial>>
        BY <2>8, Zenon DEF SessionWorks, inputVars, ghostVars
    <3> QED
        BY <2>1, <2>3, <2>5, <3>1
  <2>9. \A g \in Session : ~StartReturns(g)
    <3> SUFFICES ASSUME NEW g \in Session, StartReturns(g) PROVE FALSE
        OBVIOUS
    <3>1. g \in opening /\ opening' = opening \ {g}
        BY DEF StartReturns, Open, OpenFails, Ready
    <3> QED
        BY <2>1, <3>1
  <2>10. CASE UNCHANGED pageVars
    <3>1. UNCHANGED <<enabled, drag, settling, initial>>
        BY <2>10, Zenon DEF pageVars, inputVars, ghostVars
    <3> QED
        BY <2>1, <2>3, <2>5, <3>1
  <2> QED
      BY <2>4, <2>6, <2>7, <2>8, <2>9, <2>10 DEF PageNext
<1>4. ~StartClick /\ ~ResetClick => generation' = generation /\ hasty' = hasty
    BY CalmUntouched
<1> QED
    BY <1>1, <1>2, <1>3, <1>4

\* What was asked of a session, and what the cube was like when it was started,
\* is left alone by every step but its start and the records it accepts.
LEMMA AskedStep ==
    ASSUME SessionInv, PageInv, [PageNext]_pageVars, NEW g \in Session, g <= generation
    PROVE  /\ initial'[g] = initial[g]
           /\ \/ asked'[g] = asked[g]
              \/ /\ SettleTurn /\ active /\ g = generation
                 /\ asked'[g] = Append(asked[g], moves')
<1>0. /\ generation \in Nat /\ g \in Nat
      /\ initial \in [Session -> 0..turned] /\ asked \in [Session -> Seq(Nat)]
    BY DEF PageInv, SessionTypeOK, CoreTypeOK, QueueTypeOK, GhostTypeOK, Session
<1>1. CASE Apart \/ UNCHANGED pageVars
  <2>1. UNCHANGED sessionVars
      BY <1>1, ApartSession, Zenon DEF pageVars
  <2>2. initial' = initial
      BY <1>1, Zenon DEF Apart, PointerDown, PointerMove, PointerCancel, PointerUp, SettleBack,
              ScrambleBegin, ScrambleTwist, ScrambleEnd, ghostVars, pageVars
  <2> QED
      BY <2>1, <2>2 DEF sessionVars, history
<1>2. CASE SettleTurn
  <2>1. initial' = initial /\ Record
      BY <1>2, Zenon DEF SettleTurn
  <2>2. asked' = asked \/ (active /\ asked' = [asked EXCEPT ![generation] = Append(@, moves')])
      BY <2>1 DEF Record
  <2> QED
      BY <1>0, <1>2, <2>1, <2>2
<1>3. CASE Announce
    BY <1>3 DEF Announce, Solve, sessionVars, history, ghostVars
<1>4. CASE StartClick
  <2>1. g # generation + 1 /\ generation' = generation + 1 /\ asked' = asked
        /\ initial' = [initial EXCEPT ![generation + 1] = turned]
      BY <1>0, <1>4, SessionEffects DEF StartClick, Start, history
  <2> QED
      BY <1>0, <2>1
<1>5. CASE ResetClick
    BY <1>5 DEF ResetClick, Reset, history, ghostVars
<1>6. CASE \E h \in Session : StartReturns(h) \/ SessionWorks(h)
  <2>1. PICK h \in Session : StartReturns(h) \/ SessionWorks(h)
      BY <1>6
  <2>2. asked' = asked
      BY <2>1, WorksSession DEF Proceed, Open, OpenFails, RunDropped, RunRecord, RunSolve,
                                AppendDone, AppendFails, history
  <2>3. initial' = initial
      BY <2>1, Zenon DEF StartReturns, SessionWorks, ghostVars
  <2> QED
      BY <2>2, <2>3
<1> QED
    BY <1>1, <1>2, <1>3, <1>4, <1>5, <1>6 DEF PageNext, Apart

\* Which steps let a session accept records.
LEMMA ActiveFrom ==
    ASSUME [PageNext]_pageVars, active', SessionInv
    PROVE  /\ generation' = generation
           /\ hasty' = hasty
           /\ active \/ (generation \in opening /\ ~SettleTurn)
<1>1. CASE Apart \/ UNCHANGED pageVars
  <2>1. UNCHANGED sessionVars
      BY <1>1, ApartSession, Zenon DEF pageVars
  <2>2. hasty' = hasty
      BY <1>1, Zenon DEF Apart, PointerDown, PointerMove, PointerCancel, PointerUp, SettleBack,
              ScrambleBegin, ScrambleTwist, ScrambleEnd, ghostVars, pageVars
  <2> QED
      BY <2>1, <2>2, CoreUnchanged DEF sessionVars
<1>2. CASE SettleTurn \/ Announce
    BY <1>2, CoreUnchanged DEF SettleTurn, Announce, Record, Solve, sessionVars, ghostVars
<1>3. ~StartClick /\ ~ResetClick
    BY DEF StartClick, ResetClick, Start, Reset
<1>4. ASSUME NEW g \in Session, StartReturns(g) \/ SessionWorks(g)
      PROVE  /\ generation' = generation /\ hasty' = hasty
             /\ active \/ (generation \in opening /\ ~SettleTurn)
  <2>1. Proceed(g)
      BY <1>4, WorksSession
  <2>2. generation' = generation
      BY <2>1, SessionEffects
  <2>3. hasty' = hasty
      BY <1>4, Zenon DEF StartReturns, SessionWorks, ghostVars
  <2>4. CASE Open(g) /\ g = generation
    <3>1. generation \in opening /\ opening' # opening
        BY <2>4 DEF Open, Ready
    <3>2. ~SettleTurn
        BY <3>1, SessionEffects DEF SettleTurn
    <3> QED
        BY <2>2, <2>3, <3>1, <3>2
  <2>5. CASE ~(Open(g) /\ g = generation)
    <3>1. active' = active \/ active' = FALSE
        BY <2>1, <2>5, Zenon DEF Proceed, Open, OpenFails, RunDropped, RunRecord, RunSolve,
                                 AppendDone, AppendFails, core
    <3>2. active
        BY <3>1, Zenon
    <3> QED
        BY <2>2, <2>3, <3>2
  <2> QED
      BY <2>4, <2>5
<1> QED
    BY <1>1, <1>2, <1>3, <1>4 DEF PageNext, Apart

\* The transcript of a session that was started on a still cube leads from its
\* initial state to the cube as it is.
THEOREM PageCalmSessionsReplay ==
    ASSUME InOrder
    PROVE  PageSpec => []CalmSessionsReplay
<1>1. PageInit => CalmOpening /\ CalmSessionsReplay
    BY DEF PageInit, SessionInit, CalmOpening, CalmSessionsReplay
<1>2. ASSUME SessionInv, PageInv, PageInv', CalmOpening, CalmSessionsReplay, [PageNext]_pageVars
      PROVE  CalmSessionsReplay'
  <2>0. /\ generation \in Nat /\ moves \in Nat /\ generation <= MaxGeneration
        /\ initial \in [Session -> 0..turned] /\ asked \in [Session -> Seq(Nat)]
        /\ turned \in Nat /\ opening \subseteq 1..generation
    <3>1. generation \in 0..MaxGeneration /\ MaxGeneration \in Nat
        BY <1>2, PageNumbers
    <3>2. generation <= MaxGeneration
        BY <3>1
    <3> QED
        BY <1>2, <3>2, PageNumbers
  <2>1. CASE StartClick \/ ResetClick
    <3>1. /\ generation' = generation + 1 /\ ~active' /\ asked' = asked /\ hasty \subseteq hasty'
          /\ generation + 1 \in Session
      <4>1. generation' = generation + 1 /\ generation + 1 \in Session
          BY <1>2, <2>1, NextSession
      <4>2. ~active' /\ asked' = asked
          BY <2>1 DEF StartClick, ResetClick, Start, Reset, history
      <4>3. hasty \subseteq hasty'
          BY <2>1 DEF StartClick, ResetClick, ghostVars
      <4> QED
          BY <4>1, <4>2, <4>3
    <3>2. asked[generation + 1] = <<>>
        BY <1>2, <2>0, <3>1 DEF SessionInv, Unasked
    <3>3. ASSUME NEW g \in (1..(generation + 1)) \ hasty'
          PROVE  \A i \in 1..Len(asked'[g]) : asked'[g][i] = initial'[g] + i
      <4>1. CASE g = generation + 1
          BY <3>1, <3>2, <4>1
      <4>2. CASE g # generation + 1
        <5>1. g \in (1..generation) \ hasty /\ g \in Session /\ g <= generation
          <6>1. g \in 1..generation /\ g <= generation
              BY <2>0, <3>3, <4>2
          <6>2. g \in Session
              BY <1>2, <6>1, PageNumbers DEF Session
          <6> QED
              BY <3>1, <3>3, <6>1, <6>2
        <5>2. initial'[g] = initial[g]
            BY <1>2, <5>1, AskedStep
        <5> QED
            BY <1>2, <3>1, <5>1, <5>2 DEF CalmSessionsReplay, Replays
      <4> QED
          BY <4>1, <4>2
    <3> QED
        BY <3>1, <3>3 DEF CalmSessionsReplay, Replays
  <2>2. CASE generation' = generation /\ hasty' = hasty
    <3> SUFFICES ASSUME NEW g \in (1..generation) \ hasty
                 PROVE  Replays(g)'
        BY <2>2 DEF CalmSessionsReplay
    <3>0. g \in Session /\ g <= generation /\ g \in Nat
        BY <1>2, PageNumbers DEF Session
    <3>1. /\ initial'[g] = initial[g]
          /\ \/ asked'[g] = asked[g]
             \/ /\ SettleTurn /\ active /\ g = generation
                /\ asked'[g] = Append(asked[g], moves')
        BY <1>2, <3>0, AskedStep
    <3>2. Replays(g) /\ asked[g] \in Seq(Nat) /\ initial[g] \in Nat
        BY <1>2, <2>0, <3>0 DEF CalmSessionsReplay
    <3>3. SettleTurn => moves' = moves + 1
        BY DEF SettleTurn, Record
    <3>4. CASE SettleTurn /\ active /\ g = generation
      <4>1. asked' = [asked EXCEPT ![g] = Append(@, moves')] /\ moves' = moves + 1
          BY <3>3, <3>4 DEF SettleTurn, Record
      <4>2. asked'[g] = Append(asked[g], moves + 1)
          BY <2>0, <3>0, <4>1
      <4>3. /\ Len(asked'[g]) = Len(asked[g]) + 1 /\ Len(asked[g]) \in Nat
            /\ asked'[g][Len(asked[g]) + 1] = moves + 1
            /\ \A i \in 1..Len(asked[g]) : asked'[g][i] = asked[g][i]
          BY <2>0, <3>2, <4>2
      <4>4. moves = initial[g] + Len(asked[g])
          BY <3>2, <3>4 DEF Replays
      <4>5. \A i \in 1..Len(asked'[g]) : asked'[g][i] = initial[g] + i
        <5> TAKE i \in 1..Len(asked'[g])
        <5>1. CASE i = Len(asked[g]) + 1
            BY <2>0, <3>2, <4>3, <4>4, <5>1
        <5>2. CASE i # Len(asked[g]) + 1
          <6>1. i \in 1..Len(asked[g])
              BY <4>3, <5>2
          <6> QED
              BY <3>2, <4>3, <6>1 DEF Replays
        <5> QED
            BY <5>1, <5>2
      <4>6. moves' = initial[g] + Len(asked'[g])
          BY <2>0, <3>2, <4>1, <4>3, <4>4
      <4> QED
          BY <3>1, <4>5, <4>6 DEF Replays
    <3>5. CASE ~(SettleTurn /\ active /\ g = generation)
      <4>1. asked'[g] = asked[g]
          BY <3>1, <3>5
      <4>2. ASSUME active', g = generation
            PROVE  moves' = initial[g] + Len(asked[g])
        <5>1. active \/ (generation \in opening /\ ~SettleTurn)
            BY <1>2, <4>2, ActiveFrom
        <5>2. ~SettleTurn
            BY <3>5, <4>2, <5>1
        <5>3. moves' = moves
            BY <1>2, <5>2, MovesUnchanged
        <5>4. CASE active
            BY <3>2, <4>2, <5>3, <5>4 DEF Replays
        <5>5. CASE generation \in opening
          <6>1. asked[g] = <<>>
              BY <1>2, <3>0, <4>2, <5>5 DEF SessionInv, Unasked
          <6>2. moves = initial[g]
              BY <1>2, <4>2, <5>5 DEF CalmOpening
          <6> QED
              BY <3>2, <5>3, <6>1, <6>2
        <5> QED
            BY <5>1, <5>4, <5>5
      <4> QED
          BY <2>2, <3>1, <3>2, <4>1, <4>2 DEF Replays
    <3> QED
        BY <3>4, <3>5
  <2>3. ASSUME ~StartClick, ~ResetClick
        PROVE  generation' = generation /\ hasty' = hasty
      BY <1>2, <2>3, CalmUntouched
  <2> QED
      BY <2>1, <2>2, <2>3
<1> QED
    BY <1>1, <1>2, CalmOpeningStep, PageInvariant, PageSessionInv, PageTurnsRecorded, PTL DEF PageSpec

----------------------------------------------------------------------------
(* What a dead input and a disabled button wait for *)

\* The pointer is dead only while the scramble runs or a start is under way.
InputAwaited == ~enabled => scramble = "running" \/ opening # {}

\* After the scramble, Start is disabled only over a session that measures or
\* while the latest session opens.
StartAwaited ==
    available /\ startDisabled => shown.status = "measuring" \/ generation \in opening

LEMMA InputAwaitedStep ==
    ASSUME PageInv, InputAwaited, [PageNext]_pageVars
    PROVE  InputAwaited'
<1> USE DEF InputAwaited
<1>1. CASE UNCHANGED <<enabled, scramble, opening>>
    BY <1>1, Zenon
<1>2. CASE PointerDown \/ PointerMove \/ PointerCancel \/ PointerUp \/ SettleBack \/ ScrambleTwist
               \/ UNCHANGED pageVars
  <2>1. UNCHANGED <<sessionVars, enabled, scramble>>
      BY <1>2, Zenon DEF PointerDown, PointerMove, PointerCancel, PointerUp, SettleBack,
                         ScrambleTwist, pageVars, inputVars
  <2> QED
      BY <1>1, <2>1, Zenon DEF sessionVars
<1>3. CASE ScrambleBegin
    BY <1>3, Zenon DEF ScrambleBegin
<1>4. CASE ScrambleEnd
    BY <1>4, Zenon DEF ScrambleEnd
<1>5. CASE SettleTurn \/ Announce
  <2>1. UNCHANGED <<enabled, scramble>>
      BY <1>5, Zenon DEF SettleTurn, Announce
  <2>2. opening' = opening
      BY <1>5, SessionEffects DEF SettleTurn, Announce
  <2> QED
      BY <1>1, <2>1, <2>2, Zenon
<1>6. CASE StartClick
    BY <1>6, SessionEffects DEF StartClick
<1>7. CASE ResetClick
  <2>1. UNCHANGED <<enabled, scramble>>
      BY <1>7, Zenon DEF ResetClick, inputVars
  <2>2. opening' = opening
      BY <1>7, SessionEffects DEF ResetClick
  <2> QED
      BY <1>1, <2>1, <2>2, Zenon
<1>8. ASSUME NEW g \in Session, StartReturns(g)
      PROVE  InputAwaited'
    BY <1>8, Zenon DEF StartReturns
<1>9. ASSUME NEW g \in Session, SessionWorks(g)
      PROVE  InputAwaited'
  <2>1. UNCHANGED <<enabled, scramble>>
      BY <1>9, Zenon DEF SessionWorks, inputVars
  <2>2. opening' = opening
      BY <1>9, Zenon DEF SessionWorks, RunDropped, RunRecord, RunSolve, AppendDone, AppendFails
  <2> QED
      BY <1>1, <2>1, <2>2, Zenon
<1> QED
    BY <1>2, <1>3, <1>4, <1>5, <1>6, <1>7, <1>8, <1>9 DEF PageNext

LEMMA StartAwaitedStep ==
    ASSUME PageInv, StartAwaited, [PageNext]_pageVars
    PROVE  StartAwaited'
<1> USE DEF StartAwaited
<1>1. CASE UNCHANGED <<shown, available, startDisabled, generation, opening>>
    BY <1>1, Zenon
<1>2. CASE PointerDown \/ PointerMove \/ PointerCancel \/ PointerUp \/ SettleBack \/ ScrambleBegin
               \/ ScrambleTwist \/ UNCHANGED pageVars
  <2>1. UNCHANGED <<sessionVars, buttonVars>>
      BY <1>2, Zenon DEF PointerDown, PointerMove, PointerCancel, PointerUp, SettleBack,
                         ScrambleBegin, ScrambleTwist, pageVars
  <2> QED
      BY <1>1, <2>1, Zenon DEF sessionVars, core, buttonVars
<1>3. CASE ScrambleEnd
    BY <1>3, Zenon DEF ScrambleEnd
<1>4. CASE SettleTurn \/ Announce
  <2>1. UNCHANGED buttonVars
      BY <1>4, Zenon DEF SettleTurn, Announce
  <2>2. generation' = generation /\ opening' = opening /\ shown' = shown
      BY <1>4, SessionEffects DEF SettleTurn, Announce
  <2> QED
      BY <1>1, <2>1, <2>2, Zenon DEF buttonVars
\* The session that was just asked for is opening.
<1>5. CASE StartClick
    BY <1>5, SessionEffects DEF StartClick
\* Where the page is rendered, the button follows what is shown.
<1>6. ASSUME Render, UNCHANGED available
      PROVE  StartAwaited'
    BY <1>6, Zenon DEF Render
<1>7. CASE ResetClick
    BY <1>6, <1>7, Zenon DEF ResetClick
<1>8. ASSUME NEW g \in Session, StartReturns(g) \/ SessionWorks(g)
      PROVE  StartAwaited'
  <2>1. UNCHANGED available
      BY <1>8, Zenon DEF StartReturns, SessionWorks
  <2>2. CASE Render
      BY <1>6, <2>1, <2>2
  <2>3. CASE ~Render
    \* A start that was superseded leaves the latest one opening.
    <3>1. CASE StartReturns(g)
      <4>1. g # generation /\ startDisabled' = startDisabled /\ (Open(g) \/ OpenFails(g))
          BY <2>3, <3>1, Zenon DEF StartReturns
      <4>2. opening' = opening \ {g} /\ generation' = generation /\ shown' = shown
          BY <4>1, Zenon DEF Open, OpenFails
      <4>3. generation \in opening => generation \in opening'
          BY <4>1, <4>2
      <4> QED
          BY <2>1, <4>1, <4>2, <4>3, Zenon
    <3>2. CASE SessionWorks(g)
      <4>1. opening' = opening /\ startDisabled' = startDisabled
          BY <2>3, <3>2, Zenon DEF SessionWorks, RunDropped, RunRecord, RunSolve, AppendDone,
                                   AppendFails
      <4>2. generation' = generation
          BY <1>8, WorksSession, SessionEffects
      <4>3. shown' = shown
          BY <2>3, <3>2, Zenon DEF SessionWorks, RunDropped, RunRecord, AppendDone, AppendFails
      <4> QED
          BY <1>1, <2>1, <4>1, <4>2, <4>3, Zenon
    <3> QED
        BY <1>8, <3>1, <3>2
  <2> QED
      BY <2>2, <2>3
<1> QED
    BY <1>2, <1>3, <1>4, <1>5, <1>7, <1>8 DEF PageNext

\* A dead pointer and a disabled Start button always wait for something that is
\* under way: a scramble that runs, a start whose digest is awaited, a session
\* that measures.  No start that fails or is superseded, and no reset, leaves
\* the visitor without both (the finally of onStart(), main.js:25-29).
THEOREM PageNobodyWaits == PageSpec => [](InputAwaited /\ StartAwaited)
<1>1. PageInit => InputAwaited /\ StartAwaited
    BY DEF PageInit, InputAwaited, StartAwaited
<1> QED
    BY <1>1, InputAwaitedStep, StartAwaitedStep, PageInvariant, PTL DEF PageSpec

\* On the page, too, what is shown of the interaction study is what StudySession
\* promises.
THEOREM PageImplementsStudy ==
    ASSUME InOrder
    PROVE  PageSpec => ImplementsStudy
    BY PageRunsSession, SessionImplementsStudy, PTL

=============================================================================
