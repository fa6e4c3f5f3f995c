-------------------------- MODULE EntropyEstimator --------------------------
(***************************************************************************)
(* The novelty heuristic (createEntropyEstimator) and the indicator's      *)
(* announcement of milestones, as two objects that answer whatever calls   *)
(* their owner makes; EntropyMeasurement puts the session in charge of     *)
(* them.  Scores are counted in eighths of a demo bit, in which every      *)
(* contribution is whole after the 50% discount.                           *)
(***************************************************************************)
EXTENDS Integers, FiniteSets

CONSTANTS
    MoveToken,      \* command and signed quarter turns of a layer move
    TimingBin,
    GestureToken,   \* direction sector and speed class
    ESTIMATOR_CAP,  \* 32 demo bits
    Milestone,      \* 4 demo bits
    NoToken         \* null: no token, no bin

ASSUME EstimatorAssumption ==
    /\ ESTIMATOR_CAP \in Nat
    /\ Milestone \in Nat \ {0}
    /\ NoToken \notin MoveToken \cup TimingBin \cup (MoveToken \X MoveToken)

VARIABLES
    score,
    counted,            \* recordCount
    layerMoveCount, orbitCount,
    previousLayerToken,
    seenMoveTokens, seenTransitions, seenTimingBins, seenGestureTokens,
    status,             \* what the session last published
    announcedMilestone, \* of the indicator
    total               \* history: the discounted contributions, uncapped

figures == <<score, counted, layerMoveCount, orbitCount, previousLayerToken,
           seenMoveTokens, seenTransitions, seenTimingBins, seenGestureTokens, total>>
estimatorVars == <<figures, status, announcedMilestone>>

MaxOf(a, b) == IF a > b THEN a ELSE b
MinOf(a, b) == IF a < b THEN a ELSE b

EstimatorInit ==
    /\ score = 0
    /\ counted = 0
    /\ layerMoveCount = 0
    /\ orbitCount = 0
    /\ previousLayerToken = NoToken
    /\ seenMoveTokens = {}
    /\ seenTransitions = {}
    /\ seenTimingBins = {}
    /\ seenGestureTokens = {}
    /\ total = 0
    /\ status = "ready"
    /\ announcedMilestone = 0

\* initialState()
ResetState ==
    /\ score' = 0
    /\ counted' = 0
    /\ layerMoveCount' = 0
    /\ orbitCount' = 0
    /\ previousLayerToken' = NoToken
    /\ seenMoveTokens' = {}
    /\ seenTransitions' = {}
    /\ seenTimingBins' = {}
    /\ seenGestureTokens' = {}
    /\ total' = 0

----------------------------------------------------------------------------
(* render() *)

Floor(s) == (s \div Milestone) * Milestone

\* A milestone above the last one announced is announced; "ready" forgets it,
\* and a session started over a solved one does not render as "ready".
Render ==
    announcedMilestone' =
        IF status' = "ready" THEN 0 ELSE MaxOf(announcedMilestone, Floor(score'))

----------------------------------------------------------------------------
(* add() *)

New(x, seen) == IF x \in seen THEN 0 ELSE 1

With(x, seen) == IF x = NoToken THEN seen ELSE seen \cup {x}

\* A layer move: half a demo bit for each new move token and transition, a
\* quarter for each new timing bin and gesture, all halved.
AddLayer(token, bin, gesture) ==
    LET transition == IF previousLayerToken = NoToken THEN NoToken
                                                   ELSE <<previousLayerToken, token>>
        discounted == 2 * New(token, seenMoveTokens)
                      + 2 * New(transition, seenTransitions \cup {NoToken})
                      + New(bin, seenTimingBins \cup {NoToken})
                      + New(gesture, seenGestureTokens)
    IN  /\ score' = score + MinOf(discounted, ESTIMATOR_CAP - score)
        /\ total' = total + discounted
        /\ counted' = counted + 1
        /\ layerMoveCount' = layerMoveCount + 1
        /\ seenMoveTokens' = seenMoveTokens \cup {token}
        /\ seenTransitions' = With(transition, seenTransitions)
        /\ seenTimingBins' = With(bin, seenTimingBins)
        /\ seenGestureTokens' = seenGestureTokens \cup {gesture}
        /\ previousLayerToken' = token
        /\ UNCHANGED orbitCount

\* Slip: an orbit is counted as a move too.
AddOrbitTwice ==
    /\ counted' = counted + 1
    /\ orbitCount' = orbitCount + 1
    /\ layerMoveCount' = layerMoveCount + 1
    /\ UNCHANGED <<score, previousLayerToken, seenMoveTokens, seenTransitions,
                   seenTimingBins, seenGestureTokens, total>>

\* A whole-cube rotation is counted and earns nothing.
AddOrbit ==
    /\ counted' = counted + 1
    /\ orbitCount' = orbitCount + 1
    /\ UNCHANGED <<score, layerMoveCount, previousLayerToken, seenMoveTokens,
                   seenTransitions, seenTimingBins, seenGestureTokens, total>>

\* A record is added, and the estimate published.
Add ==
    /\ \/ \E token \in MoveToken, bin \in TimingBin \cup {NoToken}, gesture \in GestureToken :
             AddLayer(token, bin, gesture)
       \/ AddOrbit
    /\ UNCHANGED status
    /\ Render

----------------------------------------------------------------------------
(* The session's lifecycle, as far as it reaches the two *)

\* start() resets the estimator; the panel goes on showing the session before.
Restart ==
    /\ ResetState
    /\ UNCHANGED <<status, announcedMilestone>>

\* A session is opened, solved or failed: published with the estimate it has.
Published(s) ==
    /\ status' = s
    /\ UNCHANGED figures
    /\ Render

\* reset(), or a start that failed: published with an empty estimate.
Cleared(s) ==
    /\ status' = s
    /\ ResetState
    /\ Render

EstimatorNext ==
    \/ Add
    \/ Restart
    \/ \E s \in {"measuring", "solved", "error"} : Published(s)
    \/ \E s \in {"ready", "error"} : Cleared(s)

EstimatorSpec == EstimatorInit /\ [][EstimatorNext]_estimatorVars

----------------------------------------------------------------------------
(* Properties *)

\* Every variable has its type, and every record is a layer move or an orbit.
EstimatorTypeOK ==
    /\ score \in 0..ESTIMATOR_CAP
    /\ {layerMoveCount, orbitCount, total, announcedMilestone} \subseteq Nat
    /\ counted = layerMoveCount + orbitCount
    /\ previousLayerToken \in MoveToken \cup {NoToken}
    /\ seenMoveTokens \subseteq MoveToken
    /\ seenTransitions \subseteq MoveToken \X MoveToken
    /\ seenTimingBins \subseteq TimingBin
    /\ seenGestureTokens \subseteq GestureToken
    /\ status \in {"ready", "measuring", "solved", "error"}

Novelty == 2 * Cardinality(seenMoveTokens) + 2 * Cardinality(seenTransitions)
             + Cardinality(seenTimingBins) + Cardinality(seenGestureTokens)

\* The score awarded move by move is the documented min(32, 0.5 * sum) (plan
\* cuber-entropy), and depends on the transcript only through what was seen.
ScoreIsCappedNovelty ==
    /\ total = Novelty
    /\ score = MinOf(total, ESTIMATOR_CAP)

\* The transitions seen link the moves seen, however orbits fall between them:
\* no move but the first is new without a new transition, and there are fewer
\* transitions than moves.
TransitionsLinkMoves ==
    /\ seenTransitions \subseteq seenMoveTokens \X seenMoveTokens
    /\ Cardinality(seenMoveTokens) <= Cardinality(seenTransitions) + 1
    /\ layerMoveCount > 0 => Cardinality(seenTransitions) < layerMoveCount

=============================================================================
