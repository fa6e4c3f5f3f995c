------------------------- MODULE EntropyMeasurement -------------------------
(***************************************************************************)
(* The interaction study as the visitor sees it: the session, the          *)
(* estimator it feeds and the panel it publishes to.  A call that is       *)
(* overtaken while it waits for a digest must leave the estimate alone,    *)
(* and the estimate on the panel must be the one a reader computes from    *)
(* the transcript shown beside it.                                         *)
(***************************************************************************)
EXTENDS EntropySession, EntropyEstimator

CONSTANT Threshold  \* the times between moves at which a timing bin begins

ASSUME MeasurementAssumption ==
    /\ IsFiniteSet(Threshold)
    /\ TimingBin = 0..Cardinality(Threshold)

\* What the page's interaction records of a move, as far as it is scored.
Orbit == [kind |-> "orbit"]
Kind == [kind : {"layer"}, token : MoveToken, gesture : GestureToken] \cup {Orbit}

VARIABLES
    made,       \* history: the kind of every move
    estimate    \* the estimate the panel shows

measurementVars == <<sessionVars, estimatorVars, made, estimate>>

\* What the panel shows of a snapshot() of the estimator.
Snapshot ==
    [score |-> score, moves |-> counted, layers |-> layerMoveCount,
     orbits |-> orbitCount, transitions |-> Cardinality(seenTransitions)]

MeasurementInit ==
    /\ SessionInit
    /\ EstimatorInit
    /\ made = <<>>
    /\ estimate = Snapshot

Unscored == UNCHANGED <<estimatorVars, estimate>>

----------------------------------------------------------------------------
(* The calls of the page *)

MeasuredStart ==
    /\ Start
    /\ Restart
    /\ UNCHANGED <<made, estimate>>

MeasuredRecord ==
    /\ Record
    /\ \E kind \in Kind : made' = Append(made, kind)
    /\ Unscored

MeasuredSolve == Solve /\ Unscored /\ UNCHANGED made

MeasuredReset ==
    /\ Reset
    /\ Cleared("ready")
    /\ estimate' = Snapshot'
    /\ UNCHANGED made

----------------------------------------------------------------------------
(* What the digests' promises bring, for the session that asked last only *)

MeasuredOpen(g) ==
    /\ Open(g)
    /\ IF g = generation
         THEN Published("measuring") /\ estimate' = Snapshot'
         ELSE Unscored
    /\ UNCHANGED made

MeasuredOpenFails(g) ==
    /\ OpenFails(g)
    /\ IF g = generation
         THEN Cleared("error") /\ estimate' = Snapshot'
         ELSE Unscored
    /\ UNCHANGED made

TimingBinFor(elapsed) == Cardinality({t \in Threshold : t <= elapsed})

\* The first record of a session has no timing bin, every later one has.
TimingBinOf(rec) == IF rec.prev = Null THEN NoToken ELSE TimingBinFor(rec.at - rec.prev)

MeasuredRunRecord(g) == RunRecord(g) /\ Unscored /\ UNCHANGED made

\* add(record)
Scored(rec) ==
    LET kind == made[rec.at]
    IN  IF kind = Orbit THEN AddOrbit
                        ELSE AddLayer(kind.token, TimingBinOf(rec), kind.gesture)

\* Slip: the record is scored before the generation is compared again.
MeasuredAppendEarly(g) ==
    /\ AppendDone(g)
    /\ Scored(inflight[g].rec)
    /\ IF g = generation
         THEN UNCHANGED status /\ Render /\ estimate' = Snapshot'
         ELSE UNCHANGED <<status, announcedMilestone, estimate>>
    /\ UNCHANGED made

MeasuredAppend(g) ==
    /\ AppendDone(g)
    /\ IF g = generation
         THEN Scored(inflight[g].rec) /\ UNCHANGED status /\ Render /\ estimate' = Snapshot'
         ELSE Unscored
    /\ UNCHANGED made

\* publish() without an estimate: the panel renders the one it has.
MeasuredAppendFails(g) ==
    /\ AppendFails(g)
    /\ IF g = generation THEN Published("error") ELSE UNCHANGED estimatorVars
    /\ UNCHANGED <<made, estimate>>

MeasuredRunSolve(g) ==
    /\ RunSolve(g)
    /\ Published("solved")
    /\ UNCHANGED <<made, estimate>>

MeasuredRunDropped(g) == RunDropped(g) /\ Unscored /\ UNCHANGED made

Measured(g) ==
    \/ MeasuredOpen(g) \/ MeasuredOpenFails(g)
    \/ MeasuredRunDropped(g) \/ MeasuredRunRecord(g) \/ MeasuredRunSolve(g)
    \/ MeasuredAppend(g) \/ MeasuredAppendFails(g)

MeasurementNext ==
    \/ MeasuredStart \/ MeasuredRecord \/ MeasuredSolve \/ MeasuredReset
    \/ \E g \in Session : Measured(g)

MeasurementSpec == MeasurementInit /\ [][MeasurementNext]_measurementVars

\* As in SessionFairSpec: every digest is finished or rejected.
MeasurementFairSpec ==
    MeasurementSpec /\ \A g \in Session : WF_measurementVars(Measured(g))

----------------------------------------------------------------------------
(* Properties *)

\* Where the layer moves of a transcript are, given the kinds of all moves, and
\* which of them follow one another, whatever whole-cube rotations come between.
LayersOf(kinds, recs) == {i \in 1..Len(recs) : kinds[recs[i].at] # Orbit}

Consecutive(kinds, recs) ==
    {p \in LayersOf(kinds, recs) \X LayersOf(kinds, recs) :
        p[1] < p[2] /\ \A i \in LayersOf(kinds, recs) : i <= p[1] \/ p[2] <= i}

TokensOf(kinds, recs) == {kinds[recs[i].at].token : i \in LayersOf(kinds, recs)}
GesturesOf(kinds, recs) == {kinds[recs[i].at].gesture : i \in LayersOf(kinds, recs)}
BinsOf(kinds, recs) == {TimingBinOf(recs[i]) : i \in LayersOf(kinds, recs)} \ {NoToken}

TransitionsOf(kinds, recs) ==
    {<<kinds[recs[p[1]].at].token, kinds[recs[p[2]].at].token>> : p \in Consecutive(kinds, recs)}

\* The estimate that the documented formula gives for a whole transcript (plan
\* cuber-entropy): nothing in it depends on when a record was added.
EstimateOf(kinds, recs) ==
    LET layers == Cardinality(LayersOf(kinds, recs))
        transitions == Cardinality(TransitionsOf(kinds, recs))
        sum == 2 * Cardinality(TokensOf(kinds, recs)) + 2 * transitions
                 + Cardinality(BinsOf(kinds, recs)) + Cardinality(GesturesOf(kinds, recs))
    IN  [score |-> MinOf(sum, ESTIMATOR_CAP), moves |-> Len(recs), layers |-> layers,
         orbits |-> Len(recs) - layers, transitions |-> transitions]

\* The score and the counts on the panel are those of the transcript whose
\* digest is shown beside them, through restarts, late digests, failures and
\* solves: a reader of the QR code can recompute them.
EstimateOfTranscript == estimate = EstimateOf(made, shown.recs)

\* A session's history reaches the estimator as calls it could get from
\* anyone, so all that is proved of the estimator holds of the study.
FeedsEstimator == EstimatorSpec
=============================================================================
