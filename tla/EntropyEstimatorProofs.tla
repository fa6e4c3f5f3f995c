----------------------- MODULE EntropyEstimatorProofs -----------------------
(***************************************************************************)
(* The panel's figures, proved for any cap, any milestone and any tokens:  *)
(* awarding move by move up to the cap gives the documented closed form,   *)
(* and the transitions seen link the moves seen.  The session's calls are  *)
(* then shown to be calls the estimator allows, so that the interaction    *)
(* study inherits what is proved of both.                                  *)
(***************************************************************************)
EXTENDS EntropyMeasurement, EntropySessionProofs, FiniteSetTheorems, TLAPS

Finite ==
    /\ IsFiniteSet(seenMoveTokens)
    /\ IsFiniteSet(seenTransitions)
    /\ IsFiniteSet(seenTimingBins)
    /\ IsFiniteSet(seenGestureTokens)

\* There is a previous layer token from the first layer move on, and it was seen.
Previous ==
    /\ previousLayerToken = NoToken <=> layerMoveCount = 0
    /\ previousLayerToken = NoToken => seenMoveTokens = {} /\ seenTransitions = {}
    /\ previousLayerToken # NoToken => previousLayerToken \in seenMoveTokens

\* What the transitions theorem needs beyond its own statement.
EstimatorInv == EstimatorTypeOK /\ Finite /\ Previous /\ ScoreIsCappedNovelty /\ TransitionsLinkMoves

\* Adding x to a finite set of what was seen: the set counts it once.
LEMMA SeenOnce ==
    ASSUME NEW S, IsFiniteSet(S), NEW x
    PROVE  /\ IsFiniteSet(S \cup {x})
           /\ Cardinality(S) \in Nat
           /\ Cardinality(S \cup {x}) = Cardinality(S) + New(x, S)
  BY FS_AddElement, FS_CardinalityType DEF New

\* ... and null not at all.
LEMMA SeenOnceOrNull ==
    ASSUME NEW S, IsFiniteSet(S), NEW x
    PROVE  /\ IsFiniteSet(With(x, S))
           /\ Cardinality(S) \in Nat
           /\ Cardinality(With(x, S)) = Cardinality(S) + New(x, S \cup {NoToken})
  BY FS_AddElement, FS_CardinalityType DEF New, With

LEMMA InvInit == EstimatorInit => EstimatorInv
<1> SUFFICES ASSUME EstimatorInit
             PROVE  EstimatorInv
  OBVIOUS
<1>1. IsFiniteSet({}) /\ Cardinality({}) = 0
  BY FS_EmptySet
<1>2. EstimatorTypeOK /\ Finite /\ Previous
  BY <1>1, EstimatorAssumption DEF EstimatorInit, EstimatorTypeOK, Finite, Previous
<1>3. ScoreIsCappedNovelty /\ TransitionsLinkMoves
  BY <1>1, EstimatorAssumption
     DEF EstimatorInit, ScoreIsCappedNovelty, TransitionsLinkMoves, Novelty, MinOf
<1> QED
  BY <1>2, <1>3 DEF EstimatorInv

\* A layer move keeps every figure right.
LEMMA InvAddLayer ==
    ASSUME EstimatorInv, UNCHANGED status, announcedMilestone' \in Nat,
           NEW token \in MoveToken, NEW bin \in TimingBin \cup {NoToken}, NEW gesture \in GestureToken,
           AddLayer(token, bin, gesture)
    PROVE  EstimatorInv'
<1> DEFINE transition == IF previousLayerToken = NoToken THEN NoToken
                                                      ELSE <<previousLayerToken, token>>
           m == New(token, seenMoveTokens)
           t == New(transition, seenTransitions \cup {NoToken})
           b == New(bin, seenTimingBins \cup {NoToken})
           g == New(gesture, seenGestureTokens)
           discounted == 2 * m + 2 * t + b + g
<1>1. /\ seenMoveTokens' = seenMoveTokens \cup {token}
      /\ seenTransitions' = With(transition, seenTransitions)
      /\ seenTimingBins' = With(bin, seenTimingBins)
      /\ seenGestureTokens' = seenGestureTokens \cup {gesture}
      /\ previousLayerToken' = token
      /\ counted' = counted + 1
      /\ layerMoveCount' = layerMoveCount + 1
      /\ orbitCount' = orbitCount
      /\ total' = total + discounted
      /\ score' = score + MinOf(discounted, ESTIMATOR_CAP - score)
  BY DEF AddLayer
<1>2. m \in {0, 1} /\ t \in {0, 1} /\ b \in {0, 1} /\ g \in {0, 1}
  BY DEF New
<1>3. /\ Cardinality(seenMoveTokens) \in Nat
      /\ Cardinality(seenTransitions) \in Nat
      /\ Cardinality(seenTimingBins) \in Nat
      /\ Cardinality(seenGestureTokens) \in Nat
      /\ Cardinality(seenMoveTokens') = Cardinality(seenMoveTokens) + m
      /\ Cardinality(seenTransitions') = Cardinality(seenTransitions) + t
      /\ Cardinality(seenTimingBins') = Cardinality(seenTimingBins) + b
      /\ Cardinality(seenGestureTokens') = Cardinality(seenGestureTokens) + g
      /\ Finite'
  <2>1. Finite
    BY DEF EstimatorInv
  <2> HIDE DEF transition
  <2> QED
    BY <1>1, <2>1, SeenOnce, SeenOnceOrNull DEF Finite
<1> HIDE DEF m, t, b, g
<1>4. ScoreIsCappedNovelty'
  <2>1. /\ total = Novelty /\ score = MinOf(total, ESTIMATOR_CAP)
        /\ score \in 0..ESTIMATOR_CAP /\ total \in Nat /\ ESTIMATOR_CAP \in Nat
    BY EstimatorAssumption DEF EstimatorInv, ScoreIsCappedNovelty, EstimatorTypeOK
  <2>2. discounted \in Nat /\ total' = total + discounted
    BY <1>1, <1>2
  <2>3. total' = Novelty'
    BY <1>2, <1>3, <2>1, <2>2 DEF Novelty
  <2>4. score' = MinOf(total', ESTIMATOR_CAP)
    <3> HIDE DEF discounted
    <3> QED
      BY <1>1, <2>1, <2>2 DEF MinOf
  <2> QED
    BY <2>3, <2>4 DEF ScoreIsCappedNovelty
<1>5. EstimatorTypeOK'
  <2>1. EstimatorTypeOK
    BY DEF EstimatorInv
  <2>2. score' \in 0..ESTIMATOR_CAP /\ total' \in Nat
    <3>1. discounted \in Nat
      BY <1>2
    <3> HIDE DEF discounted
    <3> QED
      BY <1>1, <2>1, <3>1, EstimatorAssumption DEF EstimatorTypeOK, MinOf
  <2>3. /\ layerMoveCount' \in Nat /\ orbitCount' \in Nat
        /\ counted' = layerMoveCount' + orbitCount'
    BY <1>1, <2>1 DEF EstimatorTypeOK
  <2>4. /\ seenMoveTokens' \subseteq MoveToken
        /\ seenTransitions' \subseteq MoveToken \X MoveToken
        /\ seenTimingBins' \subseteq TimingBin
        /\ seenGestureTokens' \subseteq GestureToken
    BY <1>1, <2>1 DEF EstimatorTypeOK, With
  <2> QED
    BY <1>1, <2>1, <2>2, <2>3, <2>4 DEF EstimatorTypeOK
<1>6. Previous'
  BY <1>1, EstimatorAssumption DEF Previous, EstimatorInv, EstimatorTypeOK
<1>7. TransitionsLinkMoves'
  <2>1. /\ TransitionsLinkMoves /\ Previous /\ layerMoveCount \in Nat
        /\ seenMoveTokens \subseteq MoveToken
    BY DEF EstimatorInv, EstimatorTypeOK
  <2>2. seenTransitions' \subseteq seenMoveTokens' \X seenMoveTokens'
    BY <1>1, <2>1 DEF TransitionsLinkMoves, Previous, With
  <2>3. CASE previousLayerToken = NoToken
    <3>1. t = 0
      BY <2>3 DEF t, New
    <3>2. Cardinality(seenMoveTokens) = 0 /\ Cardinality(seenTransitions) = 0
      BY <2>1, <2>3, FS_EmptySet DEF Previous
    <3> QED
      BY <1>1, <1>2, <1>3, <2>1, <2>2, <3>1, <3>2 DEF TransitionsLinkMoves
  <2>4. CASE previousLayerToken # NoToken
    <3>1. m = 1 => t = 1
      <4>1. transition = <<previousLayerToken, token>>
        BY <2>4
      <4>2. transition # NoToken
        BY <2>1, <2>4, <4>1, EstimatorAssumption DEF Previous
      <4>3. token \notin seenMoveTokens => transition \notin seenTransitions
        BY <2>1, <4>1 DEF TransitionsLinkMoves
      <4> QED
        BY <4>2, <4>3 DEF m, t, New
    <3>2. layerMoveCount > 0
      BY <2>1, <2>4 DEF Previous
    <3> QED
      BY <1>1, <1>2, <1>3, <2>1, <2>2, <3>1, <3>2 DEF TransitionsLinkMoves
  <2> QED
    BY <2>3, <2>4
<1> QED
  BY <1>3, <1>4, <1>5, <1>6, <1>7 DEF EstimatorInv

----------------------------------------------------------------------------

\* Rendering keeps natural numbers.
LEMMA RenderType ==
    ASSUME EstimatorTypeOK, score' \in Nat, Render
    PROVE  announcedMilestone' \in Nat
<1>1. Floor(score') \in Nat
  BY EstimatorAssumption DEF Floor
<1> QED
  BY <1>1 DEF Render, MaxOf, EstimatorTypeOK

\* A cleared estimator has every figure right, whatever it was before.
LEMMA InvCleared ==
    ASSUME ResetState, announcedMilestone' \in Nat,
           status' \in {"ready", "measuring", "solved", "error"}
    PROVE  EstimatorInv'
<1>1. IsFiniteSet({}) /\ Cardinality({}) = 0
  BY FS_EmptySet
<1>2. EstimatorTypeOK' /\ Finite' /\ Previous'
  BY <1>1, EstimatorAssumption DEF ResetState, EstimatorTypeOK, Finite, Previous
<1>3. ScoreIsCappedNovelty' /\ TransitionsLinkMoves'
  BY <1>1, EstimatorAssumption
     DEF ResetState, ScoreIsCappedNovelty, TransitionsLinkMoves, Novelty, MinOf
<1> QED
  BY <1>2, <1>3 DEF EstimatorInv

LEMMA InvStep == EstimatorInv /\ [EstimatorNext]_estimatorVars => EstimatorInv'
<1> SUFFICES ASSUME EstimatorInv, [EstimatorNext]_estimatorVars
             PROVE  EstimatorInv'
  OBVIOUS
<1>0. EstimatorTypeOK
  BY DEF EstimatorInv
<1>1. CASE Add
  <2>1. CASE \E token \in MoveToken, bin \in TimingBin \cup {NoToken}, gesture \in GestureToken :
               AddLayer(token, bin, gesture)
    <3>1. PICK token \in MoveToken, bin \in TimingBin \cup {NoToken}, gesture \in GestureToken :
             AddLayer(token, bin, gesture)
      BY <2>1
    <3>2. score' \in Nat
      <4>1. /\ 2 * New(token, seenMoveTokens)
               + 2 * New(IF previousLayerToken = NoToken THEN NoToken ELSE <<previousLayerToken, token>>,
                         seenTransitions \cup {NoToken})
               + New(bin, seenTimingBins \cup {NoToken})
               + New(gesture, seenGestureTokens) \in Nat
        BY DEF New
      <4> QED
        BY <1>0, <3>1, <4>1, EstimatorAssumption DEF AddLayer, MinOf, EstimatorTypeOK
    <3>3. announcedMilestone' \in Nat
      BY <1>0, <1>1, <3>2, RenderType DEF Add
    <3> QED
      BY <1>1, <3>1, <3>3, InvAddLayer DEF Add
  <2>2. CASE AddOrbit
    <3>1. announcedMilestone' \in Nat
      BY <1>0, <1>1, <2>2, RenderType DEF Add, AddOrbit, EstimatorTypeOK
    <3>2. EstimatorTypeOK'
      BY <1>0, <1>1, <2>2, <3>1 DEF Add, AddOrbit, EstimatorTypeOK
    <3>3. Finite' /\ Previous' /\ ScoreIsCappedNovelty' /\ TransitionsLinkMoves'
      BY <2>2 DEF AddOrbit, EstimatorInv, Finite, Previous, ScoreIsCappedNovelty,
                  Novelty, TransitionsLinkMoves
    <3> QED
      BY <3>2, <3>3 DEF EstimatorInv
  <2> QED
    BY <1>1, <2>1, <2>2 DEF Add
<1>2. CASE Restart
  <2>1. /\ announcedMilestone' \in Nat
        /\ status' \in {"ready", "measuring", "solved", "error"}
    BY <1>0, <1>2 DEF Restart, EstimatorTypeOK
  <2> QED
    BY <1>2, <2>1, InvCleared DEF Restart
<1>3. CASE \E s \in {"ready", "error"} : Cleared(s)
  <2>1. ResetState /\ Render /\ status' \in {"ready", "error"}
    BY <1>3 DEF Cleared
  <2>2. announcedMilestone' \in Nat
    BY <1>0, <2>1, RenderType DEF ResetState
  <2> QED
    BY <2>1, <2>2, InvCleared
<1>4. CASE \E s \in {"measuring", "solved", "error"} : Published(s)
  <2>1. UNCHANGED figures /\ Render /\ status' \in {"measuring", "solved", "error"}
    BY <1>4 DEF Published
  <2>2. announcedMilestone' \in Nat
    BY <1>0, <2>1, RenderType DEF figures, EstimatorTypeOK
  <2>3. EstimatorTypeOK'
    BY <1>0, <2>1, <2>2 DEF figures, EstimatorTypeOK
  <2>4. Finite' /\ Previous' /\ ScoreIsCappedNovelty' /\ TransitionsLinkMoves'
    BY <2>1 DEF figures, EstimatorInv, Finite, Previous, ScoreIsCappedNovelty,
                Novelty, TransitionsLinkMoves
  <2> QED
    BY <2>3, <2>4 DEF EstimatorInv
<1>5. CASE UNCHANGED estimatorVars
  BY <1>5 DEF estimatorVars, figures, EstimatorInv, EstimatorTypeOK, Finite, Previous,
              ScoreIsCappedNovelty, Novelty, TransitionsLinkMoves
<1> QED
  BY <1>1, <1>2, <1>3, <1>4, <1>5 DEF EstimatorNext

LEMMA EstimatorInvariant == EstimatorSpec => []EstimatorInv
  BY InvInit, InvStep, PTL DEF EstimatorSpec

\* Every record is counted once, as a layer move or as an orbit, and the score
\* stays between 0 and the cap.
THEOREM EstimatorTypeCorrect == EstimatorSpec => []EstimatorTypeOK
<1>1. EstimatorInv => EstimatorTypeOK
  BY DEF EstimatorInv
<1> QED
  BY <1>1, EstimatorInvariant, PTL

\* The displayed score is min(cap, sum), and the sum is what was seen, counted.
THEOREM EstimatorScoreIsCappedNovelty == EstimatorSpec => []ScoreIsCappedNovelty
<1>1. EstimatorInv => ScoreIsCappedNovelty
  BY DEF EstimatorInv
<1> QED
  BY <1>1, EstimatorInvariant, PTL

\* The transitions seen link the moves seen; orbits do not break the chain.
THEOREM EstimatorTransitionsLinkMoves == EstimatorSpec => []TransitionsLinkMoves
<1>1. EstimatorInv => TransitionsLinkMoves
  BY DEF EstimatorInv
<1> QED
  BY <1>1, EstimatorInvariant, PTL

----------------------------------------------------------------------------
(* The study: the session's calls drive the estimator *)

\* Every record on its way was made, and has a kind.
MadeInv ==
    /\ made \in Seq(Kind)
    /\ Len(made) = moves
    /\ \A g \in Session : \A i \in 1..Len(queue[g]) :
          queue[g][i].kind = "record" => queue[g][i].at \in 1..moves
    /\ \A g \in Session : inflight[g] # Null => inflight[g].rec.at \in 1..moves

\* A call that joins a queue, and one that leaves it, keep its records made.
LEMMA MadeQueued ==
    ASSUME NEW n \in Nat, NEW m \in Nat, n <= m,
           NEW q \in Seq(Call), NEW c \in Call,
           \A i \in 1..Len(q) : q[i].kind = "record" => q[i].at \in 1..n,
           c.kind = "record" => c.at \in 1..m
    PROVE  \A i \in 1..Len(Append(q, c)) :
              Append(q, c)[i].kind = "record" => Append(q, c)[i].at \in 1..m
  OBVIOUS

LEMMA MadeDequeued ==
    ASSUME NEW n \in Nat, NEW q \in Seq(Call), q # <<>>,
           \A i \in 1..Len(q) : q[i].kind = "record" => q[i].at \in 1..n
    PROVE  /\ \A i \in 1..Len(Tail(q)) : Tail(q)[i].kind = "record" => Tail(q)[i].at \in 1..n
           /\ Head(q).kind = "record" => Head(q).at \in 1..n
  OBVIOUS

LEMMA MadeStep ==
    ASSUME SessionTypeOK, SessionTypeOK', MadeInv, [MeasurementNext]_measurementVars
    PROVE  MadeInv'
<1>0. /\ queue \in [Session -> Seq(Call)] /\ moves \in Nat
      /\ inflight \in [Session -> [into : Session, rec : Rec] \cup {Null}]
  BY DEF SessionTypeOK, QueueTypeOK
<1>1. CASE UNCHANGED <<made, moves, queue, inflight>>
  BY <1>1 DEF MadeInv
<1>2. CASE MeasuredRecord
  <2>1. PICK kind \in Kind : made' = Append(made, kind)
    BY <1>2 DEF MeasuredRecord
  <2>2. /\ moves' = moves + 1 /\ inflight' = inflight
        /\ \/ queue' = queue
           \/ queue' = [queue EXCEPT ![generation] =
                           Append(@, [kind |-> "record", at |-> moves'])]
    BY <1>2 DEF MeasuredRecord, Record
  <2>3. made' \in Seq(Kind) /\ Len(made') = moves'
    BY <2>1, <2>2 DEF MadeInv
  <2>4. ASSUME NEW g \in Session
        PROVE  \A i \in 1..Len(queue'[g]) :
                  queue'[g][i].kind = "record" => queue'[g][i].at \in 1..moves'
    <3>1. CASE queue'[g] = queue[g]
      BY <1>0, <2>2, <3>1 DEF MadeInv
    <3>2. CASE queue'[g] = Append(queue[g], [kind |-> "record", at |-> moves'])
      <4>1. [kind |-> "record", at |-> moves'] \in Call
        BY <1>0, <2>2 DEF Call
      <4>2. \A i \in 1..Len(queue[g]) :
               queue[g][i].kind = "record" => queue[g][i].at \in 1..moves
        BY DEF MadeInv
      <4> QED
        BY <1>0, <2>2, <3>2, <4>1, <4>2, MadeQueued
    <3> QED
      BY <1>0, <2>2, <3>1, <3>2
  <2>5. \A g \in Session : inflight'[g] # Null => inflight'[g].rec.at \in 1..moves'
    BY <1>0, <2>2 DEF MadeInv, Rec
  <2> QED
    BY <2>3, <2>4, <2>5 DEF MadeInv
<1>3. CASE MeasuredSolve
  <2>1. /\ made' = made /\ moves' = moves /\ inflight' = inflight
        /\ queue' = [queue EXCEPT ![generation] = Append(@, [kind |-> "solve", at |-> moves])]
    BY <1>3 DEF MeasuredSolve, Solve
  <2>2. [kind |-> "solve", at |-> moves] \in Call
    BY <1>0 DEF Call
  <2>3. ASSUME NEW g \in Session
        PROVE  \A i \in 1..Len(queue'[g]) :
                  queue'[g][i].kind = "record" => queue'[g][i].at \in 1..moves'
    <3>1. \A i \in 1..Len(queue[g]) :
             queue[g][i].kind = "record" => queue[g][i].at \in 1..moves
      BY DEF MadeInv
    <3>2. \/ queue'[g] = queue[g]
          \/ queue'[g] = Append(queue[g], [kind |-> "solve", at |-> moves])
      BY <1>0, <2>1
    <3> QED
      BY <1>0, <2>1, <2>2, <3>1, <3>2, MadeQueued
  <2> QED
    BY <2>1, <2>3 DEF MadeInv
<1>4. CASE \E g \in Session : MeasuredRunDropped(g) \/ MeasuredRunRecord(g) \/ MeasuredRunSolve(g)
  <2>1. PICK g \in Session : MeasuredRunDropped(g) \/ MeasuredRunRecord(g) \/ MeasuredRunSolve(g)
    BY <1>4
  <2>2. /\ made' = made /\ moves' = moves /\ queue[g] # <<>>
        /\ queue' = [queue EXCEPT ![g] = Tail(@)]
        /\ \/ inflight' = inflight
           \/ /\ Head(queue[g]).kind = "record"
              /\ inflight' = [inflight EXCEPT ![g] =
                    [into |-> digest,
                     rec  |-> [sequence |-> sequence + 1, at |-> Head(queue[g]).at,
                               prev |-> lastCommittedAt, of |-> g]]]
    BY <2>1 DEF MeasuredRunDropped, MeasuredRunRecord, MeasuredRunSolve, RunDropped,
                RunRecord, RunSolve, Running, history
  <2>3. \A i \in 1..Len(queue[g]) : queue[g][i].kind = "record" => queue[g][i].at \in 1..moves
    BY DEF MadeInv
  <2>4. /\ \A i \in 1..Len(Tail(queue[g])) :
              Tail(queue[g])[i].kind = "record" => Tail(queue[g])[i].at \in 1..moves
        /\ Head(queue[g]).kind = "record" => Head(queue[g]).at \in 1..moves
    BY <1>0, <2>2, <2>3, MadeDequeued
  <2>5. \A h \in Session : \A i \in 1..Len(queue'[h]) :
           queue'[h][i].kind = "record" => queue'[h][i].at \in 1..moves
    BY <1>0, <2>2, <2>4 DEF MadeInv
  <2>6. \A h \in Session : inflight'[h] # Null => inflight'[h].rec.at \in 1..moves
    BY <1>0, <2>2, <2>4 DEF MadeInv
  <2> QED
    BY <2>2, <2>5, <2>6 DEF MadeInv
<1>5. CASE \E g \in Session : MeasuredAppend(g) \/ MeasuredAppendFails(g)
  <2>1. PICK g \in Session : MeasuredAppend(g) \/ MeasuredAppendFails(g)
    BY <1>5
  <2>2. /\ made' = made /\ moves' = moves /\ queue' = queue
        /\ inflight' = [inflight EXCEPT ![g] = Null]
    BY <2>1 DEF MeasuredAppend, MeasuredAppendFails, AppendDone, AppendFails, history
  <2> QED
    BY <1>0, <2>2 DEF MadeInv
<1>6. CASE MeasuredStart \/ MeasuredReset
           \/ (\E g \in Session : MeasuredOpen(g) \/ MeasuredOpenFails(g))
  <2>1. UNCHANGED <<made, moves, queue, inflight>>
    BY <1>6 DEF MeasuredStart, MeasuredReset, MeasuredOpen, MeasuredOpenFails,
                Start, Reset, Open, OpenFails, history
  <2> QED
    BY <1>1, <2>1
<1>7. CASE UNCHANGED measurementVars
  BY <1>1, <1>7 DEF measurementVars, sessionVars, history
<1> QED
  BY <1>2, <1>3, <1>4, <1>5, <1>6, <1>7 DEF MeasurementNext, Measured

\* However long a move took, it falls into a bin.
LEMMA TimingBinExists ==
    ASSUME NEW rec
    PROVE  TimingBinOf(rec) \in TimingBin \cup {NoToken}
<1> DEFINE passed == {t \in Threshold : t <= rec.at - rec.prev}
<1>1. passed \subseteq Threshold /\ IsFiniteSet(Threshold)
  BY MeasurementAssumption
<1> HIDE DEF passed
<1>2. /\ Cardinality(passed) \in Nat /\ Cardinality(Threshold) \in Nat
      /\ Cardinality(passed) <= Cardinality(Threshold)
  BY <1>1, FS_Subset, FS_CardinalityType
<1>3. Cardinality(passed) \in TimingBin
  BY <1>2, MeasurementAssumption
<1>4. TimingBinFor(rec.at - rec.prev) \in TimingBin
  BY <1>3 DEF TimingBinFor, passed
<1> QED
  BY <1>4 DEF TimingBinOf

\* Whatever the study does is something the estimator and its panel allow.
LEMMA FeedsStep ==
    ASSUME SessionTypeOK, MadeInv, [MeasurementNext]_measurementVars
    PROVE  [EstimatorNext]_estimatorVars
<1>1. CASE Restart
  BY <1>1 DEF EstimatorNext
<1>2. CASE UNCHANGED estimatorVars
  BY <1>2
<1>3. CASE \E g \in Session : MeasuredAppend(g)
  <2>1. PICK g \in Session : MeasuredAppend(g)
    BY <1>3
  <2>2. CASE g = generation
    <3> DEFINE rec == inflight[g].rec
    <3>1. inflight[g] # Null /\ Scored(rec) /\ UNCHANGED status /\ Render
      BY <2>1, <2>2 DEF MeasuredAppend, AppendDone
    <3>2. made[rec.at] \in Kind
      BY <3>1 DEF MadeInv
    <3>3. AddOrbit \/ \E token \in MoveToken, bin \in TimingBin \cup {NoToken},
                         gesture \in GestureToken : AddLayer(token, bin, gesture)
      <4>1. CASE made[rec.at] = Orbit
        BY <3>1, <4>1 DEF Scored
      <4>2. CASE made[rec.at] # Orbit
        <5>1. made[rec.at].token \in MoveToken /\ made[rec.at].gesture \in GestureToken
          BY <3>2, <4>2 DEF Kind
        <5>2. AddLayer(made[rec.at].token, TimingBinOf(rec), made[rec.at].gesture)
          BY <3>1, <4>2 DEF Scored
        <5> QED
          BY <5>1, <5>2, TimingBinExists
      <4> QED
        BY <4>1, <4>2
    <3> QED
      BY <3>1, <3>3 DEF EstimatorNext, Add
  <2>3. CASE g # generation
    BY <2>1, <2>3 DEF MeasuredAppend, Unscored
  <2> QED
    BY <2>2, <2>3
<1>4. CASE \E s \in {"measuring", "solved", "error"} : Published(s)
  BY <1>4 DEF EstimatorNext
<1>5. CASE \E s \in {"ready", "error"} : Cleared(s)
  BY <1>5 DEF EstimatorNext
<1>6. CASE UNCHANGED measurementVars
  BY <1>2, <1>6 DEF measurementVars
<1>7. CASE MeasuredStart \/ MeasuredRecord \/ MeasuredSolve \/ MeasuredReset
  BY <1>1, <1>2, <1>5, <1>7
     DEF MeasuredStart, MeasuredRecord, MeasuredSolve, MeasuredReset, Unscored
<1>8. CASE \E g \in Session : Measured(g)
  <2>1. PICK g \in Session : Measured(g)
    BY <1>8
  <2>2. CASE MeasuredAppend(g)
    BY <1>3, <2>2
  <2>3. CASE MeasuredOpen(g) \/ MeasuredOpenFails(g) \/ MeasuredAppendFails(g) \/ MeasuredRunSolve(g)
    BY <1>2, <1>4, <1>5, <2>3
       DEF MeasuredOpen, MeasuredOpenFails, MeasuredAppendFails, MeasuredRunSolve, Unscored
  <2>4. CASE MeasuredRunDropped(g) \/ MeasuredRunRecord(g)
    BY <1>2, <2>4 DEF MeasuredRunDropped, MeasuredRunRecord, Unscored
  <2> QED
    BY <2>1, <2>2, <2>3, <2>4 DEF Measured
<1> QED
  BY <1>6, <1>7, <1>8 DEF MeasurementNext

\* The study is a session: what is proved of the session holds of it.
THEOREM StudyIsSession == MeasurementSpec => SessionSpec
<1>1. MeasurementInit => SessionInit
  BY DEF MeasurementInit
<1>2. [MeasurementNext]_measurementVars => [SessionNext]_sessionVars
  <2>1. CASE \E g \in Session : Measured(g)
    BY <2>1 DEF Measured, SessionNext, Proceed, MeasuredOpen, MeasuredOpenFails,
                MeasuredRunDropped, MeasuredRunRecord, MeasuredRunSolve,
                MeasuredAppend, MeasuredAppendFails
  <2>2. CASE MeasuredStart \/ MeasuredRecord \/ MeasuredSolve \/ MeasuredReset
    BY <2>2 DEF SessionNext, MeasuredStart, MeasuredRecord, MeasuredSolve, MeasuredReset
  <2>3. CASE UNCHANGED measurementVars
    BY <2>3 DEF measurementVars
  <2> QED
    BY <2>1, <2>2, <2>3 DEF MeasurementNext
<1> QED
  BY <1>1, <1>2, PTL DEF MeasurementSpec, SessionSpec

\* The study drives the estimator and the panel only as they may be driven, so
\* the score, the transitions and the milestones the visitor sees are as proved.
THEOREM StudyFeedsEstimator == MeasurementSpec => EstimatorSpec
<1>1. MeasurementInit => EstimatorInit /\ MadeInv
  BY SessionAssumption DEF MeasurementInit, SessionInit, MadeInv
<1>2. SessionTypeOK /\ SessionTypeOK' /\ MadeInv /\ [MeasurementNext]_measurementVars
        => MadeInv' /\ [EstimatorNext]_estimatorVars
  BY MadeStep, FeedsStep
<1> QED
  BY <1>1, <1>2, StudyIsSession, SessionTypeCorrect, PTL DEF MeasurementSpec, EstimatorSpec

----------------------------------------------------------------------------

\* What the session counts, the estimator has counted; what the panel shows as
\* the estimate, it shows as the session's state.
CountsAgree == recordCount = counted /\ shown.count = estimate.moves

\* The number of moves on the panel is the estimator's, in every state.
LEMMA StudyCountsAgree == MeasurementSpec => []CountsAgree
<1>1. MeasurementInit => CountsAgree
  BY DEF MeasurementInit, SessionInit, EstimatorInit, CountsAgree, Blank, Snapshot
<1>2. CountsAgree /\ [MeasurementNext]_measurementVars => CountsAgree'
  <2> SUFFICES ASSUME CountsAgree, [MeasurementNext]_measurementVars
               PROVE  CountsAgree'
    OBVIOUS
  <2>1. CASE MeasuredStart \/ MeasuredReset
    BY <2>1 DEF MeasuredStart, MeasuredReset, Start, Reset, Restart, Cleared, ResetState,
                Blank, Snapshot, CountsAgree
  <2>2. CASE MeasuredRecord \/ MeasuredSolve
    BY <2>2 DEF MeasuredRecord, MeasuredSolve, Record, Solve, Unscored,
                core, estimatorVars, figures, CountsAgree
  <2>3. ASSUME NEW g \in Session, MeasuredOpen(g) \/ MeasuredOpenFails(g)
        PROVE  CountsAgree'
    BY <2>3 DEF MeasuredOpen, MeasuredOpenFails, Open, OpenFails, Unscored, Published, Cleared,
                ResetState, Blank, Snapshot, estimatorVars, figures, CountsAgree
  <2>4. ASSUME NEW g \in Session, MeasuredRunDropped(g) \/ MeasuredRunRecord(g)
        PROVE  CountsAgree'
    BY <2>4 DEF MeasuredRunDropped, MeasuredRunRecord, RunDropped, RunRecord, Unscored,
                core, estimatorVars, figures, CountsAgree
  <2>5. ASSUME NEW g \in Session, MeasuredRunSolve(g) \/ MeasuredAppendFails(g)
        PROVE  CountsAgree'
    BY <2>5 DEF MeasuredRunSolve, MeasuredAppendFails, RunSolve, AppendFails, Published,
                Republished, estimatorVars, figures, CountsAgree
  <2>6. ASSUME NEW g \in Session, MeasuredAppend(g)
        PROVE  CountsAgree'
    <3>1. CASE g = generation
      <4>1. counted' = counted + 1 /\ estimate' = Snapshot'
        BY <2>6, <3>1 DEF MeasuredAppend, Scored, AddOrbit, AddLayer
      <4>2. recordCount' = recordCount + 1 /\ shown'.count = recordCount'
        BY <2>6, <3>1 DEF MeasuredAppend, AppendDone, Republished
      <4> QED
        BY <4>1, <4>2 DEF CountsAgree, Snapshot
    <3>2. CASE g # generation
      BY <2>6, <3>2 DEF MeasuredAppend, AppendDone, Unscored, estimatorVars, figures, CountsAgree
    <3> QED
      BY <3>1, <3>2
  <2>7. CASE UNCHANGED measurementVars
    BY <2>7 DEF measurementVars, sessionVars, core, estimatorVars, figures, CountsAgree
  <2> QED
    BY <2>1, <2>2, <2>3, <2>4, <2>5, <2>6, <2>7 DEF MeasurementNext, Measured
<1> QED
  BY <1>1, <1>2, PTL DEF MeasurementSpec

\* With the digests in order, the number of moves on the panel is the length of
\* the transcript whose digest and salt are shown beside it.
THEOREM PanelCountsTranscript ==
    ASSUME InOrder
    PROVE  MeasurementSpec => [](shown.root # Null => estimate.moves = Len(shown.recs))
<1>1. CountsAgree /\ ShownIsOneSession => (shown.root # Null => estimate.moves = Len(shown.recs))
  BY DEF CountsAgree, ShownIsOneSession
<1>2. SessionSpec => []ShownIsOneSession
  BY SessionShownIsOne
<1> QED
  BY <1>1, <1>2, StudyIsSession, StudyCountsAgree, PTL

----------------------------------------------------------------------------
(* The estimate of a transcript *)

LEMMA LayersType ==
    ASSUME NEW kinds, NEW c \in Seq(Rec)
    PROVE  /\ LayersOf(kinds, c) \subseteq 1..Len(c)
           /\ IsFiniteSet(LayersOf(kinds, c))
           /\ Cardinality(LayersOf(kinds, c)) \in Nat
<1>1. LayersOf(kinds, c) \subseteq 1..Len(c)
  BY DEF LayersOf
<1>2. IsFiniteSet(1..Len(c))
  BY FS_Interval
<1> QED
  BY <1>1, <1>2, FS_Subset, FS_CardinalityType

\* Moves made later do not change what a transcript says.
LEMMA LaterMoves ==
    ASSUME NEW kinds \in Seq(Kind), NEW k \in Kind, NEW c \in Seq(Rec),
           \A i \in 1..Len(c) : c[i].at \in 1..Len(kinds),
           NEW more, more = Append(kinds, k)
    PROVE  /\ LayersOf(more, c) = LayersOf(kinds, c)
           /\ TokensOf(more, c) = TokensOf(kinds, c)
           /\ GesturesOf(more, c) = GesturesOf(kinds, c)
           /\ BinsOf(more, c) = BinsOf(kinds, c)
           /\ TransitionsOf(more, c) = TransitionsOf(kinds, c)
           /\ EstimateOf(more, c) = EstimateOf(kinds, c)
           /\ \A i \in 1..Len(c) : more[c[i].at] = kinds[c[i].at]
<1>1. \A i \in 1..Len(c) : more[c[i].at] = kinds[c[i].at]
  OBVIOUS
<1>2. LayersOf(more, c) = LayersOf(kinds, c)
  BY <1>1 DEF LayersOf
<1>3. Consecutive(more, c) = Consecutive(kinds, c)
  BY <1>2 DEF Consecutive
<1>4. LayersOf(kinds, c) \subseteq 1..Len(c)
  BY LayersType
<1>5. TokensOf(more, c) = TokensOf(kinds, c) /\ GesturesOf(more, c) = GesturesOf(kinds, c)
  BY <1>1, <1>2, <1>4 DEF TokensOf, GesturesOf
<1>6. BinsOf(more, c) = BinsOf(kinds, c)
  BY <1>2 DEF BinsOf
<1>7. \A p \in Consecutive(kinds, c) : p[1] \in 1..Len(c) /\ p[2] \in 1..Len(c)
  BY <1>4 DEF Consecutive
<1>8. TransitionsOf(more, c) = TransitionsOf(kinds, c)
  BY <1>1, <1>3, <1>7 DEF TransitionsOf
<1> QED
  BY <1>1, <1>2, <1>5, <1>6, <1>8 DEF EstimateOf

\* A record at the end of a transcript.
LEMMA RecordAppended ==
    ASSUME NEW c \in Seq(Rec), NEW r \in Rec, NEW d, d = Append(c, r)
    PROVE  /\ d \in Seq(Rec) /\ Len(c) \in Nat /\ Len(d) = Len(c) + 1
           /\ d[Len(c) + 1] = r /\ \A i \in 1..Len(c) : d[i] = c[i]
           /\ 1..Len(d) = (1..Len(c)) \cup {Len(c) + 1}
           /\ Len(c) + 1 \notin 1..Len(c)
<1>1. Len(c) \in Nat /\ Len(d) = Len(c) + 1
  OBVIOUS
<1>2. 1..(Len(c) + 1) = (1..Len(c)) \cup {Len(c) + 1} /\ Len(c) + 1 \notin 1..Len(c)
  BY <1>1
<1>3. d \in Seq(Rec) /\ d[Len(c) + 1] = r /\ \A i \in 1..Len(c) : d[i] = c[i]
  OBVIOUS
<1> QED
  BY <1>1, <1>2, <1>3

\* ... says nothing of layers when it is a whole-cube rotation,
LEMMA OrbitAppended ==
    ASSUME NEW kinds, NEW c \in Seq(Rec), NEW r \in Rec, kinds[r.at] = Orbit,
           NEW d, d = Append(c, r)
    PROVE  /\ LayersOf(kinds, d) = LayersOf(kinds, c)
           /\ TokensOf(kinds, d) = TokensOf(kinds, c)
           /\ GesturesOf(kinds, d) = GesturesOf(kinds, c)
           /\ BinsOf(kinds, d) = BinsOf(kinds, c)
           /\ TransitionsOf(kinds, d) = TransitionsOf(kinds, c)
<1>1. /\ d[Len(c) + 1] = r /\ \A i \in 1..Len(c) : d[i] = c[i]
      /\ 1..Len(d) = (1..Len(c)) \cup {Len(c) + 1}
  BY RecordAppended
<1>2. LayersOf(kinds, d) = LayersOf(kinds, c)
  BY <1>1 DEF LayersOf
<1>3. LayersOf(kinds, c) \subseteq 1..Len(c)
  BY LayersType
<1>4. \A i \in LayersOf(kinds, c) : d[i] = c[i]
  BY <1>1, <1>3
<1>5. Consecutive(kinds, d) = Consecutive(kinds, c)
  BY <1>2 DEF Consecutive
<1>6. \A p \in Consecutive(kinds, c) : d[p[1]] = c[p[1]] /\ d[p[2]] = c[p[2]]
  BY <1>4 DEF Consecutive
<1>7. TokensOf(kinds, d) = TokensOf(kinds, c) /\ GesturesOf(kinds, d) = GesturesOf(kinds, c)
  BY <1>2, <1>4 DEF TokensOf, GesturesOf
<1>8. BinsOf(kinds, d) = BinsOf(kinds, c)
  BY <1>2, <1>4 DEF BinsOf
<1>9. TransitionsOf(kinds, d) = TransitionsOf(kinds, c)
  BY <1>5, <1>6 DEF TransitionsOf
<1> QED
  BY <1>2, <1>7, <1>8, <1>9

\* The last layer move of a transcript that has one.
LastLayer(kinds, c, i) == i \in LayersOf(kinds, c) /\ \A j \in LayersOf(kinds, c) : j <= i

\* ... and adds one token, one gesture, perhaps a bin and, unless it is the
\* first layer move, the transition from the last.
LayerAdds(kinds, c, r, d) ==
    /\ LayersOf(kinds, d) = LayersOf(kinds, c) \cup {Len(c) + 1}
    /\ Len(c) + 1 \notin LayersOf(kinds, c)
    /\ LastLayer(kinds, d, Len(c) + 1) /\ d[Len(c) + 1] = r
    /\ TokensOf(kinds, d) = TokensOf(kinds, c) \cup {kinds[r.at].token}
    /\ GesturesOf(kinds, d) = GesturesOf(kinds, c) \cup {kinds[r.at].gesture}
    /\ BinsOf(kinds, d) = (BinsOf(kinds, c) \cup {TimingBinOf(r)}) \ {NoToken}
    /\ LayersOf(kinds, c) = {} => TransitionsOf(kinds, d) = TransitionsOf(kinds, c)
    /\ \A i : LastLayer(kinds, c, i) =>
         TransitionsOf(kinds, d) = TransitionsOf(kinds, c)
             \cup {<<kinds[c[i].at].token, kinds[r.at].token>>}

LEMMA LayerAppended ==
    ASSUME NEW kinds, NEW c \in Seq(Rec), NEW r \in Rec, kinds[r.at] # Orbit,
           NEW d, d = Append(c, r)
    PROVE  LayerAdds(kinds, c, r, d)
<1> DEFINE n == Len(c) + 1
           L == LayersOf(kinds, c)
<1>1. /\ d[n] = r /\ \A i \in 1..Len(c) : d[i] = c[i]
      /\ 1..Len(d) = (1..Len(c)) \cup {n} /\ n \notin 1..Len(c) /\ Len(c) \in Nat
  BY RecordAppended
<1>2. LayersOf(kinds, d) = L \cup {n}
  BY <1>1 DEF LayersOf
<1>3. /\ L \subseteq 1..Len(c) /\ n \notin L /\ n \in Nat
      /\ \A i \in L : i < n /\ i \in Nat
  BY <1>1, LayersType
<1>4. \A i \in L : d[i] = c[i]
  BY <1>1, <1>3
<1> HIDE DEF n, L
<1>5. LastLayer(kinds, d, n)
  <2>1. n <= n /\ \A i \in L : i <= n
    BY <1>3
  <2> QED
    BY <1>2, <2>1 DEF LastLayer
<1>6. TokensOf(kinds, d) = TokensOf(kinds, c) \cup {kinds[r.at].token}
  <2>1. TokensOf(kinds, d) = {kinds[d[i].at].token : i \in L \cup {n}}
    BY <1>2 DEF TokensOf
  <2>2. TokensOf(kinds, c) = {kinds[d[i].at].token : i \in L}
    BY <1>4, ZenonT(30) DEF TokensOf, L
  <2>3. {kinds[d[i].at].token : i \in L \cup {n}}
          = {kinds[d[i].at].token : i \in L} \cup {kinds[d[n].at].token}
    OBVIOUS
  <2> QED
    BY <1>1, <2>1, <2>2, <2>3
<1>7. GesturesOf(kinds, d) = GesturesOf(kinds, c) \cup {kinds[r.at].gesture}
  <2>1. GesturesOf(kinds, d) = {kinds[d[i].at].gesture : i \in L \cup {n}}
    BY <1>2 DEF GesturesOf
  <2>2. GesturesOf(kinds, c) = {kinds[d[i].at].gesture : i \in L}
    BY <1>4, ZenonT(30) DEF GesturesOf, L
  <2>3. {kinds[d[i].at].gesture : i \in L \cup {n}}
          = {kinds[d[i].at].gesture : i \in L} \cup {kinds[d[n].at].gesture}
    OBVIOUS
  <2> QED
    BY <1>1, <2>1, <2>2, <2>3
<1>8. BinsOf(kinds, d) = (BinsOf(kinds, c) \cup {TimingBinOf(r)}) \ {NoToken}
  <2>1. BinsOf(kinds, d) = {TimingBinOf(d[i]) : i \in L \cup {n}} \ {NoToken}
    BY <1>2 DEF BinsOf
  <2>2. BinsOf(kinds, c) = {TimingBinOf(d[i]) : i \in L} \ {NoToken}
    BY <1>4, ZenonT(30) DEF BinsOf, L
  <2>3. {TimingBinOf(d[i]) : i \in L \cup {n}} = {TimingBinOf(d[i]) : i \in L} \cup {TimingBinOf(d[n])}
    OBVIOUS
  <2> QED
    BY <1>1, <2>1, <2>2, <2>3
<1>9. ASSUME L = {}
      PROVE  TransitionsOf(kinds, d) = TransitionsOf(kinds, c)
  <2>1. Consecutive(kinds, c) = {} /\ Consecutive(kinds, d) = {}
    BY <1>1, <1>2, <1>9 DEF Consecutive, L, n
  <2> QED
    BY <2>1 DEF TransitionsOf
<1>10. ASSUME NEW i, LastLayer(kinds, c, i)
       PROVE  TransitionsOf(kinds, d) = TransitionsOf(kinds, c)
                    \cup {<<kinds[c[i].at].token, kinds[r.at].token>>}
  <2>0. n \in Nat /\ \A j \in L : j \in Nat /\ j < n
    BY <1>3
  <2>1. i \in L /\ \A j \in L : j <= i
    BY <1>10 DEF LastLayer, L
  <2>2. Consecutive(kinds, d) = Consecutive(kinds, c) \cup {<<i, n>>}
    <3>1. ASSUME NEW p \in Consecutive(kinds, c)
          PROVE  p \in Consecutive(kinds, d)
      <4>1. PICK x \in L, y \in L : p = <<x, y>>
        BY <3>1 DEF Consecutive, L
      <4>2. x < y /\ \A j \in L : j <= x \/ y <= j
        BY <3>1, <4>1 DEF Consecutive, L
      <4>3. y <= n
        BY <2>0
      <4> QED
        BY <1>2, <4>1, <4>2, <4>3 DEF Consecutive
    <3>2. <<i, n>> \in Consecutive(kinds, d)
      <4>1. i < n /\ n <= n /\ \A j \in L \cup {n} : j <= i \/ n <= j
        BY <2>0, <2>1
      <4> QED
        BY <1>2, <2>1, <4>1 DEF Consecutive
    <3>3. ASSUME NEW p \in Consecutive(kinds, d), p \notin Consecutive(kinds, c)
          PROVE  p = <<i, n>>
      <4>1. PICK x \in L \cup {n}, y \in L \cup {n} : p = <<x, y>>
        BY <1>2, <3>3 DEF Consecutive
      <4>2. x < y /\ \A j \in L \cup {n} : j <= x \/ y <= j
        BY <1>2, <3>3, <4>1 DEF Consecutive
      <4>3. x \in L
        BY <2>0, <4>2
      <4>4. y = n
        BY <3>3, <4>1, <4>2, <4>3 DEF Consecutive, L
      <4>5. i <= x /\ x <= i
        BY <2>0, <2>1, <4>2, <4>3, <4>4
      <4>6. x = i
        BY <2>0, <2>1, <4>3, <4>5
      <4> QED
        BY <4>1, <4>4, <4>6
    <3> QED
      BY <3>1, <3>2, <3>3
  <2>3. \A p \in Consecutive(kinds, c) : d[p[1]] = c[p[1]] /\ d[p[2]] = c[p[2]]
    BY <1>4 DEF Consecutive, L
  <2>4. d[i] = c[i] /\ d[n] = r
    BY <1>1, <1>4, <2>1
  <2> QED
    <3> DEFINE T(p) == <<kinds[d[p[1]].at].token, kinds[d[p[2]].at].token>>
               C == Consecutive(kinds, c)
    <3>1. TransitionsOf(kinds, d) = {T(p) : p \in C \cup {<<i, n>>}}
      BY <2>2 DEF TransitionsOf
    <3>2. TransitionsOf(kinds, c) = {T(p) : p \in C}
      BY <2>3 DEF TransitionsOf
    <3>3. T(<<i, n>>) = <<kinds[c[i].at].token, kinds[r.at].token>>
      BY <2>4
    <3> HIDE DEF T, C
    <3>4. {T(p) : p \in C \cup {<<i, n>>}} = {T(p) : p \in C} \cup {T(<<i, n>>)}
      OBVIOUS
    <3> QED
      BY <3>1, <3>2, <3>3, <3>4
<1> QED
  BY <1>1, <1>2, <1>3, <1>5, <1>6, <1>7, <1>8, <1>9, <1>10 DEF LayerAdds, L, n

----------------------------------------------------------------------------
(* The estimator's figures are those of the transcript it was told *)

\* Every record in a transcript was made, and so has a kind.
RecsMade ==
    /\ \A g \in Session : \A i \in 1..Len(chain[g]) : chain[g][i].at \in 1..moves
    /\ \A i \in 1..Len(shown.recs) : shown.recs[i].at \in 1..moves

LEMMA RecsMadeStep ==
    ASSUME SessionTypeOK, MadeInv, RecsMade, [SessionNext]_sessionVars
    PROVE  RecsMade'
<1>0. /\ \A g \in Session : chain[g] \in Seq(Rec)
      /\ chain \in [Session -> Seq(Rec)] /\ moves \in Nat
      /\ \A g \in Session : inflight[g] # Null =>
            inflight[g].into \in Session /\ inflight[g].rec \in Rec
  BY DEF SessionTypeOK, QueueTypeOK
<1>1. ASSUME chain' = chain, moves' \in Nat, moves <= moves',
             \/ shown'.recs = shown.recs \/ shown'.recs = <<>>
             \/ \E g \in Session : shown'.recs = chain[g]
      PROVE  RecsMade'
  <2>1. 1..moves \subseteq 1..moves'
    BY <1>0, <1>1
  <2> QED
    BY <1>1, <2>1 DEF RecsMade
<1>2. moves <= moves
  BY <1>0
<1>3. CASE Start \/ Reset \/ Solve
  BY <1>0, <1>1, <1>2, <1>3 DEF Start, Reset, Solve, Blank, history
<1>4. CASE Record
  <2>1. moves' = moves + 1 /\ moves' \in Nat /\ moves <= moves'
    BY <1>0, <1>4 DEF Record
  <2> QED
    BY <1>1, <1>4, <2>1 DEF Record
<1>5. ASSUME NEW g \in Session, Open(g) \/ OpenFails(g) \/ RunDropped(g) \/ RunRecord(g)
                                \/ RunSolve(g) \/ AppendFails(g)
      PROVE  RecsMade'
  <2>1. chain' = chain /\ moves' = moves
    BY <1>5 DEF Open, OpenFails, RunDropped, RunRecord, RunSolve, AppendFails, history
  <2>2. \/ shown'.recs = shown.recs \/ shown'.recs = <<>>
        \/ shown'.recs = chain[g]
    BY <1>5 DEF Open, OpenFails, RunDropped, RunRecord, RunSolve, AppendFails, Blank, Republished
  <2> QED
    BY <1>0, <1>1, <1>2, <2>1, <2>2
<1>6. ASSUME NEW g \in Session, AppendDone(g)
      PROVE  RecsMade'
  <2> DEFINE d == inflight[g].into
             r == inflight[g].rec
             q == chain[d]
  <2>0. inflight[g] # Null /\ chain' = [chain EXCEPT ![d] = Append(q, r)] /\ moves' = moves
    BY <1>6 DEF AppendDone, history
  <2>1. shown'.recs = chain'[d] \/ shown'.recs = shown.recs
    <3>1. \A s, e, c, k : Republished(s, e, c, k).recs = c
      BY DEF Republished
    <3>2. CASE g = generation
      BY <1>6, <3>1, <3>2 DEF AppendDone
    <3>3. CASE g # generation
      BY <1>6, <3>3 DEF AppendDone
    <3> QED
      BY <3>2, <3>3
  <2>2. /\ d \in Session /\ r \in Rec /\ q \in Seq(Rec)
        /\ r.at \in 1..moves /\ \A i \in 1..Len(q) : q[i].at \in 1..moves
    BY <1>0, <2>0 DEF MadeInv, RecsMade
  <2>3. chain'[d] = Append(q, r) /\ \A h \in Session : h # d => chain'[h] = chain[h]
    BY <1>0, <2>0, <2>2
  <2> HIDE DEF d, r, q
  <2>4. \A i \in 1..Len(Append(q, r)) : Append(q, r)[i].at \in 1..moves
    BY <2>2
  <2> QED
    BY <2>0, <2>1, <2>2, <2>3, <2>4 DEF RecsMade
<1>7. CASE UNCHANGED sessionVars
  BY <1>0, <1>1, <1>2, <1>7 DEF sessionVars, history
<1> QED
  BY <1>3, <1>4, <1>5, <1>6, <1>7 DEF SessionNext, Proceed

\* What the estimator knows, but for its score.
Figures ==
    [counted |-> counted, layers |-> layerMoveCount, last |-> previousLayerToken,
     tokens |-> seenMoveTokens, transitions |-> seenTransitions,
     bins |-> seenTimingBins, gestures |-> seenGestureTokens]

\* It is what a reader finds in a transcript; the token kept for the next
\* transition is that of the transcript's last layer move.
Describes(f, kinds, recs) ==
    /\ f.counted = Len(recs)
    /\ f.layers = Cardinality(LayersOf(kinds, recs))
    /\ f.tokens = TokensOf(kinds, recs)
    /\ f.transitions = TransitionsOf(kinds, recs)
    /\ f.bins = BinsOf(kinds, recs)
    /\ f.gestures = GesturesOf(kinds, recs)
    /\ f.last = NoToken => LayersOf(kinds, recs) = {}
    /\ f.last # NoToken =>
          \E i : LastLayer(kinds, recs, i) /\ kinds[recs[i].at].token = f.last

\* The records the estimator was told of since it was last reset: none while
\* the session opens, then those in its digest.
Told == IF active THEN chain[generation] ELSE <<>>

FiguresDescribe == active \/ generation \in opening => Describes(Figures, made, Told)

\* A cleared estimator describes the empty transcript.
LEMMA DescribesNothing ==
    ASSUME ResetState, NEW kinds
    PROVE  Describes(Figures', kinds, <<>>)
<1>1. LayersOf(kinds, <<>>) = {} /\ Len(<<>>) = 0
  BY DEF LayersOf
<1>2. Consecutive(kinds, <<>>) = {}
  BY <1>1 DEF Consecutive
<1>3. /\ TokensOf(kinds, <<>>) = {} /\ GesturesOf(kinds, <<>>) = {} /\ BinsOf(kinds, <<>>) = {}
      /\ TransitionsOf(kinds, <<>>) = {}
  BY <1>1, <1>2 DEF TokensOf, GesturesOf, BinsOf, TransitionsOf
<1> QED
  BY <1>1, <1>3, FS_EmptySet DEF Describes, ResetState, Figures

\* A description stays true when another move is made.
LEMMA DescribesLater ==
    ASSUME NEW f, NEW kinds \in Seq(Kind), NEW k \in Kind, NEW c \in Seq(Rec),
           \A i \in 1..Len(c) : c[i].at \in 1..Len(kinds), Describes(f, kinds, c)
    PROVE  Describes(f, Append(kinds, k), c)
<1> DEFINE more == Append(kinds, k)
<1>0. more = Append(kinds, k)
  OBVIOUS
<1> HIDE DEF more
<1>1. /\ LayersOf(more, c) = LayersOf(kinds, c)
      /\ TokensOf(more, c) = TokensOf(kinds, c)
      /\ GesturesOf(more, c) = GesturesOf(kinds, c)
      /\ BinsOf(more, c) = BinsOf(kinds, c)
      /\ TransitionsOf(more, c) = TransitionsOf(kinds, c)
      /\ \A i \in 1..Len(c) : more[c[i].at] = kinds[c[i].at]
  BY <1>0, LaterMoves
<1>2. LayersOf(kinds, c) \subseteq 1..Len(c)
  BY LayersType
<1>3. ASSUME NEW i, LastLayer(kinds, c, i)
      PROVE  LastLayer(more, c, i) /\ more[c[i].at].token = kinds[c[i].at].token
  BY <1>1, <1>2, <1>3 DEF LastLayer
<1>4. Describes(f, more, c)
  BY <1>1, <1>3 DEF Describes
<1> QED
  BY <1>0, <1>4

\* add() of a record keeps the description true of the transcript with it.
LEMMA DescribesAdded ==
    ASSUME EstimatorInv, MadeInv, NEW c \in Seq(Rec), NEW r \in Rec, r.at \in 1..moves,
           Describes(Figures, made, c), Scored(r)
    PROVE  Describes(Figures', made, Append(c, r))
<1> DEFINE d == Append(c, r)
           k == made[r.at]
           n == Len(c) + 1
<1>0. d = Append(c, r)
  OBVIOUS
<1>1. Len(d) = Len(c) + 1 /\ d \in Seq(Rec)
  BY RecordAppended
<1>2. counted = Len(c) /\ counted' = counted + 1
  BY DEF Describes, Figures, Scored, AddOrbit, AddLayer
<1>3. CASE k = Orbit
  <2>1. AddOrbit
    BY <1>3 DEF Scored
  <2>2. /\ LayersOf(made, d) = LayersOf(made, c)
        /\ TokensOf(made, d) = TokensOf(made, c)
        /\ GesturesOf(made, d) = GesturesOf(made, c)
        /\ BinsOf(made, d) = BinsOf(made, c)
        /\ TransitionsOf(made, d) = TransitionsOf(made, c)
    BY <1>3, OrbitAppended
  <2>3. \A i \in LayersOf(made, c) : d[i] = c[i]
    BY RecordAppended, LayersType
  <2> HIDE DEF d
  <2>4. ASSUME NEW i, LastLayer(made, c, i)
        PROVE  LastLayer(made, d, i) /\ made[d[i].at].token = made[c[i].at].token
    BY <2>2, <2>3, <2>4 DEF LastLayer
  <2>5. /\ Figures'.layers = Figures.layers /\ Figures'.tokens = Figures.tokens
        /\ Figures'.transitions = Figures.transitions /\ Figures'.bins = Figures.bins
        /\ Figures'.gestures = Figures.gestures /\ Figures'.last = Figures.last
        /\ Figures'.counted = Len(d)
    BY <1>1, <1>2, <2>1 DEF AddOrbit, Figures
  <2>6. Describes(Figures', made, d)
    BY <2>2, <2>4, <2>5 DEF Describes
  <2> QED
    BY <2>6 DEF d
<1>4. CASE k # Orbit
  <2>1. AddLayer(k.token, TimingBinOf(r), k.gesture)
    BY <1>4 DEF Scored
  <2>2. /\ LayersOf(made, d) = LayersOf(made, c) \cup {n} /\ n \notin LayersOf(made, c)
        /\ LastLayer(made, d, n) /\ d[n] = r
        /\ TokensOf(made, d) = TokensOf(made, c) \cup {k.token}
        /\ GesturesOf(made, d) = GesturesOf(made, c) \cup {k.gesture}
        /\ BinsOf(made, d) = (BinsOf(made, c) \cup {TimingBinOf(r)}) \ {NoToken}
        /\ LayersOf(made, c) = {} => TransitionsOf(made, d) = TransitionsOf(made, c)
        /\ \A i : LastLayer(made, c, i) =>
             TransitionsOf(made, d) = TransitionsOf(made, c) \cup {<<made[c[i].at].token, k.token>>}
    <3>1. LayerAdds(made, c, r, d)
      BY <1>4, LayerAppended
    <3> QED
      BY <3>1 DEF LayerAdds
  <2>3. k \in Kind /\ k.token \in MoveToken
    BY <1>4 DEF MadeInv, Kind
  <2>4. /\ k.token # NoToken /\ NoToken \notin seenTimingBins
        /\ previousLayerToken \in MoveToken \cup {NoToken}
    BY <2>3, EstimatorAssumption DEF EstimatorInv, EstimatorTypeOK
  <2>5. layerMoveCount' = Cardinality(LayersOf(made, d))
    <3>1. IsFiniteSet(LayersOf(made, c)) /\ layerMoveCount = Cardinality(LayersOf(made, c))
      BY LayersType DEF Describes, Figures
    <3>2. Cardinality(LayersOf(made, c) \cup {n}) = Cardinality(LayersOf(made, c)) + 1
      BY <2>2, <3>1, FS_AddElement
    <3>3. layerMoveCount' = layerMoveCount + 1
      BY <2>1 DEF AddLayer
    <3> QED
      BY <2>2, <3>1, <3>2, <3>3
  <2>6. /\ seenMoveTokens' = TokensOf(made, d)
        /\ seenGestureTokens' = GesturesOf(made, d)
        /\ previousLayerToken' = k.token
    BY <2>1, <2>2 DEF AddLayer, Describes, Figures
  <2>7. seenTimingBins' = BinsOf(made, d)
    <3>1. seenTimingBins' = With(TimingBinOf(r), seenTimingBins) /\ seenTimingBins = BinsOf(made, c)
      BY <2>1 DEF AddLayer, Describes, Figures
    <3> QED
      BY <2>2, <2>4, <3>1 DEF With
  <2>8. seenTransitions' = TransitionsOf(made, d)
    <3>1. seenTransitions = TransitionsOf(made, c)
      BY DEF Describes, Figures
    <3>2. CASE previousLayerToken = NoToken
      <4>1. LayersOf(made, c) = {}
        BY <3>2 DEF Describes, Figures
      <4>2. seenTransitions' = seenTransitions
        BY <2>1, <3>2 DEF AddLayer, With
      <4> QED
        BY <2>2, <3>1, <4>1, <4>2
    <3>3. CASE previousLayerToken # NoToken
      <4>1. PICK i : LastLayer(made, c, i) /\ made[c[i].at].token = previousLayerToken
        BY <3>3 DEF Describes, Figures
      <4>2. <<previousLayerToken, k.token>> # NoToken
        BY <2>3, <2>4, <3>3, EstimatorAssumption
      <4>3. seenTransitions' = With(<<previousLayerToken, k.token>>, seenTransitions)
        BY <2>1, <3>3 DEF AddLayer
      <4> QED
        BY <2>2, <3>1, <4>1, <4>2, <4>3 DEF With
    <3> QED
      BY <3>2, <3>3
  <2>9. LastLayer(made, d, n) /\ made[d[n].at].token = previousLayerToken'
    BY <2>2, <2>6
  <2> HIDE DEF d, n
  <2>10. Describes(Figures', made, d)
    BY <1>1, <1>2, <2>4, <2>5, <2>6, <2>7, <2>8, <2>9 DEF Describes, Figures
  <2> QED
    BY <2>10 DEF d
<1> QED
  BY <1>3, <1>4

\* An estimator whose figures describe a transcript publishes its estimate.
LEMMA DescribesEstimate ==
    ASSUME EstimatorInv', NEW recs, Describes(Figures', made', recs)
    PROVE  Snapshot' = EstimateOf(made', recs)
<1>1. /\ counted' = Len(recs) /\ layerMoveCount' = Cardinality(LayersOf(made', recs))
      /\ seenMoveTokens' = TokensOf(made', recs) /\ seenTransitions' = TransitionsOf(made', recs)
      /\ seenTimingBins' = BinsOf(made', recs) /\ seenGestureTokens' = GesturesOf(made', recs)
  BY DEF Describes, Figures
<1>2. score' = MinOf(Novelty', ESTIMATOR_CAP)
  BY DEF EstimatorInv, ScoreIsCappedNovelty
<1>3. Novelty' = 2 * Cardinality(TokensOf(made', recs)) + 2 * Cardinality(TransitionsOf(made', recs))
                   + Cardinality(BinsOf(made', recs)) + Cardinality(GesturesOf(made', recs))
  BY <1>1 DEF Novelty
<1>4. orbitCount' = counted' - layerMoveCount'
  BY DEF EstimatorInv, EstimatorTypeOK
<1> QED
  BY <1>1, <1>2, <1>3, <1>4 DEF Snapshot, EstimateOf

\* The figures describe the transcript of the session that accepts records,
\* whatever calls and late digests come between.
LEMMA FiguresStep ==
    ASSUME SessionInv, EstimatorInv, MadeInv, RecsMade, FiguresDescribe,
           [MeasurementNext]_measurementVars
    PROVE  FiguresDescribe'
<1>0. /\ active => opening = {} /\ digest = generation
      /\ generation \in 0..MaxGeneration /\ opening \subseteq 1..generation
      /\ chain \in [Session -> Seq(Rec)] /\ SessionTypeOK
  BY DEF SessionInv, DigestIsOwn, SessionTypeOK, CoreTypeOK, QueueTypeOK
<1>1. generation + 1 \notin opening /\ 1..MaxGeneration = Session
  BY <1>0, SessionAssumption DEF Session
<1>2. ASSUME Figures' = Figures, made' = made, Told' = Told,
             active' \/ generation' \in opening' => active \/ generation \in opening
      PROVE  FiguresDescribe'
  BY <1>2 DEF FiguresDescribe
<1>3. UNCHANGED estimatorVars => Figures' = Figures
  BY DEF estimatorVars, figures, Figures
<1>4. ASSUME UNCHANGED <<core, opening, chain>>, UNCHANGED estimatorVars, made' = made
      PROVE  FiguresDescribe'
  <2>1. Told' = Told
    BY <1>4, CoreUnchanged DEF Told
  <2>2. active' \/ generation' \in opening' => active \/ generation \in opening
    BY <1>4, CoreUnchanged
  <2> QED
    BY <1>2, <1>3, <1>4, <2>1, <2>2
<1>5. CASE MeasuredStart
  <2>1. Told' = <<>>
    BY <1>5 DEF MeasuredStart, Start, Told
  <2>2. ResetState
    BY <1>5 DEF MeasuredStart, Restart
  <2> QED
    BY <2>1, <2>2, DescribesNothing DEF FiguresDescribe
<1>6. CASE MeasuredRecord
  <2>1. PICK k \in Kind : made' = Append(made, k)
    BY <1>6 DEF MeasuredRecord
  <2>2. UNCHANGED <<core, opening, chain>> /\ UNCHANGED estimatorVars
    BY <1>6 DEF MeasuredRecord, Record, Unscored
  <2>3. Told' = Told /\ Figures' = Figures
    BY <1>3, <2>2, CoreUnchanged DEF Told
  <2>4. active' \/ generation' \in opening' => active \/ generation \in opening
    BY <2>2, CoreUnchanged
  <2>5. made \in Seq(Kind) /\ Len(made) = moves
    BY DEF MadeInv
  <2>6. ASSUME active \/ generation \in opening
        PROVE  Describes(Figures, Append(made, k), Told)
    <3>1. CASE active
      <4>1. digest \in Session
        BY <1>0, <3>1 DEF SessionTypeOK, CoreTypeOK
      <4>2. Told \in Seq(Rec) /\ \A i \in 1..Len(Told) : Told[i].at \in 1..Len(made)
        BY <1>0, <2>5, <3>1, <4>1 DEF Told, RecsMade
      <4> QED
        BY <2>5, <2>6, <4>2, DescribesLater DEF FiguresDescribe
    <3>2. CASE ~active
      <4>1. Told = <<>> /\ <<>> \in Seq(Rec) /\ 1..Len(<<>>) = {}
        BY <3>2 DEF Told
      <4>2. Told \in Seq(Rec) /\ \A i \in 1..Len(Told) : Told[i].at \in 1..Len(made)
        BY <4>1
      <4> QED
        BY <2>5, <2>6, <4>2, DescribesLater DEF FiguresDescribe
    <3> QED
      BY <3>1, <3>2
  <2> QED
    BY <2>1, <2>3, <2>4, <2>6 DEF FiguresDescribe
<1>7. CASE MeasuredSolve
  BY <1>4, <1>7 DEF MeasuredSolve, Solve, Unscored
<1>8. CASE MeasuredReset
  BY <1>1, <1>8 DEF MeasuredReset, Reset, FiguresDescribe
<1>9. ASSUME NEW g \in Session, MeasuredOpen(g) \/ MeasuredOpenFails(g)
      PROVE  FiguresDescribe'
  <2>1. /\ g \in opening /\ opening' = opening \ {g} /\ generation' = generation
        /\ chain' = chain /\ made' = made
    BY <1>9 DEF MeasuredOpen, MeasuredOpenFails, Open, OpenFails, Ready
  <2>2. ~active
    BY <1>0, <2>1
  <2>3. CASE g # generation
    <3>1. UNCHANGED active /\ UNCHANGED estimatorVars
      BY <1>9, <2>3 DEF MeasuredOpen, MeasuredOpenFails, Open, OpenFails, Unscored
    <3>2. Told' = Told
      BY <2>2, <3>1 DEF Told
    <3> QED
      BY <1>2, <1>3, <2>1, <2>2, <3>1, <3>2
  <2>4. CASE g = generation /\ MeasuredOpen(g)
    <3>1. chain[g] = <<>>
      BY <2>1 DEF SessionInv, Fresh
    <3>2. Told' = <<>> /\ Told = <<>>
      BY <2>1, <2>2, <2>4, <3>1 DEF Told
    <3>3. Figures' = Figures
      BY <2>4 DEF MeasuredOpen, Published, figures, Figures
    <3> QED
      BY <1>2, <2>1, <2>4, <3>2, <3>3
  <2>5. CASE g = generation /\ MeasuredOpenFails(g)
    <3>1. ~active' /\ generation' \notin opening'
      BY <2>1, <2>5 DEF MeasuredOpenFails, OpenFails
    <3> QED
      BY <3>1 DEF FiguresDescribe
  <2> QED
    BY <1>9, <2>3, <2>4, <2>5
<1>10. ASSUME NEW g \in Session, MeasuredRunDropped(g) \/ MeasuredRunRecord(g)
       PROVE  FiguresDescribe'
  BY <1>4, <1>10 DEF MeasuredRunDropped, MeasuredRunRecord, RunDropped, RunRecord, Unscored
<1>11. ASSUME NEW g \in Session, MeasuredRunSolve(g)
       PROVE  FiguresDescribe'
  BY <1>0, <1>11 DEF MeasuredRunSolve, RunSolve, FiguresDescribe
<1>12. ASSUME NEW g \in Session, MeasuredAppendFails(g)
       PROVE  FiguresDescribe'
  <2>1. inflight[g] # Null
    BY <1>12 DEF MeasuredAppendFails, AppendFails
  <2>2. CASE g = generation
    <3>1. active
      BY <2>1, <2>2 DEF SessionInv, PageIsCurrent
    <3> QED
      BY <1>0, <1>12, <2>2, <3>1 DEF MeasuredAppendFails, AppendFails, FiguresDescribe
  <2>3. CASE g # generation
    <3>1. /\ UNCHANGED active /\ UNCHANGED estimatorVars /\ made' = made
          /\ generation' = generation /\ opening' = opening /\ chain' = chain
      BY <1>12, <2>3 DEF MeasuredAppendFails, AppendFails
    <3>2. Told' = Told
      BY <3>1 DEF Told
    <3> QED
      BY <1>2, <1>3, <3>1, <3>2
  <2> QED
    BY <2>2, <2>3
<1>13. ASSUME NEW g \in Session, MeasuredAppend(g)
       PROVE  FiguresDescribe'
  <2>1. inflight[g] # Null /\ inflight[g].into = g
    BY <1>13 DEF MeasuredAppend, AppendDone, SessionInv, DigestIsOwn
  <2>2. inflight[g].rec \in Rec /\ inflight[g].rec.at \in 1..moves
    BY <2>1 DEF MadeInv, SessionInv, SessionTypeOK, QueueTypeOK
  <2> DEFINE r == inflight[g].rec
  <2>3. /\ chain' = [chain EXCEPT ![g] = Append(chain[g], r)]
        /\ generation' = generation /\ UNCHANGED active /\ opening' = opening /\ made' = made
    BY <1>13, <2>1 DEF MeasuredAppend, AppendDone
  <2>4. CASE g = generation
    <3>1. active /\ chain[g] \in Seq(Rec)
      BY <1>0, <2>1, <2>4 DEF SessionInv, PageIsCurrent
    <3>2. Scored(r)
      BY <1>13, <2>4 DEF MeasuredAppend
    <3>3. Told = chain[g] /\ Told' = Append(chain[g], r)
      BY <1>0, <2>3, <2>4, <3>1 DEF Told
    <3>4. Describes(Figures, made, chain[g])
      BY <3>1, <3>3 DEF FiguresDescribe
    <3>5. Describes(Figures', made, Append(chain[g], r))
      BY <2>2, <3>1, <3>2, <3>4, DescribesAdded
    <3> QED
      BY <2>3, <3>3, <3>5 DEF FiguresDescribe
  <2>5. CASE g # generation
    <3>1. UNCHANGED estimatorVars
      BY <1>13, <2>5 DEF MeasuredAppend, Unscored
    <3>2. Told' = Told
      BY <1>0, <2>3, <2>5 DEF Told
    <3> QED
      BY <1>2, <1>3, <2>3, <3>1, <3>2
  <2> QED
    BY <2>4, <2>5
<1>14. CASE UNCHANGED measurementVars
  BY <1>4, <1>14 DEF measurementVars, sessionVars
<1> QED
  BY <1>5, <1>6, <1>7, <1>8, <1>9, <1>10, <1>11, <1>12, <1>13, <1>14
     DEF MeasurementNext, Measured

\* What the panel shows as the estimate is computed from the records beside it.
LEMMA EstimateStep ==
    ASSUME SessionInv, SessionInv', EstimatorInv', MadeInv, RecsMade, FiguresDescribe',
           EstimateOfTranscript, [MeasurementNext]_measurementVars
    PROVE  EstimateOfTranscript'
<1>1. ASSUME estimate' = estimate, made' = made, shown'.recs = shown.recs
      PROVE  EstimateOfTranscript'
  BY <1>1 DEF EstimateOfTranscript
<1>2. ASSUME ResetState, estimate' = Snapshot', shown'.recs = <<>>
      PROVE  EstimateOfTranscript'
  BY <1>2, DescribesNothing, DescribesEstimate DEF EstimateOfTranscript
<1>3. ASSUME active', estimate' = Snapshot'
      PROVE  EstimateOfTranscript'
  <2>1. shown'.recs = Told'
    BY <1>3 DEF SessionInv, Pending, Told
  <2>2. Describes(Figures', made', Told')
    BY <1>3 DEF FiguresDescribe
  <2> QED
    BY <1>3, <2>1, <2>2, DescribesEstimate DEF EstimateOfTranscript
<1>4. \A s : Blank(s).recs = <<>>
  BY DEF Blank
<1>5. \A s, root, recs, n : Republished(s, root, recs, n).recs = recs
  BY DEF Republished
<1>6. CASE MeasuredStart \/ MeasuredSolve
  BY <1>1, <1>6 DEF MeasuredStart, MeasuredSolve, Start, Solve, Unscored
<1>7. CASE MeasuredRecord
  <2>1. PICK k \in Kind : made' = Append(made, k)
    BY <1>7 DEF MeasuredRecord
  <2>2. shown' = shown /\ estimate' = estimate
    BY <1>7 DEF MeasuredRecord, Record, Unscored
  <2>3. /\ made \in Seq(Kind) /\ shown.recs \in Seq(Rec)
        /\ \A i \in 1..Len(shown.recs) : shown.recs[i].at \in 1..Len(made)
    BY DEF MadeInv, RecsMade, SessionInv, SessionTypeOK, QueueTypeOK, Shown
  <2>4. EstimateOf(made', shown.recs) = EstimateOf(made, shown.recs)
    BY <2>1, <2>3, LaterMoves, ZenonT(30)
  <2> QED
    BY <2>2, <2>4 DEF EstimateOfTranscript
<1>8. CASE MeasuredReset
  BY <1>2, <1>4, <1>8 DEF MeasuredReset, Reset, Cleared
<1>9. ASSUME NEW g \in Session, MeasuredOpen(g) \/ MeasuredOpenFails(g)
      PROVE  EstimateOfTranscript'
  <2>1. CASE g # generation
    BY <1>1, <1>9, <2>1 DEF MeasuredOpen, MeasuredOpenFails, Open, OpenFails, Unscored
  <2>2. CASE g = generation /\ MeasuredOpen(g)
    BY <1>3, <2>2 DEF MeasuredOpen, Open
  <2>3. CASE g = generation /\ MeasuredOpenFails(g)
    BY <1>2, <1>4, <2>3 DEF MeasuredOpenFails, OpenFails, Cleared
  <2> QED
    BY <1>9, <2>1, <2>2, <2>3
<1>10. ASSUME NEW g \in Session, MeasuredRunDropped(g) \/ MeasuredRunRecord(g)
       PROVE  EstimateOfTranscript'
  BY <1>1, <1>10 DEF MeasuredRunDropped, MeasuredRunRecord, RunDropped, RunRecord, Unscored
<1>11. ASSUME NEW g \in Session, MeasuredRunSolve(g) \/ MeasuredAppendFails(g)
       PROVE  EstimateOfTranscript'
  BY <1>1, <1>5, <1>11 DEF MeasuredRunSolve, MeasuredAppendFails, RunSolve, AppendFails
<1>12. ASSUME NEW g \in Session, MeasuredAppend(g)
       PROVE  EstimateOfTranscript'
  <2>1. inflight[g] # Null /\ UNCHANGED active /\ made' = made
    BY <1>12 DEF MeasuredAppend, AppendDone
  <2>2. CASE g = generation
    <3>1. active'
      BY <2>1, <2>2 DEF SessionInv, PageIsCurrent
    <3> QED
      BY <1>3, <1>12, <2>2, <3>1 DEF MeasuredAppend
  <2>3. CASE g # generation
    BY <1>1, <1>12, <2>3 DEF MeasuredAppend, AppendDone, Unscored
  <2> QED
    BY <2>2, <2>3
<1>13. CASE UNCHANGED measurementVars
  BY <1>1, <1>13 DEF measurementVars, sessionVars
<1> QED
  BY <1>6, <1>7, <1>8, <1>9, <1>10, <1>11, <1>12, <1>13 DEF MeasurementNext, Measured

\* With the digests in order, the estimate on the panel is the one a reader
\* computes from the transcript whose digest is shown beside it, through
\* restarts, late and failed digests, resets and solves.
THEOREM StudyEstimateOfTranscript ==
    ASSUME InOrder
    PROVE  MeasurementSpec => []EstimateOfTranscript
<1>1. MeasurementInit => MadeInv /\ RecsMade /\ FiguresDescribe /\ EstimateOfTranscript
  <2> SUFFICES ASSUME MeasurementInit
               PROVE  MadeInv /\ RecsMade /\ FiguresDescribe /\ EstimateOfTranscript
    OBVIOUS
  <2>1. MadeInv /\ RecsMade /\ FiguresDescribe
    BY SessionAssumption
       DEF MeasurementInit, SessionInit, MadeInv, RecsMade, FiguresDescribe, Blank
  <2>2. /\ LayersOf(made, <<>>) = {} /\ Cardinality({}) = 0
        /\ Consecutive(made, <<>>) = {}
    BY FS_EmptySet DEF LayersOf, Consecutive
  <2>3. /\ TokensOf(made, <<>>) = {} /\ GesturesOf(made, <<>>) = {} /\ BinsOf(made, <<>>) = {}
        /\ TransitionsOf(made, <<>>) = {}
    BY <2>2 DEF TokensOf, GesturesOf, BinsOf, TransitionsOf
  <2>4. MinOf(2 * 0 + 2 * 0 + 0 + 0, ESTIMATOR_CAP) = 0 /\ Len(<<>>) - 0 = 0
    BY EstimatorAssumption DEF MinOf
  <2>5. EstimateOf(made, <<>>) =
          [score |-> 0, moves |-> 0, layers |-> 0, orbits |-> 0, transitions |-> 0]
    BY <2>2, <2>3, <2>4 DEF EstimateOf
  <2>6. estimate = [score |-> 0, moves |-> 0, layers |-> 0, orbits |-> 0, transitions |-> 0]
    BY <2>2 DEF Snapshot, MeasurementInit, EstimatorInit
  <2> QED
    BY <2>1, <2>5, <2>6 DEF EstimateOfTranscript, MeasurementInit, SessionInit, Blank
<1>2. /\ SessionInv /\ SessionInv' /\ EstimatorInv /\ EstimatorInv'
      /\ MadeInv /\ RecsMade /\ FiguresDescribe /\ EstimateOfTranscript
      /\ [MeasurementNext]_measurementVars /\ [SessionNext]_sessionVars
      => MadeInv' /\ RecsMade' /\ FiguresDescribe' /\ EstimateOfTranscript'
  <2>1. SessionInv => SessionTypeOK
    BY DEF SessionInv
  <2>2. SessionInv' => SessionTypeOK'
    BY DEF SessionInv
  <2> QED
    BY <2>1, <2>2, MadeStep, RecsMadeStep, FiguresStep, EstimateStep
<1> QED
  BY <1>1, <1>2, StudyIsSession, SessionInvariant, StudyFeedsEstimator, EstimatorInvariant, PTL
     DEF MeasurementSpec, SessionSpec
=============================================================================
