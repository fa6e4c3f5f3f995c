------------------------ MODULE EntropySessionProofs ------------------------
(***************************************************************************)
(* Proofs about the measurement session, for every number of sessions and  *)
(* moves.  What is proved under InOrder holds when the digests that        *)
(* start() creates are ready in the order asked; the run of                *)
(* MCEntropyReordered.cfg shows what happens when they are not.            *)
(***************************************************************************)
EXTENDS EntropySession, TLAPS

\* The published states are states.
LEMMA BlankIsShown ==
    ASSUME NEW s \in {"ready", "measuring", "solved", "error"}
    PROVE  Blank(s) \in Shown
BY DEF Blank, Shown

\* So is what publish(patch) makes of one.
LEMMA RepublishedIsShown ==
    ASSUME shown \in Shown,
           NEW s \in {"ready", "measuring", "solved", "error"},
           NEW d \in Session \cup {Null}, NEW rs \in Seq(Rec), NEW n \in Nat
    PROVE  Republished(s, d, rs, n) \in Shown
BY DEF Republished, Shown

----------------------------------------------------------------------------

\* What UNCHANGED core leaves alone.
LEMMA CoreUnchanged ==
    UNCHANGED core =>
        /\ generation' = generation
        /\ (active' <=> active)
        /\ sequence' = sequence
        /\ lastCommittedAt' = lastCommittedAt
        /\ salt' = salt
        /\ digest' = digest
        /\ recordCount' = recordCount
<1>1. UNCHANGED core => active' = active
    BY Zenon DEF core
<1>2. active' = active => (active' <=> active)
    OBVIOUS
<1>3. UNCHANGED core =>
        /\ generation' = generation
        /\ sequence' = sequence
        /\ lastCommittedAt' = lastCommittedAt
        /\ salt' = salt
        /\ digest' = digest
        /\ recordCount' = recordCount
    BY Zenon DEF core
<1> QED
    BY <1>1, <1>2, <1>3, Zenon

\* active stays a Boolean.
LEMMA ActiveStep ==
    ASSUME active \in BOOLEAN, [SessionNext]_sessionVars
    PROVE  active' \in BOOLEAN
<1>1. Start \/ Reset => active' \in BOOLEAN
    BY Zenon DEF Start, Reset
<1>2. Record \/ Solve => active' = active
    BY Zenon DEF Record, Solve, core
<1>3. ASSUME NEW g \in Session, Proceed(g)
      PROVE  active' \in BOOLEAN
  <2>1. Open(g) \/ OpenFails(g) \/ AppendFails(g) \/ RunSolve(g) => active' \in BOOLEAN
      BY Zenon DEF Open, OpenFails, AppendFails, RunSolve
  <2>2. RunDropped(g) \/ RunRecord(g) \/ AppendDone(g) => active' = active
      BY Zenon DEF RunDropped, RunRecord, AppendDone, core
  <2> QED
      BY <1>3, <2>1, <2>2, Zenon DEF Proceed
<1>4. UNCHANGED sessionVars => active' = active
    BY Zenon DEF sessionVars, core
<1> QED
    BY <1>1, <1>2, <1>3, <1>4, Zenon DEF SessionNext

\* The session's own variables keep their types.
LEMMA CoreStep ==
    ASSUME SessionTypeOK, [SessionNext]_sessionVars
    PROVE  CoreTypeOK'
<1> USE SessionAssumption DEF SessionTypeOK, CoreTypeOK
<1>1. CASE Start
    BY <1>1 DEF Start, Session
<1>2. CASE Record \/ Solve
    BY <1>2, CoreUnchanged DEF Record, Solve
<1>3. CASE Reset
    BY <1>3 DEF Reset
<1>4. ASSUME NEW g \in Session, Proceed(g)
      PROVE  CoreTypeOK'
  <2>1. CASE Open(g)
      BY <2>1 DEF Open, Ready, Session
  <2>5. CASE OpenFails(g)
      BY <2>5 DEF OpenFails, Ready, Session
  <2>2. CASE RunDropped(g) \/ RunRecord(g)
      BY <2>2, CoreUnchanged DEF RunDropped, RunRecord
  <2>3. CASE RunSolve(g) \/ AppendFails(g)
      BY <2>3 DEF RunSolve, AppendFails
  <2>4. CASE AppendDone(g)
    <3>1. inflight[g].rec.sequence \in Nat /\ inflight[g].rec.at \in Nat
        BY <2>4 DEF AppendDone, QueueTypeOK, Rec
    <3> QED
        BY <2>4, <3>1 DEF AppendDone
  <2> QED
      BY <1>4, <2>1, <2>2, <2>3, <2>4, <2>5 DEF Proceed
<1>5. CASE UNCHANGED sessionVars
    BY <1>5, CoreUnchanged DEF sessionVars
<1> QED
    BY <1>1, <1>2, <1>3, <1>4, <1>5 DEF SessionNext

\* The queues, the digests, the page and the histories keep their types.
LEMMA QueueStep ==
    ASSUME SessionTypeOK, [SessionNext]_sessionVars
    PROVE  QueueTypeOK'
<1> USE SessionAssumption DEF SessionTypeOK, QueueTypeOK, history
<1>1. CASE Start
    BY <1>1 DEF Start
<1>2. CASE Record
  <2>1. [kind |-> "record", at |-> moves + 1] \in Call
      BY DEF Call
  <2>2. queue' \in [Session -> Seq(Call)]
    <3>1. CASE generation \in Session
      <4>1. queue' = queue \/ queue' = [queue EXCEPT ![generation] =
                                    Append(@, [kind |-> "record", at |-> moves + 1])]
          BY <1>2 DEF Record
      <4>2. [queue EXCEPT ![generation] = Append(@, [kind |-> "record", at |-> moves + 1])]
                \in [Session -> Seq(Call)]
          BY <2>1, <3>1
      <4> QED
          BY <4>1, <4>2
    <3>2. CASE generation \notin Session
        BY <1>2, <2>1, <3>2 DEF Record
    <3> QED
        BY <3>1, <3>2
  <2>3. asked' \in [Session -> Seq(Nat)]
    <3>1. CASE generation \in Session
      <4>1. asked' = asked \/ asked' = [asked EXCEPT ![generation] = Append(@, moves + 1)]
          BY <1>2 DEF Record
      <4>2. [asked EXCEPT ![generation] = Append(@, moves + 1)] \in [Session -> Seq(Nat)]
          BY <3>1
      <4> QED
          BY <4>1, <4>2
    <3>2. CASE generation \notin Session
        BY <1>2, <3>2 DEF Record
    <3> QED
        BY <3>1, <3>2
  <2> QED
      BY <1>2, <2>2, <2>3 DEF Record
<1>3. CASE Solve
  <2>1. [kind |-> "solve", at |-> moves] \in Call
      BY DEF Call
  <2>2. queue' \in [Session -> Seq(Call)]
    <3>1. CASE generation \in Session
        BY <1>3, <2>1, <3>1 DEF Solve
    <3>2. CASE generation \notin Session
        BY <1>3, <2>1, <3>2 DEF Solve
    <3> QED
        BY <3>1, <3>2
  <2>3. solveCall' \in [Session -> Nat \cup {Null}]
    <3>1. CASE generation \in Session
        BY <1>3, <3>1 DEF Solve
    <3>2. CASE generation \notin Session
        BY <1>3, <3>2 DEF Solve
    <3> QED
        BY <3>1, <3>2
  <2> QED
      BY <1>3, <2>2, <2>3 DEF Solve
<1>4. CASE Reset
    BY <1>4, BlankIsShown DEF Reset
<1>5. ASSUME NEW g \in Session, Proceed(g)
      PROVE  QueueTypeOK'
  <2>1. CASE Open(g)
    <3>1. [status |-> "measuring", salt |-> salt, root |-> g,
           recs |-> chain[g], count |-> recordCount] \in Shown
        BY DEF Shown, CoreTypeOK
    <3> QED
        BY <2>1, <3>1 DEF Open
  <2>2. CASE OpenFails(g)
      BY <2>2, BlankIsShown DEF OpenFails
  <2>3. CASE RunDropped(g)
      BY <2>3 DEF RunDropped
  <2>4. CASE RunRecord(g)
    <3>1. Head(queue[g]) \in Call
        BY <2>4 DEF RunRecord, Running
    <3>2. [into |-> digest,
           rec  |-> [sequence |-> sequence + 1, at |-> Head(queue[g]).at,
                     prev |-> lastCommittedAt, of |-> g]]
            \in [into : Session, rec : Rec]
        BY <2>4, <3>1 DEF RunRecord, CoreTypeOK, Call, Rec
    <3> QED
        BY <2>4, <3>2 DEF RunRecord, Running
  <2>5. CASE RunSolve(g)
    <3>1. shown.root \in Session \cup {Null} /\ shown.recs \in Seq(Rec) /\ shown.count \in Nat
        BY DEF Shown
    <3>2. shown' \in Shown
        BY <2>5, <3>1, RepublishedIsShown DEF RunSolve
    <3> QED
        BY <2>5, <3>2 DEF RunSolve, Running
  <2>6. CASE AppendDone(g)
    <3>1. inflight[g].into \in Session /\ inflight[g].rec \in Rec
        BY <2>6 DEF AppendDone
    <3>2. /\ chain' \in [Session -> Seq(Rec)]
          /\ chain'[inflight[g].into] \in Seq(Rec)
      <4>1. chain' = [chain EXCEPT ![inflight[g].into] = Append(@, inflight[g].rec)]
          BY <2>6 DEF AppendDone
      <4>2. \A d \in Session, r \in Rec :
                /\ [chain EXCEPT ![d] = Append(@, r)] \in [Session -> Seq(Rec)]
                /\ [chain EXCEPT ![d] = Append(@, r)][d] \in Seq(Rec)
          OBVIOUS
      <4> QED
          BY <3>1, <4>1, <4>2
    <3>3. shown.status \in {"ready", "measuring", "solved", "error"}
        BY DEF Shown
    <3>4. recordCount + 1 \in Nat
        BY DEF CoreTypeOK
    <3>5. shown' \in Shown
      <4>1. CASE g = generation
        <5>1. shown' = Republished(shown.status, inflight[g].into,
                                   chain'[inflight[g].into], recordCount + 1)
            BY <2>6, <4>1 DEF AppendDone
        <5> QED
            BY <3>1, <3>2, <3>3, <3>4, <5>1, RepublishedIsShown
      <4>2. CASE g # generation
          BY <2>6, <4>2 DEF AppendDone
      <4> QED
          BY <4>1, <4>2
    <3> QED
        BY <2>6, <3>2, <3>5 DEF AppendDone
  <2>7. CASE AppendFails(g)
    <3>1. shown.root \in Session \cup {Null} /\ shown.recs \in Seq(Rec) /\ shown.count \in Nat
        BY DEF Shown
    <3>2. shown' \in Shown
      <4>1. CASE g = generation
        <5>1. shown' = Republished("error", shown.root, shown.recs, shown.count)
            BY <2>7, <4>1 DEF AppendFails
        <5> QED
            BY <3>1, <5>1, RepublishedIsShown
      <4>2. CASE g # generation
          BY <2>7, <4>2 DEF AppendFails
      <4> QED
          BY <4>1, <4>2
    <3> QED
        BY <2>7, <3>2 DEF AppendFails
  <2> QED
      BY <1>5, <2>1, <2>2, <2>3, <2>4, <2>5, <2>6, <2>7 DEF Proceed
<1>6. CASE UNCHANGED sessionVars
    BY <1>6 DEF sessionVars
<1> QED
    BY <1>1, <1>2, <1>3, <1>4, <1>5, <1>6 DEF SessionNext

\* Every variable of the session has its type, whatever the order in which
\* digests are ready.
THEOREM SessionTypeCorrect == SessionSpec => []SessionTypeOK
<1>1. SessionInit => SessionTypeOK
  <2> SUFFICES ASSUME SessionInit PROVE SessionTypeOK
      OBVIOUS
  <2>1. CoreTypeOK
      BY SessionAssumption DEF SessionInit, CoreTypeOK
  <2>2. QueueTypeOK
      BY BlankIsShown DEF SessionInit, QueueTypeOK
  <2>3. active \in BOOLEAN
      BY Zenon DEF SessionInit
  <2> QED
      BY <2>1, <2>2, <2>3, Zenon DEF SessionTypeOK
<1>2. SessionTypeOK /\ [SessionNext]_sessionVars => SessionTypeOK'
    BY ActiveStep, CoreStep, QueueStep, Zenon DEF SessionTypeOK
<1> QED
    BY <1>1, <1>2, PTL DEF SessionSpec

----------------------------------------------------------------------------
(* Records and digests *)

\* While a session accepts records no start waits, so nothing will replace its
\* digest, and whatever is being appended goes to the digest of its own queue.
DigestIsOwn ==
    /\ active => opening = {} /\ digest = generation
    /\ \A g \in Session : inflight[g] # Null =>
            inflight[g].into = g /\ inflight[g].rec.of = g

\* One step, under InOrder, keeps each session to its own digest.
LEMMA DigestIsOwnStep ==
    ASSUME InOrder, SessionTypeOK, DigestIsOwn, [SessionNext]_sessionVars
    PROVE  DigestIsOwn'
<1> USE DEF DigestIsOwn
<1>1. CASE Start \/ Reset
  <2>1. ~active' /\ inflight' = inflight
      BY <1>1 DEF Start, Reset
  <2> QED
      BY <2>1
<1>2. CASE Record \/ Solve
    BY <1>2, CoreUnchanged DEF Record, Solve
<1>3. ASSUME NEW g \in Session, Proceed(g)
      PROVE  DigestIsOwn'
  <2>1. CASE Open(g)
    <3>1. inflight' = inflight
        BY <2>1 DEF Open
    <3>2. CASE g = generation
      <4>1. opening \subseteq 1..generation /\ generation \in Int
          BY SessionAssumption DEF SessionTypeOK, CoreTypeOK
      <4>2. \A h \in opening : g <= h
          BY <2>1 DEF Open, Ready
      <4>3. \A h \in opening : h = g
          BY <3>2, <4>1, <4>2
      <4>4. opening' = {} /\ digest' = generation'
          BY <2>1, <3>2, <4>3 DEF Open
      <4> QED
          BY <3>1, <4>4
    <3>3. CASE g # generation
      <4>1. ~active
          BY <2>1 DEF Open, Ready
      <4>2. active' = active
          BY <2>1, <3>3, Zenon DEF Open
      <4>3. ~active'
          BY <4>1, <4>2, Zenon
      <4> QED
          BY <3>1, <4>3
    <3> QED
        BY <3>2, <3>3
  <2>2. CASE OpenFails(g)
    <3>1. ~active
        BY <2>2 DEF OpenFails, Ready
    <3>2. active' = FALSE \/ active' = active
        BY <2>2, Zenon DEF OpenFails
    <3>3. ~active'
        BY <3>1, <3>2, Zenon
    <3>4. inflight' = inflight
        BY <2>2 DEF OpenFails
    <3> QED
        BY <3>3, <3>4
  <2>3. CASE RunDropped(g)
      BY <2>3, CoreUnchanged DEF RunDropped
  <2>4. CASE RunRecord(g)
    <3>1. digest = g /\ opening' = opening
        BY <2>4 DEF RunRecord
    <3>2. inflight'[g].into = g /\ inflight'[g].rec.of = g
        BY <2>4, <3>1 DEF RunRecord, SessionTypeOK, QueueTypeOK
    <3>3. \A h \in Session \ {g} : inflight'[h] = inflight[h]
        BY <2>4 DEF RunRecord, SessionTypeOK, QueueTypeOK
    <3>4. UNCHANGED core
        BY <2>4 DEF RunRecord
    <3> QED
        BY <3>1, <3>2, <3>3, <3>4, CoreUnchanged
  <2>5. CASE RunSolve(g)
      BY <2>5 DEF RunSolve
  <2>6. CASE AppendDone(g) \/ AppendFails(g)
    <3>1. \A h \in Session : inflight'[h] # Null => inflight'[h] = inflight[h]
        BY <2>6 DEF AppendDone, AppendFails, SessionTypeOK, QueueTypeOK
    <3>2. opening' = opening /\ digest' = digest /\ generation' = generation
        BY <2>6 DEF AppendDone, AppendFails
    <3>3. active' = FALSE \/ active' = active
        BY <2>6, Zenon DEF AppendDone, AppendFails
    <3>4. active' => active
        BY <3>3, Zenon
    <3> QED
        BY <3>1, <3>2, <3>4
  <2> QED
      BY <1>3, <2>1, <2>2, <2>3, <2>4, <2>5, <2>6 DEF Proceed
<1>4. CASE UNCHANGED sessionVars
    BY <1>4, CoreUnchanged DEF sessionVars
<1> QED
    BY <1>1, <1>2, <1>3, <1>4 DEF SessionNext

\* What a step does to the transcripts: nothing, or one record at the end of
\* one of them.
LEMMA ChainStep ==
    ASSUME SessionTypeOK, DigestIsOwn, [SessionNext]_sessionVars
    PROVE  \/ chain' = chain
           \/ \E g \in Session :
                /\ AppendDone(g)
                /\ inflight[g].into = g /\ inflight[g].rec \in Rec /\ inflight[g].rec.of = g
                /\ chain'[g] = Append(chain[g], inflight[g].rec)
                /\ \A d \in Session \ {g} : chain'[d] = chain[d]
<1>1. ASSUME NEW g \in Session, AppendDone(g)
      PROVE  /\ inflight[g].into = g /\ inflight[g].rec \in Rec /\ inflight[g].rec.of = g
             /\ chain'[g] = Append(chain[g], inflight[g].rec)
             /\ \A d \in Session \ {g} : chain'[d] = chain[d]
  <2>1. inflight[g].into = g /\ inflight[g].rec \in Rec /\ inflight[g].rec.of = g
      BY <1>1 DEF AppendDone, DigestIsOwn, SessionTypeOK, QueueTypeOK
  <2>2. chain' = [chain EXCEPT ![g] = Append(@, inflight[g].rec)]
      BY <1>1, <2>1 DEF AppendDone
  <2> QED
      BY <2>1, <2>2 DEF SessionTypeOK, QueueTypeOK
<1>2. Start \/ Reset \/ Record \/ Solve \/ UNCHANGED sessionVars => chain' = chain
    BY DEF Start, Reset, Record, Solve, sessionVars
<1>3. ASSUME NEW g \in Session, Proceed(g), ~AppendDone(g)
      PROVE  chain' = chain
    BY <1>3 DEF Proceed, Open, OpenFails, RunDropped, RunRecord, RunSolve, AppendFails
<1> QED
    BY <1>1, <1>2, <1>3 DEF SessionNext, Proceed

\* A record enters only the digest of the session it was made in.
THEOREM SessionRecordsOwnDigest ==
    ASSUME InOrder
    PROVE  SessionSpec => []RecordsEnterOwnDigest
<1>1. SessionInit => DigestIsOwn /\ RecordsEnterOwnDigest
    BY DEF SessionInit, DigestIsOwn, RecordsEnterOwnDigest
<1>2. ASSUME SessionTypeOK, DigestIsOwn, RecordsEnterOwnDigest, [SessionNext]_sessionVars
      PROVE  RecordsEnterOwnDigest'
  <2>1. CASE chain' = chain
      BY <1>2, <2>1 DEF RecordsEnterOwnDigest
  <2>2. ASSUME NEW g \in Session,
               inflight[g].rec \in Rec, inflight[g].rec.of = g,
               chain'[g] = Append(chain[g], inflight[g].rec),
               \A d \in Session \ {g} : chain'[d] = chain[d]
        PROVE  RecordsEnterOwnDigest'
    <3>1. chain[g] \in Seq(Rec)
        BY <1>2 DEF SessionTypeOK, QueueTypeOK
    <3>2. \A i \in 1..Len(chain'[g]) : chain'[g][i].of = g
        BY <1>2, <2>2, <3>1 DEF RecordsEnterOwnDigest
    <3> QED
        BY <1>2, <2>2, <3>2 DEF RecordsEnterOwnDigest
  <2> QED
      BY <1>2, <2>1, <2>2, ChainStep
<1>3. SessionTypeOK /\ DigestIsOwn /\ RecordsEnterOwnDigest /\ [SessionNext]_sessionVars
        => DigestIsOwn' /\ RecordsEnterOwnDigest'
    BY <1>2, DigestIsOwnStep
<1> QED
    BY <1>1, <1>3, SessionTypeCorrect, PTL DEF SessionSpec

----------------------------------------------------------------------------
(* The transcript *)

\* A session that is not open yet has no record, and the newest of them finds
\* the counters as start() left them.
Fresh ==
    /\ \A g \in Session : g \in opening \/ g > generation =>
            chain[g] = <<>> /\ inflight[g] = Null
    /\ generation \in opening =>
            /\ sequence = 0
            /\ lastCommittedAt = Null
            /\ recordCount = 0
            /\ salt = generation

LEMMA FreshStep ==
    ASSUME SessionTypeOK, DigestIsOwn, Fresh, [SessionNext]_sessionVars
    PROVE  Fresh'
<1> USE DEF Fresh
<1>1. opening \subseteq 1..generation /\ generation \in 0..MaxGeneration
    BY DEF SessionTypeOK, CoreTypeOK
<1>2. CASE Start
    BY <1>1, <1>2, SessionAssumption DEF Start, Session
<1>3. CASE Reset
    BY <1>1, <1>3, SessionAssumption DEF Reset, Session
<1>4. CASE Record \/ Solve
    BY <1>4, CoreUnchanged DEF Record, Solve
<1>5. ASSUME NEW g \in Session, Proceed(g)
      PROVE  Fresh'
  <2>1. CASE Open(g)
      BY <2>1 DEF Open
  <2>2. CASE OpenFails(g)
      BY <2>2 DEF OpenFails
  <2>3. CASE RunDropped(g)
      BY <2>3, CoreUnchanged DEF RunDropped
  <2>4. CASE RunRecord(g)
    <3>1. opening = {} /\ g = generation
        BY <2>4 DEF RunRecord, DigestIsOwn
    <3>2. \A h \in Session \ {g} : inflight'[h] = inflight[h]
        BY <2>4 DEF RunRecord, SessionTypeOK, QueueTypeOK
    <3>3. UNCHANGED core /\ opening' = opening /\ chain' = chain
        BY <2>4 DEF RunRecord
    <3> QED
        BY <1>1, <3>1, <3>2, <3>3, CoreUnchanged
  <2>5. CASE RunSolve(g)
      BY <2>5 DEF RunSolve
  <2>6. CASE AppendDone(g)
    <3>1. g \notin opening /\ ~(g > generation)
        BY <2>6 DEF AppendDone
    <3>2. \A h \in Session \ {g} : inflight'[h] = inflight[h] /\ chain'[h] = chain[h]
      <4>1. inflight[g].into = g
          BY <2>6 DEF AppendDone, DigestIsOwn
      <4> QED
          BY <2>6, <4>1 DEF AppendDone, SessionTypeOK, QueueTypeOK
    <3>3. /\ opening' = opening /\ generation' = generation /\ salt' = salt
          /\ g # generation => UNCHANGED <<sequence, lastCommittedAt, recordCount>>
        BY <2>6 DEF AppendDone
    <3> QED
        BY <3>1, <3>2, <3>3
  <2>7. CASE AppendFails(g)
    <3>1. g \notin opening /\ ~(g > generation)
        BY <2>7 DEF AppendFails
    <3>2. \A h \in Session \ {g} : inflight'[h] = inflight[h]
        BY <2>7 DEF AppendFails, SessionTypeOK, QueueTypeOK
    <3>3. /\ opening' = opening /\ generation' = generation /\ salt' = salt
          /\ chain' = chain /\ UNCHANGED <<sequence, lastCommittedAt, recordCount>>
        BY <2>7 DEF AppendFails
    <3> QED
        BY <3>1, <3>2, <3>3
  <2> QED
      BY <1>5, <2>1, <2>2, <2>3, <2>4, <2>5, <2>6, <2>7 DEF Proceed
<1>6. CASE UNCHANGED sessionVars
    BY <1>6, CoreUnchanged DEF sessionVars
<1> QED
    BY <1>2, <1>3, <1>4, <1>5, <1>6 DEF SessionNext

\* When the last record of a transcript was committed.
LastAt(c) == IF Len(c) = 0 THEN Null ELSE c[Len(c)].at

\* The counters describe the transcript of the active session, and a record
\* under way continues the transcript of its digest.
Linked ==
    /\ \A g \in Session : inflight[g] # Null =>
            /\ inflight[g].rec.sequence = Len(chain[g]) + 1
            /\ inflight[g].rec.prev = LastAt(chain[g])
    /\ active => /\ sequence = Len(chain[generation])
                 /\ lastCommittedAt = LastAt(chain[generation])

LEMMA LinkedStep ==
    ASSUME SessionTypeOK, DigestIsOwn, Fresh, Linked, TranscriptLinked,
           [SessionNext]_sessionVars
    PROVE  Linked' /\ TranscriptLinked'
<1> USE DEF Linked
<1>1. \A g \in Session : chain[g] \in Seq(Rec)
    BY DEF SessionTypeOK, QueueTypeOK
<1>2. chain' = chain => TranscriptLinked'
    BY DEF TranscriptLinked
<1>3. CASE Start \/ Reset
  <2>1. ~active' /\ inflight' = inflight /\ chain' = chain
      BY <1>3 DEF Start, Reset
  <2> QED
      BY <1>2, <2>1
<1>4. CASE Record \/ Solve
    BY <1>2, <1>4, CoreUnchanged DEF Record, Solve
<1>5. ASSUME NEW g \in Session, Proceed(g)
      PROVE  Linked' /\ TranscriptLinked'
  <2>1. CASE Open(g)
    <3>1. /\ inflight' = inflight /\ chain' = chain /\ sequence' = sequence
          /\ lastCommittedAt' = lastCommittedAt /\ generation' = generation
        BY <2>1 DEF Open
    <3>2. CASE g = generation
      <4>1. chain[g] = <<>> /\ sequence = 0 /\ lastCommittedAt = Null
          BY <2>1, <3>2 DEF Open, Ready, Fresh
      <4> QED
          BY <1>2, <3>1, <3>2, <4>1 DEF LastAt
    <3>3. CASE g # generation
      <4>1. active' = active
          BY <2>1, <3>3, Zenon DEF Open
      <4>2. active' => active
          BY <4>1, Zenon
      <4> QED
          BY <1>2, <3>1, <4>2
    <3> QED
        BY <3>2, <3>3
  <2>2. CASE OpenFails(g)
    <3>1. active' = FALSE \/ active' = active
        BY <2>2, Zenon DEF OpenFails
    <3>2. active' => active
        BY <3>1, Zenon
    <3> QED
        BY <1>2, <2>2, <3>2 DEF OpenFails
  <2>3. CASE RunDropped(g)
      BY <1>2, <2>3, CoreUnchanged DEF RunDropped
  <2>4. CASE RunRecord(g)
    <3>1. /\ inflight'[g].rec.sequence = Len(chain[g]) + 1
          /\ inflight'[g].rec.prev = LastAt(chain[g])
        BY <2>4 DEF RunRecord, SessionTypeOK, QueueTypeOK
    <3>2. \A h \in Session \ {g} : inflight'[h] = inflight[h]
        BY <2>4 DEF RunRecord, SessionTypeOK, QueueTypeOK
    <3>3. UNCHANGED core /\ chain' = chain
        BY <2>4 DEF RunRecord
    <3> QED
        BY <1>2, <3>1, <3>2, <3>3, CoreUnchanged
  <2>5. CASE RunSolve(g)
      BY <1>2, <2>5 DEF RunSolve
  <2>6. CASE AppendDone(g)
    <3> DEFINE r == inflight[g].rec
    <3>1. /\ r \in Rec /\ inflight[g].into = g
          /\ r.sequence = Len(chain[g]) + 1 /\ r.prev = LastAt(chain[g])
        BY <2>6 DEF AppendDone, DigestIsOwn, SessionTypeOK, QueueTypeOK
    <3>2. /\ chain'[g] = Append(chain[g], r)
          /\ \A h \in Session \ {g} : inflight'[h] = inflight[h] /\ chain'[h] = chain[h]
          /\ inflight'[g] = Null
        BY <2>6, <3>1 DEF AppendDone, SessionTypeOK, QueueTypeOK
    <3>3. Len(chain'[g]) = Len(chain[g]) + 1 /\ LastAt(chain'[g]) = r.at
        BY <1>1, <3>1, <3>2 DEF LastAt
    <3>4. active' = active /\ generation' = generation
        BY <2>6, Zenon DEF AppendDone
    <3>5. active' => active
        BY <3>4, Zenon
    <3>6. ASSUME g = generation PROVE Linked'
      <4>1. sequence' = r.sequence /\ lastCommittedAt' = r.at
          BY <2>6, <3>6 DEF AppendDone
      <4> QED
          BY <3>1, <3>2, <3>3, <3>4, <3>6, <4>1
    <3>7. ASSUME g # generation PROVE Linked'
      <4>1. sequence' = sequence /\ lastCommittedAt' = lastCommittedAt
          BY <2>6, <3>7 DEF AppendDone
      <4>2. active => generation \in Session
          BY DEF DigestIsOwn, SessionTypeOK, CoreTypeOK
      <4> QED
          BY <3>2, <3>4, <3>5, <3>7, <4>1, <4>2
    <3>8. TranscriptLinked'
      <4>1. \A i \in 1..Len(chain'[g]) :
                /\ chain'[g][i].sequence = i
                /\ chain'[g][i].prev = IF i = 1 THEN Null ELSE chain'[g][i - 1].at
        <5> SUFFICES ASSUME NEW i \in 1..Len(chain'[g])
                     PROVE  /\ chain'[g][i].sequence = i
                            /\ chain'[g][i].prev = IF i = 1 THEN Null ELSE chain'[g][i - 1].at
            OBVIOUS
        <5>1. Len(chain[g]) \in Nat
            BY <1>1
        <5>2. CASE i <= Len(chain[g])
          <6>1. chain'[g][i] = chain[g][i] /\ (i # 1 => chain'[g][i - 1] = chain[g][i - 1])
              BY <1>1, <3>1, <3>2, <5>1, <5>2
          <6> QED
              BY <5>1, <5>2, <6>1 DEF TranscriptLinked
        <5>3. CASE i = Len(chain[g]) + 1
          <6>1. chain'[g][i] = r /\ (i # 1 => chain'[g][i - 1] = chain[g][i - 1])
              BY <1>1, <3>1, <3>2, <5>1, <5>3
          <6> QED
              BY <3>1, <5>1, <5>3, <6>1 DEF LastAt
        <5> QED
            BY <3>3, <5>1, <5>2, <5>3
      <4>2. ASSUME NEW d \in Session, d # g
            PROVE  \A i \in 1..Len(chain'[d]) :
                      /\ chain'[d][i].sequence = i
                      /\ chain'[d][i].prev = IF i = 1 THEN Null ELSE chain'[d][i - 1].at
        <5>1. chain'[d] = chain[d]
            BY <3>2, <4>2
        <5> QED
            BY <5>1 DEF TranscriptLinked
      <4> QED
          BY <4>1, <4>2 DEF TranscriptLinked
    <3> QED
        BY <3>6, <3>7, <3>8
  <2>7. CASE AppendFails(g)
    <3>1. \A h \in Session : inflight'[h] # Null => inflight'[h] = inflight[h]
        BY <2>7 DEF AppendFails, SessionTypeOK, QueueTypeOK
    <3>2. active' = FALSE \/ active' = active
        BY <2>7, Zenon DEF AppendFails
    <3>3. active' => active
        BY <3>2, Zenon
    <3>4. /\ chain' = chain /\ sequence' = sequence /\ generation' = generation
          /\ lastCommittedAt' = lastCommittedAt
        BY <2>7 DEF AppendFails
    <3> QED
        BY <1>2, <3>1, <3>3, <3>4
  <2> QED
      BY <1>5, <2>1, <2>2, <2>3, <2>4, <2>5, <2>6, <2>7 DEF Proceed
<1>6. CASE UNCHANGED sessionVars
    BY <1>2, <1>6, CoreUnchanged DEF sessionVars
<1> QED
    BY <1>3, <1>4, <1>5, <1>6 DEF SessionNext

\* The records of every digest are numbered without a gap and each is timed
\* against the one before it.
THEOREM SessionTranscriptLinked ==
    ASSUME InOrder
    PROVE  SessionSpec => []TranscriptLinked
<1>1. SessionInit => DigestIsOwn /\ Fresh /\ Linked /\ TranscriptLinked
    BY DEF SessionInit, DigestIsOwn, Fresh, Linked, TranscriptLinked
<1>2. /\ SessionTypeOK /\ DigestIsOwn /\ Fresh /\ Linked /\ TranscriptLinked
      /\ [SessionNext]_sessionVars
      => DigestIsOwn' /\ Fresh' /\ Linked' /\ TranscriptLinked'
    BY DigestIsOwnStep, FreshStep, LinkedStep
<1> QED
    BY <1>1, <1>2, SessionTypeCorrect, PTL DEF SessionSpec

----------------------------------------------------------------------------
(* The page *)

\* The page shows the session that accepts records, and the estimator has
\* counted what entered its digest; only that session has a record under way
\* among those of its generation.
PageIsCurrent ==
    /\ active => /\ shown.root = generation
                 /\ shown.salt = generation
                 /\ recordCount = Len(chain[generation])
    /\ \A g \in Session : g = generation /\ inflight[g] # Null => active

LEMMA PageStep ==
    ASSUME SessionTypeOK, DigestIsOwn, Fresh, PageIsCurrent, ShownIsOneSession,
           RecordsEnterOwnDigest', [SessionNext]_sessionVars
    PROVE  PageIsCurrent' /\ ShownIsOneSession'
<1> USE DEF PageIsCurrent
<1>1. \A g \in Session : chain[g] \in Seq(Rec)
    BY DEF SessionTypeOK, QueueTypeOK
<1>2. shown' = shown => ShownIsOneSession'
    BY DEF ShownIsOneSession
<1>3. \A s : Blank(s).root = Null
    BY DEF Blank
<1>4. CASE Start
  <2>1. generation + 1 \in Session /\ generation + 1 > generation
      BY <1>4, SessionAssumption DEF Start, Session, SessionTypeOK, CoreTypeOK
  <2>2. inflight[generation + 1] = Null
      BY <2>1 DEF Fresh
  <2> QED
      BY <1>2, <1>4, <2>2 DEF Start
<1>5. CASE Reset
  <2>1. generation + 1 \in Session /\ generation + 1 > generation
      BY <1>5, SessionAssumption DEF Reset, Session, SessionTypeOK, CoreTypeOK
  <2>2. inflight[generation + 1] = Null
      BY <2>1 DEF Fresh
  <2>3. ShownIsOneSession'
      BY <1>3, <1>5 DEF Reset, ShownIsOneSession
  <2> QED
      BY <1>5, <2>2, <2>3 DEF Reset
<1>6. CASE Record \/ Solve
    BY <1>2, <1>6, CoreUnchanged DEF Record, Solve
<1>7. ASSUME NEW g \in Session, Proceed(g)
      PROVE  PageIsCurrent' /\ ShownIsOneSession'
  <2>1. CASE Open(g)
    <3>1. inflight' = inflight /\ chain' = chain /\ generation' = generation
          /\ recordCount' = recordCount
        BY <2>1 DEF Open
    <3>2. CASE g = generation
      <4>1. /\ chain[g] = <<>> /\ recordCount = 0 /\ salt = generation
            /\ inflight[g] = Null
          BY <2>1, <3>2 DEF Open, Ready, Fresh
      <4>2. /\ shown'.root = g /\ shown'.salt = generation
            /\ shown'.recs = <<>> /\ shown'.count = 0
          BY <2>1, <3>2, <4>1 DEF Open
      <4>3. PageIsCurrent'
          BY <3>1, <3>2, <4>1, <4>2
      <4>4. ShownIsOneSession'
          BY <3>2, <4>2 DEF ShownIsOneSession
      <4> QED
          BY <4>3, <4>4
    <3>3. CASE g # generation
      <4>1. active' = active /\ shown' = shown
          BY <2>1, <3>3, Zenon DEF Open
      <4>2. active' <=> active
          BY <4>1
      <4> QED
          BY <1>2, <3>1, <4>1, <4>2
    <3> QED
        BY <3>2, <3>3
  <2>2. CASE OpenFails(g)
    <3>1. inflight' = inflight /\ chain' = chain /\ generation' = generation
        BY <2>2 DEF OpenFails
    <3>2. CASE g = generation
      <4>1. inflight[g] = Null
          BY <2>2 DEF OpenFails, Ready, Fresh
      <4>2. ~active' /\ shown' = Blank("error")
          BY <2>2, <3>2 DEF OpenFails
      <4>3. ShownIsOneSession'
          BY <1>3, <4>2 DEF ShownIsOneSession
      <4> QED
          BY <3>1, <3>2, <4>1, <4>2, <4>3
    <3>3. CASE g # generation
      <4>1. active' = active /\ shown' = shown /\ recordCount' = recordCount
          BY <2>2, <3>3, Zenon DEF OpenFails
      <4>2. active' <=> active
          BY <4>1
      <4> QED
          BY <1>2, <3>1, <4>1, <4>2
    <3> QED
        BY <3>2, <3>3
  <2>3. CASE RunDropped(g)
      BY <1>2, <2>3, CoreUnchanged DEF RunDropped
  <2>4. CASE RunRecord(g)
    <3>1. active /\ g = generation
        BY <2>4 DEF RunRecord
    <3>2. UNCHANGED core /\ chain' = chain /\ shown' = shown
        BY <2>4 DEF RunRecord
    <3> QED
        BY <1>2, <3>1, <3>2, CoreUnchanged
  <2>5. CASE RunSolve(g)
    <3>1. /\ ~active' /\ inflight' = inflight /\ inflight[g] = Null
          /\ g = generation /\ generation' = generation
          /\ shown' = Republished("solved", shown.root, shown.recs, shown.count)
        BY <2>5 DEF RunSolve, Running
    <3>2. ShownIsOneSession'
        BY <3>1 DEF Republished, ShownIsOneSession
    <3> QED
        BY <3>1, <3>2
  <2>6. CASE AppendDone(g)
    <3> DEFINE r == inflight[g].rec
    <3>1. r \in Rec /\ inflight[g].into = g
        BY <2>6 DEF AppendDone, DigestIsOwn, SessionTypeOK, QueueTypeOK
    <3>2. /\ chain'[g] = Append(chain[g], r)
          /\ \A h \in Session \ {g} : inflight'[h] = inflight[h] /\ chain'[h] = chain[h]
          /\ inflight'[g] = Null
        BY <2>6, <3>1 DEF AppendDone, SessionTypeOK, QueueTypeOK
    <3>3. Len(chain'[g]) = Len(chain[g]) + 1
        BY <1>1, <3>1, <3>2
    <3>4. active' = active /\ generation' = generation
        BY <2>6, Zenon DEF AppendDone
    <3>5. active' <=> active
        BY <3>4
    <3>6. CASE g = generation
      <4>1. active
          BY <2>6, <3>6 DEF AppendDone
      <4>2. /\ recordCount' = recordCount + 1
            /\ shown' = Republished(shown.status, g, chain'[g], recordCount + 1)
          BY <2>6, <3>1, <3>6 DEF AppendDone
      <4>3. /\ shown'.root = generation /\ shown'.salt = generation
            /\ shown'.recs = chain'[g] /\ shown'.count = Len(chain'[g])
          BY <3>3, <3>6, <4>1, <4>2 DEF Republished
      <4>4. PageIsCurrent'
          BY <3>2, <3>3, <3>4, <3>6, <4>1, <4>2, <4>3
      <4>5. \A i \in 1..Len(chain'[g]) : chain'[g][i].of = g
          BY DEF RecordsEnterOwnDigest
      <4>6. ShownIsOneSession'
          BY <3>6, <4>3, <4>5 DEF ShownIsOneSession
      <4> QED
          BY <4>4, <4>6
    <3>7. CASE g # generation
      <4>1. recordCount' = recordCount /\ shown' = shown
          BY <2>6, <3>7 DEF AppendDone
      <4>2. active => generation \in Session
          BY DEF DigestIsOwn, SessionTypeOK, CoreTypeOK
      <4> QED
          BY <1>2, <3>2, <3>4, <3>5, <3>7, <4>1, <4>2
    <3> QED
        BY <3>6, <3>7
  <2>7. CASE AppendFails(g)
    <3>1. /\ \A h \in Session \ {g} : inflight'[h] = inflight[h]
          /\ inflight'[g] = Null
        BY <2>7 DEF AppendFails, SessionTypeOK, QueueTypeOK
    <3>2. chain' = chain /\ generation' = generation /\ recordCount' = recordCount
        BY <2>7 DEF AppendFails
    <3>3. CASE g = generation
      <4>1. /\ ~active'
            /\ shown' = Republished("error", shown.root, shown.recs, shown.count)
          BY <2>7, <3>3 DEF AppendFails
      <4>2. ShownIsOneSession'
          BY <4>1 DEF Republished, ShownIsOneSession
      <4> QED
          BY <3>1, <3>2, <3>3, <4>1, <4>2
    <3>4. CASE g # generation
      <4>1. active' = active /\ shown' = shown
          BY <2>7, <3>4, Zenon DEF AppendFails
      <4>2. active' <=> active
          BY <4>1
      <4> QED
          BY <1>2, <3>1, <3>2, <3>4, <4>1, <4>2
    <3> QED
        BY <3>3, <3>4
  <2> QED
      BY <1>7, <2>1, <2>2, <2>3, <2>4, <2>5, <2>6, <2>7 DEF Proceed
<1>8. CASE UNCHANGED sessionVars
    BY <1>2, <1>8, CoreUnchanged DEF sessionVars
<1> QED
    BY <1>4, <1>5, <1>6, <1>7, <1>8 DEF SessionNext

\* The salt, the digest, the records and the count on the page are of one
\* session.
THEOREM SessionShownIsOne ==
    ASSUME InOrder
    PROVE  SessionSpec => []ShownIsOneSession
<1>1. SessionInit => DigestIsOwn /\ Fresh /\ PageIsCurrent /\ ShownIsOneSession
    BY DEF SessionInit, DigestIsOwn, Fresh, PageIsCurrent, ShownIsOneSession, Blank
<1>2. /\ SessionTypeOK /\ DigestIsOwn /\ Fresh /\ PageIsCurrent /\ ShownIsOneSession
      /\ RecordsEnterOwnDigest' /\ [SessionNext]_sessionVars
      => DigestIsOwn' /\ Fresh' /\ PageIsCurrent' /\ ShownIsOneSession'
    BY DigestIsOwnStep, FreshStep, PageStep
<1> QED
    BY <1>1, <1>2, SessionTypeCorrect, SessionRecordsOwnDigest, PTL DEF SessionSpec

----------------------------------------------------------------------------
(* The calls that wait *)

\* What record() and solve() leave behind of a session that is not open yet:
\* nothing; and the page does not show it.
Unasked ==
    /\ \A g \in Session : g \in opening \/ g > generation =>
            asked[g] = <<>> /\ queue[g] = <<>> /\ solveCall[g] = Null
    /\ shown.root # Null => shown.root <= generation /\ shown.root \notin opening

LEMMA UnaskedStep ==
    ASSUME SessionTypeOK, DigestIsOwn, PageIsCurrent, Unasked, [SessionNext]_sessionVars
    PROVE  Unasked'
<1> USE DEF Unasked
<1>1. /\ \A h \in opening : h <= generation
      /\ generation \in Int
      /\ \A h \in Session : h \in Int
      /\ shown.root # Null => shown.root \in Int
    BY SessionAssumption DEF SessionTypeOK, CoreTypeOK, QueueTypeOK, Shown, Session
<1>2. CASE Start
  <2>1. /\ generation' = generation + 1 /\ opening' = opening \cup {generation + 1}
        /\ asked' = asked /\ queue' = queue /\ solveCall' = solveCall /\ shown' = shown
      BY <1>2 DEF Start, history
  <2>2. \A g \in Session : g \in opening' \/ g > generation' => g \in opening \/ g > generation
      BY <1>1, <2>1
  <2>3. shown.root # Null => shown.root <= generation' /\ shown.root \notin opening'
      BY <1>1, <2>1
  <2> QED
      BY <2>1, <2>2, <2>3
<1>3. CASE Reset
  <2>1. /\ generation' = generation + 1 /\ opening' = opening /\ shown'.root = Null
        /\ asked' = asked /\ queue' = queue /\ solveCall' = solveCall
      BY <1>3 DEF Reset, history, Blank
  <2>2. \A g \in Session : g > generation' => g > generation
      BY <1>1, <2>1
  <2> QED
      BY <2>1, <2>2
<1>4. CASE Record \/ Solve
  <2>1. generation' = generation /\ opening' = opening /\ shown' = shown
      BY <1>4, CoreUnchanged DEF Record, Solve
  <2>2. active => opening = {}
      BY DEF DigestIsOwn
  <2>3. ASSUME NEW g \in Session, g \in opening \/ g > generation
        PROVE  asked'[g] = asked[g] /\ queue'[g] = queue[g] /\ solveCall'[g] = solveCall[g]
    <3>1. active => g # generation
        BY <1>1, <2>2, <2>3
    <3> QED
        BY <1>4, <3>1 DEF Record, Solve, SessionTypeOK, QueueTypeOK
  <2> QED
      BY <2>1, <2>3
<1>5. ASSUME NEW g \in Session, Proceed(g)
      PROVE  Unasked'
  <2>1. /\ generation' = generation /\ opening' \subseteq opening
        /\ asked' = asked /\ solveCall' = solveCall
      BY <1>5, CoreUnchanged DEF Proceed, Open, OpenFails, RunDropped, RunRecord, RunSolve,
                                 AppendDone, AppendFails, history
  <2>2. \A h \in Session : queue[h] = <<>> => queue'[h] = <<>>
      BY <1>5 DEF Proceed, Open, OpenFails, RunDropped, RunRecord, RunSolve, AppendDone,
                  AppendFails, Running, SessionTypeOK, QueueTypeOK
  <2>3. \/ shown'.root = shown.root
        \/ shown'.root = Null
        \/ shown'.root = g /\ g = generation /\ g \notin opening'
    <3>1. CASE Open(g)
        BY <3>1 DEF Open
    <3>2. CASE OpenFails(g)
        BY <3>2 DEF OpenFails, Blank
    <3>3. CASE RunDropped(g) \/ RunRecord(g) \/ RunSolve(g) \/ AppendFails(g)
        BY <3>3 DEF RunDropped, RunRecord, RunSolve, AppendFails, Republished
    <3>4. CASE AppendDone(g)
      <4>1. inflight[g].into = g
          BY <3>4 DEF AppendDone, DigestIsOwn
      <4>2. g = generation => opening = {}
          BY <3>4 DEF AppendDone, DigestIsOwn, PageIsCurrent
      <4> QED
          BY <3>4, <4>1, <4>2 DEF AppendDone, Republished
    <3> QED
        BY <1>5, <3>1, <3>2, <3>3, <3>4 DEF Proceed
  <2>4. shown'.root # Null => shown'.root <= generation' /\ shown'.root \notin opening'
      BY <1>1, <2>1, <2>3
  <2>5. \A h \in Session : h \in opening' \/ h > generation' => h \in opening \/ h > generation
      BY <2>1
  <2> QED
      BY <2>1, <2>2, <2>4, <2>5
<1>6. CASE UNCHANGED sessionVars
    BY <1>6, CoreUnchanged DEF sessionVars, history
<1> QED
    BY <1>2, <1>3, <1>4, <1>5, <1>6 DEF SessionNext

\* The moves a session accepted before solve(), or so far, and those of them
\* that left its queue.
Due(g) == IF solveCall[g] = Null THEN Len(asked[g]) ELSE solveCall[g]
Taken(g) == Len(chain[g]) + (IF inflight[g] = Null THEN 0 ELSE 1)

\* The moves accepted before solve() are in the digest, under way or waiting, in
\* the order they were made, and solve() waits behind the last of them.
InLine(g) ==
    /\ Taken(g) <= Due(g) /\ Due(g) <= Len(asked[g])
    /\ \A i \in 1..Len(chain[g]) : chain[g][i].at = asked[g][i]
    /\ inflight[g] # Null => inflight[g].rec.at = asked[g][Taken(g)]
    /\ \A j \in 1..(Due(g) - Taken(g)) :
          /\ j <= Len(queue[g])
          /\ queue[g][j].kind = "record"
          /\ queue[g][j].at = asked[g][Taken(g) + j]
    /\ IF solveCall[g] = Null
         THEN Len(queue[g]) = Due(g) - Taken(g)
         ELSE /\ Len(queue[g]) > Due(g) - Taken(g)
              /\ queue[g][Due(g) - Taken(g) + 1].kind = "solve"

\* So it is for the session that accepts records, and the page shows what
\* entered its digest.
Pending ==
    active => /\ InLine(generation)
              /\ shown.status = "measuring"
              /\ shown.recs = chain[generation]

LEMMA TakenType ==
    ASSUME NEW g, chain[g] \in Seq(Rec)
    PROVE  Taken(g) \in Nat /\ Len(chain[g]) <= Taken(g)
<1>1. Len(chain[g]) \in Nat
    OBVIOUS
<1>2. \A n \in Nat : n + 0 \in Nat /\ n + 1 \in Nat /\ n <= n + 0 /\ n <= n + 1
    OBVIOUS
<1> QED
    BY <1>1, <1>2, Zenon DEF Taken

\* A call that joins the line.
LEMMA InLineRecord ==
    ASSUME SessionTypeOK, active, Record, NEW g \in Session, g = generation, InLine(g)
    PROVE  InLine(g)'
<1> DEFINE c == [kind |-> "record", at |-> moves + 1]
           q == queue[g]
           a == asked[g]
<1>1. /\ q \in Seq(Call) /\ c \in Call /\ a \in Seq(Nat) /\ moves + 1 \in Nat
      /\ chain[g] \in Seq(Rec) /\ solveCall[g] \in Nat \cup {Null}
    BY DEF SessionTypeOK, QueueTypeOK, Call
<1>2. /\ queue'[g] = Append(q, c) /\ asked'[g] = Append(a, moves + 1)
      /\ chain' = chain /\ inflight' = inflight /\ solveCall' = solveCall
    BY DEF Record, SessionTypeOK, QueueTypeOK
<1>3. /\ Len(queue'[g]) = Len(q) + 1 /\ queue'[g][Len(q) + 1] = c
      /\ \A j \in 1..Len(q) : queue'[g][j] = q[j]
      /\ Len(asked'[g]) = Len(a) + 1 /\ asked'[g][Len(a) + 1] = moves + 1
      /\ \A j \in 1..Len(a) : asked'[g][j] = a[j]
      /\ Len(q) \in Nat /\ Len(a) \in Nat /\ Len(chain[g]) \in Nat
    BY <1>1, <1>2
<1>4. Taken(g)' = Taken(g) /\ Taken(g) \in Nat
    BY <1>1, <1>2, TakenType DEF Taken
<1> DEFINE T == Taken(g)
           D == Due(g)
<1>5. /\ T <= D /\ D <= Len(a) /\ T \in Nat /\ D \in Nat
      /\ \A i \in 1..Len(chain[g]) : i <= T /\ chain[g][i].at = a[i]
      /\ inflight[g] # Null => inflight[g].rec.at = a[T] /\ T > 0
      /\ \A j \in 1..(D - T) :
            j <= Len(q) /\ q[j].kind = "record" /\ q[j].at = a[T + j]
  <2>1. T <= D /\ D <= Len(a) /\ T \in Nat /\ D \in Nat
      BY <1>1, <1>3, <1>4 DEF InLine, Due
  <2>2. \A i \in 1..Len(chain[g]) : i <= T /\ chain[g][i].at = a[i]
    <3>1. Len(chain[g]) <= T
        BY <1>1, TakenType
    <3>2. \A i \in 1..Len(chain[g]) : chain[g][i].at = a[i]
        BY DEF InLine
    <3> QED
        BY <1>3, <2>1, <3>1, <3>2
  <2>3. inflight[g] # Null => inflight[g].rec.at = a[T] /\ T > 0
      BY <1>3 DEF InLine, Taken
  <2> QED
      BY <2>1, <2>2, <2>3 DEF InLine
<1>6. /\ solveCall[g] = Null => Len(q) = D - T /\ D = Len(a) /\ Due(g)' = D + 1
      /\ solveCall[g] # Null =>
            Len(q) > D - T /\ q[D - T + 1].kind = "solve" /\ Due(g)' = D
    BY <1>1, <1>2, <1>3 DEF InLine, Due
<1>7. Taken(g)' = T
    BY <1>4
<1>8. c.kind = "record" /\ c.at = moves + 1
    OBVIOUS
<1> HIDE DEF c, q, a, T, D
<1>9. T \in Nat /\ D \in Nat /\ T <= D /\ D <= Len(a) /\ Len(a) \in Nat /\ Len(q) \in Nat
    BY <1>3, <1>5
<1>10. /\ \A i \in 1..Len(chain[g]) : chain[g][i].at = asked'[g][i]
       /\ inflight[g] # Null => inflight[g].rec.at = asked'[g][T]
  <2>1. \A i \in 1..Len(chain[g]) : i \in 1..Len(a)
      BY <1>3, <1>5, <1>9
  <2>2. T > 0 => T \in 1..Len(a)
      BY <1>9
  <2> QED
      BY <1>3, <1>5, <2>1, <2>2
<1>11. D - T <= Len(q)
    BY <1>6, <1>9
<1>12. \A j \in 1..(D - T) :
          queue'[g][j].kind = "record" /\ queue'[g][j].at = asked'[g][T + j]
  <2> SUFFICES ASSUME NEW j \in 1..(D - T)
               PROVE  queue'[g][j].kind = "record" /\ queue'[g][j].at = asked'[g][T + j]
      OBVIOUS
  <2>1. j \in 1..Len(q) /\ T + j \in 1..Len(a)
      BY <1>9, <1>11
  <2>2. queue'[g][j] = q[j] /\ asked'[g][T + j] = a[T + j]
      BY <1>3, <2>1
  <2> QED
      BY <1>5, <2>2
<1>13. CASE solveCall[g] = Null
  <2>1. D = Len(a) /\ Len(q) = D - T /\ Due(g)' = D + 1
      BY <1>6, <1>13
  <2>2. \A j \in 1..(D + 1 - T) :
            j <= Len(q) + 1 /\ queue'[g][j].kind = "record" /\ queue'[g][j].at = asked'[g][T + j]
    <3> SUFFICES ASSUME NEW j \in 1..(D + 1 - T)
                 PROVE  /\ j <= Len(q) + 1
                        /\ queue'[g][j].kind = "record" /\ queue'[g][j].at = asked'[g][T + j]
        OBVIOUS
    <3>1. j <= Len(q) + 1 /\ (j \in 1..(D - T) \/ j = D - T + 1)
        BY <1>9, <2>1
    <3>2. CASE j = D - T + 1
      <4>1. j = Len(q) + 1 /\ T + j = Len(a) + 1
          BY <1>9, <2>1, <3>2
      <4> QED
          BY <1>3, <1>8, <3>1, <4>1
    <3> QED
        BY <1>12, <3>1, <3>2
  <2>3. T <= D + 1 /\ D + 1 <= Len(a) + 1 /\ Len(q) + 1 = D + 1 - T
      BY <1>9, <2>1
  <2>4. /\ Taken(g)' <= Due(g)' /\ Due(g)' <= Len(asked'[g])
        /\ Len(queue'[g]) = Due(g)' - Taken(g)'
      BY <1>3, <1>7, <1>9, <2>1, <2>3
  <2>5. inflight'[g] # Null => inflight'[g].rec.at = asked'[g][Taken(g)']
      BY <1>2, <1>7, <1>10
  <2>6. \A j \in 1..(Due(g)' - Taken(g)') :
            /\ j <= Len(queue'[g])
            /\ queue'[g][j].kind = "record" /\ queue'[g][j].at = asked'[g][Taken(g)' + j]
      BY <1>3, <1>7, <1>9, <2>1, <2>2, SMTT(20)
  <2>7. /\ solveCall'[g] = Null
        /\ \A i \in 1..Len(chain'[g]) : chain'[g][i].at = asked'[g][i]
      BY <1>2, <1>10, <1>13
  <2> QED
      BY <2>4, <2>5, <2>6, <2>7 DEF InLine
<1>14. CASE solveCall[g] # Null
  <2>1. Len(q) > D - T /\ q[D - T + 1].kind = "solve" /\ Due(g)' = D
      BY <1>6, <1>14
  <2>2. D - T + 1 \in 1..Len(q) /\ D <= Len(a) + 1 /\ Len(q) + 1 > D - T
      BY <1>9, <2>1
  <2>3. queue'[g][D - T + 1].kind = "solve"
      BY <1>3, <2>1, <2>2
  <2>4. \A j \in 1..(D - T) : j <= Len(q) + 1
      BY <1>9, <1>11
  <2>5. /\ Taken(g)' <= Due(g)' /\ Due(g)' <= Len(asked'[g])
        /\ Len(queue'[g]) > Due(g)' - Taken(g)'
        /\ queue'[g][Due(g)' - Taken(g)' + 1].kind = "solve"
      BY <1>3, <1>7, <1>9, <2>1, <2>2, <2>3
  <2>6. inflight'[g] # Null => inflight'[g].rec.at = asked'[g][Taken(g)']
      BY <1>2, <1>7, <1>10
  <2>7. \A j \in 1..(Due(g)' - Taken(g)') :
            /\ j <= Len(queue'[g])
            /\ queue'[g][j].kind = "record" /\ queue'[g][j].at = asked'[g][Taken(g)' + j]
      BY <1>3, <1>7, <1>12, <2>1, <2>4
  <2>8. /\ solveCall'[g] # Null
        /\ \A i \in 1..Len(chain'[g]) : chain'[g][i].at = asked'[g][i]
      BY <1>2, <1>10, <1>14
  <2> QED
      BY <2>5, <2>6, <2>7, <2>8 DEF InLine
<1> QED
    BY <1>13, <1>14

LEMMA InLineSolve ==
    ASSUME SessionTypeOK, Solve, NEW g \in Session, g = generation, InLine(g)
    PROVE  InLine(g)'
<1> DEFINE c == [kind |-> "solve", at |-> moves]
           q == queue[g]
<1>1. /\ q \in Seq(Call) /\ c \in Call /\ asked[g] \in Seq(Nat) /\ chain[g] \in Seq(Rec)
      /\ Null \notin Nat
    BY SessionAssumption DEF SessionTypeOK, QueueTypeOK, Call
<1>2. /\ queue'[g] = Append(q, c) /\ solveCall[g] = Null /\ solveCall'[g] = Len(asked[g])
      /\ chain' = chain /\ inflight' = inflight /\ asked' = asked
    BY DEF Solve, SessionTypeOK, QueueTypeOK
<1>3. /\ Len(queue'[g]) = Len(q) + 1 /\ queue'[g][Len(q) + 1] = c
      /\ \A j \in 1..Len(q) : queue'[g][j] = q[j]
      /\ Len(q) \in Nat /\ Len(asked[g]) \in Nat /\ Len(chain[g]) \in Nat
    BY <1>1, <1>2
<1>4. /\ Taken(g)' = Taken(g) /\ Taken(g) \in Nat
      /\ Due(g)' = Due(g) /\ Due(g) = Len(asked[g])
  <2>1. Taken(g)' = Taken(g) /\ Taken(g) \in Nat
      BY <1>1, <1>2, TakenType DEF Taken
  <2>2. solveCall'[g] # Null
      BY <1>1, <1>2, <1>3
  <2> QED
      BY <1>2, <2>1, <2>2 DEF Due
<1>5. Len(q) = Due(g) - Taken(g) /\ solveCall'[g] # Null
    BY <1>1, <1>2, <1>3 DEF InLine
<1> HIDE DEF c, q
<1> QED
    BY <1>2, <1>3, <1>4, <1>5 DEF InLine, q, c

\* A record that leaves the line is the next of the session's moves.
LEMMA InLineRunRecord ==
    ASSUME SessionTypeOK, NEW g \in Session, RunRecord(g), InLine(g)
    PROVE  InLine(g)'
<1> DEFINE q == queue[g]
<1>1. /\ q \in Seq(Call) /\ asked[g] \in Seq(Nat) /\ chain[g] \in Seq(Rec)
      /\ solveCall[g] \in Nat \cup {Null}
    BY DEF SessionTypeOK, QueueTypeOK
<1>2. /\ queue'[g] = Tail(q) /\ q # <<>> /\ inflight[g] = Null
      /\ inflight'[g].rec.at = Head(q).at /\ inflight'[g] # Null
      /\ Head(q).kind = "record"
      /\ chain' = chain /\ asked' = asked /\ solveCall' = solveCall
  <2>1. inflight'[g] = [into |-> digest,
               rec  |-> [sequence |-> sequence + 1, at |-> Head(queue[g]).at,
                         prev |-> lastCommittedAt, of |-> g]]
      BY DEF RunRecord, SessionTypeOK, QueueTypeOK
  <2>2. inflight'[g] # Null
    <3>1. inflight'[g] \in [into : Session, rec : Rec]
      <4>1. Head(queue[g]) \in Call
          BY DEF RunRecord, Running, SessionTypeOK, QueueTypeOK
      <4>2. digest \in Session /\ sequence + 1 \in Nat /\ lastCommittedAt \in Nat \cup {Null}
          BY DEF RunRecord, SessionTypeOK, CoreTypeOK
      <4> QED
          BY <2>1, <4>1, <4>2 DEF Call, Rec
    <3> QED
        BY <3>1, NullAssumption
  <2> QED
      BY <2>1, <2>2 DEF RunRecord, Running, history, SessionTypeOK, QueueTypeOK
<1>3. /\ Len(q) > 0 /\ Len(queue'[g]) = Len(q) - 1 /\ Head(q) = q[1]
      /\ \A j \in 1..(Len(q) - 1) : queue'[g][j] = q[j + 1]
      /\ Len(q) \in Nat /\ Len(asked[g]) \in Nat /\ Len(chain[g]) \in Nat
    BY <1>1, <1>2
<1>4. /\ Taken(g) = Len(chain[g]) /\ Taken(g)' = Taken(g) + 1
      /\ Due(g)' = Due(g) /\ Due(g) \in Nat
    BY <1>1, <1>2, <1>3 DEF Taken, Due
<1> DEFINE T == Taken(g)
           D == Due(g)
           a == asked[g]
<1>5. /\ T <= D /\ D <= Len(a) /\ T \in Nat /\ D \in Nat
      /\ T = Len(chain[g]) /\ Taken(g)' = T + 1 /\ Due(g)' = D
      /\ \A i \in 1..Len(chain[g]) : chain[g][i].at = a[i]
      /\ \A j \in 1..(D - T) :
            j <= Len(q) /\ q[j].kind = "record" /\ q[j].at = a[T + j]
      /\ solveCall[g] = Null => Len(q) = D - T
      /\ solveCall[g] # Null => Len(q) > D - T /\ q[D - T + 1].kind = "solve"
    BY <1>3, <1>4 DEF InLine
<1> HIDE DEF q, a, T, D
<1>6. D - T > 0
  <2>1. CASE solveCall[g] = Null
      BY <1>3, <1>5, <2>1
  <2>2. CASE solveCall[g] # Null
    <3>1. D = T => q[1].kind = "solve"
      <4>1. D = T => D - T + 1 = 1
          BY <1>5
      <4> QED
          BY <1>5, <2>2, <4>1
    <3> QED
        BY <1>2, <1>3, <1>5, <3>1
  <2> QED
      BY <2>1, <2>2
<1>7. inflight'[g].rec.at = a[T + 1]
    BY <1>2, <1>3, <1>5, <1>6
<1>8. \A j \in 1..(D - (T + 1)) :
          j <= Len(queue'[g]) /\ queue'[g][j].kind = "record" /\ queue'[g][j].at = a[T + 1 + j]
  <2> SUFFICES ASSUME NEW j \in 1..(D - (T + 1))
               PROVE  /\ j <= Len(queue'[g])
                      /\ queue'[g][j].kind = "record" /\ queue'[g][j].at = a[T + 1 + j]
      OBVIOUS
  <2>0. T \in Nat /\ D \in Nat
      BY <1>5
  <2>1. j + 1 \in 1..(D - T) /\ T + (j + 1) = T + 1 + j
      BY <2>0
  <2>2. j + 1 <= Len(q) /\ q[j + 1].kind = "record" /\ q[j + 1].at = a[T + 1 + j]
      BY <1>5, <2>1
  <2>3. j \in 1..(Len(q) - 1)
      BY <1>3, <1>5, <2>2
  <2> QED
      BY <1>3, <2>2, <2>3
<1>9. /\ solveCall[g] = Null => Len(queue'[g]) = D - (T + 1)
      /\ solveCall[g] # Null =>
            Len(queue'[g]) > D - (T + 1) /\ queue'[g][D - (T + 1) + 1].kind = "solve"
  <2>0. T \in Nat /\ D \in Nat /\ Len(q) \in Nat /\ Len(queue'[g]) = Len(q) - 1
      BY <1>3, <1>5
  <2>1. D - (T + 1) + 1 = D - T
      BY <2>0
  <2>2. ASSUME solveCall[g] # Null
        PROVE  Len(queue'[g]) > D - (T + 1) /\ queue'[g][D - T].kind = "solve"
    <3>1. Len(q) > D - T /\ q[D - T + 1].kind = "solve"
        BY <1>5, <2>2
    <3>2. D - T \in 1..(Len(q) - 1)
        BY <1>6, <2>0, <3>1
    <3>3. queue'[g][D - T] = q[(D - T) + 1]
        BY <1>3, <3>2, Zenon
    <3>4. Len(q) - 1 > D - (T + 1)
        BY <2>0, <3>1
    <3> QED
        BY <2>0, <3>1, <3>3, <3>4
  <2>3. solveCall[g] = Null => Len(queue'[g]) = D - (T + 1)
    <3>1. solveCall[g] = Null => Len(q) = D - T
        BY <1>5
    <3> QED
        BY <2>0, <3>1
  <2> QED
      BY <2>1, <2>2, <2>3
<1>10. T + 1 <= D
    BY <1>5, <1>6
<1>11. asked'[g] = a
    BY <1>2 DEF a
<1> QED
    BY <1>2, <1>5, <1>7, <1>8, <1>9, <1>10, <1>11 DEF InLine

\* A record that enters the digest is the one that was under way.
LEMMA InLineAppend ==
    ASSUME SessionTypeOK, DigestIsOwn, NEW g \in Session, AppendDone(g), InLine(g)
    PROVE  InLine(g)'
<1> DEFINE r == inflight[g].rec
<1>1. /\ queue[g] \in Seq(Call) /\ asked[g] \in Seq(Nat) /\ chain[g] \in Seq(Rec)
      /\ r \in Rec /\ inflight[g] # Null /\ solveCall[g] \in Nat \cup {Null}
    BY DEF AppendDone, SessionTypeOK, QueueTypeOK
<1>2. /\ chain'[g] = Append(chain[g], r) /\ inflight'[g] = Null
      /\ queue' = queue /\ asked' = asked /\ solveCall' = solveCall
    BY DEF AppendDone, DigestIsOwn, SessionTypeOK, QueueTypeOK, history
<1>3. /\ Len(chain'[g]) = Len(chain[g]) + 1 /\ chain'[g][Len(chain[g]) + 1] = r
      /\ \A i \in 1..Len(chain[g]) : chain'[g][i] = chain[g][i]
      /\ Len(chain[g]) \in Nat /\ Len(asked[g]) \in Nat
    BY <1>1, <1>2
<1>4. /\ Taken(g) = Len(chain[g]) + 1 /\ Taken(g)' = Taken(g) /\ Due(g)' = Due(g)
    BY <1>1, <1>2, <1>3 DEF Taken, Due
<1>5. r.at = asked[g][Taken(g)]
    BY <1>1 DEF InLine
<1> HIDE DEF r
<1>6. \A i \in 1..Len(chain'[g]) : chain'[g][i].at = asked[g][i]
    BY <1>3, <1>4, <1>5, SMTT(20) DEF InLine
<1> QED
    BY <1>2, <1>4, <1>6 DEF InLine

LEMMA PendingStep ==
    ASSUME SessionTypeOK, DigestIsOwn, Fresh, PageIsCurrent, Unasked, Pending,
           [SessionNext]_sessionVars
    PROVE  Pending'
<1> USE DEF Pending
<1>0. active => generation \in Session
    BY DEF DigestIsOwn, SessionTypeOK, CoreTypeOK
<1>1. CASE Start \/ Reset
    BY <1>1 DEF Start, Reset
<1>2. ASSUME generation' = generation, active' <=> active, shown' = shown,
             \A g \in Session : g = generation =>
                chain'[g] = chain[g] /\ inflight'[g] = inflight[g] /\ queue'[g] = queue[g],
             UNCHANGED <<asked, solveCall>>
      PROVE  Pending'
  <2>1. ASSUME active, NEW g \in Session, g = generation
        PROVE  InLine(g)'
    <3>1. /\ chain'[g] = chain[g] /\ inflight'[g] = inflight[g] /\ queue'[g] = queue[g]
          /\ asked'[g] = asked[g] /\ solveCall'[g] = solveCall[g]
        BY <1>2, <2>1
    <3>2. InLine(g)
        BY <2>1
    <3>3. Due(g)' = Due(g) /\ Taken(g)' = Taken(g)
        BY <3>1 DEF Due, Taken
    <3> QED
        BY <3>1, <3>2, <3>3, ZenonT(30) DEF InLine
  <2> QED
      BY <1>0, <1>2, <2>1
<1>3. CASE Record \/ Solve
  <2>1. /\ generation' = generation /\ (active' <=> active) /\ shown' = shown
        /\ chain' = chain /\ inflight' = inflight
      BY <1>3, CoreUnchanged DEF Record, Solve
  <2>2. ASSUME active, NEW g \in Session, g = generation
        PROVE  InLine(g)'
      BY <1>3, <2>2, InLineRecord, InLineSolve
  <2> QED
      BY <1>0, <2>1, <2>2
<1>4. ASSUME NEW g \in Session, Proceed(g)
      PROVE  Pending'
  <2>1. CASE Open(g)
    <3>1. CASE g = generation
      <4>1. /\ chain'[g] = <<>> /\ inflight'[g] = Null
            /\ asked'[g] = <<>> /\ queue'[g] = <<>> /\ solveCall'[g] = Null
            /\ generation' = generation
          BY <2>1, <3>1 DEF Open, Ready, Fresh, Unasked, history
      <4>2. Due(g)' = 0 /\ Taken(g)' = 0
          BY <4>1 DEF Due, Taken
      <4>3. InLine(g)'
          BY <4>1, <4>2 DEF InLine
      <4>4. shown'.status = "measuring" /\ shown'.recs = chain'[g]
          BY <2>1, <3>1 DEF Open
      <4> QED
          BY <3>1, <4>1, <4>3, <4>4
    <3>2. CASE g # generation
      <4>1. ~active
          BY <2>1 DEF Open, Ready, DigestIsOwn
      <4>2. active' = active
          BY <2>1, <3>2, Zenon DEF Open
      <4> QED
          BY <4>1, <4>2, Zenon
    <3> QED
        BY <3>1, <3>2
  <2>2. CASE OpenFails(g)
    <3>1. ~active
        BY <2>2 DEF OpenFails, Ready, DigestIsOwn
    <3>2. active' = FALSE \/ active' = active
        BY <2>2, Zenon DEF OpenFails
    <3> QED
        BY <3>1, <3>2, Zenon
  <2>3. CASE RunDropped(g)
    <3>1. CASE active
        BY <1>2, <2>3, <3>1, CoreUnchanged DEF RunDropped, history, SessionTypeOK, QueueTypeOK
    <3>2. CASE ~active
        BY <2>3, <3>2, CoreUnchanged DEF RunDropped
    <3> QED
        BY <3>1, <3>2
  <2>4. CASE RunRecord(g)
    <3>1. active /\ g = generation
        BY <2>4 DEF RunRecord
    <3>2. InLine(g)'
        BY <2>4, <3>1, InLineRunRecord
    <3>3. /\ generation' = generation /\ (active' <=> active)
          /\ shown' = shown /\ chain' = chain
        BY <2>4, CoreUnchanged DEF RunRecord
    <3> QED
        BY <3>1, <3>2, <3>3
  <2>5. CASE RunSolve(g)
      BY <2>5 DEF RunSolve
  <2>6. CASE AppendDone(g)
    <3>0. active' = active
        BY <2>6, Zenon DEF AppendDone
    <3>1. generation' = generation /\ (active' <=> active)
        BY <2>6, <3>0 DEF AppendDone
    <3>2. inflight[g].into = g
        BY <2>6 DEF AppendDone, DigestIsOwn
    <3>3. CASE g = generation
      <4>1. active
          BY <2>6, <3>3 DEF AppendDone, PageIsCurrent
      <4>2. InLine(g)'
          BY <2>6, <3>3, <4>1, InLineAppend
      <4>3. shown'.status = "measuring" /\ shown'.recs = chain'[g]
          BY <2>6, <3>2, <3>3, <4>1 DEF AppendDone, Republished
      <4> QED
          BY <3>1, <3>3, <4>2, <4>3
    <3>4. CASE g # generation
      <4>1. \A h \in Session : h # g =>
                chain'[h] = chain[h] /\ inflight'[h] = inflight[h] /\ queue'[h] = queue[h]
          BY <2>6, <3>2 DEF AppendDone, SessionTypeOK, QueueTypeOK
      <4>2. shown' = shown /\ UNCHANGED <<asked, solveCall>>
          BY <2>6, <3>4 DEF AppendDone, history
      <4> QED
          BY <1>2, <3>1, <3>4, <4>1, <4>2
    <3> QED
        BY <3>3, <3>4
  <2>7. CASE AppendFails(g)
    <3>1. CASE g = generation
        BY <2>7, <3>1 DEF AppendFails
    <3>2. CASE g # generation
      <4>1. active' = active
          BY <2>7, <3>2, Zenon DEF AppendFails
      <4>2. active' <=> active
          BY <4>1
      <4>3. \A h \in Session : h # g =>
                chain'[h] = chain[h] /\ inflight'[h] = inflight[h] /\ queue'[h] = queue[h]
          BY <2>7 DEF AppendFails, SessionTypeOK, QueueTypeOK
      <4>4. generation' = generation /\ shown' = shown /\ UNCHANGED <<asked, solveCall>>
          BY <2>7, <3>2 DEF AppendFails, history
      <4> QED
          BY <1>2, <3>2, <4>2, <4>3, <4>4
    <3> QED
        BY <3>1, <3>2
  <2> QED
      BY <1>4, <2>1, <2>2, <2>3, <2>4, <2>5, <2>6, <2>7 DEF Proceed
<1>5. CASE UNCHANGED sessionVars
    BY <1>2, <1>5, CoreUnchanged DEF sessionVars, history
<1> QED
    BY <1>1, <1>3, <1>4, <1>5 DEF SessionNext

\* What solve() finds when its turn comes: every move accepted before it.
LEMMA SolvedInTurn ==
    ASSUME SessionTypeOK, PageIsCurrent, Pending, NEW g \in Session, RunSolve(g)
    PROVE  /\ solveCall[g] \in Nat /\ Len(chain[g]) = solveCall[g]
           /\ shown.salt = g /\ shown.recs = chain[g]
<1>1. /\ g = generation /\ active /\ inflight[g] = Null
      /\ queue[g] # <<>> /\ queue[g][1].kind = "solve" /\ queue[g] \in Seq(Call)
    BY DEF RunSolve, Running, SessionTypeOK, QueueTypeOK
<1>2. InLine(g) /\ shown.salt = g /\ shown.recs = chain[g]
    BY <1>1 DEF Pending, PageIsCurrent
<1>3. /\ Len(chain[g]) \in Nat /\ Len(asked[g]) \in Nat /\ solveCall[g] \in Nat \cup {Null}
      /\ Len(queue[g]) \in Nat /\ Len(queue[g]) > 0
    BY <1>1 DEF SessionTypeOK, QueueTypeOK
<1>4. Taken(g) = Len(chain[g]) /\ Due(g) \in Nat
    BY <1>1, <1>3 DEF Taken, Due
<1>5. ~(1 \in 1..(Due(g) - Taken(g)))
    BY <1>1, <1>2 DEF InLine
<1>6. Due(g) = Taken(g)
    BY <1>2, <1>3, <1>4, <1>5 DEF InLine
<1>7. solveCall[g] # Null
    BY <1>2, <1>3, <1>4, <1>6 DEF InLine
<1> QED
    BY <1>2, <1>3, <1>4, <1>6, <1>7 DEF Due

\* All that is known of an honest session at once.
SessionInv ==
    /\ SessionTypeOK /\ DigestIsOwn /\ Fresh /\ PageIsCurrent /\ Unasked /\ Pending

LEMMA SessionInvariant ==
    ASSUME InOrder
    PROVE  SessionSpec => []SessionInv
<1>1. SessionInit => DigestIsOwn /\ Fresh /\ PageIsCurrent /\ Unasked /\ Pending /\ ShownIsOneSession
    BY DEF SessionInit, DigestIsOwn, Fresh, PageIsCurrent, Unasked, Pending, ShownIsOneSession, Blank
<1>2. /\ SessionTypeOK /\ DigestIsOwn /\ Fresh /\ PageIsCurrent /\ Unasked /\ Pending
      /\ ShownIsOneSession /\ RecordsEnterOwnDigest' /\ [SessionNext]_sessionVars
      => DigestIsOwn' /\ Fresh' /\ PageIsCurrent' /\ Unasked' /\ Pending' /\ ShownIsOneSession'
    BY DigestIsOwnStep, FreshStep, PageStep, UnaskedStep, PendingStep
<1>3. SessionTypeOK /\ DigestIsOwn /\ Fresh /\ PageIsCurrent /\ Unasked /\ Pending => SessionInv
    BY DEF SessionInv
<1> QED
    BY <1>1, <1>2, <1>3, SessionTypeCorrect, SessionRecordsOwnDigest, PTL DEF SessionSpec

\* A session shown as solved holds every move accepted before the solve and none
\* accepted after it, however long their digests took.
THEOREM SessionSolveLosesNothing ==
    ASSUME InOrder
    PROVE  SessionSpec => []SolveLosesNothing
<1>1. SessionInit => SolveLosesNothing
    BY DEF SessionInit, SolveLosesNothing, Blank
<1>2. ASSUME SessionInv, SolveLosesNothing, [SessionNext]_sessionVars
      PROVE  SolveLosesNothing'
  <2>0. SessionTypeOK /\ DigestIsOwn /\ PageIsCurrent /\ Pending
      BY <1>2 DEF SessionInv
  <2>1. CASE shown' = shown /\ solveCall' = solveCall
      BY <1>2, <2>1 DEF SolveLosesNothing
  <2>2. CASE shown'.status # "solved"
      BY <2>2 DEF SolveLosesNothing
  <2>3. CASE Solve
      BY <2>0, <2>2, <2>3 DEF Solve, Pending
  <2>4. ASSUME NEW g \in Session, RunSolve(g)
        PROVE  SolveLosesNothing'
    <3>1. /\ Len(chain[g]) = solveCall[g] /\ shown.salt = g /\ shown.recs = chain[g]
        BY <2>0, <2>4, SolvedInTurn
    <3>2. shown'.recs = shown.recs /\ shown'.salt = shown.salt /\ solveCall' = solveCall
        BY <2>4 DEF RunSolve, Republished, history
    <3> QED
        BY <3>1, <3>2 DEF SolveLosesNothing
  <2>5. ASSUME NEW g \in Session, Proceed(g), ~RunSolve(g)
        PROVE  SolveLosesNothing'
    <3>1. CASE Open(g)
        BY <2>1, <2>2, <3>1 DEF Open, history
    <3>2. CASE OpenFails(g)
        BY <2>1, <2>2, <3>2 DEF OpenFails, history, Blank
    <3>3. CASE RunDropped(g) \/ RunRecord(g)
        BY <2>1, <3>3 DEF RunDropped, RunRecord, history
    <3>4. CASE AppendDone(g)
      <4>1. g = generation => active /\ shown.status = "measuring"
          BY <2>0, <3>4 DEF AppendDone, PageIsCurrent, Pending
      <4> QED
          BY <2>1, <2>2, <3>4, <4>1 DEF AppendDone, history, Republished
    <3>5. CASE AppendFails(g)
        BY <2>1, <2>2, <3>5 DEF AppendFails, history, Republished
    <3> QED
        BY <2>5, <3>1, <3>2, <3>3, <3>4, <3>5 DEF Proceed
  <2>6. CASE Start \/ Record \/ UNCHANGED sessionVars
      BY <2>1, <2>6 DEF Start, Record, sessionVars, history
  <2>7. CASE Reset
      BY <2>2, <2>7 DEF Reset, Blank
  <2> QED
      BY <1>2, <2>3, <2>4, <2>5, <2>6, <2>7 DEF SessionNext
<1> QED
    BY <1>1, <1>2, SessionInvariant, PTL DEF SessionSpec

----------------------------------------------------------------------------
(* The promise to the visitor *)

\* The moves shown, by the time each was made: what Study calls transcript.
Times(recs) == [i \in 1..Len(recs) |-> recs[i].at]

LEMMA NoTimes == Times(<<>>) = <<>>
    BY DEF Times

\* Nothing that was accepted is held back: where the session that accepts records
\* has no call waiting and no digest under way, the page shows every move it
\* accepted, in order, and it was not asked to solve.
NothingHeldBack ==
    active /\ queue[generation] = <<>> /\ inflight[generation] = Null =>
        /\ solveCall[generation] = Null
        /\ Times(shown.recs) = asked[generation]

\* So a move or a solve() that the page does not show yet always has a callback
\* or a digest that will bring it (the queue of entropy-session.js:70-107 never
\* runs dry early); that those are served is what fairness adds.
THEOREM SessionHoldsNothingBack ==
    ASSUME InOrder
    PROVE  SessionSpec => []NothingHeldBack
<1>1. ASSUME SessionInv PROVE NothingHeldBack
  <2> SUFFICES ASSUME active, queue[generation] = <<>>, inflight[generation] = Null
               PROVE  /\ solveCall[generation] = Null
                      /\ Times(shown.recs) = asked[generation]
      BY DEF NothingHeldBack
  <2> DEFINE g == generation
             a == asked[g]
             c == chain[g]
  <2>1. InLine(g) /\ shown.recs = c /\ g \in Session
      BY <1>1 DEF SessionInv, Pending, DigestIsOwn, SessionTypeOK, CoreTypeOK
  <2>2. c \in Seq(Rec) /\ a \in Seq(Nat) /\ solveCall[g] \in Nat \cup {Null}
      BY <1>1, <2>1 DEF SessionInv, SessionTypeOK, QueueTypeOK
  <2>3. Len(c) \in Nat /\ Len(a) \in Nat /\ Len(queue[g]) = 0
      BY <2>2
  <2>4. Taken(g) = Len(c) /\ Due(g) \in Nat
      BY <2>2, <2>3 DEF Taken, Due
  <2>5. solveCall[g] = Null /\ Due(g) = Len(c)
      BY <2>1, <2>3, <2>4 DEF InLine
  <2>6. Len(c) = Len(a) /\ \A i \in 1..Len(c) : c[i].at = a[i]
      BY <2>1, <2>3, <2>4, <2>5 DEF InLine, Due
  <2>7. Times(shown.recs) = [i \in 1..Len(a) |-> a[i]]
      BY <2>1, <2>6 DEF Times
  <2>8. \A s \in Seq(Nat) : [i \in 1..Len(s) |-> s[i]] = s
      OBVIOUS
  <2> QED
      BY <2>2, <2>5, <2>7, <2>8
<1> QED
    BY <1>1, SessionInvariant, PTL

\* A step that leaves the page and the moves alone is none of Study's.
LEMMA StudyStutter ==
    ASSUME shown' = shown, asked' = asked
    PROVE  UNCHANGED Study!vars
    BY DEF Study!vars

\* A step of Study that clears the page.
LEMMA StudyClear ==
    ASSUME NEW s \in {"ready", "error"}, shown' = Blank(s), asked' = asked
    PROVE  Study!Clear
<1>1. shown'.status = s /\ shown'.root = Null /\ shown'.recs = <<>>
    BY DEF Blank
<1>2. [i \in 1..Len(shown'.recs) |-> shown'.recs[i].at] = <<>>
    BY <1>1, NoTimes DEF Times
<1> QED
    BY <1>1, <1>2 DEF Study!Clear

\* The record that enters the digest of the session shown is the next move.
LEMMA StudyExtend ==
    ASSUME SessionInv, NEW g \in Session, AppendDone(g), g = generation
    PROVE  Study!Extend
<1>1. SessionTypeOK /\ DigestIsOwn /\ PageIsCurrent /\ Pending
    BY DEF SessionInv
<1>2. active /\ shown.root = g /\ shown.status = "measuring" /\ shown.recs = chain[g] /\ InLine(g)
    BY <1>1 DEF AppendDone, PageIsCurrent, Pending
<1> DEFINE r == inflight[g].rec
           n == Len(chain[g])
           a == asked[g]
<1>3. /\ chain[g] \in Seq(Rec) /\ a \in Seq(Nat) /\ r \in Rec /\ inflight[g] # Null
      /\ inflight[g].into = g
    BY <1>1 DEF AppendDone, DigestIsOwn, SessionTypeOK, QueueTypeOK
<1>4. chain'[g] = Append(chain[g], r) /\ asked' = asked
    BY <1>1, <1>3 DEF AppendDone, SessionTypeOK, QueueTypeOK, history
<1>5. shown'.status = shown.status /\ shown'.root = g /\ shown'.recs = chain'[g]
    BY <1>3 DEF AppendDone, Republished
<1>6. /\ n \in Nat /\ Len(a) \in Nat /\ Len(chain'[g]) = n + 1
      /\ chain'[g][n + 1] = r /\ \A i \in 1..n : chain'[g][i] = chain[g][i]
    BY <1>3, <1>4
<1>7. Taken(g) = n + 1
    BY <1>3 DEF Taken
<1>8. n + 1 <= Len(a) /\ r.at = a[n + 1] /\ \A i \in 1..n : chain[g][i].at = a[i]
  <2>1. solveCall[g] \in Nat \cup {Null}
      BY <1>1 DEF SessionTypeOK, QueueTypeOK
  <2>2. Due(g) \in Nat
      BY <1>3, <1>6, <2>1 DEF Due
  <2> QED
      BY <1>2, <1>3, <1>6, <1>7, <2>2, SMTT(20) DEF InLine
<1> HIDE DEF r, n, a
<1>9. \A i \in 1..(n + 1) : chain'[g][i].at = a[i]
  <2> TAKE i \in 1..(n + 1)
  <2>1. i \in 1..n \/ i = n + 1
      BY <1>6
  <2> QED
      BY <1>6, <1>8, <2>1
<1>10. [i \in 1..Len(shown'.recs) |-> shown'.recs[i].at] = SubSeq(a, 1, n + 1)
  <2>1. SubSeq(a, 1, n + 1) = [i \in 1..(n + 1) |-> a[i]]
      BY <1>3, <1>6, <1>8
  <2>2. [i \in 1..Len(shown'.recs) |-> shown'.recs[i].at] = [i \in 1..(n + 1) |-> a[i]]
      BY <1>5, <1>6, <1>9
  <2> QED
      BY <2>1, <2>2
<1>11. Len([i \in 1..Len(shown.recs) |-> shown.recs[i].at]) = n
    BY <1>2, <1>6 DEF n
<1>12. n < Len(a)
    BY <1>6, <1>8
<1> QED
    BY <1>2, <1>4, <1>5, <1>10, <1>11, <1>12 DEF Study!Extend, a

\* Whatever is shown of the interaction study, in every session and through
\* every overtaken digest, is what StudySession promises.
THEOREM SessionImplementsStudy ==
    ASSUME InOrder
    PROVE  SessionSpec => ImplementsStudy
<1>1. SessionInit => Study!Init
  <2> SUFFICES ASSUME SessionInit PROVE Study!Init
      OBVIOUS
  <2>1. shown.status = "ready" /\ shown.root = Null /\ shown.recs = <<>>
      BY DEF SessionInit, Blank
  <2>2. [i \in 1..Len(shown.recs) |-> shown.recs[i].at] = <<>>
      BY <2>1, NoTimes DEF Times
  <2> QED
      BY <2>1, <2>2 DEF SessionInit, Study!Init
<1>2. SessionInv /\ [SessionNext]_sessionVars => [Study!Next]_Study!vars
  <2> SUFFICES ASSUME SessionInv, [SessionNext]_sessionVars
               PROVE  [Study!Next]_Study!vars
      OBVIOUS
  <2>0. SessionTypeOK /\ DigestIsOwn /\ Fresh /\ PageIsCurrent /\ Unasked /\ Pending
      BY DEF SessionInv
  <2>1. CASE Start \/ Solve \/ UNCHANGED sessionVars
      BY <2>1, StudyStutter DEF Start, Solve, sessionVars, history
  <2>2. CASE Record
    <3>1. CASE active
      <4>1. generation \in Session /\ moves + 1 \in 1..MaxMoves
          BY <2>0, <2>2, <3>1, SessionAssumption
             DEF Record, DigestIsOwn, SessionTypeOK, CoreTypeOK, QueueTypeOK
      <4>2. asked' = [asked EXCEPT ![generation] = Append(@, moves + 1)] /\ shown' = shown
          BY <2>2, <3>1 DEF Record
      <4>3. \E s \in Session : Study!Ask(s)
          BY <4>1, <4>2 DEF Study!Ask
      <4> QED
          BY <4>3 DEF Study!Next
    <3>2. CASE ~active
        BY <2>2, <3>2, StudyStutter DEF Record
    <3> QED
        BY <3>1, <3>2
  <2>3. CASE Reset
      BY <2>3, StudyClear DEF Reset, history, Study!Next
  <2>4. ASSUME NEW g \in Session, Proceed(g)
        PROVE  [Study!Next]_Study!vars
    <3>1. CASE Open(g)
      <4>1. CASE g = generation
        <5>0. g \in opening /\ g # Null
            BY <3>1, SessionAssumption DEF Open, Ready, Session
        <5>4. g # shown.root
            BY <2>0, <5>0 DEF Unasked
        <5>1. /\ chain[g] = <<>> /\ asked[g] = <<>>
              /\ shown'.status = "measuring" /\ shown'.root = g /\ shown'.recs = chain[g]
              /\ asked' = asked
            BY <2>0, <3>1, <4>1, <5>0 DEF Open, Fresh, Unasked, history
        <5>2. [i \in 1..Len(shown'.recs) |-> shown'.recs[i].at] = <<>>
            BY <5>1, NoTimes DEF Times
        <5>3. Study!Open(g)
            BY <5>1, <5>2, <5>4 DEF Study!Open
        <5> QED
            BY <5>3 DEF Study!Next
      <4>2. CASE g # generation
          BY <3>1, <4>2, StudyStutter DEF Open, history
      <4> QED
          BY <4>1, <4>2
    <3>2. CASE OpenFails(g)
      <4>1. CASE g = generation
          BY <3>2, <4>1, StudyClear DEF OpenFails, history, Study!Next
      <4>2. CASE g # generation
          BY <3>2, <4>2, StudyStutter DEF OpenFails, history
      <4> QED
          BY <4>1, <4>2
    <3>3. CASE RunDropped(g) \/ RunRecord(g)
        BY <3>3, StudyStutter DEF RunDropped, RunRecord, history
    <3>4. CASE RunSolve(g)
      <4>1. shown.status = "measuring"
          BY <2>0, <3>4 DEF RunSolve, Pending
      <4>2. /\ shown'.status = "solved" /\ shown'.root = shown.root
            /\ shown'.recs = shown.recs /\ asked' = asked
          BY <3>4 DEF RunSolve, Republished, history
      <4>3. Study!Close
          BY <4>1, <4>2 DEF Study!Close
      <4> QED
          BY <4>3 DEF Study!Next
    <3>5. CASE AppendDone(g)
      <4>1. CASE g = generation
          BY <3>5, <4>1, StudyExtend DEF Study!Next
      <4>2. CASE g # generation
          BY <3>5, <4>2, StudyStutter DEF AppendDone, history
      <4> QED
          BY <4>1, <4>2
    <3>6. CASE AppendFails(g)
      <4>1. CASE g = generation
        <5>1. shown.status = "measuring"
            BY <2>0, <3>6, <4>1 DEF AppendFails, PageIsCurrent, Pending
        <5>2. /\ shown'.status = "error" /\ shown'.root = shown.root
              /\ shown'.recs = shown.recs /\ asked' = asked
            BY <3>6, <4>1 DEF AppendFails, Republished, history
        <5>3. Study!Close
            BY <5>1, <5>2 DEF Study!Close
        <5> QED
            BY <5>3 DEF Study!Next
      <4>2. CASE g # generation
          BY <3>6, <4>2, StudyStutter DEF AppendFails, history
      <4> QED
          BY <4>1, <4>2
    <3> QED
        BY <2>4, <3>1, <3>2, <3>3, <3>4, <3>5, <3>6 DEF Proceed
  <2> QED
      BY <2>1, <2>2, <2>3, <2>4 DEF SessionNext
<1> QED
    BY <1>1, <1>2, SessionInvariant, PTL DEF SessionSpec, ImplementsStudy, Study!Spec

=============================================================================
