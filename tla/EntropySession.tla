--------------------------- MODULE EntropySession ---------------------------
(***************************************************************************)
(* The measurement session of the cube page (createEntropySession, over    *)
(* createTranscriptDigest): start, record, solve and reset, whose SHA-256  *)
(* work is asynchronous and finishes after other calls were made.          *)
(*                                                                         *)
(* JavaScript runs to completion: a call from outside or a finished digest *)
(* is a task, and the callbacks it makes ready on the record queues run    *)
(* before the next task.  A digest object and a record queue are named by  *)
(* the generation of the start() that made them.                           *)
(***************************************************************************)
EXTENDS Integers, Sequences

CONSTANTS
    MaxGeneration,  \* bound: calls of start() and reset()
    MaxMoves,       \* bound: calls of record() with an interaction
    InOrder,        \* digests that start() creates are ready in the order asked
    Null

Session == 1..MaxGeneration

Rec == [sequence : Nat, at : Nat, prev : Nat \cup {Null}, of : Session]

ASSUME SessionAssumption ==
    /\ MaxGeneration \in Nat
    /\ MaxMoves \in Nat
    /\ InOrder \in BOOLEAN
    /\ Null \notin Int

ASSUME NullAssumption == Null \notin [into : Session, rec : Rec]

VARIABLES
    generation,         \* calls of start() and reset() so far
    active,             \* records are accepted
    sequence,           \* the number of the last record of the session
    lastCommittedAt,    \* when it was committed, or Null
    salt,               \* the session's salt, named by its generation, or Null
    digest,             \* the digest object, named by its generation, or Null
    recordCount,        \* the estimator's count of records
    opening,            \* the starts that await their digest
    queue,              \* the calls waiting on each record queue
    inflight,           \* the record each queue is appending, or Null
    chain,              \* the records that entered each digest object
    shown,              \* the state last published to the page
    moves,              \* record() calls made; doubles as their committedAt
    asked,              \* history: the moves each session accepted
    solveCall           \* history: how many of them came before solve(), or Null

core == <<generation, active, sequence, lastCommittedAt, salt, digest, recordCount>>
history == <<moves, asked, solveCall>>
sessionVars == <<core, opening, queue, inflight, chain, shown, history>>

\* What is published: the digest is the object it was read from and the
\* records that had entered it; root is Null when no digest is shown.
Blank(status) == [status |-> status, salt |-> Null, root |-> Null,
                  recs |-> <<>>, count |-> 0]

\* publish(patch): the salt stays the one that is shown.
Republished(status, root, recs, count) ==
    [status |-> status, salt |-> shown.salt, root |-> root,
     recs |-> recs, count |-> count]

SessionInit ==
    /\ generation = 0
    /\ active = FALSE
    /\ sequence = 0
    /\ lastCommittedAt = Null
    /\ salt = Null
    /\ digest = Null
    /\ recordCount = 0
    /\ opening = {}
    /\ queue = [g \in Session |-> <<>>]
    /\ inflight = [g \in Session |-> Null]
    /\ chain = [g \in Session |-> <<>>]
    /\ shown = Blank("ready")
    /\ moves = 0
    /\ asked = [g \in Session |-> <<>>]
    /\ solveCall = [g \in Session |-> Null]

\* No callback is ready to run: the next task may begin.
Quiescent == \A g \in Session : queue[g] = <<>> \/ inflight[g] # Null

----------------------------------------------------------------------------
(* start() *)

\* Slip: the session is numbered before the counter is advanced.
StartPostIncrement ==
    /\ Quiescent
    /\ generation < MaxGeneration
    /\ generation' = generation + 1
    /\ active' = FALSE
    /\ sequence' = 0
    /\ lastCommittedAt' = Null
    /\ recordCount' = 0
    /\ salt' = generation'
    /\ opening' = opening \cup {generation}
    /\ UNCHANGED <<digest, queue, inflight, chain, shown, history>>

\* Slip: the old session goes on accepting records while the new one opens.
StartStillActive ==
    /\ Quiescent
    /\ generation < MaxGeneration
    /\ generation' = generation + 1
    /\ sequence' = 0
    /\ lastCommittedAt' = Null
    /\ recordCount' = 0
    /\ salt' = generation'
    /\ opening' = opening \cup {generation'}
    /\ UNCHANGED <<active, digest, queue, inflight, chain, shown, history>>

\* Up to the await of the digest.  Nothing is published.
Start ==
    /\ Quiescent
    /\ generation < MaxGeneration
    /\ generation' = generation + 1
    /\ active' = FALSE
    /\ sequence' = 0
    /\ lastCommittedAt' = Null
    /\ recordCount' = 0
    /\ salt' = generation'
    /\ opening' = opening \cup {generation'}
    /\ UNCHANGED <<digest, queue, inflight, chain, shown, history>>

Ready(g) == g \in opening /\ (InOrder => \A h \in opening : g <= h)

\* The digest is there.  It is assigned before the generation is compared;
\* digestHex() of a fresh digest resolves within the same task.
Open(g) ==
    /\ Quiescent
    /\ Ready(g)
    /\ opening' = opening \ {g}
    /\ digest' = g
    /\ IF g = generation
         THEN /\ active' = TRUE
              /\ shown' = [status |-> "measuring", salt |-> salt, root |-> g,
                           recs |-> chain[g], count |-> recordCount]
         ELSE UNCHANGED <<active, shown>>
    /\ UNCHANGED <<generation, sequence, lastCommittedAt, salt, recordCount,
                   queue, inflight, chain, history>>

\* createDigest() rejects: the error is published unless a later call came.
OpenFails(g) ==
    /\ Quiescent
    /\ Ready(g)
    /\ opening' = opening \ {g}
    /\ IF g = generation
         THEN /\ active' = FALSE
              /\ recordCount' = 0
              /\ shown' = Blank("error")
         ELSE UNCHANGED <<active, recordCount, shown>>
    /\ UNCHANGED <<generation, sequence, lastCommittedAt, salt, digest,
                   queue, inflight, chain, history>>

----------------------------------------------------------------------------
(* record() *)

\* The call: refused when no session is active, else queued.
Record ==
    /\ Quiescent
    /\ moves < MaxMoves
    /\ moves' = moves + 1
    /\ IF active
         THEN /\ queue' = [queue EXCEPT ![generation] =
                              Append(@, [kind |-> "record", at |-> moves'])]
              /\ asked' = [asked EXCEPT ![generation] = Append(@, moves')]
         ELSE UNCHANGED <<queue, asked>>
    /\ UNCHANGED <<core, opening, inflight, chain, shown, solveCall>>

Running(g, kind) ==
    /\ inflight[g] = Null
    /\ queue[g] # <<>>
    /\ Head(queue[g]).kind = kind

\* Slip: a queued record is dropped whatever the state of the session.
DropAny(g) ==
    /\ inflight[g] = Null
    /\ queue[g] # <<>>
    /\ queue' = [queue EXCEPT ![g] = Tail(@)]
    /\ UNCHANGED <<core, opening, inflight, chain, shown, history>>

\* A queued record or solve of a session that is over does nothing.
RunDropped(g) ==
    /\ inflight[g] = Null
    /\ queue[g] # <<>>
    /\ ~active \/ g # generation
    /\ queue' = [queue EXCEPT ![g] = Tail(@)]
    /\ UNCHANGED <<core, opening, inflight, chain, shown, history>>

\* The callback of record(), up to the await of append().  "of" is not in the
\* code: it remembers the session the move was made in.
RunRecord(g) ==
    /\ Running(g, "record")
    /\ active /\ g = generation
    /\ queue' = [queue EXCEPT ![g] = Tail(@)]
    /\ inflight' = [inflight EXCEPT ![g] =
            [into |-> digest,
             rec  |-> [sequence |-> sequence + 1, at |-> Head(queue[g]).at,
                       prev |-> lastCommittedAt, of |-> g]]]
    /\ UNCHANGED <<core, opening, chain, shown, history>>

\* Slip: the time of the last record is not remembered.
AppendForgetful(g) ==
    /\ Quiescent
    /\ inflight[g] # Null
    /\ LET d == inflight[g].into
           r == inflight[g].rec
       IN /\ chain' = [chain EXCEPT ![d] = Append(@, r)]
          /\ IF g = generation
               THEN /\ sequence' = r.sequence
                    /\ recordCount' = recordCount + 1
                    /\ shown' = Republished(shown.status, d, chain'[d], recordCount')
               ELSE UNCHANGED <<sequence, recordCount, shown>>
    /\ inflight' = [inflight EXCEPT ![g] = Null]
    /\ UNCHANGED <<generation, active, lastCommittedAt, salt, digest, opening, queue, history>>

\* Slip: the generation is not compared again after the await.
AppendStale(g) ==
    /\ Quiescent
    /\ inflight[g] # Null
    /\ LET d == inflight[g].into
           r == inflight[g].rec
       IN /\ chain' = [chain EXCEPT ![d] = Append(@, r)]
          /\ sequence' = r.sequence
          /\ lastCommittedAt' = r.at
          /\ recordCount' = recordCount + 1
          /\ shown' = Republished(shown.status, d, chain'[d], recordCount')
    /\ inflight' = [inflight EXCEPT ![g] = Null]
    /\ UNCHANGED <<generation, active, salt, digest, opening, queue, history>>

\* append() resolves: the digest has taken the record in any case; the session
\* counts it, and publishes, only if no later start() or reset() came.
AppendDone(g) ==
    /\ Quiescent
    /\ inflight[g] # Null
    /\ LET d == inflight[g].into
           r == inflight[g].rec
       IN /\ chain' = [chain EXCEPT ![d] = Append(@, r)]
          /\ IF g = generation
               THEN /\ sequence' = r.sequence
                    /\ lastCommittedAt' = r.at
                    /\ recordCount' = recordCount + 1
                    /\ shown' = Republished(shown.status, d, chain'[d], recordCount')
               ELSE UNCHANGED <<sequence, lastCommittedAt, recordCount, shown>>
    /\ inflight' = [inflight EXCEPT ![g] = Null]
    /\ UNCHANGED <<generation, active, salt, digest, opening, queue, history>>

\* append() rejects: the session is over, with what it had.
AppendFails(g) ==
    /\ Quiescent
    /\ inflight[g] # Null
    /\ inflight' = [inflight EXCEPT ![g] = Null]
    /\ IF g = generation
         THEN /\ active' = FALSE
              /\ shown' = Republished("error", shown.root, shown.recs, shown.count)
         ELSE UNCHANGED <<active, shown>>
    /\ UNCHANGED <<generation, sequence, lastCommittedAt, salt, digest, recordCount,
                   opening, queue, chain, history>>

----------------------------------------------------------------------------
(* solve() and reset() *)

\* Slip: the session is closed at the call instead of in its turn.
SolveAtOnce ==
    /\ active
    /\ active' = FALSE
    /\ shown' = Republished("solved", shown.root, shown.recs, shown.count)
    /\ solveCall' = [solveCall EXCEPT ![generation] = Len(asked[generation])]
    /\ UNCHANGED <<generation, sequence, lastCommittedAt, salt, digest, recordCount,
                   opening, queue, inflight, chain, moves, asked>>

\* The call queues behind the records of the session.  A call outside an
\* active session queues a callback that finds it inactive.  The page calls it
\* in the task of a record(), before the callbacks of that run.
Solve ==
    /\ active
    /\ solveCall[generation] = Null     \* bound: once a session
    /\ queue' = [queue EXCEPT ![generation] =
                    Append(@, [kind |-> "solve", at |-> moves])]
    /\ solveCall' = [solveCall EXCEPT ![generation] = Len(asked[generation])]
    /\ UNCHANGED <<core, opening, inflight, chain, shown, moves, asked>>

RunSolve(g) ==
    /\ Running(g, "solve")
    /\ active /\ g = generation
    /\ queue' = [queue EXCEPT ![g] = Tail(@)]
    /\ active' = FALSE
    /\ shown' = Republished("solved", shown.root, shown.recs, shown.count)
    /\ UNCHANGED <<generation, sequence, lastCommittedAt, salt, digest, recordCount,
                   opening, inflight, chain, history>>

Reset ==
    /\ Quiescent
    /\ generation < MaxGeneration
    /\ generation' = generation + 1
    /\ active' = FALSE
    /\ sequence' = 0
    /\ lastCommittedAt' = Null
    /\ salt' = Null
    /\ digest' = Null
    /\ recordCount' = 0
    /\ shown' = Blank("ready")
    /\ UNCHANGED <<opening, queue, inflight, chain, history>>

----------------------------------------------------------------------------

\* What the browser does on its own: callbacks and finished digests.
Proceed(g) ==
    \/ Open(g) \/ OpenFails(g)
    \/ RunDropped(g) \/ RunRecord(g) \/ RunSolve(g)
    \/ AppendDone(g) \/ AppendFails(g)

SessionNext ==
    \/ Start \/ Record \/ Solve \/ Reset
    \/ \E g \in Session : Proceed(g)

SessionSpec == SessionInit /\ [][SessionNext]_sessionVars

\* Every digest is finished or rejected, and a ready callback runs.
SessionFairSpec == SessionSpec /\ \A g \in Session : WF_sessionVars(Proceed(g))

----------------------------------------------------------------------------
(* Properties *)

Call == [kind : {"record", "solve"}, at : Nat]
Shown == [status : {"ready", "measuring", "solved", "error"},
          salt : Session \cup {Null}, root : Session \cup {Null},
          recs : Seq(Rec), count : Nat]

CoreTypeOK ==
    /\ generation \in 0..MaxGeneration
    /\ sequence \in Nat
    /\ lastCommittedAt \in Nat \cup {Null}
    /\ salt \in Session \cup {Null}
    /\ digest \in Session \cup {Null}
    /\ active => digest # Null
    /\ recordCount \in Nat
    /\ opening \subseteq 1..generation

QueueTypeOK ==
    /\ queue \in [Session -> Seq(Call)]
    /\ inflight \in [Session -> [into : Session, rec : Rec] \cup {Null}]
    /\ chain \in [Session -> Seq(Rec)]
    /\ shown \in Shown
    /\ moves \in Nat
    /\ asked \in [Session -> Seq(Nat)]
    /\ solveCall \in [Session -> Nat \cup {Null}]

\* Every variable has its type; a start that waits belongs to a generation that
\* was handed out, and an active session has a digest to append to.
SessionTypeOK == active \in BOOLEAN /\ CoreTypeOK /\ QueueTypeOK

\* The salt, the digest, the records and the count on the page are of one
\* session: no reader can pair a salt with another session's digest.  start()
\* sets the salt at once and the digest after an await (entropy-session.js:46).
ShownIsOneSession ==
    shown.root # Null =>
        /\ shown.salt = shown.root
        /\ shown.count = Len(shown.recs)
        /\ \A i \in 1..Len(shown.recs) : shown.recs[i].of = shown.salt

\* A record enters only the digest of the session it was made in, however late
\* its queue or its digest is served (entropy-session.js:74-75).
RecordsEnterOwnDigest ==
    \A d \in Session : \A i \in 1..Len(chain[d]) : chain[d][i].of = d

\* The transcript hashed into a digest is gapless and linked: the records are
\* numbered 1, 2, ... and each is timed against the one before it.
TranscriptLinked ==
    \A d \in Session : \A i \in 1..Len(chain[d]) :
        /\ chain[d][i].sequence = i
        /\ chain[d][i].prev = IF i = 1 THEN Null ELSE chain[d][i - 1].at

\* A session shown as solved holds every move accepted before the solve and
\* none accepted after it, although those still waited for their digest.
SolveLosesNothing ==
    shown.status = "solved" => Len(shown.recs) = solveCall[shown.salt]

\* A move accepted by a session is shown in the end, unless the session is
\* replaced or fails, or was solved before it.
MovesAreShown ==
    \A g \in Session, n \in 1..MaxMoves :
        (generation = g /\ Len(asked[g]) = n)
            ~> \/ generation # g
               \/ shown.status \in {"error", "solved"}
               \/ shown.root = g /\ Len(shown.recs) >= n

\* The page keeps the promise of StudySession.
Study == INSTANCE StudySession WITH
    Move <- 1..MaxMoves,
    status <- shown.status,
    session <- shown.root,
    transcript <- [i \in 1..Len(shown.recs) |-> shown.recs[i].at]

ImplementsStudy == Study!Spec

=============================================================================
