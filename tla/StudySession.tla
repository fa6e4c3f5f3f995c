---------------------------- MODULE StudySession ----------------------------
(***************************************************************************)
(* What the interaction study promises its visitor: the page shows one     *)
(* session at a time; the transcript it shows is a prefix of the moves     *)
(* made in that session, in the order they were made, and only ever grows  *)
(* by the next of them; a solved or failed session is frozen until it is   *)
(* replaced.                                                               *)
(***************************************************************************)
EXTENDS Naturals, Sequences

CONSTANTS
    Session,    \* the sessions a page may start
    Move,       \* the moves a visitor may make
    Null        \* no session is shown

VARIABLES
    status,     \* what the page says of the session
    session,    \* the session shown, or Null
    transcript, \* the moves shown, by the time each was made
    asked       \* the moves made in each session

vars == <<status, session, transcript, asked>>

Init ==
    /\ status = "ready"
    /\ session = Null
    /\ transcript = <<>>
    /\ asked = [s \in Session |-> <<>>]

\* The visitor makes a move.
Ask(s) ==
    /\ \E m \in Move : asked' = [asked EXCEPT ![s] = Append(@, m)]
    /\ UNCHANGED <<status, session, transcript>>

\* A new session replaces the one shown.
Open(s) ==
    /\ s # session
    /\ asked[s] = <<>>
    /\ status' = "measuring"
    /\ session' = s
    /\ transcript' = <<>>
    /\ UNCHANGED asked

\* The next move of the session enters the transcript.
Extend ==
    /\ status = "measuring"
    /\ Len(transcript) < Len(asked[session])
    /\ transcript' = SubSeq(asked[session], 1, Len(transcript) + 1)
    /\ UNCHANGED <<status, session, asked>>

\* The session ends and its transcript stands.
Close ==
    /\ status = "measuring"
    /\ status' \in {"solved", "error"}
    /\ UNCHANGED <<session, transcript, asked>>

\* The visitor resets, or a new session could not be opened.
Clear ==
    /\ status' \in {"ready", "error"}
    /\ session' = Null
    /\ transcript' = <<>>
    /\ UNCHANGED asked

Next ==
    \/ \E s \in Session : Ask(s) \/ Open(s)
    \/ Extend
    \/ Close
    \/ Clear

Spec == Init /\ [][Next]_vars

=============================================================================
