----------------------------- MODULE Transcript -----------------------------
(***************************************************************************)
(* The bytes behind the transcript digest (transcript-digest.js): what the *)
(* initial state and each record of a session are encoded to, and the      *)
(* messages whose hashes make the chain.  The hash itself is external.     *)
(***************************************************************************)
EXTENDS Cube, Sequences

CONSTANTS
    Base,           \* values of a byte: 256, or 32 to stay within TLC's integers
    Domain,         \* DOMAIN and CONFIGURATION, as bytes
    Configuration

Byte == 0..Base - 1

ASSUME TranscriptAssumption ==
    /\ Base \in {32, 256}
    /\ Domain \in Seq(Byte) /\ Configuration \in Seq(Byte)

----------------------------------------------------------------------------
(* Numbers and tables *)

Uint16(n) == <<(n \div Base) % Base, n % Base>>

Uint32(n) ==
    LET h1 == n \div Base
        h2 == h1 \div Base
    IN <<(h2 \div Base) % Base, h2 % Base, h1 % Base, n % Base>>

MaxUint32 == Base * Base * Base * Base - 1

KIND == [layer |-> 0, orbit |-> 1]

COMMAND == [L |-> 0, M |-> 1, R |-> 2, D |-> 3, E |-> 4, U |-> 5,
            B |-> 6, S |-> 7, F |-> 8, X |-> 9, Y |-> 10, Z |-> 11]

POINTER == [mouse |-> 0, touch |-> 1, pen |-> 2, other |-> 3]

TURN == [t \in {-1, 1, 2} |-> IF t = -1 THEN 0 ELSE t]

COLOR == [none |-> 0, white |-> 1, orange |-> 2, blue |-> 3, red |-> 4,
          green |-> 5, yellow |-> 6]

Orbit == {"X", "Y", "Z"}

----------------------------------------------------------------------------
(* Records *)

Null == -1

\* What encodeRecord() accepts; anything else is a TypeError.
ValidRecord(r) ==
    /\ r.sequence \in 1..MaxUint32
    /\ r.kind \in DOMAIN KIND
    /\ r.command \in DOMAIN COMMAND
    /\ r.kind = "orbit" <=> r.command \in Orbit
    /\ r.signedQuarterTurns \in DOMAIN TURN
    /\ r.pointerType \in DOMAIN POINTER
    /\ r.timingBin \in {Null} \cup 0..5
    /\ r.directionSector \in 0..7
    /\ r.speedClass \in 0..2

\* Slip: no timing is written like the shortest.
EncodeRecordUntimed(r) ==
    <<1>> \o Uint32(r.sequence) \o
    <<KIND[r.kind], COMMAND[r.command], TURN[r.signedQuarterTurns], POINTER[r.pointerType],
      IF r.timingBin = Null THEN 0 ELSE r.timingBin, r.directionSector, r.speedClass>>

\* The version, 1, comes first; 0xff stands for no timing.
EncodeRecord(r) ==
    <<1>> \o Uint32(r.sequence) \o
    <<KIND[r.kind], COMMAND[r.command], TURN[r.signedQuarterTurns], POINTER[r.pointerType],
      IF r.timingBin = Null THEN Base - 1 ELSE r.timingBin, r.directionSector, r.speedClass>>

----------------------------------------------------------------------------
(* The initial state: id, address and six colours of each cubelet *)

PositionToAddress(p) == (1 - p.z) * 9 + (1 - p.y) * 3 + (p.x + 1)

AllDirections == <<Front, Vec(0, 1, 0), Vec(1, 0, 0), Vec(0, -1, 0), Vec(-1, 0, 0), Vec(0, 0, -1)>>

EncodeInitialState(cube) ==
    [i \in 1..216 |->
        LET id == (i - 1) \div 8
            k == (i - 1) % 8
        IN IF k = 0 THEN id
           ELSE IF k = 1 THEN PositionToAddress(cube[id].at)
           ELSE COLOR[cube[id].faces[AllDirections[k - 1]]]]

----------------------------------------------------------------------------
(* The messages that are hashed *)

Text(bytes) == Uint16(Len(bytes)) \o bytes

\* createTranscriptDigest(): the first message, of the session's salt and cube.
FirstMessage(salt, state) ==
    Text(Domain) \o salt \o Uint16(Len(state)) \o state \o Text(Configuration)

\* append(): each further one, of the digest so far and a record.
NextMessage(current, record) == Text(Domain) \o current \o EncodeRecord(record)

----------------------------------------------------------------------------
(* Reading back, as a verifier of a transcript would *)

Number(bytes) == ((bytes[1] * Base + bytes[2]) * Base + bytes[3]) * Base + bytes[4]

Named(table, code) == CHOOSE name \in DOMAIN table : table[name] = code

DecodeRecord(bytes) ==
    [sequence |-> Number(SubSeq(bytes, 2, 5)),
     kind |-> Named(KIND, bytes[6]),
     command |-> Named(COMMAND, bytes[7]),
     signedQuarterTurns |-> Named(TURN, bytes[8]),
     pointerType |-> Named(POINTER, bytes[9]),
     timingBin |-> IF bytes[10] = Base - 1 THEN Null ELSE bytes[10],
     directionSector |-> bytes[11],
     speedClass |-> bytes[12]]

=============================================================================
