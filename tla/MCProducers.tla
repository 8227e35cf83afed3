------------------------------ MODULE MCProducers ------------------------------
(***************************************************************************)
(* The parts of Producers, checked side by side.  "part" says which one a  *)
(* behaviour is about; the other two rest in an initial state of theirs,   *)
(* so a behaviour of this module is one of the part that moves, and every  *)
(* property is asked of each part as if the part were alone.               *)
(***************************************************************************)
EXTENDS Producers, Sequences, TLC

CONSTANTS
    r1, r2, r3, r4, r5, sharedKey,
    d0,
    Leaf, MaxKeys           \* a value, and how many keys an object has

\* r1 and r2 carry the same key, the others none.
SharedKey == [r \in Requests |-> IF r \in {r1, r2} THEN sharedKey ELSE NoKey]

\* The letter to replay is that of one delivery, to one of the consumers.
SomeConsumer == [d \in {d0} |-> CHOOSE c \in Consumers : TRUE]

-----------------------------------------------------------------------------
(* Payloads of two levels.                                                   *)

Listed(s) == {<<s[p[1]], s[p[2]]>> : p \in {q \in (DOMAIN s) \X (DOMAIN s) : q[1] < q[2]}}

\* "10" sorts before "9" as a string and after it as an index.
CodeUnits == Listed(<<"10", "9", "aa", "b">>)
Lengths   == Listed(<<"9", "b", "10", "aa">>)
Indices   == Listed(<<"9", "10">>)

EntriesOf(values, n) ==
    {e \in UNION {[1..m -> ObjectKeys \X values] : m \in 0..n} :
        \A i, j \in DOMAIN e : e[i][1] = e[j][1] => i = j}

\* Objects and arrays, as PayloadChecksum has them.
Entries(of)  == [kind |-> "object", entries |-> of]
Elements(of) == [kind |-> "array", entries |-> of]

Alone(node) == [p \in {<<>>} |-> node]
Flat(n)     == {Alone(Entries(e)) : e \in EntriesOf({Leaf}, n)}

Twice(v) == [p \in {<<>>, <<"first">>, <<"second">>} |->
                IF p = <<>> THEN Elements(<<<<"first", Inside>>, <<"second", Inside>>>>)
                ELSE v[<<>>]]

\* Objects with what is inside the keys that hold something.
Nested(e, inner) ==
    LET places == UNION {{<<key>> \o p : p \in DOMAIN inner[key]} : key \in DOMAIN inner}
    IN  [p \in {<<>>} \cup places |->
            IF p = <<>> THEN Entries(e) ELSE inner[p[1]][Tail(p)]]

TwoLevels ==
    LET parts    == Flat(MaxKeys) \cup {Twice(v) : v \in Flat(MaxKeys)}
        holds(e) == {e[i][1] : i \in {m \in DOMAIN e : e[m][2] = Inside}}
    IN  UNION {{Nested(e, inner) : inner \in [holds(e) -> parts]} :
                    e \in EntriesOf({Leaf, Inside}, MaxKeys)}

OneKey == Flat(1)

-----------------------------------------------------------------------------
(* Side by side.                                                             *)

VARIABLE part

ASSUME Replay!ReplayAssumption /\ Checksum!ChecksumAssumption

SideBySideInit ==
    /\ part \in {"quota", "fan-out", "replay", "checksum"}
    /\ Init
    /\ Replay!Init
    /\ Checksum!Init
    /\ part # "checksum" => source = "api" /\ posted = Checksum!NoPayload

\* Requests that may all succeed, in two months, or requests with one key and one that
\* is too big, with a fault.
Quota == part = "quota" /\ faults' = 0 /\ \A r \in {r2, r5} : pc'[r] = "idle"
FanOut ==
    /\ part = "fan-out" /\ month' = 1 /\ scheduled' = 0
    /\ \A r \in {r3, r4} : pc'[r] = "idle"

SideBySideNext ==
    \/ part \in {"quota", "fan-out"} /\ Next /\ (Quota \/ FanOut)
       /\ UNCHANGED <<part, replayVars, checksumVars>>
    \/ part = "replay"   /\ Replay!Next   /\ UNCHANGED <<part, vars, checksumVars>>
    \/ part = "checksum" /\ Checksum!Next /\ UNCHANGED <<part, vars, replayVars>>

SideBySide == SideBySideInit /\ [][SideBySideNext]_<<part, vars, replayVars, checksumVars>>

\* Two requests without a key differ in nothing.
Interchangeable == Permutations({r3, r4})
=============================================================================
