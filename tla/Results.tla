------------------------------ MODULE Results -------------------------------
(***************************************************************************)
(* What becomes of the rows of a query: the order-independent hash of      *)
(* engine/verifier.py, drained from the cursor in chunks, and the capped   *)
(* fetch of run_query (engine/profiler.py).  Episode takes both as given:  *)
(* there a result is one of Hash, and "big" when it is over the cap.       *)
(*                                                                         *)
(* A row has one column.  A float is a whole number of tenths of its last  *)
(* kept decimal; none lies half way between two decimals.  SHA-256 and the *)
(* bitwise exclusive or are parameters, the cursor is external: a fetch    *)
(* gives at least one row as long as there is one.                         *)
(***************************************************************************)
EXTENDS Integers, Sequences, FiniteSets

CONSTANTS
    Value,       \* the values a query may return
    MaxLen,      \* bound: rows of a result
    Caps,        \* the row caps of the reads (MAX_RESULT_ROWS)
    Chunk,       \* _FETCH_CHUNK_ROWS
    Digest(_),   \* SHA-256 of a row's repr, below Modulus
    Modulus,     \* _DIGEST_MODULUS
    BitXor(_, _)

ValueType == [type : {"float", "int", "null", "nan"}, n : Int]

ASSUME ResultsAssumption ==
    /\ Value \subseteq ValueType
    /\ \A v \in Value : v.type = "float" => v.n % 10 # 5
    /\ MaxLen \in Nat /\ Caps \subseteq Nat
    /\ Chunk \in Nat \ {0} /\ Modulus \in Nat \ {0}

Result == UNION {[1..len -> Value] : len \in 0..MaxLen}

VARIABLES
    pc,          \* "hash", "read" or "done"
    truth,       \* rows of the ground truth
    agent,       \* rows of the agent's query
    side,        \* whose rows are being hashed
    cursor,      \* rows not yet fetched
    batch,       \* rows fetched and not yet hashed
    acc,         \* row_count and the three accumulators
    gt_hash,     \* the hash of the ground truth
    verdict,     \* matches_ground_truth
    max_rows, budget, rows, truncated   \* _fetch_capped

hashVars == <<side, batch, acc, gt_hash, verdict>>
readVars == <<max_rows, budget, rows, truncated>>
vars == <<pc, truth, agent, cursor, hashVars, readVars>>

Abs(n) == IF n < 0 THEN -n ELSE n
Smaller(a, b) == IF a <= b THEN a ELSE b

-----------------------------------------------------------------------------
(* canonical_row_hash *)

\* The repr of a normalized value.  round() keeps the sign of a float, also of
\* one that becomes zero.
Normalized(v) ==
    IF v.type \in {"null", "nan"} THEN [type |-> "null", minus |-> FALSE, n |-> 0]
    ELSE [type |-> v.type, minus |-> v.n < 0,
          n |-> IF v.type = "float" THEN (Abs(v.n) + 5) \div 10 ELSE Abs(v.n)]

Digests == 0..Modulus - 1

\* An exclusive or keeps the width and does not tell the order.
ASSUME DigestAssumption ==
    /\ \A v \in Value : Digest(Normalized(v)) \in Digests
    /\ \A a, b \in Digests : BitXor(a, b) \in Digests /\ BitXor(a, b) = BitXor(b, a)
    /\ \A a, b, c \in Digests : BitXor(BitXor(a, b), c) = BitXor(a, BitXor(b, c))

NoRows == [count |-> 0, sum |-> 0, sumsq |-> 0, xor |-> 0]

\* Mutant: rows are folded by exclusive or alone, where pairs cancel out.
AccumulateXor(a, row) ==
    [count |-> a.count + 1, sum |-> 0, sumsq |-> 0,
     xor |-> BitXor(a.xor, Digest(Normalized(row)))]

Accumulate(a, row) ==
    LET d == Digest(Normalized(row))
    IN  [count |-> a.count + 1,
         sum |-> (a.sum + d) % Modulus,
         sumsq |-> (a.sumsq + ((d * d) % Modulus)) % Modulus,
         xor |-> BitXor(a.xor, d)]

FetchChunk ==
    /\ pc = "hash" /\ batch = <<>> /\ cursor # <<>>
    /\ \E k \in 1..Smaller(Chunk, Len(cursor)) :
           /\ batch' = SubSeq(cursor, 1, k)
           /\ cursor' = SubSeq(cursor, k + 1, Len(cursor))
    /\ UNCHANGED <<pc, truth, agent, side, acc, gt_hash, verdict, readVars>>

HashRow ==
    /\ pc = "hash" /\ batch # <<>>
    /\ acc' = Accumulate(acc, Head(batch))
    /\ batch' = Tail(batch)
    /\ UNCHANGED <<pc, truth, agent, side, cursor, gt_hash, verdict, readVars>>

\* The ground truth was fetched as a whole (materialize, _fire_drift); the rows of
\* a submission are drained from its cursor.
TruthHashed ==
    /\ pc = "hash" /\ batch = <<>> /\ cursor = <<>> /\ side = "truth"
    /\ gt_hash' = acc
    /\ acc' = NoRows
    /\ side' = "agent"
    /\ cursor' = agent
    /\ UNCHANGED <<pc, truth, agent, batch, verdict, readVars>>

AgentHashed ==
    /\ pc = "hash" /\ batch = <<>> /\ cursor = <<>> /\ side = "agent"
    /\ verdict' = (acc = gt_hash)
    /\ pc' = "done"
    /\ UNCHANGED <<truth, agent, side, cursor, batch, acc, gt_hash, readVars>>

-----------------------------------------------------------------------------
(* _fetch_capped *)

\* Mutant: a result that fills the cap cannot be told from a larger one.
RowBudgetExact(cap) == cap

\* One row more than the cap, so that an overflow is seen.
RowBudget(cap) == cap + 1

FetchCapped ==
    /\ pc = "read" /\ budget > 0 /\ cursor # <<>>
    /\ \E k \in 1..Smaller(Smaller(Chunk, budget), Len(cursor)) :
           /\ rows' = rows \o SubSeq(cursor, 1, k)
           /\ budget' = budget - k
           /\ cursor' = SubSeq(cursor, k + 1, Len(cursor))
    /\ UNCHANGED <<pc, truth, agent, hashVars, max_rows, truncated>>

Drained ==
    /\ pc = "read" /\ budget > 0 /\ cursor = <<>>
    /\ truncated' = FALSE
    /\ pc' = "done"
    /\ UNCHANGED <<truth, agent, cursor, hashVars, max_rows, budget, rows>>

BudgetUsed ==
    /\ pc = "read" /\ budget = 0
    /\ truncated' = (Len(rows) > max_rows)
    /\ pc' = "done"
    /\ UNCHANGED <<truth, agent, cursor, hashVars, max_rows, budget, rows>>

-----------------------------------------------------------------------------
(* The specification *)

\* Either the agent's rows are compared with the ground truth's, or they are
\* read for run_query.
Init ==
    /\ agent \in Result
    /\ side = "truth" /\ acc = NoRows /\ gt_hash = NoRows
    /\ verdict = FALSE /\ rows = <<>> /\ truncated = FALSE
    /\ \/ /\ pc = "hash" /\ truth \in Result /\ batch = truth /\ cursor = <<>>
          /\ max_rows = 0 /\ budget = 0
       \/ /\ pc = "read" /\ truth = <<>> /\ batch = <<>> /\ cursor = agent
          /\ max_rows \in Caps /\ budget = RowBudget(max_rows)

Next == FetchChunk \/ HashRow \/ TruthHashed \/ AgentHashed
        \/ FetchCapped \/ Drained \/ BudgetUsed

Spec == Init /\ [][Next]_vars

-----------------------------------------------------------------------------
(* Properties *)

\* Two values are one content: NULL and NaN are, and floats that round to the
\* same decimal.
SameValue(v, w) ==
    \/ v = w
    \/ {v.type, w.type} \subseteq {"null", "nan"}
    \/ {v.type, w.type} = {"float"} /\ (v.n + 5) \div 10 = (w.n + 5) \div 10

Alike(r, v) == {i \in 1..Len(r) : SameValue(r[i], v)}

SameContent(r, s) ==
    /\ Len(r) = Len(s)
    /\ \A v \in Value : Cardinality(Alike(r, v)) = Cardinality(Alike(s, v))

\* A submission matches exactly when it has the rows of the ground truth, in any
\* order and each as often, whatever chunks the cursors gave (canonical_row_hash).
VerdictIsContent ==
    pc = "done" /\ side = "agent" => (verdict <=> SameContent(agent, truth))

\* A read is truncated exactly when the result is over the cap, is the whole
\* result otherwise, and never fetches more than one row too many (_fetch_capped).
ReadIsExact ==
    pc = "done" /\ side = "truth" =>
        /\ truncated <=> Len(agent) > max_rows
        /\ ~truncated => rows = agent
        /\ Len(rows) <= max_rows + 1
=============================================================================
