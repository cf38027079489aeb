--------------------------- MODULE ResultsProofs ----------------------------
(***************************************************************************)
(* Proofs about what becomes of the rows of a query, for results, caps and *)
(* chunks of any size and however few rows a fetch gives.                  *)
(*                                                                         *)
(* The capped fetch of run_query is exact: what has been fetched and what  *)
(* is left make up the result, and the budget is what is left of one row   *)
(* more than the cap.                                                      *)
(*                                                                         *)
(* The verdict on a submission is about content.  The accumulators are a   *)
(* fold of the rows in which two rows may be swapped, so that they have    *)
(* one value for each set of rows, whatever the order; and two results of  *)
(* one content are taken apart row by row.  That the digests tell results  *)
(* of different contents apart is a hypothesis (NoCollision), as it is one *)
(* about SHA-256.                                                          *)
(***************************************************************************)
EXTENDS Results, Functions, FiniteSetTheorems, SequenceTheorems, TLAPS

\* While run_query reads.
Reading ==
    /\ side = "truth"
    /\ rows \in Seq(Value) /\ cursor \in Seq(Value)
    /\ rows \o cursor = agent
    /\ max_rows \in Nat /\ budget \in Nat
    /\ budget + Len(rows) = RowBudget(max_rows)

ReadInv ==
    /\ pc \in {"hash", "read", "done"}
    /\ pc = "read" => Reading
    /\ ReadIsExact

LEMMA ResultIsSeq == Result \subseteq Seq(Value)
  BY DEF Result

LEMMA InitRead == Init => ReadInv
<1> SUFFICES ASSUME Init PROVE ReadInv
  OBVIOUS
<1>1. agent \in Seq(Value)
  BY ResultIsSeq DEF Init
<1>2. CASE pc = "hash"
  BY <1>2 DEF ReadInv, ReadIsExact
<1>3. CASE pc = "read"
  <2>1. rows = <<>> /\ cursor = agent /\ max_rows \in Caps /\ budget = RowBudget(max_rows)
    BY <1>3 DEF Init
  <2>2. rows \o cursor = agent
    BY <1>1, <2>1, ConcatEmptySeq
  <2>3. max_rows \in Nat
    BY <2>1, ResultsAssumption
  <2>4. Reading
    BY <1>1, <2>1, <2>2, <2>3 DEF Init, Reading, RowBudget
  <2> QED BY <1>3, <2>4 DEF ReadInv, ReadIsExact
<1> QED BY <1>2, <1>3 DEF Init

\* A fetch moves a first part of the cursor to the end of the rows.
LEMMA Moved ==
  ASSUME NEW r \in Seq(Value), NEW c \in Seq(Value), NEW k \in 1..Len(c)
  PROVE  /\ r \o SubSeq(c, 1, k) \in Seq(Value)
         /\ SubSeq(c, k + 1, Len(c)) \in Seq(Value)
         /\ Len(r \o SubSeq(c, 1, k)) = Len(r) + k
         /\ (r \o SubSeq(c, 1, k)) \o SubSeq(c, k + 1, Len(c)) = r \o c
<1> DEFINE head == SubSeq(c, 1, k)
           rest == SubSeq(c, k + 1, Len(c))
<1>1. head \in Seq(Value) /\ Len(head) = k
  BY SubSeqProperties
<1>2. rest \in Seq(Value)
  BY SubSeqProperties
<1>3. head \o rest = c
  <2>1. 1 \in 1..(Len(c) + 1) /\ k \in (1 - 1)..Len(c) /\ Len(c) \in k..Len(c)
    OBVIOUS
  <2>2. SubSeq(c, 1, k) \o SubSeq(c, k + 1, Len(c)) = SubSeq(c, 1, Len(c))
    BY <2>1, ConcatAdjacentSubSeq
  <2> QED BY <2>2, SubSeqFull
<1> HIDE DEF head, rest
<1>4. (r \o head) \o rest = r \o (head \o rest)
  BY <1>1, <1>2, ConcatAssociative
<1>5. r \o head \in Seq(Value) /\ Len(r \o head) = Len(r) + Len(head)
  BY <1>1, ConcatProperties
<1> QED BY <1>1, <1>2, <1>3, <1>4, <1>5 DEF head, rest

LEMMA FetchReads == ReadInv /\ FetchCapped => ReadInv'
<1> SUFFICES ASSUME ReadInv, FetchCapped PROVE ReadInv'
  OBVIOUS
<1>1. Reading /\ budget > 0 /\ cursor # <<>>
  BY DEF ReadInv, FetchCapped
<1>2. PICK k \in 1..Smaller(Smaller(Chunk, budget), Len(cursor)) :
          /\ rows' = rows \o SubSeq(cursor, 1, k)
          /\ budget' = budget - k
          /\ cursor' = SubSeq(cursor, k + 1, Len(cursor))
  BY DEF FetchCapped
<1>3. k \in 1..Len(cursor) /\ k <= budget
  BY <1>1, ResultsAssumption DEF Smaller, Reading
<1>4. /\ rows' \in Seq(Value) /\ cursor' \in Seq(Value)
      /\ Len(rows') = Len(rows) + k /\ rows' \o cursor' = rows \o cursor
  BY <1>1, <1>2, <1>3, Moved DEF Reading
<1>5. UNCHANGED <<pc, agent, side, max_rows>>
  BY DEF FetchCapped, hashVars
<1>6. budget' \in Nat /\ budget' + Len(rows') = RowBudget(max_rows)
  BY <1>1, <1>2, <1>3, <1>4 DEF Reading
<1>7. Reading'
  BY <1>1, <1>4, <1>5, <1>6 DEF Reading, RowBudget
<1> QED BY <1>5, <1>7 DEF ReadInv, ReadIsExact, FetchCapped

\* The cursor is empty before the budget is used up: the result is whole.
LEMMA DrainedReads == ReadInv /\ Drained => ReadInv'
<1> SUFFICES ASSUME ReadInv, Drained PROVE ReadInv'
  OBVIOUS
<1>1. Reading /\ budget > 0 /\ cursor = <<>>
  BY DEF ReadInv, Drained
<1>2. rows = agent
  BY <1>1, ConcatEmptySeq DEF Reading
<1>3. Len(rows) \in Nat /\ Len(rows) <= max_rows
  BY <1>1 DEF Reading, RowBudget
<1> QED BY <1>1, <1>2, <1>3 DEF Drained, ReadInv, ReadIsExact, Reading, hashVars

\* The budget is used up: there is a row past the cap.
LEMMA BudgetReads == ReadInv /\ BudgetUsed => ReadInv'
<1> SUFFICES ASSUME ReadInv, BudgetUsed PROVE ReadInv'
  OBVIOUS
<1>1. Reading /\ budget = 0
  BY DEF ReadInv, BudgetUsed
<1>2. Len(rows) \in Nat /\ Len(rows) = max_rows + 1 /\ max_rows \in Nat
  BY <1>1 DEF Reading, RowBudget
<1>3. Len(agent) = Len(rows) + Len(cursor) /\ Len(cursor) \in Nat
  BY <1>1, ConcatProperties DEF Reading
<1>4. Len(agent) > max_rows /\ Len(rows) > max_rows /\ Len(rows) <= max_rows + 1
  BY <1>2, <1>3
<1>5. UNCHANGED <<agent, rows, max_rows>> /\ pc' = "done"
  BY DEF BudgetUsed
<1>6. truncated' = TRUE
  BY <1>4 DEF BudgetUsed
<1> QED BY <1>4, <1>5, <1>6 DEF ReadInv, ReadIsExact

LEMMA HashKeepsRead ==
  ASSUME ReadInv, FetchChunk \/ HashRow \/ TruthHashed \/ AgentHashed
  PROVE  ReadInv'
<1>1. CASE AgentHashed
  BY <1>1 DEF AgentHashed, ReadInv, ReadIsExact
<1>2. CASE FetchChunk \/ HashRow \/ TruthHashed
  BY <1>2 DEF FetchChunk, HashRow, TruthHashed, ReadInv, ReadIsExact
<1> QED BY <1>1, <1>2

LEMMA ReadStep == ReadInv /\ [Next]_vars => ReadInv'
<1> SUFFICES ASSUME ReadInv, [Next]_vars PROVE ReadInv'
  OBVIOUS
<1>1. CASE UNCHANGED vars
  BY <1>1 DEF vars, hashVars, readVars, ReadInv, ReadIsExact, Reading, RowBudget
<1>2. CASE Next
  BY <1>2, FetchReads, DrainedReads, BudgetReads, HashKeepsRead DEF Next
<1> QED BY <1>1, <1>2

\* run_query's read is exact, whatever the result, the cap and the chunks are.
THEOREM CappedReadIsExact == Spec => []ReadIsExact
<1>1. ReadInv => ReadIsExact
  BY DEF ReadInv
<1> QED BY InitRead, ReadStep, <1>1, PTL DEF Spec
-----------------------------------------------------------------------------
(* The accumulators do not tell the order of the rows *)

\* The four accumulators after the rows of a result.
HashOf(r) == FoldFunction(LAMBDA row, a : Accumulate(a, row), NoRows, r)

Accumulators == [count : Nat, sum : Digests, sumsq : Digests, xor : Digests]

\* A remainder is the only one.
LEMMA OneRemainder ==
  ASSUME NEW m \in Nat \ {0}, NEW p \in Int, NEW q \in Int,
         NEW r \in 0..m - 1, NEW s \in 0..m - 1, m * p + r = m * q + s
  PROVE  r = s
<1>1. CASE p = q
  BY <1>1
<1>2. CASE p > q
  <2>1. m * (p - q) >= m * 1
    BY <1>2
  <2>2. m * (p - q) = m * p - m * q
    OBVIOUS
  <2> QED BY <2>1, <2>2
<1>3. CASE p < q
  <2>1. m * (q - p) >= m * 1
    BY <1>3
  <2>2. m * (q - p) = m * q - m * p
    OBVIOUS
  <2> QED BY <2>1, <2>2
<1> QED BY <1>1, <1>2, <1>3

\* What a division leaves.
LEMMA Divides ==
  ASSUME NEW m \in Nat \ {0}, NEW a \in Int
  PROVE  a \div m \in Int /\ a % m \in 0..m - 1 /\ a = m * (a \div m) + (a % m)
  OBVIOUS

\* What is added to a remainder may be added before it is taken.
LEMMA RemainderFirst ==
  ASSUME NEW m \in Nat \ {0}, NEW a \in Int, NEW b \in Int
  PROVE  ((a % m) + b) % m = (a + b) % m
<1> DEFINE r == a % m
           c == r + b
           d == a + b
<1>1. r \in 0..m - 1 /\ a \div m \in Int /\ a = m * (a \div m) + r
  BY Divides
<1> HIDE DEF r
<1>2. c \in Int /\ d \in Int
  BY <1>1
<1> HIDE DEF c, d
<1>3. c \div m \in Int /\ c % m \in 0..m - 1 /\ c = m * (c \div m) + (c % m)
  BY <1>2, Divides
<1>4. d \div m \in Int /\ d % m \in 0..m - 1 /\ d = m * (d \div m) + (d % m)
  BY <1>2, Divides
<1>5. d = m * (a \div m) + c
  BY <1>1, <1>2 DEF c, d
<1>6. m * (a \div m + c \div m) = m * (a \div m) + m * (c \div m)
  <2>1. \A x, y \in Int : m * (x + y) = m * x + m * y
    OBVIOUS
  <2> QED BY <1>1, <1>3, <2>1
<1>7. m * (a \div m + c \div m) + (c % m) = m * (d \div m) + (d % m)
  <2> DEFINE x == m * (a \div m)
             y == m * (c \div m)
             z == m * (d \div m)
             w == m * (a \div m + c \div m)
  <2>1. x \in Int /\ y \in Int /\ z \in Int /\ w = x + y
    BY <1>1, <1>3, <1>4, <1>6
  <2> HIDE DEF x, y, z, w
  <2>2. c = y + (c % m) /\ d = z + (d % m) /\ d = x + c
    BY <1>3, <1>4, <1>5 DEF x, y, z
  <2>3. w + (c % m) = z + (d % m)
    BY <1>2, <1>3, <1>4, <2>1, <2>2
  <2> QED BY <2>3 DEF w, z
<1>8. a \div m + c \div m \in Int
  BY <1>1, <1>3
<1>9. c % m = d % m
  <2> DEFINE p == a \div m + c \div m
             q == d \div m
             r1 == c % m
             r2 == d % m
  <2>1. p \in Int /\ q \in Int /\ r1 \in 0..m - 1 /\ r2 \in 0..m - 1
        /\ m * p + r1 = m * q + r2
    BY <1>3, <1>4, <1>7, <1>8
  <2> HIDE DEF p, q, r1, r2
  <2>2. r1 = r2
    BY <2>1, OneRemainder
  <2> QED BY <2>2 DEF r1, r2
<1> QED BY <1>9 DEF c, d, r

\* Two terms may be added in either order.
LEMMA AddsInAnyOrder ==
  ASSUME NEW m \in Nat \ {0}, NEW a \in Int, NEW b \in Int, NEW c \in Int
  PROVE  (((a + b) % m) + c) % m = (((a + c) % m) + b) % m
<1>1. (((a + b) % m) + c) % m = ((a + b) + c) % m
  <2>1. a + b \in Int
    OBVIOUS
  <2> QED BY <2>1, RemainderFirst
<1>2. (((a + c) % m) + b) % m = ((a + c) + b) % m
  <2>1. a + c \in Int
    OBVIOUS
  <2> QED BY <2>1, RemainderFirst
<1>3. (a + b) + c = (a + c) + b
  OBVIOUS
<1> QED BY <1>1, <1>2, <1>3

LEMMA Accumulated ==
  ASSUME NEW a \in Accumulators, NEW v \in Value
  PROVE  Accumulate(a, v) \in Accumulators
<1> DEFINE d == Digest(Normalized(v))
           e == (d * d) % Modulus
<1>1. d \in Digests /\ Modulus \in Nat \ {0}
  BY DigestAssumption, ResultsAssumption DEF Digests
<1>2. BitXor(a.xor, d) \in Digests
  BY <1>1, DigestAssumption DEF Digests, Accumulators
<1>3. a.sum \in Int /\ a.sumsq \in Int /\ a.count \in Nat
  BY DEF Accumulators, Digests
<1> HIDE DEF d
<1>4. d \in Int /\ d * d \in Int
  BY <1>1 DEF Digests
<1>5. e \in Int
  BY <1>1, <1>4, Divides
<1>6. (a.sum + d) % Modulus \in Digests
  BY <1>1, <1>3, <1>4, Divides DEF Digests
<1> HIDE DEF e
<1>7. (a.sumsq + e) % Modulus \in Digests
  BY <1>1, <1>3, <1>5, Divides DEF Digests
<1>8. Accumulate(a, v) = [count |-> a.count + 1, sum |-> (a.sum + d) % Modulus,
                          sumsq |-> (a.sumsq + e) % Modulus, xor |-> BitXor(a.xor, d)]
  BY DEF Accumulate, d, e
<1> QED BY <1>2, <1>3, <1>6, <1>7, <1>8 DEF Accumulators

LEMMA XorsSwap ==
  ASSUME NEW a \in Digests, NEW b \in Digests, NEW c \in Digests
  PROVE  BitXor(BitXor(a, b), c) = BitXor(BitXor(a, c), b)
<1>1. BitXor(BitXor(a, b), c) = BitXor(a, BitXor(b, c))
  BY DigestAssumption
<1>2. BitXor(BitXor(a, c), b) = BitXor(a, BitXor(c, b))
  BY DigestAssumption
<1>3. BitXor(b, c) = BitXor(c, b)
  BY DigestAssumption
<1> QED BY <1>1, <1>2, <1>3

\* Two rows may be taken in either order.
LEMMA RowsSwap ==
  ASSUME NEW a \in Accumulators, NEW v \in Value, NEW w \in Value
  PROVE  Accumulate(Accumulate(a, v), w) = Accumulate(Accumulate(a, w), v)
<1> DEFINE d(u) == Digest(Normalized(u))
           e(u) == (d(u) * d(u)) % Modulus
<1>1. d(v) \in Digests /\ d(w) \in Digests /\ Modulus \in Nat \ {0}
  BY DigestAssumption, ResultsAssumption DEF Digests
<1>2. BitXor(BitXor(a.xor, d(v)), d(w)) = BitXor(BitXor(a.xor, d(w)), d(v))
  <2>1. a.xor \in Digests
    BY DEF Accumulators
  <2> HIDE DEF d
  <2> QED BY <1>1, <2>1, XorsSwap
<1>3. a.sum \in Int /\ a.sumsq \in Int /\ a.count \in Nat
  BY DEF Accumulators, Digests
<1>4. \A u : Accumulate(a, u) = [count |-> a.count + 1, sum |-> (a.sum + d(u)) % Modulus,
                                 sumsq |-> (a.sumsq + e(u)) % Modulus,
                                 xor |-> BitXor(a.xor, d(u))]
  BY DEF Accumulate
<1>5. \A u, x : Accumulate(Accumulate(a, u), x) =
          [count |-> (a.count + 1) + 1,
           sum |-> (((a.sum + d(u)) % Modulus) + d(x)) % Modulus,
           sumsq |-> (((a.sumsq + e(u)) % Modulus) + e(x)) % Modulus,
           xor |-> BitXor(BitXor(a.xor, d(u)), d(x))]
  BY DEF Accumulate
<1> HIDE DEF d
<1>6. d(v) \in Int /\ d(w) \in Int /\ d(v) * d(v) \in Int /\ d(w) * d(w) \in Int
  BY <1>1 DEF Digests
<1>7. e(v) \in Int /\ e(w) \in Int
  BY <1>1, <1>6, Divides
<1>8. (((a.sum + d(v)) % Modulus) + d(w)) % Modulus = (((a.sum + d(w)) % Modulus) + d(v)) % Modulus
  BY <1>1, <1>3, <1>6, AddsInAnyOrder
<1> HIDE DEF e
<1>9. (((a.sumsq + e(v)) % Modulus) + e(w)) % Modulus =
          (((a.sumsq + e(w)) % Modulus) + e(v)) % Modulus
  BY <1>1, <1>3, <1>7, AddsInAnyOrder
<1> QED BY <1>2, <1>5, <1>8, <1>9


\* Of the subsets that have a property one has no part that has it.
LEMMA LeastSubset ==
  ASSUME NEW S, IsFiniteSet(S), NEW Bad, Bad \subseteq SUBSET S, Bad # {}
  PROVE  \E T \in Bad : \A U \in SUBSET T : U # T => U \notin Bad
<1>1. IsWellFoundedOn(StrictSubsetOrdering(S), SUBSET S)
  BY FS_StrictSubsetOrderingWellFounded, FS_FiniteSubsetsOfFinite
<1>2. PICK T \in Bad : \A U \in Bad : ~(<<U, T>> \in StrictSubsetOrdering(S))
  BY <1>1, WFMin
<1>3. \A U \in SUBSET T : U # T => U \notin Bad
  BY <1>2 DEF StrictSubsetOrdering
<1> QED BY <1>3

\* phi has the accumulators after each set of rows, whatever row was the last.
Folds(phi, r, S) ==
    /\ phi \in [SUBSET S -> Accumulators]
    /\ phi[{}] = NoRows
    /\ \A T \in SUBSET S : \A i \in T : phi[T] = Accumulate(phi[T \ {i}], r[i])

LEMMA NothingAccumulated == NoRows \in Accumulators
  BY ResultsAssumption DEF NoRows, Accumulators, Digests

\* There is such a phi: with row j taken last from the sets that have it.
LEMMA FoldsExist ==
  ASSUME NEW S, IsFiniteSet(S), NEW r \in [S -> Value]
  PROVE  \E phi : Folds(phi, r, S)
<1> DEFINE Bad == {T \in SUBSET S : ~\E phi : Folds(phi, r, T)}
<1>1. SUFFICES ASSUME Bad # {} PROVE FALSE
  OBVIOUS
<1>2. PICK T \in Bad : \A U \in SUBSET T : U # T => U \notin Bad
  <2>1. Bad \subseteq SUBSET S
    OBVIOUS
  <2> HIDE DEF Bad
  <2> QED BY <1>1, <2>1, LeastSubset
<1>3. T # {}
  <2>1. Folds([U \in SUBSET {} |-> NoRows], r, {})
    BY NothingAccumulated DEF Folds
  <2> QED BY <1>2, <2>1
<1>4. PICK j \in T : TRUE
  BY <1>3
<1>5. PICK phi : Folds(phi, r, T \ {j})
  BY <1>2, <1>4
<1> DEFINE psi == [A \in SUBSET T |-> IF j \in A THEN Accumulate(phi[A \ {j}], r[j]) ELSE phi[A]]
<1>6. \A i \in T : r[i] \in Value
  BY <1>2
<1>7. \A A \in SUBSET T : phi[A \ {j}] \in Accumulators
  BY <1>5 DEF Folds
<1>8. \A A \in SUBSET T : /\ j \in A => psi[A] = Accumulate(phi[A \ {j}], r[j])
                          /\ j \notin A => psi[A] = phi[A] /\ A \ {j} = A
  OBVIOUS
<1>9. psi \in [SUBSET T -> Accumulators] /\ psi[{}] = NoRows
  <2>1. ASSUME NEW A \in SUBSET T PROVE psi[A] \in Accumulators
    <3>1. CASE j \in A
      <4>1. psi[A] = Accumulate(phi[A \ {j}], r[j])
        BY <1>8, <3>1
      <4> HIDE DEF psi
      <4> QED BY <1>4, <1>6, <1>7, <4>1, Accumulated
    <3>2. CASE j \notin A
      <4> HIDE DEF psi
      <4> QED BY <1>7, <1>8, <3>2
    <3> QED BY <3>1, <3>2
  <2>2. psi[{}] = phi[{}]
    BY <1>8
  <2>3. psi = [A \in SUBSET T |-> psi[A]]
    OBVIOUS
  <2> HIDE DEF psi
  <2> QED BY <1>5, <2>1, <2>2, <2>3 DEF Folds
<1>10. ASSUME NEW A \in SUBSET T, NEW i \in A PROVE psi[A] = Accumulate(psi[A \ {i}], r[i])
  <2> DEFINE rest == A \ {i}
  <2>1. rest \in SUBSET T
    OBVIOUS
  <2>2. CASE i = j
    <3>1. psi[A] = Accumulate(phi[rest], r[j]) /\ psi[rest] = phi[rest]
      BY <1>8, <2>1, <2>2
    <3> HIDE DEF psi
    <3> QED BY <2>2, <3>1
  <2>3. CASE i # j /\ j \notin A
    <3>1. psi[A] = phi[A] /\ psi[rest] = phi[rest] /\ A \in SUBSET (T \ {j})
      BY <1>8, <2>1, <2>3
    <3>2. phi[A] = Accumulate(phi[rest], r[i])
      BY <1>5, <3>1 DEF Folds
    <3> HIDE DEF psi
    <3> QED BY <3>1, <3>2
  <2>4. CASE i # j /\ j \in A
    <3> DEFINE both == rest \ {j}
               a == phi[both]
    <3>1. psi[A] = Accumulate(phi[A \ {j}], r[j]) /\ psi[rest] = Accumulate(a, r[j])
      BY <1>8, <2>1, <2>4
    <3>2. phi[A \ {j}] = Accumulate(a, r[i])
      <4>1. (A \ {j}) \ {i} = both /\ A \ {j} \in SUBSET (T \ {j}) /\ i \in A \ {j}
        BY <2>4
      <4> HIDE DEF both
      <4> QED BY <1>5, <4>1 DEF Folds
    <3>3. a \in Accumulators /\ r[i] \in Value /\ r[j] \in Value
      BY <1>4, <1>6, <1>7, <2>1
    <3> HIDE DEF psi, a
    <3>4. Accumulate(Accumulate(a, r[i]), r[j]) = Accumulate(Accumulate(a, r[j]), r[i])
      BY <3>3, RowsSwap
    <3> QED BY <3>1, <3>2, <3>4
  <2> QED BY <2>2, <2>3, <2>4
<1>11. Folds(psi, r, T)
  <2> HIDE DEF psi
  <2> QED BY <1>9, <1>10 DEF Folds
<1> QED BY <1>2, <1>11

\* The library's fold is that.
LEMMA HashIs ==
  ASSUME NEW S, IsFiniteSet(S), NEW r \in [S -> Value], NEW phi, Folds(phi, r, S)
  PROVE  HashOf(r) = phi[S]
<1> DEFINE Step(g) ==
               g = [T \in SUBSET S |->
                       IF T = {} THEN NoRows
                       ELSE LET i == CHOOSE i \in T : TRUE IN Accumulate(g[T \ {i}], r[i])]
           iter == CHOOSE g : Step(g)
<1>1. HashOf(r) = iter[S]
  BY DEF HashOf, FoldFunction, FoldFunctionOnSet, MapThenFoldSet
<1>2. Step(phi)
  <2> DEFINE first(T) == CHOOSE i \in T : TRUE
  <2>1. \A T \in SUBSET S : T # {} => first(T) \in T
    OBVIOUS
  <2> HIDE DEF first
  <2>2. \A T \in SUBSET S :
            phi[T] = IF T = {} THEN NoRows ELSE Accumulate(phi[T \ {first(T)}], r[first(T)])
    BY <2>1 DEF Folds
  <2>3. phi = [T \in SUBSET S |->
                  IF T = {} THEN NoRows ELSE Accumulate(phi[T \ {first(T)}], r[first(T)])]
    BY <2>2 DEF Folds
  <2> QED BY <2>3 DEF first
<1>3. Step(iter)
  <2> HIDE DEF Step
  <2> QED BY <1>2
<1> HIDE DEF iter
<1> DEFINE Bad == {T \in SUBSET S : iter[T] # phi[T]}
<1>4. Bad = {}
  <2>1. SUFFICES ASSUME Bad # {} PROVE FALSE
    OBVIOUS
  <2>2. PICK T \in Bad : \A U \in SUBSET T : U # T => U \notin Bad
    <3>1. Bad \subseteq SUBSET S
      OBVIOUS
    <3> HIDE DEF Bad
    <3> QED BY <2>1, <3>1, LeastSubset
  <2> DEFINE i == CHOOSE i \in T : TRUE
  <2>3. /\ iter[T] = IF T = {} THEN NoRows ELSE Accumulate(iter[T \ {i}], r[i])
        /\ phi[T] = IF T = {} THEN NoRows ELSE Accumulate(phi[T \ {i}], r[i])
    BY <1>2, <1>3
  <2>4. T # {} => i \in T
    OBVIOUS
  <2> HIDE DEF i
  <2>5. T # {} => iter[T \ {i}] = phi[T \ {i}]
    BY <2>2, <2>4
  <2> QED BY <2>2, <2>3, <2>5
<1> QED BY <1>1, <1>4

LEMMA HashType ==
  ASSUME NEW r \in Seq(Value)
  PROVE  /\ HashOf(r) \in Accumulators
         /\ \E phi : Folds(phi, r, 1..Len(r)) /\ HashOf(r) = phi[1..Len(r)]
<1> DEFINE S == 1..Len(r)
<1>1. IsFiniteSet(S) /\ r \in [S -> Value]
  <2>1. Len(r) \in Nat
    OBVIOUS
  <2>2. IsFiniteSet(S)
    BY <2>1, FS_Interval
  <2> QED BY <2>2
<1>2. PICK phi : Folds(phi, r, S)
  <2> HIDE DEF S
  <2> QED BY <1>1, FoldsExist
<1>3. HashOf(r) = phi[S]
  <2> HIDE DEF S
  <2> QED BY <1>1, <1>2, HashIs
<1> HIDE DEF S
<1>4. phi[S] \in Accumulators
  BY <1>2 DEF Folds
<1> QED BY <1>2, <1>3, <1>4 DEF S

\* One row more.
LEMMA HashGrows ==
  ASSUME NEW r \in Seq(Value), NEW v \in Value
  PROVE  HashOf(Append(r, v)) = Accumulate(HashOf(r), v)
<1> DEFINE more == Append(r, v)
           n == Len(r)
           S == 1..n
           T == 1..n + 1
<1>1. /\ more \in Seq(Value) /\ Len(more) = n + 1 /\ n \in Nat /\ more[n + 1] = v
      /\ \A i \in S : more[i] = r[i]
  OBVIOUS
<1>2. PICK phi : Folds(phi, more, 1..Len(more)) /\ HashOf(more) = phi[1..Len(more)]
  <2> HIDE DEF more
  <2> QED BY <1>1, HashType
<1> HIDE DEF more
<1>3. Folds(phi, more, T) /\ HashOf(more) = phi[T]
  BY <1>1, <1>2
<1>4. S = T \ {n + 1} /\ n + 1 \in T /\ SUBSET S \subseteq SUBSET T
  BY <1>1
<1>5. phi[T] = Accumulate(phi[S], v)
  <2>1. T \in SUBSET T /\ n + 1 \in T /\ T \ {n + 1} = S
    BY <1>4
  <2> HIDE DEF S, T, n
  <2>2. phi[T] = Accumulate(phi[T \ {n + 1}], more[n + 1])
    BY <1>3, <2>1 DEF Folds
  <2> QED BY <1>1, <2>1, <2>2
<1>6. HashOf(r) = phi[S]
  <2> DEFINE psi == [A \in SUBSET S |-> phi[A]]
  <2>1. Folds(psi, r, S)
    <3>1. psi \in [SUBSET S -> Accumulators] /\ psi[{}] = NoRows
      <4> HIDE DEF S, T
      <4> QED BY <1>3, <1>4 DEF Folds
    <3>2. ASSUME NEW A \in SUBSET S, NEW i \in A PROVE psi[A] = Accumulate(psi[A \ {i}], r[i])
      <4>1. psi[A] = phi[A] /\ psi[A \ {i}] = phi[A \ {i}] /\ more[i] = r[i] /\ A \in SUBSET T
        BY <1>1, <1>4
      <4>2. phi[A] = Accumulate(phi[A \ {i}], more[i])
        <5> HIDE DEF S, T
        <5> QED BY <1>3, <4>1 DEF Folds
      <4> HIDE DEF psi
      <4> QED BY <4>1, <4>2
    <3> HIDE DEF psi, S
    <3> QED BY <3>1, <3>2 DEF Folds
  <2>2. IsFiniteSet(S) /\ r \in [S -> Value]
    <3>1. IsFiniteSet(S)
      BY <1>1, FS_Interval
    <3> QED BY <3>1
  <2>3. HashOf(r) = psi[S]
    <3> HIDE DEF psi, S
    <3> QED BY <2>1, <2>2, HashIs
  <2> QED BY <2>3
<1> HIDE DEF S, T, n
<1> QED BY <1>3, <1>5, <1>6 DEF more

LEMMA HashOfNone == HashOf(<<>>) = NoRows
<1>1. PICK phi : Folds(phi, <<>>, 1..Len(<<>>)) /\ HashOf(<<>>) = phi[1..Len(<<>>)]
  <2>1. <<>> \in Seq(Value)
    OBVIOUS
  <2> QED BY <2>1, HashType
<1>2. 1..Len(<<>>) = {}
  OBVIOUS
<1> QED BY <1>1, <1>2 DEF Folds

-----------------------------------------------------------------------------
(* What is one content has one hash *)

\* No float below zero rounds to zero: -0.0 has the content of 0.0 and another
\* repr (ClaimNoiseIgnored).
QuietZeros ==
    \A v \in Value : v.type = "float" /\ v.n < 0 => Normalized(v).n # 0

LEMMA SameIsEquivalence ==
  ASSUME NEW u \in ValueType, NEW v \in ValueType, NEW w \in ValueType
  PROVE  /\ SameValue(u, u) /\ (SameValue(u, v) => SameValue(v, u))
         /\ SameValue(u, v) /\ SameValue(v, w) => SameValue(u, w)
  BY DEF SameValue, ValueType

\* Values of one content have one repr.
LEMMA SameIsNormal ==
  ASSUME QuietZeros, NEW v \in Value, NEW w \in Value, SameValue(v, w)
  PROVE  Normalized(v) = Normalized(w)
<1>1. v \in ValueType /\ w \in ValueType
  BY ResultsAssumption
<1>2. CASE v = w
  BY <1>2
<1>3. CASE {v.type, w.type} \subseteq {"null", "nan"}
  BY <1>3 DEF Normalized
<1>4. CASE {v.type, w.type} = {"float"} /\ (v.n + 5) \div 10 = (w.n + 5) \div 10
  <2>1. v.type = "float" /\ w.type = "float" /\ v.n \in Int /\ w.n \in Int
    BY <1>1, <1>4 DEF ValueType
  <2>2. v.n % 10 # 5 /\ w.n % 10 # 5
    BY <2>1, ResultsAssumption
  <2>3. /\ v.n < 0 => (Abs(v.n) + 5) \div 10 # 0
        /\ w.n < 0 => (Abs(w.n) + 5) \div 10 # 0
    BY <2>1 DEF QuietZeros, Normalized
  <2> DEFINE m == v.n
             n == w.n
  <2>4. m \in Int /\ n \in Int /\ m % 10 # 5 /\ n % 10 # 5
        /\ (m + 5) \div 10 = (n + 5) \div 10
        /\ (m < 0 => (Abs(m) + 5) \div 10 # 0) /\ (n < 0 => (Abs(n) + 5) \div 10 # 0)
    BY <1>4, <2>1, <2>2, <2>3
  <2> HIDE DEF m, n
  <2>5. (m < 0 <=> n < 0) /\ (Abs(m) + 5) \div 10 = (Abs(n) + 5) \div 10
    BY <2>4 DEF Abs
  <2>6. /\ Normalized(v) = [type |-> "float", minus |-> m < 0, n |-> (Abs(m) + 5) \div 10]
        /\ Normalized(w) = [type |-> "float", minus |-> n < 0, n |-> (Abs(n) + 5) \div 10]
    BY <2>1 DEF Normalized, m, n
  <2>7. (m < 0) = (n < 0)
    BY <2>4, <2>5
  <2> QED BY <2>5, <2>6, <2>7
<1> QED BY <1>2, <1>3, <1>4 DEF SameValue

\* One member less.
LEMMA OneLess ==
  ASSUME NEW T, IsFiniteSet(T), NEW A, NEW i \in T
  PROVE  /\ Cardinality(T \cap A) \in Nat /\ Cardinality((T \ {i}) \cap A) \in Nat
         /\ i \in A => Cardinality(T \cap A) = Cardinality((T \ {i}) \cap A) + 1
         /\ i \notin A => Cardinality(T \cap A) = Cardinality((T \ {i}) \cap A)
<1>1. IsFiniteSet(T \cap A) /\ IsFiniteSet((T \ {i}) \cap A)
  <2>1. T \cap A \in SUBSET T /\ (T \ {i}) \cap A \in SUBSET T
    OBVIOUS
  <2> QED BY <2>1, FS_Subset
<1>2. ASSUME i \in A PROVE Cardinality(T \cap A) = Cardinality((T \ {i}) \cap A) + 1
  <2>1. T \cap A = ((T \ {i}) \cap A) \cup {i} /\ i \notin (T \ {i}) \cap A
    BY <1>2
  <2> QED BY <1>1, <2>1, FS_AddElement
<1>3. ASSUME i \notin A PROVE T \cap A = (T \ {i}) \cap A
  BY <1>3
<1> QED BY <1>1, <1>2, <1>3, FS_CardinalityType

\* The rows T of r and the rows U of s are the same contents, each as often.
Balanced(r, s, T, U) ==
    \A v \in Value : Cardinality(T \cap Alike(r, v)) = Cardinality(U \cap Alike(s, v))

\* Rows of one content are taken away on both sides.
LEMMA BalanceKept ==
  ASSUME NEW r \in Seq(Value), NEW s \in Seq(Value),
         NEW T \in SUBSET (1..Len(r)), NEW U \in SUBSET (1..Len(s)), Balanced(r, s, T, U),
         NEW i \in T, NEW j \in U, SameValue(s[j], r[i])
  PROVE  Balanced(r, s, T \ {i}, U \ {j})
<1>1. IsFiniteSet(T) /\ IsFiniteSet(U)
  <2>1. IsFiniteSet(1..Len(r)) /\ IsFiniteSet(1..Len(s))
    BY FS_Interval
  <2> QED BY <2>1, FS_Subset
<1>2. i \in 1..Len(r) /\ j \in 1..Len(s) /\ r[i] \in Value /\ s[j] \in Value
  OBVIOUS
<1>3. ASSUME NEW v \in Value
      PROVE  Cardinality((T \ {i}) \cap Alike(r, v)) = Cardinality((U \ {j}) \cap Alike(s, v))
  <2>1. SameValue(r[i], v) <=> SameValue(s[j], v)
    <3>1. r[i] \in ValueType /\ s[j] \in ValueType /\ v \in ValueType
      BY <1>2, ResultsAssumption
    <3> QED BY <3>1, SameIsEquivalence
  <2>2. i \in Alike(r, v) <=> j \in Alike(s, v)
    BY <1>2, <2>1 DEF Alike
  <2> DEFINE A == Alike(r, v)
             B == Alike(s, v)
  <2>3. Cardinality(T \cap A) = Cardinality(U \cap B)
    BY DEF Balanced
  <2>4. /\ Cardinality(T \cap A) \in Nat /\ Cardinality((T \ {i}) \cap A) \in Nat
        /\ i \in A => Cardinality(T \cap A) = Cardinality((T \ {i}) \cap A) + 1
        /\ i \notin A => Cardinality(T \cap A) = Cardinality((T \ {i}) \cap A)
    <3> HIDE DEF A
    <3> QED BY <1>1, OneLess
  <2>5. /\ Cardinality(U \cap B) \in Nat /\ Cardinality((U \ {j}) \cap B) \in Nat
        /\ j \in B => Cardinality(U \cap B) = Cardinality((U \ {j}) \cap B) + 1
        /\ j \notin B => Cardinality(U \cap B) = Cardinality((U \ {j}) \cap B)
    <3> HIDE DEF B
    <3> QED BY <1>1, OneLess
  <2>6. i \in A <=> j \in B
    BY <2>2
  <2> HIDE DEF A, B
  <2>7. Cardinality((T \ {i}) \cap A) = Cardinality((U \ {j}) \cap B)
    BY <2>3, <2>4, <2>5, <2>6
  <2> QED BY <2>7 DEF A, B
<1> QED BY <1>3 DEF Balanced

\* A row among the T has one of its content among the U.
LEMMA BalanceFinds ==
  ASSUME NEW r \in Seq(Value), NEW s \in Seq(Value),
         NEW T \in SUBSET (1..Len(r)), NEW U \in SUBSET (1..Len(s)), Balanced(r, s, T, U)
  PROVE  /\ \A i \in T : \E j \in U : SameValue(s[j], r[i])
         /\ T = {} => U = {}
<1>1. IsFiniteSet(T) /\ IsFiniteSet(U)
  <2>1. IsFiniteSet(1..Len(r)) /\ IsFiniteSet(1..Len(s))
    BY FS_Interval
  <2> QED BY <2>1, FS_Subset
<1>2. \A v \in Value : SameValue(v, v)
  BY SameIsEquivalence, ResultsAssumption
<1>3. ASSUME NEW i \in T PROVE \E j \in U : SameValue(s[j], r[i])
  <2>1. i \in 1..Len(r) /\ r[i] \in Value
    OBVIOUS
  <2> DEFINE A == Alike(r, r[i])
             B == Alike(s, r[i])
  <2>2. i \in A
    BY <1>2, <2>1 DEF Alike
  <2>3. Cardinality(T \cap A) = Cardinality(U \cap B)
    BY <2>1 DEF Balanced
  <2> HIDE DEF A, B
  <2>4. Cardinality(T \cap A) # 0
    <3>1. i \in T \cap A /\ IsFiniteSet(T \cap A)
      BY <1>1, <2>2, FS_Intersection
    <3> QED BY <3>1, FS_EmptySet
  <2>5. U \cap B # {}
    BY <2>3, <2>4, FS_EmptySet
  <2>6. PICK j \in U : j \in B
    BY <2>5
  <2> QED BY <2>6 DEF B, Alike
<1>4. ASSUME T = {}, NEW j \in U PROVE FALSE
  <2>1. j \in 1..Len(s) /\ s[j] \in Value
    OBVIOUS
  <2> DEFINE A == Alike(r, s[j])
             B == Alike(s, s[j])
  <2>2. j \in B
    BY <1>2, <2>1 DEF Alike
  <2>3. Cardinality(T \cap A) = Cardinality(U \cap B)
    BY <2>1 DEF Balanced
  <2> HIDE DEF A, B
  <2>4. Cardinality(U \cap B) # 0
    <3>1. j \in U \cap B /\ IsFiniteSet(U \cap B)
      BY <1>1, <1>4, <2>2, FS_Intersection
    <3> QED BY <3>1, FS_EmptySet
  <2>5. T \cap A = {}
    BY <1>4
  <2> QED BY <2>3, <2>4, <2>5, FS_EmptySet
<1> QED BY <1>3, <1>4

\* What has the content of a result has its hash, in whatever order the rows come.
\* Parts of two results that hold each content as often have one fold.
LEMMA BalancedFolds ==
  ASSUME QuietZeros, NEW r \in Seq(Value), NEW s \in Seq(Value),
         NEW phi, Folds(phi, r, 1..Len(r)), NEW psi, Folds(psi, s, 1..Len(s)),
         NEW A \in SUBSET (1..Len(r)), NEW B \in SUBSET (1..Len(s)), Balanced(r, s, A, B)
  PROVE  phi[A] = psi[B]
<1> DEFINE D == 1..Len(r)
           E == 1..Len(s)
           Bad == {T \in SUBSET D : \E U \in SUBSET E : Balanced(r, s, T, U) /\ phi[T] # psi[U]}
<1>1. Folds(phi, r, D) /\ Folds(psi, s, E)
  OBVIOUS
<1>2. IsFiniteSet(D)
  BY FS_Interval
<1>3. Bad = {}
  <2> SUFFICES ASSUME Bad # {} PROVE FALSE
    OBVIOUS
  <2>1. PICK T \in Bad : \A V \in SUBSET T : V # T => V \notin Bad
    <3>1. Bad \subseteq SUBSET D
      OBVIOUS
    <3> HIDE DEF Bad, D
    <3> QED BY <1>2, <3>1, LeastSubset
  <2>2. PICK U \in SUBSET E : Balanced(r, s, T, U) /\ phi[T] # psi[U]
    BY <2>1
  <2>3. T \in SUBSET D
    BY <2>1
  <2>4. T # {}
    <3>1. T = {} => U = {}
      BY <2>2, <2>3, BalanceFinds
    <3> QED BY <1>1, <2>2, <3>1 DEF Folds
  <2>5. PICK i \in T : TRUE
    BY <2>4
  <2>6. PICK j \in U : SameValue(s[j], r[i])
    BY <2>2, <2>3, <2>5, BalanceFinds
  <2>7. Balanced(r, s, T \ {i}, U \ {j})
    BY <2>2, <2>3, <2>5, <2>6, BalanceKept
  <2>8. phi[T \ {i}] = psi[U \ {j}]
    <3>1. T \ {i} \in SUBSET T /\ T \ {i} # T /\ U \ {j} \in SUBSET E /\ T \ {i} \in SUBSET D
      BY <2>2, <2>3, <2>5
    <3> QED BY <2>1, <2>7, <3>1
  <2>9. Normalized(s[j]) = Normalized(r[i])
    <3>1. s[j] \in Value /\ r[i] \in Value
      BY <2>2, <2>3, <2>5, <2>6
    <3> QED BY <2>6, <3>1, SameIsNormal
  <2>10. phi[T] = Accumulate(phi[T \ {i}], r[i]) /\ psi[U] = Accumulate(psi[U \ {j}], s[j])
    <3> HIDE DEF D, E
    <3> QED BY <1>1, <2>2, <2>3, <2>5, <2>6 DEF Folds
  <2>11. Accumulate(phi[T \ {i}], r[i]) = Accumulate(psi[U \ {j}], s[j])
    BY <2>8, <2>9 DEF Accumulate
  <2> QED BY <2>2, <2>10, <2>11
<1> QED BY <1>3

LEMMA ContentHashes ==
  ASSUME QuietZeros, NEW r \in Seq(Value), NEW s \in Seq(Value), SameContent(r, s)
  PROVE  HashOf(r) = HashOf(s)
<1> DEFINE D == 1..Len(r)
           E == 1..Len(s)
<1>1. PICK phi : Folds(phi, r, D) /\ HashOf(r) = phi[D]
  BY HashType
<1>2. PICK psi : Folds(psi, s, E) /\ HashOf(s) = psi[E]
  BY HashType
<1>3. Balanced(r, s, D, E)
  <2>1. \A v : D \cap Alike(r, v) = Alike(r, v) /\ E \cap Alike(s, v) = Alike(s, v)
    BY DEF Alike
  <2> QED BY <2>1 DEF Balanced, SameContent
<1>4. phi[D] = psi[E]
  BY <1>1, <1>2, <1>3, BalancedFolds
<1> QED BY <1>1, <1>2, <1>4

-----------------------------------------------------------------------------
(* What a hash tells for any digests *)

\* The first accumulator counts the rows.
LEMMA RowsCounted ==
  ASSUME NEW r \in Seq(Value)
  PROVE  HashOf(r).count = Len(r)
<1> DEFINE D == 1..Len(r)
<1>1. PICK phi : Folds(phi, r, D) /\ HashOf(r) = phi[D]
  BY HashType
<1> DEFINE Bad == {T \in SUBSET D : phi[T].count # Cardinality(T)}
<1>2. IsFiniteSet(D) /\ Cardinality(D) = Len(r)
  <2>1. Len(r) \in Nat
    OBVIOUS
  <2> QED BY <2>1, FS_Interval
<1>3. Bad = {}
  <2> SUFFICES ASSUME Bad # {} PROVE FALSE
    OBVIOUS
  <2>1. PICK T \in Bad : \A V \in SUBSET T : V # T => V \notin Bad
    <3>1. Bad \subseteq SUBSET D
      OBVIOUS
    <3> HIDE DEF Bad, D
    <3> QED BY <1>2, <3>1, LeastSubset
  <2>2. T \in SUBSET D /\ phi[T].count # Cardinality(T)
    BY <2>1
  <2>3. IsFiniteSet(T)
    BY <1>2, <2>2, FS_Subset
  <2>4. T # {}
    <3>1. NoRows.count = 0
      BY DEF NoRows
    <3> QED BY <1>1, <2>2, <3>1, FS_EmptySet DEF Folds
  <2>5. PICK i \in T : TRUE
    BY <2>4
  <2>6. phi[T \ {i}].count = Cardinality(T \ {i})
    <3>1. T \ {i} \in SUBSET T /\ T \ {i} # T /\ T \ {i} \in SUBSET D
      BY <2>2, <2>5
    <3> QED BY <2>1, <3>1
  <2>7. Cardinality(T) \in Nat /\ Cardinality(T \ {i}) = Cardinality(T) - 1
    BY <2>3, <2>5, FS_RemoveElement, FS_CardinalityType
  <2>8. phi[T] = Accumulate(phi[T \ {i}], r[i])
    <3> HIDE DEF D
    <3> QED BY <1>1, <2>2, <2>5 DEF Folds
  <2>9. phi[T].count = phi[T \ {i}].count + 1
    BY <2>8 DEF Accumulate
  <2> QED BY <2>2, <2>6, <2>7, <2>9
<1>4. phi[D].count = Cardinality(D)
  BY <1>3
<1> QED BY <1>1, <1>2, <1>4

\* What is added to one sum is read off the remainders.
LEMMA AddendTold ==
  ASSUME NEW m \in Nat \ {0}, NEW a \in Int, NEW b \in 0..m - 1, NEW c \in 0..m - 1,
         (a + b) % m = (a + c) % m
  PROVE  b = c
<1> DEFINE x == a + b
           y == a + c
<1>1. x \in Int /\ y \in Int /\ x % m = y % m
  OBVIOUS
<1> HIDE DEF x, y
<1>2. /\ x \div m \in Int /\ y \div m \in Int
      /\ x % m \in 0..m - 1
      /\ x = m * (x \div m) + (x % m) /\ y = m * (y \div m) + (y % m)
  BY <1>1, Divides
<1> DEFINE p == x \div m
           q == y \div m
<1>3. p \in Int /\ q \in Int /\ x - y = m * p - m * q
  BY <1>1, <1>2
<1> HIDE DEF p, q
<1>4. x - y = b - c
  BY DEF x, y
<1>5. m * p + c = m * q + b
  <2>1. m * p \in Int /\ m * q \in Int /\ b \in Int /\ c \in Int
    BY <1>3
  <2>2. m * p - m * q = b - c
    BY <1>3, <1>4
  <2> QED BY <2>1, <2>2
<1> QED BY <1>3, <1>5, OneRemainder

\* r and s are one content but for one row, whose digest is another.
OneRowApart(r, s) ==
    \E i \in 1..Len(r), j \in 1..Len(s) :
        /\ Balanced(r, s, (1..Len(r)) \ {i}, (1..Len(s)) \ {j})
        /\ Digest(Normalized(r[i])) # Digest(Normalized(s[j]))

\* The sums differ by the row that differs.
LEMMA OneRowTold ==
  ASSUME QuietZeros, NEW r \in Seq(Value), NEW s \in Seq(Value), OneRowApart(r, s)
  PROVE  HashOf(r) # HashOf(s)
<1> DEFINE D == 1..Len(r)
           E == 1..Len(s)
<1>1. PICK phi : Folds(phi, r, D) /\ HashOf(r) = phi[D]
  BY HashType
<1>2. PICK psi : Folds(psi, s, E) /\ HashOf(s) = psi[E]
  BY HashType
<1>3. PICK i \in D, j \in E : /\ Balanced(r, s, D \ {i}, E \ {j})
                              /\ Digest(Normalized(r[i])) # Digest(Normalized(s[j]))
  BY DEF OneRowApart
<1>4. D \ {i} \in SUBSET D /\ E \ {j} \in SUBSET E /\ D \in SUBSET D /\ E \in SUBSET E
  OBVIOUS
<1>5. phi[D \ {i}] = psi[E \ {j}]
  BY <1>1, <1>2, <1>3, <1>4, BalancedFolds
<1>6. r[i] \in Value /\ s[j] \in Value
  BY <1>3
<1> HIDE DEF D, E
<1>7. phi[D] = Accumulate(phi[D \ {i}], r[i]) /\ psi[E] = Accumulate(psi[E \ {j}], s[j])
  BY <1>1, <1>2, <1>3, <1>4 DEF Folds
<1> DEFINE a == phi[D \ {i}].sum
           b == Digest(Normalized(r[i]))
           c == Digest(Normalized(s[j]))
<1>8. a \in Int
  <2>1. phi[D \ {i}] \in Accumulators
    BY <1>1, <1>4 DEF Folds
  <2> QED BY <2>1 DEF Accumulators, Digests
<1>9. b \in 0..Modulus - 1 /\ c \in 0..Modulus - 1 /\ Modulus \in Nat \ {0} /\ b # c
  BY <1>3, <1>6, DigestAssumption, ResultsAssumption DEF Digests
<1>10. phi[D].sum = (a + b) % Modulus /\ psi[E].sum = (a + c) % Modulus
  BY <1>5, <1>7 DEF Accumulate
<1> HIDE DEF a, b, c
<1>11. (a + b) % Modulus # (a + c) % Modulus
  BY <1>8, <1>9, AddendTold
<1> QED BY <1>1, <1>2, <1>10, <1>11

-----------------------------------------------------------------------------
(* The verdict *)

\* The rows that are being hashed.
Source == IF side = "truth" THEN truth ELSE agent

\* The accumulators are those of the rows taken so far; what is left of the rows is
\* fetched or at the cursor.
Hashing ==
    /\ side \in {"truth", "agent"}
    /\ batch \in Seq(Value) /\ cursor \in Seq(Value)
    /\ \E hashed \in Seq(Value) : hashed \o (batch \o cursor) = Source /\ acc = HashOf(hashed)
    /\ side = "agent" => gt_hash = HashOf(truth)

HashInv ==
    /\ truth \in Result /\ agent \in Result
    /\ pc = "hash" => Hashing
    /\ pc = "read" => side = "truth"
    /\ pc = "done" /\ side = "agent" => (verdict <=> HashOf(agent) = HashOf(truth))

LEMMA HashInit == Init => HashInv
<1> SUFFICES ASSUME Init PROVE HashInv
  OBVIOUS
<1>1. CASE pc = "hash"
  <2>1. truth \in Result /\ truth \in Seq(Value) /\ batch = truth /\ cursor = <<>>
    BY <1>1, ResultIsSeq DEF Init
  <2>2. <<>> \in Seq(Value) /\ <<>> \o (batch \o cursor) = truth /\ acc = HashOf(<<>>)
    BY <2>1, HashOfNone, ConcatEmptySeq DEF Init
  <2>3. Hashing
    BY <2>1, <2>2 DEF Init, Hashing, Source
  <2> QED BY <1>1, <2>1, <2>3 DEF Init, HashInv
<1>2. CASE pc = "read"
  <2>1. <<>> \in Result
    <3>1. <<>> \in [1..0 -> Value]
      OBVIOUS
    <3> QED BY <3>1, ResultsAssumption DEF Result
  <2> QED BY <1>2, <2>1 DEF Init, HashInv
<1> QED BY <1>1, <1>2 DEF Init

LEMMA FetchHashes ==
  ASSUME HashInv, FetchChunk
  PROVE  HashInv'
<1>1. Hashing /\ pc = "hash" /\ batch = <<>> /\ cursor # <<>>
  BY DEF HashInv, FetchChunk
<1>2. PICK k \in 1..Smaller(Chunk, Len(cursor)) :
          batch' = SubSeq(cursor, 1, k) /\ cursor' = SubSeq(cursor, k + 1, Len(cursor))
  BY DEF FetchChunk
<1>3. k \in 1..Len(cursor)
  <2>1. Len(cursor) \in Nat
    BY <1>1 DEF Hashing
  <2> QED BY <1>2, <2>1, ResultsAssumption DEF Smaller
<1>4. batch' \in Seq(Value) /\ cursor' \in Seq(Value) /\ batch' \o cursor' = batch \o cursor
  <2>1. /\ <<>> \o SubSeq(cursor, 1, k) \in Seq(Value)
        /\ SubSeq(cursor, k + 1, Len(cursor)) \in Seq(Value)
        /\ (<<>> \o SubSeq(cursor, 1, k)) \o SubSeq(cursor, k + 1, Len(cursor)) = <<>> \o cursor
    <3>1. <<>> \in Seq(Value) /\ cursor \in Seq(Value)
      BY <1>1 DEF Hashing
    <3> QED BY <1>3, <3>1, Moved
  <2>2. <<>> \o SubSeq(cursor, 1, k) = SubSeq(cursor, 1, k)
    <3>1. SubSeq(cursor, 1, k) \in Seq(Value)
      BY <1>1, <1>3, SubSeqProperties DEF Hashing
    <3> QED BY <3>1, ConcatEmptySeq
  <2> QED BY <1>1, <1>2, <2>1, <2>2
<1>5. UNCHANGED <<pc, truth, agent, side, acc, gt_hash, verdict>>
  BY DEF FetchChunk
<1>6. Hashing'
  BY <1>1, <1>4, <1>5 DEF Hashing, Source
<1> QED BY <1>1, <1>5, <1>6 DEF HashInv

LEMMA RowHashes ==
  ASSUME HashInv, HashRow
  PROVE  HashInv'
<1>1. /\ Hashing /\ pc = "hash" /\ batch # <<>> /\ acc' = Accumulate(acc, Head(batch))
      /\ batch' = Tail(batch)
  BY DEF HashInv, HashRow
<1>2. PICK hashed \in Seq(Value) : hashed \o (batch \o cursor) = Source /\ acc = HashOf(hashed)
  BY <1>1 DEF Hashing
<1>3. batch \in Seq(Value) /\ cursor \in Seq(Value)
  BY <1>1 DEF Hashing
<1> DEFINE v == Head(batch)
           rest == Tail(batch)
<1>4. v \in Value /\ rest \in Seq(Value) /\ batch = <<v>> \o rest
  <2>1. v \in Value /\ rest \in Seq(Value)
    BY <1>1, <1>3
  <2> QED BY <1>1, <1>3, <2>1
<1> HIDE DEF v, rest
<1>5. Append(hashed, v) \in Seq(Value) /\ Append(hashed, v) = hashed \o <<v>>
  BY <1>2, <1>4
<1>6. Append(hashed, v) \o (rest \o cursor) = hashed \o (batch \o cursor)
  <2>1. <<v>> \in Seq(Value) /\ rest \o cursor \in Seq(Value)
    BY <1>3, <1>4
  <2>2. (<<v>> \o rest) \o cursor = <<v>> \o (rest \o cursor)
    BY <1>3, <1>4, <2>1, ConcatAssociative
  <2>3. (hashed \o <<v>>) \o (rest \o cursor) = hashed \o (<<v>> \o (rest \o cursor))
    BY <1>2, <2>1, ConcatAssociative
  <2> QED BY <1>4, <1>5, <2>2, <2>3
<1>7. acc' = HashOf(Append(hashed, v))
  BY <1>1, <1>2, <1>4, HashGrows DEF v
<1>8. UNCHANGED <<pc, truth, agent, side, cursor, gt_hash, verdict>> /\ batch' = rest
  BY <1>1 DEF HashRow, rest
<1>9. Hashing'
  BY <1>1, <1>2, <1>3, <1>4, <1>5, <1>6, <1>7, <1>8 DEF Hashing, Source
<1> QED BY <1>1, <1>8, <1>9 DEF HashInv

\* When nothing is left the accumulators are those of the result.
LEMMA AllHashed ==
  ASSUME HashInv, pc = "hash", batch = <<>>, cursor = <<>>
  PROVE  acc = HashOf(Source)
<1>1. PICK hashed \in Seq(Value) : hashed \o (batch \o cursor) = Source /\ acc = HashOf(hashed)
  BY DEF HashInv, Hashing
<1>2. hashed \o (<<>> \o <<>>) = hashed
  BY <1>1, ConcatEmptySeq
<1> QED BY <1>1, <1>2

LEMMA HashStep ==
  ASSUME HashInv, [Next]_vars
  PROVE  HashInv'
<1>1. CASE FetchChunk
  BY <1>1, FetchHashes
<1>2. CASE HashRow
  BY <1>2, RowHashes
<1>3. CASE TruthHashed
  <2>1. /\ pc = "hash" /\ pc' = pc /\ side = "truth" /\ side' = "agent" /\ acc' = NoRows
        /\ gt_hash' = acc /\ cursor' = agent /\ UNCHANGED <<truth, agent, batch, verdict>>
        /\ batch = <<>> /\ cursor = <<>>
    BY <1>3 DEF TruthHashed
  <2>2. acc = HashOf(truth)
    BY <2>1, AllHashed DEF Source
  <2>3. agent \in Seq(Value) /\ <<>> \in Seq(Value) /\ <<>> \o (<<>> \o agent) = agent
    BY ResultIsSeq, ConcatEmptySeq DEF HashInv
  <2>4. Hashing'
    BY <2>1, <2>2, <2>3, HashOfNone DEF Hashing, Source
  <2> QED BY <2>1, <2>4 DEF HashInv
<1>4. CASE AgentHashed
  <2>1. /\ pc = "hash" /\ side = "agent" /\ batch = <<>> /\ cursor = <<>> /\ pc' = "done"
        /\ verdict' = (acc = gt_hash) /\ UNCHANGED <<truth, agent, side>>
    BY <1>4 DEF AgentHashed
  <2>2. acc = HashOf(agent) /\ gt_hash = HashOf(truth)
    BY <2>1, AllHashed DEF Source, HashInv, Hashing
  <2> QED BY <2>1, <2>2 DEF HashInv
<1>5. CASE FetchCapped \/ Drained \/ BudgetUsed
  BY <1>5 DEF FetchCapped, Drained, BudgetUsed, HashInv, hashVars
<1>6. CASE UNCHANGED vars
  BY <1>6 DEF vars, hashVars, HashInv, Hashing, Source
<1> QED BY <1>1, <1>2, <1>3, <1>4, <1>5, <1>6 DEF Next

LEMMA VerdictIsHash == Spec => []HashInv
  BY HashInit, HashStep, PTL DEF Spec

\* The rows that a hash does not tell apart are of one content: SHA-256 and the
\* width of the sums leave nothing to chance.
NoCollision ==
    \A r, s \in Result : HashOf(r) = HashOf(s) => SameContent(r, s)

\* A submission with the content of the ground truth is never refused, whatever
\* the order of its rows, the chunks they are fetched in, and the digests.
RightRowsMatch ==
    pc = "done" /\ side = "agent" /\ SameContent(agent, truth) => verdict

\* Of the hash only its arithmetic is used: a right submission is accepted for any
\* digests (canonical_row_hash, _handle_submit_rewrite).
THEOREM RightIsAccepted == QuietZeros => (Spec => []RightRowsMatch)
<1>1. QuietZeros /\ HashInv => RightRowsMatch
  <2> SUFFICES ASSUME QuietZeros, HashInv, pc = "done", side = "agent", SameContent(agent, truth)
               PROVE  verdict
    BY DEF RightRowsMatch
  <2>1. agent \in Seq(Value) /\ truth \in Seq(Value)
    BY ResultIsSeq DEF HashInv
  <2>2. HashOf(agent) = HashOf(truth)
    BY <2>1, ContentHashes
  <2> QED BY <2>2 DEF HashInv
<1>2. CASE QuietZeros
  BY <1>1, <1>2, VerdictIsHash, PTL
<1> QED BY <1>2

\* A submission is refused that has more rows than the ground truth or fewer, or
\* is wrong in one row.
NearMissesFail ==
    pc = "done" /\ side = "agent" /\ verdict =>
        Len(agent) = Len(truth) /\ ~OneRowApart(agent, truth)

\* Near misses need no luck: the count and the sum tell them, however often a row
\* occurs and in whatever order (canonical_row_hash, _handle_submit_rewrite).
THEOREM NearMissesAreRefused == QuietZeros => (Spec => []NearMissesFail)
<1>1. QuietZeros /\ HashInv => NearMissesFail
  <2> SUFFICES ASSUME QuietZeros, HashInv, pc = "done", side = "agent", verdict
               PROVE  Len(agent) = Len(truth) /\ ~OneRowApart(agent, truth)
    BY DEF NearMissesFail
  <2>1. agent \in Seq(Value) /\ truth \in Seq(Value)
    BY ResultIsSeq DEF HashInv
  <2>2. HashOf(agent) = HashOf(truth)
    BY DEF HashInv
  <2>3. Len(agent) = Len(truth)
    <3>1. HashOf(agent).count = Len(agent) /\ HashOf(truth).count = Len(truth)
      BY <2>1, RowsCounted
    <3> QED BY <2>2, <3>1
  <2> QED BY <2>1, <2>2, <2>3, OneRowTold
<1>2. CASE QuietZeros
  BY <1>1, <1>2, VerdictIsHash, PTL
<1> QED BY <1>2

\* Where no two contents collide the verdict tells content, multiplicities included
\* (canonical_row_hash).
THEOREM VerdictDecides == QuietZeros /\ NoCollision => (Spec => []VerdictIsContent)
<1>1. QuietZeros /\ NoCollision /\ HashInv => VerdictIsContent
  <2> SUFFICES ASSUME QuietZeros, NoCollision, HashInv, pc = "done", side = "agent"
               PROVE  verdict <=> SameContent(agent, truth)
    BY DEF VerdictIsContent
  <2>1. agent \in Seq(Value) /\ truth \in Seq(Value) /\ agent \in Result /\ truth \in Result
    BY ResultIsSeq DEF HashInv
  <2>2. SameContent(agent, truth) => HashOf(agent) = HashOf(truth)
    BY <2>1, ContentHashes
  <2>3. HashOf(agent) = HashOf(truth) => SameContent(agent, truth)
    BY <2>1 DEF NoCollision
  <2> QED BY <2>2, <2>3 DEF HashInv
<1>2. CASE QuietZeros /\ NoCollision
  BY <1>1, <1>2, VerdictIsHash, PTL
<1> QED BY <1>2
=============================================================================
