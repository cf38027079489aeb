----------------------------- MODULE DriftProofs -----------------------------
(***************************************************************************)
(* Proofs that no drift operation loses data, for every number of rows, of *)
(* calls and of failures and every content of the column, and that what    *)
(* was written by hand around the drifts - the queries of the ten          *)
(* scenarios, the marker sets, the changelog, the hints - fits the data.   *)
(*                                                                         *)
(* The properties speak of finished operations only.  The invariant says,  *)
(* for each operation, which columns the table has before each statement   *)
(* and what is in them, also after a call that failed there.               *)
(***************************************************************************)
EXTENDS Guidance, FiniteSetTheorems, FunctionTheorems, WellFoundedInduction, TLAPS

-----------------------------------------------------------------------------
(* The inductive invariant: the shape of the table at each statement *)

Text == [type |-> "VARCHAR", rows |-> original]
Numbers(rows) == [type |-> "BIGINT", rows |-> rows]

\* The table is one column, or the untouched one and another beside it.
Only(c, column) == table = [d \in {c} |-> column]
Untouched == Only("col", Text)
Beside(c) ==
    /\ Cols = {"col", c}
    /\ table = [d \in Cols |-> IF d = "col" THEN Text ELSE Numbers(table[c].rows)]

Finished == outcome \in {"applied", "already"}
Idle == pc = "idle" /\ ~Finished

RenameInv ==
    \/ Untouched /\ (Idle \/ pc = "rename")
    \/ Only("new", Text) /\ pc = "idle"

\* The converted column.
Epochs == [r \in Row |-> EpochMs(original[r])]

DateInv ==
    \/ Untouched /\ (Idle \/ pc = "add tmp")
    \/ Beside("tmp") /\ (Idle \/ pc \in {"add tmp", "fill tmp"})
    \/ Beside("tmp") /\ table["tmp"].rows = Epochs /\ pc = "drop col"
    \/ Only("tmp", Numbers(Epochs)) /\ (Idle \/ pc = "rename tmp")
    \/ Only("col", Numbers(Epochs)) /\ pc = "idle"

\* The column with the old value split, and what the temporary table says of it.
OldRows == {r \in Row : original[r] = OldValue}
SplitRows == [r \in Row |-> IF r \in OldRows THEN NewValue(r) ELSE original[r]]
SplitText == [type |-> "VARCHAR", rows |-> SplitRows]
FullRemap == [r \in OldRows |-> NewValue(r)]

EnumInv ==
    /\ remap \in {NoTable, FullRemap}
    /\ \/ Untouched /\ (Idle \/ pc = "create remap")
       \/ Untouched /\ pc = "update" /\ remap = FullRemap
       \/ Only("col", SplitText) /\ pc \in {"idle", "drop remap"}

\* A lookup table: finitely many ids, each of another name.
IsLookup(tab) ==
    /\ IsFiniteSet(DOMAIN tab) /\ DOMAIN tab \subseteq Nat
    /\ tab \in [DOMAIN tab -> Nat \ {NULL}]
    /\ \A i, j \in DOMAIN tab : tab[i] = tab[j] => i = j

\* Every name of the column has an id.
Listed == \A r \in Row : original[r] # NULL => \E i \in DOMAIN lookup : lookup[i] = original[r]

\* The foreign keys lead back to the names.
LeadsBack(fk) ==
    \A r \in Row : IF original[r] = NULL THEN fk[r] = NULL
                   ELSE fk[r] \in DOMAIN lookup /\ lookup[fk[r]] = original[r]

DeprecationInv ==
    \/ Untouched /\ lookup = NoTable /\ (Idle \/ pc = "create lookup")
    \/ /\ IsLookup(lookup)
       /\ \/ Untouched /\ (Idle \/ pc = "seed lookup")
          \/ Untouched /\ Listed /\ pc = "add fk"
          \/ Beside(FK) /\ (Idle \/ pc = "seed lookup")
          \/ Beside(FK) /\ Listed /\ pc \in {"add fk", "backfill"}
          \/ Beside(FK) /\ LeadsBack(table[FK].rows) /\ pc = "drop orig"
          \/ Only(FK, Numbers(table[FK].rows)) /\ LeadsBack(table[FK].rows) /\ pc = "idle"

DriftInv ==
    /\ kind \in Kind /\ original \in [Row -> Value]
    /\ pc # "idle" => outcome = "running"
    /\ kind = "column_rename" => RenameInv
    /\ kind = "date_format" => DateInv
    /\ kind = "enum_rule" => EnumInv
    /\ kind = "field_deprecation" => DeprecationInv

-----------------------------------------------------------------------------
(* Greatest elements and ranks of finite sets *)

\* A finite, non-empty set of integers has a greatest element: a smallest one
\* without would have one when any of its elements is taken away.
LEMMA GreatestExists ==
    ASSUME NEW S \in SUBSET Int, IsFiniteSet(S), S # {}
    PROVE  \E m \in S : \A x \in S : m >= x
<1> DEFINE Without == {T \in SUBSET S : T # {} /\ ~ \E m \in T : \A x \in T : m >= x}
           Sizes == {n \in Nat : \E T \in Without : Cardinality(T) = n}
<1>1. SUFFICES ASSUME Without # {} PROVE FALSE
    OBVIOUS
<1>2. \A T \in Without : IsFiniteSet(T) /\ Cardinality(T) \in Nat
    BY FS_Subset, FS_CardinalityType
<1>3. Sizes \subseteq Nat /\ Sizes # {}
    BY <1>1, <1>2
<1>4. PICK n \in Sizes : \A k \in Sizes : ~(<<k, n>> \in OpToRel(<, Nat))
    <2> HIDE DEF Sizes
    <2> QED
    BY <1>3, NatLessThanWellFounded, WFMin
<1>5. n \in Nat /\ \A k \in Sizes : ~(k < n)
    BY <1>3, <1>4 DEF OpToRel
<1>6. PICK T \in Without : Cardinality(T) = n
    OBVIOUS
<1>7. PICK x \in T : TRUE
    OBVIOUS
<1>8. Cardinality(T \ {x}) = n - 1 /\ n # 0 /\ IsFiniteSet(T)
    BY <1>2, <1>6, <1>7, FS_RemoveElement, FS_EmptySet
<1>9. T \ {x} \notin Without
    <2> SUFFICES ASSUME T \ {x} \in Without PROVE FALSE
        OBVIOUS
    <2>1. n - 1 \in Nat /\ n - 1 < n
        BY <1>5, <1>8
    <2>2. n - 1 \in Sizes
        BY <1>8, <2>1
    <2> QED
        BY <1>5, <2>1, <2>2
<1>10. CASE T \ {x} = {}
    BY <1>7, <1>10
<1>11. CASE T \ {x} # {}
    <2>1. PICK m \in T \ {x} : \A y \in T \ {x} : m >= y
        BY <1>9, <1>11
    <2>2. m \in Int /\ x \in Int /\ T \subseteq Int
        BY <1>7
    <2>3. CASE m >= x
        BY <2>1, <2>3
    <2>4. CASE ~(m >= x)
        <3>1. \A y \in T : x >= y
            BY <2>1, <2>2, <2>4
        <3> QED
            BY <3>1, <1>7
    <2> QED
        BY <2>3, <2>4
<1> QED
    BY <1>10, <1>11

LEMMA LargestIdIsLargest ==
    ASSUME IsLookup(lookup)
    PROVE  LargestId \in Nat /\ \A i \in DOMAIN lookup : i <= LargestId
<1>1. IsFiniteSet(DOMAIN lookup) /\ DOMAIN lookup \subseteq Nat
    BY DEF IsLookup
<1>2. CASE DOMAIN lookup = {}
    BY <1>2 DEF LargestId
<1>3. CASE DOMAIN lookup # {}
    <2> DEFINE D == DOMAIN lookup
    <2>1. \E m \in D : \A x \in D : m >= x
        BY <1>1, <1>3, GreatestExists
    <2>2. LargestId \in D /\ \A x \in D : LargestId >= x
        BY <1>3, <2>1 DEF LargestId, Max
    <2> QED
        BY <1>1, <2>2
<1> QED
    BY <1>2, <1>3

\* The rank of a value among finitely many grows with the value.
LEMMA RankGrows ==
    ASSUME NEW U \in SUBSET Nat, IsFiniteSet(U), NEW v \in U, NEW w \in U, v < w
    PROVE  Cardinality({x \in U : x <= v}) < Cardinality({x \in U : x <= w})
<1> DEFINE Below(n) == {x \in U : x <= n}
<1>1. Below(v) # Below(w) /\ Below(v) \subseteq Below(w)
    <2>1. w \in Below(w) /\ w \notin Below(v)
        OBVIOUS
    <2>2. \A x \in U : x <= v => x <= w
        OBVIOUS
    <2> QED
        BY <2>1, <2>2
<1>2. Below(w) \subseteq U
    OBVIOUS
<1>3. IsFiniteSet(Below(w))
    BY <1>2, FS_Subset
<1>4. IsFiniteSet(Below(v)) /\ Cardinality(Below(v)) <= Cardinality(Below(w))
        /\ (Cardinality(Below(v)) = Cardinality(Below(w)) => Below(v) = Below(w))
    <2> HIDE DEF Below
    <2> QED
    BY <1>1, <1>3, FS_Subset
<1>5. Cardinality(Below(v)) \in Nat /\ Cardinality(Below(w)) \in Nat
    BY <1>3, <1>4, FS_CardinalityType
<1> QED
    BY <1>1, <1>4, <1>5

LEMMA RankNames ==
    ASSUME NEW U \in SUBSET Nat, IsFiniteSet(U), NEW v \in U
    PROVE  /\ Cardinality({x \in U : x <= v}) \in Nat \ {0}
           /\ \A w \in U : Cardinality({x \in U : x <= w}) = Cardinality({x \in U : x <= v})
                               => w = v
<1> DEFINE Below(n) == {x \in U : x <= n}
<1>1. v \in Below(v) /\ Below(v) \subseteq U
    OBVIOUS
<1>2. IsFiniteSet(Below(v))
    BY <1>1, FS_Subset
<1>3. Cardinality(Below(v)) \in Nat \ {0}
    <2> HIDE DEF Below
    <2> QED
    BY <1>1, <1>2, FS_CardinalityType, FS_EmptySet
<1>4. \A w \in U : IsFiniteSet(Below(w)) /\ Cardinality(Below(w)) \in Nat
    <2> TAKE w \in U
    <2>1. Below(w) \subseteq U
        OBVIOUS
    <2> QED
        BY <2>1, FS_Subset, FS_CardinalityType
<1>5. ASSUME NEW w \in U, Cardinality(Below(w)) = Cardinality(Below(v)) PROVE w = v
    <2>1. ~(v < w) /\ ~(w < v)
        BY <1>3, <1>4, <1>5, RankGrows
    <2> QED
        BY <2>1
<1> QED
    BY <1>3, <1>5

\* The image of a finite set is finite.
LEMMA FiniteImage ==
    ASSUME NEW S, IsFiniteSet(S), NEW f \in [S -> Nat]
    PROVE  IsFiniteSet({f[x] : x \in S})
<1> DEFINE image == {f[x] : x \in S}
<1>1. f \in Surjection(S, image)
    BY DEF Surjection
<1>2. ExistsSurjection(S, image)
    BY <1>1 DEF ExistsSurjection
<1>3. PICK n \in Nat : ExistsSurjection(1..n, S)
    BY FS_NatSurjection
<1>4. ExistsSurjection(1..n, image)
    <2> HIDE DEF image
    <2> QED
        BY <1>2, <1>3, Fun_ExistsSurjTransitive
<1> HIDE DEF image
<1>5. IsFiniteSet(image)
    BY <1>4, FS_NatSurjection
<1> QED
    BY <1>5 DEF image

\* Adding values a table does not have, each under a new id, keeps it a lookup
\* table.
LEMMA ExtendedLookup ==
    ASSUME NEW tab, IsLookup(tab),
           NEW U \in SUBSET (Nat \ {NULL}), IsFiniteSet(U),
           \A v \in U : \A i \in DOMAIN tab : tab[i] # v,
           NEW ids \in [U -> Nat], \A v \in U : ids[v] \notin DOMAIN tab,
           NEW more, more = [i \in DOMAIN more |-> more[i]],
           DOMAIN more = DOMAIN tab \cup {ids[v] : v \in U},
           \A i \in DOMAIN tab : more[i] = tab[i],
           \A v \in U : more[ids[v]] = v
    PROVE  IsLookup(more)
<1>1. DOMAIN tab \subseteq Nat /\ IsFiniteSet(DOMAIN tab)
    BY DEF IsLookup
<1>2. \A i \in DOMAIN tab : tab[i] \in Nat \ {NULL}
    BY DEF IsLookup
<1>3. \A i, j \in DOMAIN tab : tab[i] = tab[j] => i = j
    BY DEF IsLookup
<1>4. IsFiniteSet(DOMAIN more) /\ DOMAIN more \subseteq Nat
    <2> DEFINE image == {ids[v] : v \in U}
    <2>2. IsFiniteSet(image)
        BY FiniteImage
    <2>3. image \subseteq Nat /\ DOMAIN more = DOMAIN tab \cup image
        OBVIOUS
    <2> HIDE DEF image
    <2>4. IsFiniteSet(DOMAIN tab \cup image)
        BY <1>1, <2>2, FS_Union
    <2> QED
        BY <1>1, <2>3, <2>4
<1>5. \A i \in DOMAIN more : i \in DOMAIN tab \/ \E v \in U : i = ids[v]
    OBVIOUS
<1>6. \A i \in DOMAIN more : more[i] \in Nat \ {NULL}
    BY <1>2, <1>5
<1>7. ASSUME NEW i \in DOMAIN more, NEW j \in DOMAIN more, more[i] = more[j]
      PROVE  i = j
    BY <1>3, <1>5, <1>7
<1>8. more \in [DOMAIN more -> Nat \ {NULL}]
    BY <1>6
<1> QED
    BY <1>4, <1>7, <1>8 DEF IsLookup

\* The table SeedLookup makes.
Seeded(tab, base, U) ==
    LET IdOf(v) == base + Cardinality({w \in U : w <= v})
    IN  [i \in DOMAIN tab \cup {IdOf(v) : v \in U} |->
            IF i \in DOMAIN tab THEN tab[i] ELSE CHOOSE v \in U : IdOf(v) = i]

\* Seeding adds each unlisted value under an id of its own and keeps the others.
LEMMA SeededLookup ==
    ASSUME NEW tab, IsLookup(tab),
           NEW base \in Nat, \A i \in DOMAIN tab : i <= base,
           NEW U \in SUBSET (Nat \ {NULL}), IsFiniteSet(U),
           \A v \in U : \A i \in DOMAIN tab : tab[i] # v
    PROVE  \A ids, seeded :
             /\ ids = [v \in U |-> base + Cardinality({w \in U : w <= v})]
             /\ seeded = Seeded(tab, base, U)
             => /\ IsLookup(seeded)
                /\ \A i \in DOMAIN tab : i \in DOMAIN seeded /\ seeded[i] = tab[i]
                /\ \A v \in U : \E i \in DOMAIN seeded : seeded[i] = v
<1> SUFFICES ASSUME NEW ids, NEW seeded PROVE
             /\ ids = [v \in U |-> base + Cardinality({w \in U : w <= v})]
             /\ seeded = Seeded(tab, base, U)
             => /\ IsLookup(seeded)
                /\ \A i \in DOMAIN tab : i \in DOMAIN seeded /\ seeded[i] = tab[i]
                /\ \A v \in U : \E i \in DOMAIN seeded : seeded[i] = v
    OBVIOUS
<1>1. HAVE /\ ids = [v \in U |-> base + Cardinality({w \in U : w <= v})]
           /\ seeded = Seeded(tab, base, U)
<1>2. \A v \in U : /\ ids[v] \in Nat /\ ids[v] > base
                   /\ \A w \in U : ids[w] = ids[v] => w = v
    <2> TAKE v \in U
    <2> DEFINE rank(x) == Cardinality({w \in U : w <= x})
    <2>1. rank(v) \in Nat \ {0} /\ \A w \in U : rank(w) \in Nat /\ (rank(w) = rank(v) => w = v)
        BY RankNames
    <2>2. \A w \in U : ids[w] = base + rank(w)
        BY <1>1
    <2> HIDE DEF rank
    <2> QED
        BY <2>1, <2>2
<1>3. \A v \in U : ids[v] \notin DOMAIN tab
    <2> SUFFICES ASSUME NEW v \in U, ids[v] \in DOMAIN tab PROVE FALSE
        OBVIOUS
    <2> QED
        BY <1>2 DEF IsLookup
<1>4. \A v \in U : seeded[ids[v]] = v /\ ids[v] \in DOMAIN seeded
    <2> TAKE v \in U
    <2> DEFINE IdOf(x) == base + Cardinality({w \in U : w <= x})
    <2>1. seeded = [i \in DOMAIN tab \cup {IdOf(x) : x \in U} |->
                      IF i \in DOMAIN tab THEN tab[i] ELSE CHOOSE x \in U : IdOf(x) = i]
        BY <1>1 DEF Seeded
    <2>2. \A w \in U : ids[w] = IdOf(w)
        BY <1>1
    <2> HIDE DEF IdOf
    <2>3. \A w \in U : IdOf(w) = ids[v] <=> w = v
        BY <1>2, <2>2
    <2>4. (CHOOSE w \in U : IdOf(w) = ids[v]) = v
        BY <2>3
    <2>5. ids[v] \in {IdOf(x) : x \in U}
        BY <2>2
    <2> QED
        BY <1>3, <2>1, <2>4, <2>5
<1>5. \A i \in DOMAIN tab : i \in DOMAIN seeded /\ seeded[i] = tab[i]
    BY <1>1 DEF Seeded
<1>6. /\ seeded = [i \in DOMAIN seeded |-> seeded[i]]
      /\ DOMAIN seeded = DOMAIN tab \cup {ids[v] : v \in U}
    <2> DEFINE IdOf(x) == base + Cardinality({w \in U : w <= x})
               D == DOMAIN tab \cup {IdOf(v) : v \in U}
               Entry(i) == IF i \in DOMAIN tab THEN tab[i] ELSE CHOOSE v \in U : IdOf(v) = i
    <2>1. seeded = [i \in D |-> Entry(i)]
        BY ONLY <1>1 DEF Seeded
    <2>2. \A v \in U : ids[v] = IdOf(v)
        BY ONLY <1>1
    <2>3. {IdOf(v) : v \in U} = {ids[v] : v \in U}
        <3> HIDE DEF IdOf
        <3> QED
            BY ONLY <2>2
    <2>4. D = DOMAIN tab \cup {ids[v] : v \in U}
        BY ONLY <2>3
    <2> HIDE DEF D, Entry
    <2>5. DOMAIN seeded = D /\ seeded = [i \in D |-> seeded[i]]
        BY ONLY <2>1
    <2> QED
        BY ONLY <2>4, <2>5
<1>7. ids \in [U -> Nat]
    <2>1. ids = [v \in U |-> ids[v]]
        BY <1>1
    <2> QED
        BY ONLY <1>2, <2>1
<1>8. IsLookup(seeded)
    <2>1. \A v \in U : seeded[ids[v]] = v
        BY <1>4
    <2>2. \A i \in DOMAIN tab : seeded[i] = tab[i]
        BY <1>5
    <2>3. seeded = [i \in DOMAIN seeded |-> seeded[i]]
        BY <1>6
    <2>4. DOMAIN seeded = DOMAIN tab \cup {ids[v] : v \in U}
        BY <1>6
    <2> QED
        BY ONLY IsLookup(tab), U \in SUBSET (Nat \ {NULL}), IsFiniteSet(U),
                \A v \in U : \A i \in DOMAIN tab : tab[i] # v,
                <1>3, <1>7, <2>1, <2>2, <2>3, <2>4, ExtendedLookup
<1> QED
    BY <1>4, <1>5, <1>8

\* After the INSERT every name of the column is in the lookup table, once.
LEMMA SeedLists ==
    ASSUME original \in [Row -> Value], IsLookup(lookup),
           "col" \in Cols, table["col"] = Text, SeedLookup
    PROVE  /\ IsLookup(lookup')
           /\ \A r \in Row : original[r] # NULL =>
                  \E i \in DOMAIN lookup' : lookup'[i] = original[r]
<1>1. Cells("col") = {original[r] : r \in Row}
    BY DEF Cells, Text
<1>2. NumRows \in Nat /\ Value \subseteq Nat
    BY DriftAssumption
<1>3. IsFiniteSet(Row) /\ original \in [Row -> Nat]
    <2>1. IsFiniteSet(Row)
        BY <1>2, FS_Interval DEF Row
    <2> QED
        BY <1>2, <2>1
<1>4. IsFiniteSet(Cells("col")) /\ Cells("col") \subseteq Nat
    <2> HIDE DEF Row
    <2> QED
        BY <1>1, <1>3, FiniteImage
<1>5. /\ Unlisted \subseteq Nat \ {NULL} /\ IsFiniteSet(Unlisted)
      /\ \A v \in Unlisted : \A i \in DOMAIN lookup : lookup[i] # v
    <2>1. Unlisted \subseteq Cells("col")
        BY DEF Unlisted
    <2>2. IsFiniteSet(Unlisted)
        BY <1>4, <2>1, FS_Subset
    <2> QED
        BY <1>4, <2>2 DEF Unlisted, Names
<1>6. lookup' = Seeded(lookup, LargestId, Unlisted)
    BY DEF SeedLookup, Seeded
<1> DEFINE U == Unlisted
           ids == [v \in U |-> LargestId + Cardinality({w \in U : w <= v})]
           tab == lookup
           base == LargestId
<1>7. /\ IsLookup(lookup')
      /\ \A i \in DOMAIN tab : i \in DOMAIN lookup' /\ lookup'[i] = tab[i]
      /\ \A v \in U : \E i \in DOMAIN lookup' : lookup'[i] = v
    <2>1. base \in Nat /\ (\A i \in DOMAIN tab : i <= base) /\ IsLookup(tab)
        BY LargestIdIsLargest
    <2>2. U \in SUBSET (Nat \ {NULL}) /\ IsFiniteSet(U)
          /\ \A v \in U : \A i \in DOMAIN tab : tab[i] # v
        BY <1>5
    <2>3. lookup' = Seeded(tab, base, U)
        BY <1>6
    <2>4. ids = [v \in U |-> base + Cardinality({w \in U : w <= v})]
        OBVIOUS
    <2> HIDE DEF U, ids, tab, base
    <2> QED
        BY ONLY <2>1, <2>2, <2>3, <2>4, SeededLookup
<1>8. ASSUME NEW r \in Row, original[r] # NULL
      PROVE  \E i \in DOMAIN lookup' : lookup'[i] = original[r]
    <2>1. CASE original[r] \in Unlisted
        BY <1>7, <2>1
    <2>2. CASE original[r] \notin Unlisted
        <3>1. original[r] \in Names
            BY <1>1, <1>8, <2>2 DEF Unlisted
        <3>2. PICK i \in DOMAIN lookup : lookup[i] = original[r]
            BY <3>1 DEF Names
        <3> QED
            BY <1>7, <3>2
    <2> QED
        BY <2>1, <2>2
<1> QED
    BY <1>7, <1>8

-----------------------------------------------------------------------------
(* Each kind of drift, statement by statement *)

\* The parts of the invariant every step has in common.
CommonInv ==
    /\ kind \in Kind /\ original \in [Row -> Value]
    /\ pc # "idle" => outcome = "running"

LEMMA CommonStep ==
    ASSUME CommonInv, Next
    PROVE  CommonInv' /\ UNCHANGED <<kind, original>>
<1> USE DEF CommonInv
<1>1. CASE Apply
    BY <1>1 DEF Apply, Return
<1>2. CASE Statement
    BY <1>2 DEF Statement, At, Return, RenameStep, AddTmp, FillTmp, DropCol, RenameTmp,
                CreateRemap, UpdateEnum, DropRemap, CreateLookup, SeedLookup, AddFK,
                Backfill, DropOrig
<1>3. CASE CatalogError
    BY <1>3 DEF CatalogError, Return
<1>4. CASE StatementRaises
    BY <1>4 DEF StatementRaises, Return
<1> QED
    BY <1>1, <1>2, <1>3, <1>4 DEF Next

\* A call that is refused, answered at once or cut short leaves the database as
\* it is and nothing running.
LEMMA CallsAndFaults ==
    ASSUME Next, ~Statement
    PROVE  /\ UNCHANGED database
           /\ \/ pc' = "idle" /\ outcome' = "raised"
              \/ pc = "idle" /\ AlreadyApplied /\ pc' = "idle" /\ outcome' = "already"
              \/ pc = "idle" /\ ~AlreadyApplied /\ "col" \in Cols /\ pc' = FirstStatement
<1>1. CASE Apply
    BY <1>1 DEF Apply, Return
<1>2. CASE CatalogError
    BY <1>2 DEF CatalogError, Return
<1>3. CASE StatementRaises
    BY <1>3 DEF StatementRaises, Return
<1> QED
    BY <1>1, <1>2, <1>3 DEF Next

\* The statement that runs is the one the operation is at.
LEMMA StatementAtPc ==
    ASSUME Statement
    PROVE  /\ pc \in {"rename", "add tmp", "fill tmp", "drop col", "rename tmp",
                      "create remap", "update", "drop remap", "create lookup",
                      "seed lookup", "add fk", "backfill", "drop orig"}
           /\ pc = "rename" => RenameStep
           /\ pc = "add tmp" => AddTmp
           /\ pc = "fill tmp" => FillTmp
           /\ pc = "drop col" => DropCol
           /\ pc = "rename tmp" => RenameTmp
           /\ pc = "create remap" => CreateRemap
           /\ pc = "update" => UpdateEnum
           /\ pc = "drop remap" => DropRemap
           /\ pc = "create lookup" => CreateLookup
           /\ pc = "seed lookup" => SeedLookup
           /\ pc = "add fk" => AddFK
           /\ pc = "backfill" => Backfill
           /\ pc = "drop orig" => DropOrig
BY DEF Statement, At, RenameStep, AddTmp, FillTmp, DropCol, RenameTmp, CreateRemap,
       UpdateEnum, DropRemap, CreateLookup, SeedLookup, AddFK, Backfill, DropOrig

LEMMA RenameKind ==
    ASSUME kind = "column_rename", RenameInv, Next, UNCHANGED original
    PROVE  RenameInv'
<1>1. CASE ~Statement
    <2>1. Only("new", Text) => AlreadyApplied
        BY DEF Only, AlreadyApplied, RenameApplied, Cols
    <2>2. Untouched => ~AlreadyApplied
        BY DEF Only, Untouched, AlreadyApplied, RenameApplied, Cols
    <2>3. FirstStatement = "rename"
        BY DEF FirstStatement
    <2>4. (Untouched => Untouched') /\ (Only("new", Text) => Only("new", Text)')
        BY <1>1, CallsAndFaults DEF database, Only, Untouched, Text
    <2> QED
        BY <1>1, <2>1, <2>2, <2>3, <2>4, CallsAndFaults DEF RenameInv, Idle, Finished
<1>2. CASE Statement
    <2>1. pc = "rename" /\ Untouched
        BY <1>2, StatementAtPc DEF RenameInv, Idle
    <2>2. RenameStep
        BY <1>2, <2>1, StatementAtPc
    <2>3. Only("new", Text)'
        BY <2>1, <2>2 DEF RenameStep, RenameColumn, Cols, Untouched, Only, Text
    <2>4. pc' = "idle"
        BY <2>2 DEF RenameStep, At, Return
    <2> QED
        BY <2>3, <2>4 DEF RenameInv
<1> QED
    BY <1>1, <1>2

\* Writing the rows of the second column.
LEMMA RowsBeside ==
    ASSUME NEW c, c # "col", Beside(c), NEW rows
    PROVE  SetRows(c, rows) = [d \in {"col", c} |-> IF d = c THEN Numbers(rows) ELSE Text]
<1>1. /\ Cols = {"col", c} /\ table["col"] = Text /\ table[c] = Numbers(table[c].rows)
      /\ table = [d \in {"col", c} |-> table[d]]
    BY DEF Beside
<1> DEFINE t == table[c].rows
<1>2. [Numbers(t) EXCEPT !.rows = rows] = Numbers(rows)
    BY DEF Numbers
<1>3. SetRows(c, rows) = [table EXCEPT ![c] = [table[c] EXCEPT !.rows = rows]]
    BY DEF SetRows
<1>4. SetRows(c, rows) = [table EXCEPT ![c] = Numbers(rows)]
    BY <1>1, <1>2, <1>3
<1> QED
    BY <1>1, <1>4

LEMMA DateKind ==
    ASSUME kind = "date_format", DateInv, Next, UNCHANGED original
    PROVE  DateInv'
<1>1. CASE ~Statement
    <2>1. /\ Only("col", Numbers(Epochs)) => AlreadyApplied
          /\ Only("tmp", Numbers(Epochs)) => "col" \notin Cols
        BY DEF Only, AlreadyApplied, DateFormatApplied, Cols, Numbers
    <2>2. Untouched \/ Beside("tmp") \/ Only("tmp", Numbers(Epochs)) => ~AlreadyApplied
        BY DEF Only, Untouched, Beside, AlreadyApplied, DateFormatApplied, Cols, Text
    <2>3. FirstStatement = "add tmp"
        BY DEF FirstStatement
    <2>4. /\ Untouched => Untouched'
          /\ Beside("tmp") => Beside("tmp")'
          /\ Only("tmp", Numbers(Epochs)) => Only("tmp", Numbers(Epochs))'
          /\ Only("col", Numbers(Epochs)) => Only("col", Numbers(Epochs))'
        BY <1>1, CallsAndFaults DEF database, Only, Untouched, Beside, Text, Epochs, Numbers, Cols
    <2> QED
        BY <1>1, <2>1, <2>2, <2>3, <2>4, CallsAndFaults DEF DateInv, Idle, Finished
<1>2. CASE Statement
    <2>1. pc \in {"add tmp", "fill tmp", "drop col", "rename tmp"}
        BY <1>2, StatementAtPc DEF DateInv, Idle
    <2>2. CASE pc = "add tmp"
        <3>1. AddTmp
            BY <1>2, <2>2, StatementAtPc
        <3>2. Untouched
            BY <2>2, <3>1 DEF DateInv, Idle, AddTmp, Beside
        <3>3. table' = [d \in {"col", "tmp"} |-> IF d = "tmp" THEN Numbers([r \in Row |-> NULL])
                                                ELSE Text]
            BY <3>1, <3>2 DEF AddTmp, AddColumn, Untouched, Only, Cols, Numbers
        <3>4. Text' = Text
            BY DEF Text
        <3>5. Beside("tmp")'
            BY <3>3, <3>4 DEF Beside, Cols, Numbers
        <3>6. pc' = "fill tmp"
            BY <3>1 DEF AddTmp, At
        <3> QED
            BY <3>5, <3>6 DEF DateInv
    <2>3. CASE pc = "fill tmp"
        <3>1. FillTmp
            BY <1>2, <2>3, StatementAtPc
        <3>2. Beside("tmp")
            BY <2>3 DEF DateInv, Idle
        <3>3. /\ table["col"] = Text /\ Cols = {"col", "tmp"}
              /\ table["tmp"] = Numbers(table["tmp"].rows)
              /\ table = [d \in Cols |-> table[d]]
            BY <3>2 DEF Beside
        <3>4. [r \in Row |-> EpochMs(table["col"].rows[r])] = Epochs
            BY <3>3 DEF Epochs, Text
        <3>5. table' = [d \in {"col", "tmp"} |-> IF d = "tmp" THEN Numbers(Epochs) ELSE Text]
            <4>1. table' = SetRows("tmp", Epochs)
                BY <3>1, <3>4 DEF FillTmp
            <4> HIDE DEF Epochs
            <4> QED
                BY <3>2, <4>1, RowsBeside
        <3>6. Beside("tmp")' /\ table'["tmp"].rows = Epochs'
            BY <3>5 DEF Beside, Cols, Numbers, Epochs, Text
        <3>7. pc' = "drop col"
            BY <3>1 DEF FillTmp, At
        <3> QED
            BY <3>6, <3>7 DEF DateInv
    <2>4. CASE pc = "drop col"
        <3>1. DropCol
            BY <1>2, <2>4, StatementAtPc
        <3>2. Beside("tmp") /\ table["tmp"].rows = Epochs
            BY <2>4 DEF DateInv, Idle
        <3>3. Only("tmp", Numbers(Epochs))'
            BY <3>1, <3>2 DEF DropCol, DropColumn, Beside, Only, Numbers, Epochs, Cols
        <3>4. pc' = "rename tmp"
            BY <3>1 DEF DropCol, At
        <3> QED
            BY <3>3, <3>4 DEF DateInv
    <2>5. CASE pc = "rename tmp"
        <3>1. RenameTmp
            BY <1>2, <2>5, StatementAtPc
        <3>2. Only("tmp", Numbers(Epochs))
            BY <2>5 DEF DateInv, Idle
        <3>3. Only("col", Numbers(Epochs))'
            BY <3>1, <3>2 DEF RenameTmp, RenameColumn, Only, Numbers, Epochs, Cols
        <3>4. pc' = "idle"
            BY <3>1 DEF RenameTmp, At, Return
        <3> QED
            BY <3>3, <3>4 DEF DateInv
    <2> QED
        BY <2>1, <2>2, <2>3, <2>4, <2>5
<1> QED
    BY <1>1, <1>2

\* The value a row of the old one gets is one of the new ones.
LEMMA NewValueIsNew ==
    ASSUME NEW r \in Row
    PROVE  /\ \E i \in 1..Len(NewValues) : NewValue(r) = NewValues[i]
           /\ NewValue(r) \notin Value
<1>1. Len(NewValues) \in Nat \ {0}
    BY DriftAssumption
<1>2. r \in Nat
    BY DriftAssumption DEF Row
<1>3. (r % Len(NewValues)) + 1 \in 1..Len(NewValues)
    BY <1>1, <1>2
<1> QED
    BY <1>3, DriftAssumption DEF NewValue

LEMMA RowsOnly ==
    ASSUME Untouched, NEW rows
    PROVE  SetRows("col", rows) = [d \in {"col"} |-> [type |-> "VARCHAR", rows |-> rows]]
<1>1. table = [d \in {"col"} |-> table[d]] /\ table["col"] = Text
    BY DEF Untouched, Only
<1>2. [Text EXCEPT !.rows = rows] = [type |-> "VARCHAR", rows |-> rows]
    BY DEF Text
<1>3. SetRows("col", rows) = [table EXCEPT !["col"] = [table["col"] EXCEPT !.rows = rows]]
    BY DEF SetRows
<1> QED
    BY <1>1, <1>2, <1>3

\* The probe of the enum rule: an untouched column has no new value, and a split
\* one that the probe does not find has nothing to split.
LEMMA EnumProbe ==
    ASSUME original \in [Row -> Value]
    PROVE  /\ Untouched => ~EnumRuleApplied
           /\ Only("col", SplitText) /\ ~EnumRuleApplied => Untouched
<1>1. ASSUME Untouched PROVE ~EnumRuleApplied
    <2>1. Cells("col") \subseteq Value
        BY <1>1 DEF Cells, Untouched, Only, Text
    <2> QED
        BY <2>1, DriftAssumption DEF EnumRuleApplied
<1>2. ASSUME Only("col", SplitText), ~EnumRuleApplied PROVE Untouched
    <2>1. \A r \in Row : table["col"].rows[r] = IF r \in OldRows THEN NewValue(r) ELSE original[r]
        BY <1>2 DEF Only, SplitText, SplitRows
    <2>2. OldValue \notin Cells("col")
        <3> SUFFICES ASSUME NEW r \in Row, table["col"].rows[r] = OldValue PROVE FALSE
            BY DEF Cells
        <3>1. CASE r \in OldRows
            BY <2>1, <3>1, NewValueIsNew, DriftAssumption
        <3>2. CASE r \notin OldRows
            BY <2>1, <3>2 DEF OldRows
        <3> QED
            BY <3>1, <3>2
    <2>3. OldRows = {}
        <3> SUFFICES ASSUME NEW r \in OldRows PROVE FALSE
            OBVIOUS
        <3>1. r \in Row
            BY DEF OldRows
        <3>2. NewValue(r) \in Cells("col")
            BY <2>1, <3>1 DEF Cells
        <3> QED
            BY <1>2, <2>2, <3>1, <3>2, NewValueIsNew DEF EnumRuleApplied
    <2>4. SplitText = Text
        BY <2>3 DEF SplitText, SplitRows, Text
    <2> QED
        BY <1>2, <2>4 DEF Untouched
<1> QED
    BY <1>1, <1>2

LEMMA EnumKind ==
    ASSUME kind = "enum_rule", original \in [Row -> Value], EnumInv, Next, UNCHANGED original
    PROVE  EnumInv'
<1>1. /\ Untouched /\ UNCHANGED table => Untouched'
      /\ Only("col", SplitText) /\ UNCHANGED table => Only("col", SplitText)'
      /\ FullRemap' = FullRemap /\ Text' = Text
    BY DEF Only, Untouched, Text, SplitText, SplitRows, OldRows, FullRemap
<1>2. CASE ~Statement
    <2>1. /\ Untouched => ~AlreadyApplied
          /\ Only("col", SplitText) /\ ~AlreadyApplied => Untouched
        BY EnumProbe DEF AlreadyApplied
    <2>2. FirstStatement = "create remap"
        BY DEF FirstStatement
    <2>3. UNCHANGED <<table, remap>>
        BY <1>2, CallsAndFaults DEF database
    <2> QED
        BY <1>1, <1>2, <2>1, <2>2, <2>3, CallsAndFaults DEF EnumInv, Idle, Finished
<1>3. CASE Statement
    <2>1. pc \in {"create remap", "update", "drop remap"}
        BY <1>3, StatementAtPc DEF EnumInv, Idle
    <2>2. CASE pc = "create remap"
        <3>1. CreateRemap
            BY <1>3, <2>2, StatementAtPc
        <3>2. Untouched
            BY <2>2 DEF EnumInv, Idle
        <3>3. remap' = FullRemap
            BY <3>1, <3>2 DEF CreateRemap, FullRemap, OldRows, Untouched, Only, Text
        <3>4. pc' = "update" /\ UNCHANGED table
            BY <3>1 DEF CreateRemap, At
        <3> QED
            BY <1>1, <3>2, <3>3, <3>4 DEF EnumInv
    <2>3. CASE pc = "update"
        <3>1. UpdateEnum
            BY <1>3, <2>3, StatementAtPc
        <3>2. Untouched /\ remap = FullRemap
            BY <2>3 DEF EnumInv, Idle
        <3>3. [r \in Row |-> IF r \in DOMAIN remap THEN remap[r] ELSE table["col"].rows[r]]
                  = SplitRows
            BY <3>2 DEF FullRemap, SplitRows, Untouched, Only, Text
        <3>4. table' = SetRows("col", SplitRows)
            BY <3>1, <3>3 DEF UpdateEnum
        <3>5. table' = [d \in {"col"} |-> SplitText]
            <4> HIDE DEF SplitRows
            <4> QED
                BY <3>2, <3>4, RowsOnly DEF SplitText
        <3>6. Only("col", SplitText)'
            BY <3>5 DEF Only, SplitText, SplitRows, OldRows
        <3>7. pc' = "drop remap" /\ UNCHANGED remap
            BY <3>1 DEF UpdateEnum, At
        <3> QED
            BY <1>1, <3>2, <3>6, <3>7 DEF EnumInv
    <2>4. CASE pc = "drop remap"
        <3>1. DropRemap
            BY <1>3, <2>4, StatementAtPc
        <3>2. Only("col", SplitText)
            BY <2>4 DEF EnumInv, Idle
        <3>3. pc' = "idle" /\ UNCHANGED table /\ remap' = NoTable
            BY <3>1 DEF DropRemap, At, Return
        <3>4. NoTable' = NoTable
            BY DEF NoTable
        <3> QED
            BY <1>1, <3>2, <3>3, <3>4 DEF EnumInv
    <2> QED
        BY <2>1, <2>2, <2>3, <2>4
<1> QED
    BY <1>2, <1>3

\* What an unchanged database keeps of the invariant's parts.
LEMMA DeprecationFrame ==
    ASSUME UNCHANGED <<table, lookup, original>>
    PROVE  /\ Untouched => Untouched'
           /\ Beside(FK) => Beside(FK)'
           /\ Only(FK, Numbers(table[FK].rows)) => Only(FK, Numbers(table[FK].rows))'
           /\ Listed => Listed'
           /\ LeadsBack(table[FK].rows) => LeadsBack(table[FK].rows)'
BY DEF Only, Untouched, Beside, Text, Numbers, Listed, LeadsBack, Cols

LEMMA LookupIsCreated ==
    ASSUME NEW tab, IsLookup(tab)
    PROVE  tab # NoTable
<1>1. -1 \in DOMAIN NoTable /\ -1 \notin Nat
    BY DEF NoTable
<1> QED
    BY <1>1 DEF IsLookup

LEMMA DeprecationCalls ==
    ASSUME kind = "field_deprecation", DeprecationInv, Next, ~Statement, UNCHANGED original
    PROVE  DeprecationInv'
<1>1. UNCHANGED <<table, lookup>>
    BY CallsAndFaults DEF database
<1>2. Untouched \/ Beside(FK) => ~AlreadyApplied
    BY DEF AlreadyApplied, DeprecationApplied, Untouched, Only, Beside, Cols
<1>3. Only(FK, Numbers(table[FK].rows)) => "col" \notin Cols
    BY DEF Only, Cols, FK
<1>4. FirstStatement = IF lookup = NoTable THEN "create lookup" ELSE "seed lookup"
    BY DEF FirstStatement, Created
<1>5. NoTable' = NoTable
    BY DEF NoTable
<1>6. IsLookup(lookup) => IsLookup(lookup') /\ lookup # NoTable
    BY <1>1, LookupIsCreated
<1>7. CASE lookup = NoTable
    <2>1. Untouched /\ (Idle \/ pc = "create lookup")
        BY <1>6, <1>7 DEF DeprecationInv
    <2> QED
        BY <1>1, <1>2, <1>4, <1>5, <1>7, <2>1, DeprecationFrame, CallsAndFaults
        DEF DeprecationInv, Idle, Finished
<1>8. CASE lookup # NoTable
    <2>1. IsLookup(lookup')
        BY <1>6, <1>8 DEF DeprecationInv
    <2>2. CASE Untouched
        BY <1>1, <1>2, <1>4, <1>8, <2>1, <2>2, DeprecationFrame, CallsAndFaults
        DEF DeprecationInv, Idle, Finished
    <2>3. CASE Beside(FK)
        BY <1>1, <1>2, <1>4, <1>8, <2>1, <2>3, DeprecationFrame, CallsAndFaults
        DEF DeprecationInv, Idle, Finished
    <2>4. CASE Only(FK, Numbers(table[FK].rows)) /\ LeadsBack(table[FK].rows) /\ pc = "idle"
        BY <1>1, <1>3, <2>1, <2>4, DeprecationFrame, CallsAndFaults DEF DeprecationInv
    <2> QED
        BY <1>8, <2>2, <2>3, <2>4 DEF DeprecationInv
<1> QED
    BY <1>7, <1>8

LEMMA DeprecationKind ==
    ASSUME kind = "field_deprecation", original \in [Row -> Value], DeprecationInv, Next,
           UNCHANGED original
    PROVE  DeprecationInv'
<1>1. CASE ~Statement
    BY <1>1, DeprecationCalls
<1>2. CASE Statement
    <2>1. pc \in {"create lookup", "seed lookup", "add fk", "backfill", "drop orig"}
        BY <1>2, StatementAtPc DEF DeprecationInv, Idle
    <2>2. CASE pc = "create lookup"
        <3>1. CreateLookup
            BY <1>2, <2>2, StatementAtPc
        <3>2. Untouched
            BY <2>2 DEF DeprecationInv, Idle
        <3>3. pc' = "seed lookup" /\ UNCHANGED table /\ lookup' = EmptyTable
            BY <3>1 DEF CreateLookup, At
        <3>4. IsLookup(EmptyTable)
            BY FS_EmptySet DEF IsLookup, EmptyTable
        <3>5. Untouched'
            BY <3>2, <3>3 DEF Untouched, Only, Text
        <3> QED
            BY <3>3, <3>4, <3>5 DEF DeprecationInv
    <2>3. CASE pc = "seed lookup"
        <3>1. SeedLookup
            BY <1>2, <2>3, StatementAtPc
        <3>2. IsLookup(lookup) /\ (Untouched \/ Beside(FK))
            BY <2>3 DEF DeprecationInv, Idle
        <3>3. "col" \in Cols /\ table["col"] = Text
            BY <3>2 DEF Untouched, Only, Beside, Cols
        <3>4. IsLookup(lookup') /\ Listed'
            BY <3>1, <3>2, <3>3, SeedLists DEF Listed
        <3>5. pc' = "add fk" /\ UNCHANGED table
            BY <3>1 DEF SeedLookup, At
        <3>6. Untouched' \/ Beside(FK)'
            BY <3>2, <3>5 DEF Untouched, Only, Text, Beside, Numbers, Cols
        <3> QED
            BY <3>4, <3>5, <3>6 DEF DeprecationInv
    <2>4. CASE pc = "add fk"
        <3>1. AddFK
            BY <1>2, <2>4, StatementAtPc
        <3>2. Untouched /\ Listed /\ IsLookup(lookup)
            BY <2>4, <3>1 DEF DeprecationInv, Idle, AddFK, Beside
        <3>3. table' = [d \in {"col", FK} |-> IF d = FK THEN Numbers([r \in Row |-> NULL])
                                             ELSE Text]
            BY <3>1, <3>2 DEF AddFK, AddColumn, Untouched, Only, Cols, Numbers
        <3>4. Text' = Text /\ FK # "col" /\ UNCHANGED lookup
            BY <3>1 DEF Text, FK, AddFK
        <3>5. Beside(FK)'
            BY <3>3, <3>4 DEF Beside, Cols, Numbers
        <3>6. Listed' /\ IsLookup(lookup')
            BY <3>2, <3>4 DEF Listed
        <3>7. pc' = "backfill"
            BY <3>1 DEF AddFK, At
        <3> QED
            BY <3>5, <3>6, <3>7 DEF DeprecationInv
    <2>5. CASE pc = "backfill"
        <3>1. Backfill
            BY <1>2, <2>5, StatementAtPc
        <3>2. Beside(FK) /\ Listed /\ IsLookup(lookup)
            BY <2>5 DEF DeprecationInv, Idle
        <3>3. table["col"].rows = original /\ FK # "col"
            BY <3>2 DEF Beside, Text, FK
        <3>4. PICK fk \in [Row -> DOMAIN lookup \cup {NULL}] :
                  /\ \A r \in Row :
                         LET ids == {i \in DOMAIN lookup : lookup[i] = original[r]}
                         IN  IF ids = {} THEN fk[r] = NULL ELSE fk[r] \in ids
                  /\ table' = SetRows(FK, fk)
            BY <3>1, <3>3 DEF Backfill
        <3>5. table' = [d \in {"col", FK} |-> IF d = FK THEN Numbers(fk) ELSE Text]
            <4>1. table' = SetRows(FK, fk)
                BY <3>4
            <4> QED
                BY ONLY <3>2, <3>3, <4>1, RowsBeside
        <3>6. \A i \in DOMAIN lookup : lookup[i] # NULL
            BY <3>2 DEF IsLookup
        <3>7. LeadsBack(fk)
            BY <3>2, <3>4, <3>6 DEF LeadsBack, Listed
        <3>8. Text' = Text /\ UNCHANGED lookup /\ pc' = "drop orig"
            BY <3>1 DEF Text, Backfill, At
        <3>9. Beside(FK)' /\ table'[FK].rows = fk
            BY <3>3, <3>5, <3>8 DEF Beside, Cols, Numbers
        <3>10. LeadsBack(table[FK].rows)'
            BY <3>7, <3>8, <3>9 DEF LeadsBack
        <3> QED
            BY <3>2, <3>8, <3>9, <3>10 DEF DeprecationInv
    <2>6. CASE pc = "drop orig"
        <3>1. DropOrig
            BY <1>2, <2>6, StatementAtPc
        <3>2. Beside(FK) /\ LeadsBack(table[FK].rows) /\ IsLookup(lookup)
            BY <2>6 DEF DeprecationInv, Idle
        <3>3. UNCHANGED lookup /\ pc' = "idle"
            BY <3>1 DEF DropOrig, At, Return
        <3>4. table' = [d \in {FK} |-> Numbers(table[FK].rows)]
            BY <3>1, <3>2 DEF DropOrig, DropColumn, Beside, FK, Cols
        <3>5. table'[FK].rows = table[FK].rows /\ Only(FK, Numbers(table[FK].rows))'
            BY <3>4 DEF Only, Numbers
        <3>6. LeadsBack(table[FK].rows)'
            BY <3>2, <3>3, <3>5 DEF LeadsBack
        <3> QED
            BY <3>2, <3>3, <3>5, <3>6 DEF DeprecationInv
    <2> QED
        BY <2>1, <2>2, <2>3, <2>4, <2>5, <2>6
<1> QED
    BY <1>1, <1>2

-----------------------------------------------------------------------------
(* The theorem *)

LEMMA DriftStarts == Init => DriftInv
<1> SUFFICES ASSUME Init PROVE DriftInv
    OBVIOUS
<1>1. Untouched /\ Idle
    BY DEF Init, Untouched, Only, Text, Idle, Finished
<1> QED
    BY <1>1 DEF Init, DriftInv, RenameInv, DateInv, EnumInv, DeprecationInv

LEMMA DriftNext == DriftInv /\ [Next]_vars => DriftInv'
<1> SUFFICES ASSUME DriftInv, [Next]_vars PROVE DriftInv'
    OBVIOUS
<1>1. CASE Next
    <2>1. CommonInv
        BY DEF DriftInv, CommonInv
    <2>2. CommonInv' /\ UNCHANGED <<kind, original>>
        BY <1>1, <2>1, CommonStep
    <2>3. kind = "column_rename" => RenameInv'
        BY <1>1, <2>2, RenameKind DEF DriftInv
    <2>4. kind = "date_format" => DateInv'
        BY <1>1, <2>2, DateKind DEF DriftInv
    <2>5. kind = "enum_rule" => EnumInv'
        BY <1>1, <2>2, EnumKind DEF DriftInv
    <2>6. kind = "field_deprecation" => DeprecationInv'
        BY <1>1, <2>2, DeprecationKind DEF DriftInv
    <2> QED
        BY <2>2, <2>3, <2>4, <2>5, <2>6 DEF DriftInv, CommonInv
<1>2. CASE UNCHANGED vars
    <2>1. UNCHANGED <<kind, table, lookup, remap, pc, outcome, original>>
        BY <1>2 DEF vars, database
    <2>2. /\ Idle' = Idle /\ Text' = Text /\ Epochs' = Epochs
          /\ SplitText' = SplitText /\ FullRemap' = FullRemap
        BY <2>1 DEF Idle, Finished, Text, Epochs, SplitText, SplitRows, FullRemap, OldRows
    <2>3. RenameInv => RenameInv'
        BY <2>1, <2>2 DEF RenameInv, Untouched, Only
    <2>4. DateInv => DateInv'
        BY <2>1, <2>2 DEF DateInv, Untouched, Only, Beside, Numbers, Cols
    <2>5. EnumInv => EnumInv'
        BY <2>1, <2>2 DEF EnumInv, Untouched, Only, NoTable
    <2>6. DeprecationInv => DeprecationInv'
        BY <2>1, <2>2, DeprecationFrame DEF DeprecationInv, NoTable
    <2> QED
        BY <2>1, <2>3, <2>4, <2>5, <2>6 DEF DriftInv
<1> QED
    BY <1>1, <1>2

\* The invariant says that nothing is lost, and that what a call returned with
\* is the whole migration.
LEMMA DriftMeans == DriftInv => MigratesWithoutLoss
<1> SUFFICES ASSUME DriftInv PROVE ReturnsMigrated /\ NothingLost
    BY DEF MigratesWithoutLoss
<1>1. kind \in Kind /\ original \in [Row -> Value]
    BY DEF DriftInv
<1>2. Finished => pc = "idle"
    BY DEF DriftInv, Finished
<1>3. CASE kind = "column_rename"
    <2>1. RenameInv
        BY <1>3 DEF DriftInv
    <2>2. NothingLost
        BY <1>3, <2>1 DEF NothingLost, RenameInv, Untouched, Only, Text, Cols
    <2>3. Finished => Only("new", Text)
        BY <1>2, <2>1 DEF RenameInv, Idle, Finished
    <2>4. Finished => Migrated
        BY <1>3, <2>3 DEF Migrated, Only, Text, Cols
    <2> QED
        BY <2>2, <2>4 DEF ReturnsMigrated, Finished
<1>4. CASE kind = "date_format"
    <2>1. DateInv
        BY <1>4 DEF DriftInv
    <2>2. NothingLost
        <3>1. CASE Untouched \/ Beside("tmp")
            <4>1. "col" \in Cols /\ table["col"] = Text
                BY <3>1 DEF Untouched, Only, Beside, Cols
            <4> QED
                BY <1>4, <4>1 DEF NothingLost, Text
        <3>2. ASSUME NEW c, Only(c, Numbers(Epochs)) PROVE NothingLost
            <4>1. c \in Cols /\ table[c] = Numbers(Epochs)
                BY <3>2 DEF Only, Cols
            <4>2. /\ table[c].type # "VARCHAR"
                  /\ \A r \in Row : table[c].rows[r] = EpochMs(original[r])
                BY <4>1 DEF Numbers, Epochs
            <4> QED
                BY <1>4, <4>1, <4>2 DEF NothingLost
        <3> QED
            BY <2>1, <3>1, <3>2 DEF DateInv
    <2>3. Finished => Only("col", Numbers(Epochs))
        BY <1>2, <2>1 DEF DateInv, Idle, Finished
    <2>4. Finished => Migrated
        BY <1>4, <2>3 DEF Migrated, Only, Numbers, Epochs, Cols
    <2> QED
        BY <2>2, <2>4 DEF ReturnsMigrated, Finished
<1>5. CASE kind = "enum_rule"
    <2>1. EnumInv
        BY <1>5 DEF DriftInv
    <2>2. NothingLost
        <3>1. CASE Untouched
            BY <1>5, <3>1 DEF NothingLost, Untouched, Only, Text
        <3>2. CASE Only("col", SplitText)
            <4>1. \A r \in Row : table["col"].rows[r]
                                    = IF r \in OldRows THEN NewValue(r) ELSE original[r]
                BY <3>2 DEF Only, SplitText, SplitRows
            <4>2. \A r \in Row : NewValue(r) \in NewValueSet
                BY NewValueIsNew DEF NewValueSet
            <4> QED
                BY <1>5, <4>1, <4>2 DEF NothingLost, OldRows
        <3> QED
            BY <2>1, <3>1, <3>2 DEF EnumInv
    <2>3. Finished => Only("col", SplitText)
        BY <1>2, <2>1 DEF EnumInv, Idle, Finished
    <2>4. Only("col", SplitText) => Migrated
        BY <1>5 DEF Migrated, Only, SplitText, SplitRows, OldRows, NewValue, Cols
    <2> QED
        BY <2>2, <2>3, <2>4 DEF ReturnsMigrated, Finished
<1>6. CASE kind = "field_deprecation"
    <2>1. DeprecationInv
        BY <1>6 DEF DriftInv
    <2>2. CASE Only(FK, Numbers(table[FK].rows)) /\ LeadsBack(table[FK].rows) /\ IsLookup(lookup)
        <3>1. Cols = {FK}
            BY <2>2 DEF Only, Cols
        <3>2. \A i, j \in DOMAIN lookup : lookup[i] = lookup[j] => i = j
            BY <2>2 DEF IsLookup
        <3> QED
            BY <1>6, <2>2, <3>1, <3>2 DEF LeadsBack, ReturnsMigrated, Migrated, NothingLost
    <2>3. CASE Untouched \/ Beside(FK)
        <3>1. "col" \in Cols /\ table["col"].rows = original
            BY <2>3 DEF Untouched, Only, Beside, Text, Cols
        <3>2. ~Finished
            <4>1. ~Only(FK, Numbers(table[FK].rows))
                BY <3>1 DEF Only, Cols, FK
            <4> QED
                BY <1>2, <2>1, <4>1 DEF DeprecationInv, Idle, Finished
        <3> QED
            BY <1>6, <3>1, <3>2 DEF ReturnsMigrated, NothingLost, Finished
    <2> QED
        BY <2>1, <2>2, <2>3 DEF DeprecationInv
<1> QED
    BY <1>1, <1>3, <1>4, <1>5, <1>6 DEF Kind

\* A call that returns leaves the drift fully applied, and no failed call loses a
\* value, whatever the rows, the values and the number of calls (apply_drift).
THEOREM DriftMigratesWithoutLoss == Spec => []MigratesWithoutLoss
<1>1. Spec => []DriftInv
    BY DriftStarts, DriftNext, PTL DEF Spec
<1> QED
    BY <1>1, DriftMeans, PTL

-----------------------------------------------------------------------------
(* The rewrites of 01 to 06 *)

\* Rows() over the values of a function.
BagOf(f) ==
    [row \in {f[d] : d \in DOMAIN f} |-> Cardinality({d \in DOMAIN f : f[d] = row})]

\* Rows that all differ occur once each.
LEMMA OnceEach ==
    ASSUME NEW f, \A d, e \in DOMAIN f : f[d] = f[e] => d = e
    PROVE  BagOf(f) = [row \in {f[d] : d \in DOMAIN f} |-> 1]
<1>1. ASSUME NEW row \in {f[d] : d \in DOMAIN f}
      PROVE  Cardinality({d \in DOMAIN f : f[d] = row}) = 1
    <2>1. PICK e \in DOMAIN f : row = f[e]
        OBVIOUS
    <2>2. {d \in DOMAIN f : f[d] = row} = {e}
        BY <2>1
    <2> QED
        BY <2>2, FS_Singleton
<1> QED
    BY <1>1 DEF BagOf

\* 01: the user's row, and the row of the user's group or of none, are one.
LEMMA Rewrite01 ==
    ASSUME NEW f \in CorrelatedSubquery PROVE Baseline01(f) = Truth01(f)
<1> DEFINE Orders(u) == {o \in Fulfilled(f) : f.user_id[o] = u}
           Row01(u) == <<u, f.tier[u], Cardinality(Orders(u))>>
           base == [u \in Parent |-> Row01(u)]
           keys == {f.user_id[o] : o \in Fulfilled(f)}
           c == {<<u, Orders(u)>> : u \in keys}
           joined == {d \in Parent \X c : d[2][1] = d[1]}
           unmatched == {u \in Parent : \A g \in c : g[1] # u}
           derived == joined \cup {<<u, <<NULL, {}>>>> : u \in unmatched}
           Group(u) == IF u \in keys THEN <<u, Orders(u)>> ELSE <<NULL, {}>>
           grouped == {<<u, Group(u)>> : u \in Parent}
           Row1(d) == <<d[1], f.tier[d[1]], Cardinality(d[2][2])>>
           truth == [d \in derived |-> Row1(d)]
<1>1. Baseline01(f) = BagOf(base)
    BY Zenon DEF Baseline01, Rows, BagOf
<1>2. Truth01(f) = BagOf(truth)
    <2>1. Truth01(f) = Rows(derived, Row1)
        BY DEF Truth01, GroupBy
    <2>2. Rows(derived, Row1) = BagOf(truth)
        <3> HIDE DEF derived, Row1
        <3> QED
            BY Zenon DEF Rows, BagOf
    <2> QED
        BY <2>1, <2>2
<1>3. derived = grouped
    <2>1. unmatched = {u \in Parent : u \notin keys}
        <3>1. \A g \in c : g[1] \in keys
            OBVIOUS
        <3>2. \A u \in keys : <<u, Orders(u)>> \in c /\ <<u, Orders(u)>>[1] = u
            OBVIOUS
        <3> QED
            BY <3>1, <3>2
    <2>2. joined = {<<u, <<u, Orders(u)>>>> : u \in Parent \cap keys}
        OBVIOUS
    <2> HIDE DEF unmatched, joined, keys
    <2> QED
        BY <2>1, <2>2
<1>4. \A u \in Parent : Group(u)[2] = Orders(u)
    OBVIOUS
<1> HIDE DEF Orders, Group, derived
<1>5. \A d \in derived : d[1] \in Parent /\ truth[d] = Row01(d[1]) /\ d = <<d[1], Group(d[1])>>
    BY <1>3, <1>4
<1>6. \A u \in Parent : <<u, Group(u)>> \in derived /\ truth[<<u, Group(u)>>] = Row01(u)
    BY <1>3, <1>4
<1> HIDE DEF truth, Row1
<1>7. \A u, v \in Parent : base[u] = base[v] => u = v
    OBVIOUS
<1>8. \A d, e \in derived : truth[d] = truth[e] => d = e
    BY <1>5
<1>9. {base[u] : u \in Parent} = {truth[d] : d \in derived}
    <2>1. \A u \in Parent : base[u] = Row01(u)
        OBVIOUS
    <2> HIDE DEF base, Row01
    <2>2. \A d \in derived : d[1] \in Parent /\ truth[d] = base[d[1]]
        BY <1>5, <2>1
    <2>3. \A u \in Parent : \E d \in derived : base[u] = truth[d]
        BY <1>6, <2>1
    <2> QED
        BY <2>2, <2>3
<1>10. DOMAIN base = Parent /\ DOMAIN truth = derived
    BY DEF truth
<1>11. BagOf(base) = [row \in {base[u] : u \in Parent} |-> 1]
    BY <1>7, <1>10, OnceEach
<1>12. BagOf(truth) = [row \in {truth[d] : d \in derived} |-> 1]
    <2> HIDE DEF base
    <2> QED
        BY <1>8, <1>10, OnceEach
<1> QED
    BY <1>1, <1>2, <1>9, <1>11, <1>12

\* FoldSet over one element.
LEMMA FoldOne ==
    ASSUME NEW bag, NEW w
    PROVE  FoldSet(LAMBDA r, n : n + bag[r], 0, {w}) = 0 + bag[w]
<1> DEFINE Folds(g) ==
               g = [s \in SUBSET {w} |->
                       IF s = {} THEN 0
                       ELSE LET x == CHOOSE x \in s : TRUE IN g[s \ {x}] + bag[x]]
           g0 == [s \in SUBSET {w} |-> IF s = {} THEN 0 ELSE 0 + bag[w]]
           iter == CHOOSE g : Folds(g)
<1>1. FoldSet(LAMBDA r, n : n + bag[r], 0, {w}) = iter[{w}]
    BY DEF FoldSet, MapThenFoldSet
<1>2. SUBSET {w} = {{}, {w}} /\ (CHOOSE x \in {w} : TRUE) = w /\ {w} \ {w} = {}
    OBVIOUS
<1>3. Folds(g0)
    BY <1>2
<1>4. Folds(iter)
    <2> HIDE DEF Folds, g0
    <2> QED
        BY <1>3
<1> HIDE DEF iter
<1>5. iter[{}] = 0
    BY <1>2, <1>4
<1>6. iter[{w}] = iter[{w} \ {CHOOSE x \in {w} : TRUE}] + bag[CHOOSE x \in {w} : TRUE]
    BY Zenon, <1>2, <1>4
<1>7. iter[{w}] = 0 + bag[w]
    BY Zenon, <1>2, <1>5, <1>6
<1> QED
    BY <1>1, <1>7

\* An item is joined once.
LEMMA FiniteItems ==
    ASSUME NEW f PROVE IsFiniteSet(JoinedItems(f))
<1> DEFINE items == JoinedItems(f)
           first == [d \in items |-> d[1]]
<1>1. first \in [items -> Child]
    BY DEF JoinedItems
<1>2. \A d, e \in items : d[1] = e[1] => d = e
    BY DEF JoinedItems
<1> HIDE DEF items
<1>3. first \in Injection(items, Child)
    BY <1>1, <1>2 DEF Injection, IsInjective
<1> QED
    BY <1>3, FS_Injection, ScenariosAssumption DEF items

\* 02: a wide row has the name of one product, so each narrow row is of one wide
\* one, and the items with the one are the items with the other.
LEMMA Rewrite02 ==
    ASSUME NEW f \in SelectStarJoin PROVE Baseline02(f) = Truth02(f)
<1> DEFINE items == JoinedItems(f)
           Wide(d) == <<f.order_id[d[1]], f.qty[d[1]], d[2], f.name[d[2]], d[3]>>
           Narrow(d) == <<f.order_id[d[1]], f.name[d[2]], f.qty[d[1]]>>
           Outer(w) == <<w[1], w[4], w[2]>>
           bag == Rows(items, Wide)
<1>1. \A d \in items : d[2] \in Parent /\ d[3] = f.order_id[d[1]]
    BY DEF JoinedItems
<1>2. \A p, q \in Parent : f.name[p] = f.name[q] => p = q
    BY DEF SelectStarJoin, UniqueNames
<1>3. \A d, e \in items : Narrow(d) = Narrow(e) <=> Wide(d) = Wide(e)
    BY <1>1, <1>2
<1>4. \A d \in items : Outer(Wide(d)) = Narrow(d)
    OBVIOUS
<1> HIDE DEF items, Wide, Narrow, Outer
<1>5. /\ DOMAIN bag = {Wide(d) : d \in items}
      /\ \A e \in items : bag[Wide(e)] = Cardinality({d \in items : Wide(d) = Wide(e)})
    BY DEF Rows
<1> DEFINE Sum(row) == FoldSet(LAMBDA r, n : n + bag[r], 0, {r \in DOMAIN bag : Outer(r) = row})
           wide == [row \in {Outer(r) : r \in DOMAIN bag} |-> Sum(row)]
           narrow == [row \in {Narrow(d) : d \in items} |->
                         Cardinality({d \in items : Narrow(d) = row})]
<1> HIDE DEF bag
<1>6. Baseline02(f) = wide
    BY DEF Baseline02, Projected, bag, Outer, Wide, items
<1>7. Truth02(f) = narrow
    BY DEF Truth02, Rows, Narrow, items
<1>8. {Outer(r) : r \in DOMAIN bag} = {Narrow(d) : d \in items}
    BY <1>4, <1>5
<1>9. ASSUME NEW e \in items
      PROVE  Sum(Narrow(e)) = Cardinality({d \in items : Narrow(d) = Narrow(e)})
    <2>1. {r \in DOMAIN bag : Outer(r) = Narrow(e)} = {Wide(e)}
        BY <1>3, <1>4, <1>5
    <2>2. {d \in items : Wide(d) = Wide(e)} = {d \in items : Narrow(d) = Narrow(e)}
        BY <1>3
    <2>3. Sum(Narrow(e)) = 0 + bag[Wide(e)]
        BY <2>1, FoldOne
    <2>4. bag[Wide(e)] \in Nat
        <3>1. IsFiniteSet({d \in items : Wide(d) = Wide(e)})
            BY FiniteItems, FS_Subset DEF items
        <3> QED
            BY <1>5, <3>1, FS_CardinalityType
    <2>5. bag[Wide(e)] = Cardinality({d \in items : Narrow(d) = Narrow(e)})
        BY <1>5, <2>2
    <2> HIDE DEF Sum
    <2> QED
        BY <2>3, <2>4, <2>5
<1> HIDE DEF Sum
<1> QED
    BY <1>6, <1>7, <1>8, <1>9

\* 03: the tenant looked up is the one the filter lets through.
LEMMA Rewrite03 ==
    ASSUME NEW f \in CartesianJoin PROVE Baseline03(f) = Truth03(f)
<1>1. f.tenant_id \in [Child -> Parent] /\ Parent \subseteq Nat
    BY ScenariosAssumption DEF CartesianJoin, ZipfianChoices
<1>2. \A e \in Child : f.tenant_id[e] + 0 = f.tenant_id[e]
    BY <1>1
<1>3. {d \in Child \X Parent : d[2] = f.tenant_id[d[1]] + 0 /\ d[1] \in Severe(f)}
        = {<<e, f.tenant_id[e]>> : e \in Severe(f)}
    BY <1>1, <1>2 DEF Severe
<1> QED
    BY <1>3 DEF Baseline03, Truth03

\* 04: one row for each key, as the key is in the row.
LEMMA Rewrite04 ==
    ASSUME NEW f PROVE Baseline04(f) = Truth04(f)
<1> DEFINE Key(v) == <<f.session_id[v], f.path[v]>>
           groups == GroupBy(Child, Key)
           truth == [g \in groups |-> <<g[1], Cardinality(g[2])>>]
<1>1. \A g, h \in groups : g[1] = h[1] => g = h
    BY DEF GroupBy
<1> HIDE DEF groups
<1>2. Truth04(f) = BagOf(truth)
    BY Zenon DEF Truth04, Rows, BagOf, groups
<1>3. BagOf(truth) = [row \in {truth[g] : g \in DOMAIN truth} |-> 1]
    BY <1>1, OnceEach
<1> QED
    BY <1>2, <1>3 DEF Baseline04, Distinct

\* 05: a commenter's name is in the join once, and DISTINCT counts it once.
LEMMA Rewrite05 ==
    ASSUME NEW f \in NestedSubquery PROVE Baseline05(f) = Truth05(f)
<1> DEFINE answered == {c \in Child : f.article_id[c] \in Published(f)}
           commenters == Parent \cap {f.author_id[c] : c \in answered}
           base == [a \in commenters |-> f.display_name[a]]
           pairs == {d \in Parent \X Child :
                         f.author_id[d[2]] = d[1] /\ f.article_id[d[2]] \in Published(f)}
           names == {f.display_name[d[1]] : d \in pairs}
<1>1. \A a, b \in Parent : f.display_name[a] = f.display_name[b] => a = b
    BY DEF NestedSubquery, UniqueNames
<1>2. Baseline05(f) = BagOf(base)
    BY Zenon DEF Baseline05, Rows, BagOf
<1>3. BagOf(base) = [row \in {base[a] : a \in DOMAIN base} |-> 1]
    <2>1. \A a, b \in DOMAIN base : base[a] = base[b] => a = b
        BY <1>1
    <2> HIDE DEF base
    <2> QED
        BY <2>1, OnceEach
<1>4. Truth05(f) = [row \in names |-> 1]
    BY DEF Truth05, Distinct, Rows
<1>5. {base[a] : a \in DOMAIN base} = names
    <2>1. \A d \in pairs : d[1] \in commenters
        OBVIOUS
    <2>2. \A a \in commenters : \E d \in pairs : d[1] = a
        <3> SUFFICES ASSUME NEW a \in commenters PROVE \E d \in pairs : d[1] = a
            OBVIOUS
        <3>1. PICK c \in answered : f.author_id[c] = a
            OBVIOUS
        <3>2. <<a, c>> \in pairs
            BY <3>1
        <3> QED
            BY <3>2
    <2> HIDE DEF commenters, pairs
    <2> QED
        BY <2>1, <2>2
<1> QED
    BY <1>2, <1>3, <1>4, <1>5

\* 06: to leave a status out before grouping or after is the same.
LEMMA Rewrite06 ==
    ASSUME NEW f PROVE Baseline06(f) = Truth06(f)
<1> DEFINE Key(o) == <<f.tenant_id[o], f.status[o]>>
           after == {g \in GroupBy(Child, Key) : g[1][2] = "fulfilled"}
           first == GroupBy(Fulfilled(f), Key)
<1>1. \A k : k[2] = "fulfilled" =>
          {o \in Child : Key(o) = k} = {o \in Fulfilled(f) : Key(o) = k}
    BY DEF Fulfilled
<1>2. {k \in {Key(o) : o \in Child} : k[2] = "fulfilled"} = {Key(o) : o \in Fulfilled(f)}
    BY DEF Fulfilled
<1>3. after = first
    <2> DEFINE All(k) == {o \in Child : Key(o) = k}
               Some(k) == {o \in Fulfilled(f) : Key(o) = k}
               keys == {Key(o) : o \in Child}
    <2>1. after = {<<k, All(k)>> : k \in {k \in keys : k[2] = "fulfilled"}}
        BY DEF GroupBy
    <2>2. first = {<<k, Some(k)>> : k \in {k \in keys : k[2] = "fulfilled"}}
        BY <1>2 DEF GroupBy
    <2>3. \A k \in {k \in keys : k[2] = "fulfilled"} : All(k) = Some(k)
        BY <1>1
    <2> HIDE DEF All, Some, after, first, keys
    <2> QED
        BY <2>1, <2>2, <2>3
<1>4. {g \in GroupBy(Child, Key) : g[1][2] = "fulfilled" /\ TotalCents(f, g[2]) >= HAVING_FLOOR}
        = {g \in first : TRUE /\ TotalCents(f, g[2]) >= HAVING_FLOOR}
    BY <1>3
<1> QED
    BY Zenon, <1>4 DEF Baseline06, Truth06, Totals
\* Whatever a builder has drawn, the two queries of its scenario agree on it.
LEMMA RewritesAgree ==
    ASSUME NEW f \in StaticFixture PROVE StaticBaseline(f) = StaticTruth(f)
<1>1. CASE f \in CorrelatedSubquery
    <2>1. f.id = 1
        BY <1>1 DEF CorrelatedSubquery
    <2> QED
        BY <1>1, <2>1, Rewrite01 DEF StaticBaseline, StaticTruth
<1>2. CASE f \in SelectStarJoin
    <2>1. f.id = 2
        BY <1>2 DEF SelectStarJoin
    <2> QED
        BY <1>2, <2>1, Rewrite02 DEF StaticBaseline, StaticTruth
<1>3. CASE f \in CartesianJoin
    <2>1. f.id = 3
        BY <1>3 DEF CartesianJoin
    <2> QED
        BY <1>3, <2>1, Rewrite03 DEF StaticBaseline, StaticTruth
<1>4. CASE f \in DistinctGroupBy
    <2>1. f.id = 4
        BY <1>4 DEF DistinctGroupBy
    <2> QED
        BY <1>4, <2>1, Rewrite04 DEF StaticBaseline, StaticTruth
<1>5. CASE f \in NestedSubquery
    <2>1. f.id = 5
        BY <1>5 DEF NestedSubquery
    <2> QED
        BY <1>5, <2>1, Rewrite05 DEF StaticBaseline, StaticTruth
<1>6. CASE f \in HavingAsWhere
    <2>1. f.id = 6
        BY <1>6 DEF HavingAsWhere
    <2> QED
        BY <1>6, <2>1, Rewrite06 DEF StaticBaseline, StaticTruth
<1> QED
    BY <1>1, <1>2, <1>3, <1>4, <1>5, <1>6 DEF StaticFixture

-----------------------------------------------------------------------------
(* The scenarios that drift *)

\* The fixture stays what it was, and a drift is one of Drift.
FixtureInv == fixture \in StaticFixture \cup {NoFixture}

LEMMA ScenarioStarts == ScenariosInit => Init /\ FixtureInv
BY DEF ScenariosInit, DriftInit, StaticInit, FixtureInv

LEMMA ScenarioSteps == [ScenariosNext]_scenarioVars => [Next]_vars /\ UNCHANGED fixture
BY DEF ScenariosNext, scenarioVars

LEMMA ScenariosAreKept == ScenariosSpec => [](DriftInv /\ FixtureInv)
<1>1. ScenariosInit => DriftInv /\ FixtureInv
    BY ScenarioStarts, DriftStarts
<1>2. DriftInv /\ FixtureInv /\ [ScenariosNext]_scenarioVars => (DriftInv /\ FixtureInv)'
    <2> SUFFICES ASSUME DriftInv, FixtureInv, [ScenariosNext]_scenarioVars
                 PROVE  DriftInv' /\ FixtureInv'
        OBVIOUS
    <2>1. [Next]_vars /\ UNCHANGED fixture
        BY ScenarioSteps
    <2>2. DriftInv'
        BY <2>1, DriftNext
    <2>3. StaticFixture' = StaticFixture
        OBVIOUS
    <2> QED
        BY <2>1, <2>2 DEF FixtureInv
<1> QED
    BY <1>1, <1>2, PTL DEF ScenariosSpec

\* On every database a builder of 01 to 06 may draw, of any size, the baseline and
\* the ground truth of the scenario's SPEC give the same bag of rows.
THEOREM RewritesAreEquivalent == ScenariosSpec => []RewriteEquivalent
<1>1. FixtureInv => RewriteEquivalent
    BY RewritesAgree DEF FixtureInv, RewriteEquivalent, DriftScenario
<1> QED
    BY <1>1, ScenariosAreKept, PTL

\* The names moved to the lookup table: there is a row, and its name is no NULL.
LEMMA LookupSurvives ==
    ASSUME kind = "field_deprecation", Drifted PROVE Created(lookup)
<1>1. 0 \in Row
    BY DriftAssumption DEF Row
<1>2. original[0] # NULL
    BY <1>1 DEF Drifted, DriftFixture, FieldDeprecation, ZipfianChoices, Drawn
<1>3. \E i \in DOMAIN lookup : lookup[i] = original[0]
    BY <1>1, <1>2 DEF Drifted, Migrated
<1> QED
    BY <1>2, <1>3 DEF Created, NoTable

\* Where the operation has migrated the column, a reading of it before the drift
\* is what the truth reads now, and the baseline finds nothing.
LEMMA TruthSurvives ==
    ASSUME kind \in Kind, Drifted
    PROVE  /\ TruthNow = BaselineOver(original, "VARCHAR")
           /\ BaselineNow = IF kind = "enum_rule" THEN Selected({}) ELSE Raises
<1>1. Migrated /\ original \in DriftFixture
    BY DEF Drifted
<1>2. CASE kind = "column_rename"
    <2>1. Cols = {"new"} /\ table["new"].rows = original
        BY <1>1, <1>2 DEF Migrated
    <2>2. TruthNow = Groups(original) /\ BaselineNow = Raises
        BY <1>2, <2>1 DEF TruthNow, Truth07, BaselineNow, ColumnOrRaises
    <2>3. BaselineOver(original, "VARCHAR") = Groups(original)
        BY <1>2 DEF BaselineOver, Baseline07
    <2> QED
        BY <1>2, <2>2, <2>3
<1>3. CASE kind = "date_format"
    <2> DEFINE rows == table["col"].rows
    <2>1. /\ Cols = {"col"} /\ table["col"].type = "BIGINT"
          /\ \A r \in Row : rows[r] = EpochMs(original[r])
        BY <1>1, <1>3 DEF Migrated
    <2>2. \A r \in Row : original[r] \in Nat /\ original[r] # NULL
        BY <1>1, <1>3, DriftAssumption DEF DriftFixture, DateFormat, ZipfianChoices, Drawn
    <2>3. BaselineNow = Raises
        BY <1>3, <2>1 DEF BaselineNow, BaselineOver, Baseline08, ColumnOrRaises
    <2>4. TruthNow = InWindow(rows, EpochMs(Anchor), EpochMs(AnchorNext))
        BY <1>3, <2>1 DEF TruthNow, Truth08, AnchorMs
    <2>5. \A r \in Row : /\ rows[r] # NULL
                         /\ EpochMs(Anchor) <= rows[r] <=> Anchor <= original[r]
                         /\ rows[r] < EpochMs(AnchorNext) <=> original[r] < AnchorNext
        BY <2>1, <2>2 DEF EpochMs, Anchor, AnchorNext, NULL
    <2>6. InWindow(rows, EpochMs(Anchor), EpochMs(AnchorNext))
              = InWindow(original, Anchor, AnchorNext)
        <3> HIDE DEF rows
        <3> QED
            BY <2>2, <2>5 DEF InWindow
    <2>7. BaselineOver(original, "VARCHAR") = InWindow(original, Anchor, AnchorNext)
        BY <1>3 DEF BaselineOver, Baseline08
    <2> QED
        BY <1>3, <2>3, <2>4, <2>6, <2>7
<1>4. CASE kind = "enum_rule"
    <2> DEFINE rows == table["col"].rows
    <2>1. /\ Cols = {"col"}
          /\ \A r \in Row : IF original[r] # OldValue THEN rows[r] = original[r]
                            ELSE rows[r] = NewValue(r)
        BY <1>1, <1>4 DEF Migrated, NewValue
    <2>2. \A r \in Row : NewValue(r) \in NewValueSet
        BY NewValueIsNew DEF NewValueSet
    <2>3. \A v \in NewValueSet : v \notin Value
        BY DriftAssumption DEF NewValueSet
    <2>4. OldValue \in Value /\ \A r \in Row : original[r] \in Value
        BY <1>1, <1>4, DriftAssumption DEF DriftFixture, EnumRule, CategoricalChoices, Drawn
    <2>5. \A r \in Row : /\ rows[r] \in NewValueSet <=> original[r] \in {OldValue}
                         /\ rows[r] \notin {OldValue}
        BY <2>1, <2>2, <2>3, <2>4
    <2>6. TruthNow = Labelled(rows, NewValueSet) /\ BaselineNow = Labelled(rows, {OldValue})
        BY <1>4, <2>1 DEF TruthNow, Truth09, BaselineNow, BaselineOver, Baseline09, ColumnOrRaises
    <2>7. /\ Labelled(rows, NewValueSet) = Labelled(original, {OldValue})
          /\ Labelled(rows, {OldValue}) = Selected({})
        <3> HIDE DEF rows
        <3>1. /\ {r \in Row : rows[r] \in NewValueSet} = {r \in Row : original[r] \in {OldValue}}
              /\ {r \in Row : rows[r] \in {OldValue}} = {}
            BY <2>5
        <3> QED
            BY <3>1 DEF Labelled
    <2>8. BaselineOver(original, "VARCHAR") = Labelled(original, {OldValue})
        BY <1>4 DEF BaselineOver, Baseline09
    <2> QED
        BY <1>4, <2>6, <2>7, <2>8
<1>5. CASE kind = "field_deprecation"
    <2> DEFINE fk == table[FK].rows
    <2>1. Cols = {FK} /\ \A r \in Row : original[r] # NULL => fk[r] \in DOMAIN lookup
                                                            /\ lookup[fk[r]] = original[r]
        BY <1>1, <1>5 DEF Migrated
    <2>2. \A r \in Row : original[r] # NULL
        BY <1>1, <1>5 DEF DriftFixture, FieldDeprecation, ZipfianChoices, Drawn
    <2>3. Created(lookup)
        BY <1>5, LookupSurvives
    <2>4. "col" \notin Cols /\ FK \in Cols
        BY <2>1 DEF FK
    <2>5. TruthNow = GroupBy({r \in Row : fk[r] \in DOMAIN lookup}, LAMBDA r : lookup[fk[r]])
        BY <1>5, <2>3, <2>4 DEF TruthNow, Truth10
    <2>6. {r \in Row : fk[r] \in DOMAIN lookup} = Row
        BY <2>1, <2>2
    <2>7. GroupBy(Row, LAMBDA r : lookup[fk[r]]) = Groups(original)
        <3> HIDE DEF fk
        <3> DEFINE Key(r) == lookup[fk[r]]
        <3>1. \A r \in Row : Key(r) = original[r]
            BY <2>1, <2>2
        <3> HIDE DEF Key
        <3>2. GroupBy(Row, Key) = GroupBy(Row, LAMBDA r : original[r])
            <4>1. {Key(r) : r \in Row} = {original[r] : r \in Row}
                BY <3>1
            <4>2. \A k : {r \in Row : Key(r) = k} = {r \in Row : original[r] = k}
                BY <3>1
            <4> QED
                BY <4>1, <4>2 DEF GroupBy
        <3> QED
            BY <3>2 DEF Groups, Key
    <2>8. BaselineOver(original, "VARCHAR") = Groups(original) /\ BaselineNow = Raises
        BY <1>5, <2>4 DEF BaselineOver, Baseline10, BaselineNow, ColumnOrRaises
    <2> QED
        BY <1>5, <2>5, <2>6, <2>7, <2>8
<1> QED
    BY <1>2, <1>3, <1>4, <1>5 DEF Kind

\* After any drift of any rows (apply_drift, however many calls it took), the
\* post-drift ground truth answers what the pre-drift one did before, and the
\* baseline raises or, for the enum rule, finds nothing.
THEOREM TruthsSurvive == ScenariosSpec => []OnlyTruthSurvivesDrift
<1>1. DriftInv => OnlyTruthSurvivesDrift
    BY TruthSurvives DEF DriftInv, OnlyTruthSurvivesDrift
<1> QED
    BY <1>1, ScenariosAreKept, PTL

\* Each SPEC's markers against DriftAdapt.
LEMMA MarkersPay ==
    ASSUME kind \in Kind PROVE MarkersTellAdaptation
<1>1. CASE kind = "column_rename"
    BY <1>1 DEF MarkersTellAdaptation, DriftScore, Markers, Markers07, Reward!DriftAdapt
<1>2. CASE kind = "date_format"
    BY <1>2 DEF MarkersTellAdaptation, DriftScore, Markers, Markers08, Reward!DriftAdapt
<1>3. CASE kind = "enum_rule"
    BY <1>3 DEF MarkersTellAdaptation, DriftScore, Markers, Markers09, Reward!DriftAdapt
<1>4. CASE kind = "field_deprecation"
    BY <1>4 DEF MarkersTellAdaptation, DriftScore, Markers, Markers10, Reward!DriftAdapt
<1> QED
    BY <1>1, <1>2, <1>3, <1>4 DEF Kind

\* The marker sets of SPEC pay the ground truth and punish the baseline where it
\* is wrong, whatever the rows are (DriftAdapt of reward.py).
THEOREM MarkersTell == ScenariosSpec => []MarkersTellAdaptation
<1>1. DriftInv => MarkersTellAdaptation
    BY MarkersPay DEF DriftInv
<1> QED
    BY <1>1, ScenariosAreKept, PTL
\* author_changelog and apply_field_deprecation build one name.
LEMMA FkIsNamed == kind = "field_deprecation" => FkColumn(Payload) = FK
<1> SUFFICES ASSUME kind = "field_deprecation" PROVE FkColumn(Payload) = FK
    OBVIOUS
<1>1. Payload.table = "users" /\ Payload.id = "id"
    BY DEF Payload
<1> QED
    BY Zenon, <1>1, FkNameAssumption DEF FkColumn

\* Before the drift the third hint is no answer.
LEMMA HintIsNew ==
    ASSUME kind \in Kind, original \in [Row -> Value], Undrifted, Populated
    PROVE  HintNow # BaselineNow
<1>1. Cols = {"col"} /\ table["col"].type = "VARCHAR" /\ table["col"].rows = original
    BY DEF Undrifted
<1>2. CASE kind = "column_rename"
    <2>1. HintNow = Raises /\ BaselineNow = Groups(original)
        BY <1>1, <1>2 DEF HintNow, BaselineNow, BaselineOver, Baseline07, ColumnOrRaises
    <2> QED
        BY <2>1, RaisesAssumption
<1>3. CASE kind = "date_format"
    <2> DEFINE day == {r \in Row : /\ original[r] # NULL
                                  /\ Anchor <= original[r] /\ original[r] < AnchorNext}
    <2>1. HintNow = Raises /\ BaselineNow = Selected(day)
        BY <1>1, <1>3
        DEF HintNow, BaselineNow, BaselineOver, Baseline08, ColumnOrRaises, InWindow
    <2>2. day \in SUBSET Row
        OBVIOUS
    <2> HIDE DEF day
    <2> QED
        BY <2>1, <2>2, RaisesAssumption
<1>4. CASE kind = "enum_rule"
    <2> DEFINE old == {r \in Row : original[r] \in {OldValue}}
               split == {r \in Row : original[r] \in NewValueSet}
    <2>1. HintNow = Selected(split) /\ BaselineNow = Selected(old)
        BY <1>1, <1>4 DEF HintNow, BaselineNow, BaselineOver, Baseline09, ColumnOrRaises, Labelled
    <2>2. PICK r \in Row : original[r] = OldValue
        BY <1>4 DEF Populated
    <2>3. OldValue \notin NewValueSet
        BY DriftAssumption DEF NewValueSet
    <2>4. old # split
        BY <2>2, <2>3
    <2>5. \A p, q : Selected(p) = Selected(q) => p = q
        <3> TAKE p, q
        <3> HAVE Selected(p) = Selected(q)
        <3>1. <<"selected", p>> = <<"selected", q>>
            BY Zenon DEF Selected
        <3>2. <<"selected", p>>[2] = <<"selected", q>>[2]
            BY Zenon, <3>1
        <3> QED
            BY <3>2
    <2> HIDE DEF old, split
    <2> QED
        BY <2>1, <2>4, <2>5
<1>5. CASE kind = "field_deprecation"
    <2>1. HintNow = Raises /\ BaselineNow = Groups(original)
        BY <1>1, <1>5 DEF HintNow, BaselineNow, BaselineOver, Baseline10, ColumnOrRaises, FK
    <2> QED
        BY <2>1, RaisesAssumption
<1> QED
    BY <1>2, <1>3, <1>4, <1>5 DEF Kind

\* Once the drift is applied, the third hint is the truth, and scores as such.
LEMMA HintIsTruth ==
    ASSUME kind \in Kind, Drifted PROVE DriftScore(HintNow, Hint(3)) = 500
<1>1. HintNow = TruthNow
    <2>1. CASE kind = "date_format"
        BY <2>1 DEF HintNow, TruthNow, Truth08, AnchorMs, HintUntil
    <2>2. CASE kind # "date_format"
        BY <2>2 DEF HintNow, TruthNow, Truth07, Truth09, Truth10, Kind
    <2> QED
        BY <2>1, <2>2
<1>2. Hint(3) = HINTS[3]
    BY DEF Hint
<1> DEFINE hint == HINTS[3]
<1>3. Markers.post_ids \cap hint # {} \/ Markers.post_ids = {}
    BY DEF Markers, Markers07, Markers08, Markers09, Markers10, HINTS, Kind
<1>4. Markers.pre_ids \cap hint = {}
    BY DEF Markers, Markers07, Markers08, Markers09, Markers10, HINTS, Kind
<1> HIDE DEF hint
<1> QED
    BY <1>1, <1>2, <1>3, <1>4 DEF DriftScore, Reward!DriftAdapt, hint

\* What the tables may be called after the drift.
LEMMA MeaningsNow ==
    ASSUME kind \in Kind, Drifted
    PROVE  /\ Changelog.gone \cap Meaningful = {}
           /\ Populated => Changelog.use \cup UNION {Hint(n) : n \in 1..4} \subseteq Meaningful
<1>1. Migrated /\ original \in DriftFixture
    BY DEF Drifted
<1>2. UNION {Hint(n) : n \in 1..4} = HINTS[1] \cup HINTS[2] \cup HINTS[3]
    BY DEF Hint
<1>3. CASE kind = "column_rename"
    <2>1. Cols = {"new"}
        BY <1>1, <1>3 DEF Migrated
    <2>2. Changelog = [gone |-> {"user_id"}, use |-> {"account_id"}]
        BY <1>3 DEF Changelog, Payload
    <2>3. HINTS[1] \cup HINTS[2] \cup HINTS[3] = {"account_id", "amount"}
        BY <1>3 DEF HINTS
    <2>4. {NameOf(c) : c \in Cols} = {"account_id"}
        BY <2>1 DEF NameOf
    <2> QED
        BY <1>2, <1>3, <2>2, <2>3, <2>4 DEF Meaningful, Others
<1>4. CASE kind = "date_format"
    <2>1. Cols = {"col"} /\ table["col"].type = "BIGINT"
        BY <1>1, <1>4 DEF Migrated
    <2>2. Changelog = [gone |-> {"iso anchor"}, use |-> {"ts", "epoch bound"}]
        BY <1>4 DEF Changelog, Payload
    <2>3. HINTS[1] \cup HINTS[2] \cup HINTS[3] = {"ts", "kind", "epoch bound"}
        BY <1>4 DEF HINTS
    <2>4. {NameOf(c) : c \in Cols} = {"ts"}
        BY <1>4, <2>1 DEF NameOf
    <2> QED
        BY <1>2, <1>4, <2>1, <2>2, <2>3, <2>4 DEF Meaningful, Others
<1>5. CASE kind = "enum_rule"
    <2> DEFINE labels == UNION {LabelsFor(v) : v \in Cells("col")}
    <2>1. /\ Cols = {"col"}
          /\ \A r \in Row : IF original[r] # OldValue THEN table["col"].rows[r] = original[r]
                            ELSE table["col"].rows[r] = NewValue(r)
        BY <1>1, <1>5 DEF Migrated, NewValue
    <2>2. \A r \in Row : NewValue(r) \in NewValueSet
        BY NewValueIsNew DEF NewValueSet
    <2>3. OldValue \notin NewValueSet
        BY DriftAssumption DEF NewValueSet
    <2>4. OldValue \notin Cells("col")
        BY <2>1, <2>2, <2>3 DEF Cells
    <2>5. "active" \notin labels
        BY <2>4 DEF LabelsFor
    <2>6. Populated => {"ACTIVE", "ACTIVE_V2"} \subseteq labels
        <3> SUFFICES ASSUME Populated PROVE {"ACTIVE", "ACTIVE_V2"} \subseteq labels
            OBVIOUS
        <3>1. PICK r \in Row : original[r] = OldValue
            BY <1>5 DEF Populated
        <3>2. NewValue(r) \in Cells("col")
            BY <2>1, <3>1 DEF Cells
        <3>3. LabelsFor(NewValue(r)) = {"ACTIVE", "ACTIVE_V2"}
            BY <2>2, <2>3 DEF LabelsFor
        <3> QED
            BY <3>2, <3>3
    <2>7. Changelog = [gone |-> {"active"}, use |-> {"ACTIVE", "ACTIVE_V2"}]
        BY <1>5 DEF Changelog, Payload
    <2>8. HINTS[1] \cup HINTS[2] \cup HINTS[3] = {"tier", "status", "ACTIVE", "ACTIVE_V2"}
        BY <1>5 DEF HINTS
    <2>9. {NameOf(c) : c \in Cols} = {"status"}
        BY <1>5, <2>1 DEF NameOf
    <2> HIDE DEF labels
    <2>10. Meaningful = {"status"} \cup {"id", "tier"} \cup labels
                        \cup (IF Created(lookup) THEN {"users", "full_name"} ELSE {})
        BY <1>5, <2>9 DEF Meaningful, Others, labels
    <2> QED
        BY <1>2, <2>5, <2>6, <2>7, <2>8, <2>10
<1>6. CASE kind = "field_deprecation"
    <2>1. Cols = {FK}
        BY <1>1, <1>6 DEF Migrated
    <2>2. Created(lookup)
        BY <1>6, LookupSurvives
    <2>3. Changelog = [gone |-> {"author_name"}, use |-> {"users_id", "users", "id", "full_name"}]
        BY <1>6, FkIsNamed DEF Changelog, Payload, FK
    <2>4. HINTS[1] \cup HINTS[2] \cup HINTS[3] = {"users_id", "users", "full_name", "id"}
        BY <1>6 DEF HINTS
    <2>5. {NameOf(c) : c \in Cols} = {"users_id"}
        BY <2>1 DEF NameOf, FK
    <2> QED
        BY <1>2, <1>6, <2>2, <2>3, <2>4, <2>5 DEF Meaningful, Others
<1> QED
    BY <1>3, <1>4, <1>5, <1>6 DEF Kind

\* What is written by hand names the same columns and literals.
LEMMA NamesAgree ==
    ASSUME kind \in Kind
    PROVE  /\ InitialSynopsis \cap Markers.post_ids = {}
           /\ Markers.post_ids \subseteq Changelog.use
           /\ Markers.pre_ids \subseteq Changelog.gone
<1>1. CASE kind = "column_rename"
    BY <1>1 DEF InitialSynopsis, Markers, Markers07, Changelog, Payload
<1>2. CASE kind = "date_format"
    BY <1>2 DEF InitialSynopsis, Markers, Markers08, Changelog, Payload
<1>3. CASE kind = "enum_rule"
    BY <1>3 DEF InitialSynopsis, Markers, Markers09, Changelog, Payload
<1>4. CASE kind = "field_deprecation"
    BY <1>4, FkIsNamed DEF InitialSynopsis, Markers, Markers10, Changelog, Payload, FK
<1> QED
    BY <1>1, <1>2, <1>3, <1>4 DEF Kind

\* The changelog, the hints and the synopsis tell the truth of every database the
\* builders may draw and a drift may leave (author_changelog, _HINTS).
THEOREM GuidanceStaysTrue == ScenariosSpec => []GuidanceIsTrue
<1>1. DriftInv /\ FixtureInv => GuidanceIsTrue
    <2> SUFFICES ASSUME DriftInv, FixtureInv PROVE GuidanceIsTrue
        OBVIOUS
    <2>1. kind \in Kind /\ original \in [Row -> Value]
        BY DEF DriftInv
    <2>2. ~DriftScenario => StaticHint(fixture) = StaticBaseline(fixture)
        BY RewritesAgree DEF FixtureInv, DriftScenario, StaticHint
    <2>3. DriftScenario /\ Undrifted /\ Populated => HintNow # BaselineNow
        BY <2>1, HintIsNew
    <2>4. Drifted => DriftScore(HintNow, Hint(3)) = 500
        BY <2>1, HintIsTruth
    <2> QED
        BY <2>1, <2>2, <2>3, <2>4, NamesAgree, MeaningsNow DEF GuidanceIsTrue
<1> QED
    BY <1>1, ScenariosAreKept, PTL
=============================================================================
