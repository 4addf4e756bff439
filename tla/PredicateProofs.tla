-------------------------- MODULE PredicateProofs --------------------------
(***************************************************************************)
(* What the rewriters and the SQL emitter keep, for every filter and every *)
(* table.  Nodes never change once they are built, so it is enough to say  *)
(* of each node how its meaning and its SQL follow from those of its       *)
(* operands; a rewrite is then a comparison of two nodes of one heap.      *)
(***************************************************************************)
EXTENDS PredicateCompiler, NaturalsInduction, WellFoundedInduction, TLAPS

-----------------------------------------------------------------------------
(* Three-valued logic *)

\* A set of natural numbers has a least element.
LEMMA LeastNatural ==
    ASSUME NEW T \in SUBSET Nat, T # {}
    PROVE  \E x \in T : \A y \in T : x <= y
<1> DEFINE R == OpToRel(<, Nat)
<1>1. IsWellFoundedOn(R, Nat)
  BY NatLessThanWellFounded
<1>2. \A x, y \in Nat : <<y, x>> \in R <=> y < x
  BY DEF OpToRel
<1> HIDE DEF R
<1>3. PICK x \in T : \A y \in T : ~(<<y, x>> \in R)
  BY <1>1, WFMin
<1>4. x \in Nat /\ \A y \in T : y \in Nat /\ ~(y < x)
  BY <1>2, <1>3
<1> QED
  BY <1>3, <1>4

\* The first predicate that holds decides the value.
LEMMA WhenFirst ==
  ASSUME NEW v, NEW k \in Predicates(v), v[k] = "true", DOMAIN v \subseteq Nat,
         \A i \in Predicates(v) : v[i] = "true" => k <= i
  PROVE  WhenValue(v) = v[k + 1]
<1> DEFINE holds == {i \in Predicates(v) : v[i] = "true"}
           first == CHOOSE i \in holds : \A j \in holds : i <= j
<1>1. k \in holds /\ \A j \in holds : k <= j
  OBVIOUS
<1>2. first \in holds /\ \A j \in holds : first <= j
  BY <1>1
<1>3. first = k
  <2>1. first <= k /\ k <= first
    BY <1>1, <1>2
  <2>2. first \in Nat /\ k \in Nat
    BY <1>2 DEF Predicates
  <2> QED
    BY <2>1, <2>2
<1>4. WhenValue(v) = v[1 + first]
  BY <1>1 DEF WhenValue
<1>5. 1 + first = k + 1
  BY <1>2, <1>3 DEF Predicates
<1> QED
  BY <1>4, <1>5

LEMMA WhenNone ==
  ASSUME NEW v, \A i \in Predicates(v) : v[i] # "true"
  PROVE  WhenValue(v) = v[Len(v)]
<1>1. {i \in Predicates(v) : v[i] = "true"} = {}
  OBVIOUS
<1> QED
  BY <1>1 DEF WhenValue

\* Either some predicate decides, or none does.
LEMMA WhenCases ==
  ASSUME NEW v, NEW S, v \in Seq(S)
  PROVE  \/ \A i \in Predicates(v) : v[i] # "true"
         \/ \E k \in Predicates(v) : /\ v[k] = "true"
                                     /\ \A i \in Predicates(v) : v[i] = "true" => k <= i
<1> DEFINE holds == {i \in Predicates(v) : v[i] = "true"}
<1>1. CASE holds = {}
  BY <1>1
<1>2. CASE holds # {}
  <2>1. holds \subseteq Nat
    BY DEF Predicates
  <2>2. \E k \in holds : \A i \in holds : k <= i
    BY <1>2, <2>1, LeastNatural
  <2> QED
    BY <2>2
<1> QED
  BY <1>1, <1>2

\* The value of an operator is a truth value.
LEMMA WhenTyped ==
  ASSUME NEW v \in Seq(TruthValues), Len(v) >= 3, Len(v) % 2 = 1
  PROVE  WhenValue(v) \in TruthValues
<1>1. CASE \A i \in Predicates(v) : v[i] # "true"
  <2>1. Len(v) \in DOMAIN v
    OBVIOUS
  <2> QED
    BY <1>1, <2>1, WhenNone
<1>2. ASSUME NEW k \in Predicates(v), v[k] = "true",
             \A i \in Predicates(v) : v[i] = "true" => k <= i
      PROVE  WhenValue(v) \in TruthValues
  <2>1. DOMAIN v \subseteq Nat
    OBVIOUS
  <2>2. WhenValue(v) = v[k + 1]
    BY <1>2, <2>1, WhenFirst
  <2>3. k + 1 \in DOMAIN v
    BY <1>2 DEF Predicates
  <2> QED
    BY <2>2, <2>3
<1> QED
  BY <1>1, <1>2, WhenCases

LEMMA FirstGivenTyped ==
  ASSUME NEW v \in Seq(TruthValues)
  PROVE  FirstGiven(v) \in TruthValues
<1> DEFINE given == {i \in DOMAIN v : v[i] # "null"}
<1>1. CASE given = {}
  BY <1>1 DEF FirstGiven, TruthValues
<1>2. CASE given # {}
  <2>1. given \in SUBSET Nat
    OBVIOUS
  <2>2. \E i \in given : \A j \in given : i <= j
    BY <1>2, <2>1, LeastNatural
  <2>3. (CHOOSE i \in given : \A j \in given : i <= j) \in given
    BY <2>2
  <2>4. FirstGiven(v) = v[CHOOSE i \in given : \A j \in given : i <= j]
    BY <1>2 DEF FirstGiven
  <2> QED
    BY <2>3, <2>4
<1> QED
  BY <1>1, <1>2

LEMMA ValueTyped ==
  ASSUME NEW n, NEW k, NEW v \in Seq(TruthValues), NEW row \in Rows,
         IsNode(n, k, scan.table), Len(v) = Len(n.args)
  PROVE  Value(n.op, n.val, v, row) \in TruthValues
<1>1. /\ Arity(n.op, Len(v))
      /\ n.op = "BoolLiteral" => n.val \in {"true", "false"}
      /\ n.op \in {"Column", "Unsupported"} => scan.table[row][n.val] \in TruthValues
  BY DEF IsNode, Rows
<1>2. CASE n.op \in {"Column", "Unsupported", "BoolLiteral", "NullLiteral"}
  BY <1>1, <1>2 DEF Value, TruthValues
<1>3. CASE n.op \in {"Not", "And", "Or", "IsNull", "IsNotNull"}
  BY <1>3 DEF Value, TruthValues, NotValue, AndValue, OrValue, Truth
<1>4. CASE n.op \in {"Coalesce", "FillNull"}
  BY <1>4, FirstGivenTyped DEF Value
<1>5. CASE n.op \in {"Ternary", "When"}
  <2>1. Len(v) = 3 \/ (Len(v) >= 3 /\ Len(v) % 2 = 1)
    BY <1>1, <1>5 DEF Arity
  <2>2. 3 % 2 = 1
    OBVIOUS
  <2>3. Len(v) >= 3 /\ Len(v) % 2 = 1
    <3>1. CASE Len(v) = 3
      BY <2>2, <3>1
    <3> QED
      BY <2>1, <3>1
  <2> QED
    BY <1>5, <2>3, WhenTyped DEF Value
<1> QED
  BY <1>1, <1>2, <1>3, <1>4, <1>5 DEF Arity

-----------------------------------------------------------------------------
(* Heaps *)

IsHeap(h) == \E S : h \in Seq(S)

\* The operands of node n: their operators, values and SQL.
Ops(h, n) == [i \in DOMAIN n.args |-> h[n.args[i]].op]
Means(h, n, row) == [i \in DOMAIN n.args |-> h[n.args[i]].mean[row]]
Results(h, n) == [i \in DOMAIN n.args |-> h[n.args[i]].sql]

\* What operators other than And and Or ask of their operands.
Allowed(h, n) ==
    IF n.op \in {"Ternary", "When"} THEN WhenAllowed(Ops(h, n))
    ELSE \A i \in DOMAIN n.args : h[n.args[i]].op # "NullLiteral"

Typed(x) ==
    /\ x.mean \in [Rows -> TruthValues]
    /\ x.sql.sql \in [Rows -> TruthValues]
    /\ x.sql.some \in BOOLEAN /\ x.sql.exact \in BOOLEAN

\* SQL called exact is exact, other SQL lets too many rows pass and never too few,
\* and no SQL is none at all.
Emitted(x) ==
    /\ x.sql.exact => x.sql.some /\ x.sql.sql = x.mean
    /\ \A row \in Rows : x.mean[row] = "true" => x.sql.sql[row] = "true"
    /\ ~x.sql.some => \A row \in Rows : x.sql.sql[row] = "true"

\* SQL of And and Or, and of operators that need exact operands.
Follows(h, x) ==
    /\ x.op = "And" =>
         /\ x.sql.exact <=> h[x.args[1]].sql.exact /\ h[x.args[2]].sql.exact
         /\ \A row \in Rows : x.sql.sql[row] = "true" <=> /\ h[x.args[1]].sql.sql[row] = "true"
                                                          /\ h[x.args[2]].sql.sql[row] = "true"
    /\ x.op = "Or" =>
         /\ x.sql.exact <=> h[x.args[1]].sql.exact /\ h[x.args[2]].sql.exact
         /\ \A row \in Rows : x.sql.sql[row] = "true" <=> \/ h[x.args[1]].sql.sql[row] = "true"
                                                          \/ h[x.args[2]].sql.sql[row] = "true"
    /\ x.op \notin {"And", "Or"} =>
         /\ x.sql.exact <=> /\ x.op # "Unsupported" /\ Allowed(h, x)
                            /\ \A i \in DOMAIN x.args : h[x.args[i]].sql.exact
         /\ ~x.sql.exact => \A row \in Rows : x.sql.sql[row] = "true"

Meant(h, x) == \A row \in Rows : x.mean[row] = Value(x.op, x.val, Means(h, x, row), row)

GoodNode(h, x, k) ==
    IsNode(x, k, scan.table) /\ Typed(x) /\ Emitted(x) /\ Follows(h, x) /\ Meant(h, x)

GoodHeap(h) == IsHeap(h) /\ \A i \in 1 .. Len(h) : GoodNode(h, h[i], i - 1)

\* What New appends.
Made(h, n) ==
    [op |-> n.op, val |-> n.val, args |-> n.args,
     mean |-> [row \in Rows |-> Value(n.op, n.val, Means(h, n, row), row)],
     sql |-> EmitNode(n, Ops(h, n), Results(h, n))]

LEMMA NewIs ==
  ASSUME NEW h, NEW n
  PROVE  New(h, n) = Append(h, Made(h, n))
BY DEF New, Made, Means, Ops, Results

LEMMA HeapGrows ==
  ASSUME NEW h, IsHeap(h), NEW x
  PROVE  /\ IsHeap(Append(h, x))
         /\ Len(h) \in Nat
         /\ Len(Append(h, x)) = Len(h) + 1
         /\ \A i \in 1 .. Len(h) : Append(h, x)[i] = h[i]
         /\ Append(h, x)[Len(h) + 1] = x
<1>1. PICK S : h \in Seq(S)
  BY DEF IsHeap
<1>2. h \in Seq(S \cup {x}) /\ Append(h, x) \in Seq(S \cup {x})
  BY <1>1
<1> QED
  BY <1>1, <1>2 DEF IsHeap

\* The operands of a new node are good nodes.
LEMMA OperandsGood ==
  ASSUME NEW h, GoodHeap(h), NEW n, IsNode(n, Len(h), scan.table), NEW i \in DOMAIN n.args
  PROVE  n.args[i] \in 1 .. Len(h) /\ Typed(h[n.args[i]]) /\ Emitted(h[n.args[i]])
<1>1. n.args[i] \in 1 .. Len(h)
  BY DEF IsNode
<1> QED
  BY <1>1 DEF GoodHeap, GoodNode

LEMMA MeansTyped ==
  ASSUME NEW h, GoodHeap(h), NEW n, IsNode(n, Len(h), scan.table), NEW row \in Rows
  PROVE  Means(h, n, row) \in Seq(TruthValues) /\ Len(Means(h, n, row)) = Len(n.args)
<1>1. n.args \in Seq(1 .. Len(h))
  BY DEF IsNode
<1>2. \A i \in DOMAIN n.args : h[n.args[i]].mean[row] \in TruthValues
  BY OperandsGood DEF Typed
<1> QED
  BY <1>1, <1>2 DEF Means

-----------------------------------------------------------------------------
(* A new node is as good as its operands *)

\* sql/boolean.py: And needs one operand with SQL, Or needs both.
LEMMA AndEmits ==
  ASSUME NEW h, GoodHeap(h), NEW n, IsNode(n, Len(h), scan.table), n.op = "And"
  PROVE  LET x == Made(h, n) IN Typed(x) /\ Emitted(x) /\ Follows(h, x)
<1> DEFINE x == Made(h, n)
           l == h[n.args[1]]
           r == h[n.args[2]]
<1>1. n.args \in Seq(1 .. Len(h)) /\ Len(n.args) = 2
  BY DEF IsNode, Arity
<1>2. 1 \in DOMAIN n.args /\ 2 \in DOMAIN n.args
  BY <1>1
<1>3. Typed(l) /\ Emitted(l) /\ Typed(r) /\ Emitted(r)
  BY <1>2, OperandsGood
<1>4. x.sql = EmitAnd(l.sql, r.sql) /\ x.op = "And" /\ x.args = n.args
  BY <1>2 DEF Made, EmitNode, Results
<1>5. \A row \in Rows : x.mean[row] = AndValue(l.mean[row], r.mean[row])
  BY <1>2 DEF Made, Value, Means
<1>6. x.mean = [row \in Rows |-> x.mean[row]]
  BY DEF Made
<1>7. \A row \in Rows : /\ l.mean[row] \in TruthValues /\ r.mean[row] \in TruthValues
                        /\ l.sql.sql[row] \in TruthValues /\ r.sql.sql[row] \in TruthValues
  BY <1>3 DEF Typed
<1> HIDE DEF x, l, r
<1>8. x.mean \in [Rows -> TruthValues]
  BY <1>5, <1>6, <1>7 DEF AndValue, TruthValues
<1>9. l.sql.some \in BOOLEAN /\ r.sql.some \in BOOLEAN /\ l.sql.exact \in BOOLEAN /\ r.sql.exact \in BOOLEAN
  BY <1>3 DEF Typed
<1>10. /\ x.sql.some \in BOOLEAN /\ x.sql.exact \in BOOLEAN
       /\ x.sql.some <=> l.sql.some \/ r.sql.some
       /\ x.sql.exact <=> l.sql.exact /\ r.sql.exact
  <2>1. (l.sql.exact => l.sql.some) /\ (r.sql.exact => r.sql.some)
    BY <1>3 DEF Emitted
  <2>2. /\ x.sql.some = (l.sql.some \/ r.sql.some)
        /\ x.sql.exact = (l.sql.some /\ r.sql.some /\ l.sql.exact /\ r.sql.exact)
    <3>1. CASE l.sql.some /\ r.sql.some
      <4>1. x.sql = Sql(AndSql(l.sql, r.sql), l.sql.exact /\ r.sql.exact)
        BY <1>4, <3>1 DEF EmitAnd
      <4>2. x.sql.some = TRUE /\ x.sql.exact = (l.sql.exact /\ r.sql.exact)
        BY <4>1 DEF Sql
      <4> QED
        BY <3>1, <4>2
    <3>2. CASE ~(l.sql.some /\ r.sql.some) /\ (l.sql.some \/ r.sql.some)
      <4>1. x.sql = Sql(l.sql.sql, FALSE) \/ x.sql = Sql(r.sql.sql, FALSE)
        BY <1>4, <3>2 DEF EmitAnd
      <4>2. x.sql.some = TRUE /\ x.sql.exact = FALSE
        BY <4>1 DEF Sql
      <4> QED
        BY <3>2, <4>2
    <3>3. CASE ~l.sql.some /\ ~r.sql.some
      <4>1. x.sql = NoSql
        BY <1>4, <3>3 DEF EmitAnd
      <4>2. x.sql.some = FALSE /\ x.sql.exact = FALSE
        BY <4>1 DEF NoSql
      <4> QED
        BY <3>3, <4>2
    <3> QED
      BY <3>1, <3>2, <3>3
  <2> QED
    BY <1>9, <2>1, <2>2
<1>11. /\ x.sql.sql \in [Rows -> TruthValues]
       /\ \A row \in Rows : x.sql.sql[row] = "true" <=> l.sql.sql[row] = "true" /\ r.sql.sql[row] = "true"
       /\ l.sql.some /\ r.sql.some => \A row \in Rows : x.sql.sql[row] = AndValue(l.sql.sql[row], r.sql.sql[row])
  <2>1. CASE l.sql.some /\ r.sql.some
    <3>1. x.sql.sql = [row \in Rows |-> AndValue(l.sql.sql[row], r.sql.sql[row])]
      BY <1>4, <2>1 DEF EmitAnd, Sql, AndSql
    <3> QED
      BY <1>7, <3>1 DEF AndValue, TruthValues
  <2>2. CASE l.sql.some /\ ~r.sql.some
    <3>1. x.sql.sql = l.sql.sql
      BY <1>4, <2>2 DEF EmitAnd, Sql
    <3> QED
      BY <1>3, <2>2, <3>1 DEF Typed, Emitted
  <2>3. CASE ~l.sql.some /\ r.sql.some
    <3>1. x.sql.sql = r.sql.sql
      BY <1>4, <2>3 DEF EmitAnd, Sql
    <3> QED
      BY <1>3, <2>3, <3>1 DEF Typed, Emitted
  <2>4. CASE ~l.sql.some /\ ~r.sql.some
    <3>1. x.sql.sql = EveryRow
      BY <1>4, <2>4 DEF EmitAnd, NoSql
    <3> QED
      BY <1>3, <2>4, <3>1 DEF Emitted, EveryRow, TruthValues
  <2> QED
    BY <1>9, <2>1, <2>2, <2>3, <2>4
<1>12. ASSUME x.sql.exact
       PROVE  x.sql.some /\ x.sql.sql = x.mean
  <2>1. /\ l.sql.some /\ r.sql.some
        /\ l.sql.sql = l.mean /\ r.sql.sql = r.mean
    BY <1>3, <1>10, <1>12 DEF Emitted
  <2>2. \A row \in Rows : x.sql.sql[row] = x.mean[row]
    BY <1>5, <1>11, <2>1
  <2> QED
    BY <1>8, <1>10, <1>11, <2>1, <2>2
<1>13. \A row \in Rows : x.mean[row] = "true" => x.sql.sql[row] = "true"
  <2>1. \A row \in Rows : x.mean[row] = "true" => l.mean[row] = "true" /\ r.mean[row] = "true"
    BY <1>5, <1>7 DEF AndValue, TruthValues
  <2> QED
    BY <1>3, <1>11, <2>1 DEF Emitted
<1>14. ~x.sql.some => \A row \in Rows : x.sql.sql[row] = "true"
  BY <1>3, <1>10, <1>11 DEF Emitted
<1>15. Follows(h, x)
  BY <1>4, <1>10, <1>11 DEF Follows, l, r
<1>16. Typed(x) /\ Emitted(x)
  BY <1>8, <1>10, <1>11, <1>12, <1>13, <1>14 DEF Typed, Emitted
<1> QED
  BY <1>15, <1>16 DEF x

LEMMA OrEmits ==
  ASSUME NEW h, GoodHeap(h), NEW n, IsNode(n, Len(h), scan.table), n.op = "Or"
  PROVE  LET x == Made(h, n) IN Typed(x) /\ Emitted(x) /\ Follows(h, x)
<1> DEFINE x == Made(h, n)
           l == h[n.args[1]]
           r == h[n.args[2]]
<1>1. n.args \in Seq(1 .. Len(h)) /\ Len(n.args) = 2
  BY DEF IsNode, Arity
<1>2. 1 \in DOMAIN n.args /\ 2 \in DOMAIN n.args
  BY <1>1
<1>3. Typed(l) /\ Emitted(l) /\ Typed(r) /\ Emitted(r)
  BY <1>2, OperandsGood
<1>4. x.sql = EmitOr(l.sql, r.sql) /\ x.op = "Or" /\ x.args = n.args
  BY <1>2 DEF Made, EmitNode, Results
<1>5. \A row \in Rows : x.mean[row] = OrValue(l.mean[row], r.mean[row])
  BY <1>2 DEF Made, Value, Means
<1>6. x.mean = [row \in Rows |-> x.mean[row]]
  BY DEF Made
<1>7. \A row \in Rows : /\ l.mean[row] \in TruthValues /\ r.mean[row] \in TruthValues
                        /\ l.sql.sql[row] \in TruthValues /\ r.sql.sql[row] \in TruthValues
  BY <1>3 DEF Typed
<1> HIDE DEF x, l, r
<1>8. x.mean \in [Rows -> TruthValues]
  BY <1>5, <1>6, <1>7 DEF OrValue, TruthValues
<1>9. l.sql.some \in BOOLEAN /\ r.sql.some \in BOOLEAN /\ l.sql.exact \in BOOLEAN /\ r.sql.exact \in BOOLEAN
  BY <1>3 DEF Typed
<1>10. /\ x.sql.some \in BOOLEAN /\ x.sql.exact \in BOOLEAN
       /\ x.sql.some <=> l.sql.some /\ r.sql.some
       /\ x.sql.exact <=> l.sql.exact /\ r.sql.exact
  <2>1. (l.sql.exact => l.sql.some) /\ (r.sql.exact => r.sql.some)
    BY <1>3 DEF Emitted
  <2>2. /\ x.sql.some = (l.sql.some /\ r.sql.some)
        /\ x.sql.exact = (l.sql.some /\ r.sql.some /\ l.sql.exact /\ r.sql.exact)
    <3>1. CASE l.sql.some /\ r.sql.some
      <4>1. x.sql = Sql(OrSql(l.sql, r.sql), l.sql.exact /\ r.sql.exact)
        BY <1>4, <3>1 DEF EmitOr
      <4>2. x.sql.some = TRUE /\ x.sql.exact = (l.sql.exact /\ r.sql.exact)
        BY <4>1 DEF Sql
      <4> QED
        BY <3>1, <4>2
    <3>2. CASE ~(l.sql.some /\ r.sql.some)
      <4>1. x.sql = NoSql
        BY <1>4, <3>2 DEF EmitOr
      <4>2. x.sql.some = FALSE /\ x.sql.exact = FALSE
        BY <4>1 DEF NoSql
      <4> QED
        BY <3>2, <4>2
    <3> QED
      BY <3>1, <3>2
  <2> QED
    BY <1>9, <2>1, <2>2
<1>11. /\ x.sql.sql \in [Rows -> TruthValues]
       /\ \A row \in Rows : x.sql.sql[row] = "true" <=> l.sql.sql[row] = "true" \/ r.sql.sql[row] = "true"
       /\ l.sql.some /\ r.sql.some => \A row \in Rows : x.sql.sql[row] = OrValue(l.sql.sql[row], r.sql.sql[row])
       /\ ~x.sql.some => \A row \in Rows : x.sql.sql[row] = "true"
  <2>1. CASE l.sql.some /\ r.sql.some
    <3>1. x.sql.sql = [row \in Rows |-> OrValue(l.sql.sql[row], r.sql.sql[row])]
      BY <1>4, <2>1 DEF EmitOr, Sql, OrSql
    <3> QED
      BY <1>7, <1>10, <2>1, <3>1 DEF OrValue, TruthValues
  <2>2. CASE ~(l.sql.some /\ r.sql.some)
    <3>1. x.sql.sql = EveryRow
      BY <1>4, <2>2 DEF EmitOr, NoSql
    <3> QED
      BY <1>3, <2>2, <3>1 DEF Emitted, EveryRow, TruthValues
  <2> QED
    BY <2>1, <2>2
<1>12. ASSUME x.sql.exact
       PROVE  x.sql.some /\ x.sql.sql = x.mean
  <2>1. /\ l.sql.some /\ r.sql.some
        /\ l.sql.sql = l.mean /\ r.sql.sql = r.mean
    BY <1>3, <1>10, <1>12 DEF Emitted
  <2>2. \A row \in Rows : x.sql.sql[row] = x.mean[row]
    BY <1>5, <1>11, <2>1
  <2> QED
    BY <1>8, <1>10, <1>11, <2>1, <2>2
<1>13. \A row \in Rows : x.mean[row] = "true" => x.sql.sql[row] = "true"
  <2>1. \A row \in Rows : x.mean[row] = "true" => l.mean[row] = "true" \/ r.mean[row] = "true"
    BY <1>5, <1>7 DEF OrValue, TruthValues
  <2> QED
    BY <1>3, <1>11, <2>1 DEF Emitted
<1>15. Follows(h, x)
  BY <1>4, <1>10, <1>11 DEF Follows, l, r
<1>16. Typed(x) /\ Emitted(x)
  BY <1>8, <1>10, <1>11, <1>12, <1>13 DEF Typed, Emitted
<1> QED
  BY <1>15, <1>16 DEF x

\* sql/base.py: any other operator needs exact operands, and so do IF and CASE.
LEMMA OperatorEmits ==
  ASSUME NEW h, GoodHeap(h), NEW n, IsNode(n, Len(h), scan.table), n.op \notin {"And", "Or"}
  PROVE  LET x == Made(h, n) IN Typed(x) /\ Emitted(x) /\ Follows(h, x)
<1> DEFINE x == Made(h, n)
           results == Results(h, n)
           exact == /\ n.op # "Unsupported" /\ Allowed(h, n)
                    /\ \A i \in DOMAIN n.args : h[n.args[i]].sql.exact
           sql == [row \in Rows |->
                      Value(n.op, n.val, [i \in DOMAIN results |-> results[i].sql[row]], row)]
<1>1. DOMAIN results = DOMAIN n.args /\ \A i \in DOMAIN n.args : results[i] = h[n.args[i]].sql
  BY DEF Results
<1>2. x.op = n.op /\ x.val = n.val /\ x.args = n.args
  BY DEF Made
<1>3. Allowed(h, x) <=> Allowed(h, n)
  BY <1>2 DEF Allowed, Ops
<1>4. \A i \in DOMAIN n.args : Typed(h[n.args[i]]) /\ Emitted(h[n.args[i]])
  BY OperandsGood
<1>5. x.mean \in [Rows -> TruthValues]
  <2>1. x.mean = [row \in Rows |-> Value(n.op, n.val, Means(h, n, row), row)]
    BY DEF Made
  <2>2. \A row \in Rows : Value(n.op, n.val, Means(h, n, row), row) \in TruthValues
    BY MeansTyped, ValueTyped
  <2> QED
    BY <2>1, <2>2
<1>6. CASE exact
  <2>1. x.sql = Sql(sql, TRUE)
    <3>1. \A i \in DOMAIN results : results[i].some /\ results[i].exact
      BY <1>1, <1>4, <1>6 DEF Emitted
    <3>2. CASE n.op \in {"Ternary", "When"}
      <4>1. x.sql = EmitExact(n, results, WhenAllowed(Ops(h, n)))
        BY <3>2 DEF Made, EmitNode
      <4>2. WhenAllowed(Ops(h, n))
        BY <1>6, <3>2 DEF Allowed
      <4> QED
        BY <3>1, <4>1, <4>2 DEF EmitExact
    <3>3. CASE n.op \notin {"Ternary", "When"}
      <4>1. x.sql = EmitExact(n, results, \A i \in DOMAIN Ops(h, n) : Ops(h, n)[i] # "NullLiteral")
        BY <1>6, <3>3 DEF Made, EmitNode
      <4>2. \A i \in DOMAIN Ops(h, n) : Ops(h, n)[i] # "NullLiteral"
        BY <1>6, <3>3 DEF Allowed, Ops
      <4> QED
        BY <3>1, <4>1, <4>2 DEF EmitExact
    <3> QED
      BY <3>2, <3>3
  <2>2. \A row \in Rows : [i \in DOMAIN results |-> results[i].sql[row]] = Means(h, n, row)
    BY <1>1, <1>4, <1>6 DEF Means, Emitted
  <2>3. sql = x.mean
    BY <2>2 DEF Made
  <2>4. x.sql.some = TRUE /\ x.sql.exact = TRUE /\ x.sql.sql = x.mean
    BY <2>1, <2>3 DEF Sql
  <2> HIDE DEF x, sql
  <2>5. Typed(x) /\ Emitted(x)
    BY <1>5, <2>4 DEF Typed, Emitted
  <2> QED
    BY <1>2, <1>3, <1>6, <2>4, <2>5 DEF Follows, x
<1>7. CASE ~exact
  <2>1. x.sql = NoSql
    <3>1. CASE n.op = "Unsupported"
      BY <3>1 DEF Made, EmitNode
    <3>2. CASE n.op \in {"Ternary", "When"}
      <4>1. x.sql = EmitExact(n, results, WhenAllowed(Ops(h, n)))
        BY <3>2 DEF Made, EmitNode
      <4>2. ~(WhenAllowed(Ops(h, n)) /\ \A i \in DOMAIN results : results[i].exact)
        BY <1>1, <1>7, <3>2 DEF Allowed
      <4> QED
        BY <4>1, <4>2 DEF EmitExact
    <3>3. CASE n.op \notin {"Unsupported", "Ternary", "When"}
      <4>1. x.sql = EmitExact(n, results, \A i \in DOMAIN Ops(h, n) : Ops(h, n)[i] # "NullLiteral")
        BY <3>3 DEF Made, EmitNode
      <4>2. ~(/\ \A i \in DOMAIN Ops(h, n) : Ops(h, n)[i] # "NullLiteral"
              /\ \A i \in DOMAIN results : results[i].exact)
        BY <1>1, <1>7, <3>3 DEF Allowed, Ops
      <4> QED
        BY <4>1, <4>2 DEF EmitExact
    <3> QED
      BY <3>1, <3>2, <3>3
  <2>2. x.sql.some = FALSE /\ x.sql.exact = FALSE /\ x.sql.sql = EveryRow
    BY <2>1 DEF NoSql
  <2> HIDE DEF x
  <2>3. Typed(x) /\ Emitted(x)
    BY <1>5, <2>2 DEF Typed, Emitted, EveryRow, TruthValues
  <2>4. \A row \in Rows : x.sql.sql[row] = "true"
    BY <2>2 DEF EveryRow
  <2> QED
    BY <1>2, <1>3, <1>7, <2>2, <2>3, <2>4 DEF Follows, x
<1> QED
  BY <1>6, <1>7

\* A heap of good nodes stays one.
LEMMA NewGood ==
  ASSUME NEW h, GoodHeap(h), NEW n, IsNode(n, Len(h), scan.table)
  PROVE  /\ GoodHeap(New(h, n))
         /\ Len(h) \in Nat /\ Len(New(h, n)) = Len(h) + 1
         /\ \A i \in 1 .. Len(h) : New(h, n)[i] = h[i]
         /\ LET x == New(h, n)[Len(h) + 1] IN x.op = n.op /\ x.val = n.val /\ x.args = n.args
<1> DEFINE x == Made(h, n)
           g == New(h, n)
<1>1. g = Append(h, x) /\ IsHeap(h)
  BY NewIs DEF GoodHeap
<1>2. /\ IsHeap(g) /\ Len(h) \in Nat /\ Len(g) = Len(h) + 1
      /\ \A i \in 1 .. Len(h) : g[i] = h[i]
      /\ g[Len(h) + 1] = x
  BY <1>1, HeapGrows
<1>3. x.op = n.op /\ x.val = n.val /\ x.args = n.args
  BY DEF Made
<1>4. IsNode(x, Len(h), scan.table)
  BY <1>3 DEF IsNode
<1>5. Typed(x) /\ Emitted(x) /\ Follows(h, x)
  BY AndEmits, OrEmits, OperatorEmits
<1>6. Meant(h, x)
  BY DEF Meant, Made, Means
<1> HIDE DEF x, g
<1>7. ASSUME NEW y, NEW k \in 0 .. Len(h), GoodNode(h, y, k)
      PROVE  GoodNode(g, y, k)
  <2>1. y.args \in Seq(1 .. k)
    BY <1>7 DEF GoodNode, IsNode
  <2>2. \A i \in DOMAIN y.args : y.args[i] \in 1 .. Len(h)
    BY <1>2, <2>1
  <2>3. \A i \in DOMAIN y.args : g[y.args[i]] = h[y.args[i]]
    BY <1>2, <2>2
  <2>4. Ops(g, y) = Ops(h, y) /\ \A row \in Rows : Means(g, y, row) = Means(h, y, row)
    BY <2>3 DEF Ops, Means
  <2>5. Meant(g, y)
    BY <1>7, <2>4 DEF GoodNode, Meant
  <2>6. Allowed(g, y) <=> Allowed(h, y)
    BY <2>3, <2>4 DEF Allowed
  <2>7. y.op \in {"And", "Or"} => 1 \in DOMAIN y.args /\ 2 \in DOMAIN y.args
    <3>1. y.op \in {"And", "Or"} => Len(y.args) = 2
      BY <1>7 DEF GoodNode, IsNode, Arity
    <3> QED
      BY <2>1, <3>1
  <2>8. Follows(g, y)
    BY <1>7, <2>3, <2>6, <2>7 DEF GoodNode, Follows
  <2> QED
    BY <1>7, <2>5, <2>8 DEF GoodNode
<1>8. \A i \in 1 .. Len(g) : GoodNode(g, g[i], i - 1)
  <2>1. ASSUME NEW i \in 1 .. Len(g)
        PROVE  GoodNode(g, g[i], i - 1)
    <3>1. CASE i = Len(h) + 1
      <4>1. GoodNode(h, x, Len(h))
        BY <1>4, <1>5, <1>6 DEF GoodNode
      <4>2. i - 1 = Len(h) /\ Len(h) \in 0 .. Len(h)
        BY <1>2, <3>1
      <4> QED
        BY <1>2, <1>7, <3>1, <4>1, <4>2
    <3>2. CASE i # Len(h) + 1
      <4>1. i \in 1 .. Len(h) /\ i - 1 \in 0 .. Len(h)
        BY <1>2, <2>1, <3>2
      <4>2. GoodNode(h, g[i], i - 1)
        BY <1>2, <4>1 DEF GoodHeap
      <4> QED
        BY <1>7, <4>1, <4>2
    <3> QED
      BY <3>1, <3>2
  <2> QED
    BY <2>1
<1> QED
  BY <1>2, <1>3, <1>8 DEF GoodHeap, g

-----------------------------------------------------------------------------
(* What is known of the nodes of a good heap *)

LEMMA NodeFacts ==
  ASSUME NEW h, GoodHeap(h), NEW i \in 1 .. Len(h)
  PROVE  /\ i \in Nat /\ h[i].args \in Seq(1 .. Len(h)) /\ Arity(h[i].op, Len(h[i].args))
         /\ \A k \in DOMAIN h[i].args : h[i].args[k] \in 1 .. Len(h)
         /\ Typed(h[i]) /\ Emitted(h[i]) /\ Follows(h, h[i]) /\ Meant(h, h[i])
<1>1. GoodNode(h, h[i], i - 1) /\ Len(h) \in Nat
  BY HeapGrows DEF GoodHeap
<1>2. h[i].args \in Seq(1 .. i - 1)
  BY <1>1 DEF GoodNode, IsNode
<1>3. 1 .. i - 1 \subseteq 1 .. Len(h)
  BY <1>1
<1>4. h[i].args \in Seq(1 .. Len(h))
  BY <1>2, <1>3
<1> QED
  BY <1>1, <1>4 DEF GoodNode, IsNode

\* The values of the operands, in order.
LEMMA MeansFacts ==
  ASSUME NEW h, GoodHeap(h), NEW i \in 1 .. Len(h), NEW row \in Rows
  PROVE  /\ Means(h, h[i], row) \in Seq(TruthValues)
         /\ Len(Means(h, h[i], row)) = Len(h[i].args)
         /\ DOMAIN Means(h, h[i], row) = DOMAIN h[i].args
         /\ \A k \in DOMAIN h[i].args : Means(h, h[i], row)[k] = h[h[i].args[k]].mean[row]
<1> DEFINE m == Means(h, h[i], row)
<1>1. PICK a : a = h[i].args
  OBVIOUS
<1>2. a \in Seq(1 .. Len(h)) /\ \A k \in DOMAIN a : a[k] \in 1 .. Len(h)
  BY <1>1, NodeFacts
<1>3. \A j \in 1 .. Len(h) : h[j].mean[row] \in TruthValues
  BY NodeFacts DEF Typed
<1>4. m = [k \in DOMAIN a |-> h[a[k]].mean[row]]
  BY <1>1 DEF Means
<1>5. m \in Seq(TruthValues) /\ Len(m) = Len(a) /\ DOMAIN m = DOMAIN a
  <2>1. PICK d \in Nat : DOMAIN a = 1 .. d /\ d = Len(a)
    BY <1>2
  <2>2. PICK w : w = [k \in 1 .. d |-> h[a[k]].mean[row]]
    OBVIOUS
  <2>3. \A k \in 1 .. d : w[k] \in TruthValues
    BY <1>2, <1>3, <2>1, <2>2
  <2>4. w \in Seq(TruthValues) /\ Len(w) = d /\ DOMAIN w = 1 .. d
    BY <2>2, <2>3
  <2>5. m = w
    BY <1>4, <2>1, <2>2
  <2> QED
    BY <2>1, <2>4, <2>5
<1>6. \A k \in DOMAIN a : m[k] = h[h[i].args[k]].mean[row]
  BY <1>1, <1>4
<1> QED
  BY <1>1, <1>5, <1>6

\* What Not, And, Or and Ternary make of their operands.
NotOf(h, i, x) ==
    /\ x \in 1 .. Len(h)
    /\ \A row \in Rows : h[i].mean[row] = NotValue(h[x].mean[row])
    /\ h[i].sql.exact => h[x].sql.exact

AndOf(h, i, l, r) ==
    /\ l \in 1 .. Len(h) /\ r \in 1 .. Len(h)
    /\ \A row \in Rows : h[i].mean[row] = AndValue(h[l].mean[row], h[r].mean[row])
    /\ h[i].sql.exact <=> h[l].sql.exact /\ h[r].sql.exact
    /\ \A row \in Rows : h[i].sql.sql[row] = "true" <=> /\ h[l].sql.sql[row] = "true"
                                                        /\ h[r].sql.sql[row] = "true"

OrOf(h, i, l, r) ==
    /\ l \in 1 .. Len(h) /\ r \in 1 .. Len(h)
    /\ \A row \in Rows : h[i].mean[row] = OrValue(h[l].mean[row], h[r].mean[row])
    /\ h[i].sql.exact <=> h[l].sql.exact /\ h[r].sql.exact
    /\ \A row \in Rows : h[i].sql.sql[row] = "true" <=> \/ h[l].sql.sql[row] = "true"
                                                        \/ h[r].sql.sql[row] = "true"

TernaryOf(h, i, p, t, f) ==
    /\ p \in 1 .. Len(h) /\ t \in 1 .. Len(h) /\ f \in 1 .. Len(h)
    /\ \A row \in Rows : h[i].mean[row] = IF h[p].mean[row] = "true" THEN h[t].mean[row]
                                          ELSE h[f].mean[row]
    /\ h[i].sql.exact => h[p].sql.exact /\ h[t].sql.exact /\ h[f].sql.exact

LEMMA NotIs ==
  ASSUME NEW h, GoodHeap(h), NEW i \in 1 .. Len(h), h[i].op = "Not"
  PROVE  NotOf(h, i, h[i].args[1])
<1>1. h[i].args \in Seq(1 .. Len(h)) /\ Len(h[i].args) = 1
  BY NodeFacts DEF Arity
<1>2. 1 \in DOMAIN h[i].args
  BY <1>1
<1>3. PICK x : x = h[i].args[1]
  OBVIOUS
<1>4. \A row \in Rows : Means(h, h[i], row)[1] = h[x].mean[row]
  BY <1>2, <1>3 DEF Means
<1>5. \A row \in Rows : h[i].mean[row] = NotValue(Means(h, h[i], row)[1])
  BY NodeFacts DEF Meant, Value
<1>6. h[i].sql.exact => h[x].sql.exact
  BY <1>2, <1>3, NodeFacts DEF Follows
<1>7. x \in 1 .. Len(h)
  BY <1>2, <1>3, NodeFacts
<1>8. NotOf(h, i, x)
  BY <1>4, <1>5, <1>6, <1>7 DEF NotOf
<1> QED
  BY <1>3, <1>8

LEMMA AndIs ==
  ASSUME NEW h, GoodHeap(h), NEW i \in 1 .. Len(h), h[i].op = "And"
  PROVE  AndOf(h, i, h[i].args[1], h[i].args[2])
<1>1. h[i].args \in Seq(1 .. Len(h)) /\ Len(h[i].args) = 2
  BY NodeFacts DEF Arity
<1>2. 1 \in DOMAIN h[i].args /\ 2 \in DOMAIN h[i].args
  BY <1>1
<1>3. PICK l, r : l = h[i].args[1] /\ r = h[i].args[2]
  OBVIOUS
<1>4. \A row \in Rows : /\ Means(h, h[i], row)[1] = h[l].mean[row]
                        /\ Means(h, h[i], row)[2] = h[r].mean[row]
  BY <1>2, <1>3 DEF Means
<1>5. \A row \in Rows : h[i].mean[row] = AndValue(Means(h, h[i], row)[1], Means(h, h[i], row)[2])
  BY NodeFacts DEF Meant, Value
<1>6. \A row \in Rows : h[i].mean[row] = AndValue(h[l].mean[row], h[r].mean[row])
  BY <1>4, <1>5
<1>7. Follows(h, h[i])
  BY NodeFacts
<1>8. l \in 1 .. Len(h) /\ r \in 1 .. Len(h)
  BY <1>2, <1>3, NodeFacts
<1>9. AndOf(h, i, l, r)
  BY <1>3, <1>6, <1>7, <1>8 DEF Follows, AndOf
<1> QED
  BY <1>3, <1>9

LEMMA OrIs ==
  ASSUME NEW h, GoodHeap(h), NEW i \in 1 .. Len(h), h[i].op = "Or"
  PROVE  OrOf(h, i, h[i].args[1], h[i].args[2])
<1>1. h[i].args \in Seq(1 .. Len(h)) /\ Len(h[i].args) = 2
  BY NodeFacts DEF Arity
<1>2. 1 \in DOMAIN h[i].args /\ 2 \in DOMAIN h[i].args
  BY <1>1
<1>3. PICK l, r : l = h[i].args[1] /\ r = h[i].args[2]
  OBVIOUS
<1>4. \A row \in Rows : /\ Means(h, h[i], row)[1] = h[l].mean[row]
                        /\ Means(h, h[i], row)[2] = h[r].mean[row]
  BY <1>2, <1>3 DEF Means
<1>5. \A row \in Rows : h[i].mean[row] = OrValue(Means(h, h[i], row)[1], Means(h, h[i], row)[2])
  BY NodeFacts DEF Meant, Value
<1>6. \A row \in Rows : h[i].mean[row] = OrValue(h[l].mean[row], h[r].mean[row])
  BY <1>4, <1>5
<1>7. Follows(h, h[i])
  BY NodeFacts
<1>8. l \in 1 .. Len(h) /\ r \in 1 .. Len(h)
  BY <1>2, <1>3, NodeFacts
<1>9. OrOf(h, i, l, r)
  BY <1>3, <1>6, <1>7, <1>8 DEF Follows, OrOf
<1> QED
  BY <1>3, <1>9

\* IF(p, t, f)
LEMMA TernaryValue ==
  ASSUME NEW v, v \in Seq(TruthValues), Len(v) = 3
  PROVE  WhenValue(v) = IF v[1] = "true" THEN v[2] ELSE v[3]
<1>1. DOMAIN v = 1 .. 3
  OBVIOUS
<1>2. 1 % 2 = 1 /\ 2 % 2 = 0
  OBVIOUS
<1>3. \A i \in 1 .. 3 : i = 1 \/ i = 2 \/ i = 3
  OBVIOUS
<1>4. 1 \in Predicates(v) /\ \A i \in Predicates(v) : i = 1
  BY <1>1, <1>2, <1>3 DEF Predicates
<1>5. CASE v[1] = "true"
  <2>1. \A i \in Predicates(v) : v[i] = "true" => 1 <= i
    BY <1>4
  <2>2. WhenValue(v) = v[1 + 1]
    BY <1>1, <1>4, <1>5, <2>1, WhenFirst
  <2> QED
    BY <1>5, <2>2
<1>6. CASE v[1] # "true"
  BY <1>4, <1>6, WhenNone
<1> QED
  BY <1>5, <1>6

LEMMA TernaryIs ==
  ASSUME NEW h, GoodHeap(h), NEW i \in 1 .. Len(h), h[i].op = "Ternary"
  PROVE  Len(h[i].args) = 3 /\ TernaryOf(h, i, h[i].args[1], h[i].args[2], h[i].args[3])
<1>1. h[i].args \in Seq(1 .. Len(h)) /\ Len(h[i].args) = 3
  BY NodeFacts DEF Arity
<1>2. 1 \in DOMAIN h[i].args /\ 2 \in DOMAIN h[i].args /\ 3 \in DOMAIN h[i].args
  BY <1>1
<1>3. PICK p, t, f : p = h[i].args[1] /\ t = h[i].args[2] /\ f = h[i].args[3]
  OBVIOUS
<1>4. ASSUME NEW row \in Rows
      PROVE  h[i].mean[row] = IF h[p].mean[row] = "true" THEN h[t].mean[row] ELSE h[f].mean[row]
  <2>1. h[i].mean[row] = WhenValue(Means(h, h[i], row))
    BY NodeFacts DEF Meant, Value
  <2>2. PICK v : v = Means(h, h[i], row)
    OBVIOUS
  <2>3. v \in Seq(TruthValues) /\ Len(v) = 3
    BY <1>1, <2>2, MeansFacts
  <2>4. v[1] = h[p].mean[row] /\ v[2] = h[t].mean[row] /\ v[3] = h[f].mean[row]
    BY <1>2, <1>3, <2>2 DEF Means
  <2>5. WhenValue(v) = IF v[1] = "true" THEN v[2] ELSE v[3]
    BY <2>3, TernaryValue
  <2> QED
    BY <2>1, <2>2, <2>4, <2>5
<1>5. h[i].sql.exact => \A k \in DOMAIN h[i].args : h[h[i].args[k]].sql.exact
  BY NodeFacts DEF Follows
<1>6. h[i].sql.exact => h[p].sql.exact /\ h[t].sql.exact /\ h[f].sql.exact
  BY <1>2, <1>3, <1>5
<1>7. p \in 1 .. Len(h) /\ t \in 1 .. Len(h) /\ f \in 1 .. Len(h)
  BY <1>2, <1>3, NodeFacts
<1>8. TernaryOf(h, i, p, t, f)
  BY <1>4, <1>6, <1>7 DEF TernaryOf
<1> QED
  BY <1>1, <1>3, <1>8

-----------------------------------------------------------------------------
(* One node in the place of another *)

\* Node j may stand for node i: it has the same value in every row, its SQL is exact
\* if that of i is, and it lets no row pass that the SQL of i stops.
Replaces(h, i, j) ==
    /\ \A row \in Rows : h[j].mean[row] = h[i].mean[row]
    /\ h[i].sql.exact => h[j].sql.exact
    /\ \A row \in Rows : h[j].sql.sql[row] = "true" => h[i].sql.sql[row] = "true"

NoNullLiteral(h) == \A i \in 1 .. Len(h) : h[i].op # "NullLiteral"

LEMMA ReplacesSelf ==
  ASSUME NEW h, NEW i
  PROVE  Replaces(h, i, i)
BY DEF Replaces

LEMMA ReplacesTwice ==
  ASSUME NEW h, NEW i, NEW j, NEW k, Replaces(h, i, j), Replaces(h, j, k)
  PROVE  Replaces(h, i, k)
BY DEF Replaces

\* SQL that is not exact restricts nothing, unless it is that of And or Or.
LEMMA ExactReplaces ==
  ASSUME NEW h, GoodHeap(h), NEW i \in 1 .. Len(h), NEW j \in 1 .. Len(h),
         h[i].op \notin {"And", "Or"},
         \A row \in Rows : h[j].mean[row] = h[i].mean[row],
         h[i].sql.exact => h[j].sql.exact
  PROVE  Replaces(h, i, j)
<1>1. CASE h[i].sql.exact
  <2>1. h[i].sql.sql = h[i].mean /\ h[j].sql.sql = h[j].mean
    BY <1>1, NodeFacts DEF Emitted
  <2> QED
    BY <2>1 DEF Replaces
<1>2. CASE ~h[i].sql.exact
  <2>1. \A row \in Rows : h[i].sql.sql[row] = "true"
    BY <1>2, NodeFacts DEF Follows
  <2> QED
    BY <1>2, <2>1 DEF Replaces
<1> QED
  BY <1>1, <1>2

\* Without NULL literals only exactness is asked of the operands.
LEMMA AllowedAlways ==
  ASSUME NEW h, GoodHeap(h), NoNullLiteral(h), NEW i \in 1 .. Len(h)
  PROVE  Allowed(h, h[i])
<1>1. PICK a : a = h[i].args
  OBVIOUS
<1>2. a \in Seq(1 .. Len(h)) /\ Arity(h[i].op, Len(a))
  BY <1>1, NodeFacts
<1>3. \A k \in DOMAIN a : h[a[k]].op # "NullLiteral"
  BY <1>1, NodeFacts DEF NoNullLiteral
<1>4. CASE h[i].op \in {"Ternary", "When"}
  <2>1. PICK ops : ops = Ops(h, h[i])
    OBVIOUS
  <2>2. ops = [k \in DOMAIN a |-> h[a[k]].op]
    BY <1>1, <2>1 DEF Ops
  <2>3. Len(a) >= 1
    <3>1. Len(a) = 3 \/ Len(a) >= 3
      BY <1>2, <1>4 DEF Arity
    <3> QED
      BY <1>2, <3>1
  <2>4. DOMAIN ops = 1 .. Len(a) /\ Len(ops) = Len(a) /\ Len(a) \in DOMAIN ops
    BY <1>2, <2>2, <2>3
  <2>5. \A k \in DOMAIN ops : ops[k] # "NullLiteral"
    BY <1>3, <2>2
  <2>6. Len(ops) \notin Predicates(ops)
    BY <2>4 DEF Predicates
  <2>7. Predicates(ops) \subseteq DOMAIN ops
    BY DEF Predicates
  <2>8. WhenAllowed(ops)
    BY <2>4, <2>5, <2>6, <2>7 DEF WhenAllowed
  <2> QED
    BY <1>4, <2>1, <2>8 DEF Allowed
<1>5. CASE h[i].op \notin {"Ternary", "When"}
  BY <1>1, <1>3, <1>5 DEF Allowed
<1> QED
  BY <1>4, <1>5

LEMMA NotExact ==
  ASSUME NEW h, GoodHeap(h), NoNullLiteral(h), NEW i \in 1 .. Len(h), h[i].op = "Not",
         NEW k, h[i].args[1] = k, h[k].sql.exact
  PROVE  h[i].sql.exact
<1>1. h[i].args \in Seq(1 .. Len(h)) /\ Len(h[i].args) = 1
  BY NodeFacts DEF Arity
<1>2. \A m \in DOMAIN h[i].args : m = 1
  BY <1>1
<1>3. \A m \in DOMAIN h[i].args : h[h[i].args[m]].sql.exact
  BY <1>2
<1>4. Allowed(h, h[i])
  BY AllowedAlways
<1> QED
  BY <1>3, <1>4, NodeFacts DEF Follows

\* replace_children: rewritten operands make a node that may stand for the old one.
LEMMA ReplacedChildren ==
  ASSUME NEW h, GoodHeap(h), NoNullLiteral(h), NEW i \in 1 .. Len(h), NEW j \in 1 .. Len(h),
         h[j].op = h[i].op, h[j].val = h[i].val, Len(h[j].args) = Len(h[i].args),
         \A k \in DOMAIN h[i].args : Replaces(h, h[i].args[k], h[j].args[k])
  PROVE  Replaces(h, i, j)
<1>1. DOMAIN h[j].args = DOMAIN h[i].args
  BY NodeFacts
<1>2. ASSUME NEW row \in Rows
      PROVE  h[j].mean[row] = h[i].mean[row]
  <2>1. \A k \in DOMAIN h[i].args : h[h[j].args[k]].mean[row] = h[h[i].args[k]].mean[row]
    BY DEF Replaces
  <2>2. Means(h, h[j], row) = Means(h, h[i], row)
    BY <1>1, <2>1 DEF Means
  <2> QED
    BY <2>2, NodeFacts DEF Meant
<1>3. CASE h[i].op = "And"
  <2>1. Len(h[i].args) = 2 /\ h[i].args \in Seq(1 .. Len(h))
    BY <1>3, NodeFacts DEF Arity
  <2>2. 1 \in DOMAIN h[i].args /\ 2 \in DOMAIN h[i].args
    BY <2>1
  <2>3. Replaces(h, h[i].args[1], h[j].args[1]) /\ Replaces(h, h[i].args[2], h[j].args[2])
    BY <2>2
  <2>4. AndOf(h, i, h[i].args[1], h[i].args[2]) /\ AndOf(h, j, h[j].args[1], h[j].args[2])
    BY <1>3, AndIs
  <2>5. h[i].sql.exact => h[j].sql.exact
    BY <2>3, <2>4 DEF Replaces, AndOf
  <2>6. \A row \in Rows : h[j].sql.sql[row] = "true" => h[i].sql.sql[row] = "true"
    BY <2>3, <2>4 DEF Replaces, AndOf
  <2> QED
    BY <1>2, <2>5, <2>6 DEF Replaces
<1>4. CASE h[i].op = "Or"
  <2>1. Len(h[i].args) = 2 /\ h[i].args \in Seq(1 .. Len(h))
    BY <1>4, NodeFacts DEF Arity
  <2>2. 1 \in DOMAIN h[i].args /\ 2 \in DOMAIN h[i].args
    BY <2>1
  <2>3. Replaces(h, h[i].args[1], h[j].args[1]) /\ Replaces(h, h[i].args[2], h[j].args[2])
    BY <2>2
  <2>4. OrOf(h, i, h[i].args[1], h[i].args[2]) /\ OrOf(h, j, h[j].args[1], h[j].args[2])
    BY <1>4, OrIs
  <2>5. h[i].sql.exact => h[j].sql.exact
    BY <2>3, <2>4 DEF Replaces, OrOf
  <2>6. \A row \in Rows : h[j].sql.sql[row] = "true" => h[i].sql.sql[row] = "true"
    BY <2>3, <2>4 DEF Replaces, OrOf
  <2> QED
    BY <1>2, <2>5, <2>6 DEF Replaces
<1>5. CASE h[i].op \notin {"And", "Or"}
  <2>1. ASSUME h[i].sql.exact
        PROVE  h[j].sql.exact
    <3>1. h[i].op # "Unsupported" /\ \A k \in DOMAIN h[i].args : h[h[i].args[k]].sql.exact
      BY <1>5, <2>1, NodeFacts DEF Follows
    <3>2. \A k \in DOMAIN h[j].args : h[h[j].args[k]].sql.exact
      BY <1>1, <3>1 DEF Replaces
    <3>3. Allowed(h, h[j])
      BY AllowedAlways
    <3> QED
      BY <1>5, <3>1, <3>2, <3>3, NodeFacts DEF Follows
  <2> QED
    BY <1>2, <1>5, <2>1, ExactReplaces
<1> QED
  BY <1>3, <1>4, <1>5

-----------------------------------------------------------------------------
(* The rules of rewriter/boolean.py *)

\* rewrite_de_morgan_node: NOT (l OR r) is NOT l AND NOT r, and its SQL exact if both are.
LEMMA DeMorganReplaces ==
  ASSUME NEW h, GoodHeap(h), NoNullLiteral(h), NEW i \in 1 .. Len(h), NEW j \in 1 .. Len(h),
         NEW o \in 1 .. Len(h), NEW nl \in 1 .. Len(h), NEW nr \in 1 .. Len(h), NEW l, NEW r,
         h[i].op = "Not", h[i].args[1] = o,
         h[o].op = "Or", h[o].args[1] = l, h[o].args[2] = r,
         h[nl].op = "Not", h[nl].args[1] = l,
         h[nr].op = "Not", h[nr].args[1] = r,
         h[j].op = "And", h[j].args[1] = nl, h[j].args[2] = nr
  PROVE  Replaces(h, i, j)
<1>1. NotOf(h, i, o) /\ NotOf(h, nl, l) /\ NotOf(h, nr, r)
  BY NotIs
<1>2. OrOf(h, o, l, r)
  BY OrIs
<1>3. AndOf(h, j, nl, nr)
  BY AndIs
<1>4. l \in 1 .. Len(h) /\ r \in 1 .. Len(h)
  BY <1>2 DEF OrOf
<1>5. ASSUME NEW row \in Rows
      PROVE  h[j].mean[row] = h[i].mean[row]
  <2>1. h[l].mean[row] \in TruthValues /\ h[r].mean[row] \in TruthValues
    BY <1>4, NodeFacts DEF Typed
  <2>2. /\ h[i].mean[row] = NotValue(h[o].mean[row])
        /\ h[nl].mean[row] = NotValue(h[l].mean[row]) /\ h[nr].mean[row] = NotValue(h[r].mean[row])
    BY <1>1 DEF NotOf
  <2>3. h[o].mean[row] = OrValue(h[l].mean[row], h[r].mean[row])
    BY <1>2 DEF OrOf
  <2>4. h[j].mean[row] = AndValue(h[nl].mean[row], h[nr].mean[row])
    BY <1>3 DEF AndOf
  <2> QED
    BY <2>1, <2>2, <2>3, <2>4 DEF NotValue, OrValue, AndValue, Truth, TruthValues
<1>6. ASSUME h[i].sql.exact
      PROVE  h[j].sql.exact
  <2>1. h[l].sql.exact /\ h[r].sql.exact
    BY <1>1, <1>2, <1>6 DEF NotOf, OrOf
  <2>2. h[nl].sql.exact /\ h[nr].sql.exact
    BY <2>1, NotExact
  <2> QED
    BY <1>3, <2>2 DEF AndOf
<1> QED
  BY <1>5, <1>6, ExactReplaces

\* rewrite_boolean_when_node: IF(p, t, f) is (p AND t) OR (NOT p AND f) where p is not NULL.
BooleanForm(h, i, j, pt, not, pf, p, t, f) ==
    /\ h[i].op = "Ternary" /\ h[i].args[1] = p /\ h[i].args[2] = t /\ h[i].args[3] = f
    /\ h[pt].op = "And" /\ h[pt].args[1] = p /\ h[pt].args[2] = t
    /\ h[not].op = "Not" /\ h[not].args[1] = p
    /\ h[pf].op = "And" /\ h[pf].args[1] = not /\ h[pf].args[2] = f
    /\ h[j].op = "Or" /\ h[j].args[1] = pt /\ h[j].args[2] = pf

LEMMA BooleanTernaryReplaces ==
  ASSUME NEW h, GoodHeap(h), NoNullLiteral(h), NEW i \in 1 .. Len(h), NEW j \in 1 .. Len(h),
         NEW pt \in 1 .. Len(h), NEW not \in 1 .. Len(h), NEW pf \in 1 .. Len(h),
         NEW p, NEW t, NEW f, BooleanForm(h, i, j, pt, not, pf, p, t, f),
         \A row \in Rows : h[p].mean[row] # "null"
  PROVE  Replaces(h, i, j)
<1>1. TernaryOf(h, i, p, t, f)
  BY TernaryIs DEF BooleanForm
<1>2. AndOf(h, pt, p, t) /\ AndOf(h, pf, not, f)
  BY AndIs DEF BooleanForm
<1>3. NotOf(h, not, p)
  BY NotIs DEF BooleanForm
<1>4. OrOf(h, j, pt, pf)
  BY OrIs DEF BooleanForm
<1>5. p \in 1 .. Len(h) /\ t \in 1 .. Len(h) /\ f \in 1 .. Len(h)
  BY <1>1 DEF TernaryOf
<1>6. ASSUME NEW row \in Rows
      PROVE  h[j].mean[row] = h[i].mean[row]
  <2>1. /\ h[p].mean[row] \in TruthValues
        /\ h[t].mean[row] \in TruthValues /\ h[f].mean[row] \in TruthValues
    <3>1. Typed(h[p]) /\ Typed(h[t]) /\ Typed(h[f])
      BY <1>5, NodeFacts
    <3> QED
      BY <3>1 DEF Typed
  <2>2. h[p].mean[row] # "null"
    OBVIOUS
  <2>3. h[i].mean[row] = IF h[p].mean[row] = "true" THEN h[t].mean[row] ELSE h[f].mean[row]
    BY <1>1 DEF TernaryOf
  <2>4. /\ h[pt].mean[row] = AndValue(h[p].mean[row], h[t].mean[row])
        /\ h[pf].mean[row] = AndValue(h[not].mean[row], h[f].mean[row])
    BY <1>2 DEF AndOf
  <2>5. h[not].mean[row] = NotValue(h[p].mean[row])
    BY <1>3 DEF NotOf
  <2>6. h[j].mean[row] = OrValue(h[pt].mean[row], h[pf].mean[row])
    BY <1>4 DEF OrOf
  <2> QED
    BY <2>1, <2>2, <2>3, <2>4, <2>5, <2>6 DEF NotValue, OrValue, AndValue, Truth, TruthValues
<1>7. ASSUME h[i].sql.exact
      PROVE  h[j].sql.exact
  <2>1. h[p].sql.exact /\ h[t].sql.exact /\ h[f].sql.exact
    BY <1>1, <1>7 DEF TernaryOf
  <2>2. h[pt].sql.exact
    BY <1>2, <2>1 DEF AndOf
  <2>3. h[not].sql.exact
    BY <2>1, NotExact DEF BooleanForm
  <2>4. h[pf].sql.exact
    BY <1>2, <2>1, <2>3 DEF AndOf
  <2> QED
    BY <1>4, <2>2, <2>4 DEF OrOf
<1>8. h[i].op = "Ternary"
  BY DEF BooleanForm
<1> QED
  BY <1>6, <1>7, <1>8, ExactReplaces

LitIs(h, i, b) == h[i].op = "BoolLiteral" /\ h[i].val = b

LEMMA LiteralFacts ==
  ASSUME NEW h, GoodHeap(h), NEW i \in 1 .. Len(h), NEW b, LitIs(h, i, b)
  PROVE  /\ h[i].sql.exact
         /\ \A row \in Rows : h[i].mean[row] = b /\ h[i].sql.sql[row] = b
<1>1. Len(h[i].args) = 0 /\ h[i].args \in Seq(1 .. Len(h))
  BY NodeFacts DEF Arity, LitIs
<1>2. DOMAIN h[i].args = {}
  BY <1>1
<1>3. Allowed(h, h[i])
  BY <1>2 DEF Allowed, LitIs
<1>4. h[i].sql.exact
  BY <1>2, <1>3, NodeFacts DEF Follows, LitIs
<1>5. \A row \in Rows : h[i].mean[row] = b
  BY NodeFacts DEF Meant, Value, LitIs
<1>6. h[i].sql.sql = h[i].mean
  BY <1>4, NodeFacts DEF Emitted
<1> QED
  BY <1>4, <1>5, <1>6

\* rewrite_boolean_literals_node.
LEMMA AndFalseReplaces ==
  ASSUME NEW h, GoodHeap(h), NEW i \in 1 .. Len(h), NEW j \in 1 .. Len(h), NEW l, NEW r,
         h[i].op = "And", h[i].args[1] = l, h[i].args[2] = r,
         LitIs(h, l, "false") \/ LitIs(h, r, "false"), LitIs(h, j, "false")
  PROVE  Replaces(h, i, j)
<1>1. AndOf(h, i, l, r)
  BY AndIs
<1>2. l \in 1 .. Len(h) /\ r \in 1 .. Len(h)
  BY <1>1 DEF AndOf
<1>3. \A row \in Rows : h[l].mean[row] = "false" \/ h[r].mean[row] = "false"
  BY <1>2, LiteralFacts
<1>4. \A row \in Rows : h[i].mean[row] = "false"
  BY <1>1, <1>3 DEF AndValue, AndOf
<1> QED
  BY <1>4, LiteralFacts DEF Replaces

LEMMA OrTrueReplaces ==
  ASSUME NEW h, GoodHeap(h), NEW i \in 1 .. Len(h), NEW j \in 1 .. Len(h), NEW l, NEW r,
         h[i].op = "Or", h[i].args[1] = l, h[i].args[2] = r,
         LitIs(h, l, "true") \/ LitIs(h, r, "true"), LitIs(h, j, "true")
  PROVE  Replaces(h, i, j)
<1>1. OrOf(h, i, l, r)
  BY OrIs
<1>2. l \in 1 .. Len(h) /\ r \in 1 .. Len(h)
  BY <1>1 DEF OrOf
<1>3. \A row \in Rows : /\ h[l].mean[row] = "true" \/ h[r].mean[row] = "true"
                        /\ h[l].sql.sql[row] = "true" \/ h[r].sql.sql[row] = "true"
  BY <1>2, LiteralFacts
<1>4. \A row \in Rows : h[i].mean[row] = "true"
  BY <1>1, <1>3 DEF OrValue, OrOf
<1>5. \A row \in Rows : h[i].sql.sql[row] = "true"
  BY <1>1, <1>3 DEF OrOf
<1> QED
  BY <1>4, <1>5, LiteralFacts DEF Replaces

\* TRUE in an And and FALSE in an Or are dropped.
LEMMA AndTrueReplaces ==
  ASSUME NEW h, GoodHeap(h), NEW i \in 1 .. Len(h), h[i].op = "And", NEW l, NEW r,
         AndOf(h, i, l, r) \/ AndOf(h, i, r, l), LitIs(h, l, "true")
  PROVE  r \in 1 .. Len(h) /\ Replaces(h, i, r)
<1>1. l \in 1 .. Len(h) /\ r \in 1 .. Len(h)
  BY DEF AndOf
<1>2. \A row \in Rows : h[l].mean[row] = "true" /\ h[l].sql.sql[row] = "true"
  BY <1>1, LiteralFacts
<1>3. \A row \in Rows : h[r].mean[row] \in TruthValues
  BY <1>1, NodeFacts DEF Typed
<1>4. \A row \in Rows : h[r].mean[row] = h[i].mean[row]
  BY <1>2, <1>3 DEF AndOf, AndValue, TruthValues
<1>5. h[i].sql.exact => h[r].sql.exact
  BY DEF AndOf
<1>6. \A row \in Rows : h[r].sql.sql[row] = "true" => h[i].sql.sql[row] = "true"
  BY <1>2 DEF AndOf
<1> QED
  BY <1>1, <1>4, <1>5, <1>6 DEF Replaces

LEMMA OrFalseReplaces ==
  ASSUME NEW h, GoodHeap(h), NEW i \in 1 .. Len(h), h[i].op = "Or", NEW l, NEW r,
         OrOf(h, i, l, r) \/ OrOf(h, i, r, l), LitIs(h, l, "false")
  PROVE  r \in 1 .. Len(h) /\ Replaces(h, i, r)
<1>1. l \in 1 .. Len(h) /\ r \in 1 .. Len(h)
  BY DEF OrOf
<1>2. \A row \in Rows : h[l].mean[row] = "false"
  BY <1>1, LiteralFacts
<1>3. \A row \in Rows : h[r].mean[row] \in TruthValues
  BY <1>1, NodeFacts DEF Typed
<1>4. \A row \in Rows : h[r].mean[row] = h[i].mean[row]
  BY <1>2, <1>3 DEF OrOf, OrValue, TruthValues
<1>5. h[i].sql.exact => h[r].sql.exact
  BY DEF OrOf
<1>6. \A row \in Rows : h[r].sql.sql[row] = "true" => h[i].sql.sql[row] = "true"
  BY DEF OrOf
<1> QED
  BY <1>1, <1>4, <1>5, <1>6 DEF Replaces

-----------------------------------------------------------------------------
(* The chain of Ternary nodes that rewrite_when_node goes through *)

\* The last value is itself a conditional.
LEMMA ChainValue ==
  ASSUME NEW v \in Seq(TruthValues), NEW w \in Seq(TruthValues),
         Len(v) % 2 = 1, Len(w) = Len(v) + 2,
         \A k \in 1 .. Len(v) - 1 : w[k] = v[k],
         v[Len(v)] = IF w[Len(v)] = "true" THEN w[Len(v) + 1] ELSE w[Len(v) + 2]
  PROVE  WhenValue(w) = WhenValue(v)
<1>1. PICK m \in Nat : m = Len(v)
  OBVIOUS
<1>2. DOMAIN v = 1 .. m /\ DOMAIN w = 1 .. m + 2 /\ m >= 1 /\ Len(w) = m + 2
  BY <1>1
<1>3. Predicates(v) = {k \in 1 .. m : k % 2 = 1 /\ k < m}
  BY <1>1, <1>2 DEF Predicates
<1>4. Predicates(w) = {k \in 1 .. m + 2 : k % 2 = 1 /\ k < m + 2}
  BY <1>2 DEF Predicates
<1>5. m \in Predicates(w)
  BY <1>1, <1>2, <1>4
<1>6. \A k \in Predicates(w) : k = m \/ k \in Predicates(v)
  <2>1. ASSUME NEW k \in Predicates(w), k # m
        PROVE  k \in Predicates(v)
    <3>1. k \in Nat /\ k % 2 = 1 /\ 1 <= k /\ k < m + 2
      BY <1>4, <2>1
    <3>2. k # m + 1
      <4>1. m % 2 = 1
        BY <1>1
      <4>2. (m + 1) % 2 = 0
        BY <1>1, <4>1
      <4> QED
        BY <3>1, <4>2
    <3>3. k \in 1 .. m /\ k < m
      BY <2>1, <3>1, <3>2
    <3> QED
      BY <1>3, <3>1, <3>3
  <2> QED
    BY <2>1
<1>7. \A k \in Predicates(v) : k \in Predicates(w) /\ w[k] = v[k] /\ k < m
  BY <1>1, <1>3, <1>4
<1>8. \A k \in Predicates(v) : k + 1 < m
  BY <1>1, <1>3
<1>9. CASE \A k \in Predicates(v) : v[k] # "true"
  <2>1. WhenValue(v) = v[m]
    BY <1>1, <1>9, WhenNone
  <2>2. CASE w[m] = "true"
    <3>1. \A k \in Predicates(w) : w[k] = "true" => m <= k
      BY <1>6, <1>7, <1>9
    <3>2. WhenValue(w) = w[m + 1]
      <4>1. DOMAIN w \subseteq Nat
        BY <1>2
      <4> QED
        BY <1>5, <2>2, <3>1, <4>1, WhenFirst
    <3> QED
      BY <1>1, <2>1, <2>2, <3>2
  <2>3. CASE w[m] # "true"
    <3>1. \A k \in Predicates(w) : w[k] # "true"
      BY <1>6, <1>7, <1>9, <2>3
    <3>2. WhenValue(w) = w[m + 2]
      BY <1>2, <3>1, WhenNone
    <3> QED
      BY <1>1, <2>1, <2>3, <3>2
  <2> QED
    BY <2>2, <2>3
<1>10. ASSUME NEW k \in Predicates(v), v[k] = "true",
              \A i \in Predicates(v) : v[i] = "true" => k <= i
       PROVE  WhenValue(w) = WhenValue(v)
  <2>1. DOMAIN v \subseteq Nat /\ DOMAIN w \subseteq Nat
    BY <1>2
  <2>2. WhenValue(v) = v[k + 1]
    BY <1>10, <2>1, WhenFirst
  <2>3. k \in Predicates(w) /\ w[k] = "true" /\ k < m
    BY <1>7, <1>10
  <2>4. \A i \in Predicates(w) : w[i] = "true" => k <= i
    BY <1>6, <1>7, <1>10, <2>3, <1>3
  <2>5. WhenValue(w) = w[k + 1]
    BY <2>1, <2>3, <2>4, WhenFirst
  <2>6. k + 1 \in 1 .. m - 1
    BY <1>3, <1>8, <1>10
  <2> QED
    BY <1>1, <2>2, <2>5, <2>6
<1> QED
  BY <1>9, <1>10, WhenCases

\* The operands collected so far stand for the Ternary node n.
MeansOf(h, ops, row) == [k \in DOMAIN ops |-> h[ops[k]].mean[row]]

ChainOf(h, n, ops) ==
    /\ n \in 1 .. Len(h) /\ h[n].op = "Ternary"
    /\ ops \in Seq(1 .. Len(h)) /\ Len(ops) >= 3 /\ Len(ops) % 2 = 1
    /\ \A row \in Rows : WhenValue(MeansOf(h, ops, row)) = h[n].mean[row]
    /\ h[n].sql.exact => \A k \in DOMAIN ops : h[ops[k]].sql.exact

LEMMA MeansOfTyped ==
  ASSUME NEW h, GoodHeap(h), NEW ops \in Seq(1 .. Len(h)), NEW row \in Rows
  PROVE  MeansOf(h, ops, row) \in Seq(TruthValues) /\ Len(MeansOf(h, ops, row)) = Len(ops)
<1>1. \A j \in 1 .. Len(h) : h[j].mean[row] \in TruthValues
  BY NodeFacts DEF Typed
<1> QED
  BY <1>1 DEF MeansOf

LEMMA ChainBegins ==
  ASSUME NEW h, GoodHeap(h), NEW n \in 1 .. Len(h), h[n].op = "Ternary"
  PROVE  ChainOf(h, n, h[n].args)
<1>1. PICK a : a = h[n].args
  OBVIOUS
<1>2. a \in Seq(1 .. Len(h)) /\ Len(a) = 3
  BY <1>1, NodeFacts, TernaryIs
<1>3. \A row \in Rows : WhenValue(MeansOf(h, a, row)) = h[n].mean[row]
  <2>1. \A row \in Rows : h[n].mean[row] = WhenValue(Means(h, h[n], row))
    BY NodeFacts DEF Meant, Value
  <2> QED
    BY <1>1, <2>1 DEF Means, MeansOf
<1>4. h[n].sql.exact => \A k \in DOMAIN a : h[a[k]].sql.exact
  BY <1>1, NodeFacts DEF Follows
<1>5. 3 % 2 = 1
  OBVIOUS
<1>6. Len(a) >= 3 /\ Len(a) % 2 = 1
  BY <1>2, <1>5
<1>7. ChainOf(h, n, a)
  BY <1>2, <1>3, <1>4, <1>6 DEF ChainOf
<1> QED
  BY <1>1, <1>7

\* curr is a Ternary: its operands take its place.
LEMMA ChainWalks ==
  ASSUME NEW h, GoodHeap(h), NEW n, NEW ops, ChainOf(h, n, ops),
         NEW curr, curr = ops[Len(ops)], h[curr].op = "Ternary"
  PROVE  ChainOf(h, n, SubSeq(ops, 1, Len(ops) - 1) \o h[curr].args)
<1>1. /\ n \in 1 .. Len(h) /\ h[n].op = "Ternary"
      /\ ops \in Seq(1 .. Len(h)) /\ Len(ops) >= 3 /\ Len(ops) % 2 = 1
      /\ \A row \in Rows : WhenValue(MeansOf(h, ops, row)) = h[n].mean[row]
      /\ h[n].sql.exact => \A k \in DOMAIN ops : h[ops[k]].sql.exact
  BY DEF ChainOf
<1>2. PICK m \in Nat : m = Len(ops)
  BY <1>1
<1>3. curr \in 1 .. Len(h) /\ m \in DOMAIN ops
  BY <1>1, <1>2
<1>4. PICK p, t, f : p = h[curr].args[1] /\ t = h[curr].args[2] /\ f = h[curr].args[3]
  OBVIOUS
<1>5. Len(h[curr].args) = 3 /\ TernaryOf(h, curr, p, t, f)
  BY <1>3, <1>4, TernaryIs
<1>6. p \in 1 .. Len(h) /\ t \in 1 .. Len(h) /\ f \in 1 .. Len(h)
  BY <1>5 DEF TernaryOf
<1>7. PICK new : new = SubSeq(ops, 1, Len(ops) - 1) \o h[curr].args
  OBVIOUS
<1>8. /\ new \in Seq(1 .. Len(h)) /\ Len(new) = m + 2
      /\ \A k \in 1 .. m - 1 : new[k] = ops[k]
      /\ new[m] = p /\ new[m + 1] = t /\ new[m + 2] = f
  <2>1. PICK front : front = SubSeq(ops, 1, m - 1)
    OBVIOUS
  <2>2. front \in Seq(1 .. Len(h)) /\ Len(front) = m - 1 /\ \A k \in 1 .. m - 1 : front[k] = ops[k]
    BY <1>1, <1>2, <2>1
  <2>3. PICK a : a = h[curr].args
    OBVIOUS
  <2>4. a \in Seq(1 .. Len(h)) /\ Len(a) = 3 /\ a[1] = p /\ a[2] = t /\ a[3] = f
    BY <1>3, <1>4, <1>5, <2>3, NodeFacts
  <2>5. new = front \o a
    BY <1>2, <1>7, <2>1, <2>3
  <2>6. new \in Seq(1 .. Len(h)) /\ Len(new) = m + 2
    <3>1. PICK S : S = 1 .. Len(h)
      OBVIOUS
    <3>2. front \in Seq(S) /\ a \in Seq(S)
      BY <2>2, <2>4, <3>1
    <3>3. new \in Seq(S) /\ Len(new) = Len(front) + Len(a)
      BY <2>5, <3>2
    <3> QED
      BY <2>2, <2>4, <3>1, <3>3
  <2>7. \A k \in 1 .. m + 2 : new[k] = IF k <= m - 1 THEN front[k] ELSE a[k - (m - 1)]
    <3>1. PICK S : S = 1 .. Len(h)
      OBVIOUS
    <3>2. front \in Seq(S) /\ a \in Seq(S)
      BY <2>2, <2>4, <3>1
    <3>3. \A k \in 1 .. Len(front) + Len(a) :
            new[k] = IF k <= Len(front) THEN front[k] ELSE a[k - Len(front)]
      BY <2>5, <3>2
    <3>4. Len(front) + Len(a) = m + 2
      BY <2>2, <2>4
    <3> QED
      BY <2>2, <3>3, <3>4
  <2>8. \A k \in 1 .. m - 1 : new[k] = ops[k]
    BY <2>2, <2>7
  <2>9. new[m] = a[m - (m - 1)] /\ new[m + 1] = a[m + 1 - (m - 1)] /\ new[m + 2] = a[m + 2 - (m - 1)]
    <3>1. m \in 1 .. m + 2 /\ m + 1 \in 1 .. m + 2 /\ m + 2 \in 1 .. m + 2
      BY <1>1, <1>2
    <3>2. ~(m <= m - 1) /\ ~(m + 1 <= m - 1) /\ ~(m + 2 <= m - 1)
      OBVIOUS
    <3> QED
      BY <2>7, <3>1, <3>2
  <2>10. m - (m - 1) = 1 /\ m + 1 - (m - 1) = 2 /\ m + 2 - (m - 1) = 3
    OBVIOUS
  <2>11. new[m] = p /\ new[m + 1] = t /\ new[m + 2] = f
    BY <2>4, <2>9, <2>10
  <2> QED
    BY <2>6, <2>8, <2>11
<1>9. Len(new) >= 3 /\ Len(new) % 2 = 1
  BY <1>1, <1>2, <1>8
<1>10. ASSUME NEW row \in Rows
       PROVE  WhenValue(MeansOf(h, new, row)) = h[n].mean[row]
  <2>1. PICK v, w : v = MeansOf(h, ops, row) /\ w = MeansOf(h, new, row)
    OBVIOUS
  <2>2. v \in Seq(TruthValues) /\ w \in Seq(TruthValues) /\ Len(v) = m /\ Len(w) = m + 2
    BY <1>1, <1>2, <1>8, <2>1, MeansOfTyped
  <2>3. /\ \A k \in 1 .. m : v[k] = h[ops[k]].mean[row]
        /\ \A k \in 1 .. m + 2 : w[k] = h[new[k]].mean[row]
    BY <1>1, <1>2, <1>8, <2>1 DEF MeansOf
  <2>4. \A k \in 1 .. m - 1 : w[k] = v[k]
    <3>1. \A k \in 1 .. m - 1 : k \in 1 .. m /\ k \in 1 .. m + 2
      OBVIOUS
    <3> QED
      BY <1>8, <2>3, <3>1
  <2>5. /\ v[m] = h[curr].mean[row] /\ w[m] = h[p].mean[row]
        /\ w[m + 1] = h[t].mean[row] /\ w[m + 2] = h[f].mean[row]
    <3>1. /\ m \in 1 .. m /\ m \in 1 .. m + 2 /\ m + 1 \in 1 .. m + 2 /\ m + 2 \in 1 .. m + 2
          /\ ops[m] = curr
      BY <1>1, <1>2
    <3> QED
      BY <1>8, <2>3, <3>1
  <2>6. v[m] = IF w[m] = "true" THEN w[m + 1] ELSE w[m + 2]
    BY <1>5, <2>5 DEF TernaryOf
  <2>7. WhenValue(w) = WhenValue(v)
    <3>1. Len(v) % 2 = 1 /\ Len(w) = Len(v) + 2
      BY <1>1, <1>2, <2>2
    <3>2. v[Len(v)] = IF w[Len(v)] = "true" THEN w[Len(v) + 1] ELSE w[Len(v) + 2]
      BY <2>2, <2>6
    <3>3. \A k \in 1 .. Len(v) - 1 : w[k] = v[k]
      BY <2>2, <2>4
    <3> QED
      BY <2>2, <3>1, <3>2, <3>3, ChainValue
  <2> QED
    BY <1>1, <2>1, <2>7
<1>11. ASSUME h[n].sql.exact, NEW k \in DOMAIN new
       PROVE  h[new[k]].sql.exact
  <2>1. h[curr].sql.exact /\ \A i \in DOMAIN ops : h[ops[i]].sql.exact
    BY <1>1, <1>2, <1>3, <1>11
  <2>2. h[p].sql.exact /\ h[t].sql.exact /\ h[f].sql.exact
    BY <1>5, <2>1 DEF TernaryOf
  <2>3. k \in 1 .. m - 1 \/ k = m \/ k = m + 1 \/ k = m + 2
    <3>1. k \in Nat /\ 1 <= k /\ k <= m + 2
      BY <1>2, <1>8
    <3> QED
      BY <3>1
  <2>4. CASE k \in 1 .. m - 1
    <3>1. k \in DOMAIN ops
      BY <1>1, <1>2, <2>4
    <3> QED
      BY <1>8, <2>1, <2>4, <3>1
  <2> QED
    BY <1>8, <2>2, <2>3, <2>4
<1>12. ChainOf(h, n, new)
  BY <1>1, <1>8, <1>9, <1>10, <1>11 DEF ChainOf
<1> QED
  BY <1>7, <1>12

\* The When node over the operands may stand for the Ternary node.
LEMMA ChainReplaces ==
  ASSUME NEW h, GoodHeap(h), NoNullLiteral(h), NEW n, NEW ops, ChainOf(h, n, ops),
         NEW j \in 1 .. Len(h), h[j].op = "When", h[j].args = ops
  PROVE  Replaces(h, n, j)
<1>1. n \in 1 .. Len(h) /\ h[n].op = "Ternary"
  BY DEF ChainOf
<1>2. \A row \in Rows : h[j].mean[row] = h[n].mean[row]
  <2>1. \A row \in Rows : h[j].mean[row] = WhenValue(Means(h, h[j], row))
    BY NodeFacts DEF Meant, Value
  <2>2. \A row \in Rows : Means(h, h[j], row) = MeansOf(h, ops, row)
    BY DEF Means, MeansOf
  <2> QED
    BY <2>1, <2>2 DEF ChainOf
<1>3. ASSUME h[n].sql.exact
      PROVE  h[j].sql.exact
  <2>1. \A k \in DOMAIN h[j].args : h[h[j].args[k]].sql.exact
    BY <1>3 DEF ChainOf
  <2>2. Allowed(h, h[j])
    BY AllowedAlways
  <2> QED
    BY <2>1, <2>2, NodeFacts DEF Follows
<1> QED
  BY <1>1, <1>2, <1>3, ExactReplaces

-----------------------------------------------------------------------------
(* Heaps grow, and nothing that was known of their nodes is lost *)

Grows(h, g) == Len(h) \in Nat /\ Len(g) \in Nat /\ Len(h) <= Len(g) /\ \A i \in 1 .. Len(h) : g[i] = h[i]

LEMMA ReplacesStill ==
  ASSUME NEW h, NEW g, Grows(h, g), NEW i \in 1 .. Len(h), NEW j \in 1 .. Len(h), Replaces(h, i, j)
  PROVE  Replaces(g, i, j)
BY DEF Grows, Replaces

LEMMA WiderSeq ==
  ASSUME NEW S, NEW T, S \subseteq T, NEW s \in Seq(S)
  PROVE  s \in Seq(T)
OBVIOUS

LEMMA SeqAt ==
  ASSUME NEW S, NEW s \in Seq(S), NEW k \in 1 .. Len(s)
  PROVE  s[k] \in S
OBVIOUS

LEMMA ChainStill ==
  ASSUME NEW h, GoodHeap(h), NEW g, Grows(h, g), NEW n, NEW ops, ChainOf(h, n, ops)
  PROVE  ChainOf(g, n, ops)
<1>1. /\ n \in 1 .. Len(h) /\ h[n].op = "Ternary"
      /\ ops \in Seq(1 .. Len(h)) /\ Len(ops) >= 3 /\ Len(ops) % 2 = 1
      /\ \A row \in Rows : WhenValue(MeansOf(h, ops, row)) = h[n].mean[row]
      /\ h[n].sql.exact => \A k \in DOMAIN ops : h[ops[k]].sql.exact
  BY DEF ChainOf
<1>2. /\ n \in 1 .. Len(g) /\ g[n] = h[n] /\ 1 .. Len(h) \subseteq 1 .. Len(g)
  BY <1>1 DEF Grows
<1>3. \A k \in DOMAIN ops : ops[k] \in 1 .. Len(h)
  BY <1>1
<1>4. \A k \in DOMAIN ops : g[ops[k]] = h[ops[k]]
  BY <1>3 DEF Grows
<1>5. ops \in Seq(1 .. Len(g))
  BY <1>1, <1>2, WiderSeq
<1>6. \A row \in Rows : MeansOf(g, ops, row) = MeansOf(h, ops, row)
  BY <1>4 DEF MeansOf
<1> QED
  BY <1>1, <1>2, <1>4, <1>5, <1>6 DEF ChainOf

LEMMA SameRows ==
  ASSUME scan' = scan
  PROVE  Rows' = Rows
BY DEF Rows

LEMMA SameValue ==
  ASSUME scan' = scan, NEW op, NEW val, NEW v, NEW row
  PROVE  Value(op, val, v, row)' = Value(op, val, v, row)
BY DEF Value

\* Nothing depends on the state but the table that is scanned.
LEMMA SameGoodNode ==
  ASSUME scan' = scan, NEW h, NEW x, NEW k
  PROVE  GoodNode(h, x, k)' <=> GoodNode(h, x, k)
<1>1. Rows' = Rows
  BY SameRows
<1>2. Typed(x)' <=> Typed(x)
  BY <1>1 DEF Typed
<1>3. Emitted(x)' <=> Emitted(x)
  BY <1>1 DEF Emitted
<1>4. Follows(h, x)' <=> Follows(h, x)
  BY <1>1 DEF Follows
<1>5. Meant(h, x)' <=> Meant(h, x)
  BY <1>1, SameValue DEF Meant
<1> QED
  BY <1>2, <1>3, <1>4, <1>5 DEF GoodNode

LEMMA SameGoodHeap ==
  ASSUME scan' = scan, NEW h
  PROVE  GoodHeap(h)' <=> GoodHeap(h)
BY SameGoodNode DEF GoodHeap

LEMMA SameReplaces ==
  ASSUME scan' = scan, NEW h, NEW i, NEW j
  PROVE  Replaces(h, i, j)' <=> Replaces(h, i, j)
BY SameRows DEF Replaces

LEMMA SameChain ==
  ASSUME scan' = scan, NEW h, NEW n, NEW ops
  PROVE  ChainOf(h, n, ops)' <=> ChainOf(h, n, ops)
BY SameRows DEF ChainOf

-----------------------------------------------------------------------------
(* The inductive invariant *)

\* rewrite_tree has expanded the nodes up to this place, and not yet built them again.
Top(ph, idx) == IF ph = "down" THEN idx - 1 ELSE idx

\* What rewrite_tree keeps in its lists: the children of an expanded node are in nodes,
\* after it, one for every operand.
Walk(h, ph, ns, cm, idx, n) ==
    /\ ph \in {"down", "build", "up"}
    /\ ns \in Seq(1 .. Len(h)) /\ idx \in 1 .. Len(ns) /\ n \in 1 .. Len(h)
    /\ cm \in Seq(Seq(Nat)) /\ Len(cm) = IF ph = "down" THEN idx - 1 ELSE Len(ns)
    /\ \A k \in 1 .. Top(ph, idx) : /\ Len(cm[k]) = Len(h[ns[k]].args)
                                   /\ \A c \in DOMAIN cm[k] : cm[k][c] \in k + 1 .. Len(ns)

\* Every node stands for the one that was there before it: the root for the filter, the
\* node at hand for the one taken from nodes, a child for the operand of its parent.
Keeps(h, ph, ns, cm, idx, n, root) ==
    /\ Replaces(h, root, ns[1])
    /\ ph # "build" => Replaces(h, ns[idx], n)
    /\ \A k \in 1 .. Top(ph, idx) : \A c \in DOMAIN cm[k] :
            Replaces(h, h[ns[k]].args[c], ns[cm[k][c]])

\* What holds of every filter.
Shaped ==
    /\ scan \in Scans
    /\ GoodHeap(heap)
    /\ stage \in Rewriters \cup {"parse", "sql", "done"}
    /\ stage = "parse" => Len(heap) < Len(scan.filter)
    /\ stage # "parse" => Len(scan.filter) <= Len(heap) /\ node \in 1 .. Len(heap)
    /\ stage \in Rewriters => Walk(heap, phase, nodes, children_map, curr_idx, node)
    /\ operands # <<>> => stage = "when" /\ phase # "build" /\ ChainOf(heap, node, operands)
    /\ \A n \in rewritten : n \in 1 .. Len(heap) /\ heap[n].op = "Ternary"
    /\ stage = "done" => restriction = heap[node].sql.sql

\* What holds as long as NULL has decided nothing.
Kept ==
    Harmless =>
        /\ NoNullLiteral(heap)
        /\ stage \in Rewriters =>
              Keeps(heap, phase, nodes, children_map, curr_idx, node, Len(scan.filter))
        /\ stage \in {"sql", "done"} => Replaces(heap, Len(scan.filter), node)

IInv == Shaped /\ Kept

-----------------------------------------------------------------------------
(* New nodes *)

\* g is h with one more node.
OneMore(h, g, op, val, args) ==
    /\ GoodHeap(g) /\ Grows(h, g) /\ Len(g) = Len(h) + 1
    /\ g[Len(g)].op = op /\ g[Len(g)].val = val /\ g[Len(g)].args = args

LEMMA NewIsOneMore ==
  ASSUME NEW h, GoodHeap(h), NEW n, IsNode(n, Len(h), scan.table)
  PROVE  OneMore(h, New(h, n), n.op, n.val, n.args)
<1>1. PICK g : g = New(h, n)
  OBVIOUS
<1>2. /\ GoodHeap(g) /\ Len(h) \in Nat /\ Len(g) = Len(h) + 1
      /\ \A i \in 1 .. Len(h) : g[i] = h[i]
      /\ g[Len(h) + 1].op = n.op /\ g[Len(h) + 1].val = n.val /\ g[Len(h) + 1].args = n.args
  <2>1. IsHeap(h)
    BY DEF GoodHeap
  <2> QED
    BY <1>1, <2>1, NewGood, HeapGrows
<1>3. Grows(h, g)
  BY <1>2 DEF Grows
<1>4. OneMore(h, g, n.op, n.val, n.args)
  BY <1>2, <1>3 DEF OneMore
<1> QED
  BY <1>1, <1>4

LEMMA OperatorIsOneMore ==
  ASSUME NEW h, GoodHeap(h), NEW op, NEW args \in Seq(1 .. Len(h)), Arity(op, Len(args)),
         op \notin {"BoolLiteral", "Column", "Unsupported"}
  PROVE  OneMore(h, Operator(h, op, args), op, "", args)
<1>1. PICK n : n = Node(op, "", args)
  OBVIOUS
<1>2. n.op = op /\ n.val = "" /\ n.args = args
  BY <1>1 DEF Node
<1>3. IsNode(n, Len(h), scan.table)
  BY <1>2 DEF IsNode
<1> QED
  BY <1>1, <1>2, <1>3, NewIsOneMore DEF Operator

LEMMA LiteralIsOneMore ==
  ASSUME NEW h, GoodHeap(h), NEW b \in {"true", "false"}
  PROVE  OneMore(h, BoolLiteral(h, b), "BoolLiteral", b, <<>>)
<1>1. PICK n : n = Node("BoolLiteral", b, <<>>)
  OBVIOUS
<1>2. n.op = "BoolLiteral" /\ n.val = b /\ n.args = <<>>
  BY <1>1 DEF Node
<1>3. n.args \in Seq(1 .. Len(h)) /\ Len(n.args) = 0
  BY <1>2
<1>4. IsNode(n, Len(h), scan.table)
  BY <1>2, <1>3 DEF IsNode, Arity
<1> QED
  BY <1>1, <1>2, <1>4, NewIsOneMore DEF BoolLiteral

LEMMA GrowsMore ==
  ASSUME NEW h, NEW g, NEW k, Grows(h, g), Grows(g, k)
  PROVE  Grows(h, k)
BY DEF Grows

LEMMA StillNoNullLiteral ==
  ASSUME NEW h, NEW g, NEW op, NEW val, NEW args, OneMore(h, g, op, val, args),
         NoNullLiteral(h), op # "NullLiteral"
  PROVE  NoNullLiteral(g)
<1>1. ASSUME NEW i \in 1 .. Len(g)
      PROVE  g[i].op # "NullLiteral"
  <2>1. CASE i = Len(g)
    BY <2>1 DEF OneMore
  <2>2. CASE i # Len(g)
    <3>1. i \in 1 .. Len(h)
      BY <1>1, <2>2 DEF OneMore, Grows
    <3> QED
      BY <3>1 DEF OneMore, Grows, NoNullLiteral
  <2> QED
    BY <2>1, <2>2
<1> QED
  BY <1>1 DEF NoNullLiteral

\* No node is NULL for some row, nor can it be as long as its operands are not.
NeverNull(h) ==
    \A i \in 1 .. Len(h) :
        /\ h[i].op # "NullLiteral"
        /\ h[i].op \in {"Column", "Unsupported"} => \A row \in Rows : scan.table[row][h[i].val] # "null"
        /\ \A row \in Rows : h[i].mean[row] # "null"

LEMMA ValueNeverNull ==
  ASSUME NEW op, NEW val, NEW v \in Seq(TruthValues), NEW row, Arity(op, Len(v)),
         \A k \in DOMAIN v : v[k] # "null",
         op # "NullLiteral", op = "BoolLiteral" => val # "null",
         op \in {"Column", "Unsupported"} => scan.table[row][val] # "null"
  PROVE  Value(op, val, v, row) # "null"
<1>1. CASE op \in {"Column", "Unsupported", "BoolLiteral"}
  BY <1>1 DEF Value
<1>2. CASE op = "Not"
  <2>1. 1 \in DOMAIN v
    BY <1>2 DEF Arity
  <2> QED
    BY <1>2, <2>1 DEF Value, NotValue, Truth
<1>3. CASE op \in {"And", "Or"}
  <2>1. 1 \in DOMAIN v /\ 2 \in DOMAIN v
    BY <1>3 DEF Arity
  <2>2. v[1] # "null" /\ v[2] # "null"
    BY <2>1
  <2> QED
    BY <1>3, <2>2 DEF Value, AndValue, OrValue
<1>4. CASE op \in {"IsNull", "IsNotNull"}
  BY <1>4 DEF Value, Truth
<1>5. CASE op \in {"Coalesce", "FillNull"}
  <2>1. Len(v) = 2 \/ Len(v) >= 1
    BY <1>5 DEF Arity
  <2>2. 1 \in DOMAIN v
    BY <2>1
  <2> DEFINE given == {i \in DOMAIN v : v[i] # "null"}
             first == CHOOSE i \in given : \A j \in given : i <= j
  <2>3. given \in SUBSET Nat /\ given # {}
    BY <2>2
  <2>4. \E i \in given : \A j \in given : i <= j
    BY <2>3, LeastNatural
  <2>5. first \in given
    BY <2>4
  <2>6. FirstGiven(v) = v[first]
    BY <2>3 DEF FirstGiven
  <2> QED
    BY <1>5, <2>5, <2>6 DEF Value
<1>6. CASE op \in {"Ternary", "When"}
  <2>1. Len(v) = 3 \/ (Len(v) >= 3 /\ Len(v) % 2 = 1)
    BY <1>6 DEF Arity
  <2>2. Len(v) \in DOMAIN v
    BY <2>1
  <2>3. CASE \A i \in Predicates(v) : v[i] # "true"
    <3>1. WhenValue(v) = v[Len(v)]
      BY <2>3, WhenNone
    <3> QED
      BY <1>6, <2>2, <3>1 DEF Value
  <2>4. ASSUME NEW k \in Predicates(v), v[k] = "true",
               \A i \in Predicates(v) : v[i] = "true" => k <= i
        PROVE  WhenValue(v) # "null"
    <3>1. DOMAIN v \subseteq Nat
      OBVIOUS
    <3>2. WhenValue(v) = v[k + 1]
      BY <2>4, <3>1, WhenFirst
    <3>3. k + 1 \in DOMAIN v
      BY <2>4 DEF Predicates
    <3> QED
      BY <3>2, <3>3
  <2>5. WhenValue(v) # "null"
    BY <1>6, <2>3, <2>4, WhenCases DEF Value
  <2> QED
    BY <1>6, <2>5 DEF Value
<1> QED
  BY <1>1, <1>2, <1>3, <1>4, <1>5, <1>6 DEF Arity

LEMMA StillNeverNull ==
  ASSUME NEW h, NEW g, NEW op, NEW val, NEW args, OneMore(h, g, op, val, args),
         NeverNull(h), GoodHeap(h), op # "NullLiteral",
         op \in {"Column", "Unsupported"} => \A row \in Rows : scan.table[row][val] # "null"
  PROVE  NeverNull(g)
<1>1. PICK x \in Nat : x = Len(g)
  BY DEF OneMore, Grows
<1>2. /\ GoodHeap(g) /\ x \in 1 .. Len(g)
      /\ g[x].op = op /\ g[x].val = val /\ g[x].args = args
      /\ Len(h) \in Nat /\ x = Len(h) + 1 /\ \A i \in 1 .. Len(h) : g[i] = h[i]
  BY <1>1 DEF OneMore, Grows
<1>3. ASSUME NEW row \in Rows
      PROVE  g[x].mean[row] # "null"
  <2>1. PICK v : v = Means(g, g[x], row)
    OBVIOUS
  <2>2. v \in Seq(TruthValues) /\ Len(v) = Len(g[x].args) /\ DOMAIN v = DOMAIN g[x].args
    BY <1>2, <2>1, MeansFacts
  <2>3. \A k \in DOMAIN v : v[k] = g[g[x].args[k]].mean[row]
    BY <1>2, <2>1, MeansFacts
  <2>4. GoodNode(g, g[x], x - 1)
    BY <1>2 DEF GoodHeap
  <2>5. /\ g[x].args \in Seq(1 .. x - 1) /\ Arity(g[x].op, Len(v))
        /\ g[x].op = "BoolLiteral" => g[x].val \in {"true", "false"}
    BY <2>2, <2>4 DEF GoodNode, IsNode
  <2>6. \A k \in DOMAIN v : g[x].args[k] \in 1 .. Len(h)
    BY <1>2, <2>2, <2>5
  <2>7. \A k \in DOMAIN v : v[k] # "null"
    BY <1>2, <2>3, <2>6 DEF NeverNull
  <2>8. g[x].mean[row] = Value(op, val, v, row)
    BY <1>2, <2>1, NodeFacts DEF Meant
  <2>9. op = "BoolLiteral" => val # "null"
    BY <1>2, <2>5
  <2>10. /\ Arity(op, Len(v))
         /\ op \in {"Column", "Unsupported"} => scan.table[row][val] # "null"
    BY <1>2, <1>3, <2>5
  <2>11. Value(op, val, v, row) # "null"
    BY <2>2, <2>7, <2>9, <2>10, ValueNeverNull
  <2> QED
    BY <2>8, <2>11
<1>4. ASSUME NEW i \in 1 .. Len(g)
      PROVE  /\ g[i].op # "NullLiteral"
             /\ g[i].op \in {"Column", "Unsupported"} =>
                   \A row \in Rows : scan.table[row][g[i].val] # "null"
             /\ \A row \in Rows : g[i].mean[row] # "null"
  <2>1. CASE i = x
    BY <1>2, <1>3, <2>1
  <2>2. CASE i # x
    <3>1. i \in 1 .. Len(h) /\ g[i] = h[i]
      BY <1>1, <1>2, <1>4, <2>2
    <3> QED
      BY <3>1 DEF NeverNull
  <2> QED
    BY <2>1, <2>2
<1> QED
  BY <1>4 DEF NeverNull

-----------------------------------------------------------------------------
(* The lists of rewrite_tree *)

LEMMA WalkGrows ==
  ASSUME NEW h, NEW g, Grows(h, g), NEW ph, NEW ns, NEW cm, NEW idx, NEW n,
         Walk(h, ph, ns, cm, idx, n), NEW m \in 1 .. Len(g)
  PROVE  Walk(g, ph, ns, cm, idx, m)
<1>1. Len(h) \in Nat /\ Len(g) \in Nat /\ Len(h) <= Len(g) /\ \A i \in 1 .. Len(h) : g[i] = h[i]
  BY DEF Grows
<1>2. 1 .. Len(h) \subseteq 1 .. Len(g)
  BY <1>1
<1>3. ns \in Seq(1 .. Len(h)) /\ idx \in 1 .. Len(ns)
  BY DEF Walk
<1>4. ns \in Seq(1 .. Len(g))
  BY <1>2, <1>3, WiderSeq
<1>5. \A k \in 1 .. Top(ph, idx) : g[ns[k]] = h[ns[k]]
  <2>1. \A k \in 1 .. Top(ph, idx) : k \in 1 .. Len(ns)
    BY <1>3 DEF Top
  <2> QED
    BY <1>1, <1>3, <2>1, SeqAt
<1> QED
  BY <1>3, <1>4, <1>5 DEF Walk

\* What an expanded place refers to.
LEMMA WalkFacts ==
  ASSUME NEW h, GoodHeap(h), NEW ph, NEW ns, NEW cm, NEW idx, NEW n, Walk(h, ph, ns, cm, idx, n)
  PROVE  /\ ns[1] \in 1 .. Len(h) /\ ns[idx] \in 1 .. Len(h)
         /\ \A k \in 1 .. Top(ph, idx) :
              /\ k \in Nat /\ k <= idx /\ ns[k] \in 1 .. Len(h)
              /\ DOMAIN cm[k] = DOMAIN h[ns[k]].args
              /\ \A c \in DOMAIN cm[k] : /\ h[ns[k]].args[c] \in 1 .. Len(h)
                                         /\ cm[k][c] \in k + 1 .. Len(ns)
                                         /\ ns[cm[k][c]] \in 1 .. Len(h)
<1>1. /\ ns \in Seq(1 .. Len(h)) /\ idx \in 1 .. Len(ns) /\ n \in 1 .. Len(h)
      /\ cm \in Seq(Seq(Nat)) /\ Len(cm) = IF ph = "down" THEN idx - 1 ELSE Len(ns)
  BY DEF Walk
<1>2. ns[1] \in 1 .. Len(h) /\ ns[idx] \in 1 .. Len(h)
  BY <1>1
<1>3. ASSUME NEW k \in 1 .. Top(ph, idx)
      PROVE  /\ k \in Nat /\ k <= idx /\ ns[k] \in 1 .. Len(h)
             /\ DOMAIN cm[k] = DOMAIN h[ns[k]].args
             /\ \A c \in DOMAIN cm[k] : /\ h[ns[k]].args[c] \in 1 .. Len(h)
                                        /\ cm[k][c] \in k + 1 .. Len(ns)
                                        /\ ns[cm[k][c]] \in 1 .. Len(h)
  <2>1. k \in Nat /\ 1 <= k /\ k <= idx /\ k \in 1 .. Len(ns) /\ k \in 1 .. Len(cm)
    BY <1>1, <1>3 DEF Top
  <2>2. ns[k] \in 1 .. Len(h) /\ cm[k] \in Seq(Nat)
    BY <1>1, <2>1
  <2>3. /\ Len(cm[k]) = Len(h[ns[k]].args)
        /\ \A c \in DOMAIN cm[k] : cm[k][c] \in k + 1 .. Len(ns)
    BY <1>3 DEF Walk
  <2>4. h[ns[k]].args \in Seq(1 .. Len(h))
    BY <2>2, NodeFacts
  <2>5. DOMAIN cm[k] = DOMAIN h[ns[k]].args
    BY <2>2, <2>3, <2>4
  <2>6. \A c \in DOMAIN cm[k] : h[ns[k]].args[c] \in 1 .. Len(h)
    BY <2>4, <2>5
  <2>7. \A c \in DOMAIN cm[k] : ns[cm[k][c]] \in 1 .. Len(h)
    <3>1. \A x \in k + 1 .. Len(ns) : x \in 1 .. Len(ns)
      BY <2>1
    <3> QED
      BY <1>1, <2>3, <3>1, SeqAt
  <2> QED
    BY <2>1, <2>2, <2>3, <2>5, <2>6, <2>7
<1> QED
  BY <1>2, <1>3

LEMMA KeepsGrows ==
  ASSUME NEW h, GoodHeap(h), NEW g, Grows(h, g), NEW ph, NEW ns, NEW cm, NEW idx, NEW n,
         Walk(h, ph, ns, cm, idx, n), NEW root \in 1 .. Len(h),
         Keeps(h, ph, ns, cm, idx, n, root)
  PROVE  Keeps(g, ph, ns, cm, idx, n, root)
<1>1. n \in 1 .. Len(h)
  BY DEF Walk
<1>2. ns[1] \in 1 .. Len(h) /\ ns[idx] \in 1 .. Len(h)
  BY WalkFacts
<1>3. Replaces(g, root, ns[1])
  BY <1>2, ReplacesStill DEF Keeps
<1>4. ph # "build" => Replaces(g, ns[idx], n)
  BY <1>1, <1>2, ReplacesStill DEF Keeps
<1>5. ASSUME NEW k \in 1 .. Top(ph, idx), NEW c \in DOMAIN cm[k]
      PROVE  Replaces(g, g[ns[k]].args[c], ns[cm[k][c]])
  <2>1. /\ ns[k] \in 1 .. Len(h)
        /\ h[ns[k]].args[c] \in 1 .. Len(h) /\ ns[cm[k][c]] \in 1 .. Len(h)
    BY <1>5, WalkFacts
  <2>2. Replaces(h, h[ns[k]].args[c], ns[cm[k][c]])
    BY <1>5 DEF Keeps
  <2>3. g[ns[k]] = h[ns[k]]
    BY <2>1 DEF Grows
  <2> QED
    BY <2>1, <2>2, <2>3, ReplacesStill
<1> QED
  BY <1>3, <1>4, <1>5 DEF Keeps

\* _apply_node_rewriter: the node at hand is replaced once more.
LEMMA KeepsNode ==
  ASSUME NEW h, NEW ph, NEW ns, NEW cm, NEW idx, NEW n, NEW root,
         Keeps(h, ph, ns, cm, idx, n, root), NEW m, ph # "build", Replaces(h, n, m)
  PROVE  Keeps(h, ph, ns, cm, idx, m, root)
<1>1. Replaces(h, ns[idx], m)
  BY ReplacesTwice DEF Keeps
<1> QED
  BY <1>1 DEF Keeps

LEMMA EnterWalks ==
  ASSUME NEW h, NEW r \in 1 .. Len(h)
  PROVE  Walk(h, "down", <<r>>, <<>>, 1, r)
<1>1. <<r>> \in Seq(1 .. Len(h)) /\ Len(<<r>>) = 1 /\ 1 \in 1 .. Len(<<r>>)
  OBVIOUS
<1>2. <<>> \in Seq(Seq(Nat)) /\ Len(<<>>) = 1 - 1
  OBVIOUS
<1>3. 1 .. Top("down", 1) = {}
  BY DEF Top
<1> QED
  BY <1>1, <1>2, <1>3 DEF Walk

LEMMA EnterKeeps ==
  ASSUME NEW h, NEW r, NEW root, Replaces(h, root, r)
  PROVE  Keeps(h, "down", <<r>>, <<>>, 1, r, root)
<1>1. <<r>>[1] = r
  OBVIOUS
<1>2. 1 .. Top("down", 1) = {}
  BY DEF Top
<1> QED
  BY <1>1, <1>2, ReplacesSelf DEF Keeps

\* The node before is next, in a list that differs at the place left.
LEMMA AscendWalks ==
  ASSUME NEW h, NEW ph, ph # "down", NEW ns, NEW cm, NEW idx, idx > 1, NEW n,
         Walk(h, ph, ns, cm, idx, n), NEW list \in Seq(1 .. Len(h)), Len(list) = Len(ns),
         \A k \in 1 .. Len(ns) : k # idx => list[k] = ns[k]
  PROVE  Walk(h, "build", list, cm, idx - 1, n)
<1>1. /\ idx \in 1 .. Len(ns) /\ n \in 1 .. Len(h) /\ cm \in Seq(Seq(Nat)) /\ Len(cm) = Len(ns)
      /\ Len(ns) \in Nat
  BY DEF Walk
<1>2. Top("build", idx - 1) = idx - 1 /\ Top(ph, idx) = idx
  BY DEF Top
<1>3. ASSUME NEW k \in 1 .. idx - 1
      PROVE  /\ Len(cm[k]) = Len(h[list[k]].args)
             /\ \A c \in DOMAIN cm[k] : cm[k][c] \in k + 1 .. Len(list)
  <2>1. k \in 1 .. idx /\ k \in 1 .. Len(ns) /\ k # idx
    BY <1>1, <1>3
  <2> QED
    BY <1>2, <2>1 DEF Walk
<1>4. idx - 1 \in 1 .. Len(list)
  BY <1>1
<1> QED
  BY <1>1, <1>2, <1>3, <1>4 DEF Walk

LEMMA AscendKeeps ==
  ASSUME NEW h, GoodHeap(h), NEW ph, ph # "down", NEW ns, NEW cm, NEW idx, idx > 1, NEW n,
         Walk(h, ph, ns, cm, idx, n), NEW root, Keeps(h, ph, ns, cm, idx, n, root), NEW list,
         \A k \in 1 .. Len(ns) : k # idx => list[k] = ns[k],
         Replaces(h, ns[idx], list[idx])
  PROVE  Keeps(h, "build", list, cm, idx - 1, n, root)
<1>1. idx \in 1 .. Len(ns) /\ Len(ns) \in Nat
  BY DEF Walk
<1>2. Top("build", idx - 1) = idx - 1 /\ Top(ph, idx) = idx
  BY DEF Top
<1>3. list[1] = ns[1]
  BY <1>1
<1>4. \A x \in 1 .. Len(ns) : Replaces(h, ns[x], list[x])
  BY ReplacesSelf
<1>5. ASSUME NEW k \in 1 .. idx - 1, NEW c \in DOMAIN cm[k]
      PROVE  Replaces(h, h[list[k]].args[c], list[cm[k][c]])
  <2>1. k \in 1 .. idx /\ k \in 1 .. Len(ns) /\ k # idx
    BY <1>1, <1>5
  <2>2. Replaces(h, h[ns[k]].args[c], ns[cm[k][c]])
    BY <1>2, <1>5, <2>1 DEF Keeps
  <2>3. cm[k][c] \in k + 1 .. Len(ns)
    BY <1>2, <1>5, <2>1, WalkFacts
  <2>4. cm[k][c] \in 1 .. Len(ns)
    BY <1>1, <2>1, <2>3
  <2> QED
    BY <1>4, <2>1, <2>2, <2>4, ReplacesTwice
<1> QED
  BY <1>2, <1>3, <1>5 DEF Keeps

\* The first loop of rewrite_tree: the children of n are queued.
Expanded(h, ns, cm, idx, n, list, map) ==
    /\ list \in Seq(1 .. Len(h)) /\ Len(list) = Len(ns) + Len(h[n].args)
    /\ \A k \in 1 .. Len(ns) : list[k] = IF k = idx THEN n ELSE ns[k]
    /\ \A i \in DOMAIN h[n].args : list[Len(ns) + i] = h[n].args[i]
    /\ map \in Seq(Seq(Nat)) /\ Len(map) = idx
    /\ \A k \in 1 .. idx - 1 : map[k] = cm[k]
    /\ map[idx] = [i \in DOMAIN h[n].args |-> Len(ns) + i]

LEMMA ExpandIs ==
  ASSUME NEW h, GoodHeap(h), NEW ns, NEW cm, NEW idx, NEW n, Walk(h, "down", ns, cm, idx, n)
  PROVE  Expanded(h, ns, cm, idx, n, [ns EXCEPT ![idx] = n] \o h[n].args,
                  Append(cm, [i \in DOMAIN h[n].args |-> Len(ns) + i]))
<1>1. PICK S : S = 1 .. Len(h)
  OBVIOUS
<1>2. /\ ns \in Seq(S) /\ idx \in 1 .. Len(ns) /\ n \in S
      /\ cm \in Seq(Seq(Nat)) /\ Len(cm) = idx - 1
  BY <1>1 DEF Walk
<1>3. PICK a : a = h[n].args
  OBVIOUS
<1>4. a \in Seq(S)
  BY <1>1, <1>2, <1>3, NodeFacts
<1>5. PICK front : front = [ns EXCEPT ![idx] = n]
  OBVIOUS
<1>6. /\ front \in Seq(S) /\ Len(front) = Len(ns)
      /\ \A k \in 1 .. Len(ns) : front[k] = IF k = idx THEN n ELSE ns[k]
  BY <1>2, <1>5
<1>7. PICK list : list = front \o a
  OBVIOUS
<1>8. list \in Seq(S) /\ Len(list) = Len(ns) + Len(a)
  <2>1. front \in Seq(S) /\ a \in Seq(S)
    BY <1>4, <1>6
  <2>2. list \in Seq(S) /\ Len(list) = Len(front) + Len(a)
    BY <1>7, <2>1
  <2> QED
    BY <1>6, <2>2
<1>9. \A k \in 1 .. Len(front) + Len(a) : list[k] = IF k <= Len(front) THEN front[k] ELSE a[k - Len(front)]
  BY <1>4, <1>6, <1>7
<1>10. PICK m \in Nat : m = Len(ns)
  BY <1>2
<1>11. \A k \in 1 .. m : list[k] = IF k = idx THEN n ELSE ns[k]
  <2>1. Len(a) \in Nat
    BY <1>4
  <2>2. \A k \in 1 .. m : k \in 1 .. Len(front) + Len(a) /\ k <= Len(front)
    BY <1>6, <1>10, <2>1
  <2>3. \A k \in 1 .. m : list[k] = front[k]
    BY <1>9, <2>2
  <2> QED
    BY <1>6, <1>10, <2>3
<1>12. \A i \in DOMAIN a : list[m + i] = a[i]
  <2>1. ASSUME NEW i \in DOMAIN a
        PROVE  list[m + i] = a[i]
    <3>1. i \in Nat /\ 1 <= i /\ i <= Len(a) /\ Len(a) \in Nat
      BY <1>4
    <3>2. m + i \in 1 .. Len(front) + Len(a) /\ ~(m + i <= Len(front)) /\ m + i - Len(front) = i
      BY <1>6, <1>10, <3>1
    <3> QED
      BY <1>9, <3>2
  <2> QED
    BY <2>1
<1>13. PICK row : row = [i \in DOMAIN a |-> m + i]
  OBVIOUS
<1>14. row \in Seq(Nat)
  <2>1. Len(a) \in Nat /\ DOMAIN a = 1 .. Len(a)
    BY <1>4
  <2>2. \A i \in 1 .. Len(a) : m + i \in Nat
    BY <1>10
  <2> QED
    BY <1>13, <2>1, <2>2
<1>15. PICK map : map = Append(cm, row)
  OBVIOUS
<1>16. PICK T : T = Seq(Nat)
  OBVIOUS
<1>17. cm \in Seq(T) /\ row \in T
  BY <1>2, <1>14, <1>16
<1>18. /\ map \in Seq(T) /\ Len(map) = Len(cm) + 1 /\ map[Len(cm) + 1] = row
       /\ \A k \in 1 .. Len(cm) : map[k] = cm[k]
  BY <1>15, <1>17
<1>19. Len(cm) + 1 = idx
  BY <1>2
<1>20. /\ map \in Seq(Seq(Nat)) /\ Len(map) = idx /\ map[idx] = row
       /\ \A k \in 1 .. idx - 1 : map[k] = cm[k]
  BY <1>2, <1>16, <1>18, <1>19
<1>21. Expanded(h, ns, cm, idx, n, list, map)
  BY <1>1, <1>3, <1>8, <1>10, <1>11, <1>12, <1>13, <1>20 DEF Expanded
<1>22. map = Append(cm, [i \in DOMAIN h[n].args |-> Len(ns) + i])
  BY <1>3, <1>10, <1>13, <1>15
<1> QED
  BY <1>3, <1>5, <1>7, <1>21, <1>22

LEMMA ExpandWalks ==
  ASSUME NEW h, GoodHeap(h), NEW ns, NEW cm, NEW idx, NEW n, Walk(h, "down", ns, cm, idx, n),
         NEW list, NEW map, Expanded(h, ns, cm, idx, n, list, map)
  PROVE  /\ idx < Len(list) => Walk(h, "down", list, map, idx + 1, list[idx + 1])
         /\ ~(idx < Len(list)) => Walk(h, "build", list, map, idx, n)
<1>1. /\ ns \in Seq(1 .. Len(h)) /\ idx \in 1 .. Len(ns) /\ n \in 1 .. Len(h)
      /\ cm \in Seq(Seq(Nat)) /\ Len(cm) = idx - 1 /\ Len(ns) \in Nat
  BY DEF Walk
<1>2. h[n].args \in Seq(1 .. Len(h)) /\ Len(h[n].args) \in Nat
  BY <1>1, NodeFacts
<1>size. PICK m \in Nat, d \in Nat : m = Len(ns) /\ d = Len(h[n].args)
  BY <1>1, <1>2
<1>len. idx \in 1 .. m /\ Len(list) = m + d
  BY <1>1, <1>size DEF Expanded
<1>3. /\ list \in Seq(1 .. Len(h)) /\ Len(list) = Len(ns) + Len(h[n].args)
      /\ map \in Seq(Seq(Nat)) /\ Len(map) = idx
  BY DEF Expanded
<1>4. ASSUME NEW k \in 1 .. idx
      PROVE  /\ Len(map[k]) = Len(h[list[k]].args)
             /\ \A c \in DOMAIN map[k] : map[k][c] \in k + 1 .. Len(list)
  <2>1. CASE k = idx
    <3>1. list[k] = n /\ map[k] = [i \in DOMAIN h[n].args |-> Len(ns) + i]
      BY <1>1, <2>1 DEF Expanded
    <3>2. PICK a : a = h[n].args
      OBVIOUS
    <3>4. DOMAIN a = 1 .. Len(a) /\ Len(a) \in Nat
      BY <1>2, <3>2
    <3>5. map[k] = [i \in 1 .. Len(a) |-> m + i]
      BY <1>size, <3>1, <3>2, <3>4
    <3>6. Len(map[k]) = Len(a)
      BY <3>4, <3>5
    <3>7. \A c \in 1 .. Len(a) : m + c \in k + 1 .. Len(list)
      <4>1. Len(a) = d
        BY <1>size, <3>2
      <4>2. \A c \in 1 .. d : m + c \in idx + 1 .. m + d
        BY <1>len
      <4> QED
        BY <1>len, <2>1, <4>1, <4>2
    <3>8. \A c \in DOMAIN map[k] : map[k][c] \in k + 1 .. Len(list)
      BY <3>5, <3>7
    <3> QED
      BY <3>1, <3>2, <3>6, <3>8
  <2>2. CASE k # idx
    <3>1. k \in 1 .. idx - 1 /\ k \in 1 .. Len(ns) /\ Len(ns) <= Len(list)
      BY <1>size, <1>len, <1>4, <2>2
    <3>2. map[k] = cm[k] /\ list[k] = ns[k]
      BY <2>2, <3>1 DEF Expanded
    <3>3. /\ Len(cm[k]) = Len(h[ns[k]].args)
          /\ \A c \in DOMAIN cm[k] : cm[k][c] \in k + 1 .. Len(ns)
      BY <3>1 DEF Walk, Top
    <3>4. \A x \in k + 1 .. Len(ns) : x \in k + 1 .. Len(list)
      BY <1>size, <1>len
    <3> QED
      BY <3>2, <3>3, <3>4
  <2> QED
    BY <2>1, <2>2
<1>5. ASSUME idx < Len(list)
      PROVE  Walk(h, "down", list, map, idx + 1, list[idx + 1])
  <2>1. PICK j : j = idx + 1
    OBVIOUS
  <2>2. j \in 1 .. Len(list) /\ j - 1 = idx /\ Top("down", j) = idx
    BY <1>len, <1>5, <2>1 DEF Top
  <2>3. list[j] \in 1 .. Len(h)
    BY <1>3, <2>2, SeqAt
  <2>4. Walk(h, "down", list, map, j, list[j])
    BY <1>3, <1>4, <2>2, <2>3 DEF Walk
  <2> QED
    BY <2>1, <2>4
<1>6. ASSUME ~(idx < Len(list))
      PROVE  Walk(h, "build", list, map, idx, n)
  <2>1. idx \in 1 .. Len(list) /\ Len(map) = Len(list) /\ Top("build", idx) = idx
    BY <1>len, <1>3, <1>6 DEF Top
  <2> QED
    BY <1>1, <1>3, <1>4, <2>1 DEF Walk
<1> QED
  BY <1>5, <1>6

LEMMA ExpandKeeps ==
  ASSUME NEW h, GoodHeap(h), NEW ns, NEW cm, NEW idx, NEW n, Walk(h, "down", ns, cm, idx, n),
         NEW root, Keeps(h, "down", ns, cm, idx, n, root),
         NEW list, NEW map, Expanded(h, ns, cm, idx, n, list, map)
  PROVE  /\ idx < Len(list) => Keeps(h, "down", list, map, idx + 1, list[idx + 1], root)
         /\ ~(idx < Len(list)) => Keeps(h, "build", list, map, idx, n, root)
<1>1. idx \in 1 .. Len(ns) /\ Len(ns) \in Nat /\ n \in 1 .. Len(h)
  BY DEF Walk
<1>2. \A x \in 1 .. Len(ns) : Replaces(h, ns[x], list[x])
  BY ReplacesSelf DEF Expanded, Keeps
<1>3. Replaces(h, root, list[1])
  <2>1. 1 \in 1 .. Len(ns)
    BY <1>1
  <2> QED
    BY <1>2, <2>1, ReplacesTwice DEF Keeps
<1>4. ASSUME NEW k \in 1 .. idx, NEW c \in DOMAIN map[k]
      PROVE  Replaces(h, h[list[k]].args[c], list[map[k][c]])
  <2>1. CASE k = idx
    <3>1. list[k] = n /\ map[k] = [i \in DOMAIN h[n].args |-> Len(ns) + i]
      BY <1>1, <2>1 DEF Expanded
    <3>2. c \in DOMAIN h[n].args /\ map[k][c] = Len(ns) + c
      BY <1>4, <3>1
    <3>3. list[map[k][c]] = h[n].args[c]
      BY <3>2 DEF Expanded
    <3> QED
      BY <3>1, <3>3, ReplacesSelf
  <2>2. CASE k # idx
    <3>1. k \in 1 .. idx - 1 /\ k \in 1 .. Len(ns) /\ k \in 1 .. Top("down", idx)
      BY <1>1, <1>4, <2>2 DEF Top
    <3>2. map[k] = cm[k] /\ list[k] = ns[k]
      BY <2>2, <3>1 DEF Expanded
    <3>3. c \in DOMAIN cm[k]
      BY <1>4, <3>2
    <3>4. Replaces(h, h[ns[k]].args[c], ns[cm[k][c]])
      BY <3>1, <3>3 DEF Keeps
    <3>5. cm[k][c] \in k + 1 .. Len(ns)
      BY <3>1, <3>3, WalkFacts
    <3>6. cm[k][c] \in 1 .. Len(ns)
      BY <1>1, <3>1, <3>5
    <3> QED
      BY <1>2, <3>2, <3>4, <3>6, ReplacesTwice
  <2> QED
    BY <2>1, <2>2
<1>5. Top("down", idx + 1) = idx /\ Top("build", idx) = idx
  BY <1>1 DEF Top
<1> QED
  BY <1>3, <1>4, <1>5, ReplacesSelf DEF Keeps

-----------------------------------------------------------------------------
(* The four rewriters, in the state that they find *)

\* What a rewriter may return: a heap with more nodes and one of them.
Fresh(g, m) ==
    /\ GoodHeap(g) /\ Grows(heap, g) /\ m \in 1 .. Len(g)
    /\ NoNullLiteral(heap) => NoNullLiteral(g)
    /\ NeverNull(heap) => NeverNull(g)

LEMMA GrowsNot ==
  ASSUME NEW h, GoodHeap(h)
  PROVE  Grows(h, h) /\ Len(h) \in Nat
BY HeapGrows DEF GoodHeap, Grows

\* A new node is still there when more nodes are built.
LEMMA OneMoreStays ==
  ASSUME NEW h, NEW g, NEW k, NEW op, NEW val, NEW args, OneMore(h, g, op, val, args), Grows(g, k)
  PROVE  /\ Len(g) \in 1 .. Len(g) /\ Len(g) \in 1 .. Len(k)
         /\ k[Len(g)].op = op /\ k[Len(g)].val = val /\ k[Len(g)].args = args
<1>1. Len(g) \in 1 .. Len(g) /\ Len(g) \in 1 .. Len(k)
  BY DEF OneMore, Grows
<1>2. k[Len(g)] = g[Len(g)]
  BY <1>1 DEF Grows
<1> QED
  BY <1>1, <1>2 DEF OneMore

LEMMA OneMoreGood ==
  ASSUME NEW h, NEW g, NEW op, NEW val, NEW args, OneMore(h, g, op, val, args)
  PROVE  GoodHeap(g) /\ Grows(h, g) /\ Len(g) \in 1 .. Len(g)
BY DEF OneMore, Grows

LEMMA StillIn ==
  ASSUME NEW h, NEW g, Grows(h, g), NEW x \in 1 .. Len(h)
  PROVE  x \in 1 .. Len(g) /\ g[x] = h[x]
BY DEF Grows

LEMMA DeMorganStep ==
  ASSUME GoodHeap(heap), NEW n \in 1 .. Len(heap), Is(n, "Not"), Is(Arg(n, 1), "Or"),
         NEW g, NEW m, RewriteDeMorganNode(n) = [heap |-> g, node |-> m]
  PROVE  Fresh(g, m) /\ (NoNullLiteral(heap) => Replaces(g, n, m))
<1>1. PICK o, l, r : o = Arg(n, 1) /\ l = Arg(o, 1) /\ r = Arg(o, 2)
  OBVIOUS
<1>2. PICK h1 : h1 = Operator(heap, "Not", <<l>>)
  OBVIOUS
<1>3. PICK h2 : h2 = Operator(h1, "Not", <<r>>)
  OBVIOUS
<1>4. g = Operator(h2, "And", <<Len(h1), Len(h2)>>) /\ m = Len(g)
  BY <1>1, <1>2, <1>3 DEF RewriteDeMorganNode, Newest
<1>5. o \in 1 .. Len(heap) /\ heap[n].op = "Not" /\ heap[n].args[1] = o
  BY <1>1, NotIs DEF Is, Arg, NotOf
<1>6. /\ l \in 1 .. Len(heap) /\ r \in 1 .. Len(heap)
      /\ heap[o].op = "Or" /\ heap[o].args[1] = l /\ heap[o].args[2] = r
  BY <1>1, <1>5, OrIs DEF Is, Arg, OrOf
<1>7. OneMore(heap, h1, "Not", "", <<l>>)
  <2>1. <<l>> \in Seq(1 .. Len(heap)) /\ Arity("Not", Len(<<l>>))
    BY <1>6 DEF Arity
  <2> QED
    BY <1>2, <2>1, OperatorIsOneMore
<1>8. Len(h1) \in 1 .. Len(h1) /\ r \in 1 .. Len(h1)
  <2>1. Grows(heap, h1) /\ Len(h1) \in 1 .. Len(h1)
    BY <1>7, OneMoreGood
  <2> QED
    BY <1>6, <2>1, StillIn
<1>9. OneMore(h1, h2, "Not", "", <<r>>)
  <2>1. <<r>> \in Seq(1 .. Len(h1)) /\ Arity("Not", Len(<<r>>))
    BY <1>8 DEF Arity
  <2>2. GoodHeap(h1)
    BY <1>7, OneMoreGood
  <2> QED
    BY <1>3, <2>1, <2>2, OperatorIsOneMore
<1>10. Len(h1) \in 1 .. Len(h2) /\ Len(h2) \in 1 .. Len(h2)
  BY <1>8, <1>9, OneMoreGood, StillIn
<1>11. OneMore(h2, g, "And", "", <<Len(h1), Len(h2)>>)
  <2>1. <<Len(h1), Len(h2)>> \in Seq(1 .. Len(h2)) /\ Arity("And", Len(<<Len(h1), Len(h2)>>))
    BY <1>10 DEF Arity
  <2>2. GoodHeap(h2)
    BY <1>9, OneMoreGood
  <2> QED
    BY <1>4, <2>1, <2>2, OperatorIsOneMore
<1>12. /\ Grows(heap, h1) /\ Grows(h1, h2) /\ Grows(h2, g)
       /\ GoodHeap(g) /\ Grows(g, g)
  BY <1>7, <1>9, <1>11, GrowsNot, OneMoreGood
<1>13. Grows(h1, g) /\ Grows(heap, g)
  BY <1>12, GrowsMore
<1>14. /\ Len(h1) \in 1 .. Len(g) /\ g[Len(h1)].op = "Not" /\ g[Len(h1)].args[1] = l
       /\ Len(h2) \in 1 .. Len(g) /\ g[Len(h2)].op = "Not" /\ g[Len(h2)].args[1] = r
       /\ m \in 1 .. Len(g) /\ g[m].op = "And" /\ g[m].args[1] = Len(h1) /\ g[m].args[2] = Len(h2)
  <2>1. Len(h1) \in 1 .. Len(g) /\ g[Len(h1)].op = "Not" /\ g[Len(h1)].args = <<l>>
    BY <1>7, <1>13, OneMoreStays
  <2>2. Len(h2) \in 1 .. Len(g) /\ g[Len(h2)].op = "Not" /\ g[Len(h2)].args = <<r>>
    BY <1>9, <1>12, OneMoreStays
  <2>3. m \in 1 .. Len(g) /\ g[m].op = "And" /\ g[m].args = <<Len(h1), Len(h2)>>
    BY <1>4, <1>11, <1>12, OneMoreStays
  <2> QED
    BY <2>1, <2>2, <2>3
<1>15. /\ NoNullLiteral(heap) => NoNullLiteral(g)
       /\ NeverNull(heap) => NeverNull(g)
  <2>1. NoNullLiteral(heap) => NoNullLiteral(g)
    BY <1>7, <1>9, <1>11, StillNoNullLiteral
  <2>2. GoodHeap(h1) /\ GoodHeap(h2)
    BY <1>7, <1>9, OneMoreGood
  <2>3. NeverNull(heap) => NeverNull(h1)
    BY <1>7, StillNeverNull
  <2>4. NeverNull(h1) => NeverNull(h2)
    BY <1>9, <2>2, StillNeverNull
  <2>5. NeverNull(h2) => NeverNull(g)
    BY <1>11, <2>2, StillNeverNull
  <2> QED
    BY <2>1, <2>3, <2>4, <2>5
<1>16. /\ n \in 1 .. Len(g) /\ g[n] = heap[n]
       /\ o \in 1 .. Len(g) /\ g[o] = heap[o]
  BY <1>5, <1>13 DEF Grows
<1>17. NoNullLiteral(g) => Replaces(g, n, m)
  BY <1>5, <1>6, <1>12, <1>14, <1>16, DeMorganReplaces
<1> QED
  BY <1>12, <1>13, <1>14, <1>15, <1>17 DEF Fresh

LEMMA BooleanWhenStep ==
  ASSUME GoodHeap(heap), NEW n \in 1 .. Len(heap), Is(n, "Ternary"),
         NEW g, NEW m, Newest(BooleanTernary(Arg(n, 1), Arg(n, 2), Arg(n, 3))) = [heap |-> g, node |-> m]
  PROVE  /\ Fresh(g, m)
         /\ NoNullLiteral(heap) /\ (\A row \in Rows : heap[Arg(n, 1)].mean[row] # "null")
              => Replaces(g, n, m)
<1>1. PICK p, t, f : p = Arg(n, 1) /\ t = Arg(n, 2) /\ f = Arg(n, 3)
  OBVIOUS
<1>2. PICK h1 : h1 = Operator(heap, "And", <<p, t>>)
  OBVIOUS
<1>3. PICK h2 : h2 = Operator(h1, "Not", <<p>>)
  OBVIOUS
<1>4. PICK h3 : h3 = Operator(h2, "And", <<Len(h2), f>>)
  OBVIOUS
<1>5. g = Operator(h3, "Or", <<Len(h1), Len(h3)>>) /\ m = Len(g)
  BY <1>1, <1>2, <1>3, <1>4 DEF BooleanTernary, Newest
<1>6. /\ p \in 1 .. Len(heap) /\ t \in 1 .. Len(heap) /\ f \in 1 .. Len(heap)
      /\ heap[n].op = "Ternary"
      /\ heap[n].args[1] = p /\ heap[n].args[2] = t /\ heap[n].args[3] = f
  BY <1>1, TernaryIs DEF Is, Arg, TernaryOf
<1>7. OneMore(heap, h1, "And", "", <<p, t>>)
  <2>1. <<p, t>> \in Seq(1 .. Len(heap)) /\ Arity("And", Len(<<p, t>>))
    BY <1>6 DEF Arity
  <2> QED
    BY <1>2, <2>1, OperatorIsOneMore
<1>8. Len(h1) \in 1 .. Len(h1) /\ p \in 1 .. Len(h1) /\ f \in 1 .. Len(h1)
  <2>1. Grows(heap, h1) /\ Len(h1) \in 1 .. Len(h1)
    BY <1>7, OneMoreGood
  <2> QED
    BY <1>6, <2>1, StillIn
<1>9. OneMore(h1, h2, "Not", "", <<p>>)
  <2>1. <<p>> \in Seq(1 .. Len(h1)) /\ Arity("Not", Len(<<p>>))
    BY <1>8 DEF Arity
  <2>2. GoodHeap(h1)
    BY <1>7, OneMoreGood
  <2> QED
    BY <1>3, <2>1, <2>2, OperatorIsOneMore
<1>10. Len(h1) \in 1 .. Len(h2) /\ Len(h2) \in 1 .. Len(h2) /\ f \in 1 .. Len(h2)
  BY <1>8, <1>9, OneMoreGood, StillIn
<1>11. OneMore(h2, h3, "And", "", <<Len(h2), f>>)
  <2>1. <<Len(h2), f>> \in Seq(1 .. Len(h2)) /\ Arity("And", Len(<<Len(h2), f>>))
    BY <1>10 DEF Arity
  <2>2. GoodHeap(h2)
    BY <1>9, OneMoreGood
  <2> QED
    BY <1>4, <2>1, <2>2, OperatorIsOneMore
<1>12. Len(h1) \in 1 .. Len(h3) /\ Len(h3) \in 1 .. Len(h3)
  BY <1>10, <1>11, OneMoreGood, StillIn
<1>13. OneMore(h3, g, "Or", "", <<Len(h1), Len(h3)>>)
  <2>1. <<Len(h1), Len(h3)>> \in Seq(1 .. Len(h3)) /\ Arity("Or", Len(<<Len(h1), Len(h3)>>))
    BY <1>12 DEF Arity
  <2>2. GoodHeap(h3)
    BY <1>11, OneMoreGood
  <2> QED
    BY <1>5, <2>1, <2>2, OperatorIsOneMore
<1>14. /\ Grows(heap, h1) /\ Grows(h1, h2) /\ Grows(h2, h3) /\ Grows(h3, g)
       /\ GoodHeap(g) /\ Grows(g, g)
  BY <1>7, <1>9, <1>11, <1>13, GrowsNot, OneMoreGood
<1>15. Grows(h2, g) /\ Grows(h1, g) /\ Grows(heap, g)
  <2>1. Grows(h2, g)
    BY <1>14, GrowsMore
  <2>2. Grows(h1, g)
    BY <1>14, <2>1, GrowsMore
  <2> QED
    BY <1>14, <2>1, <2>2, GrowsMore
<1>16. /\ Len(h1) \in 1 .. Len(g) /\ g[Len(h1)].op = "And"
       /\ g[Len(h1)].args[1] = p /\ g[Len(h1)].args[2] = t
  <2>1. Len(h1) \in 1 .. Len(g) /\ g[Len(h1)].op = "And" /\ g[Len(h1)].args = <<p, t>>
    BY <1>7, <1>15, OneMoreStays
  <2> QED
    BY <2>1
<1>17. Len(h2) \in 1 .. Len(g) /\ g[Len(h2)].op = "Not" /\ g[Len(h2)].args[1] = p
  <2>1. Len(h2) \in 1 .. Len(g) /\ g[Len(h2)].op = "Not" /\ g[Len(h2)].args = <<p>>
    BY <1>9, <1>15, OneMoreStays
  <2> QED
    BY <2>1
<1>18. /\ Len(h3) \in 1 .. Len(g) /\ g[Len(h3)].op = "And"
       /\ g[Len(h3)].args[1] = Len(h2) /\ g[Len(h3)].args[2] = f
  <2>1. Len(h3) \in 1 .. Len(g) /\ g[Len(h3)].op = "And" /\ g[Len(h3)].args = <<Len(h2), f>>
    BY <1>11, <1>14, OneMoreStays
  <2> QED
    BY <2>1
<1>19. m \in 1 .. Len(g) /\ g[m].op = "Or" /\ g[m].args[1] = Len(h1) /\ g[m].args[2] = Len(h3)
  <2>1. m \in 1 .. Len(g) /\ g[m].op = "Or" /\ g[m].args = <<Len(h1), Len(h3)>>
    BY <1>5, <1>13, <1>14, OneMoreStays
  <2> QED
    BY <2>1
<1>20. /\ NoNullLiteral(heap) => NoNullLiteral(g)
       /\ NeverNull(heap) => NeverNull(g)
  <2>1. NoNullLiteral(heap) => NoNullLiteral(g)
    BY <1>7, <1>9, <1>11, <1>13, StillNoNullLiteral
  <2>2. GoodHeap(h1) /\ GoodHeap(h2) /\ GoodHeap(h3)
    BY <1>7, <1>9, <1>11, OneMoreGood
  <2>3. NeverNull(heap) => NeverNull(h1)
    BY <1>7, StillNeverNull
  <2>4. NeverNull(h1) => NeverNull(h2)
    BY <1>9, <2>2, StillNeverNull
  <2>5. NeverNull(h2) => NeverNull(h3)
    BY <1>11, <2>2, StillNeverNull
  <2>6. NeverNull(h3) => NeverNull(g)
    BY <1>13, <2>2, StillNeverNull
  <2> QED
    BY <2>1, <2>3, <2>4, <2>5, <2>6
<1>21. n \in 1 .. Len(g) /\ g[n] = heap[n] /\ g[p] = heap[p]
  BY <1>6, <1>15 DEF Grows
<1>22. ASSUME NoNullLiteral(g), \A row \in Rows : heap[p].mean[row] # "null"
       PROVE  Replaces(g, n, m)
  <2>1. \A row \in Rows : g[p].mean[row] # "null"
    BY <1>21, <1>22
  <2>2. BooleanForm(g, n, m, Len(h1), Len(h2), Len(h3), p, t, f)
    BY <1>6, <1>16, <1>17, <1>18, <1>19, <1>21 DEF BooleanForm
  <2> QED
    BY <1>14, <1>16, <1>17, <1>18, <1>19, <1>21, <1>22, <2>1, <2>2, BooleanTernaryReplaces
<1> QED
  BY <1>1, <1>14, <1>15, <1>19, <1>20, <1>22 DEF Fresh

LEMMA NothingNew ==
  ASSUME GoodHeap(heap), NEW m \in 1 .. Len(heap)
  PROVE  Fresh(heap, m)
BY GrowsNot DEF Fresh

LEMMA BooleanLiteralsStep ==
  ASSUME GoodHeap(heap), NEW n \in 1 .. Len(heap),
         NEW g, NEW m, RewriteBooleanLiteralsNode(n) = [heap |-> g, node |-> m], m # n
  PROVE  Fresh(g, m) /\ (NoNullLiteral(heap) => Replaces(g, n, m))
<1>1. PICK l, r : l = Arg(n, 1) /\ r = Arg(n, 2)
  OBVIOUS
<1>2. \A x \in 1 .. Len(heap) : /\ True(x) <=> LitIs(heap, x, "true")
                                /\ NoNullLiteral(heap) => (Falsy(x) <=> LitIs(heap, x, "false"))
  BY DEF True, Falsy, Is, LitIs, NoNullLiteral
<1>3. Is(n, "And") => AndOf(heap, n, l, r)
  BY <1>1, AndIs DEF Is, Arg
<1>4. Is(n, "Or") => OrOf(heap, n, l, r)
  BY <1>1, OrIs DEF Is, Arg
<1>5. Is(n, "And") \/ Is(n, "Or") => l \in 1 .. Len(heap) /\ r \in 1 .. Len(heap)
  BY <1>3, <1>4 DEF AndOf, OrOf
<1>6. \A x : ~(True(x) /\ Falsy(x))
  BY DEF True, Falsy, Is
<1>7. ASSUME NEW b \in {"true", "false"}, [heap |-> g, node |-> m] = Newest(BoolLiteral(heap, b))
      PROVE  Fresh(g, m) /\ LitIs(g, m, b) /\ n \in 1 .. Len(g) /\ g[n] = heap[n]
  <2>1. g = BoolLiteral(heap, b) /\ m = Len(g)
    BY <1>7 DEF Newest
  <2>2. OneMore(heap, g, "BoolLiteral", b, <<>>)
    BY <1>7, <2>1, LiteralIsOneMore
  <2>3. Grows(heap, g) /\ GoodHeap(g)
    BY <2>2 DEF OneMore
  <2>4. m \in 1 .. Len(g) /\ LitIs(g, m, b)
    BY <2>1, <2>2, <2>3, GrowsNot DEF OneMore, Grows, LitIs
  <2>5. (NoNullLiteral(heap) => NoNullLiteral(g)) /\ (NeverNull(heap) => NeverNull(g))
    BY <2>2, StillNoNullLiteral, StillNeverNull
  <2> QED
    BY <2>3, <2>4, <2>5 DEF Fresh, Grows
<1>8. ASSUME NEW x, [heap |-> g, node |-> m] = Unchanged(x)
      PROVE  g = heap /\ m = x
  BY <1>8 DEF Unchanged
<1>9. CASE Is(n, "And") /\ (Falsy(l) \/ Falsy(r))
  <2>1. [heap |-> g, node |-> m] = Newest(BoolLiteral(heap, "false"))
    BY <1>1, <1>6, <1>9 DEF RewriteBooleanLiteralsNode, Is
  <2>2. Fresh(g, m) /\ LitIs(g, m, "false") /\ n \in 1 .. Len(g) /\ g[n] = heap[n]
    BY <1>7, <2>1
  <2>3. ASSUME NoNullLiteral(heap)
        PROVE  Replaces(g, n, m)
    <3>1. LitIs(heap, l, "false") \/ LitIs(heap, r, "false")
      BY <1>2, <1>5, <1>9, <2>3
    <3>2. g[l] = heap[l] /\ g[r] = heap[r]
      BY <1>5, <1>9, <2>2 DEF Fresh, Grows
    <3>3. LitIs(g, l, "false") \/ LitIs(g, r, "false")
      BY <3>1, <3>2 DEF LitIs
    <3>4. g[n].op = "And" /\ g[n].args[1] = l /\ g[n].args[2] = r
      BY <1>1, <1>9, <2>2 DEF Is, Arg
    <3> QED
      BY <2>2, <3>3, <3>4, AndFalseReplaces DEF Fresh
  <2> QED
    BY <2>2, <2>3
<1>10. CASE Is(n, "Or") /\ (True(l) \/ True(r))
  <2>1. [heap |-> g, node |-> m] = Newest(BoolLiteral(heap, "true"))
    BY <1>1, <1>6, <1>10 DEF RewriteBooleanLiteralsNode, Is
  <2>2. Fresh(g, m) /\ LitIs(g, m, "true") /\ n \in 1 .. Len(g) /\ g[n] = heap[n]
    BY <1>7, <2>1
  <2>3. Replaces(g, n, m)
    <3>1. LitIs(heap, l, "true") \/ LitIs(heap, r, "true")
      BY <1>2, <1>5, <1>10
    <3>2. g[l] = heap[l] /\ g[r] = heap[r]
      BY <1>5, <1>10, <2>2 DEF Fresh, Grows
    <3>3. LitIs(g, l, "true") \/ LitIs(g, r, "true")
      BY <3>1, <3>2 DEF LitIs
    <3>4. g[n].op = "Or" /\ g[n].args[1] = l /\ g[n].args[2] = r
      BY <1>1, <1>10, <2>2 DEF Is, Arg
    <3> QED
      BY <2>2, <3>3, <3>4, OrTrueReplaces DEF Fresh
  <2> QED
    BY <2>2, <2>3
<1>11. CASE Is(n, "And") /\ ~(Falsy(l) \/ Falsy(r))
  <2>1. CASE True(l)
    <3>1. [heap |-> g, node |-> m] = Unchanged(r)
      BY <1>1, <1>11, <2>1 DEF RewriteBooleanLiteralsNode, Is
    <3>2. LitIs(heap, l, "true")
      BY <1>2, <1>5, <1>11, <2>1
    <3>3. r \in 1 .. Len(heap) /\ Replaces(heap, n, r)
      BY <1>3, <1>11, <3>2, AndTrueReplaces DEF Is
    <3> QED
      BY <1>8, <3>1, <3>3, NothingNew
  <2>2. CASE ~True(l) /\ True(r)
    <3>1. [heap |-> g, node |-> m] = Unchanged(l)
      BY <1>1, <1>11, <2>2 DEF RewriteBooleanLiteralsNode, Is
    <3>2. LitIs(heap, r, "true")
      BY <1>2, <1>5, <1>11, <2>2
    <3>3. l \in 1 .. Len(heap) /\ Replaces(heap, n, l)
      BY <1>3, <1>11, <3>2, AndTrueReplaces DEF Is
    <3> QED
      BY <1>8, <3>1, <3>3, NothingNew
  <2>3. CASE ~True(l) /\ ~True(r)
    <3>1. [heap |-> g, node |-> m] = Unchanged(n)
      BY <1>1, <1>11, <2>3 DEF RewriteBooleanLiteralsNode, Is
    <3> QED
      BY <1>8, <3>1
  <2> QED
    BY <2>1, <2>2, <2>3
<1>12. CASE Is(n, "Or") /\ ~(True(l) \/ True(r))
  <2>1. CASE Falsy(l)
    <3>1. [heap |-> g, node |-> m] = Unchanged(r)
      BY <1>1, <1>12, <2>1 DEF RewriteBooleanLiteralsNode, Is
    <3>2. NoNullLiteral(heap) => LitIs(heap, l, "false")
      BY <1>2, <1>5, <1>12, <2>1
    <3>3. NoNullLiteral(heap) => Replaces(heap, n, r)
      BY <1>4, <1>12, <3>2, OrFalseReplaces DEF Is
    <3> QED
      BY <1>5, <1>8, <1>12, <3>1, <3>3, NothingNew
  <2>2. CASE ~Falsy(l) /\ Falsy(r)
    <3>1. [heap |-> g, node |-> m] = Unchanged(l)
      BY <1>1, <1>12, <2>2 DEF RewriteBooleanLiteralsNode, Is
    <3>2. NoNullLiteral(heap) => LitIs(heap, r, "false")
      BY <1>2, <1>5, <1>12, <2>2
    <3>3. NoNullLiteral(heap) => Replaces(heap, n, l)
      BY <1>4, <1>12, <3>2, OrFalseReplaces DEF Is
    <3> QED
      BY <1>5, <1>8, <1>12, <3>1, <3>3, NothingNew
  <2>3. CASE ~Falsy(l) /\ ~Falsy(r)
    <3>1. [heap |-> g, node |-> m] = Unchanged(n)
      BY <1>1, <1>12, <2>3 DEF RewriteBooleanLiteralsNode, Is
    <3> QED
      BY <1>8, <3>1
  <2> QED
    BY <2>1, <2>2, <2>3
<1>13. CASE ~Is(n, "And") /\ ~Is(n, "Or")
  <2>1. [heap |-> g, node |-> m] = Unchanged(n)
    BY <1>13 DEF RewriteBooleanLiteralsNode
  <2> QED
    BY <1>8, <2>1
<1> QED
  BY <1>9, <1>10, <1>11, <1>12, <1>13

-----------------------------------------------------------------------------
(* The invariant, one action at a time *)

LEMMA SameKeeps ==
  ASSUME scan' = scan, NEW h, NEW ph, NEW ns, NEW cm, NEW idx, NEW n, NEW root
  PROVE  Keeps(h, ph, ns, cm, idx, n, root)' <=> Keeps(h, ph, ns, cm, idx, n, root)
BY SameReplaces DEF Keeps

\* The invariant of the next state, over the table of this one.
LEMMA ShapedNext ==
  ASSUME scan' = scan, scan \in Scans, GoodHeap(heap'),
         stage' \in Rewriters \cup {"parse", "sql", "done"},
         stage' = "parse" => Len(heap') < Len(scan.filter),
         stage' # "parse" => Len(scan.filter) <= Len(heap') /\ node' \in 1 .. Len(heap'),
         stage' \in Rewriters => Walk(heap', phase', nodes', children_map', curr_idx', node'),
         operands' # <<>> => /\ stage' = "when" /\ phase' # "build"
                             /\ ChainOf(heap', node', operands'),
         \A n \in rewritten' : n \in 1 .. Len(heap') /\ heap'[n].op = "Ternary",
         stage' = "done" => restriction' = heap'[node'].sql.sql
  PROVE  Shaped'
<1>1. GoodHeap(heap)'
  BY SameGoodHeap
<1>2. operands' # <<>> => ChainOf(heap, node, operands)'
  BY SameChain
<1> QED
  BY <1>1, <1>2 DEF Shaped

LEMMA KeptNext ==
  ASSUME scan' = scan,
         Harmless' => /\ NoNullLiteral(heap')
                      /\ stage' \in Rewriters =>
                           Keeps(heap', phase', nodes', children_map', curr_idx', node',
                                 Len(scan.filter))
                      /\ stage' \in {"sql", "done"} => Replaces(heap', Len(scan.filter), node')
  PROVE  Kept'
<1>1. Harmless' /\ stage' \in Rewriters =>
         Keeps(heap, phase, nodes, children_map, curr_idx, node, Len(scan.filter))'
  BY SameKeeps
<1>2. Harmless' /\ stage' \in {"sql", "done"} => Replaces(heap, Len(scan.filter), node)'
  BY SameReplaces
<1> QED
  BY <1>1, <1>2 DEF Kept, NoNullLiteral

\* What was rewritten stays rewritten.
LEMMA HarmlessBefore ==
  ASSUME Shaped, scan' = scan, Grows(heap, heap'), rewritten \subseteq rewritten', Harmless'
  PROVE  Harmless
<1>1. Rows' = Rows
  BY SameRows
<1>2. \A i \in DOMAIN scan.filter : scan.filter[i].op # "NullLiteral"
  BY DEF Harmless
<1>3. ASSUME NEW n \in rewritten, NEW row \in Rows
      PROVE  heap[Arg(n, 1)].mean[row] # "null"
  <2>1. n \in 1 .. Len(heap) /\ heap[n].op = "Ternary" /\ GoodHeap(heap)
    BY <1>3 DEF Shaped
  <2>2. PICK p : p = heap[n].args[1]
    OBVIOUS
  <2>3. p \in 1 .. Len(heap)
    BY <2>1, <2>2, TernaryIs DEF TernaryOf
  <2>4. heap'[n] = heap[n] /\ heap'[p] = heap[p]
    BY <2>1, <2>3 DEF Grows
  <2>5. heap'[heap'[n].args[1]].mean[row] # "null"
    BY <1>1, <1>3 DEF Harmless, Arg
  <2> QED
    BY <2>2, <2>4, <2>5 DEF Arg
<1> QED
  BY <1>2, <1>3 DEF Harmless

LEMMA RewrittenStill ==
  ASSUME Shaped, Grows(heap, heap')
  PROVE  \A n \in rewritten : n \in 1 .. Len(heap') /\ heap'[n].op = "Ternary"
BY StillIn DEF Shaped

LEMMA FilterIsOne ==
  ASSUME scan \in Scans
  PROVE  /\ Len(scan.filter) \in Nat \ {0} /\ DOMAIN scan.filter = 1 .. Len(scan.filter)
         /\ \A i \in 1 .. Len(scan.filter) : IsNode(scan.filter[i], i - 1, scan.table)
BY ScansAssumption

LEMMA InitIInv ==
  ASSUME Init
  PROVE  IInv
<1>1. scan \in Scans /\ Len(scan.filter) \in Nat \ {0}
  BY FilterIsOne DEF Init
<1>2. Len(heap) = 0 /\ IsHeap(heap)
  <2>1. heap \in Seq({})
    BY DEF Init
  <2> QED
    BY <2>1 DEF IsHeap, Init
<1>3. GoodHeap(heap)
  BY <1>2 DEF GoodHeap
<1>4. Shaped
  BY <1>1, <1>2, <1>3 DEF Shaped, Init, Rewriters
<1>5. Kept
  BY <1>2 DEF Kept, Init, NoNullLiteral, Rewriters
<1> QED
  BY <1>4, <1>5 DEF IInv

LEMMA ParseIInv ==
  ASSUME IInv, Parse
  PROVE  IInv'
<1>1. /\ Shaped /\ Kept /\ stage = "parse" /\ scan' = scan /\ scan \in Scans /\ GoodHeap(heap)
      /\ Len(heap) < Len(scan.filter) /\ operands' = operands /\ rewritten' = rewritten
      /\ operands = <<>>
  BY DEF IInv, Shaped, Parse
<1>2. PICK n, i : i = Len(heap) + 1 /\ n = scan.filter[i]
  OBVIOUS
<1>3. heap' = New(heap, n)
  BY <1>2 DEF Parse
<1>4. Len(heap) \in Nat /\ Len(scan.filter) \in Nat
  BY <1>1, FilterIsOne, GrowsNot
<1>5. IsNode(n, Len(heap), scan.table)
  <2>1. i \in 1 .. Len(scan.filter) /\ i - 1 = Len(heap)
    BY <1>1, <1>2, <1>4
  <2> QED
    BY <1>1, <1>2, <2>1, FilterIsOne
<1>6. OneMore(heap, heap', n.op, n.val, n.args)
  BY <1>1, <1>3, <1>5, NewIsOneMore
<1>7. GoodHeap(heap') /\ Grows(heap, heap') /\ Len(heap') \in 1 .. Len(heap')
  BY <1>6, OneMoreGood
<1>8. Len(heap') = Len(heap) + 1
  BY <1>6 DEF OneMore
<1>9. \A m \in rewritten' : m \in 1 .. Len(heap') /\ heap'[m].op = "Ternary"
  BY <1>1, <1>7, RewrittenStill
<1>10. ASSUME Harmless'
       PROVE  NoNullLiteral(heap')
  <2>1. Harmless
    BY <1>1, <1>7, <1>10, HarmlessBefore
  <2>2. NoNullLiteral(heap)
    BY <1>1, <2>1 DEF Kept
  <2>3. n.op # "NullLiteral"
    <3>1. i \in 1 .. Len(scan.filter)
      BY <1>1, <1>2, <1>4
    <3>2. Harmless => \A k \in DOMAIN scan.filter : scan.filter[k].op # "NullLiteral"
      BY DEF Harmless
    <3> QED
      BY <1>1, <1>2, <2>1, <3>1, <3>2, FilterIsOne
  <2> QED
    BY <1>6, <2>2, <2>3, StillNoNullLiteral
<1>11. CASE Len(heap') = Len(scan.filter)
  <2>1. PICK root : root = Len(heap')
    OBVIOUS
  <2>2. /\ stage' = "boolean_when" /\ phase' = "down" /\ nodes' = <<root>> /\ children_map' = <<>>
        /\ curr_idx' = 1 /\ node' = root
    BY <1>11, <2>1 DEF Parse, Enter
  <2>3. Walk(heap', phase', nodes', children_map', curr_idx', node')
    BY <1>7, <2>1, <2>2, EnterWalks
  <2>4. Keeps(heap', phase', nodes', children_map', curr_idx', node', Len(scan.filter))
    BY <1>11, <2>1, <2>2, ReplacesSelf, EnterKeeps
  <2>5. Shaped'
    BY <1>1, <1>4, <1>7, <1>9, <1>11, <2>1, <2>2, <2>3, ShapedNext DEF Rewriters
  <2>6. Kept'
    BY <1>1, <1>10, <2>2, <2>4, KeptNext
  <2> QED
    BY <2>5, <2>6 DEF IInv
<1>12. CASE Len(heap') # Len(scan.filter)
  <2>1. stage' = "parse"
    BY <1>1, <1>12 DEF Parse
  <2>2. Len(heap') < Len(scan.filter)
    BY <1>1, <1>4, <1>8, <1>12
  <2>3. Shaped'
    BY <1>1, <1>7, <1>9, <2>1, <2>2, ShapedNext DEF Rewriters
  <2>4. Kept'
    BY <1>1, <1>10, <2>1, KeptNext DEF Rewriters
  <2> QED
    BY <2>3, <2>4 DEF IInv
<1> QED
  BY <1>11, <1>12

\* A state in which some rewriter is at work on the tree.
LEMMA AtWork ==
  ASSUME IInv, stage \in Rewriters
  PROVE  /\ Shaped /\ Kept /\ scan \in Scans /\ GoodHeap(heap)
         /\ node \in 1 .. Len(heap) /\ Len(scan.filter) \in 1 .. Len(heap)
         /\ Len(heap) \in Nat /\ Len(scan.filter) \in Nat
         /\ Walk(heap, phase, nodes, children_map, curr_idx, node)
         /\ Harmless => /\ NoNullLiteral(heap)
                        /\ Keeps(heap, phase, nodes, children_map, curr_idx, node, Len(scan.filter))
<1>1. stage # "parse"
  BY DEF Rewriters
<1>2. /\ Shaped /\ Kept /\ scan \in Scans /\ GoodHeap(heap) /\ node \in 1 .. Len(heap)
      /\ Len(scan.filter) <= Len(heap)
      /\ Walk(heap, phase, nodes, children_map, curr_idx, node)
  BY <1>1 DEF IInv, Shaped
<1>3. Len(scan.filter) \in Nat \ {0} /\ Len(heap) \in Nat
  BY <1>2, FilterIsOne, GrowsNot
<1>4. Len(scan.filter) \in 1 .. Len(heap)
  BY <1>2, <1>3
<1> QED
  BY <1>2, <1>3, <1>4 DEF Kept

\* One turn of a rewriter: the new node may stand for the old one, unless NULL decides.
LEMMA RewriteStep ==
  ASSUME IInv, Rewrite
  PROVE  /\ Fresh(heap', node')
         /\ \A n \in rewritten' : n \in rewritten \/ (n = node /\ heap[n].op = "Ternary")
         /\ rewritten \subseteq rewritten'
         /\ Harmless' /\ NoNullLiteral(heap) => Replaces(heap', node, node')
<1>1. PICK g, m : g = heap' /\ m = node'
  OBVIOUS
<1>2. /\ RewriteNode(node).heap = g /\ RewriteNode(node).node = m /\ m # node
      /\ stage \in Rewriters /\ scan' = scan
  BY <1>1 DEF Rewrite, Rewriting
<1>3. GoodHeap(heap) /\ node \in 1 .. Len(heap)
  BY <1>2, AtWork
<1>4. Unchanged(node).node = node
  BY DEF Unchanged
<1>5. CASE stage = "boolean_when"
  <2>1. PICK p, t, f : p = Arg(node, 1) /\ t = Arg(node, 2) /\ f = Arg(node, 3)
    OBVIOUS
  <2>2. RewriteNode(node) = RewriteBooleanWhenNode(node)
    BY <1>5 DEF RewriteNode
  <2>3. Is(node, "Ternary") /\ RewriteNode(node) = Newest(BooleanTernary(p, t, f))
    BY <1>2, <1>4, <2>1, <2>2 DEF RewriteBooleanWhenNode
  <2>4. Newest(BooleanTernary(p, t, f)) = [heap |-> g, node |-> m]
    BY <1>2, <2>3 DEF Newest
  <2>5. /\ Fresh(g, m)
        /\ NoNullLiteral(heap) /\ (\A row \in Rows : heap[p].mean[row] # "null") => Replaces(g, node, m)
    BY <1>3, <2>1, <2>3, <2>4, BooleanWhenStep
  <2>6. rewritten' = rewritten \cup {node}
    BY <1>5 DEF Rewrite
  <2>7. ASSUME Harmless'
        PROVE  \A row \in Rows : heap[p].mean[row] # "null"
    <3>1. Rows' = Rows
      BY <1>2, SameRows
    <3>2. heap'[node] = heap[node] /\ Grows(heap, g)
      BY <1>1, <1>3, <2>5, StillIn DEF Fresh
    <3>3. heap[node].args[1] = p /\ p \in 1 .. Len(heap)
      BY <1>3, <2>1, <2>3, TernaryIs DEF Is, Arg, TernaryOf
    <3>4. heap'[p] = heap[p]
      BY <1>1, <3>2, <3>3, StillIn
    <3>5. \A row \in Rows : heap'[heap'[node].args[1]].mean[row] # "null"
      BY <2>6, <2>7, <3>1 DEF Harmless, Arg
    <3> QED
      BY <3>2, <3>3, <3>4, <3>5
  <2>8. heap[node].op = "Ternary"
    BY <2>3 DEF Is
  <2> QED
    BY <1>1, <2>5, <2>6, <2>7, <2>8
<1>6. CASE stage # "boolean_when"
  <2>1. rewritten' = rewritten
    BY <1>6 DEF Rewrite
  <2>2. CASE stage = "boolean_literals"
    <3>1. RewriteNode(node) = RewriteBooleanLiteralsNode(node)
      BY <2>2 DEF RewriteNode
    <3>2. RewriteBooleanLiteralsNode(node) = [heap |-> g, node |-> m]
      <4>1. \E h, n : RewriteBooleanLiteralsNode(node) = [heap |-> h, node |-> n]
        BY DEF RewriteBooleanLiteralsNode, Unchanged, Newest
      <4> QED
        BY <1>2, <3>1, <4>1
    <3>3. Fresh(g, m) /\ (NoNullLiteral(heap) => Replaces(g, node, m))
      BY <1>2, <1>3, <3>2, BooleanLiteralsStep
    <3> QED
      BY <1>1, <2>1, <3>3
  <2>3. CASE stage = "de_morgan"
    <3>1. RewriteNode(node) = RewriteDeMorganNode(node)
      BY <2>3 DEF RewriteNode
    <3>2. Is(node, "Not") /\ Is(Arg(node, 1), "Or")
      BY <1>2, <1>4, <3>1 DEF RewriteDeMorganNode
    <3>3. RewriteDeMorganNode(node) = [heap |-> g, node |-> m]
      <4>1. \E h, n : RewriteDeMorganNode(node) = [heap |-> h, node |-> n]
        BY <3>2 DEF RewriteDeMorganNode, Newest
      <4> QED
        BY <1>2, <3>1, <4>1
    <3>4. Fresh(g, m) /\ (NoNullLiteral(heap) => Replaces(g, node, m))
      BY <1>3, <3>2, <3>3, DeMorganStep
    <3> QED
      BY <1>1, <2>1, <3>4
  <2>4. CASE stage = "when"
    <3>1. RewriteNode(node) = Unchanged(node)
      BY <2>4 DEF RewriteNode
    <3> QED
      BY <1>2, <1>4, <3>1
  <2> QED
    BY <1>2, <1>6, <2>2, <2>3, <2>4 DEF Rewriters
<1> QED
  BY <1>5, <1>6

LEMMA RewriteIInv ==
  ASSUME IInv, Rewrite
  PROVE  IInv'
<1>1. /\ stage \in Rewriters /\ phase # "build" /\ operands = <<>> /\ scan' = scan
      /\ stage' = stage /\ phase' = phase /\ nodes' = nodes /\ children_map' = children_map
      /\ curr_idx' = curr_idx /\ operands' = operands /\ restriction' = restriction
  BY DEF Rewrite, Rewriting
<1>2. /\ Shaped /\ scan \in Scans /\ GoodHeap(heap) /\ node \in 1 .. Len(heap)
      /\ Len(scan.filter) \in 1 .. Len(heap) /\ Len(heap) \in Nat /\ Len(scan.filter) \in Nat
      /\ Walk(heap, phase, nodes, children_map, curr_idx, node)
      /\ Harmless => /\ NoNullLiteral(heap)
                     /\ Keeps(heap, phase, nodes, children_map, curr_idx, node, Len(scan.filter))
  BY <1>1, AtWork
<1>3. /\ GoodHeap(heap') /\ Grows(heap, heap') /\ node' \in 1 .. Len(heap')
      /\ NoNullLiteral(heap) => NoNullLiteral(heap')
  BY RewriteStep DEF Fresh
<1>4. Walk(heap', phase, nodes, children_map, curr_idx, node')
  BY <1>2, <1>3, WalkGrows
<1>5. \A n \in rewritten' : n \in 1 .. Len(heap') /\ heap'[n].op = "Ternary"
  <2>1. \A n \in rewritten' : n \in rewritten \/ (n = node /\ heap[n].op = "Ternary")
    BY RewriteStep
  <2>2. \A n \in rewritten : n \in 1 .. Len(heap') /\ heap'[n].op = "Ternary"
    BY <1>2, <1>3, RewrittenStill
  <2>3. node \in 1 .. Len(heap') /\ heap'[node] = heap[node]
    BY <1>2, <1>3, StillIn
  <2> QED
    BY <2>1, <2>2, <2>3
<1>6. Len(scan.filter) <= Len(heap')
  BY <1>2, <1>3 DEF Grows
<1>7. stage' \in Rewriters /\ stage' # "parse" /\ stage' # "done" /\ stage' # "sql"
  BY <1>1 DEF Rewriters
<1>8. Shaped'
  BY <1>1, <1>2, <1>3, <1>4, <1>5, <1>6, <1>7, ShapedNext
<1>9. ASSUME Harmless'
      PROVE  /\ NoNullLiteral(heap')
             /\ Keeps(heap', phase, nodes, children_map, curr_idx, node', Len(scan.filter))
  <2>1. Harmless
    BY <1>1, <1>2, <1>3, <1>9, RewriteStep, HarmlessBefore
  <2>2. Replaces(heap', node, node')
    BY <1>2, <1>9, <2>1, RewriteStep
  <2>3. Keeps(heap', phase, nodes, children_map, curr_idx, node, Len(scan.filter))
    BY <1>2, <1>3, <2>1, KeepsGrows
  <2> QED
    BY <1>1, <1>2, <1>3, <2>1, <2>2, <2>3, KeepsNode
<1>10. Kept'
  BY <1>1, <1>7, <1>9, KeptNext
<1> QED
  BY <1>8, <1>10 DEF IInv

LEMMA BeginChainIInv ==
  ASSUME IInv, BeginChain
  PROVE  IInv'
<1>1. /\ stage \in Rewriters /\ stage = "when" /\ phase # "build" /\ scan' = scan
      /\ heap' = heap /\ node' = node
      /\ stage' = stage /\ phase' = phase /\ nodes' = nodes /\ children_map' = children_map
      /\ curr_idx' = curr_idx /\ restriction' = restriction /\ rewritten' = rewritten
  BY DEF BeginChain, Rewriting
<1>2. /\ Shaped /\ scan \in Scans /\ GoodHeap(heap) /\ node \in 1 .. Len(heap)
      /\ Len(scan.filter) <= Len(heap)
      /\ Walk(heap, phase, nodes, children_map, curr_idx, node)
      /\ Harmless => /\ NoNullLiteral(heap)
                     /\ Keeps(heap, phase, nodes, children_map, curr_idx, node, Len(scan.filter))
  <2>1. Len(scan.filter) <= Len(heap)
    BY <1>1 DEF IInv, Shaped
  <2> QED
    BY <1>1, <2>1, AtWork
<1>3. ChainOf(heap', node', operands')
  BY <1>1, <1>2, ChainBegins DEF BeginChain, IsChain, Is
<1>4. Grows(heap, heap')
  BY <1>1, <1>2, GrowsNot
<1>5. \A n \in rewritten' : n \in 1 .. Len(heap') /\ heap'[n].op = "Ternary"
  BY <1>1, <1>2, <1>4, RewrittenStill
<1>6. Shaped'
  BY <1>1, <1>2, <1>3, <1>5, ShapedNext
<1>7. Harmless' => Harmless
  BY <1>1, <1>2, <1>4, HarmlessBefore
<1>8. Kept'
  BY <1>1, <1>2, <1>7, KeptNext
<1> QED
  BY <1>6, <1>8 DEF IInv

LEMMA WalkChainIInv ==
  ASSUME IInv, WalkChain
  PROVE  IInv'
<1>1. /\ operands # <<>> /\ scan' = scan
      /\ stage' = stage /\ phase' = phase /\ nodes' = nodes /\ children_map' = children_map
      /\ curr_idx' = curr_idx /\ restriction' = restriction /\ rewritten' = rewritten
  BY DEF WalkChain
<1>2. stage = "when" /\ phase # "build" /\ ChainOf(heap, node, operands) /\ stage \in Rewriters
  BY <1>1 DEF IInv, Shaped, Rewriters
<1>3. /\ Shaped /\ scan \in Scans /\ GoodHeap(heap) /\ node \in 1 .. Len(heap)
      /\ Len(scan.filter) \in 1 .. Len(heap) /\ Len(heap) \in Nat /\ Len(scan.filter) \in Nat
      /\ Walk(heap, phase, nodes, children_map, curr_idx, node)
      /\ Harmless => /\ NoNullLiteral(heap)
                     /\ Keeps(heap, phase, nodes, children_map, curr_idx, node, Len(scan.filter))
  BY <1>2, AtWork
<1>4. PICK curr : curr = operands[Len(operands)]
  OBVIOUS
<1>5. CASE Is(curr, "Ternary")
  <2>1. /\ operands' = SubSeq(operands, 1, Len(operands) - 1) \o heap[curr].args
        /\ heap' = heap /\ node' = node
    BY <1>4, <1>5 DEF WalkChain
  <2>2. ChainOf(heap', node', operands')
    BY <1>2, <1>3, <1>4, <1>5, <2>1, ChainWalks DEF Is
  <2>3. Grows(heap, heap')
    BY <1>3, <2>1, GrowsNot
  <2>4. \A n \in rewritten' : n \in 1 .. Len(heap') /\ heap'[n].op = "Ternary"
    BY <1>1, <1>3, <2>3, RewrittenStill
  <2>5. Len(scan.filter) <= Len(heap)
    BY <1>3
  <2>6. Shaped'
    BY <1>1, <1>2, <1>3, <2>1, <2>2, <2>4, <2>5, ShapedNext
  <2>7. Harmless' => Harmless
    BY <1>1, <1>3, <2>3, HarmlessBefore
  <2>8. Kept'
    BY <1>1, <1>2, <1>3, <2>1, <2>7, KeptNext
  <2> QED
    BY <2>6, <2>8 DEF IInv
<1>6. CASE ~Is(curr, "Ternary")
  <2>1. heap' = Operator(heap, "When", operands) /\ node' = Len(heap') /\ operands' = <<>>
    BY <1>4, <1>6 DEF WalkChain
  <2>2. operands \in Seq(1 .. Len(heap)) /\ Arity("When", Len(operands))
    BY <1>2 DEF ChainOf, Arity
  <2>3. OneMore(heap, heap', "When", "", operands)
    BY <1>3, <2>1, <2>2, OperatorIsOneMore
  <2>4. GoodHeap(heap') /\ Grows(heap, heap') /\ node' \in 1 .. Len(heap')
    BY <2>1, <2>3, OneMoreGood
  <2>5. Walk(heap', phase, nodes, children_map, curr_idx, node')
    BY <1>3, <2>4, WalkGrows
  <2>6. \A n \in rewritten' : n \in 1 .. Len(heap') /\ heap'[n].op = "Ternary"
    BY <1>1, <1>3, <2>4, RewrittenStill
  <2>7. Len(scan.filter) <= Len(heap')
    BY <1>3, <2>4 DEF Grows
  <2>8. Shaped'
    BY <1>1, <1>2, <1>3, <2>1, <2>4, <2>5, <2>6, <2>7, ShapedNext
  <2>9. ASSUME Harmless'
        PROVE  /\ NoNullLiteral(heap')
               /\ Keeps(heap', phase, nodes, children_map, curr_idx, node', Len(scan.filter))
    <3>1. Harmless
      BY <1>1, <1>3, <2>4, <2>9, HarmlessBefore
    <3>2. NoNullLiteral(heap')
      BY <1>3, <2>3, <3>1, StillNoNullLiteral
    <3>3. heap'[node'].op = "When" /\ heap'[node'].args = operands
      BY <2>1, <2>3 DEF OneMore
    <3>4. ChainOf(heap', node, operands)
      BY <1>2, <1>3, <2>4, ChainStill
    <3>5. Replaces(heap', node, node')
      BY <2>4, <3>2, <3>3, <3>4, ChainReplaces
    <3>6. Keeps(heap', phase, nodes, children_map, curr_idx, node, Len(scan.filter))
      BY <1>3, <2>4, <3>1, KeepsGrows
    <3> QED
      BY <1>2, <3>2, <3>5, <3>6, KeepsNode
  <2>10. Kept'
    BY <1>1, <1>2, <2>9, KeptNext
  <2> QED
    BY <2>8, <2>10 DEF IInv
<1> QED
  BY <1>5, <1>6

LEMMA ExpandIInv ==
  ASSUME IInv, Expand
  PROVE  IInv'
<1>1. /\ stage \in Rewriters /\ phase = "down" /\ operands = <<>> /\ scan' = scan /\ heap' = heap
      /\ stage' = stage /\ operands' = operands /\ restriction' = restriction
      /\ rewritten' = rewritten
  BY DEF Expand, Fixed, Rewriting
<1>2. /\ Shaped /\ scan \in Scans /\ GoodHeap(heap) /\ node \in 1 .. Len(heap)
      /\ Len(scan.filter) \in 1 .. Len(heap) /\ Len(heap) \in Nat /\ Len(scan.filter) \in Nat
      /\ Walk(heap, "down", nodes, children_map, curr_idx, node)
      /\ Harmless => /\ NoNullLiteral(heap)
                     /\ Keeps(heap, "down", nodes, children_map, curr_idx, node, Len(scan.filter))
  BY <1>1, AtWork
<1>3. Expanded(heap, nodes, children_map, curr_idx, node, nodes', children_map')
  <2>1. /\ nodes' = [nodes EXCEPT ![curr_idx] = node] \o heap[node].args
        /\ children_map' = Append(children_map, [i \in DOMAIN heap[node].args |-> Len(nodes) + i])
    BY DEF Expand
  <2> QED
    BY <1>2, <2>1, ExpandIs
<1>4. Walk(heap, phase', nodes', children_map', curr_idx', node')
  <2>1. CASE curr_idx < Len(nodes')
    <3>1. phase' = "down" /\ curr_idx' = curr_idx + 1 /\ node' = nodes'[curr_idx + 1]
      BY <2>1 DEF Expand
    <3> QED
      BY <1>2, <1>3, <2>1, <3>1, ExpandWalks
  <2>2. CASE ~(curr_idx < Len(nodes'))
    <3>1. phase' = "build" /\ curr_idx' = curr_idx /\ node' = node
      BY <2>2 DEF Expand
    <3> QED
      BY <1>2, <1>3, <2>2, <3>1, ExpandWalks
  <2> QED
    BY <2>1, <2>2
<1>5. Harmless => Keeps(heap, phase', nodes', children_map', curr_idx', node', Len(scan.filter))
  <2>1. CASE curr_idx < Len(nodes')
    <3>1. phase' = "down" /\ curr_idx' = curr_idx + 1 /\ node' = nodes'[curr_idx + 1]
      BY <2>1 DEF Expand
    <3> QED
      BY <1>2, <1>3, <2>1, <3>1, ExpandKeeps
  <2>2. CASE ~(curr_idx < Len(nodes'))
    <3>1. phase' = "build" /\ curr_idx' = curr_idx /\ node' = node
      BY <2>2 DEF Expand
    <3> QED
      BY <1>2, <1>3, <2>2, <3>1, ExpandKeeps
  <2> QED
    BY <2>1, <2>2
<1>6. node' \in 1 .. Len(heap)
  BY <1>4 DEF Walk
<1>7. Grows(heap, heap')
  BY <1>1, <1>2, GrowsNot
<1>8. \A n \in rewritten' : n \in 1 .. Len(heap') /\ heap'[n].op = "Ternary"
  BY <1>1, <1>2, <1>7, RewrittenStill
<1>9. stage' \in Rewriters /\ stage' # "parse" /\ stage' # "done" /\ stage' # "sql"
  BY <1>1 DEF Rewriters
<1>10. Len(scan.filter) <= Len(heap)
  BY <1>2
<1>11. Shaped'
  BY <1>1, <1>2, <1>4, <1>6, <1>8, <1>9, <1>10, ShapedNext
<1>12. Harmless' => Harmless
  BY <1>1, <1>2, <1>7, HarmlessBefore
<1>13. Kept'
  BY <1>1, <1>2, <1>5, <1>9, <1>12, KeptNext
<1> QED
  BY <1>11, <1>13 DEF IInv

\* replace_children for the node at hand.
LEMMA BuildStep ==
  ASSUME IInv, Build
  PROVE  /\ GoodHeap(heap') /\ Grows(heap, heap') /\ node' \in 1 .. Len(heap')
         /\ Harmless => NoNullLiteral(heap') /\ Replaces(heap', nodes[curr_idx], node')
         /\ NeverNull(heap) => NeverNull(heap')
<1>1. stage \in Rewriters /\ phase = "build"
  BY DEF Build
<1>2. /\ GoodHeap(heap) /\ Walk(heap, "build", nodes, children_map, curr_idx, node)
      /\ Len(scan.filter) \in 1 .. Len(heap)
      /\ Harmless => /\ NoNullLiteral(heap)
                     /\ Keeps(heap, "build", nodes, children_map, curr_idx, node, Len(scan.filter))
  BY <1>1, AtWork
<1>3. PICK n, kids : n = nodes[curr_idx] /\ kids = children_map[curr_idx]
  OBVIOUS
<1>4. PICK children : children = [i \in DOMAIN kids |-> nodes[kids[i]]]
  OBVIOUS
<1>5. ReplaceChildren(n, children)
  BY <1>3, <1>4 DEF Build
<1>6. curr_idx \in 1 .. Top("build", curr_idx) /\ curr_idx \in Nat
  BY <1>2 DEF Walk, Top
<1>7. /\ n \in 1 .. Len(heap) /\ DOMAIN kids = DOMAIN heap[n].args
      /\ \A c \in DOMAIN kids : nodes[kids[c]] \in 1 .. Len(heap)
  BY <1>2, <1>3, <1>6, WalkFacts
<1>8. heap[n].args \in Seq(1 .. Len(heap))
  BY <1>2, <1>7, NodeFacts
<1>9. /\ children \in Seq(1 .. Len(heap)) /\ Len(children) = Len(heap[n].args)
      /\ DOMAIN children = DOMAIN heap[n].args
      /\ \A c \in DOMAIN heap[n].args : children[c] = nodes[kids[c]]
  <2>1. PICK d \in Nat : DOMAIN heap[n].args = 1 .. d /\ d = Len(heap[n].args)
    BY <1>8
  <2>2. children = [i \in 1 .. d |-> nodes[kids[i]]] /\ \A c \in 1 .. d : nodes[kids[c]] \in 1 .. Len(heap)
    BY <1>4, <1>7, <2>1
  <2>3. children \in Seq(1 .. Len(heap)) /\ Len(children) = d /\ DOMAIN children = 1 .. d
    BY <2>2
  <2> QED
    BY <2>1, <2>2, <2>3
<1>10. CASE children = heap[n].args
  <2>1. heap' = heap /\ node' = n
    BY <1>5, <1>10 DEF ReplaceChildren
  <2> QED
    BY <1>2, <1>3, <1>7, <2>1, GrowsNot, ReplacesSelf
<1>11. CASE children # heap[n].args
  <2>1. PICK new : new = Node(heap[n].op, heap[n].val, children)
    OBVIOUS
  <2>2. heap' = New(heap, new) /\ node' = Len(heap')
    BY <1>5, <1>11, <2>1 DEF ReplaceChildren
  <2>3. new.op = heap[n].op /\ new.val = heap[n].val /\ new.args = children
    BY <2>1 DEF Node
  <2>4. IsNode(heap[n], n - 1, scan.table)
    BY <1>2, <1>7 DEF GoodHeap, GoodNode
  <2>5. IsNode(new, Len(heap), scan.table)
    BY <1>9, <2>3, <2>4 DEF IsNode
  <2>6. OneMore(heap, heap', heap[n].op, heap[n].val, children)
    BY <1>2, <2>2, <2>3, <2>5, NewIsOneMore
  <2>7. GoodHeap(heap') /\ Grows(heap, heap') /\ node' \in 1 .. Len(heap')
    BY <2>2, <2>6, OneMoreGood
  <2>8. /\ heap'[node'].op = heap[n].op /\ heap'[node'].val = heap[n].val
        /\ heap'[node'].args = children
    BY <2>2, <2>6 DEF OneMore
  <2>9. n \in 1 .. Len(heap') /\ heap'[n] = heap[n]
    BY <1>7, <2>7, StillIn
  <2>10. ASSUME Harmless
         PROVE  NoNullLiteral(heap') /\ Replaces(heap', n, node')
    <3>1. NoNullLiteral(heap) /\ heap[n].op # "NullLiteral"
      BY <1>2, <1>7, <2>10 DEF NoNullLiteral
    <3>2. NoNullLiteral(heap')
      BY <2>6, <3>1, StillNoNullLiteral
    <3>3. ASSUME NEW c \in DOMAIN heap[n].args
          PROVE  Replaces(heap', heap[n].args[c], children[c])
      <4>1. Replaces(heap, heap[n].args[c], nodes[kids[c]])
        BY <1>2, <1>3, <1>6, <1>7, <2>10, <3>3 DEF Keeps
      <4>2. heap[n].args[c] \in 1 .. Len(heap) /\ nodes[kids[c]] \in 1 .. Len(heap)
        BY <1>7, <1>8, <3>3
      <4> QED
        BY <1>9, <2>7, <3>3, <4>1, <4>2, ReplacesStill
    <3>4. \A c \in DOMAIN heap'[n].args : Replaces(heap', heap'[n].args[c], heap'[node'].args[c])
      BY <2>8, <2>9, <3>3
    <3>5. Len(heap'[node'].args) = Len(heap'[n].args)
      BY <1>9, <2>8, <2>9
    <3>6. Replaces(heap', n, node')
      <4>1. PICK g, j : g = heap' /\ j = node'
        OBVIOUS
      <4>2. /\ GoodHeap(g) /\ NoNullLiteral(g) /\ n \in 1 .. Len(g) /\ j \in 1 .. Len(g)
            /\ g[j].op = g[n].op /\ g[j].val = g[n].val /\ Len(g[j].args) = Len(g[n].args)
            /\ \A c \in DOMAIN g[n].args : Replaces(g, g[n].args[c], g[j].args[c])
        BY <2>7, <2>8, <2>9, <3>2, <3>4, <3>5, <4>1
      <4>3. Replaces(g, n, j)
        BY <4>2, ReplacedChildren
      <4> QED
        BY <4>1, <4>3
    <3> QED
      BY <3>2, <3>6
  <2>11. NeverNull(heap) => NeverNull(heap')
    <3>1. NeverNull(heap) => /\ heap[n].op # "NullLiteral"
                             /\ heap[n].op \in {"Column", "Unsupported"} =>
                                  \A row \in Rows : scan.table[row][heap[n].val] # "null"
      BY <1>7 DEF NeverNull
    <3> QED
      BY <1>2, <2>6, <3>1, StillNeverNull
  <2> QED
    BY <1>3, <2>7, <2>10, <2>11
<1> QED
  BY <1>10, <1>11

LEMMA BuildIInv ==
  ASSUME IInv, Build
  PROVE  IInv'
<1>1. /\ stage \in Rewriters /\ phase = "build" /\ phase' = "up" /\ scan' = scan
      /\ stage' = stage /\ operands' = operands /\ restriction' = restriction
      /\ rewritten' = rewritten /\ nodes' = nodes /\ children_map' = children_map
      /\ curr_idx' = curr_idx
  BY DEF Build
<1>2. /\ Shaped /\ scan \in Scans /\ GoodHeap(heap) /\ node \in 1 .. Len(heap)
      /\ Len(scan.filter) \in 1 .. Len(heap) /\ Len(heap) \in Nat /\ Len(scan.filter) \in Nat
      /\ Walk(heap, "build", nodes, children_map, curr_idx, node)
      /\ Harmless => /\ NoNullLiteral(heap)
                     /\ Keeps(heap, "build", nodes, children_map, curr_idx, node, Len(scan.filter))
  BY <1>1, AtWork
<1>3. /\ GoodHeap(heap') /\ Grows(heap, heap') /\ node' \in 1 .. Len(heap')
      /\ Harmless => NoNullLiteral(heap') /\ Replaces(heap', nodes[curr_idx], node')
  BY BuildStep
<1>4. operands' = <<>>
  BY <1>1 DEF IInv, Shaped
<1>5. Top("up", curr_idx) = Top("build", curr_idx)
  BY DEF Top
<1>6. Walk(heap', "up", nodes, children_map, curr_idx, node')
  <2>1. Walk(heap', "build", nodes, children_map, curr_idx, node')
    BY <1>2, <1>3, WalkGrows
  <2> QED
    BY <1>5, <2>1 DEF Walk
<1>7. \A n \in rewritten' : n \in 1 .. Len(heap') /\ heap'[n].op = "Ternary"
  BY <1>1, <1>2, <1>3, RewrittenStill
<1>8. stage' \in Rewriters /\ stage' # "parse" /\ stage' # "done" /\ stage' # "sql"
  BY <1>1 DEF Rewriters
<1>9. Len(scan.filter) <= Len(heap')
  BY <1>2, <1>3 DEF Grows
<1>10. Shaped'
  BY <1>1, <1>2, <1>3, <1>4, <1>6, <1>7, <1>8, <1>9, ShapedNext
<1>11. ASSUME Harmless'
       PROVE  /\ NoNullLiteral(heap')
              /\ Keeps(heap', "up", nodes, children_map, curr_idx, node', Len(scan.filter))
  <2>1. Harmless
    BY <1>1, <1>2, <1>3, <1>11, HarmlessBefore
  <2>2. Keeps(heap', "build", nodes, children_map, curr_idx, node, Len(scan.filter))
    BY <1>2, <1>3, <2>1, KeepsGrows
  <2> QED
    BY <1>3, <1>5, <2>1, <2>2 DEF Keeps
<1>12. Kept'
  BY <1>1, <1>8, <1>11, KeptNext
<1> QED
  BY <1>10, <1>12 DEF IInv

\* The end of a turn of the second loop, with list for nodes.
LEMMA AscendIInv ==
  ASSUME IInv, stage \in Rewriters, phase # "down", operands = <<>>, NEW list, NEW marks,
         list \in Seq(1 .. Len(heap)), Len(list) = Len(nodes),
         \A k \in 1 .. Len(nodes) : k # curr_idx => list[k] = nodes[k],
         Harmless => Replaces(heap, nodes[curr_idx], list[curr_idx]),
         Ascend(list, marks),
         UNCHANGED <<scan, heap, operands, rewritten, restriction>>
  PROVE  IInv'
<1>1. /\ scan' = scan /\ heap' = heap /\ operands' = <<>> /\ rewritten' = rewritten
      /\ restriction' = restriction
  OBVIOUS
<1>2. /\ Shaped /\ scan \in Scans /\ GoodHeap(heap) /\ node \in 1 .. Len(heap)
      /\ Len(scan.filter) \in 1 .. Len(heap) /\ Len(heap) \in Nat /\ Len(scan.filter) \in Nat
      /\ Walk(heap, phase, nodes, children_map, curr_idx, node)
      /\ Harmless => /\ NoNullLiteral(heap)
                     /\ Keeps(heap, phase, nodes, children_map, curr_idx, node, Len(scan.filter))
  BY AtWork
<1>3. curr_idx \in 1 .. Len(nodes) /\ Len(nodes) \in Nat
  BY <1>2 DEF Walk
<1>4. Grows(heap, heap')
  BY <1>1, <1>2, GrowsNot
<1>5. \A n \in rewritten' : n \in 1 .. Len(heap') /\ heap'[n].op = "Ternary"
  BY <1>1, <1>2, <1>4, RewrittenStill
<1>6. Harmless' => Harmless
  BY <1>1, <1>2, <1>4, HarmlessBefore
<1>7. Len(scan.filter) <= Len(heap)
  BY <1>2
<1>8. CASE curr_idx > 1
  <2>1. /\ nodes' = list /\ curr_idx' = curr_idx - 1 /\ phase' = "build" /\ stage' = stage
        /\ children_map' = children_map /\ node' = node
    BY <1>8 DEF Ascend
  <2>2. Walk(heap, "build", list, children_map, curr_idx - 1, node)
    BY <1>2, <1>8, AscendWalks
  <2>3. stage' \in Rewriters /\ stage' # "parse" /\ stage' # "done" /\ stage' # "sql"
    BY <2>1 DEF Rewriters
  <2>4. Shaped'
    BY <1>1, <1>2, <1>5, <1>7, <2>1, <2>2, <2>3, ShapedNext
  <2>5. Harmless => Keeps(heap, "build", list, children_map, curr_idx - 1, node, Len(scan.filter))
    BY <1>2, <1>8, AscendKeeps
  <2>6. Kept'
    BY <1>1, <1>2, <1>6, <2>1, <2>3, <2>5, KeptNext
  <2> QED
    BY <2>4, <2>6 DEF IInv
<1>9. CASE ~(curr_idx > 1)
  <2>1. curr_idx = 1
    BY <1>3, <1>9
  <2>2. PICK root : root = list[1]
    OBVIOUS
  <2>3. Enter(Following[stage], root)
    BY <1>9, <2>2 DEF Ascend
  <2>4. /\ stage' = Following[stage] /\ phase' = "down" /\ nodes' = <<root>> /\ children_map' = <<>>
        /\ curr_idx' = 1 /\ node' = root
    BY <2>3 DEF Enter
  <2>5. stage' \in Rewriters \cup {"sql"} /\ stage' # "parse" /\ stage' # "done"
    BY <2>4 DEF Following, Rewriters
  <2>6. root \in 1 .. Len(heap)
    <3>1. 1 \in 1 .. Len(list)
      BY <1>3
    <3> QED
      BY <2>2, <3>1, SeqAt
  <2>7. Walk(heap', phase', nodes', children_map', curr_idx', node')
    BY <1>1, <2>4, <2>6, EnterWalks
  <2>8. Harmless => Replaces(heap, Len(scan.filter), root)
    <3>1. Harmless => Replaces(heap, Len(scan.filter), nodes[1])
      BY <1>2 DEF Keeps
    <3> QED
      BY <2>1, <2>2, <3>1, ReplacesTwice
  <2>9. Harmless => Keeps(heap', phase', nodes', children_map', curr_idx', node', Len(scan.filter))
    BY <1>1, <2>4, <2>8, EnterKeeps
  <2>10. Shaped'
    <3>1. stage' \in Rewriters \cup {"parse", "sql", "done"}
      BY <2>5
    <3> QED
      BY <1>1, <1>2, <1>5, <1>7, <2>4, <2>5, <2>6, <2>7, <3>1, ShapedNext
  <2>11. Kept'
    BY <1>1, <1>2, <1>6, <2>4, <2>8, <2>9, KeptNext
  <2> QED
    BY <2>10, <2>11 DEF IInv
<1> QED
  BY <1>8, <1>9

LEMMA LeafIInv ==
  ASSUME IInv, Leaf
  PROVE  IInv'
<1>1. /\ stage \in Rewriters /\ phase = "build" /\ Ascend(nodes, boolean_nodes)
      /\ UNCHANGED <<scan, heap, operands, rewritten, restriction>>
  BY DEF Leaf
<1>2. operands = <<>>
  BY <1>1 DEF IInv, Shaped
<1>3. nodes \in Seq(1 .. Len(heap))
  BY <1>1, AtWork DEF Walk
<1> QED
  BY <1>1, <1>2, <1>3, ReplacesSelf, AscendIInv

LEMMA RebuiltIInv ==
  ASSUME IInv, Rebuilt
  PROVE  IInv'
<1>1. PICK list : list = [nodes EXCEPT ![curr_idx] = node]
  OBVIOUS
<1>2. /\ stage \in Rewriters /\ phase = "up" /\ operands = <<>> /\ Ascend(list, Marks)
      /\ UNCHANGED <<scan, heap, operands, rewritten, restriction>>
  BY <1>1 DEF Rebuilt, Fixed, Rewriting
<1>3. /\ nodes \in Seq(1 .. Len(heap)) /\ curr_idx \in 1 .. Len(nodes) /\ node \in 1 .. Len(heap)
  BY <1>2, AtWork DEF Walk
<1>4. /\ list \in Seq(1 .. Len(heap)) /\ Len(list) = Len(nodes) /\ list[curr_idx] = node
      /\ \A k \in 1 .. Len(nodes) : k # curr_idx => list[k] = nodes[k]
  <2>1. PICK S : S = 1 .. Len(heap)
    OBVIOUS
  <2>2. nodes \in Seq(S) /\ node \in S
    BY <1>3, <2>1
  <2>3. /\ list \in Seq(S) /\ Len(list) = Len(nodes) /\ list[curr_idx] = node
        /\ \A k \in 1 .. Len(nodes) : k # curr_idx => list[k] = nodes[k]
    BY <1>1, <1>3, <2>2
  <2> QED
    BY <2>1, <2>3
<1>5. Harmless => Replaces(heap, nodes[curr_idx], list[curr_idx])
  BY <1>2, <1>4, AtWork DEF Keeps
<1> QED
  BY <1>2, <1>4, <1>5, AscendIInv

LEMMA IrToSqlIInv ==
  ASSUME IInv, IrToSql
  PROVE  IInv'
<1>1. /\ stage = "sql" /\ stage' = "done" /\ restriction' = heap[node].sql.sql
      /\ scan' = scan /\ heap' = heap /\ node' = node /\ operands' = operands
      /\ rewritten' = rewritten
  BY DEF IrToSql
<1>2. /\ Shaped /\ Kept /\ scan \in Scans /\ GoodHeap(heap) /\ node \in 1 .. Len(heap)
      /\ Len(scan.filter) <= Len(heap) /\ operands = <<>>
  BY <1>1 DEF IInv, Shaped
<1>3. Grows(heap, heap')
  BY <1>1, <1>2, GrowsNot
<1>4. \A n \in rewritten' : n \in 1 .. Len(heap') /\ heap'[n].op = "Ternary"
  BY <1>1, <1>2, <1>3, RewrittenStill
<1>5. Shaped'
  BY <1>1, <1>2, <1>4, ShapedNext DEF Rewriters
<1>6. Harmless' => Harmless
  BY <1>1, <1>2, <1>3, HarmlessBefore
<1>7. Kept'
  <2>1. Harmless => NoNullLiteral(heap) /\ Replaces(heap, Len(scan.filter), node)
    BY <1>1, <1>2 DEF Kept
  <2> QED
    BY <1>1, <1>6, <2>1, KeptNext DEF Rewriters
<1> QED
  BY <1>5, <1>7 DEF IInv

LEMMA StutterIInv ==
  ASSUME IInv, UNCHANGED vars
  PROVE  IInv'
<1>1. /\ scan' = scan /\ heap' = heap /\ stage' = stage /\ phase' = phase /\ nodes' = nodes
      /\ children_map' = children_map /\ curr_idx' = curr_idx /\ node' = node
      /\ operands' = operands /\ rewritten' = rewritten /\ restriction' = restriction
  BY DEF vars
<1>2. Shaped /\ Kept
  BY DEF IInv
<1>3. GoodHeap(heap) /\ Grows(heap, heap')
  BY <1>1, <1>2, GrowsNot DEF Shaped
<1>4. Shaped'
  BY <1>1, <1>2, ShapedNext DEF Shaped
<1>5. Harmless' => Harmless
  BY <1>1, <1>2, <1>3, HarmlessBefore
<1>6. Kept'
  BY <1>1, <1>2, <1>5, KeptNext DEF Kept
<1> QED
  BY <1>4, <1>6 DEF IInv

-----------------------------------------------------------------------------
(* Theorems *)

LEMMA NextIInv ==
  ASSUME IInv, [Next]_vars
  PROVE  IInv'
BY ParseIInv, RewriteIInv, BeginChainIInv, WalkChainIInv, ExpandIInv, BuildIInv, LeafIInv,
   RebuiltIInv, IrToSqlIInv, StutterIInv DEF Next, Done

\* The lists of rewrite_tree are in order, every node's SQL follows from those of its
\* operands, and as long as NULL decides nothing each node may stand for the one before it.
THEOREM Invariance == Spec => []IInv
<1>1. Init => IInv
  BY InitIInv
<1>2. IInv /\ [Next]_vars => IInv'
  BY NextIInv
<1> QED
  BY <1>1, <1>2, PTL DEF Spec

LEMMA AtTheEnd ==
  ASSUME IInv, stage = "done", Harmless
  PROVE  /\ restriction = heap[node].sql.sql /\ node \in 1 .. Len(heap) /\ GoodHeap(heap)
         /\ Replaces(heap, Len(scan.filter), node)
<1>1. Shaped /\ Kept
  BY DEF IInv
<1>2. restriction = heap[node].sql.sql /\ node \in 1 .. Len(heap) /\ GoodHeap(heap)
  BY <1>1 DEF Shaped
<1> QED
  BY <1>1, <1>2 DEF Kept

LEMMA KeepsRows ==
  ASSUME IInv
  PROVE  RowsAreKept
<1>1. ASSUME stage = "done", Harmless, NEW row \in Rows, Filter.mean[row] = "true"
      PROVE  restriction[row] = "true"
  <2>1. /\ restriction = heap[node].sql.sql /\ node \in 1 .. Len(heap) /\ GoodHeap(heap)
        /\ Replaces(heap, Len(scan.filter), node)
    BY <1>1, AtTheEnd
  <2>2. heap[node].mean[row] = "true"
    BY <1>1, <2>1 DEF Replaces, Filter
  <2>3. Emitted(heap[node])
    BY <2>1, NodeFacts
  <2> QED
    BY <1>1, <2>1, <2>2, <2>3 DEF Emitted
<1> QED
  BY <1>1 DEF RowsAreKept, SupersetOfRows

\* A filter whose NULL literals and NULL conditions decide nothing loses no row: whatever
\* is dropped, simplified, merged or negated, the row restriction lets it pass.
THEOREM NoRowIsLost == Spec => []RowsAreKept
<1>1. IInv => RowsAreKept
  BY KeepsRows
<1> QED
  BY <1>1, Invariance, PTL

\* SQL that is called exact has the value of its predicate in every row, NULLs included,
\* for every filter and every table.
THEOREM ExactSql == Spec => []ExactIsExact
<1>1. IInv => ExactIsExact
  <2>1. ASSUME IInv
        PROVE  ExactIsExact
    <3>1. GoodHeap(heap)
      BY <2>1 DEF IInv, Shaped
    <3>2. DOMAIN heap = 1 .. Len(heap)
      BY <3>1 DEF GoodHeap, IsHeap
    <3>3. \A n \in 1 .. Len(heap) : Emitted(heap[n])
      BY <3>1, NodeFacts
    <3> QED
      BY <3>2, <3>3 DEF ExactIsExact, Emitted
  <2> QED
    BY <2>1
<1> QED
  BY <1>1, Invariance, PTL

\* No rewriter makes the scan read more rows than the SQL of the filter itself would.
THEOREM NoRewriteWidens == Spec => []RewritesOnlySharpen
<1>1. IInv => RewritesOnlySharpen
  <2>1. ASSUME IInv, stage = "done", Harmless, NEW row \in Rows, restriction[row] = "true"
        PROVE  Filter.sql.sql[row] = "true"
    BY <2>1, AtTheEnd DEF Replaces, Filter
  <2> QED
    BY <2>1 DEF RewritesOnlySharpen
<1> QED
  BY <1>1, Invariance, PTL

-----------------------------------------------------------------------------
(* Tables without NULLs *)

WithoutNulls ==
    \A i \in DOMAIN scan.filter :
        /\ scan.filter[i].op # "NullLiteral"
        /\ scan.filter[i].op \in {"Column", "Unsupported"} =>
              \A row \in Rows : scan.table[row][scan.filter[i].val] # "null"

LEMMA SameNulls ==
  ASSUME scan' = scan, NEW h
  PROVE  (NeverNull(h)' <=> NeverNull(h)) /\ (WithoutNulls' <=> WithoutNulls)
BY SameRows DEF NeverNull, WithoutNulls

LEMMA ScanStays ==
  ASSUME [Next]_vars
  PROVE  scan' = scan
BY DEF Next, vars, Parse, Rewrite, BeginChain, WalkChain, Expand, Build, Leaf, Rebuilt, IrToSql, Done

LEMMA NeverNullStays ==
  ASSUME IInv, [Next]_vars, WithoutNulls, NeverNull(heap)
  PROVE  NeverNull(heap')
<1>1. GoodHeap(heap) /\ scan \in Scans
  BY DEF IInv, Shaped
<1>2. CASE Parse
  <2>1. PICK n, i : i = Len(heap) + 1 /\ n = scan.filter[i]
    OBVIOUS
  <2>2. heap' = New(heap, n)
    BY <1>2, <2>1 DEF Parse
  <2>3. /\ Len(heap) \in Nat /\ Len(scan.filter) \in Nat /\ Len(heap) < Len(scan.filter)
        /\ DOMAIN scan.filter = 1 .. Len(scan.filter)
    BY <1>1, <1>2, FilterIsOne, GrowsNot DEF IInv, Shaped, Parse
  <2>4. i \in DOMAIN scan.filter /\ i \in 1 .. Len(scan.filter) /\ i - 1 = Len(heap)
    BY <2>1, <2>3
  <2>5. IsNode(n, Len(heap), scan.table)
    BY <1>1, <2>1, <2>4, FilterIsOne
  <2>6. OneMore(heap, heap', n.op, n.val, n.args)
    BY <1>1, <2>2, <2>5, NewIsOneMore
  <2>7. /\ n.op # "NullLiteral"
        /\ n.op \in {"Column", "Unsupported"} => \A row \in Rows : scan.table[row][n.val] # "null"
    BY <2>1, <2>4 DEF WithoutNulls
  <2> QED
    BY <1>1, <2>6, <2>7, StillNeverNull
<1>3. CASE Rewrite
  BY <1>3, RewriteStep DEF Fresh
<1>4. CASE WalkChain
  <2>1. CASE Is(operands[Len(operands)], "Ternary")
    BY <1>4, <2>1 DEF WalkChain
  <2>2. CASE ~Is(operands[Len(operands)], "Ternary")
    <3>1. heap' = Operator(heap, "When", operands)
      BY <1>4, <2>2 DEF WalkChain
    <3>2. ChainOf(heap, node, operands)
      BY <1>4 DEF IInv, Shaped, WalkChain
    <3>3. operands \in Seq(1 .. Len(heap)) /\ Arity("When", Len(operands))
      BY <3>2 DEF ChainOf, Arity
    <3>4. OneMore(heap, heap', "When", "", operands)
      BY <1>1, <3>1, <3>3, OperatorIsOneMore
    <3> QED
      BY <1>1, <3>4, StillNeverNull
  <2> QED
    BY <2>1, <2>2
<1>5. CASE Build
  BY <1>5, BuildStep
<1>6. CASE heap' = heap
  BY <1>6
<1>7. BeginChain \/ Expand \/ Leaf \/ Rebuilt \/ IrToSql \/ Done \/ UNCHANGED vars => heap' = heap
  BY DEF BeginChain, Expand, Leaf, Rebuilt, IrToSql, Done, vars
<1> QED
  BY <1>2, <1>3, <1>4, <1>5, <1>6, <1>7 DEF Next

\* Over a table that has no NULL in the columns of a filter without NULL literals, the row
\* restriction is a superset of the rows, without further condition: the promise of
\* predicate_to_row_restriction holds for them, also when an id() is used twice.
THEOREM NoNullNoLoss == Spec => [](WithoutNulls => SupersetOfRows)
<1> DEFINE J == WithoutNulls => NeverNull(heap)
<1>1. Init => J
  <2>1. ASSUME Init
        PROVE  NeverNull(heap)
    <3>1. Len(heap) = 0
      BY <2>1 DEF Init
    <3> QED
      BY <3>1 DEF NeverNull
  <2> QED
    BY <2>1
<1>2. IInv /\ J /\ [Next]_vars => J'
  <2>1. ASSUME IInv, J, [Next]_vars, WithoutNulls'
        PROVE  NeverNull(heap)'
    <3>1. scan' = scan
      BY <2>1, ScanStays
    <3>2. WithoutNulls
      BY <2>1, <3>1, SameNulls
    <3>3. NeverNull(heap')
      BY <2>1, <3>2, NeverNullStays
    <3> QED
      BY <3>1, <3>3, SameNulls
  <2> QED
    BY <2>1
<1>3. IInv /\ J => (WithoutNulls => SupersetOfRows)
  <2>1. ASSUME IInv, J, WithoutNulls
        PROVE  SupersetOfRows
    <3>1. Shaped /\ GoodHeap(heap) /\ NeverNull(heap)
      BY <2>1 DEF IInv, Shaped
    <3>2. ASSUME NEW n \in rewritten, NEW row \in Rows
          PROVE  heap[Arg(n, 1)].mean[row] # "null"
      <4>1. n \in 1 .. Len(heap) /\ heap[n].op = "Ternary"
        BY <3>1, <3>2 DEF Shaped
      <4>2. PICK p : p = Arg(n, 1)
        OBVIOUS
      <4>3. p \in 1 .. Len(heap)
        BY <3>1, <4>1, <4>2, TernaryIs DEF TernaryOf, Arg
      <4> QED
        BY <3>1, <3>2, <4>2, <4>3 DEF NeverNull
    <3>3. Harmless
      BY <2>1, <3>2 DEF Harmless, WithoutNulls
    <3> QED
      BY <2>1, <3>3, KeepsRows DEF RowsAreKept
  <2> QED
    BY <2>1
<1> QED
  BY <1>1, <1>2, <1>3, Invariance, PTL DEF Spec
=============================================================================
