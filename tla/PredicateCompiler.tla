-------------------------- MODULE PredicateCompiler --------------------------
(***************************************************************************)
(* polars_bigquery/core/compiler: from a filter of a LazyFrame to the row  *)
(* restriction of a read session.  The filter is a tree of IR nodes; four  *)
(* rewriters transform it one after the other, then SQL is emitted.  What  *)
(* cannot be said in SQL is dropped where that only keeps more rows,       *)
(* because the scan filters again locally (_read_bigquery.py); a row that  *)
(* the restriction drops is lost.                                          *)
(*                                                                         *)
(* Nodes are frozen: they are built after their operands and never change. *)
(* The heap is the sequence of all nodes built so far, and a node is known *)
(* by its place in it, as the code knows it by its id().  A column is a    *)
(* Boolean one: it stands for any condition that has SQL, an Unsupported   *)
(* node for one that has none.  Operators on other types behave like Not   *)
(* here (all operands exact, none a NULL literal).  DropNulls and lists    *)
(* are left out.                                                           *)
(***************************************************************************)
EXTENDS Integers, Sequences

CONSTANT Scans  \* what is compiled: a filter, for the rows of a table

VARIABLES
    scan,           \* filter: its nodes, operands first; table: its rows, each of them
                    \* the value of every column and of whatever is Unsupported
    heap,           \* the nodes, each with what it means and what SQL it gets
    stage,          \* what is being done: parsing, a rewriter, emitting, nothing
    phase,          \* of rewrite_tree: "down", "build" and "up" (its second loop)
    nodes,          \* of rewrite_tree
    children_map,   \* of rewrite_tree, for the nodes that were expanded
    curr_idx,       \* of rewrite_tree
    node,           \* of _apply_node_rewriter
    operands,       \* of rewrite_when_node, with curr as the last; else empty
    boolean_nodes,  \* of rewrite_boolean_when
    rewritten,      \* the Ternary nodes that it replaced, ever (a history variable)
    restriction     \* which rows pass the row restriction

vars == <<scan, heap, stage, phase, nodes, children_map, curr_idx, node, operands,
          boolean_nodes, rewritten, restriction>>

Rewriters == {"boolean_when", "boolean_literals", "when", "de_morgan"}

TruthValues == {"true", "false", "null"}

\* How many operands an operator has.
Arity(op, k) ==
    \/ op \in {"Column", "BoolLiteral", "NullLiteral"} /\ k = 0
    \/ op \in {"Not", "IsNull", "IsNotNull"} /\ k = 1
    \/ op \in {"And", "Or", "FillNull"} /\ k = 2
    \/ op = "Ternary" /\ k = 3
    \/ op = "When" /\ k >= 3 /\ k % 2 = 1
    \/ op = "Coalesce" /\ k >= 1
    \/ op = "Unsupported"

\* A node whose operands are among the first k nodes, over a table.
IsNode(n, k, table) ==
    /\ n.args \in Seq(1 .. k)
    /\ Arity(n.op, Len(n.args))
    /\ n.op = "BoolLiteral" => n.val \in {"true", "false"}
    /\ n.op \in {"Column", "Unsupported"} =>
            \A row \in DOMAIN table : table[row][n.val] \in TruthValues

ASSUME ScansAssumption ==
    \A s \in Scans : /\ Len(s.filter) \in Nat \ {0}
                     /\ DOMAIN s.filter = 1 .. Len(s.filter)
                     /\ \A i \in 1 .. Len(s.filter) : IsNode(s.filter[i], i - 1, s.table)

Rows == DOMAIN scan.table

EveryRow == [row \in Rows |-> "true"]

-----------------------------------------------------------------------------
(* Three-valued logic, the same in Polars and in SQL *)

Truth(b) == IF b THEN "true" ELSE "false"

NotValue(x) == IF x = "null" THEN "null" ELSE Truth(x = "false")
AndValue(x, y) == IF "false" \in {x, y} THEN "false" ELSE IF "null" \in {x, y} THEN "null" ELSE "true"
OrValue(x, y) == IF "true" \in {x, y} THEN "true" ELSE IF "null" \in {x, y} THEN "null" ELSE "false"

\* The predicates of <<predicate, value, ..., predicate, value, otherwise>>.
Predicates(v) == {i \in DOMAIN v : i % 2 = 1 /\ i < Len(v)}

\* The value after the first predicate that is true.
WhenValue(v) ==
    LET holds == {i \in Predicates(v) : v[i] = "true"}
    IN  IF holds = {} THEN v[Len(v)]
        ELSE v[1 + CHOOSE i \in holds : \A j \in holds : i <= j]

\* The first value that is not NULL.
FirstGiven(v) ==
    LET given == {i \in DOMAIN v : v[i] # "null"}
    IN  IF given = {} THEN "null" ELSE v[CHOOSE i \in given : \A j \in given : i <= j]

\* The value of an operator for operands v.
Value(op, val, v, row) ==
    CASE op \in {"Column", "Unsupported"} -> scan.table[row][val]
      [] op = "BoolLiteral" -> val
      [] op = "NullLiteral" -> "null"
      [] op = "Not" -> NotValue(v[1])
      [] op = "And" -> AndValue(v[1], v[2])
      [] op = "Or" -> OrValue(v[1], v[2])
      [] op = "IsNull" -> Truth(v[1] = "null")
      [] op = "IsNotNull" -> Truth(v[1] # "null")
      [] op \in {"Coalesce", "FillNull"} -> FirstGiven(v)
      [] op \in {"Ternary", "When"} -> WhenValue(v)

-----------------------------------------------------------------------------
(* sql/base.py and sql/boolean.py; SQL is what it evaluates to in every row *)

\* No SQL restricts nothing.
NoSql == [some |-> FALSE, exact |-> FALSE, sql |-> EveryRow]

Sql(sql, exact) == [some |-> TRUE, exact |-> exact, sql |-> sql]

AndSql(l, r) == [row \in Rows |-> AndValue(l.sql[row], r.sql[row])]
OrSql(l, r) == [row \in Rows |-> OrValue(l.sql[row], r.sql[row])]

\* Mutant: what is left of a conjunction counts as exact.
EmitAndExact(l, r) ==
    CASE l.some /\ r.some -> Sql(AndSql(l, r), l.exact /\ r.exact)
      [] l.some /\ ~r.some -> Sql(l.sql, l.exact)
      [] ~l.some /\ r.some -> Sql(r.sql, r.exact)
      [] OTHER -> NoSql

EmitAnd(l, r) ==
    CASE l.some /\ r.some -> Sql(AndSql(l, r), l.exact /\ r.exact)
      [] l.some /\ ~r.some -> Sql(l.sql, FALSE)
      [] ~l.some /\ r.some -> Sql(r.sql, FALSE)
      [] OTHER -> NoSql

\* Mutant: a disjunct without SQL is dropped, as And may do.
EmitOrRelaxed(l, r) ==
    CASE l.some /\ r.some -> Sql(OrSql(l, r), l.exact /\ r.exact)
      [] l.some /\ ~r.some -> Sql(l.sql, FALSE)
      [] ~l.some /\ r.some -> Sql(r.sql, FALSE)
      [] OTHER -> NoSql

EmitOr(l, r) ==
    IF l.some /\ r.some THEN Sql(OrSql(l, r), l.exact /\ r.exact) ELSE NoSql

\* Any other operator needs all of its operands exactly.
EmitExact(n, results, allowed) ==
    IF allowed /\ \A i \in DOMAIN results : results[i].some /\ results[i].exact
    THEN Sql([row \in Rows |->
                 Value(n.op, n.val, [i \in DOMAIN results |-> results[i].sql[row]], row)], TRUE)
    ELSE NoSql

\* IF and CASE: no predicate may be a NULL literal, nor may all branches be.
WhenAllowed(ops) ==
    /\ \A i \in Predicates(ops) : ops[i] # "NullLiteral"
    /\ \E i \in DOMAIN ops \ Predicates(ops) : ops[i] # "NullLiteral"

\* ops are the operators of the operands, results what was emitted for them.
EmitNode(n, ops, results) ==
    CASE n.op = "And" -> EmitAnd(results[1], results[2])
      [] n.op = "Or" -> EmitOr(results[1], results[2])
      [] n.op = "Unsupported" -> NoSql
      [] n.op \in {"Ternary", "When"} -> EmitExact(n, results, WhenAllowed(ops))
      [] OTHER -> EmitExact(n, results, \A i \in DOMAIN ops : ops[i] # "NullLiteral")

-----------------------------------------------------------------------------
(* ir/base.py and ir/boolean.py *)

Node(op, val, args) == [op |-> op, val |-> val, args |-> args]

\* The heap h with one more node.  Its meaning (in Polars) and its SQL follow from
\* those of its operands; the rewriters read neither.
New(h, n) ==
    Append(h, [op |-> n.op, val |-> n.val, args |-> n.args,
               mean |-> [row \in Rows |->
                           Value(n.op, n.val, [i \in DOMAIN n.args |-> h[n.args[i]].mean[row]], row)],
               sql |-> EmitNode(n, [i \in DOMAIN n.args |-> h[n.args[i]].op],
                                [i \in DOMAIN n.args |-> h[n.args[i]].sql])])

Operator(h, op, args) == New(h, Node(op, "", args))
BoolLiteral(h, val) == New(h, Node("BoolLiteral", val, <<>>))

Is(n, op) == heap[n].op = op
Arg(n, i) == heap[n].args[i]

-----------------------------------------------------------------------------
(* rewriter/boolean.py: each gives the heap and the node that it returns *)

Unchanged(n) == [heap |-> heap, node |-> n]
Newest(h) == [heap |-> h, node |-> Len(h)]

\* _is_valid_boolean_ternary: no NULL literal as a predicate, in the Ternary nodes
\* that its branches lead to, and some branch that is not one.
NoNullPredicate[n \in DOMAIN heap] ==
    Is(n, "Ternary") => /\ ~Is(Arg(n, 1), "NullLiteral")
                        /\ NoNullPredicate[Arg(n, 2)]
                        /\ NoNullPredicate[Arg(n, 3)]
HasNonNullLeaf[n \in DOMAIN heap] ==
    IF Is(n, "Ternary") THEN HasNonNullLeaf[Arg(n, 2)] \/ HasNonNullLeaf[Arg(n, 3)]
    ELSE ~Is(n, "NullLiteral")

\* (p & t) | (~p & f)
BooleanTernary(p, t, f) ==
    LET pt == Operator(heap, "And", <<p, t>>)
        not == Operator(pt, "Not", <<p>>)
        pf == Operator(not, "And", <<Len(not), f>>)
    IN  Operator(pf, "Or", <<Len(pt), Len(pf)>>)

RewriteBooleanWhenNode(n) ==
    IF Is(n, "Ternary") /\ n \in boolean_nodes /\ NoNullPredicate[n] /\ HasNonNullLeaf[n]
    THEN Newest(BooleanTernary(Arg(n, 1), Arg(n, 2), Arg(n, 3)))
    ELSE Unchanged(n)

\* What the call for n adds to boolean_nodes.
Marked(n, result) ==
    CASE heap[n].op \in {"And", "Or"} /\ n \in boolean_nodes -> {Arg(n, 1), Arg(n, 2)}
      [] Is(n, "Ternary") -> {Arg(n, 1)} \cup ({result} \ {n})
      [] OTHER -> {}

True(n) == Is(n, "BoolLiteral") /\ heap[n].val = "true"
Falsy(n) == Is(n, "NullLiteral") \/ (Is(n, "BoolLiteral") /\ heap[n].val = "false")

RewriteBooleanLiteralsNode(n) ==
    LET l == Arg(n, 1)
        r == Arg(n, 2)
    IN  CASE Is(n, "And") /\ (Falsy(l) \/ Falsy(r)) -> Newest(BoolLiteral(heap, "false"))
          [] Is(n, "And") /\ ~Falsy(r) /\ True(l) -> Unchanged(r)
          [] Is(n, "And") /\ ~Falsy(l) /\ ~True(l) /\ True(r) -> Unchanged(l)
          [] Is(n, "Or") /\ (True(l) \/ True(r)) -> Newest(BoolLiteral(heap, "true"))
          [] Is(n, "Or") /\ ~True(r) /\ Falsy(l) -> Unchanged(r)
          [] Is(n, "Or") /\ ~True(l) /\ ~Falsy(l) /\ Falsy(r) -> Unchanged(l)
          [] OTHER -> Unchanged(n)

\* Mutant: Or stays Or.
RewriteDeMorganNodeOnce(n) ==
    IF Is(n, "Not") /\ Is(Arg(n, 1), "Or")
    THEN LET l == Operator(heap, "Not", <<Arg(Arg(n, 1), 1)>>)
             r == Operator(l, "Not", <<Arg(Arg(n, 1), 2)>>)
         IN  Newest(Operator(r, "Or", <<Len(l), Len(r)>>))
    ELSE Unchanged(n)

RewriteDeMorganNode(n) ==
    IF Is(n, "Not") /\ Is(Arg(n, 1), "Or")
    THEN LET l == Operator(heap, "Not", <<Arg(Arg(n, 1), 1)>>)
             r == Operator(l, "Not", <<Arg(Arg(n, 1), 2)>>)
         IN  Newest(Operator(r, "And", <<Len(l), Len(r)>>))
    ELSE Unchanged(n)

\* rewrite_when_node goes through a chain of Ternary nodes: see WalkChain.
IsChain(n) == Is(n, "Ternary") /\ Is(Arg(n, 3), "Ternary")

RewriteNode(n) ==
    CASE stage = "boolean_when" -> RewriteBooleanWhenNode(n)
      [] stage = "boolean_literals" -> RewriteBooleanLiteralsNode(n)
      [] stage = "de_morgan" -> RewriteDeMorganNode(n)
      [] OTHER -> Unchanged(n)

-----------------------------------------------------------------------------
(* rewriter/base.py *)

Init ==
    /\ scan \in Scans
    /\ heap = <<>>
    /\ stage = "parse"
    /\ phase = "down"
    /\ nodes = <<>> /\ children_map = <<>> /\ curr_idx = 1 /\ node = 1
    /\ operands = <<>>
    /\ boolean_nodes = {} /\ rewritten = {}
    /\ restriction = EveryRow

\* rewrite_tree is called for root.
Enter(s, root) ==
    /\ stage' = s
    /\ phase' = "down"
    /\ nodes' = <<root>>
    /\ children_map' = <<>>
    /\ curr_idx' = 1
    /\ node' = root
    /\ boolean_nodes' = IF s = "boolean_when" THEN {root} ELSE {}

\* json_to_ir builds the node at hand; the last one is the root.
Parse ==
    /\ stage = "parse"
    /\ heap' = New(heap, scan.filter[Len(heap) + 1])
    /\ IF Len(heap') = Len(scan.filter) THEN Enter("boolean_when", Len(heap'))
       ELSE UNCHANGED <<stage, phase, nodes, children_map, curr_idx, node, boolean_nodes>>
    /\ UNCHANGED <<scan, operands, rewritten, restriction>>

Rewriting == stage \in Rewriters /\ phase \in {"down", "up"} /\ operands = <<>>

\* One turn of _apply_node_rewriter.
Rewrite ==
    /\ Rewriting
    /\ RewriteNode(node).node # node
    /\ heap' = RewriteNode(node).heap
    /\ node' = RewriteNode(node).node
    /\ IF stage = "boolean_when"
       THEN /\ boolean_nodes' = boolean_nodes \cup Marked(node, node')
            /\ rewritten' = rewritten \cup {node}
       ELSE UNCHANGED <<boolean_nodes, rewritten>>
    /\ UNCHANGED <<scan, stage, phase, nodes, children_map, curr_idx, operands, restriction>>

\* rewrite_when_node meets a chain and collects its operands.
BeginChain ==
    /\ Rewriting /\ stage = "when" /\ IsChain(node)
    /\ operands' = heap[node].args
    /\ UNCHANGED <<scan, heap, stage, phase, nodes, children_map, curr_idx, node,
                   boolean_nodes, rewritten, restriction>>

WalkChain ==
    /\ operands # <<>>
    /\ LET curr == operands[Len(operands)]
       IN  IF Is(curr, "Ternary")
           THEN /\ operands' = SubSeq(operands, 1, Len(operands) - 1) \o heap[curr].args
                /\ UNCHANGED <<heap, node>>
           ELSE /\ heap' = Operator(heap, "When", operands)
                /\ node' = Len(heap')
                /\ operands' = <<>>
    /\ UNCHANGED <<scan, stage, phase, nodes, children_map, curr_idx, boolean_nodes, rewritten,
                   restriction>>

\* The rewriter returns the node it was given.
Fixed ==
    /\ Rewriting
    /\ RewriteNode(node).node = node
    /\ ~(stage = "when" /\ IsChain(node))

Marks == IF stage = "boolean_when" THEN boolean_nodes \cup Marked(node, node) ELSE boolean_nodes

\* First loop: the children of the node are queued, and the next node is popped.
Expand ==
    /\ Fixed /\ phase = "down"
    /\ LET kids == heap[node].args
       IN  /\ nodes' = [nodes EXCEPT ![curr_idx] = node] \o kids
           /\ children_map' = Append(children_map, [i \in DOMAIN kids |-> Len(nodes) + i])
    /\ IF curr_idx < Len(nodes')
       THEN phase' = "down" /\ curr_idx' = curr_idx + 1 /\ node' = nodes'[curr_idx + 1]
       ELSE phase' = "build" /\ UNCHANGED <<curr_idx, node>>
    /\ boolean_nodes' = Marks
    /\ UNCHANGED <<scan, heap, stage, operands, rewritten, restriction>>

\* What still refers to a node: the filter, the list of nodes, other nodes.
Live[n \in DOMAIN heap] ==
    \/ n <= Len(scan.filter)
    \/ \E i \in DOMAIN nodes : nodes[i] = n
    \/ \E m \in n + 1 .. Len(heap) : Live[m] /\ \E i \in DOMAIN heap[m].args : Arg(m, i) = n

\* replace_children: a new node, unless all children are the old ones.  It may get
\* the address of a node that was freed, and with it a place in boolean_nodes.
ReplaceChildren(n, children) ==
    IF children = heap[n].args
    THEN node' = n /\ UNCHANGED <<heap, boolean_nodes>>
    ELSE /\ heap' = New(heap, Node(heap[n].op, heap[n].val, children))
         /\ node' = Len(heap')
         /\ \/ UNCHANGED boolean_nodes
            \/ \E freed \in boolean_nodes :
                  /\ ~Live[freed]
                  /\ boolean_nodes' = (boolean_nodes \ {freed}) \cup {node'}

\* Second loop: a node is built again from its rewritten children.
Build ==
    /\ stage \in Rewriters /\ phase = "build"
    /\ children_map[curr_idx] # <<>>
    /\ ReplaceChildren(nodes[curr_idx],
                       [i \in DOMAIN children_map[curr_idx] |-> nodes[children_map[curr_idx][i]]])
    /\ phase' = "up"
    /\ UNCHANGED <<scan, stage, nodes, children_map, curr_idx, operands, rewritten, restriction>>

Following == [boolean_when |-> "boolean_literals", boolean_literals |-> "when",
              when |-> "de_morgan", de_morgan |-> "sql"]

\* On to the node before, or with nodes[0] to the next rewriter of rewrite_ir.
Ascend(list, marks) ==
    IF curr_idx > 1
    THEN /\ nodes' = list /\ curr_idx' = curr_idx - 1 /\ phase' = "build"
         /\ boolean_nodes' = marks
         /\ UNCHANGED <<stage, children_map, node>>
    ELSE Enter(Following[stage], list[1])

Leaf ==
    /\ stage \in Rewriters /\ phase = "build"
    /\ children_map[curr_idx] = <<>>
    /\ Ascend(nodes, boolean_nodes)
    /\ UNCHANGED <<scan, heap, operands, rewritten, restriction>>

Rebuilt ==
    /\ Fixed /\ phase = "up"
    /\ Ascend([nodes EXCEPT ![curr_idx] = node], Marks)
    /\ UNCHANGED <<scan, heap, operands, rewritten, restriction>>

\* A predicate without SQL gives no restriction: every row is read.
IrToSql ==
    /\ stage = "sql"
    /\ stage' = "done"
    /\ restriction' = heap[node].sql.sql
    /\ UNCHANGED <<scan, heap, phase, nodes, children_map, curr_idx, node, operands, boolean_nodes,
                   rewritten>>

Done == stage = "done" /\ UNCHANGED vars

Next ==
    \/ Parse \/ Rewrite \/ BeginChain \/ WalkChain \/ Expand
    \/ Build \/ Leaf \/ Rebuilt \/ IrToSql \/ Done

Spec == Init /\ [][Next]_vars

-----------------------------------------------------------------------------

Filter == heap[Len(scan.filter)]

\* The row restriction gives a superset of the rows: a row that passes the filter in
\* Polars passes it, whatever the Unsupported parts are.
SupersetOfRows ==
    stage = "done" => \A row \in Rows : Filter.mean[row] = "true" => restriction[row] = "true"

\* NULL has decided nothing: the filter has no NULL literal, and no Ternary whose
\* condition is NULL for some row was rewritten into a Boolean expression.
Harmless ==
    /\ \A i \in DOMAIN scan.filter : scan.filter[i].op # "NullLiteral"
    /\ \A n \in rewritten : \A row \in Rows : heap[Arg(n, 1)].mean[row] # "null"

\* No row is lost, unless through a NULL literal or by rewriting a conditional whose
\* condition is NULL: dropping parts without SQL, simplifying, merging chains and
\* pushing negations down lose nothing, in whatever order they meet.
RowsAreKept == Harmless => SupersetOfRows

\* SQL that is called exact, and so may be negated or compared, has the value of
\* its predicate in every row, for every node that is ever built.
ExactIsExact == \A n \in DOMAIN heap : heap[n].sql.exact => heap[n].sql.sql = heap[n].mean

\* The rewriters cost no pushdown: the row restriction is at least as sharp as the
\* SQL of the filter itself, so no rewrite makes the scan read more rows.
RewritesOnlySharpen ==
    stage = "done" /\ Harmless =>
        \A row \in Rows : restriction[row] = "true" => Filter.sql.sql[row] = "true"
=============================================================================
