------------------------- MODULE MCPredicateCompiler -------------------------
(***************************************************************************)
(* Families of filters for PredicateCompiler, three or four levels deep.   *)
(* They are written as trees and flattened, operands first.                *)
(***************************************************************************)
EXTENDS PredicateCompiler

Tree(op, args) == [op |-> op, val |-> "", args |-> args]
Named(op, val) == [op |-> op, val |-> val, args |-> <<>>]
Ternary(p, t, f) == Tree("Ternary", <<p, t, f>>)

A == Named("Column", "a")
B == Named("Column", "b")
U == Named("Unsupported", "u")
T == Named("BoolLiteral", "true")
F == Named("BoolLiteral", "false")
Null == Tree("NullLiteral", <<>>)

\* The nodes of the trees in args, one after the other, behind the nodes in list;
\* the last node of each tree is its root.
RECURSIVE Flat(_, _), FlatAll(_, _, _)
FlatAll(list, args, roots) ==
    IF args = <<>> THEN [list |-> list, roots |-> roots]
    ELSE LET first == Flat(list, Head(args))
         IN  FlatAll(first, Tail(args), Append(roots, Len(first)))
Flat(list, tree) ==
    LET below == FlatAll(list, tree.args, <<>>)
    IN  Append(below.list, Node(tree.op, tree.val, below.roots))

Unary(ops, X) == {Tree(op, <<x>>) : op \in ops, x \in X}
Binary(ops, X, Y) == {Tree(op, <<x, y>>) : op \in ops, x \in X, y \in Y}
Conditional(X, Y, Z) == {Ternary(p, t, f) : p \in X, t \in Y, f \in Z}

\* Two columns, a condition without SQL, and the literals.
Leaves == {A, B, U, T, F}

-----------------------------------------------------------------------------
(* Logic, null checks, and conditionals whose value is not a condition *)

Logic(X, Y) == Unary({"Not", "IsNull"}, X) \cup Binary({"And", "Or", "FillNull"}, X, Y)

LogicSmall == Leaves \cup Logic(Leaves, Leaves)

ValueFilters ==
    Unary({"Not", "IsNull"},
          Conditional({A, U}, Leaves, Leaves)
          \cup Conditional({A}, {A, U, T}, Conditional({B}, Leaves, {A, U, T})))

LogicFilters ==
    LogicSmall \cup Logic(LogicSmall, {A, U, T})
               \cup Binary({"And", "Or", "FillNull"}, {A, U, T}, LogicSmall)
               \cup ValueFilters

-----------------------------------------------------------------------------
(* Conditionals as conditions *)

When3(X, Y, Z) == Unary({"Not"}, X) \cup Binary({"And", "Or"}, X, Y) \cup Conditional(X, Y, Z)

WhenSmall == Leaves \cup When3(Leaves, Leaves, Leaves)

WhenFilters ==
    WhenSmall \cup When3(WhenSmall, {A, U}, {A, T})
              \cup Conditional({A, U}, WhenSmall, {A, F})
              \cup Conditional({A, U}, {B, F}, WhenSmall)

-----------------------------------------------------------------------------
(* NULL written as a literal *)

NullLeaves == {A, T, Null}

NullFilters ==
    Logic(NullLeaves, NullLeaves) \cup Logic(Logic(NullLeaves, NullLeaves), NullLeaves)

-----------------------------------------------------------------------------
(* Conditions that are conditionals themselves, in a conditional that is not one *)

Nested(p, t) == Ternary(Ternary(Ternary(p, T, F), t, B), T, T)

NeverNull == {Tree("IsNull", <<A>>), Tree("FillNull", <<A, F>>)}

\* The outermost conditional has a condition that may be NULL, or never is; when it is
\* built again its address may be that of a node that was marked and is gone.
RecycledFilters == Unary({"IsNotNull"}, {Nested(p, B) : p \in NeverNull})
NestedFilters ==
    Unary({"Not", "IsNotNull"},
          {Ternary(Ternary(Ternary(p, T, F), q, F), B, U) : p, q \in NeverNull})

-----------------------------------------------------------------------------

\* One row for every choice of values.
Table(values) ==
    LET k == Len(values)
    IN  [row \in 1 .. k * k * k |-> [a |-> values[1 + (row % k)],
                                     b |-> values[1 + ((row \div k) % k)],
                                     u |-> values[1 + ((row \div (k * k)) % k)]]]

Over(filters, values) == {[filter |-> Flat(<<>>, f), table |-> Table(values)] : f \in filters}

NullableTable(filters) == Over(filters, <<"true", "false", "null">>)

\* Without NULLs in conditions that choose a branch, and without NULL literals.
SafeScans ==
    NullableTable(LogicFilters \cup NestedFilters) \cup Over(WhenFilters, <<"true", "false">>)

NullableScans == NullableTable(WhenFilters)

NullLiteralScans == NullableTable(NullFilters)

\* Everything, for the properties that say when rows are kept.
AllScans == SafeScans \cup NullableTable(WhenSmall \cup NullFilters \cup RecycledFilters)
=============================================================================
