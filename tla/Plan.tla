-------------------------------- MODULE Plan --------------------------------
(***************************************************************************)
(* A compiled graph (_graph.py, Guard and Plan).                            *)
(*                                                                         *)
(* A plan has a dependency expression, or none, for each of its nodes and a *)
(* set of outputs.  An expression is the table of its subexpressions: a     *)
(* leaf is a condition on one node, ANY and ALL combine two entries that    *)
(* come earlier, and the last entry is the whole.                           *)
(***************************************************************************)
EXTENDS Naturals, Sequences, FiniteSets

Settled == {"SUCCEEDED", "FAILED", "SKIPPED"}
Unsettled == "none"

Leaf(node, condition) == [op |-> "LEAF", node |-> node, condition |-> condition]
Combine(op, left, right) == [op |-> op, left |-> left, right |-> right]
Positions(guard, op) == {i \in DOMAIN guard : guard[i].op = op}
Leaves(guard) == {guard[i] : i \in Positions(guard, "LEAF")}
Sources(guard) == {leaf.node : leaf \in Leaves(guard)}

\* What Guard._combine builds over these nodes.
Conditions == {"SUCCEEDED", "FAILED", "COMPLETED"}
IsExpression(guard, nodes) ==
    /\ guard \in Seq([op : {"LEAF"}, node : nodes, condition : Conditions]
                       \cup [op : {"ANY", "ALL"}, left : Nat, right : Nat])
    /\ \A i \in DOMAIN guard \ Positions(guard, "LEAF") :
          {guard[i].left, guard[i].right} \subseteq 1 .. i - 1

\* Guard.evaluate: whether the expression holds of the results so far ("open"
\* while that is not known), and the failures it handles if it does.
Value(matched, handled) == [matched |-> matched, handled |-> handled]

LeafValue(leaf, results) ==
    LET status == results[leaf.node] IN
    CASE status = Unsettled -> Value("open", {})
      [] status # Unsettled /\ leaf.condition \in {status, "COMPLETED"} ->
            Value("yes", IF leaf.condition = "FAILED" THEN {leaf.node} ELSE {})
      [] OTHER -> Value("no", {})

AnyValue(a, b) ==
    CASE a.matched = "yes" -> a
      [] a.matched # "yes" /\ b.matched = "yes" -> b
      [] "yes" \notin {a.matched, b.matched} /\ "open" \in {a.matched, b.matched} ->
            Value("open", {})
      [] OTHER -> Value("no", {})

\* As if only the first expression's failures were handled.
AllOfFirst(a, b) ==
    CASE "open" \in {a.matched, b.matched} -> Value("open", {})
      [] {a.matched, b.matched} = {"yes"} -> Value("yes", a.handled)
      [] OTHER -> Value("no", {})

AllValue(a, b) ==
    CASE "open" \in {a.matched, b.matched} -> Value("open", {})
      [] {a.matched, b.matched} = {"yes"} -> Value("yes", a.handled \cup b.handled)
      [] OTHER -> Value("no", {})

Evaluate(guard, results) ==
    LET value[i \in DOMAIN guard] ==
            IF guard[i].op = "LEAF" THEN LeafValue(guard[i], results)
            ELSE IF guard[i].op = "ANY"
                 THEN AnyValue(value[guard[i].left], value[guard[i].right])
                 ELSE AllValue(value[guard[i].left], value[guard[i].right])
    IN  IF guard = <<>> THEN Value("yes", {}) ELSE value[Len(guard)]

----------------------------------------------------------------------------
(* Plan.compile, for the dependencies deps of the nodes 1 .. n              *)

\* The members of a sequence that are in a set, in their order.
Kept(s, set) ==
    LET kept[i \in 0 .. Len(s)] ==
            IF i = 0 THEN <<>>
            ELSE IF s[i] \in set THEN Append(kept[i - 1], s[i]) ELSE kept[i - 1]
    IN  kept[Len(s)]

\* Nodes in the order of their declaration.
InOrder(n, set) == Kept([m \in 1 .. n |-> m], set)

\* The queue of nodes whose dependencies are all ordered: at first those that
\* have none, and then one is taken per round, which releases others.
FirstRound(n, deps) ==
    [ready |-> InOrder(n, {m \in 1 .. n : deps[m] = {}}),
     incoming |-> [m \in 1 .. n |-> Cardinality(deps[m])],
     ordered |-> <<>>]

NextRound(n, deps, last) ==
    IF last.ready = <<>> THEN last
    ELSE LET node == Head(last.ready)
             released == {m \in 1 .. n : node \in deps[m] /\ last.incoming[m] = 1}
         IN  [ready |-> Tail(last.ready) \o InOrder(n, released),
              incoming |-> [m \in 1 .. n |-> IF node \in deps[m] THEN last.incoming[m] - 1
                                             ELSE last.incoming[m]],
              ordered |-> Append(last.ordered, node)]

Ordered(n, deps) ==
    LET round[i \in 0 .. n] == IF i = 0 THEN FirstRound(n, deps)
                               ELSE NextRound(n, deps, round[i - 1])
    IN  round[n].ordered

HasCycle(n, deps) == Len(Ordered(n, deps)) # n

\* What the outputs need, backwards through the dependencies.
Needed(n, deps, outputs) ==
    LET step[i \in 0 .. n] ==
            IF i = 0 THEN outputs ELSE step[i - 1] \cup UNION {deps[m] : m \in step[i - 1]}
    IN  step[n]

LiveNodes(n, deps, outputs) == Kept(Ordered(n, deps), Needed(n, deps, outputs))

\* Nodes in an order in which each comes once, after all it depends on.
Arranged(order, deps) ==
    \A i \in DOMAIN order : /\ deps[order[i]] \subseteq {order[j] : j \in 1 .. i - 1}
                            /\ order[i] \notin {order[j] : j \in 1 .. i - 1}
=============================================================================
