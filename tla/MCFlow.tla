------------------------------- MODULE MCFlow -------------------------------
EXTENDS Flow

Out(n, kind) == [node |-> n, kind |-> kind]
On(n, condition) == <<Leaf(n, condition)>>
Both(op, a, b) == <<a, b, Combine(op, 1, 2)>>

\* A race: 3 runs on whichever of 1 and 2 comes first; 1 may fail.
Race == [guard |-> << <<>>, <<>>, Both("ANY", Leaf(1, "FAILED"), Leaf(2, "SUCCEEDED")) >>,
         outputs |-> {Out(3, "RESULT")}]
\* A join on two failures.
Recovery == [guard |-> << <<>>, <<>>, Both("ALL", Leaf(1, "FAILED"), Leaf(2, "FAILED")) >>,
             outputs |-> {Out(3, "RESULT"), Out(1, "OUTCOME")}]
\* A chain in which 2 compensates 1, and 3 follows however they end.
Chain == [guard |-> << <<>>, On(1, "FAILED"),
                       Both("ALL", Leaf(1, "COMPLETED"), Leaf(2, "COMPLETED")) >>,
          outputs |-> {Out(2, "OUTCOME"), Out(3, "OUTCOME")}]
\* Declared out of order, and node 3 is not needed.
Pruned == [guard |-> << On(2, "SUCCEEDED"), <<>>, On(1, "COMPLETED") >>,
           outputs |-> {Out(1, "ERROR")}]
\* No outputs, no nodes.
Empty == [guard |-> << <<>>, <<>>, <<>> >>, outputs |-> {}]

MCPlans == {Race, Recovery, Chain, Pruned, Empty}

----------------------------------------------------------------------------
\* Plan against reference definitions, over every graph of three nodes, every
\* expression over two leaves and every result so far.
Graphs3 == [1 .. 3 -> SUBSET (1 .. 3)]

\* compile rejects exactly the graphs in which some nodes all wait for one
\* another, and arranges what the outputs of the others need.
ASSUME CyclesAreFound ==
    \A deps \in Graphs3 :
        HasCycle(3, deps) <=> \E s \in SUBSET (1 .. 3) \ {{}} : \A n \in s : deps[n] \cap s # {}

ASSUME LiveIsArranged ==
    \A deps \in Graphs3, outputs \in SUBSET (1 .. 3) : ~HasCycle(3, deps) =>
        LET order == LiveNodes(3, deps, outputs) IN
        /\ Arranged(order, deps)
        /\ {order[i] : i \in DOMAIN order} = Needed(3, deps, outputs)

\* What is needed is the least set with the outputs that is closed under
\* dependencies.
ASSUME NeededIsLeast ==
    \A deps \in Graphs3, outputs \in SUBSET (1 .. 3) :
        LET closed == {s \in SUBSET (1 .. 3) : outputs \subseteq s /\ \A n \in s : deps[n] \subseteq s}
        IN  Needed(3, deps, outputs) \in closed
            /\ \A s \in closed : Needed(3, deps, outputs) \subseteq s

Expressions == {Both(op, Leaf(1, c), Leaf(2, d)) : op \in {"ANY", "ALL"}, c, d \in Conditions}
SoFar == [1 .. 2 -> Settled \cup {Unsettled}]
Extends(later, sofar) == \A n \in 1 .. 2 : sofar[n] # Unsettled => later[n] = sofar[n]

\* An expression that is decided stays decided the same way, whatever more
\* becomes known.
ASSUME DecisionsAreMonotone ==
    \A guard \in Expressions, sofar \in SoFar, later \in SoFar :
        LET now == Evaluate(guard, sofar).matched IN
        now # "open" /\ Extends(later, sofar) => Evaluate(guard, later).matched = now
=============================================================================
