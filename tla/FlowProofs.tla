----------------------------- MODULE FlowProofs -----------------------------
(***************************************************************************)
(* Graphs (Plan) and flows (Flow), for every set of accepted graphs and     *)
(* every number of crashes and interruptions: what compile arranges and     *)
(* rejects, that decisions persist, and that the results of a flow are what *)
(* its graph means.                                                         *)
(***************************************************************************)
EXTENDS Flow, FiniteSetTheorems, WellFoundedInduction, TLAPS

----------------------------------------------------------------------------
(* Induction over the positions of a sequence                               *)

\* A set with 0 and the successors of its members up to n has all up to n: of
\* what it does not have there would be a least one.
LEMMA Induction ==
    ASSUME NEW n \in Nat, NEW S, 0 \in S, \A i \in 0 .. n - 1 : i \in S => i + 1 \in S
    PROVE  \A i \in 0 .. n : i \in S
<1> DEFINE T == (0 .. n) \ S
           R == OpToRel(<, Nat)
<1>1. SUFFICES ASSUME T # {} PROVE FALSE
  OBVIOUS
<1>2. IsWellFoundedOn(R, Nat)
  BY NatLessThanWellFounded, Zenon
<1>3. T \subseteq Nat
  OBVIOUS
<1>4. PICK x \in T : \A y \in T : ~(<<y, x>> \in R)
  <2> HIDE DEF T, R
  <2> QED
    BY <1>1, <1>2, <1>3, WFMin
<1>5. \A y \in T : ~(y < x)
  BY <1>3, <1>4 DEF OpToRel
<1>6. x # 0 /\ x - 1 \in 0 .. n - 1 /\ x - 1 < x
  OBVIOUS
<1> QED
  BY <1>5, <1>6

\* The same from all smaller positions.
LEMMA StrongInduction ==
    ASSUME NEW n \in Nat, NEW S,
           \A i \in 1 .. n : (\A j \in 1 .. i - 1 : j \in S) => i \in S
    PROVE  \A i \in 1 .. n : i \in S
<1> DEFINE T == {i \in 0 .. n : \A j \in 1 .. i : j \in S}
<1>1. 0 \in T
  OBVIOUS
<1>2. ASSUME NEW i \in 0 .. n - 1, i \in T PROVE i + 1 \in T
  <2>1. \A j \in 1 .. (i + 1) - 1 : j \in S
    BY <1>2
  <2>2. i + 1 \in S
    BY <2>1
  <2> QED
    BY <1>2, <2>2
<1>3. \A i \in 0 .. n : i \in T
  <2> HIDE DEF T
  <2> QED
    BY <1>1, <1>2, Induction
<1> QED
  BY <1>3

\* A recursion over the positions defines a function, with values in a set that is
\* closed under its step.
Advances(next, n, S) == next \in [(1 .. n) \X S -> S]
Iterates(f, n, S, first, next) ==
    /\ f \in [0 .. n -> S]
    /\ f[0] = first /\ \A i \in 1 .. n : f[i] = next[<<i, f[i - 1]>>]

LEMMA Recursion ==
    ASSUME NEW n \in Nat, NEW S, NEW first \in S, NEW next, Advances(next, n, S)
    PROVE  \E f : Iterates(f, n, S, first, next)
<1> DEFINE Ok(f, k) == f[0] = first /\ \A i \in 1 .. k : f[i] = next[<<i, f[i - 1]>>]
           T == {k \in 0 .. n : \E f \in [0 .. k -> S] : Ok(f, k)}
<1>1. 0 \in T
  <2> DEFINE f == [i \in 0 .. 0 |-> first]
  <2>1. f \in [0 .. 0 -> S] /\ Ok(f, 0)
    OBVIOUS
  <2> HIDE DEF f, Ok
  <2> QED
    BY <2>1
<1>2. ASSUME NEW k \in 0 .. n - 1, k \in T PROVE k + 1 \in T
  <2>1. PICK f \in [0 .. k -> S] : Ok(f, k)
    BY <1>2
  <2> DEFINE new == next[<<k + 1, f[k]>>]
             g == [i \in 0 .. k + 1 |-> IF i = k + 1 THEN new ELSE f[i]]
  <2>2. new \in S
    BY DEF Advances
  <2> HIDE DEF new
  <2>3. g \in [0 .. k + 1 -> S]
    BY <2>2
  <2>4. ASSUME NEW i \in 1 .. k + 1 PROVE g[i] = next[<<i, g[i - 1]>>]
    <3>1. g[i - 1] = f[i - 1]
      OBVIOUS
    <3>2. CASE i = k + 1
      <4>1. g[i] = new /\ i - 1 = k
        BY <3>2
      <4> QED
        BY <3>1, <3>2, <4>1 DEF new
    <3>3. CASE i \in 1 .. k
      <4>1. g[i] = f[i]
        BY <3>3
      <4> QED
        BY <2>1, <3>1, <3>3, <4>1
    <3> QED
      BY <3>2, <3>3
  <2>5. g[0] = first
    BY <2>1
  <2> HIDE DEF g
  <2>6. Ok(g, k + 1)
    BY <2>4, <2>5
  <2>7. k + 1 \in 0 .. n
    OBVIOUS
  <2> HIDE DEF Ok
  <2> QED
    BY <2>3, <2>6, <2>7
<1>3. \A k \in 0 .. n : k \in T
  <2> HIDE DEF T
  <2> QED
    BY <1>1, <1>2, Induction
<1> HIDE DEF Ok
<1>4. \E f \in [0 .. n -> S] : Ok(f, n)
  BY <1>3
<1> QED
  BY <1>4 DEF Ok, Iterates

----------------------------------------------------------------------------
(* Expressions                                                             *)

\* The table of an expression's values so far, and that of its truth.
ValueOf(guard, found, value, i) ==
    IF guard[i].op = "LEAF" THEN LeafValue(guard[i], found)
    ELSE IF guard[i].op = "ANY"
         THEN AnyValue(value[guard[i].left], value[guard[i].right])
         ELSE AllValue(value[guard[i].left], value[guard[i].right])
TruthOf(guard, found, true, i) ==
    IF guard[i].op = "LEAF"
    THEN found[guard[i].node] \in (IF guard[i].condition = "COMPLETED" THEN Settled
                                   ELSE {guard[i].condition})
    ELSE IF guard[i].op = "ANY" THEN true[guard[i].left] \/ true[guard[i].right]
         ELSE true[guard[i].left] /\ true[guard[i].right]

Values(guard, found) ==
    CHOOSE value : value = [i \in DOMAIN guard |-> ValueOf(guard, found, value, i)]
Truths(guard, found) ==
    CHOOSE true : true = [i \in DOMAIN guard |-> TruthOf(guard, found, true, i)]

LEMMA EvaluateIs ==
    ASSUME NEW guard, NEW found
    PROVE  Evaluate(guard, found) = IF guard = <<>> THEN Value("yes", {})
                                    ELSE Values(guard, found)[Len(guard)]
  BY DEF Evaluate, Values, ValueOf

LEMMA HoldsIs ==
    ASSUME NEW guard, NEW found
    PROVE  Holds(guard, found) <=> guard = <<>> \/ Truths(guard, found)[Len(guard)]
  BY DEF Holds, Truths, TruthOf

\* What the entries of an expression are.
LEMMA EntriesAre ==
    ASSUME NEW nodes, NEW guard, IsExpression(guard, nodes)
    PROVE  /\ Len(guard) \in Nat /\ DOMAIN guard = 1 .. Len(guard)
           /\ guard # <<>> => Len(guard) \in 1 .. Len(guard)
           /\ \A i \in 1 .. Len(guard) :
                 /\ guard[i].op \in {"LEAF", "ANY", "ALL"}
                 /\ guard[i].op = "LEAF" =>
                       /\ guard[i].node \in nodes /\ guard[i].condition \in Conditions
                       /\ guard[i] = Leaf(guard[i].node, guard[i].condition)
                       /\ guard[i] \in Leaves(guard)
                 /\ guard[i].op # "LEAF" =>
                       guard[i].left \in 1 .. i - 1 /\ guard[i].right \in 1 .. i - 1
           /\ \A leaf \in Leaves(guard) :
                 \E i \in 1 .. Len(guard) : guard[i].op = "LEAF" /\ leaf = guard[i]
<1> DEFINE L == [op : {"LEAF"}, node : nodes, condition : Conditions]
           C == [op : {"ANY", "ALL"}, left : Nat, right : Nat]
<1>1. /\ Len(guard) \in Nat /\ DOMAIN guard = 1 .. Len(guard)
      /\ \A i \in 1 .. Len(guard) : guard[i] \in L \cup C
  <2>1. guard \in Seq(L \cup C)
    BY DEF IsExpression
  <2> QED
    BY <2>1
<1>2. guard # <<>> => Len(guard) \in 1 .. Len(guard)
  <2>1. guard \in Seq(L \cup C)
    BY DEF IsExpression
  <2> QED
    BY <2>1
<1>3. ASSUME NEW i \in 1 .. Len(guard), guard[i].op = "LEAF"
      PROVE  guard[i] \in L /\ guard[i] \in Leaves(guard)
  <2>1. guard[i] \in L
    BY <1>1, <1>3
  <2>2. i \in Positions(guard, "LEAF")
    BY <1>1, <1>3 DEF Positions
  <2> QED
    BY <2>1, <2>2 DEF Leaves
<1>4. ASSUME NEW i \in 1 .. Len(guard), guard[i].op # "LEAF"
      PROVE  /\ guard[i].op \in {"ANY", "ALL"}
             /\ guard[i].left \in 1 .. i - 1 /\ guard[i].right \in 1 .. i - 1
  <2>1. guard[i] \in C
    BY <1>1, <1>4
  <2>2. i \in DOMAIN guard \ Positions(guard, "LEAF")
    BY <1>1, <1>4 DEF Positions
  <2> QED
    BY <2>1, <2>2 DEF IsExpression
<1>5. ASSUME NEW i \in 1 .. Len(guard), guard[i].op = "LEAF"
      PROVE  /\ guard[i].node \in nodes /\ guard[i].condition \in Conditions
             /\ guard[i] = Leaf(guard[i].node, guard[i].condition)
  BY <1>3, <1>5 DEF Leaf
<1>6. ASSUME NEW leaf \in Leaves(guard)
      PROVE  \E i \in 1 .. Len(guard) : guard[i].op = "LEAF" /\ leaf = guard[i]
  BY <1>1, <1>6 DEF Leaves, Positions
<1> QED
  BY <1>1, <1>2, <1>3, <1>4, <1>5, <1>6

\* The nodes an expression asks for.
LEMMA SourcesAre ==
    ASSUME NEW nodes, NEW guard, IsExpression(guard, nodes)
    PROVE  /\ Sources(guard) \subseteq nodes
           /\ \A i \in 1 .. Len(guard) : guard[i].op = "LEAF" => guard[i].node \in Sources(guard)
  BY EntriesAre DEF Sources

\* The values are what the table says, since entries refer to earlier ones.
LEMMA ValuesAre ==
    ASSUME NEW nodes, NEW guard, IsExpression(guard, nodes), NEW found
    PROVE  \A i \in 1 .. Len(guard) :
              Values(guard, found)[i] = ValueOf(guard, found, Values(guard, found), i)
<1> DEFINE n == Len(guard)
           S == {k \in Nat : \E f : f = [i \in 1 .. k |-> ValueOf(guard, found, f, i)]}
<1>1. n \in Nat /\ DOMAIN guard = 1 .. n
  BY EntriesAre
<1>2. 0 \in S
  <2>1. <<>> = [i \in 1 .. 0 |-> ValueOf(guard, found, <<>>, i)]
    OBVIOUS
  <2> QED
    BY <2>1
<1>3. ASSUME NEW k \in 0 .. n - 1, k \in S PROVE k + 1 \in S
  <2>1. PICK f : f = [i \in 1 .. k |-> ValueOf(guard, found, f, i)]
    BY <1>3
  <2> DEFINE g == [i \in 1 .. k + 1 |-> IF i = k + 1 THEN ValueOf(guard, found, f, i) ELSE f[i]]
  <2>2. ASSUME NEW i \in 1 .. k + 1 PROVE g[i] = ValueOf(guard, found, g, i)
    <3>1. g[i] = ValueOf(guard, found, f, i)
      <4>1. CASE i = k + 1
        BY <4>1
      <4>2. CASE i \in 1 .. k
        <5>1. f[i] = ValueOf(guard, found, f, i)
          BY <2>1, <4>2
        <5> QED
          BY <4>2, <5>1
      <4> QED
        BY <1>3, <4>1, <4>2
    <3>2. i \in 1 .. n /\ \A j \in 1 .. i - 1 : g[j] = f[j]
      BY <1>1, <1>3
    <3>3. guard[i].op # "LEAF" => guard[i].left \in 1 .. i - 1 /\ guard[i].right \in 1 .. i - 1
      BY <3>2, EntriesAre
    <3> HIDE DEF g
    <3> QED
      BY <3>1, <3>2, <3>3 DEF ValueOf
  <2>3. g = [i \in 1 .. k + 1 |-> ValueOf(guard, found, g, i)]
    <3> DEFINE h == [i \in 1 .. k + 1 |-> ValueOf(guard, found, g, i)]
    <3>1. \A i \in 1 .. k + 1 : g[i] = h[i]
      BY <2>2
    <3>2. DOMAIN g = 1 .. k + 1 /\ DOMAIN h = 1 .. k + 1
      OBVIOUS
    <3> QED
      BY <3>1
  <2> HIDE DEF g
  <2> QED
    BY <1>3, <2>3
<1>4. n \in S
  <2> HIDE DEF S
  <2>1. \A k \in 0 .. n : k \in S
    BY <1>1, <1>2, <1>3, Induction
  <2> QED
    BY <1>1, <2>1
<1>5. \E f : f = [i \in DOMAIN guard |-> ValueOf(guard, found, f, i)]
  BY <1>1, <1>4
<1>6. Values(guard, found) = [i \in DOMAIN guard |-> ValueOf(guard, found, Values(guard, found), i)]
  BY <1>5 DEF Values
<1> QED
  BY <1>1, <1>6

\* So is their truth.
LEMMA TruthsAre ==
    ASSUME NEW nodes, NEW guard, IsExpression(guard, nodes), NEW found
    PROVE  \A i \in 1 .. Len(guard) :
              Truths(guard, found)[i] = TruthOf(guard, found, Truths(guard, found), i)
<1> DEFINE n == Len(guard)
           S == {k \in Nat : \E f : f = [i \in 1 .. k |-> TruthOf(guard, found, f, i)]}
<1>1. n \in Nat /\ DOMAIN guard = 1 .. n
  BY EntriesAre
<1>2. 0 \in S
  <2>1. <<>> = [i \in 1 .. 0 |-> TruthOf(guard, found, <<>>, i)]
    OBVIOUS
  <2> QED
    BY <2>1
<1>3. ASSUME NEW k \in 0 .. n - 1, k \in S PROVE k + 1 \in S
  <2>1. PICK f : f = [i \in 1 .. k |-> TruthOf(guard, found, f, i)]
    BY <1>3
  <2> DEFINE g == [i \in 1 .. k + 1 |-> IF i = k + 1 THEN TruthOf(guard, found, f, i) ELSE f[i]]
  <2>2. ASSUME NEW i \in 1 .. k + 1 PROVE g[i] = TruthOf(guard, found, g, i)
    <3>1. g[i] = TruthOf(guard, found, f, i)
      <4>1. CASE i = k + 1
        BY <4>1
      <4>2. CASE i \in 1 .. k
        <5>1. f[i] = TruthOf(guard, found, f, i)
          BY <2>1, <4>2
        <5> QED
          BY <4>2, <5>1
      <4> QED
        BY <1>3, <4>1, <4>2
    <3>2. i \in 1 .. n /\ \A j \in 1 .. i - 1 : g[j] = f[j]
      BY <1>1, <1>3
    <3>3. guard[i].op # "LEAF" => guard[i].left \in 1 .. i - 1 /\ guard[i].right \in 1 .. i - 1
      BY <3>2, EntriesAre
    <3> HIDE DEF g
    <3> QED
      BY <3>1, <3>2, <3>3 DEF TruthOf
  <2>3. g = [i \in 1 .. k + 1 |-> TruthOf(guard, found, g, i)]
    <3> DEFINE h == [i \in 1 .. k + 1 |-> TruthOf(guard, found, g, i)]
    <3>1. \A i \in 1 .. k + 1 : g[i] = h[i]
      BY <2>2
    <3>2. DOMAIN g = 1 .. k + 1 /\ DOMAIN h = 1 .. k + 1
      OBVIOUS
    <3> QED
      BY <3>1
  <2> HIDE DEF g
  <2> QED
    BY <1>3, <2>3
<1>4. n \in S
  <2> HIDE DEF S
  <2>1. \A k \in 0 .. n : k \in S
    BY <1>1, <1>2, <1>3, Induction
  <2> QED
    BY <1>1, <2>1
<1>5. \E f : f = [i \in DOMAIN guard |-> TruthOf(guard, found, f, i)]
  BY <1>1, <1>4
<1>6. Truths(guard, found) = [i \in DOMAIN guard |-> TruthOf(guard, found, Truths(guard, found), i)]
  BY <1>5 DEF Truths
<1> QED
  BY <1>1, <1>6

\* What was known so far of an expression's nodes is settled, and known later too.
Settles(guard, sofar, later) ==
    \A m \in Sources(guard) :
        sofar[m] # Unsettled => later[m] \in Settled /\ later[m] = sofar[m]

\* An expression that is decided so far holds later if it was decided so.
LEMMA DecidedHolds ==
    ASSUME NEW nodes, NEW guard, IsExpression(guard, nodes), NEW sofar, NEW later,
           Settles(guard, sofar, later)
    PROVE  /\ Evaluate(guard, sofar).matched \in {"yes", "no", "open"}
           /\ Evaluate(guard, sofar).matched = "yes" => Holds(guard, later)
           /\ Evaluate(guard, sofar).matched = "no" => ~Holds(guard, later)
<1> DEFINE V == Values(guard, sofar)  T == Truths(guard, later)  n == Len(guard)
           S == {i \in 1 .. n : /\ V[i].matched \in {"yes", "no", "open"}
                                /\ V[i].matched = "yes" => T[i]
                                /\ V[i].matched = "no" => ~T[i]}
<1>1. n \in Nat
  BY EntriesAre
<1>2. ASSUME NEW i \in 1 .. n, \A j \in 1 .. i - 1 : j \in S PROVE i \in S
  <2>1. V[i] = ValueOf(guard, sofar, V, i)
    BY ValuesAre
  <2>2. T[i] = TruthOf(guard, later, T, i)
    BY TruthsAre
  <2> HIDE DEF V, T
  <2>3. CASE guard[i].op = "LEAF"
    <3> DEFINE m == guard[i].node
    <3>1. m \in Sources(guard) /\ guard[i].condition \in Conditions
      BY <2>3, SourcesAre, EntriesAre
    <3>2. sofar[m] # Unsettled => later[m] \in Settled /\ later[m] = sofar[m]
      BY <3>1 DEF Settles
    <3>3. V[i] = LeafValue(guard[i], sofar)
      BY <2>1, <2>3 DEF ValueOf
    <3>4. T[i] = (later[m] \in (IF guard[i].condition = "COMPLETED" THEN Settled
                                ELSE {guard[i].condition}))
      BY <2>2, <2>3 DEF TruthOf
    <3> HIDE DEF m
    <3>5. V[i].matched = IF sofar[m] = Unsettled THEN "open"
                         ELSE IF guard[i].condition \in {sofar[m], "COMPLETED"} THEN "yes" ELSE "no"
      BY <3>3 DEF LeafValue, Value, m
    <3> QED
      BY <3>1, <3>2, <3>4, <3>5 DEF Conditions, Settled
  <2>4. CASE guard[i].op # "LEAF"
    <3> DEFINE a == guard[i].left  b == guard[i].right
    <3>1. /\ a \in S /\ b \in S /\ guard[i].op \in {"ANY", "ALL"}
      BY <1>2, <2>4, EntriesAre
    <3>2. /\ V[a].matched \in {"yes", "no", "open"} /\ V[b].matched \in {"yes", "no", "open"}
          /\ V[a].matched = "yes" => T[a]
          /\ V[a].matched = "no" => ~T[a]
          /\ V[b].matched = "yes" => T[b]
          /\ V[b].matched = "no" => ~T[b]
      BY <3>1
    <3> HIDE DEF a, b
    <3>3. CASE guard[i].op = "ANY"
      <4>1. V[i] = AnyValue(V[a], V[b])
        BY <2>1, <3>3 DEF ValueOf, a, b
      <4>2. T[i] = (T[a] \/ T[b])
        BY <2>2, <3>3 DEF TruthOf, a, b
      <4>3. V[i].matched = IF "yes" \in {V[a].matched, V[b].matched} THEN "yes"
                           ELSE IF "open" \in {V[a].matched, V[b].matched} THEN "open" ELSE "no"
        BY <4>1 DEF AnyValue, Value
      <4> QED
        BY <3>2, <4>2, <4>3
    <3>4. CASE guard[i].op = "ALL"
      <4>1. V[i] = AllValue(V[a], V[b])
        BY <2>1, <3>4 DEF ValueOf, a, b
      <4>2. T[i] = (T[a] /\ T[b])
        BY <2>2, <3>4 DEF TruthOf, a, b
      <4>3. V[i].matched = IF "open" \in {V[a].matched, V[b].matched} THEN "open"
                           ELSE IF {V[a].matched, V[b].matched} = {"yes"} THEN "yes" ELSE "no"
        <5>1. {V[a].matched, V[b].matched} = {"yes"} <=> V[a].matched = "yes" /\ V[b].matched = "yes"
          OBVIOUS
        <5>2. "open" \in {V[a].matched, V[b].matched} <=> V[a].matched = "open" \/ V[b].matched = "open"
          OBVIOUS
        <5>3. V[i] = IF "open" \in {V[a].matched, V[b].matched} THEN Value("open", {})
                     ELSE IF {V[a].matched, V[b].matched} = {"yes"}
                          THEN Value("yes", V[a].handled \cup V[b].handled) ELSE Value("no", {})
          BY <4>1, <5>1, <5>2 DEF AllValue
        <5> QED
          BY <5>3 DEF Value
      <4> QED
        BY <3>2, <4>2, <4>3
    <3> QED
      BY <3>1, <3>3, <3>4
  <2> QED
    BY <2>3, <2>4
<1>3. \A i \in 1 .. n : i \in S
  <2> HIDE DEF S, n
  <2> QED
    BY <1>1, <1>2, StrongInduction
<1>4. CASE guard = <<>>
  BY <1>4, EvaluateIs, HoldsIs DEF Value
<1>5. CASE guard # <<>>
  <2>1. n \in S
    BY <1>3, <1>5, EntriesAre
  <2>2. Evaluate(guard, sofar) = V[n] /\ (Holds(guard, later) <=> T[n])
    BY <1>5, EvaluateIs, HoldsIs
  <2> HIDE DEF V, T, n
  <2> QED
    BY <2>1, <2>2
<1> QED
  BY <1>4, <1>5

\* What an expression handles are failures it asks for, and only if it matches.
LEMMA HandledIs ==
    ASSUME NEW nodes, NEW guard, IsExpression(guard, nodes), NEW sofar,
           NEW k \in Evaluate(guard, sofar).handled
    PROVE  Evaluate(guard, sofar).matched = "yes" /\ Leaf(k, "FAILED") \in Leaves(guard)
<1> DEFINE V == Values(guard, sofar)  n == Len(guard)
           S == {i \in 1 .. n : k \in V[i].handled =>
                                   V[i].matched = "yes" /\ Leaf(k, "FAILED") \in Leaves(guard)}
<1>1. n \in Nat
  BY EntriesAre
<1>2. ASSUME NEW i \in 1 .. n, \A j \in 1 .. i - 1 : j \in S PROVE i \in S
  <2>1. V[i] = ValueOf(guard, sofar, V, i)
    BY ValuesAre
  <2>2. guard[i].op # "LEAF" => guard[i].left \in S /\ guard[i].right \in S
    BY <1>2, EntriesAre
  <2>3. guard[i].op = "LEAF" =>
           guard[i] \in Leaves(guard) /\ guard[i] = Leaf(guard[i].node, guard[i].condition)
    BY EntriesAre
  <2>4. guard[i].op \in {"LEAF", "ANY", "ALL"}
    BY EntriesAre
  <2> HIDE DEF V, n
  <2>5. SUFFICES ASSUME k \in V[i].handled
        PROVE  V[i].matched = "yes" /\ Leaf(k, "FAILED") \in Leaves(guard)
    OBVIOUS
  <2>6. CASE guard[i].op = "LEAF"
    <3>1. V[i] = LeafValue(guard[i], sofar)
      BY <2>1, <2>6 DEF ValueOf
    <3>2. V[i] = Value("yes", IF guard[i].condition = "FAILED" THEN {guard[i].node} ELSE {})
      BY <2>5, <3>1 DEF LeafValue, Value
    <3>3. guard[i].condition = "FAILED" /\ k = guard[i].node /\ V[i].matched = "yes"
      BY <2>5, <3>2 DEF Value
    <3> QED
      BY <2>3, <2>6, <3>3
  <2>7. CASE guard[i].op = "ANY"
    <3> DEFINE a == V[guard[i].left]  b == V[guard[i].right]
    <3>1. V[i] = AnyValue(a, b)
      BY <2>1, <2>7 DEF ValueOf
    <3>2. /\ k \in a.handled => a.matched = "yes" /\ Leaf(k, "FAILED") \in Leaves(guard)
          /\ k \in b.handled => b.matched = "yes" /\ Leaf(k, "FAILED") \in Leaves(guard)
      BY <2>2, <2>7
    <3> HIDE DEF a, b
    <3>3. \/ V[i] = a /\ a.matched = "yes"
          \/ V[i] = b /\ b.matched = "yes"
      BY <2>5, <3>1 DEF AnyValue, Value
    <3> QED
      BY <2>5, <3>2, <3>3
  <2>8. CASE guard[i].op = "ALL"
    <3> DEFINE a == V[guard[i].left]  b == V[guard[i].right]
    <3>1. V[i] = AllValue(a, b)
      BY <2>1, <2>8 DEF ValueOf
    <3>2. /\ k \in a.handled => a.matched = "yes" /\ Leaf(k, "FAILED") \in Leaves(guard)
          /\ k \in b.handled => b.matched = "yes" /\ Leaf(k, "FAILED") \in Leaves(guard)
      BY <2>2, <2>8
    <3> HIDE DEF a, b
    <3>3. V[i] = Value("yes", a.handled \cup b.handled)
      BY <2>5, <3>1 DEF AllValue, Value
    <3> QED
      BY <2>5, <3>2, <3>3 DEF Value
  <2> QED
    BY <2>4, <2>6, <2>7, <2>8
<1>3. \A i \in 1 .. n : i \in S
  <2> HIDE DEF S, n
  <2> QED
    BY <1>1, <1>2, StrongInduction
<1>4. guard # <<>>
  BY EvaluateIs DEF Value
<1>5. n \in 1 .. n /\ Evaluate(guard, sofar) = V[n]
  BY <1>4, EntriesAre, EvaluateIs
<1> HIDE DEF V, n
<1> QED
  BY <1>3, <1>5

\* A match that handles no failure of a node holds without that failure.
LEMMA HoldsWithout ==
    ASSUME NEW nodes, NEW guard, IsExpression(guard, nodes),
           \A i, j \in Positions(guard, "LEAF") : guard[i].node = guard[j].node => i = j,
           NEW sofar, NEW later, Settles(guard, sofar, later), nodes \subseteq DOMAIN later,
           Evaluate(guard, sofar).matched = "yes",
           NEW k, k \notin Evaluate(guard, sofar).handled, Leaf(k, "FAILED") \in Leaves(guard)
    PROVE  Holds(guard, [later EXCEPT ![k] = Unsettled])
<1> DEFINE without == [later EXCEPT ![k] = Unsettled]
           V == Values(guard, sofar)  T == Truths(guard, without)  n == Len(guard)
           S == {i \in 1 .. n : V[i].matched = "yes" /\ k \notin V[i].handled => T[i]}
<1>1. n \in Nat
  BY EntriesAre
<1>2. ASSUME NEW i \in 1 .. n, \A j \in 1 .. i - 1 : j \in S PROVE i \in S
  <2>1. V[i] = ValueOf(guard, sofar, V, i)
    BY ValuesAre
  <2>2. T[i] = TruthOf(guard, without, T, i)
    BY TruthsAre
  <2>3. guard[i].op # "LEAF" => guard[i].left \in S /\ guard[i].right \in S
    BY <1>2, EntriesAre
  <2>4. guard[i].op \in {"LEAF", "ANY", "ALL"}
    BY EntriesAre
  <2> HIDE DEF V, T
  <2>5. SUFFICES ASSUME V[i].matched = "yes", k \notin V[i].handled PROVE T[i]
    OBVIOUS
  <2>6. CASE guard[i].op = "LEAF"
    <3> DEFINE m == guard[i].node  c == guard[i].condition
    <3>1. m \in Sources(guard) /\ m \in nodes /\ c \in Conditions /\ guard[i] = Leaf(m, c)
      BY <2>6, SourcesAre, EntriesAre
    <3>2. sofar[m] # Unsettled => later[m] \in Settled /\ later[m] = sofar[m]
      BY <3>1 DEF Settles
    <3>3. V[i] = LeafValue(guard[i], sofar)
      BY <2>1, <2>6 DEF ValueOf
    <3>4. T[i] = (without[m] \in (IF c = "COMPLETED" THEN Settled ELSE {c}))
      BY <2>2, <2>6 DEF TruthOf
    <3> HIDE DEF m, c
    <3>5. /\ sofar[m] # Unsettled /\ c \in {sofar[m], "COMPLETED"}
          /\ V[i].handled = IF c = "FAILED" THEN {m} ELSE {}
      BY <2>5, <3>3 DEF LeafValue, Value, m, c
    <3>6. m # k
      <4>1. SUFFICES ASSUME m = k PROVE FALSE
        OBVIOUS
      <4>2. PICK j \in 1 .. n : guard[j].op = "LEAF" /\ Leaf(k, "FAILED") = guard[j]
        BY EntriesAre
      <4>3. i \in Positions(guard, "LEAF") /\ j \in Positions(guard, "LEAF")
        BY <2>6, <4>2, EntriesAre DEF Positions
      <4>4. guard[i].node = guard[j].node
        BY <3>1, <4>1, <4>2 DEF Leaf
      <4>5. c = "FAILED"
        BY <4>2, <4>3, <4>4 DEF Leaf, c
      <4> QED
        BY <2>5, <3>5, <4>1, <4>5
    <3>7. without[m] = later[m]
      BY <3>1, <3>6
    <3> QED
      BY <3>1, <3>2, <3>4, <3>5, <3>7 DEF Conditions
  <2>7. CASE guard[i].op = "ANY"
    <3> DEFINE a == guard[i].left  b == guard[i].right
    <3>1. V[i] = AnyValue(V[a], V[b])
      BY <2>1, <2>7 DEF ValueOf
    <3>2. T[i] = (T[a] \/ T[b])
      BY <2>2, <2>7 DEF TruthOf
    <3>3. /\ V[a].matched = "yes" /\ k \notin V[a].handled => T[a]
          /\ V[b].matched = "yes" /\ k \notin V[b].handled => T[b]
      BY <2>3, <2>7
    <3> HIDE DEF a, b
    <3>4. \/ V[i] = V[a] /\ V[a].matched = "yes"
          \/ V[i] = V[b] /\ V[b].matched = "yes"
      BY <2>5, <3>1 DEF AnyValue, Value
    <3> QED
      BY <2>5, <3>2, <3>3, <3>4
  <2>8. CASE guard[i].op = "ALL"
    <3> DEFINE a == guard[i].left  b == guard[i].right
    <3>1. V[i] = AllValue(V[a], V[b])
      BY <2>1, <2>8 DEF ValueOf
    <3>2. T[i] = (T[a] /\ T[b])
      BY <2>2, <2>8 DEF TruthOf
    <3>3. /\ V[a].matched = "yes" /\ k \notin V[a].handled => T[a]
          /\ V[b].matched = "yes" /\ k \notin V[b].handled => T[b]
      BY <2>3, <2>8
    <3> HIDE DEF a, b
    <3>4. {V[a].matched, V[b].matched} = {"yes"} <=> V[a].matched = "yes" /\ V[b].matched = "yes"
      OBVIOUS
    <3>5. /\ V[a].matched = "yes" /\ V[b].matched = "yes"
          /\ V[i].handled = V[a].handled \cup V[b].handled
      <4>1. V[i] = IF "open" \in {V[a].matched, V[b].matched} THEN Value("open", {})
                   ELSE IF {V[a].matched, V[b].matched} = {"yes"}
                        THEN Value("yes", V[a].handled \cup V[b].handled) ELSE Value("no", {})
        BY <3>1, <3>4 DEF AllValue
      <4>2. V[i] = Value("yes", V[a].handled \cup V[b].handled) /\ V[a].matched = "yes" /\ V[b].matched = "yes"
        BY <2>5, <3>4, <4>1 DEF Value
      <4> QED
        BY <4>2 DEF Value
    <3> QED
      BY <2>5, <3>2, <3>3, <3>5
  <2> QED
    BY <2>4, <2>6, <2>7, <2>8
<1>3. \A i \in 1 .. n : i \in S
  <2> HIDE DEF S, n
  <2> QED
    BY <1>1, <1>2, StrongInduction
<1>4. guard # <<>>
  BY EntriesAre
<1>5. /\ n \in 1 .. n /\ Evaluate(guard, sofar) = V[n]
      /\ Holds(guard, without) <=> T[n]
  BY <1>4, EntriesAre, EvaluateIs, HoldsIs
<1> HIDE DEF V, T, n, without
<1>6. T[n]
  BY <1>3, <1>5
<1> QED
  BY <1>5, <1>6 DEF without

\* Whether an expression holds depends on the nodes it asks for.
LEMMA HoldsLocally ==
    ASSUME NEW nodes, NEW guard, IsExpression(guard, nodes), NEW a, NEW b,
           \A m \in Sources(guard) : a[m] = b[m]
    PROVE  Holds(guard, a) <=> Holds(guard, b)
<1> DEFINE T == Truths(guard, a)  U == Truths(guard, b)  n == Len(guard)
           S == {i \in 1 .. n : T[i] <=> U[i]}
<1>1. n \in Nat
  BY EntriesAre
<1>2. ASSUME NEW i \in 1 .. n, \A j \in 1 .. i - 1 : j \in S PROVE i \in S
  <2>1. T[i] = TruthOf(guard, a, T, i) /\ U[i] = TruthOf(guard, b, U, i)
    BY TruthsAre
  <2>2. guard[i].op # "LEAF" => guard[i].left \in S /\ guard[i].right \in S
    BY <1>2, EntriesAre
  <2>3. guard[i].op = "LEAF" => a[guard[i].node] = b[guard[i].node]
    BY SourcesAre
  <2> HIDE DEF T, U
  <2>4. TruthOf(guard, a, T, i) <=> TruthOf(guard, b, U, i)
    BY <2>2, <2>3 DEF TruthOf
  <2> QED
    BY <2>1, <2>4
<1>3. \A i \in 1 .. n : i \in S
  <2> HIDE DEF S, n
  <2> QED
    BY <1>1, <1>2, StrongInduction
<1>4. CASE guard # <<>>
  <2>1. /\ n \in S
        /\ Holds(guard, a) <=> T[n]
        /\ Holds(guard, b) <=> U[n]
    BY <1>3, <1>4, EntriesAre, HoldsIs
  <2> HIDE DEF T, U, n
  <2> QED
    BY <2>1
<1> QED
  BY <1>4, HoldsIs

----------------------------------------------------------------------------
(* Compilation of a graph (Plan)                                           *)

Members(s) == {s[i] : i \in 1 .. Len(s)}
Distinct(s) == \A i, j \in 1 .. Len(s) : s[i] = s[j] => i = j

\* A node goes behind what it depends on.
LEMMA Appended ==
    ASSUME NEW A, NEW s \in Seq(A), NEW x \in A
    PROVE  /\ Append(s, x) \in Seq(A) /\ Len(Append(s, x)) = Len(s) + 1
           /\ Members(Append(s, x)) = Members(s) \cup {x}
           /\ \A deps : Arranged(s, deps) /\ deps[x] \subseteq Members(s) /\ x \notin Members(s)
                 => Arranged(Append(s, x), deps)
<1> DEFINE t == Append(s, x)
<1>1. /\ t \in Seq(A) /\ Len(t) = Len(s) + 1 /\ Len(s) \in Nat
      /\ DOMAIN s = 1 .. Len(s) /\ DOMAIN t = 1 .. Len(s) + 1
      /\ \A i \in 1 .. Len(s) : t[i] = s[i]
      /\ t[Len(s) + 1] = x
  OBVIOUS
<1> HIDE DEF t
<1>2. Members(t) = Members(s) \cup {x}
  <2>1. ASSUME NEW i \in 1 .. Len(t) PROVE t[i] \in Members(s) \cup {x}
    <3>1. i \in 1 .. Len(s) \/ i = Len(s) + 1
      BY <1>1
    <3> QED
      BY <1>1, <3>1 DEF Members
  <2>2. ASSUME NEW i \in 1 .. Len(s) PROVE s[i] \in Members(t)
    <3>1. i \in 1 .. Len(t) /\ s[i] = t[i]
      BY <1>1
    <3> QED
      BY <3>1 DEF Members
  <2>3. x \in Members(t)
    <3>1. Len(s) + 1 \in 1 .. Len(t)
      BY <1>1
    <3> QED
      BY <1>1, <3>1 DEF Members
  <2> QED
    BY <2>1, <2>2, <2>3 DEF Members
<1>3. ASSUME NEW deps, Arranged(s, deps), deps[x] \subseteq Members(s), x \notin Members(s)
      PROVE  Arranged(t, deps)
  <2>1. ASSUME NEW i \in 1 .. Len(s) + 1
        PROVE  /\ deps[t[i]] \subseteq {t[j] : j \in 1 .. i - 1}
               /\ t[i] \notin {t[j] : j \in 1 .. i - 1}
    <3>1. {t[j] : j \in 1 .. i - 1} = {s[j] : j \in 1 .. i - 1}
      <4>1. \A j \in 1 .. i - 1 : t[j] = s[j]
        BY <1>1
      <4> QED
        BY <4>1
    <3>2. CASE i \in 1 .. Len(s)
      BY <1>1, <1>3, <3>1, <3>2 DEF Arranged
    <3>3. CASE i = Len(s) + 1
      <4>1. {s[j] : j \in 1 .. i - 1} = Members(s)
        BY <1>1, <3>3 DEF Members
      <4>2. t[i] = x
        BY <1>1, <3>3
      <4> QED
        BY <1>3, <3>1, <4>1, <4>2
    <3>4. i \in 1 .. Len(s) \/ i = Len(s) + 1
      BY <1>1
    <3> QED
      BY <3>2, <3>3, <3>4
  <2> QED
    BY <1>1, <2>1 DEF Arranged
<1> QED
  BY <1>1, <1>2, <1>3 DEF t

\* An arranged sequence has no member twice.
LEMMA ArrangedOnce ==
    ASSUME NEW A, NEW s \in Seq(A), NEW deps, Arranged(s, deps)
    PROVE  Distinct(s)
<1>1. ASSUME NEW i \in 1 .. Len(s), NEW j \in 1 .. Len(s), i < j PROVE s[i] # s[j]
  <2>1. s[j] \notin {s[k] : k \in 1 .. j - 1}
    BY DEF Arranged
  <2>2. i \in 1 .. j - 1
    BY <1>1
  <2> QED
    BY <2>1, <2>2
<1>2. ASSUME NEW i \in 1 .. Len(s), NEW j \in 1 .. Len(s), i # j PROVE i < j \/ j < i
  BY <1>2
<1> QED
  BY <1>1, <1>2 DEF Distinct

\* The members of a sequence that are kept, position by position.
KeptAt(s, set, kept, i) ==
    IF i = 0 THEN <<>>
    ELSE IF s[i] \in set THEN Append(kept[i - 1], s[i]) ELSE kept[i - 1]
KeptTable(s, set) == CHOOSE kept : kept = [i \in 0 .. Len(s) |-> KeptAt(s, set, kept, i)]

LEMMA KeptIs ==
    ASSUME NEW A, NEW s \in Seq(A), NEW set
    PROVE  \A i \in 0 .. Len(s) :
              KeptTable(s, set)[i] = KeptAt(s, set, KeptTable(s, set), i)
<1> DEFINE n == Len(s)
           next == [p \in (1 .. n) \X Seq(A) |->
                       IF s[p[1]] \in set THEN Append(p[2], s[p[1]]) ELSE p[2]]
<1>1. n \in Nat /\ \A i \in 1 .. n : s[i] \in A
  OBVIOUS
<1>2. next \in [(1 .. n) \X Seq(A) -> Seq(A)]
  <2>1. ASSUME NEW p \in (1 .. n) \X Seq(A)
        PROVE  (IF s[p[1]] \in set THEN Append(p[2], s[p[1]]) ELSE p[2]) \in Seq(A)
    <3>1. p[1] \in 1 .. n /\ p[2] \in Seq(A) /\ s[p[1]] \in A
      BY <1>1
    <3> HIDE DEF n
    <3> QED
      BY <3>1
  <2> QED
    BY <2>1
<1>3. PICK f \in [0 .. n -> Seq(A)] :
         f[0] = <<>> /\ \A i \in 1 .. n : f[i] = next[<<i, f[i - 1]>>]
  <2>1. <<>> \in Seq(A) /\ Advances(next, n, Seq(A))
    BY <1>2 DEF Advances
  <2> HIDE DEF next, n
  <2>2. \E f : Iterates(f, n, Seq(A), <<>>, next)
    BY <1>1, <2>1, Recursion
  <2> QED
    BY <2>2 DEF Iterates
<1>4. \A i \in 1 .. n : f[i] = IF s[i] \in set THEN Append(f[i - 1], s[i]) ELSE f[i - 1]
  <2>1. ASSUME NEW i \in 1 .. n
        PROVE  f[i] = IF s[i] \in set THEN Append(f[i - 1], s[i]) ELSE f[i - 1]
    <3>1. i - 1 \in 0 .. n /\ f[i - 1] \in Seq(A)
      BY <1>1, <1>3
    <3> DEFINE p == <<i, f[i - 1]>>
    <3>2. p \in (1 .. n) \X Seq(A) /\ p[1] = i /\ p[2] = f[i - 1]
      BY <3>1
    <3> HIDE DEF p
    <3>3. next[p] = IF s[i] \in set THEN Append(f[i - 1], s[i]) ELSE f[i - 1]
      BY <3>2
    <3> HIDE DEF next
    <3> QED
      BY <1>3, <3>3 DEF p
  <2> QED
    BY <2>1
<1> HIDE DEF next
<1>5. f = [i \in 0 .. n |-> KeptAt(s, set, f, i)]
  <2> DEFINE g == [i \in 0 .. n |-> KeptAt(s, set, f, i)]
  <2>1. ASSUME NEW i \in 0 .. n PROVE f[i] = KeptAt(s, set, f, i)
    <3>1. i = 0 \/ i \in 1 .. n
      BY <1>1
    <3> QED
      BY <1>3, <1>4, <3>1 DEF KeptAt
  <2>2. \A i \in 0 .. n : f[i] = g[i]
    BY <2>1
  <2> QED
    BY <1>3, <2>2
<1>6. \E kept : kept = [i \in 0 .. Len(s) |-> KeptAt(s, set, kept, i)]
  BY <1>5
<1>7. KeptTable(s, set) = [i \in 0 .. Len(s) |-> KeptAt(s, set, KeptTable(s, set), i)]
  BY <1>6 DEF KeptTable
<1> QED
  BY <1>7

\* What is kept of a sequence are its members in the set; they stay arranged if
\* the set has what they depend on.
LEMMA KeptFacts ==
    ASSUME NEW A, NEW s \in Seq(A), NEW set
    PROVE  /\ Kept(s, set) \in Seq(A)
           /\ Members(Kept(s, set)) = Members(s) \cap set
           /\ \A deps : Arranged(s, deps) /\ (\A x \in Members(s) \cap set : deps[x] \subseteq set)
                 => Arranged(Kept(s, set), deps)
<1> DEFINE n == Len(s)  K == KeptTable(s, set)  upto(i) == {s[j] : j \in 1 .. i}
<1>1. n \in Nat /\ DOMAIN s = 1 .. n /\ \A i \in 1 .. n : s[i] \in A
  OBVIOUS
<1>2. Kept(s, set) = K[n]
  BY DEF Kept, KeptTable, KeptAt
<1>3. /\ K[0] = <<>>
      /\ \A i \in 1 .. n : K[i] = IF s[i] \in set THEN Append(K[i - 1], s[i]) ELSE K[i - 1]
  <2>1. \A i \in 0 .. n : K[i] = KeptAt(s, set, K, i)
    BY KeptIs
  <2> HIDE DEF K, n
  <2> QED
    BY <1>1, <2>1 DEF KeptAt
<1> HIDE DEF K
<1> SUFFICES ASSUME NEW deps
             PROVE  /\ K[n] \in Seq(A) /\ Members(K[n]) = Members(s) \cap set
                    /\ Arranged(s, deps) /\ (\A x \in Members(s) \cap set : deps[x] \subseteq set)
                          => Arranged(K[n], deps)
  BY <1>2
<1> DEFINE good == Arranged(s, deps) /\ \A x \in Members(s) \cap set : deps[x] \subseteq set
           S == {i \in 0 .. n : /\ K[i] \in Seq(A) /\ Members(K[i]) = upto(i) \cap set
                                /\ good => Arranged(K[i], deps)}
<1>4. 0 \in S
  <2>1. Members(<<>>) = {} /\ Arranged(<<>>, deps) /\ <<>> \in Seq(A)
    BY DEF Members, Arranged
  <2>2. upto(0) = {} /\ 0 \in 0 .. n
    BY <1>1
  <2> HIDE DEF good, upto, n
  <2>3. K[0] \in Seq(A) /\ Members(K[0]) = upto(0) \cap set /\ Arranged(K[0], deps)
    BY <1>3, <2>1, <2>2
  <2> QED
    BY <2>2, <2>3
<1>5. ASSUME NEW i \in 0 .. n - 1, i \in S PROVE i + 1 \in S
  <2> DEFINE x == s[i + 1]
  <2>1. i + 1 \in 1 .. n /\ i + 1 \in 0 .. n /\ (i + 1) - 1 = i
    BY <1>1
  <2>2. x \in A /\ x \in Members(s)
    BY <1>1, <2>1 DEF Members
  <2>3. upto(i + 1) = upto(i) \cup {x}
    <3>1. \A j : j \in 1 .. i + 1 <=> j \in 1 .. i \/ j = i + 1
      BY <1>1
    <3> QED
      BY <3>1
  <2>4. good => deps[x] \subseteq upto(i) /\ x \notin upto(i)
    BY <1>1, <2>1 DEF Arranged
  <2>5. K[i + 1] = IF x \in set THEN Append(K[i], x) ELSE K[i]
    BY <1>3, <2>1
  <2>6. K[i] \in Seq(A) /\ Members(K[i]) = upto(i) \cap set /\ (good => Arranged(K[i], deps))
    BY <1>5
  <2>7. good /\ x \in set => deps[x] \subseteq set
    BY <2>2
  <2> HIDE DEF good, upto, x
  <2>8. CASE x \in set
    <3>1. /\ Append(K[i], x) \in Seq(A)
          /\ Members(Append(K[i], x)) = Members(K[i]) \cup {x}
          /\ Arranged(K[i], deps) /\ deps[x] \subseteq Members(K[i]) /\ x \notin Members(K[i])
                => Arranged(Append(K[i], x), deps)
      BY <2>2, <2>6, Appended
    <3>2. /\ K[i + 1] \in Seq(A) /\ Members(K[i + 1]) = upto(i + 1) \cap set
          /\ good => Arranged(K[i + 1], deps)
      BY <2>3, <2>4, <2>5, <2>6, <2>7, <2>8, <3>1
    <3> QED
      BY <2>1, <3>2
  <2>9. CASE x \notin set
    <3>1. /\ K[i + 1] \in Seq(A) /\ Members(K[i + 1]) = upto(i + 1) \cap set
          /\ good => Arranged(K[i + 1], deps)
      BY <2>3, <2>5, <2>6, <2>9
    <3> QED
      BY <2>1, <3>1
  <2> QED
    BY <2>8, <2>9
<1>6. n \in S
  <2> HIDE DEF S, n
  <2>1. \A i \in 0 .. n : i \in S
    BY <1>1, <1>4, <1>5, Induction
  <2> QED
    BY <1>1, <2>1
<1> QED
  BY <1>6 DEF Members

\* The nodes of a set in the order of their declaration.
LEMMA InOrderFacts ==
    ASSUME NEW n \in Nat, NEW set \in SUBSET (1 .. n)
    PROVE  /\ InOrder(n, set) \in Seq(1 .. n) /\ Members(InOrder(n, set)) = set
           /\ Distinct(InOrder(n, set))
<1> DEFINE all == [m \in 1 .. n |-> m]  none == [m \in 1 .. n |-> {}]
<1>1. all \in Seq(1 .. n) /\ Len(all) = n /\ DOMAIN all = 1 .. n
  OBVIOUS
<1>2. Members(all) = 1 .. n
  BY <1>1 DEF Members
<1>3. Arranged(all, none)
  <2>1. ASSUME NEW i \in 1 .. n PROVE none[all[i]] = {} /\ all[i] \notin {all[j] : j \in 1 .. i - 1}
    <3>1. all[i] = i /\ none[i] = {}
      OBVIOUS
    <3>2. \A j \in 1 .. i - 1 : all[j] = j /\ j # i
      OBVIOUS
    <3> HIDE DEF all, none
    <3> QED
      BY <3>1, <3>2
  <2> HIDE DEF all, none
  <2> QED
    BY <1>1, <2>1 DEF Arranged
<1> HIDE DEF all
<1>4. \A x \in Members(all) \cap set : none[x] \subseteq set
  BY <1>2
<1> HIDE DEF none
<1>5. /\ Kept(all, set) \in Seq(1 .. n) /\ Members(Kept(all, set)) = Members(all) \cap set
      /\ Arranged(Kept(all, set), none)
  BY <1>1, <1>3, <1>4, KeptFacts
<1>6. InOrder(n, set) = Kept(all, set)
  BY DEF InOrder, all
<1> QED
  BY <1>2, <1>5, <1>6, ArrangedOnce

\* Two sequences without a common member.
LEMMA Joined ==
    ASSUME NEW A, NEW s \in Seq(A), NEW t \in Seq(A), Distinct(s), Distinct(t),
           Members(s) \cap Members(t) = {}
    PROVE  /\ s \o t \in Seq(A) /\ Members(s \o t) = Members(s) \cup Members(t)
           /\ Distinct(s \o t)
<1> DEFINE u == s \o t  k == Len(s)  l == Len(t)
<1>1. /\ u \in Seq(A) /\ k \in Nat /\ l \in Nat /\ Len(u) = k + l
      /\ \A i \in 1 .. k : u[i] = s[i]
      /\ \A i \in 1 .. l : u[k + i] = t[i]
  OBVIOUS
<1> HIDE DEF u
<1>2. \A i \in 1 .. k + l : i \in 1 .. k \/ (i - k \in 1 .. l /\ k + (i - k) = i)
  BY <1>1
<1>3. \A i \in 1 .. k : i \in 1 .. k + l
  BY <1>1
<1>4. \A i \in 1 .. l : k + i \in 1 .. k + l
  BY <1>1
<1>5. ASSUME NEW i \in 1 .. k + l
      PROVE  \/ i \in 1 .. k /\ u[i] = s[i] /\ u[i] \in Members(s)
             \/ i - k \in 1 .. l /\ u[i] = t[i - k] /\ u[i] \in Members(t)
  <2>1. CASE i \in 1 .. k
    BY <1>1, <2>1 DEF Members
  <2>2. CASE i - k \in 1 .. l /\ k + (i - k) = i
    BY <1>1, <2>2 DEF Members
  <2> QED
    BY <1>2, <2>1, <2>2
<1>6. Members(u) = Members(s) \cup Members(t)
  <2>1. ASSUME NEW x \in Members(s) PROVE x \in Members(u)
    <3>1. PICK i \in 1 .. k : x = s[i]
      BY DEF Members
    <3>2. i \in 1 .. Len(u) /\ x = u[i]
      BY <1>1, <1>3, <3>1
    <3> QED
      BY <3>2 DEF Members
  <2>2. ASSUME NEW x \in Members(t) PROVE x \in Members(u)
    <3>1. PICK i \in 1 .. l : x = t[i]
      BY DEF Members
    <3>2. k + i \in 1 .. Len(u) /\ x = u[k + i]
      BY <1>1, <1>4, <3>1
    <3> QED
      BY <3>2 DEF Members
  <2>3. \A i \in 1 .. Len(u) : u[i] \in Members(s) \cup Members(t)
    BY <1>1, <1>5
  <2>4. \A x \in Members(u) : x \in Members(s) \cup Members(t)
    BY <2>3 DEF Members
  <2> QED
    BY <2>1, <2>2, <2>4
<1>7. ASSUME NEW i \in 1 .. k + l, NEW j \in 1 .. k + l, u[i] = u[j] PROVE i = j
  <2> DEFINE a == Members(s)  b == Members(t)
  <2>1. /\ \A p, q \in 1 .. k : s[p] = s[q] => p = q
        /\ \A p, q \in 1 .. l : t[p] = t[q] => p = q
    BY DEF Distinct
  <2>2. \/ i \in 1 .. k /\ j \in 1 .. k /\ s[i] = s[j]
        \/ i - k \in 1 .. l /\ j - k \in 1 .. l /\ t[i - k] = t[j - k]
    <3> HIDE DEF a, b, k, l
    <3>1. u[i] \in a /\ u[i] \in b => FALSE
      BY DEF a, b
    <3> QED
      BY <1>5, <1>7, <3>1 DEF a, b
  <2>3. i - k = j - k => i = j
    BY <1>1
  <2> QED
    BY <2>1, <2>2, <2>3
<1> QED
  BY <1>1, <1>6, <1>7 DEF Distinct, u

\* The first of a queue and the others.
LEMMA Dequeued ==
    ASSUME NEW A, NEW s \in Seq(A), s # <<>>, Distinct(s)
    PROVE  /\ Head(s) \in A /\ Tail(s) \in Seq(A)
           /\ Members(s) = Members(Tail(s)) \cup {Head(s)} /\ Head(s) \notin Members(Tail(s))
           /\ Distinct(Tail(s))
<1> DEFINE k == Len(s)  t == Tail(s)
<1>1. /\ k \in Nat \ {0} /\ Head(s) = s[1] /\ t \in Seq(A) /\ Len(t) = k - 1
      /\ \A i \in 1 .. k - 1 : t[i] = s[i + 1]
      /\ \A i \in 1 .. k : s[i] \in A
  OBVIOUS
<1> HIDE DEF t
<1>2. 1 \in 1 .. k /\ \A i \in 1 .. k - 1 : i + 1 \in 1 .. k /\ i + 1 # 1
  BY <1>1
<1>3. Members(t) = {s[i + 1] : i \in 1 .. k - 1}
  <2>1. Members(t) = {t[i] : i \in 1 .. k - 1}
    BY <1>1 DEF Members
  <2> HIDE DEF k
  <2> QED
    BY <1>1, <2>1
<1>4. Members(s) = Members(t) \cup {s[1]}
  <2>1. ASSUME NEW i \in 1 .. k PROVE s[i] \in Members(t) \cup {s[1]}
    <3>1. i = 1 \/ (i - 1 \in 1 .. k - 1 /\ (i - 1) + 1 = i)
      BY <1>1
    <3> HIDE DEF k
    <3> QED
      BY <1>3, <3>1
  <2>2. Members(s) = {s[i] : i \in 1 .. k}
    BY DEF Members
  <2> HIDE DEF k
  <2> QED
    BY <1>2, <1>3, <2>1, <2>2
<1>5. \A i, j \in 1 .. k : s[i] = s[j] => i = j
  BY DEF Distinct
<1> HIDE DEF k
<1>6. s[1] \notin Members(t)
  BY <1>2, <1>3, <1>5
<1>7. ASSUME NEW i \in 1 .. k - 1, NEW j \in 1 .. k - 1, t[i] = t[j] PROVE i = j
  <2>1. i + 1 = j + 1
    BY <1>1, <1>2, <1>5, <1>7
  <2> QED
    BY <2>1
<1>8. Distinct(t)
  BY <1>1, <1>7 DEF Distinct
<1> QED
  BY <1>1, <1>2, <1>4, <1>6, <1>8 DEF t

\* Between two rounds: what is ordered is arranged, ready are the others whose
\* dependencies are ordered, and what is incoming is not.
RoundInv(n, deps, r) ==
    /\ r \in [ready : Seq(1 .. n), incoming : [1 .. n -> Nat], ordered : Seq(1 .. n)]
    /\ Arranged(r.ordered, deps)
    /\ Cardinality(Members(r.ordered)) = Len(r.ordered)
    /\ Distinct(r.ready) /\ Members(r.ready) \cap Members(r.ordered) = {}
    /\ \A m \in 1 .. n :
          /\ r.incoming[m] = Cardinality(deps[m] \ Members(r.ordered))
          /\ deps[m] \subseteq Members(r.ordered)
                <=> m \in Members(r.ready) \cup Members(r.ordered)

LEMMA FirstRoundInv ==
    ASSUME NEW n \in Nat, NEW deps \in [1 .. n -> SUBSET (1 .. n)]
    PROVE  RoundInv(n, deps, FirstRound(n, deps))
<1> DEFINE r == FirstRound(n, deps)  roots == {m \in 1 .. n : deps[m] = {}}
<1>1. /\ r.ready = InOrder(n, roots) /\ r.ordered = <<>>
      /\ r.incoming = [m \in 1 .. n |-> Cardinality(deps[m])]
      /\ r = [ready |-> r.ready, incoming |-> r.incoming, ordered |-> r.ordered]
  BY DEF FirstRound
<1> HIDE DEF r
<1>2. r.ready \in Seq(1 .. n) /\ Members(r.ready) = roots /\ Distinct(r.ready)
  BY <1>1, InOrderFacts
<1>3. /\ Members(<<>>) = {} /\ Arranged(<<>>, deps) /\ <<>> \in Seq(1 .. n) /\ Len(<<>>) = 0
  BY DEF Members, Arranged
<1>4. \A m \in 1 .. n : Cardinality(deps[m]) \in Nat
  <2>1. IsFiniteSet(1 .. n)
    BY FS_Interval
  <2> QED
    BY <2>1, FS_Subset, FS_CardinalityType
<1>5. Cardinality({}) = 0
  BY FS_EmptySet
<1>6. r \in [ready : Seq(1 .. n), incoming : [1 .. n -> Nat], ordered : Seq(1 .. n)]
  <2>1. r.incoming \in [1 .. n -> Nat] /\ r.ordered \in Seq(1 .. n)
    BY <1>1, <1>3, <1>4
  <2> QED
    BY <1>1, <1>2, <2>1
<1>7. \A m \in 1 .. n : /\ r.incoming[m] = Cardinality(deps[m] \ {})
                        /\ deps[m] \subseteq {} <=> m \in roots \cup {}
  <2>1. ASSUME NEW m \in 1 .. n PROVE deps[m] \ {} = deps[m] /\ (deps[m] \subseteq {} <=> m \in roots)
    OBVIOUS
  <2> QED
    BY <1>1, <2>1
<1>8. /\ Members(r.ordered) = {} /\ Arranged(r.ordered, deps)
      /\ Cardinality(Members(r.ordered)) = Len(r.ordered)
  BY <1>1, <1>3, <1>5
<1> HIDE DEF roots
<1>9. RoundInv(n, deps, r)
  BY <1>2, <1>6, <1>7, <1>8 DEF RoundInv
<1> QED
  BY <1>9 DEF r

\* The first of the queue is ordered; what waited for it alone joins the queue.
LEMMA NextRoundInv ==
    ASSUME NEW n \in Nat, NEW deps \in [1 .. n -> SUBSET (1 .. n)], NEW last,
           RoundInv(n, deps, last)
    PROVE  LET r == NextRound(n, deps, last) IN
           /\ RoundInv(n, deps, r)
           /\ last.ready = <<>> => r = last
           /\ last.ready # <<>> => Len(r.ordered) = Len(last.ordered) + 1
<1> DEFINE r == NextRound(n, deps, last)
<1>1. CASE last.ready = <<>>
  BY <1>1 DEF NextRound
<1>2. CASE last.ready # <<>>
  <2> DEFINE node == Head(last.ready)  rest == Tail(last.ready)
             O == Members(last.ordered)  R == Members(last.ready)
             released == {m \in 1 .. n : node \in deps[m] /\ last.incoming[m] = 1}
             free == {m \in 1 .. n : node \in deps[m] /\ deps[m] \subseteq O \cup {node}}
  <2>1. /\ last.ready \in Seq(1 .. n) /\ last.ordered \in Seq(1 .. n)
        /\ last.incoming \in [1 .. n -> Nat]
        /\ Arranged(last.ordered, deps) /\ Cardinality(O) = Len(last.ordered)
        /\ Distinct(last.ready) /\ R \cap O = {}
        /\ \A m \in 1 .. n : /\ last.incoming[m] = Cardinality(deps[m] \ O)
                             /\ deps[m] \subseteq O <=> m \in R \cup O
    BY DEF RoundInv
  <2>2. /\ node \in 1 .. n /\ rest \in Seq(1 .. n) /\ node \in R
        /\ R = Members(rest) \cup {node} /\ node \notin Members(rest) /\ Distinct(rest)
    <3>1. /\ node \in 1 .. n /\ rest \in Seq(1 .. n)
          /\ R = Members(rest) \cup {node} /\ node \notin Members(rest)
          /\ Distinct(rest)
      <4> DEFINE A == 1 .. n
      <4>1. last.ready \in Seq(A) /\ last.ready # <<>> /\ Distinct(last.ready)
        BY <1>2, <2>1
      <4> HIDE DEF A
      <4> QED
        BY <4>1, Dequeued DEF A
    <3> QED
      BY <3>1
  <2>3. /\ r.ready = rest \o InOrder(n, released)
        /\ r.incoming = [m \in 1 .. n |-> IF node \in deps[m] THEN last.incoming[m] - 1
                                          ELSE last.incoming[m]]
        /\ r.ordered = Append(last.ordered, node)
        /\ r = [ready |-> r.ready, incoming |-> r.incoming, ordered |-> r.ordered]
    BY <1>2 DEF NextRound
  <2> HIDE DEF r, node, rest, O, R
  <2>4. node \notin O /\ deps[node] \subseteq O
    BY <2>1, <2>2
  <2>5. ASSUME NEW m \in 1 .. n
        PROVE  /\ Cardinality(deps[m] \ O) \in Nat
               /\ node \in deps[m] =>
                     /\ Cardinality(deps[m] \ (O \cup {node})) = Cardinality(deps[m] \ O) - 1
                     /\ Cardinality(deps[m] \ O) = 1 <=> deps[m] \subseteq O \cup {node}
                     /\ Cardinality(deps[m] \ O) # 0
    <3> DEFINE X == deps[m] \ O
    <3>1. IsFiniteSet(X)
      <4>1. IsFiniteSet(1 .. n) /\ X \subseteq 1 .. n
        BY FS_Interval
      <4> QED
        BY <4>1, FS_Subset
    <3>2. Cardinality(X) \in Nat
      BY <3>1, FS_CardinalityType
    <3>3. /\ IsFiniteSet(X \ {node})
          /\ node \in X => Cardinality(X \ {node}) = Cardinality(X) - 1
      BY <3>1, FS_RemoveElement
    <3>4. Cardinality(X \ {node}) = 0 <=> X \ {node} = {}
      BY <3>3, FS_EmptySet
    <3>5. Cardinality(X \ {node}) \in Nat
      BY <3>3, FS_CardinalityType
    <3>6. /\ deps[m] \ (O \cup {node}) = X \ {node}
          /\ X \ {node} = {} <=> deps[m] \subseteq O \cup {node}
          /\ node \in deps[m] => node \in X
      BY <2>4
    <3> HIDE DEF X
    <3>7. ASSUME node \in deps[m]
          PROVE  /\ Cardinality(X \ {node}) = Cardinality(X) - 1
                 /\ Cardinality(X) = 1 <=> Cardinality(X \ {node}) = 0
                 /\ Cardinality(X) # 0
      BY <3>2, <3>3, <3>5, <3>6, <3>7
    <3> QED
      BY <3>2, <3>4, <3>6, <3>7 DEF X
  <2>6. released = free
    BY <2>1, <2>5
  <2>7. /\ InOrder(n, released) \in Seq(1 .. n) /\ Members(InOrder(n, released)) = released
        /\ Distinct(InOrder(n, released))
    BY InOrderFacts
  <2>8. free \cap (R \cup O) = {}
    BY <2>1, <2>4
  <2> HIDE DEF released, free
  <2>9. /\ r.ordered \in Seq(1 .. n) /\ Len(r.ordered) = Len(last.ordered) + 1
        /\ Members(r.ordered) = O \cup {node} /\ Arranged(r.ordered, deps)
    <3>1. /\ Append(last.ordered, node) \in Seq(1 .. n)
          /\ Len(Append(last.ordered, node)) = Len(last.ordered) + 1
          /\ Members(Append(last.ordered, node)) = O \cup {node}
          /\ Arranged(last.ordered, deps) /\ deps[node] \subseteq O /\ node \notin O
                => Arranged(Append(last.ordered, node), deps)
      BY <2>1, <2>2, Appended DEF O
    <3> QED
      BY <2>1, <2>3, <2>4, <3>1
  <2>10. Cardinality(Members(r.ordered)) = Len(r.ordered)
    <3>1. IsFiniteSet(O)
      <4>1. IsFiniteSet(1 .. n) /\ O \subseteq 1 .. n
        <5>1. \A i \in 1 .. Len(last.ordered) : last.ordered[i] \in 1 .. n
          BY <2>1
        <5>2. IsFiniteSet(1 .. n)
          BY FS_Interval
        <5> QED
          BY <5>1, <5>2 DEF O, Members
      <4> QED
        BY <4>1, FS_Subset
    <3>2. Cardinality(O \cup {node}) = Cardinality(O) + 1
      BY <2>4, <3>1, FS_AddElement
    <3> QED
      BY <2>1, <2>9, <3>2
  <2>11. /\ r.ready \in Seq(1 .. n) /\ Members(r.ready) = Members(rest) \cup free
         /\ Distinct(r.ready)
    <3>1. Members(rest) \cap Members(InOrder(n, released)) = {}
      BY <2>2, <2>6, <2>7, <2>8
    <3> QED
      BY <2>2, <2>3, <2>6, <2>7, <3>1, Joined
  <2>12. r.incoming \in [1 .. n -> Nat]
         /\ \A m \in 1 .. n : r.incoming[m] = Cardinality(deps[m] \ (O \cup {node}))
    <3>1. ASSUME NEW m \in 1 .. n
          PROVE  r.incoming[m] \in Nat /\ r.incoming[m] = Cardinality(deps[m] \ (O \cup {node}))
      <4>1. CASE node \in deps[m]
        <5>1. r.incoming[m] = last.incoming[m] - 1
          BY <2>3, <4>1
        <5>2. last.incoming[m] = Cardinality(deps[m] \ O)
          BY <2>1
        <5>3. /\ Cardinality(deps[m] \ O) \in Nat /\ Cardinality(deps[m] \ O) # 0
              /\ Cardinality(deps[m] \ (O \cup {node})) = Cardinality(deps[m] \ O) - 1
          BY <2>5, <4>1
        <5> QED
          BY <5>1, <5>2, <5>3
      <4>2. CASE node \notin deps[m]
        <5>1. deps[m] \ (O \cup {node}) = deps[m] \ O
          BY <4>2
        <5> QED
          BY <2>1, <2>3, <2>5, <4>2, <5>1
      <4> QED
        BY <4>1, <4>2
    <3> QED
      BY <2>3, <3>1
  <2>13. \A m \in 1 .. n : deps[m] \subseteq O \cup {node}
                              <=> m \in (Members(rest) \cup free) \cup (O \cup {node})
    <3>1. \A m \in 1 .. n : deps[m] \subseteq O <=> m \in Members(rest) \cup O \cup {node}
      BY <2>1, <2>2
    <3> QED
      BY <3>1 DEF free
  <2>14. (Members(rest) \cup free) \cap (O \cup {node}) = {}
    BY <2>1, <2>2, <2>8
  <2>15. r \in [ready : Seq(1 .. n), incoming : [1 .. n -> Nat], ordered : Seq(1 .. n)]
    BY <2>3, <2>9, <2>11, <2>12
  <2>16. RoundInv(n, deps, r)
    BY <2>9, <2>10, <2>11, <2>12, <2>13, <2>14, <2>15 DEF RoundInv
  <2> QED
    BY <1>2, <2>9, <2>16 DEF r
<1> QED
  BY <1>1, <1>2

\* The rounds of a compilation.
RoundAt(n, deps, round, i) ==
    IF i = 0 THEN FirstRound(n, deps) ELSE NextRound(n, deps, round[i - 1])
RoundTable(n, deps) == CHOOSE round : round = [i \in 0 .. n |-> RoundAt(n, deps, round, i)]

LEMMA RoundsAre ==
    ASSUME NEW n \in Nat, NEW deps \in [1 .. n -> SUBSET (1 .. n)]
    PROVE  \A i \in 0 .. n :
              RoundTable(n, deps)[i] = RoundAt(n, deps, RoundTable(n, deps), i)
<1> DEFINE S == {r \in [ready : Seq(1 .. n), incoming : [1 .. n -> Nat], ordered : Seq(1 .. n)] :
                    RoundInv(n, deps, r)}
           next == [p \in (1 .. n) \X S |-> NextRound(n, deps, p[2])]
<1>1. FirstRound(n, deps) \in S
  BY FirstRoundInv DEF RoundInv
<1>2. ASSUME NEW r \in S PROVE NextRound(n, deps, r) \in S
  <2>1. RoundInv(n, deps, NextRound(n, deps, r))
    BY NextRoundInv
  <2> QED
    BY <2>1 DEF RoundInv
<1> HIDE DEF S
<1>3. Advances(next, n, S)
  BY <1>2 DEF Advances
<1>4. PICK f : Iterates(f, n, S, FirstRound(n, deps), next)
  <2> HIDE DEF next
  <2> QED
    BY <1>1, <1>3, Recursion
<1>5. ASSUME NEW i \in 1 .. n PROVE f[i] = NextRound(n, deps, f[i - 1])
  <2>1. i - 1 \in 0 .. n
    OBVIOUS
  <2>2. f[i - 1] \in S
    BY <1>4, <2>1 DEF Iterates
  <2> DEFINE p == <<i, f[i - 1]>>
  <2>3. p \in (1 .. n) \X S /\ p[2] = f[i - 1]
    BY <2>2
  <2> HIDE DEF p
  <2>4. next[p] = NextRound(n, deps, f[i - 1])
    BY <2>3
  <2> HIDE DEF next
  <2> QED
    BY <1>4, <2>4 DEF Iterates, p
<1>6. f = [i \in 0 .. n |-> RoundAt(n, deps, f, i)]
  <2> DEFINE g == [i \in 0 .. n |-> RoundAt(n, deps, f, i)]
  <2>1. ASSUME NEW i \in 0 .. n PROVE f[i] = RoundAt(n, deps, f, i)
    <3>1. i = 0 \/ i \in 1 .. n
      OBVIOUS
    <3> QED
      BY <1>4, <1>5, <3>1 DEF RoundAt, Iterates
  <2>2. \A i \in 0 .. n : f[i] = g[i]
    BY <2>1
  <2>3. f \in [0 .. n -> S]
    BY <1>4 DEF Iterates
  <2> QED
    BY <2>2, <2>3
<1>7. \E round : round = [i \in 0 .. n |-> RoundAt(n, deps, round, i)]
  BY <1>6
<1>8. RoundTable(n, deps) = [i \in 0 .. n |-> RoundAt(n, deps, RoundTable(n, deps), i)]
  BY <1>7 DEF RoundTable
<1> QED
  BY <1>8

\* A compilation ends after a round that keeps the invariant: the queue is empty or
\* every node is ordered.
LEMMA CompilationEnds ==
    ASSUME NEW n \in Nat, NEW deps \in [1 .. n -> SUBSET (1 .. n)]
    PROVE  \E r : /\ Ordered(n, deps) = r.ordered /\ RoundInv(n, deps, r)
                  /\ r.ready = <<>> \/ Len(r.ordered) = n
<1> DEFINE T == RoundTable(n, deps)
           S == {i \in 0 .. n : RoundInv(n, deps, T[i])
                                   /\ (T[i].ready = <<>> \/ Len(T[i].ordered) = i)}
<1>1. /\ T[0] = FirstRound(n, deps)
      /\ \A i \in 1 .. n : T[i] = NextRound(n, deps, T[i - 1])
  <2>1. \A i \in 0 .. n : T[i] = RoundAt(n, deps, T, i)
    BY RoundsAre
  <2> HIDE DEF T
  <2>2. 0 \in 0 .. n /\ \A i \in 1 .. n : i \in 0 .. n /\ i # 0
    OBVIOUS
  <2> QED
    BY <2>1, <2>2 DEF RoundAt
<1>2. Ordered(n, deps) = T[n].ordered
  BY DEF Ordered, RoundTable, RoundAt
<1> HIDE DEF T
<1>3. 0 \in S
  <2>1. RoundInv(n, deps, T[0]) /\ Len(T[0].ordered) = 0
    <3>1. T[0].ordered = <<>> /\ Len(<<>>) = 0
      BY <1>1 DEF FirstRound
    <3> QED
      BY <1>1, <3>1, FirstRoundInv
  <2> QED
    BY <2>1
<1>4. ASSUME NEW i \in 0 .. n - 1, i \in S PROVE i + 1 \in S
  <2>1. i + 1 \in 1 .. n /\ i + 1 \in 0 .. n /\ (i + 1) - 1 = i
    OBVIOUS
  <2>2. T[i + 1] = NextRound(n, deps, T[i])
    BY <1>1, <2>1
  <2>3. RoundInv(n, deps, T[i]) /\ (T[i].ready = <<>> \/ Len(T[i].ordered) = i)
    BY <1>4
  <2>4. /\ RoundInv(n, deps, T[i + 1])
        /\ T[i].ready = <<>> => T[i + 1] = T[i]
        /\ T[i].ready # <<>> => Len(T[i + 1].ordered) = Len(T[i].ordered) + 1
    BY <2>2, <2>3, NextRoundInv
  <2>5. T[i + 1].ready = <<>> \/ Len(T[i + 1].ordered) = i + 1
    BY <2>3, <2>4
  <2> QED
    BY <2>1, <2>4, <2>5
<1>5. n \in S
  <2> HIDE DEF S
  <2>1. \A i \in 0 .. n : i \in S
    BY <1>3, <1>4, Induction
  <2> QED
    BY <2>1
<1> QED
  BY <1>2, <1>5

\* compile rejects exactly the graphs in which some nodes all wait for one another
\* (the queue runs dry before all nodes are ordered), whatever their size.
THEOREM CompileFindsCycles ==
    ASSUME NEW n \in Nat, NEW deps \in [1 .. n -> SUBSET (1 .. n)]
    PROVE  HasCycle(n, deps) <=>
              \E s \in SUBSET (1 .. n) : s # {} /\ \A m \in s : deps[m] \cap s # {}
<1>1. PICK r : /\ Ordered(n, deps) = r.ordered /\ RoundInv(n, deps, r)
               /\ r.ready = <<>> \/ Len(r.ordered) = n
  BY CompilationEnds
<1> DEFINE O == Members(r.ordered)
<1>2. /\ r.ordered \in Seq(1 .. n) /\ Len(r.ordered) \in Nat /\ Arranged(r.ordered, deps)
      /\ Cardinality(O) = Len(r.ordered)
      /\ \A m \in 1 .. n : deps[m] \subseteq O <=> m \in Members(r.ready) \cup O
  <2>1. r.ordered \in Seq(1 .. n)
    BY <1>1 DEF RoundInv
  <2>2. Len(r.ordered) \in Nat
    BY <2>1
  <2> QED
    BY <1>1, <2>1, <2>2 DEF RoundInv
<1>3. /\ O \subseteq 1 .. n
      /\ DOMAIN r.ordered = 1 .. Len(r.ordered)
  <2>1. \A i \in 1 .. Len(r.ordered) : r.ordered[i] \in 1 .. n
    BY <1>2
  <2> QED
    BY <1>2, <2>1 DEF Members
<1>4. O = 1 .. n <=> Len(r.ordered) = n
  <2>1. IsFiniteSet(1 .. n) /\ Cardinality(1 .. n) = n
    BY FS_Interval
  <2> HIDE DEF O
  <2>2. Cardinality(1 .. n) = Cardinality(O) => 1 .. n = O
    BY <1>3, <2>1, FS_Subset
  <2> QED
    BY <1>2, <2>1, <2>2
<1>5. HasCycle(n, deps) <=> Len(r.ordered) # n
  BY <1>1 DEF HasCycle
<1>6. ASSUME Len(r.ordered) # n
      PROVE  \E s \in SUBSET (1 .. n) : s # {} /\ \A m \in s : deps[m] \cap s # {}
  <2> DEFINE s == (1 .. n) \ O
  <2>1. Members(r.ready) = {}
    BY <1>1, <1>6 DEF Members
  <2>2. s # {} /\ s \in SUBSET (1 .. n)
    BY <1>3, <1>4, <1>6
  <2>3. ASSUME NEW m \in s PROVE deps[m] \cap s # {}
    BY <1>2, <2>1
  <2> QED
    BY <2>2, <2>3
<1>7. ASSUME Len(r.ordered) = n, NEW s \in SUBSET (1 .. n),
             \A m \in s : deps[m] \cap s # {}
      PROVE  s = {}
  <2> DEFINE Q == {i \in 1 .. n : r.ordered[i] \notin s}
  <2>1. ASSUME NEW i \in 1 .. n, \A j \in 1 .. i - 1 : j \in Q PROVE i \in Q
    <3>1. deps[r.ordered[i]] \subseteq {r.ordered[j] : j \in 1 .. i - 1}
      BY <1>2, <1>3, <1>7 DEF Arranged
    <3>2. \A j \in 1 .. i - 1 : r.ordered[j] \notin s
      BY <2>1
    <3>3. ASSUME r.ordered[i] \in s PROVE FALSE
      <4>1. PICK d \in deps[r.ordered[i]] : d \in s
        BY <1>7, <3>3
      <4>2. PICK j \in 1 .. i - 1 : d = r.ordered[j]
        BY <3>1, <4>1
      <4> QED
        BY <3>2, <4>1, <4>2
    <3> QED
      BY <3>3
  <2>2. \A i \in 1 .. n : i \in Q
    <3> HIDE DEF Q
    <3> QED
      BY <2>1, StrongInduction
  <2>3. \A i \in 1 .. n : r.ordered[i] \notin s
    BY <2>2
  <2>4. O = 1 .. n
    BY <1>4, <1>7
  <2> QED
    BY <1>7, <2>3, <2>4 DEF Members
<1> QED
  BY <1>5, <1>6, <1>7

\* What the outputs need, after so many steps.
NeedAt(deps, outputs, step, i) ==
    IF i = 0 THEN outputs ELSE step[i - 1] \cup UNION {deps[m] : m \in step[i - 1]}
NeedTable(n, deps, outputs) ==
    CHOOSE step : step = [i \in 0 .. n |-> NeedAt(deps, outputs, step, i)]

LEMMA NeedsAre ==
    ASSUME NEW n \in Nat, NEW deps \in [1 .. n -> SUBSET (1 .. n)],
           NEW outputs \in SUBSET (1 .. n)
    PROVE  \A i \in 0 .. n :
              NeedTable(n, deps, outputs)[i]
                  = NeedAt(deps, outputs, NeedTable(n, deps, outputs), i)
<1> DEFINE S == SUBSET (1 .. n)  grow(x) == x \cup UNION {deps[m] : m \in x}
           next == [p \in (1 .. n) \X S |-> grow(p[2])]
<1>1. ASSUME NEW x \in S PROVE grow(x) \in S
  OBVIOUS
<1>2. outputs \in S
  OBVIOUS
<1> HIDE DEF S, grow
<1>3. Advances(next, n, S)
  BY <1>1 DEF Advances
<1>4. PICK f : Iterates(f, n, S, outputs, next)
  <2> HIDE DEF next
  <2> QED
    BY <1>2, <1>3, Recursion
<1>5. ASSUME NEW i \in 1 .. n PROVE f[i] = grow(f[i - 1])
  <2>1. i - 1 \in 0 .. n
    OBVIOUS
  <2>2. f[i - 1] \in S
    BY <1>4, <2>1 DEF Iterates
  <2> DEFINE p == <<i, f[i - 1]>>
  <2>3. p \in (1 .. n) \X S /\ p[2] = f[i - 1]
    BY <2>2
  <2> HIDE DEF p
  <2>4. next[p] = grow(f[i - 1])
    BY <2>3
  <2> HIDE DEF next
  <2> QED
    BY <1>4, <2>4 DEF Iterates, p
<1>6. f = [i \in 0 .. n |-> NeedAt(deps, outputs, f, i)]
  <2> DEFINE g == [i \in 0 .. n |-> NeedAt(deps, outputs, f, i)]
  <2>1. ASSUME NEW i \in 0 .. n PROVE f[i] = NeedAt(deps, outputs, f, i)
    <3>1. i = 0 \/ i \in 1 .. n
      OBVIOUS
    <3> QED
      BY <1>4, <1>5, <3>1 DEF NeedAt, Iterates, grow
  <2>2. \A i \in 0 .. n : f[i] = g[i]
    BY <2>1
  <2>3. f \in [0 .. n -> S]
    BY <1>4 DEF Iterates
  <2> QED
    BY <2>2, <2>3
<1>7. \E step : step = [i \in 0 .. n |-> NeedAt(deps, outputs, step, i)]
  BY <1>6
<1>8. NeedTable(n, deps, outputs)
         = [i \in 0 .. n |-> NeedAt(deps, outputs, NeedTable(n, deps, outputs), i)]
  BY <1>7 DEF NeedTable
<1> QED
  BY <1>8

\* compile keeps the least set of nodes with the outputs' that has what its members
\* depend on (the search of needed, cut off after as many steps as there are nodes).
THEOREM CompileKeepsNeeded ==
    ASSUME NEW n \in Nat, NEW deps \in [1 .. n -> SUBSET (1 .. n)],
           NEW outputs \in SUBSET (1 .. n)
    PROVE  LET needed == Needed(n, deps, outputs) IN
           /\ needed \in SUBSET (1 .. n) /\ outputs \subseteq needed
           /\ \A m \in needed : deps[m] \subseteq needed
           /\ \A s : outputs \subseteq s /\ (\A m \in s : deps[m] \subseteq s)
                         => needed \subseteq s
<1> DEFINE T == NeedTable(n, deps, outputs)
           closed(x) == \A m \in x : deps[m] \subseteq x
           least(x) == \A s : outputs \subseteq s /\ closed(s) => x \subseteq s
           S == {i \in 0 .. n : /\ T[i] \in SUBSET (1 .. n) /\ outputs \subseteq T[i]
                                /\ least(T[i])
                                /\ closed(T[i]) \/ Cardinality(T[i]) > i}
<1>1. /\ T[0] = outputs
      /\ \A i \in 1 .. n : T[i] = T[i - 1] \cup UNION {deps[m] : m \in T[i - 1]}
  <2>1. \A i \in 0 .. n : T[i] = NeedAt(deps, outputs, T, i)
    BY NeedsAre
  <2> HIDE DEF T
  <2>2. 0 \in 0 .. n /\ \A i \in 1 .. n : i \in 0 .. n /\ i # 0
    OBVIOUS
  <2> QED
    BY <2>1, <2>2 DEF NeedAt
<1>2. Needed(n, deps, outputs) = T[n]
  BY DEF Needed, NeedTable, NeedAt
<1> HIDE DEF T
<1>3. \A x \in SUBSET (1 .. n) : /\ IsFiniteSet(x) /\ Cardinality(x) \in Nat
                                 /\ Cardinality(x) <= n
  <2>1. IsFiniteSet(1 .. n) /\ Cardinality(1 .. n) = n
    BY FS_Interval
  <2>2. ASSUME NEW x \in SUBSET (1 .. n)
        PROVE  IsFiniteSet(x) /\ Cardinality(x) \in Nat /\ Cardinality(x) <= n
    <3>1. IsFiniteSet(x) /\ Cardinality(x) <= Cardinality(1 .. n)
      BY <2>1, FS_Subset
    <3>2. Cardinality(x) \in Nat
      BY <3>1, FS_CardinalityType
    <3> QED
      BY <2>1, <3>1, <3>2
  <2> QED
    BY <2>2
<1>4. 0 \in S
  <2>1. closed(outputs) \/ Cardinality(outputs) > 0
    <3>1. outputs # {} => Cardinality(outputs) # 0
      BY <1>3, FS_EmptySet
    <3> QED
      BY <1>3, <3>1
  <2>2. 0 \in 0 .. n /\ least(outputs)
    OBVIOUS
  <2> HIDE DEF closed, least
  <2> QED
    BY <1>1, <2>1, <2>2
<1>5. ASSUME NEW i \in 0 .. n - 1, i \in S PROVE i + 1 \in S
  <2> DEFINE x == T[i]  y == T[i + 1]
  <2>1. i + 1 \in 1 .. n /\ i + 1 \in 0 .. n /\ (i + 1) - 1 = i
    OBVIOUS
  <2>2. y = x \cup UNION {deps[m] : m \in x}
    BY <1>1, <2>1
  <2>3. /\ x \in SUBSET (1 .. n) /\ outputs \subseteq x /\ least(x)
        /\ closed(x) \/ Cardinality(x) > i
    BY <1>5
  <2> HIDE DEF x, y
  <2>4. y \in SUBSET (1 .. n) /\ outputs \subseteq y /\ least(y)
    <3>1. \A m \in x : deps[m] \subseteq 1 .. n
      BY <2>3
    <3>2. y \subseteq 1 .. n /\ outputs \subseteq y
      <4> HIDE DEF closed, least
      <4>1. UNION {deps[m] : m \in x} \subseteq 1 .. n
        BY <3>1
      <4>2. x \subseteq 1 .. n /\ outputs \subseteq x
        BY <2>3
      <4> QED
        BY ONLY <2>2, <4>1, <4>2
    <3>3. ASSUME NEW s, outputs \subseteq s, closed(s) PROVE y \subseteq s
      <4>1. x \subseteq s
        BY <2>3, <3>3
      <4>2. \A m \in x : deps[m] \subseteq s
        BY <3>3, <4>1
      <4> QED
        BY <2>2, <4>1, <4>2
    <3> QED
      BY <3>2, <3>3
  <2>5. closed(y) \/ Cardinality(y) > i + 1
    <3>1. CASE closed(x)
      <4>1. y = x
        BY <2>2, <3>1
      <4> QED
        BY <3>1, <4>1
    <3>2. CASE ~closed(x)
      <4>1. PICK d : d \in y /\ d \notin x
        BY <2>2, <3>2
      <4>2. Cardinality(x \cup {d}) = Cardinality(x) + 1
        BY <1>3, <2>3, <4>1, FS_AddElement
      <4>3. Cardinality(x \cup {d}) <= Cardinality(y)
        <5>1. IsFiniteSet(y) /\ x \cup {d} \in SUBSET y
          BY <1>3, <2>2, <2>4, <4>1
        <5> QED
          BY <5>1, FS_Subset
      <4>4. Cardinality(x) \in Nat /\ Cardinality(y) \in Nat /\ Cardinality(x) > i
        BY <1>3, <2>3, <2>4, <3>2
      <4> QED
        BY <4>2, <4>3, <4>4
    <3> QED
      BY <3>1, <3>2
  <2> HIDE DEF closed, least
  <2> QED
    BY <2>1, <2>4, <2>5 DEF y
<1>6. n \in S
  <2> HIDE DEF S
  <2>1. \A i \in 0 .. n : i \in S
    BY <1>4, <1>5, Induction
  <2> QED
    BY <2>1
<1>7. /\ T[n] \in SUBSET (1 .. n) /\ outputs \subseteq T[n] /\ least(T[n])
      /\ closed(T[n]) \/ Cardinality(T[n]) > n
  <2> HIDE DEF closed, least
  <2> QED
    BY <1>6
<1>8. closed(T[n])
  <2> HIDE DEF closed
  <2> QED
    BY <1>3, <1>7
<1> QED
  BY <1>2, <1>7, <1>8

\* compile arranges the live nodes: each comes once, after all it depends on, and if
\* there is no cycle they are all that the outputs need.
THEOREM CompileArranges ==
    ASSUME NEW n \in Nat, NEW deps \in [1 .. n -> SUBSET (1 .. n)],
           NEW outputs \in SUBSET (1 .. n)
    PROVE  LET order == LiveNodes(n, deps, outputs) IN
           /\ order \in Seq(1 .. n) /\ Arranged(order, deps)
           /\ ~HasCycle(n, deps) => Members(order) = Needed(n, deps, outputs)
<1> DEFINE needed == Needed(n, deps, outputs)
<1>1. PICK r : Ordered(n, deps) = r.ordered /\ RoundInv(n, deps, r)
  BY CompilationEnds
<1> DEFINE q == r.ordered
<1>2. q \in Seq(1 .. n) /\ Arranged(q, deps) /\ Cardinality(Members(q)) = Len(q)
  BY <1>1 DEF RoundInv
<1>3. needed \in SUBSET (1 .. n) /\ \A m \in needed : deps[m] \subseteq needed
  BY CompileKeepsNeeded
<1> HIDE DEF needed, q
<1>4. /\ Kept(q, needed) \in Seq(1 .. n)
      /\ Members(Kept(q, needed)) = Members(q) \cap needed
      /\ Arranged(Kept(q, needed), deps)
  <2> DEFINE A == 1 .. n  kept == Kept(q, needed)
  <2>1. q \in Seq(A) /\ \A x \in Members(q) \cap needed : deps[x] \subseteq needed
    BY <1>2, <1>3
  <2> HIDE DEF A
  <2>2. /\ kept \in Seq(A) /\ Members(kept) = Members(q) \cap needed
        /\ Arranged(q, deps) => Arranged(kept, deps)
    BY <2>1, KeptFacts
  <2> QED
    BY <1>2, <2>2 DEF A
<1>5. LiveNodes(n, deps, outputs) = Kept(q, needed)
  BY <1>1 DEF LiveNodes, needed, q
<1>6. ~HasCycle(n, deps) => Members(q) = 1 .. n
  <2>1. IsFiniteSet(1 .. n) /\ Cardinality(1 .. n) = n
    BY FS_Interval
  <2>2. Members(q) \in SUBSET (1 .. n)
    <3>1. \A i \in 1 .. Len(q) : q[i] \in 1 .. n
      BY <1>2
    <3> QED
      BY <3>1 DEF Members
  <2>3. Cardinality(1 .. n) = Cardinality(Members(q)) => 1 .. n = Members(q)
    BY <2>1, <2>2, FS_Subset
  <2> QED
    BY <1>1, <1>2, <2>1, <2>3 DEF HasCycle, q
<1> QED
  BY <1>3, <1>4, <1>5, <1>6 DEF needed

\* The live nodes of an accepted graph are arranged.
LEMMA LiveIsArranged ==
    ASSUME NEW graph \in Plans
    PROVE  LiveOf(graph) \in Seq(Node) /\ Arranged(LiveOf(graph), Deps(graph))
<1>1. /\ Count \in Nat /\ Accepted(graph)
      /\ \A n \in Node : Sources(graph.guard[n]) \subseteq Node
  <2>1. ASSUME NEW n \in Node PROVE Sources(graph.guard[n]) \subseteq Node
    <3>1. IsExpression(graph.guard[n], Node \ {n})
      BY FlowAssumption DEF Accepted
    <3> QED
      BY <3>1, SourcesAre
  <2> QED
    BY <2>1, FlowAssumption
<1>2. Deps(graph) \in [1 .. Count -> SUBSET (1 .. Count)]
  BY <1>1 DEF Deps, Node
<1>3. {o.node : o \in graph.outputs} \in SUBSET (1 .. Count)
  BY <1>1 DEF Accepted, Node
<1> QED
  BY <1>1, <1>2, <1>3, CompileArranges DEF LiveOf, Node

----------------------------------------------------------------------------
(* What a graph means                                                      *)

\* The results of the first nodes of a graph.
UptoOf(graph, fates, upto, i) ==
    IF i = 0 THEN [n \in Node |-> Unsettled]
    ELSE [upto[i - 1] EXCEPT ![LiveOf(graph)[i]] =
            IF Holds(graph.guard[LiveOf(graph)[i]], upto[i - 1])
            THEN fates[LiveOf(graph)[i]] ELSE "SKIPPED"]
Upto(graph, fates) ==
    CHOOSE upto : upto = [i \in 0 .. Len(LiveOf(graph)) |-> UptoOf(graph, fates, upto, i)]

LEMMA MeaningIs ==
    ASSUME NEW graph, NEW fates
    PROVE  Meaning(graph, fates) =
              [n \in Node |-> IF n \in {LiveOf(graph)[i] : i \in DOMAIN LiveOf(graph)}
                              THEN Upto(graph, fates)[Len(LiveOf(graph))][n] ELSE "SKIPPED"]
  BY DEF Meaning, Upto, UptoOf

\* They are computed one after the other.
LEMMA UptoIs ==
    ASSUME NEW graph, NEW fates, Len(LiveOf(graph)) \in Nat
    PROVE  \A i \in 0 .. Len(LiveOf(graph)) :
              Upto(graph, fates)[i] = UptoOf(graph, fates, Upto(graph, fates), i)
<1> DEFINE n == Len(LiveOf(graph))
           S == {k \in Nat : \E f : f = [i \in 0 .. k |-> UptoOf(graph, fates, f, i)]}
<1>1. 0 \in S
  <2> DEFINE f == [i \in 0 .. 0 |-> [m \in Node |-> Unsettled]]
  <2>1. f = [i \in 0 .. 0 |-> UptoOf(graph, fates, f, i)]
    BY DEF UptoOf
  <2> QED
    BY <2>1
<1>2. ASSUME NEW k \in 0 .. n - 1, k \in S PROVE k + 1 \in S
  <2>1. PICK f : f = [i \in 0 .. k |-> UptoOf(graph, fates, f, i)]
    BY <1>2
  <2> DEFINE g == [i \in 0 .. k + 1 |-> IF i = k + 1 THEN UptoOf(graph, fates, f, i) ELSE f[i]]
  <2>2. ASSUME NEW i \in 0 .. k + 1 PROVE g[i] = UptoOf(graph, fates, g, i)
    <3>1. g[i] = UptoOf(graph, fates, f, i)
      <4>1. CASE i = k + 1
        BY <4>1
      <4>2. CASE i \in 0 .. k
        <5>1. f[i] = UptoOf(graph, fates, f, i)
          BY <2>1, <4>2
        <5> QED
          BY <4>2, <5>1
      <4> QED
        BY <1>2, <4>1, <4>2
    <3>2. i # 0 => g[i - 1] = f[i - 1]
      BY <1>2
    <3> HIDE DEF g
    <3> QED
      BY <3>1, <3>2 DEF UptoOf
  <2>3. g = [i \in 0 .. k + 1 |-> UptoOf(graph, fates, g, i)]
    <3> DEFINE h == [i \in 0 .. k + 1 |-> UptoOf(graph, fates, g, i)]
    <3>1. \A i \in 0 .. k + 1 : g[i] = h[i]
      BY <2>2
    <3>2. DOMAIN g = 0 .. k + 1 /\ DOMAIN h = 0 .. k + 1
      OBVIOUS
    <3> QED
      BY <3>1
  <2> HIDE DEF g
  <2> QED
    BY <1>2, <2>3
<1>3. n \in S
  <2> HIDE DEF S
  <2>1. \A k \in 0 .. n : k \in S
    BY <1>1, <1>2, Induction
  <2> QED
    BY <2>1
<1>4. \E f : f = [i \in 0 .. n |-> UptoOf(graph, fates, f, i)]
  BY <1>3
<1>5. Upto(graph, fates) = [i \in 0 .. n |-> UptoOf(graph, fates, Upto(graph, fates), i)]
  BY <1>4 DEF Upto
<1> QED
  BY <1>5

\* What a graph means is the one assignment of results in which a node has the
\* end of its body if its expression holds of all the others, and is skipped if
\* it does not.
LEMMA MeaningHolds ==
    ASSUME NEW graph \in Plans, NEW fates \in [Node -> Fates]
    PROVE  LET meaning == Meaning(graph, fates)
               order == LiveOf(graph) IN
           /\ meaning \in [Node -> Outcomes]
           /\ \A n \in Node : (\A i \in DOMAIN order : order[i] # n) => meaning[n] = "SKIPPED"
           /\ \A i \in DOMAIN order :
                 meaning[order[i]] = IF Holds(graph.guard[order[i]], meaning)
                                     THEN fates[order[i]] ELSE "SKIPPED"
<1> DEFINE M == Meaning(graph, fates)  order == LiveOf(graph)  N == Len(order)
           U == Upto(graph, fates)
           ends(i) == IF Holds(graph.guard[order[i]], U[i - 1]) THEN fates[order[i]] ELSE "SKIPPED"
           S == {i \in 0 .. N : /\ U[i] \in [Node -> Outcomes \cup {Unsettled}]
                                /\ \A j \in 1 .. i : U[i][order[j]] = ends(j)}
<1>1. /\ order \in Seq(Node) /\ Arranged(order, Deps(graph))
      /\ \A n \in Node : IsExpression(graph.guard[n], Node \ {n})
  BY LiveIsArranged, FlowAssumption DEF Accepted
<1>2. /\ N \in Nat /\ DOMAIN order = 1 .. N /\ \A i \in 1 .. N : order[i] \in Node
  BY <1>1
<1>3. /\ U[0] = [n \in Node |-> Unsettled]
      /\ \A i \in 1 .. N : U[i] = [U[i - 1] EXCEPT ![order[i]] = ends(i)]
  <2>1. \A i \in 0 .. N : U[i] = UptoOf(graph, fates, U, i)
    BY <1>2, UptoIs
  <2> HIDE DEF U
  <2>2. U[0] = [n \in Node |-> Unsettled]
    <3>1. 0 \in 0 .. N
      BY <1>2
    <3> QED
      BY <2>1, <3>1 DEF UptoOf
  <2>3. ASSUME NEW i \in 1 .. N PROVE U[i] = [U[i - 1] EXCEPT ![order[i]] = ends(i)]
    <3>1. i \in 0 .. N /\ i # 0
      BY <1>2
    <3> HIDE DEF N
    <3> QED
      BY <2>1, <3>1 DEF UptoOf
  <2> QED
    BY <2>2, <2>3
<1>4. \A i \in 1 .. N : ends(i) \in Outcomes
  BY <1>2 DEF Fates, Outcomes, Settled
<1>5. \A i \in 1 .. N :
         /\ \A m \in Sources(graph.guard[order[i]]) : \E j \in 1 .. i - 1 : m = order[j]
         /\ \A j \in 1 .. i - 1 : order[j] # order[i]
  <2> HIDE DEF N, order
  <2> SUFFICES ASSUME NEW i \in 1 .. N
               PROVE  /\ \A m \in Sources(graph.guard[order[i]]) : \E j \in 1 .. i - 1 : m = order[j]
                      /\ \A j \in 1 .. i - 1 : order[j] # order[i]
    OBVIOUS
  <2>1. /\ Deps(graph)[order[i]] \subseteq {order[j] : j \in 1 .. i - 1}
        /\ order[i] \notin {order[j] : j \in 1 .. i - 1}
    BY <1>1, <1>2 DEF Arranged
  <2>2. Deps(graph)[order[i]] = Sources(graph.guard[order[i]])
    BY <1>2 DEF Deps
  <2> QED
    BY <2>1, <2>2
<1> HIDE DEF U, order, N
<1>6. 0 \in S
  BY <1>2, <1>3
<1>7. ASSUME NEW i \in 0 .. N - 1, i \in S PROVE i + 1 \in S
  <2> DEFINE n == order[i + 1]
  <2>1. i + 1 \in 1 .. N /\ i + 1 \in 0 .. N /\ (i + 1) - 1 = i
    BY <1>2
  <2>2. n \in Node
    BY <1>2, <2>1
  <2>3. U[i + 1] = [U[i] EXCEPT ![n] = ends(i + 1)]
    BY <1>3, <2>1
  <2>4. /\ U[i] \in [Node -> Outcomes \cup {Unsettled}]
        /\ \A j \in 1 .. i : U[i][order[j]] = ends(j)
    BY <1>7
  <2>5. ends(i + 1) \in Outcomes
    BY <1>4, <2>1
  <2>6. \A j \in 1 .. i : order[j] # n
    BY <1>5, <2>1
  <2> HIDE DEF n, ends
  <2>7. U[i + 1] \in [Node -> Outcomes \cup {Unsettled}] /\ U[i + 1][n] = ends(i + 1)
    BY <2>2, <2>3, <2>4, <2>5
  <2>8. ASSUME NEW j \in 1 .. i + 1 PROVE U[i + 1][order[j]] = ends(j)
    <3>1. CASE j = i + 1
      BY <2>7, <3>1 DEF n
    <3>2. CASE j \in 1 .. i
      <4>0. j \in 1 .. N
        BY <1>2, <2>1, <3>2
      <4>1. order[j] \in Node /\ order[j] # n
        BY <1>2, <2>6, <3>2, <4>0
      <4> QED
        BY <2>3, <2>4, <3>2, <4>1
    <3>3. j = i + 1 \/ j \in 1 .. i
      BY <1>2
    <3> QED
      BY <3>1, <3>2, <3>3
  <2> QED
    BY <2>1, <2>7, <2>8
<1>8. \A i \in 0 .. N : i \in S
  <2> HIDE DEF S, N
  <2> QED
    BY <1>2, <1>6, <1>7, Induction
<1>9. M = [n \in Node |-> IF n \in {order[i] : i \in DOMAIN order} THEN U[N][n] ELSE "SKIPPED"]
  BY MeaningIs DEF U, order, N
<1>10. \A i \in 1 .. N : M[order[i]] = ends(i)
  <2>1. N \in S
    BY <1>2, <1>8
  <2>2. \A i \in 1 .. N : U[N][order[i]] = ends(i)
    BY <2>1
  <2> HIDE DEF M, ends
  <2> QED
    BY <1>2, <1>9, <2>2
<1>11. \A n \in Node : (\A i \in DOMAIN order : order[i] # n) => M[n] = "SKIPPED"
  <2> HIDE DEF M
  <2> QED
    BY <1>9
<1>12. M \in [Node -> Outcomes]
  <2> HIDE DEF M, ends, order
  <2>1. \A n \in Node : M[n] \in Outcomes
    BY <1>2, <1>4, <1>10, <1>11 DEF Outcomes, Settled
  <2> QED
    BY <1>9, <2>1
<1>13. ASSUME NEW i \in 1 .. N
       PROVE  Holds(graph.guard[order[i]], U[i - 1]) <=> Holds(graph.guard[order[i]], M)
  <2> DEFINE n == order[i]
  <2>4. n \in Node /\ i - 1 \in 0 .. N
    BY <1>2
  <2>1. IsExpression(graph.guard[n], Node \ {n})
    BY <1>1, <2>4
  <2>2. ASSUME NEW m \in Sources(graph.guard[n]) PROVE U[i - 1][m] = M[m]
    <3>1. PICK j \in 1 .. i - 1 : m = order[j]
      BY <1>5, <2>2
    <3>2. i - 1 \in S /\ j \in 1 .. N
      BY <1>2, <1>8, <2>4
    <3>3. U[i - 1][order[j]] = ends(j)
      BY <3>2
    <3> HIDE DEF M, ends, order
    <3> QED
      BY <1>10, <3>1, <3>2, <3>3
  <2> HIDE DEF n, M
  <2>3. Holds(graph.guard[n], U[i - 1]) <=> Holds(graph.guard[n], M)
    BY <2>1, <2>2, HoldsLocally
  <2> QED
    BY <2>3 DEF n
<1> QED
  <2> HIDE DEF M, order
  <2>1. \A i \in DOMAIN order : M[order[i]] = IF Holds(graph.guard[order[i]], M)
                                              THEN fates[order[i]] ELSE "SKIPPED"
    BY <1>2, <1>10, <1>13
  <2> QED
    BY <1>11, <1>12, <2>1 DEF M, order

----------------------------------------------------------------------------
(* Decisions                                                               *)

\* The maps are over the nodes, and the scan is at a place of the live nodes.
Shape ==
    /\ plan \in Plans /\ live \in Seq(Node) /\ place \in Nat \ {0}
    /\ DOMAIN chosen = Node /\ DOMAIN guards = Node /\ DOMAIN results = Node
    /\ launched \subseteq Node

\* A recorded decision was made on nodes of the graph.
RecordsAreOfNodes ==
    \A n \in Node : guards[n].status = "SUCCEEDED" => guards[n].selected \subseteq Node

\* While a decision is being written, its node is not launched and its inputs
\* are known; the record, once it is there, holds this decision.
DecidingInv ==
    scan = "deciding" =>
        /\ place <= Len(live)
        /\ live[place] \notin launched
        /\ chosen[live[place]].status = "SUCCEEDED"
        /\ chosen[live[place]].selected \subseteq Node
        /\ Known(chosen[live[place]].selected)
        /\ guards[live[place]].status = "SUCCEEDED"
               => guards[live[place]] = chosen[live[place]]

IInv == Shape /\ RecordsAreOfNodes /\ DecidingInv /\ DecisionIsRecorded

\* The node at the scan's place is a node of the graph.
LEMMA PlaceIsNode ==
    ASSUME Shape, place <= Len(live)
    PROVE  live[place] \in Node
  BY DEF Shape

\* A decision is made on nodes whose results are known.
LEMMA DecisionFacts ==
    ASSUME Shape, NEW n \in Node
    PROVE  /\ Decision(n).status = "SUCCEEDED"
           /\ Decision(n).selected \subseteq Node
           /\ Known(Decision(n).selected)
<1>1. Sources(plan.guard[n]) \subseteq Node
  <2>1. IsExpression(plan.guard[n], Node \ {n})
    BY FlowAssumption DEF Shape, Accepted
  <2> QED
    BY <2>1, SourcesAre
<1>2. Decision(n).selected = {m \in Sources(plan.guard[n]) : results[m] # Unsettled}
  BY DEF Decision
<1>3. Decision(n).status = "SUCCEEDED"
  BY DEF Decision
<1> QED
  BY <1>1, <1>2, <1>3 DEF Known

\* A new invocation knows nothing yet.
LEMMA ForgetInv ==
    ASSUME IInv, Forget, scan' # "deciding", UNCHANGED <<planVars, guards>>
    PROVE  IInv'
  BY DEF IInv, Forget, Shape, RecordsAreOfNodes, DecidingInv, DecisionIsRecorded, planVars,
         Nothing

\* A node's own steps and the scan's steps that decide nothing.
LEMMA FrameInv ==
    ASSUME IInv, UNCHANGED <<planVars, results, launched, chosen, guards>>,
           place' \in Nat \ {0},
           scan' = "deciding" => scan = "deciding" /\ place' = place
    PROVE  IInv'
  BY DEF IInv, Shape, RecordsAreOfNodes, DecidingInv, DecisionIsRecorded, planVars, Known

\* The initial state has no decision.
LEMMA InitInv == Init => IInv
<1> SUFFICES ASSUME Init PROVE IInv
  OBVIOUS
<1>1. live \in Seq(Node)
  BY LiveIsArranged DEF Init
<1> QED
  BY <1>1 DEF Init, IInv, Shape, RecordsAreOfNodes, DecidingInv, DecisionIsRecorded,
              Nothing, Undecided

\* Every step of the flow keeps the invariant.
LEMMA NextInv == IInv /\ [Next]_vars => IInv'
<1> SUFFICES ASSUME IInv, [Next]_vars PROVE IInv'
  OBVIOUS
<1> USE DEF IInv
<1>1. CASE Invoke
  BY <1>1, ForgetInv DEF Invoke, recordVars
<1>2. CASE Pass
  BY <1>2, FrameInv DEF Pass, Shape, recordVars
<1>3. CASE Decide
  <2> DEFINE n == live[place]
  <2>1. n \in Node /\ n \notin launched /\ place <= Len(live)
    BY <1>3, PlaceIsNode DEF Decide, Passes
  <2>2. UNCHANGED <<plan, live, place, results, launched, guards>> /\ scan' = "deciding"
    BY <1>3 DEF Decide, planVars, recordVars
  <2>3. /\ DOMAIN chosen' = Node
        /\ \A m \in Node \ {n} : chosen'[m] = chosen[m]
        /\ chosen'[n] = IF guards[n].status = "SUCCEEDED" THEN guards[n] ELSE Decision(n)
    BY <1>3, <2>1 DEF Decide, Shape
  <2>4. guards[n].status = "SUCCEEDED" => Known(guards[n].selected)
    BY <1>3 DEF Decide, Passes
  <2>5. /\ chosen'[n].status = "SUCCEEDED" /\ chosen'[n].selected \subseteq Node
        /\ Known(chosen'[n].selected)
    BY <2>1, <2>3, <2>4, DecisionFacts DEF RecordsAreOfNodes
  <2>6. Shape' /\ RecordsAreOfNodes'
    BY <2>2, <2>3 DEF Shape, RecordsAreOfNodes
  <2>7. DecidingInv'
    BY <2>1, <2>2, <2>3, <2>5 DEF DecidingInv, Known
  <2>8. DecisionIsRecorded'
    BY <2>1, <2>2, <2>3 DEF DecisionIsRecorded, Known, Shape
  <2> QED
    BY <2>6, <2>7, <2>8
<1>4. CASE Record
  <2> DEFINE n == live[place]
  <2>1. /\ UNCHANGED <<plan, live, scan, place, results, launched, chosen>>
        /\ scan = "deciding"
    BY <1>4 DEF Record, planVars, localVars
  <2>2. n \in Node /\ n \notin launched
    BY <2>1, PlaceIsNode DEF DecidingInv
  <2>3. /\ DOMAIN guards' = Node
        /\ \A m \in Node \ {n} : guards'[m] = guards[m]
        /\ guards'[n] = [Undecided EXCEPT !.status = "STARTED"] \/ guards'[n] = chosen[n]
    BY <1>4, <2>2 DEF Record, Shape
  <2>4. guards'[n].status = "SUCCEEDED" => guards'[n] = chosen[n]
    BY <2>3 DEF Undecided
  <2>5. Shape' /\ RecordsAreOfNodes'
    BY <2>1, <2>2, <2>3, <2>4 DEF Shape, RecordsAreOfNodes, DecidingInv
  <2>6. DecidingInv'
    BY <2>1, <2>4 DEF DecidingInv, Known
  <2>7. DecisionIsRecorded'
    BY <2>1, <2>2, <2>3 DEF DecisionIsRecorded, Known, Shape
  <2> QED
    BY <2>5, <2>6, <2>7
<1>5. CASE Launch
  <2> DEFINE n == live[place]
  <2>1. /\ UNCHANGED <<plan, live, results, chosen, guards>> /\ launched' = launched \cup {n}
        /\ scan' = "scanning" /\ place' = place + 1
        /\ scan = "deciding" /\ guards[n].status = "SUCCEEDED"
    BY <1>5 DEF Launch, planVars, recordVars
  <2>2. n \in Node
    BY <2>1, PlaceIsNode DEF DecidingInv
  <2>3. Shape' /\ RecordsAreOfNodes' /\ DecidingInv'
    BY <2>1, <2>2 DEF Shape, RecordsAreOfNodes, DecidingInv
  <2>4. DecisionIsRecorded'
    BY <2>1 DEF DecisionIsRecorded, DecidingInv, Known
  <2> QED
    BY <2>3, <2>4
<1>6. CASE Await
  BY <1>6, FrameInv DEF Await, Shape, recordVars
<1>7. CASE Collect
  <2>1. /\ UNCHANGED <<plan, live, launched, chosen, guards>> /\ place' = 1
        /\ scan' # "deciding"
    BY <1>7 DEF Collect, planVars, recordVars
  <2>2. DOMAIN results' = Node /\ \A m \in Node : results[m] # Unsettled => results'[m] = results[m]
    BY <1>7 DEF Collect, Active
  <2>3. \A n \in launched : guards[n].selected \subseteq Node
    BY DEF DecisionIsRecorded, RecordsAreOfNodes, Shape
  <2>4. DecisionIsRecorded'
    BY <2>1, <2>2, <2>3 DEF DecisionIsRecorded, Known
  <2>5. Shape' /\ RecordsAreOfNodes' /\ DecidingInv'
    BY <2>1, <2>2 DEF Shape, RecordsAreOfNodes, DecidingInv
  <2> QED
    BY <2>4, <2>5
<1>8. CASE Suspend \/ Fail \/ Crash
  BY <1>8, ForgetInv DEF Suspend, Fail, Crash, recordVars
<1>9. CASE Report \/ Break
  BY <1>9, FrameInv DEF Report, Break, Shape
<1>10. ASSUME NEW n \in Node, NodeStep(n) \/ Interrupt(n) \/ Elapse(n) PROVE IInv'
  BY <1>10, FrameInv DEF NodeStep, Enter, Pause, Finish, Interrupt, Elapse, Rest, Shape,
                         localVars, recordVars
<1>11. CASE UNCHANGED vars
  BY <1>11, FrameInv DEF vars, Shape, localVars, recordVars
<1> QED
  BY <1>1, <1>2, <1>3, <1>4, <1>5, <1>6, <1>7, <1>8, <1>9, <1>10, <1>11 DEF Next, Schedule

\* The strengthened invariant: a decision being written belongs to a node that is
\* not launched, and what the record holds is that decision (execute_plan awaits
\* the guard's step before it launches the node).
THEOREM FlowInv == Spec => []IInv
  BY InitInv, NextInv, PTL DEF Spec

\* Dependency choices persist across replay: whatever invocation launches a
\* node, it follows the recorded decision and has the inputs it was made on.
THEOREM FlowDecisions == Spec => []DecisionIsRecorded
<1>1. IInv => DecisionIsRecorded
  BY DEF IInv
<1> QED
  BY FlowInv, <1>1, PTL

----------------------------------------------------------------------------
(* Results                                                                 *)

\* What the flow's graph means.
Truth == Meaning(plan, fate)

\* A decision is what the graph means, the failures it handles are among those its
\* expression asks for, and it holds without each of the others.
SoundFor(graph, meaning, n, decision) ==
    /\ decision.matched <=> Holds(graph.guard[n], meaning)
    /\ \A k \in decision.handled :
          decision.matched /\ k \in Node /\ Leaf(k, "FAILED") \in Leaves(graph.guard[n])
    /\ decision.matched => \A k \in Node \ decision.handled :
          Leaf(k, "FAILED") \in Leaves(graph.guard[n]) =>
              Holds(graph.guard[n], [meaning EXCEPT ![k] = Unsettled])

Typed ==
    /\ live = LiveOf(plan) /\ fate \in [Node -> Fates]
    /\ DOMAIN record = Node /\ DOMAIN task = Node /\ launched \subseteq Live

\* Recorded decisions are sound, and so is the one that is being written.
SoundDecisions ==
    /\ \A n \in Node : guards[n].status = "SUCCEEDED" => SoundFor(plan, Truth, n, guards[n])
    /\ scan = "deciding" => SoundFor(plan, Truth, live[place], chosen[live[place]])

\* Records and results of nodes are those the graph means; a node that runs is
\* launched, and one that is done or broken has its record.
NodesMeanIt ==
    \A n \in Node :
        /\ record[n] \in Outcomes => record[n] = Truth[n]
        /\ results[n] # Unsettled =>
              n \in launched /\ results[n] = Truth[n] /\ results[n] \in Settled
        /\ task[n] # "idle" => n \in launched
        /\ task[n] = "done" => record[n] \in Settled
        /\ task[n] = "broken" => record[n] = "BROKEN"

\* The failures handled are those of the launched nodes' decisions, and the scan
\* ends when every live node has its result.
ScanInv ==
    /\ handled = UNION {chosen[n].handled : n \in launched}
    /\ scan = "ending" => \A n \in Live : results[n] # Unsettled

MInv ==
    /\ Typed /\ SoundDecisions /\ NodesMeanIt /\ ScanInv
    /\ ResultIsMeaning /\ FailuresAccounted

\* Of an accepted graph: its expressions are over other nodes, and the results it
\* means are settled ones, of its live nodes as their expressions hold.
LEMMA TruthFacts ==
    ASSUME Shape, Typed
    PROVE  /\ Truth \in [Node -> Outcomes]
           /\ Live \subseteq Node
           /\ \A n \in Node \ Live : Truth[n] = "SKIPPED"
           /\ \A n \in Live : /\ Holds(plan.guard[n], Truth) => Truth[n] = fate[n]
                              /\ ~Holds(plan.guard[n], Truth) => Truth[n] = "SKIPPED"
<1> DEFINE order == LiveOf(plan)
<1>1. /\ Truth \in [Node -> Outcomes]
      /\ \A n \in Node : (\A i \in DOMAIN order : order[i] # n) => Truth[n] = "SKIPPED"
      /\ \A i \in DOMAIN order :
            Truth[order[i]] = IF Holds(plan.guard[order[i]], Truth)
                              THEN fate[order[i]] ELSE "SKIPPED"
  BY MeaningHolds DEF Shape, Typed, Truth
<1>2. Live = {order[i] : i \in DOMAIN order} /\ order \in Seq(Node)
  BY DEF Shape, Typed, Live
<1> HIDE DEF order
<1> QED
  BY <1>1, <1>2

\* A decision that is made on results of the graph is sound.
LEMMA DecisionIsSound ==
    ASSUME Shape, Typed, NodesMeanIt, NEW n \in Live,
           Evaluate(plan.guard[n], results).matched # "open"
    PROVE  SoundFor(plan, Truth, n, Decision(n))
<1> DEFINE guard == plan.guard[n]  value == Evaluate(guard, results)
<1>1. /\ n \in Node /\ IsExpression(guard, Node \ {n})
      /\ \A i, j \in Positions(guard, "LEAF") : guard[i].node = guard[j].node => i = j
  BY TruthFacts, FlowAssumption DEF Shape, Accepted
<1>2. Settles(guard, results, Truth)
  BY <1>1, SourcesAre, TruthFacts DEF Settles, NodesMeanIt
<1>3. /\ value.matched = "yes" => Holds(guard, Truth)
      /\ value.matched # "yes" => ~Holds(guard, Truth)
  BY <1>1, <1>2, DecidedHolds
<1>4. ASSUME NEW k \in value.handled
      PROVE  value.matched = "yes" /\ k \in Node /\ Leaf(k, "FAILED") \in Leaves(guard)
  <2>1. value.matched = "yes" /\ Leaf(k, "FAILED") \in Leaves(guard)
    BY <1>1, HandledIs
  <2>2. k \in Sources(guard)
    BY <2>1 DEF Sources, Leaf
  <2> QED
    BY <1>1, <2>1, <2>2, SourcesAre
<1>5. ASSUME value.matched = "yes", NEW k \in Node \ value.handled,
             Leaf(k, "FAILED") \in Leaves(guard)
      PROVE  Holds(guard, [Truth EXCEPT ![k] = Unsettled])
  <2>1. Node \ {n} \subseteq DOMAIN Truth
    BY TruthFacts
  <2> QED
    BY <1>1, <1>2, <1>5, <2>1, HoldsWithout
<1>6. /\ Decision(n).matched <=> value.matched = "yes"
      /\ Decision(n).handled = value.handled
  BY DEF Decision
<1> HIDE DEF value
<1>7. Decision(n).matched <=> Holds(guard, Truth)
  BY <1>3, <1>6
<1> QED
  BY <1>4, <1>5, <1>6, <1>7 DEF SoundFor

\* What does not change while the graph does not.
LEMMA GraphFrame ==
    ASSUME UNCHANGED planVars
    PROVE  UNCHANGED <<Truth, Live>>
  BY DEF planVars, Truth, Live

\* The report of a flow whose live nodes have their results.
LEMMA ReportIsRight ==
    ASSUME IInv, MInv, Report, \A n \in Live : results[n] # Unsettled
    PROVE  ResultIsMeaning' /\ FailuresAccounted'
<1> USE DEF IInv, MInv
<1>1. UNCHANGED <<plan, fate, live>> /\ UNCHANGED Live
  BY GraphFrame DEF Report, planVars
<1>2. \A n \in Node : Final(n) = Truth[n]
  BY TruthFacts DEF NodesMeanIt, Final, Typed
<1>3. /\ flow'.results = [n \in Node |-> Final(n)]
      /\ flow'.unhandled = {n \in Node : Final(n) = "FAILED"}
                              \ (handled \cup Outputs({"RESULT", "ERROR"}))
  BY DEF Report
<1>4. flow'.results = Truth
  BY <1>2, <1>3, TruthFacts
<1>5. ResultIsMeaning'
  <2>1. ~\E n \in Node : Truth[n] = "BROKEN"
    BY TruthFacts DEF NodesMeanIt, Settled, Typed
  <2>2. Expected' = Truth
    BY <1>1, <2>1 DEF Expected, Truth
  <2> QED
    BY <1>4, <2>2 DEF ResultIsMeaning
<1> DEFINE asked(n) == n \in Outputs({"RESULT", "ERROR"})
           ran == {m \in Live : Truth[m] # "SKIPPED"}
<1>6. \A m \in launched : /\ m \in Live /\ m \in Node
                          /\ SoundFor(plan, Truth, m, chosen[m])
  BY TruthFacts DEF Typed, DecisionIsRecorded, SoundDecisions
<1>7. ASSUME NEW n \in Node, Truth[n] = "FAILED", n \notin flow'.unhandled
      PROVE  asked(n) \/ \E m \in ran : Leaf(n, "FAILED") \in Leaves(plan.guard[m])
  <2>1. n \in handled \/ asked(n)
    BY <1>2, <1>3, <1>7
  <2>2. CASE n \in handled
    <3>1. PICK m \in launched : n \in chosen[m].handled
      BY <2>2 DEF ScanInv
    <3>2. Holds(plan.guard[m], Truth) /\ Leaf(n, "FAILED") \in Leaves(plan.guard[m])
      BY <1>6, <3>1 DEF SoundFor
    <3>3. Truth[m] # "SKIPPED"
      BY <1>6, <3>2, TruthFacts DEF Typed, Fates
    <3> QED
      BY <1>6, <3>2, <3>3
  <2> QED
    BY <2>1, <2>2
<1>8. ASSUME NEW n \in Node, Truth[n] = "FAILED", n \in flow'.unhandled
      PROVE  ~asked(n) /\ \A m \in ran : Leaf(n, "FAILED") \in Leaves(plan.guard[m]) =>
                              Holds(plan.guard[m], [Truth EXCEPT ![n] = Unsettled])
  <2>1. n \notin handled /\ ~asked(n)
    BY <1>3, <1>8
  <2>2. ASSUME NEW m \in ran, Leaf(n, "FAILED") \in Leaves(plan.guard[m])
        PROVE  Holds(plan.guard[m], [Truth EXCEPT ![n] = Unsettled])
    <3>1. m \in launched /\ Holds(plan.guard[m], Truth)
      BY TruthFacts DEF NodesMeanIt
    <3>2. n \notin chosen[m].handled
      BY <2>1, <3>1 DEF ScanInv
    <3> QED
      BY <1>6, <2>2, <3>1, <3>2 DEF SoundFor
  <2> QED
    BY <2>1, <2>2
<1>9. UNCHANGED Outputs({"RESULT", "ERROR"})
  BY <1>1 DEF Outputs
<1>10. FailuresAccounted'
  <2> HIDE DEF asked, IInv, MInv
  <2>1. ASSUME NEW n \in Node, flow'.results[n] = "FAILED"
        PROVE  /\ n \notin flow'.unhandled =>
                     asked(n) \/ \E m \in ran : Leaf(n, "FAILED") \in Leaves(plan.guard[m])
               /\ n \in flow'.unhandled => ~asked(n) /\
                     \A m \in ran : Leaf(n, "FAILED") \in Leaves(plan.guard[m]) =>
                         Holds(plan.guard[m], [Truth EXCEPT ![n] = Unsettled])
    BY <1>4, <1>7, <1>8, <2>1
  <2> QED
    BY <1>1, <1>4, <1>9, <2>1 DEF FailuresAccounted, asked
<1> QED
  BY <1>5, <1>10

LEMMA InitM == Init => MInv
<1> SUFFICES ASSUME Init PROVE MInv
  OBVIOUS
<1>1. /\ Typed /\ flow = None /\ handled = {} /\ launched = {} /\ scan = "off"
      /\ \A n \in Node : /\ guards[n] = Undecided /\ record[n] = "none"
                         /\ results[n] = Unsettled /\ task[n] = "idle"
  BY DEF Init, Typed, Idle, Nothing
<1>2. SoundDecisions
  BY <1>1 DEF SoundDecisions, Undecided
<1>3. NodesMeanIt /\ ScanInv
  BY <1>1 DEF NodesMeanIt, ScanInv, Outcomes, Settled
<1> QED
  BY <1>1, <1>2, <1>3 DEF MInv, ResultIsMeaning, FailuresAccounted

\* What the graph means is not touched by a step that leaves the flow's result.
LEMMA ReportFrame ==
    ASSUME UNCHANGED planVars, UNCHANGED flow, ResultIsMeaning, FailuresAccounted
    PROVE  ResultIsMeaning' /\ FailuresAccounted'
<1>1. UNCHANGED <<plan, fate, Live>>
  BY GraphFrame DEF planVars
<1> QED
  BY <1>1 DEF ResultIsMeaning, Expected, Nothing, FailuresAccounted, Outputs

\* A new invocation keeps the records.
LEMMA ForgetM ==
    ASSUME MInv, Forget, scan' \notin {"deciding", "ending"}, UNCHANGED <<planVars, recordVars>>
    PROVE  MInv'
<1> USE DEF MInv
<1>1. UNCHANGED <<plan, live, fate, guards, record, flow, Truth, Live>>
  BY GraphFrame DEF planVars, recordVars
<1>2. /\ launched' = {} /\ handled' = {} /\ DOMAIN task' = Node
      /\ \A n \in Node : task'[n] = "idle" /\ results'[n] = Unsettled
  BY DEF Forget, Idle, Nothing
<1>3. Typed'
  BY <1>1, <1>2 DEF Typed
<1>4. SoundDecisions'
  BY <1>1 DEF SoundDecisions
<1>5. NodesMeanIt'
  BY <1>1, <1>2 DEF NodesMeanIt
<1>6. ScanInv'
  BY <1>2 DEF ScanInv
<1> QED
  BY <1>1, <1>3, <1>4, <1>5, <1>6, ReportFrame

\* The scan's steps that decide nothing.
LEMMA ScanM ==
    ASSUME MInv, UNCHANGED <<planVars, task, results, handled, launched, chosen, guards,
                             record, flow>>,
           scan' = "deciding" => scan = "deciding" /\ place' = place,
           scan' = "ending" => scan = "ending"
    PROVE  MInv'
<1> USE DEF MInv
<1>1. UNCHANGED <<plan, live, fate, Truth, Live>>
  BY GraphFrame DEF planVars
<1>2. Typed'
  BY <1>1 DEF Typed
<1>3. SoundDecisions'
  BY <1>1 DEF SoundDecisions
<1>4. NodesMeanIt'
  BY <1>1 DEF NodesMeanIt
<1>5. ScanInv'
  BY <1>1 DEF ScanInv
<1> QED
  BY <1>1, <1>2, <1>3, <1>4, <1>5, ReportFrame

\* A node's own steps.
LEMMA NodeM ==
    ASSUME IInv, MInv, NEW n \in Node,
           UNCHANGED <<planVars, scan, place, results, handled, launched, chosen, guards, flow>>,
           task[n] # "idle", DOMAIN task' = Node, DOMAIN record' = Node,
           \A m \in Node \ {n} : task'[m] = task[m] /\ record'[m] = record[m],
           record'[n] \in Outcomes => record'[n] = Truth[n],
           task'[n] = "done" => record'[n] \in Settled,
           task'[n] = "broken" => record'[n] = "BROKEN"
    PROVE  MInv'
<1> USE DEF MInv
<1>1. UNCHANGED <<plan, live, fate, Truth, Live>>
  BY GraphFrame DEF planVars
<1>2. Typed'
  BY <1>1 DEF Typed
<1>3. SoundDecisions'
  BY <1>1 DEF SoundDecisions
<1>4. NodesMeanIt'
  BY <1>1 DEF NodesMeanIt
<1>5. ScanInv'
  BY <1>1 DEF ScanInv
<1> QED
  BY <1>1, <1>2, <1>3, <1>4, <1>5, ReportFrame

\* Every step of the flow keeps what is known of its results.
LEMMA NextM == IInv /\ MInv /\ [Next]_vars => MInv'
<1> SUFFICES ASSUME IInv, MInv, [Next]_vars PROVE MInv'
  OBVIOUS
<1> USE DEF IInv, MInv
<1>0. Live \subseteq Node /\ Truth \in [Node -> Outcomes]
  BY TruthFacts
<1>1. CASE Invoke \/ Suspend \/ Fail \/ Crash
  BY <1>1, ForgetM DEF Invoke, Suspend, Fail, Crash
<1>2. CASE Pass \/ Await
  BY <1>2, ScanM DEF Pass, Await, recordVars
<1>3. CASE Decide
  <2> DEFINE n == live[place]
  <2>1. n \in Node /\ n \in Live /\ n \notin launched
    BY <1>3, PlaceIsNode DEF Decide, Passes, Live, Shape
  <2>2. /\ UNCHANGED planVars
        /\ UNCHANGED <<place, task, results, handled, launched, guards, record, flow>>
        /\ scan' = "deciding"
    BY <1>3 DEF Decide, recordVars
  <2>3. UNCHANGED <<plan, live, fate, Truth, Live>>
    BY <2>2, GraphFrame DEF planVars
  <2>4. /\ \A m \in Node \ {n} : chosen'[m] = chosen[m]
        /\ chosen'[n] = IF guards[n].status = "SUCCEEDED" THEN guards[n] ELSE Decision(n)
    BY <1>3, <2>1 DEF Decide, Shape
  <2>5. SoundFor(plan, Truth, n, chosen'[n])
    <3>1. CASE guards[n].status = "SUCCEEDED"
      BY <2>1, <2>4, <3>1 DEF SoundDecisions
    <3>2. CASE guards[n].status # "SUCCEEDED"
      <4>1. Evaluate(plan.guard[n], results).matched # "open"
        BY <1>3, <3>2 DEF Decide, Passes
      <4>2. SoundFor(plan, Truth, n, Decision(n))
        BY <2>1, <4>1, DecisionIsSound
      <4> QED
        BY <2>4, <3>2, <4>2
    <3> QED
      BY <3>1, <3>2
  <2>6. Typed' /\ NodesMeanIt'
    BY <2>2, <2>3 DEF Typed, NodesMeanIt
  <2>7. SoundDecisions'
    BY <2>2, <2>3, <2>5 DEF SoundDecisions
  <2>8. ScanInv'
    <3>1. \A m \in launched : chosen'[m] = chosen[m]
      BY <2>1, <2>4 DEF Shape
    <3> QED
      BY <2>2, <2>3, <3>1 DEF ScanInv
  <2> QED
    BY <2>2, <2>6, <2>7, <2>8, ReportFrame
<1>4. CASE Record
  <2> DEFINE n == live[place]
  <2>1. /\ UNCHANGED planVars
        /\ UNCHANGED <<scan, place, task, results, handled, launched, chosen, record, flow>>
        /\ scan = "deciding"
    BY <1>4 DEF Record, localVars
  <2>2. UNCHANGED <<plan, live, fate, Truth, Live>>
    BY <2>1, GraphFrame DEF planVars
  <2>3. n \in Node
    BY <2>1, PlaceIsNode DEF DecidingInv
  <2>4. /\ \A m \in Node \ {n} : guards'[m] = guards[m]
        /\ guards'[n].status = "SUCCEEDED" => guards'[n] = chosen[n]
    BY <1>4, <2>3 DEF Record, Shape, Undecided
  <2>5. SoundDecisions'
    BY <2>1, <2>2, <2>4 DEF SoundDecisions
  <2>6. Typed' /\ NodesMeanIt' /\ ScanInv'
    BY <2>1, <2>2 DEF Typed, NodesMeanIt, ScanInv
  <2> QED
    BY <2>1, <2>5, <2>6, ReportFrame
<1>5. CASE Launch
  <2> DEFINE n == live[place]
  <2>1. /\ UNCHANGED planVars
        /\ UNCHANGED <<results, chosen, guards, record, flow>>
        /\ scan = "deciding" /\ scan' = "scanning"
        /\ launched' = launched \cup {n} /\ handled' = handled \cup chosen[n].handled
        /\ task' = [task EXCEPT ![n] = "running"]
    BY <1>5 DEF Launch, recordVars
  <2>2. UNCHANGED <<plan, live, fate, Truth, Live>>
    BY <2>1, GraphFrame DEF planVars
  <2>3. n \in Node /\ n \in Live
    BY <2>1, PlaceIsNode DEF DecidingInv, Live, Shape
  <2>4. Typed' /\ SoundDecisions'
    BY <2>1, <2>2, <2>3 DEF Typed, SoundDecisions
  <2>5. NodesMeanIt'
    BY <2>1, <2>2, <2>3 DEF NodesMeanIt, Typed
  <2>6. ScanInv'
    <3>1. handled' = UNION {chosen[m].handled : m \in launched \cup {n}}
      BY <2>1 DEF ScanInv
    <3> QED
      BY <2>1, <3>1 DEF ScanInv
  <2> QED
    BY <2>1, <2>4, <2>5, <2>6, ReportFrame
<1>6. CASE Collect
  <2> DEFINE completed == {n \in Active : task[n] \in Ended}
  <2>1. /\ UNCHANGED planVars
        /\ UNCHANGED <<task, handled, launched, chosen, guards, record, flow>>
        /\ scan' = IF \E n \in Live : results'[n] = Unsettled THEN "scanning" ELSE "ending"
        /\ results' = [n \in Node |-> IF n \in completed /\ task[n] = "done"
                                      THEN record[n] ELSE results[n]]
    BY <1>6 DEF Collect, recordVars
  <2>2. UNCHANGED <<plan, live, fate, Truth, Live>>
    BY <2>1, GraphFrame DEF planVars
  <2>3. completed \subseteq launched
    BY DEF Active
  <2> HIDE DEF completed
  <2>4. ASSUME NEW n \in Node, results'[n] # Unsettled
        PROVE  n \in launched /\ results'[n] = Truth[n] /\ results'[n] \in Settled
    <3>1. CASE n \in completed /\ task[n] = "done"
      BY <2>1, <2>3, <3>1 DEF NodesMeanIt, Outcomes
    <3>2. CASE ~(n \in completed /\ task[n] = "done")
      BY <2>1, <2>4, <3>2 DEF NodesMeanIt
    <3> QED
      BY <3>1, <3>2
  <2>5. NodesMeanIt'
    BY <2>1, <2>2, <2>4 DEF NodesMeanIt
  <2>6. Typed' /\ SoundDecisions'
    BY <2>1, <2>2 DEF Typed, SoundDecisions
  <2>7. ScanInv'
    BY <2>1, <2>2 DEF ScanInv
  <2> QED
    BY <2>1, <2>5, <2>6, <2>7, ReportFrame
<1>7. CASE Report
  <2>1. \A n \in Live : results[n] # Unsettled
    <3>1. live = <<>> => Live = {}
      BY DEF Live
    <3> QED
      BY <1>7, <3>1 DEF Report, ScanInv
  <2>2. ResultIsMeaning' /\ FailuresAccounted'
    BY <1>7, <2>1, ReportIsRight
  <2>3. /\ UNCHANGED planVars
        /\ UNCHANGED <<task, results, handled, launched, chosen, guards, record>>
        /\ scan' = "over"
    BY <1>7 DEF Report
  <2>4. UNCHANGED <<plan, live, fate, Truth, Live>>
    BY <2>3, GraphFrame DEF planVars
  <2>5. Typed' /\ SoundDecisions' /\ NodesMeanIt' /\ ScanInv'
    BY <2>3, <2>4 DEF Typed, SoundDecisions, NodesMeanIt, ScanInv
  <2> QED
    BY <2>2, <2>5
<1>13. CASE Break
  <2>1. /\ UNCHANGED planVars
        /\ UNCHANGED <<task, results, handled, launched, chosen, guards, record>>
        /\ scan' = "over" /\ flow' = [results |-> Nothing, unhandled |-> {},
                                     unavailable |-> {}]
    BY <1>13 DEF Break
  <2>2. UNCHANGED <<plan, live, fate, Truth, Live>>
    BY <2>1, GraphFrame DEF planVars
  <2>3. \E n \in Node : Truth[n] = "BROKEN"
    <3>1. PICK n \in Active : task[n] = "broken"
      BY <1>13 DEF Break, RaisedFirst
    <3>2. n \in Node
      BY <1>0, <3>1 DEF Active, Typed
    <3> QED
      BY <3>1, <3>2 DEF NodesMeanIt, Outcomes
  <2>4. Expected' = Nothing
    BY <2>2, <2>3 DEF Expected, Truth, Nothing
  <2>5. ResultIsMeaning'
    BY <2>1, <2>4 DEF ResultIsMeaning
  <2>6. FailuresAccounted'
    BY <2>1 DEF FailuresAccounted, Nothing, Unsettled
  <2>7. Typed' /\ SoundDecisions' /\ NodesMeanIt' /\ ScanInv'
    BY <2>1, <2>2 DEF Typed, SoundDecisions, NodesMeanIt, ScanInv
  <2> QED
    BY <2>5, <2>6, <2>7
<1>8. ASSUME NEW n \in Node, Enter(n) PROVE MInv'
  <2>1. /\ UNCHANGED <<planVars, scan, place, results, handled, launched, chosen, guards, flow>>
        /\ task[n] = "running"
        /\ \/ /\ record[n] \in Outcomes /\ task' = [task EXCEPT ![n] = Ending(record[n])]
              /\ record' = record
           \/ /\ task' = [task EXCEPT ![n] = "body"]
              /\ record' = [record EXCEPT ![n] = "STARTED"]
    BY <1>8 DEF Enter, Rest, Becomes
  <2>2. DOMAIN task' = Node /\ DOMAIN record' = Node
    BY <2>1 DEF Typed
  <2>3. \A m \in Node \ {n} : task'[m] = task[m] /\ record'[m] = record[m]
    BY <2>1 DEF Typed
  <2>4. /\ record'[n] \in Outcomes => record'[n] = Truth[n]
        /\ task'[n] = "done" => record'[n] \in Settled
        /\ task'[n] = "broken" => record'[n] = "BROKEN"
    BY <1>8, <2>1 DEF Typed, NodesMeanIt, Ending, Outcomes, Settled
  <2> HIDE DEF IInv, MInv
  <2> QED
    BY <2>1, <2>2, <2>3, <2>4, NodeM
<1>9. ASSUME NEW n \in Node, Finish(n) PROVE MInv'
  <2>1. /\ UNCHANGED <<planVars, scan, place, results, handled, launched, chosen, guards, flow>>
        /\ task[n] = "body" /\ task' = [task EXCEPT ![n] = Ending(record'[n])]
        /\ record' = [record EXCEPT ![n] = IF chosen[n].matched THEN fate[n] ELSE "SKIPPED"]
    BY <1>9 DEF Finish, Rest, Becomes
  <2>2. n \in launched /\ n \in Live
    BY <2>1 DEF NodesMeanIt, Typed
  <2>3. chosen[n].matched <=> Holds(plan.guard[n], Truth)
    BY <2>2 DEF DecisionIsRecorded, SoundDecisions, SoundFor
  <2>4. record'[n] = Truth[n]
    BY <2>1, <2>2, <2>3, TruthFacts DEF Typed
  <2>5. DOMAIN task' = Node /\ DOMAIN record' = Node
    BY <2>1 DEF Typed
  <2>6. \A m \in Node \ {n} : task'[m] = task[m] /\ record'[m] = record[m]
    BY <2>1 DEF Typed
  <2>7. /\ task'[n] = "done" => record'[n] \in Settled
        /\ task'[n] = "broken" => record'[n] = "BROKEN"
    BY <1>0, <2>1, <2>4 DEF Ending, Outcomes, Typed
  <2> HIDE DEF IInv, MInv
  <2> QED
    BY <2>1, <2>4, <2>5, <2>6, <2>7, NodeM
<1>10. ASSUME NEW n \in Node, Pause(n) \/ Interrupt(n) PROVE MInv'
  <2>1. /\ UNCHANGED <<planVars, scan, place, results, handled, launched, chosen, guards, flow,
                       record>>
        /\ task[n] = "body"
        /\ \E state \in {"paused", "interrupted"} : task' = [task EXCEPT ![n] = state]
    BY <1>10 DEF Pause, Interrupt, Rest, Becomes, recordVars
  <2>2. /\ DOMAIN task' = Node /\ DOMAIN record' = Node
        /\ task'[n] \notin {"done", "broken"}
        /\ \A m \in Node \ {n} : task'[m] = task[m] /\ record'[m] = record[m]
    BY <2>1 DEF Typed
  <2>3. record'[n] \in Outcomes => record'[n] = Truth[n]
    BY <1>10, <2>1 DEF NodesMeanIt
  <2> HIDE DEF IInv, MInv
  <2> QED
    BY <2>1, <2>2, <2>3, NodeM
<1>11. ASSUME NEW n \in Node, Elapse(n) PROVE MInv'
  BY <1>11, ScanM DEF Elapse, localVars
<1>12. CASE UNCHANGED vars
  BY <1>12, ScanM DEF vars, localVars, recordVars
<1> QED
  BY <1>1, <1>2, <1>3, <1>4, <1>5, <1>6, <1>7, <1>8, <1>9, <1>10, <1>11, <1>12,
     <1>13 DEF Next, Schedule, NodeStep

\* The strengthened invariant of the results: a decision, once there is one, is
\* what the graph means of results that are not all there yet.
LEMMA SpecM == Spec => []MInv
  BY FlowInv, InitM, NextM, PTL DEF Spec

\* The results of a flow are what its graph means, whatever order its nodes ended
\* in and however often it was interrupted (execute_plan takes each decision on
\* part of the results, as soon as Guard.evaluate is sure); and it fails without
\* results only if a node that must run is broken (control_error).
THEOREM FlowMeaning == Spec => []ResultIsMeaning
<1>1. MInv => ResultIsMeaning
  BY DEF MInv
<1> QED
  BY SpecM, <1>1, PTL

\* A failure is unhandled unless an output asks for it or a node ran on it, and
\* what is unhandled decided nothing (what execute_plan reports as unhandled_failures).
THEOREM FlowFailures == Spec => []FailuresAccounted
<1>1. MInv => FailuresAccounted
  BY DEF MInv
<1> QED
  BY SpecM, <1>1, PTL

----------------------------------------------------------------------------
(* Types                                                                   *)

\* A decision that is made has its type.
LEMMA DecisionType ==
    ASSUME IInv, MInv, NEW n \in Live, Evaluate(plan.guard[n], results).matched # "open"
    PROVE  Decision(n) \in Decided
<1>1. n \in Node
  BY TruthFacts DEF IInv, MInv
<1>2. SoundFor(plan, Truth, n, Decision(n))
  BY DecisionIsSound DEF IInv, MInv
<1>3. Decision(n).handled \subseteq Node
  BY <1>2 DEF SoundFor
<1>4. Decision(n).selected \subseteq Node /\ Decision(n).status = "SUCCEEDED"
  BY <1>1, DecisionFacts DEF IInv
<1>5. Decision(n).matched \in BOOLEAN
  BY DEF Decision
<1>6. Decision(n) = [status |-> Decision(n).status, matched |-> Decision(n).matched,
                     selected |-> Decision(n).selected, handled |-> Decision(n).handled]
  BY DEF Decision
<1> QED
  BY <1>3, <1>4, <1>5, <1>6 DEF Decided

\* The nodes' variables and the scan's, apart.
GraphType == plan \in Plans /\ live = LiveOf(plan) /\ fate \in [Node -> Fates]
             /\ waits \in [Node -> BOOLEAN]
ScanType ==
    /\ scan \in {"off", "scanning", "deciding", "waiting", "ending", "over"}
    /\ place \in 1 .. Len(live) + 1
ChoiceType ==
    /\ launched \subseteq Live /\ handled \subseteq Node
    /\ chosen \in [Node -> Decided] /\ guards \in [Node -> Decided]
NodeType ==
    /\ task \in [Node -> {"idle", "running", "body"} \cup Ended]
    /\ results \in [Node -> Settled \cup {Unsettled}]
    /\ \A n \in Node : results[n] # Unsettled => record[n] = results[n] /\ n \notin paused
    /\ paused \subseteq launched
    /\ record \in [Node -> Outcomes \cup {"none", "STARTED"}]
    /\ timer \in [Node -> {"none", "STARTED", "SUCCEEDED"}]
BudgetType == crashes \in 0 .. MaxCrashes /\ interrupts \in 0 .. MaxInterrupts

LEMMA TypeParts == TypeOK <=> GraphType /\ ScanType /\ ChoiceType /\ NodeType /\ BudgetType
  BY DEF TypeOK, GraphType, ScanType, ChoiceType, NodeType, BudgetType

LEMMA InitT == Init => TypeOK
<1> SUFFICES ASSUME Init PROVE TypeOK
  OBVIOUS
<1>1. GraphType
  BY DEF Init, GraphType
<1>2. ScanType
  <2>1. live \in Seq(Node)
    BY LiveIsArranged DEF Init
  <2>2. 1 \in 1 .. Len(live) + 1
    BY <2>1
  <2> QED
    BY <2>2 DEF Init, ScanType
<1>3. Undecided \in Decided
  BY DEF Undecided, Decided
<1>4. ChoiceType
  BY <1>3 DEF Init, ChoiceType
<1>5. NodeType
  BY DEF Init, NodeType, Idle, Nothing
<1>6. BudgetType
  BY FlowAssumption DEF Init, BudgetType
<1> QED
  BY <1>1, <1>2, <1>4, <1>5, <1>6, TypeParts

\* What a new invocation starts with.
LEMMA ForgetT ==
    ASSUME TypeOK, IInv, Forget, UNCHANGED <<planVars, recordVars>>
    PROVE  GraphType' /\ ChoiceType' /\ NodeType' /\ place' \in 1 .. Len(live') + 1
<1>1. GraphType /\ ChoiceType /\ NodeType
  BY TypeParts
<1>2. UNCHANGED <<plan, live, fate, waits, guards, record, timer>>
  BY DEF planVars, recordVars
<1>3. place' = 1 /\ launched' = {} /\ handled' = {} /\ paused' = {}
      /\ task' = [n \in Node |-> "idle"] /\ results' = [n \in Node |-> Unsettled]
      /\ chosen' = [n \in Node |-> Undecided]
  BY DEF Forget, Idle, Nothing
<1>4. GraphType'
  BY <1>1, <1>2 DEF GraphType
<1>5. Undecided \in Decided
  BY DEF Undecided, Decided
<1>6. ChoiceType'
  BY <1>1, <1>2, <1>3, <1>5 DEF ChoiceType
<1>7. NodeType'
  BY <1>1, <1>2, <1>3 DEF NodeType
<1>8. place' \in 1 .. Len(live') + 1
  <2>1. Len(live) \in Nat
    BY DEF IInv, Shape
  <2> QED
    BY <1>2, <1>3, <2>1
<1> QED
  BY <1>4, <1>6, <1>7, <1>8

\* Every step keeps the types.
LEMMA NextT == TypeOK /\ IInv /\ MInv /\ MInv' /\ [Next]_vars => TypeOK'
<1> SUFFICES ASSUME TypeOK, IInv, MInv, MInv', [Next]_vars PROVE TypeOK'
  OBVIOUS
<1>0. GraphType' /\ ScanType' /\ ChoiceType' /\ NodeType' /\ BudgetType' => TypeOK'
  BY DEF TypeOK, GraphType, ScanType, ChoiceType, NodeType, BudgetType
<1>1. GraphType /\ ScanType /\ ChoiceType /\ NodeType /\ BudgetType
  BY TypeParts
<1>2. Len(live) \in Nat /\ Live \subseteq Node
  BY TruthFacts DEF IInv, MInv, Shape
<1>3. GraphType' /\ UNCHANGED <<plan, live, fate, waits, Live>>
  <2>1. UNCHANGED planVars
    BY DEF Next, Schedule, NodeStep, Invoke, Pass, Decide, Record, Launch, Await, Collect,
           Suspend, Fail, Break, Report, Crash, Enter, Pause, Finish, Interrupt, Elapse, Rest, vars
  <2>2. UNCHANGED Live
    BY <2>1, GraphFrame
  <2>3. UNCHANGED <<plan, live, fate, waits>>
    BY <2>1 DEF planVars
  <2> QED
    <3>1. GraphType'
      BY <1>1, <2>3 DEF GraphType
    <3> QED
      BY <2>2, <2>3, <3>1
<1>4. UNCHANGED live
  BY <1>3
<1>5. CASE Invoke \/ Suspend \/ Fail \/ Crash
  <2>1. ChoiceType' /\ NodeType' /\ place' \in 1 .. Len(live') + 1
    BY <1>5, ForgetT DEF Invoke, Suspend, Fail, Crash
  <2>2. ScanType'
    BY <1>5, <2>1 DEF Invoke, Suspend, Fail, Crash, ScanType
  <2>3. BudgetType'
    BY <1>1, <1>5, FlowAssumption DEF Invoke, Suspend, Fail, Crash, BudgetType, budgetVars
  <2> QED
    BY <1>3, <2>1, <2>2, <2>3, <1>0
<1>6. CASE Pass \/ Await
  <2>1. ScanType'
    BY <1>1, <1>2, <1>4, <1>6 DEF Pass, Await, ScanType
  <2>2. ChoiceType' /\ NodeType' /\ BudgetType'
    BY <1>1, <1>3, <1>6 DEF Pass, Await, ChoiceType, NodeType, BudgetType, recordVars, budgetVars
  <2> QED
    BY <1>3, <2>1, <2>2, <1>0
<1>7. CASE Decide
  <2> DEFINE n == live[place]
  <2>1. n \in Node /\ n \in Live
    BY <1>1, <1>7, PlaceIsNode DEF Decide, Live, IInv, Shape
  <2>2. guards[n].status # "SUCCEEDED" => Decision(n) \in Decided
    BY <1>7, <2>1, DecisionType DEF Decide, Passes
  <2>3. chosen' = [chosen EXCEPT ![n] = IF guards[n].status = "SUCCEEDED" THEN guards[n]
                                        ELSE Decision(n)]
    BY <1>7 DEF Decide
  <2> HIDE DEF n
  <2>4. chosen' \in [Node -> Decided]
    BY <1>1, <2>1, <2>2, <2>3 DEF ChoiceType
  <2>5. ChoiceType' /\ NodeType' /\ BudgetType' /\ ScanType'
    BY <1>1, <1>3, <1>4, <1>7, <2>4 DEF Decide, ChoiceType, NodeType, BudgetType, ScanType,
                                        recordVars, budgetVars
  <2> QED
    BY <1>3, <2>5, <1>0
<1>8. CASE Record
  <2> DEFINE n == live[place]
  <2>1. n \in Node
    BY <1>8, PlaceIsNode DEF Record, IInv, DecidingInv
  <2>2. [Undecided EXCEPT !.status = "STARTED"] \in Decided
    BY DEF Undecided, Decided
  <2>3. chosen[n] \in Decided
    BY <1>1, <2>1 DEF ChoiceType
  <2>4. guards' = [guards EXCEPT ![n] = IF guards[n].status = "none"
                                        THEN [Undecided EXCEPT !.status = "STARTED"]
                                        ELSE chosen[n]]
    BY <1>8 DEF Record
  <2> HIDE DEF n
  <2>5. guards' \in [Node -> Decided]
    BY <1>1, <2>1, <2>2, <2>3, <2>4 DEF ChoiceType
  <2>6. ChoiceType' /\ NodeType' /\ BudgetType' /\ ScanType'
    BY <1>1, <1>3, <1>4, <1>8, <2>5 DEF Record, ChoiceType, NodeType, BudgetType, ScanType,
                                        localVars, budgetVars
  <2> QED
    BY <1>3, <2>6, <1>0
<1>9. CASE Launch
  <2> DEFINE n == live[place]
  <2>1. n \in Node /\ n \in Live /\ place <= Len(live)
    BY <1>1, <1>9, PlaceIsNode DEF Launch, Live, IInv, Shape, DecidingInv
  <2>2. /\ launched' = launched \cup {n} /\ handled' = handled \cup chosen[n].handled
        /\ task' = [task EXCEPT ![n] = "running"]
        /\ UNCHANGED <<results, paused, chosen, guards, record, timer, crashes, interrupts>>
        /\ scan' = "scanning" /\ place' = place + 1
    BY <1>9 DEF Launch, recordVars, budgetVars
  <2> HIDE DEF n
  <2>3. chosen[n].handled \subseteq Node
    BY <1>1, <2>1 DEF ChoiceType, Decided
  <2>4. ChoiceType'
    BY <1>1, <1>3, <2>1, <2>2, <2>3 DEF ChoiceType
  <2>5. NodeType' /\ BudgetType'
    BY <1>1, <2>1, <2>2 DEF NodeType, BudgetType
  <2>6. ScanType'
    BY <1>1, <1>2, <1>4, <2>1, <2>2 DEF ScanType
  <2> QED
    BY <1>3, <2>4, <2>5, <2>6, <1>0
<1>10. CASE Collect
  <2> DEFINE completed == {n \in Active : task[n] \in Ended}
  <2>1. /\ results' = [n \in Node |-> IF n \in completed /\ task[n] = "done"
                                      THEN record[n] ELSE results[n]]
        /\ paused' = paused \cup {n \in completed : task[n] = "paused"}
        /\ place' = 1 /\ scan' \in {"scanning", "ending"}
        /\ UNCHANGED <<task, handled, launched, chosen, guards, record, timer,
                       crashes, interrupts>>
    BY <1>10 DEF Collect, recordVars, budgetVars
  <2>2. /\ completed \subseteq launched
        /\ \A n \in completed : results[n] = Unsettled /\ n \notin paused
    BY DEF Active
  <2> HIDE DEF completed
  <2>3. \A n \in Node : task[n] = "done" => record[n] \in Settled
    BY DEF MInv, NodesMeanIt
  <2>4. results' \in [Node -> Settled \cup {Unsettled}]
    BY <1>1, <2>1, <2>3 DEF NodeType
  <2>5. ASSUME NEW n \in Node, results'[n] # Unsettled
        PROVE  record'[n] = results'[n] /\ n \notin paused'
    <3>1. CASE n \in completed /\ task[n] = "done"
      BY <2>1, <2>2, <3>1
    <3>2. CASE ~(n \in completed /\ task[n] = "done")
      <4>1. results'[n] = results[n] /\ results[n] # Unsettled
        BY <2>1, <2>5, <3>2
      <4>2. n \notin completed
        BY <2>2, <4>1
      <4> QED
        BY <1>1, <2>1, <4>1, <4>2 DEF NodeType
    <3> QED
      BY <3>1, <3>2
  <2>6. NodeType'
    BY <1>1, <2>1, <2>2, <2>4, <2>5 DEF NodeType
  <2>7. ChoiceType' /\ BudgetType'
    BY <1>1, <1>3, <2>1 DEF ChoiceType, BudgetType
  <2>8. ScanType'
    BY <1>2, <1>4, <2>1 DEF ScanType
  <2> QED
    BY <1>3, <2>6, <2>7, <2>8, <1>0
<1>11. CASE Report \/ Break
  <2>1. ChoiceType' /\ NodeType' /\ BudgetType' /\ ScanType'
    BY <1>1, <1>3, <1>4, <1>11 DEF Report, Break, ChoiceType, NodeType, BudgetType, ScanType, budgetVars
  <2> QED
    BY <1>3, <2>1, <1>0
<1>12. ASSUME NEW n \in Node, NodeStep(n) \/ Interrupt(n) PROVE TypeOK'
  <2>1. /\ UNCHANGED <<scan, place, results, handled, launched, paused, chosen, guards>>
        /\ crashes' = crashes
        /\ interrupts' = interrupts \/ (interrupts < MaxInterrupts /\ interrupts' = interrupts + 1)
    BY <1>12 DEF NodeStep, Enter, Pause, Finish, Interrupt, Rest, recordVars, budgetVars
  <2>2. \E state \in {"body", "done", "paused", "interrupted", "broken"} :
           task' = [task EXCEPT ![n] = state]
    BY <1>12 DEF NodeStep, Enter, Pause, Finish, Interrupt, Becomes, Ending
  <2>3. task' \in [Node -> {"idle", "running", "body"} \cup Ended]
    BY <1>1, <2>2 DEF NodeType, Ended, Raises
  <2>4. timer' \in [Node -> {"none", "STARTED", "SUCCEEDED"}]
    BY <1>1, <1>12 DEF NodeStep, Enter, Pause, Finish, Interrupt, Rest, recordVars, NodeType
  <2>5. record' \in [Node -> Outcomes \cup {"none", "STARTED"}]
    <3>1. fate[n] \in Outcomes
      BY <1>1 DEF GraphType, Fates, Outcomes, Settled
    <3>2. \/ record' = record
          \/ \E value \in Outcomes \cup {"STARTED"} : record' = [record EXCEPT ![n] = value]
      BY <1>12, <3>1 DEF NodeStep, Enter, Pause, Finish, Interrupt, recordVars, Outcomes,
                         Settled
    <3> QED
      BY <1>1, <3>2 DEF NodeType
  <2>6. \A m \in Node : results[m] # Unsettled => record'[m] = results[m]
    <3>1. ASSUME NEW m \in Node, results[m] # Unsettled PROVE record'[m] = results[m]
      <4>1. results[m] = Truth[m] /\ results[m] \in Settled /\ record[m] = results[m]
        BY <1>1, <3>1 DEF MInv, NodesMeanIt, NodeType
      <4>2. record'[m] \in Outcomes
        <5>1. CASE m = n
          BY <1>1, <1>12, <4>1, <5>1
             DEF NodeStep, Enter, Pause, Finish, Interrupt, recordVars, Outcomes, Settled,
                 NodeType, GraphType, Fates
        <5>2. CASE m # n
          BY <1>1, <1>12, <4>1, <5>2
             DEF NodeStep, Enter, Pause, Finish, Interrupt, recordVars, Outcomes, NodeType
        <5> QED
          BY <5>1, <5>2
      <4>3. record'[m] = Truth'[m]
        BY <4>2 DEF MInv, NodesMeanIt
      <4>4. Truth' = Truth
        BY <1>1, <1>3, <1>12, GraphFrame
           DEF NodeStep, Enter, Pause, Finish, Interrupt, Rest
      <4> QED
        BY <4>1, <4>3, <4>4
    <3> QED
      BY <3>1
  <2>7. NodeType'
    BY <1>1, <2>1, <2>3, <2>4, <2>5, <2>6 DEF NodeType
  <2>8. ChoiceType' /\ ScanType'
    BY <1>1, <1>3, <1>4, <2>1 DEF ChoiceType, ScanType
  <2>9. BudgetType'
    BY <1>1, <2>1, FlowAssumption DEF BudgetType
  <2> QED
    BY <1>3, <2>7, <2>8, <2>9, <1>0
<1>13. ASSUME NEW n \in Node, Elapse(n) PROVE TypeOK'
  <2>1. timer' \in [Node -> {"none", "STARTED", "SUCCEEDED"}]
    BY <1>1, <1>13 DEF Elapse, NodeType
  <2>2. ChoiceType' /\ NodeType' /\ BudgetType' /\ ScanType'
    BY <1>1, <1>3, <1>4, <1>13, <2>1 DEF Elapse, ChoiceType, NodeType, BudgetType, ScanType,
                                         localVars, budgetVars
  <2> QED
    BY <1>3, <2>2, <1>0
<1>14. CASE UNCHANGED vars
  <2>1. ChoiceType' /\ NodeType' /\ BudgetType' /\ ScanType'
    BY <1>1, <1>3, <1>4, <1>14 DEF vars, ChoiceType, NodeType, BudgetType, ScanType,
                                   localVars, recordVars, budgetVars
  <2> QED
    BY <1>3, <2>1, <1>0
<1> QED
  BY <1>5, <1>6, <1>7, <1>8, <1>9, <1>10, <1>11, <1>12, <1>13, <1>14 DEF Next, Schedule

\* Graph, scan, records and tasks keep their types, and what the scheduler holds as
\* a result is what the node's record holds (the results dictionary of execute_plan
\* is filled from the durable outcome of the node's scope).
THEOREM FlowTypeOK == Spec => []TypeOK
  BY FlowInv, SpecM, InitT, NextT, PTL DEF Spec
=============================================================================
