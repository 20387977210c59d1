------------------------------ MODULE Meaning -------------------------------
(***************************************************************************)
(* What a durable program means: the outcome of a handler whose operations  *)
(* each run once, to their end, in one sitting.  A callback or a chained    *)
(* invocation ends the way its record says, for nobody else knows.          *)
(***************************************************************************)
EXTENDS Workflow

End(out, pos, handles) == [out |-> out, pos |-> pos, handles |-> handles]

\* How a step ends: at the first attempt that succeeds, while the policy allows
\* one.  An at-most-once attempt may also have been interrupted, and then it is
\* its record that tells.
FirstEnd(s, ends) ==
    LET n == CHOOSE n \in 1 .. 7 : /\ RunOf(s, n) \in ends \/ n = 7
                                   /\ \A m \in 1 .. n - 1 : RunOf(s, m) \notin ends
    IN <<n, RunOf(s, n)>>

StepEnds(s, a) ==
    LET first == FirstEnd(s, {"ok", "exit_if_new"})
    IN CASE s.op = "condition" ->
              LET end == FirstEnd(s, {"ok"} \cup Errors)[2]
              IN {IF end = "again" THEN "none" ELSE end}
         [] s.op = "step" /\ s.once ->
              {IF In(records, a).status = "SUCCEEDED" THEN "ok" ELSE "callable"}
         [] OTHER -> {IF first[1] <= s.max THEN "ok" ELSE Recorded(RunOf(s, s.max))}

External(a) ==
    CASE In(records, a).status = "SUCCEEDED" -> {"ok"}
      [] In(records, a).status = "FAILED" -> {In(records, a).error}
      [] OTHER -> {}

RECURSIVE BodyEnds(_, _, _, _, _), OperationEnds(_, _), TriesEnd(_, _, _, _)

\* The ends of a body from statement i on, its cursor at pos.
BodyEnds(body, i, a, pos, handles) ==
    IF i > Len(body) THEN {End("ok", pos, handles)}
    ELSE LET s == body[i]
             n == Len(Operations(s))
             ends(k) == OperationEnds(Operations(s)[k], Append(a, pos + k - 1))
             all == CASE s.op = "result" -> External(handles[s.of])
                      [] s.op = "raise" -> {s.error}
                      [] s.op = "log" -> {"ok"}
                      [] OTHER ->
                           (UNION {ends(k) \ {"ok"} : k \in 1 .. n})
                           \cup (IF \A k \in 1 .. n : "ok" \in ends(k) THEN {"ok"} ELSE {})
             after == IF s.op \in {"result", "raise", "log"} THEN pos ELSE pos + n
             held == IF s.op = "callback" THEN Append(handles, Append(a, pos)) ELSE handles
         IN UNION {IF out \in {"ok"} \cup s.catch
                   THEN BodyEnds(body, i + 1, a, after, held)
                   ELSE {End(out, after, held)} : out \in all}

\* with_retry from attempt n on; a plain child has one.
TriesEnd(s, n, a, pos) ==
    UNION {IF e.out # "ok" /\ e.out \notin InvocationErrors /\ n < s.tries
           THEN TriesEnd(s, n + 1, a, e.pos + 1)
           ELSE {e.out} : e \in BodyEnds(s.body, 1, a, pos, <<>>)}

OperationEnds(s, a) ==
    CASE s.op \in {"step", "condition"} -> StepEnds(s, a)
      [] s.op = "invoke" -> External(a)
      [] s.op = "child" -> {IF out = "ok" THEN out ELSE Recorded(out) :
                              out \in TriesEnd(s, 1, a, 1)}
      [] OTHER -> {"ok"}

\* An execution ends as its program does, whatever was interrupted, replayed or
\* reordered on the way: the promise of _effects.py, durable_execution.
ResultIsMeaning ==
    outcome # "none" =>
        LET ends == {e.out : e \in BodyEnds(program, 1, Root, 1, <<>>)}
        IN IF outcome = "ok" THEN "ok" \in ends
           ELSE Recorded(outcome) \in {Recorded(e) : e \in ends \ {"ok"}}
=============================================================================
