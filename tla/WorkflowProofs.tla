--------------------------- MODULE WorkflowProofs ---------------------------
(***************************************************************************)
(* Theorems of Workflow, for any handlers, crashes and answers.             *)
(***************************************************************************)
EXTENDS Workflow, FiniteSetTheorems, SequenceTheorems, TLAPS

----------------------------------------------------------------------------
(* Addresses                                                               *)

Position == Nat \ {0}
Address == Seq(Position)

LEMMA AppendParent ==
    ASSUME NEW a \in Address, NEW k \in Position
    PROVE  /\ Append(a, k) \in Address /\ Append(a, k) # Root /\ Append(a, k) # a
           /\ Len(Append(a, k)) = Len(a) + 1 /\ Append(a, k)[Len(Append(a, k))] = k
           /\ Parent(Append(a, k)) = a
<1> DEFINE b == Append(a, k)
<1>1. /\ b \in Address /\ b # Root /\ Len(b) = Len(a) + 1 /\ Len(a) \in Nat
      /\ b[Len(a) + 1] = k /\ \A i \in 1 .. Len(a) : b[i] = a[i]
  BY AppendProperties, LenProperties DEF Address, Root
<1> HIDE DEF b
<1>2. Parent(b) = SubSeq(b, 1, Len(a))
  BY <1>1 DEF Parent
<1>3. \A i \in 1 .. Len(a) : b[i] \in Position
  BY <1>1, ElementOfSeq DEF Address
<1>4. /\ Parent(b) \in Address /\ Len(Parent(b)) = Len(a)
      /\ \A i \in 1 .. Len(a) : Parent(b)[i] = b[i]
  BY <1>1, <1>2, <1>3, SubSeqProperties DEF Address
<1>5. Parent(b) = a
  BY <1>1, <1>4, SeqEqual DEF Address
<1> QED
  BY <1>1, <1>5 DEF b

LEMMA ParentAppend ==
    ASSUME NEW a \in Address, a # Root
    PROVE  /\ Parent(a) \in Address /\ Parent(a) # a
           /\ a[Len(a)] \in Position /\ Append(Parent(a), a[Len(a)]) = a
<1>1. PICK s \in Address, k \in Position : a = Append(s, k)
  BY SequenceEmptyOrAppend DEF Address, Root
<1> QED
  BY <1>1, AppendParent

LEMMA EmptyMap ==
    ASSUME NEW S
    PROVE  DOMAIN <<>> = {} /\ <<>> \in [{} -> S]
  OBVIOUS

----------------------------------------------------------------------------
(* Types                                                                   *)

Kinds == {"step", "condition", "wait", "invoke", "callback", "child"}
Phases == {"begin", "run", "await", "refused", "back_off", "backing_off", "done"}

RecordSet ==
    [op : Kinds, status : Statuses, attempt : Nat, error : {"none"} \cup Errors,
     parent : Address]

TaskSet ==
    [stmt : OperationsOver(Bodies[program]), parent : Address, phase : Phases,
     out : {"none"} \cup Outcomes, pc : Position, attempt : Position,
     handles : Seq(Address), awaits : SUBSET Address, woken : {"none"} \cup Outcomes,
     entered : BOOLEAN, cursor : BOOLEAN, next : Position, remaining : SUBSET Address,
     replaying : BOOLEAN]

PlaceSet ==
    [phase : {"await", "backing_off"}, attempt : Position, pc : Position,
     part : Position, operation : OperationsOver(Bodies[program])]

MapOf(map, S) == DOMAIN map \subseteq Address /\ map \in [DOMAIN map -> S]

Typed ==
    /\ program \in Workflows
    /\ MapOf(records, RecordSet) /\ MapOf(view, RecordSet)
    /\ MapOf(tasks, TaskSet)
    /\ MapOf(asked, SUBSET PlaceSet) /\ MapOf(told, SUBSET Outcomes)
    /\ journal \in {"open", "failed"}
    /\ invocation \in {"due", "running", "suspended", "lost", "over"}
    /\ stirred \in BOOLEAN
    /\ outcome \in {"none", "ok"} \cup Errors
    /\ (outcome # "none") = (invocation = "over")
    /\ crashes \in Nat

\* What an invocation knows of: nothing when there is none, else the records as of
\* its last answer, and since then only the world has moved.
Known ==
    /\ DOMAIN view \subseteq DOMAIN records /\ Root \notin DOMAIN records
    /\ invocation # "running" => tasks = <<>>
    /\ invocation = "running" => /\ DOMAIN view = DOMAIN records
                                 /\ ~stirred => view = records
                                 /\ Root \in DOMAIN tasks
                                 /\ tasks[Root].stmt = Child(program)

\* The statements that reserve nothing.
Plain == {"result", "raise", "log"}
Body(a) == tasks[a].stmt.body
Children(a) == {b \in DOMAIN tasks : b # Root /\ Parent(b) = a}

\* A task by its phase.
Shape(a) ==
    /\ (tasks[a].phase = "done") = (tasks[a].out # "none")
    /\ tasks[a].phase = "run" => Kind(a) \in {"step", "condition", "child"}
    /\ tasks[a].phase \in {"await", "refused", "back_off", "backing_off"} => IsScope(a)
    /\ IsScope(a) => tasks[a].pc <= Len(Body(a)) + 1
    /\ tasks[a].phase \in {"await", "refused", "back_off", "backing_off"} =>
          tasks[a].pc <= Len(Body(a))
    /\ tasks[a].phase \in {"await", "refused"} => Statement(a).op \notin Plain
    /\ tasks[a].awaits \subseteq Children(a)
    /\ tasks[a].phase \in {"begin", "run"} => tasks[a].awaits = {} /\ tasks[a].woken = "none"
    /\ tasks[a].phase = "begin" => tasks[a].next = 1 /\ tasks[a].pc = 1
    /\ a = Root => tasks[a].phase \in {"run", "await", "refused"}

\* A task and the scope it is in.
Nested(a) ==
    a # Root => /\ Parent(a) \in DOMAIN tasks /\ IsScope(Parent(a))
                /\ a[Len(a)] < tasks[Parent(a)].next
                /\ tasks[a].parent = Persisted(Parent(a))
                /\ a \in DOMAIN asked
                /\ \E place \in asked[a] : place.operation = tasks[a].stmt

\* What a scope awaits is what it has reserved last, and it hears of the first of
\* them that does not succeed.
Hears(a) ==
    /\ \A b \in tasks[a].awaits :
          tasks[b].out \notin {"none", "ok"} => tasks[a].woken # "none"
    /\ tasks[a].woken # "none" =>
          /\ tasks[a].woken # "ok"
          /\ \E b \in tasks[a].awaits : tasks[b].out = tasks[a].woken
Last(a, operations) ==
    LET first == tasks[a].next - Len(operations) IN
    /\ first \in Position
    /\ tasks[a].awaits = {Append(a, first + i - 1) : i \in 1 .. Len(operations)}
    /\ \A i \in 1 .. Len(operations) : tasks[Append(a, first + i - 1)].stmt = operations[i]
Awaits(a) ==
    /\ tasks[a].phase = "await" => Last(a, Operations(Statement(a)))
    /\ tasks[a].phase = "backing_off" => Last(a, <<Wait>>)

\* A callback is there when its record is.
Handle(a) ==
    Kind(a) = "callback" => /\ tasks[a].out \in {"none", "ok", "state"}
                            /\ tasks[a].out = "ok" => a \in DOMAIN records

\* The callbacks a body has in hand are those it has created.
HandlesIn(a) ==
    LET created == Created(Body(a), tasks[a].pc) IN
    /\ IsScope(a) /\ (\A j \in created : "state" \notin Body(a)[j].catch)
           => Cardinality(created) <= Len(tasks[a].handles)
    /\ \A j \in DOMAIN tasks[a].handles :
          LET b == tasks[a].handles[j] IN
          /\ b \in DOMAIN tasks /\ tasks[b].phase = "done"
          /\ b \in DOMAIN records /\ records[b].op = "callback"

Formed == \A a \in DOMAIN tasks : Shape(a) /\ Nested(a)
Heard == \A a \in DOMAIN tasks : Hears(a) /\ Awaits(a)
HandlesFormed == \A a \in DOMAIN tasks : Handle(a) /\ HandlesIn(a)

\* The kinds of the records, which those of the tasks agree with.
RecordFits(r) ==
    /\ r.op \in {"wait", "invoke", "callback", "child"} => r.status \notin {"PENDING", "READY"}
    /\ r.op = "wait" => r.status # "FAILED"
    /\ r.status = "FAILED" => r.error \in Errors /\ Recorded(r.error) = r.error
KindsFit ==
    /\ \A a \in DOMAIN records : RecordFits(records[a])
    /\ \A a \in DOMAIN view : RecordFits(view[a])
    /\ \A a \in DOMAIN view : view[a].op = records[a].op
    /\ \A a \in DOMAIN tasks \cap DOMAIN records : records[a].op = Kind(a)

\* A pause is backed by something that will end, and that no task of this
\* invocation is at work on.
Open(r) ==
    \/ r.status = "PENDING"
    \/ r.status = "STARTED" /\ r.op \in {"wait", "callback", "invoke"}
Backed ==
    \/ stirred
    \/ \E b \in DOMAIN records : /\ Open(records[b])
                                 /\ b \in DOMAIN tasks /\ tasks[b].phase = "done"
Pauses ==
    /\ (\E a \in DOMAIN tasks : "pause" \in {tasks[a].out, tasks[a].woken}) => Backed
    /\ PendingIsBacked

WInv == Typed /\ Known /\ Formed /\ Heard /\ HandlesFormed /\ KindsFit /\ Pauses

----------------------------------------------------------------------------
(* The ways a step changes the tasks                                       *)

\* The task of a ends with out, and its scope may hear of it.
Finishes(a, out) ==
    LET hears == /\ out # "ok" /\ a \in tasks[Parent(a)].awaits
                 /\ tasks[Parent(a)].woken = "none"
    IN \E r \in BOOLEAN :
          tasks' = [b \in DOMAIN tasks |->
              IF b = a THEN [tasks[b] EXCEPT !.phase = "done", !.out = out]
              ELSE IF b = Parent(a)
              THEN [tasks[b] EXCEPT !.woken = IF hears THEN out ELSE tasks[b].woken,
                                    !.replaying = r]
              ELSE tasks[b]]

\* The task of a begins to run.
GoesOn(a) ==
    \E e, r, q \in BOOLEAN :
        tasks' = [b \in DOMAIN tasks |->
            IF b = a THEN [tasks[b] EXCEPT !.phase = "run", !.entered = e, !.replaying = r]
            ELSE IF b = Parent(a) THEN [tasks[b] EXCEPT !.replaying = q]
            ELSE tasks[b]]

\* The body of a goes on with its next statement.
Proceeds(a, handles) ==
    tasks' = [tasks EXCEPT ![a] = [tasks[a] EXCEPT !.phase = "run", !.pc = tasks[a].pc + 1,
                                      !.awaits = {}, !.woken = "none", !.handles = handles]]

BacksOff(a) == tasks' = [tasks EXCEPT ![a] = [tasks[a] EXCEPT !.phase = "back_off"]]

\* The body of a runs again from its start.
Restarts(a) ==
    tasks' = [tasks EXCEPT ![a] = [tasks[a] EXCEPT !.phase = "run", !.pc = 1,
                                      !.attempt = tasks[a].attempt + 1, !.handles = <<>>,
                                      !.awaits = {}, !.woken = "none"]]

LEMMA OwnerIs ==
    ASSUME Typed, Formed, NEW a \in DOMAIN tasks, a # Root
    PROVE  /\ a \in Address /\ Parent(a) \in DOMAIN tasks /\ Parent(a) # a
           /\ IsScope(Parent(a))
  BY ParentAppend DEF Typed, MapOf, Formed, Nested

LEMMA FinishesBy ==
    ASSUME Typed, Formed, NEW a \in DOMAIN tasks, a # Root, NEW out \in Outcomes,
           NEW ts \in {tasks, Consumed(a)}, tasks' = Done(ts, a, out)
    PROVE  Finishes(a, out)
<1> DEFINE p == Parent(a)
<1>1. p \in DOMAIN tasks /\ p # a
  BY OwnerIs
<1>2. tasks \in [DOMAIN tasks -> TaskSet] /\ tasks[a] \in TaskSet /\ tasks[p] \in TaskSet
  BY <1>1 DEF Typed, MapOf
<1>3. PICK r \in BOOLEAN : ts = [b \in DOMAIN tasks |->
                              IF b = p THEN [tasks[p] EXCEPT !.replaying = r] ELSE tasks[b]]
  <2>1. CASE ts = tasks
    <3>1. tasks[p].replaying \in BOOLEAN /\ tasks[p] = [tasks[p] EXCEPT !.replaying = tasks[p].replaying]
      BY <1>2 DEF TaskSet
    <3> QED
      BY <1>1, <1>2, <2>1, <3>1
  <2>2. CASE ts = Consumed(a)
    <3> DEFINE r == tasks[p].replaying /\ tasks[p].remaining # {}
    <3>1. r \in BOOLEAN
      OBVIOUS
    <3>2. ts = [tasks EXCEPT ![p] = [tasks[p] EXCEPT !.replaying = r]]
      BY <1>1, <1>2, <2>2 DEF Consumed
    <3> HIDE DEF r
    <3> QED
      BY <1>1, <1>2, <3>1, <3>2
  <2> QED
    BY <2>1, <2>2
<1>4. /\ ts[p] = [tasks[p] EXCEPT !.replaying = r] /\ ts[a] = tasks[a]
      /\ DOMAIN ts = DOMAIN tasks
  BY <1>1, <1>3
<1>5. ts[p].awaits = tasks[p].awaits /\ ts[p].woken = tasks[p].woken
  BY <1>2, <1>4 DEF TaskSet
<1> DEFINE hears == out # "ok" /\ a \in tasks[p].awaits /\ tasks[p].woken = "none"
           ended == [tasks[a] EXCEPT !.phase = "done", !.out = out]
           heard == [tasks[p] EXCEPT !.woken = IF hears THEN out ELSE tasks[p].woken,
                                     !.replaying = r]
<1>6. tasks' = IF hears THEN [[ts EXCEPT ![a] = ended] EXCEPT ![p] = [ts[p] EXCEPT !.woken = out]]
               ELSE [ts EXCEPT ![a] = ended]
  <2>1. [ts EXCEPT ![a].phase = "done", ![a].out = out] = [ts EXCEPT ![a] = ended]
    BY <1>1, <1>2, <1>3, <1>4
  <2>2. [[ts EXCEPT ![a] = ended] EXCEPT ![p].woken = out]
        = [[ts EXCEPT ![a] = ended] EXCEPT ![p] = [ts[p] EXCEPT !.woken = out]]
    BY <1>1, <1>3
  <2> HIDE DEF ended
  <2> QED
    BY <1>5, <2>1, <2>2 DEF Done
<1>7. hears => [ts[p] EXCEPT !.woken = out] = heard
  BY <1>2, <1>4 DEF TaskSet
<1>8. ~hears => ts[p] = heard
  BY <1>2, <1>4 DEF TaskSet
<1>9. tasks' = [b \in DOMAIN tasks |-> IF b = a THEN ended ELSE IF b = p THEN heard ELSE tasks[b]]
  <2> HIDE DEF ended, heard, hears
  <2>1. CASE hears
    BY <1>1, <1>3, <1>4, <1>6, <1>7, <2>1
  <2>2. CASE ~hears
    BY <1>1, <1>3, <1>4, <1>6, <1>8, <2>2
  <2> QED
    BY <2>1, <2>2
<1> QED
  BY <1>1, <1>9 DEF Finishes

\* What these ways leave as it was.
Fixed(b) ==
    /\ tasks'[b].stmt = tasks[b].stmt /\ tasks'[b].parent = tasks[b].parent
    /\ tasks'[b].next = tasks[b].next /\ tasks'[b].attempt = tasks[b].attempt
    /\ tasks'[b].handles = tasks[b].handles /\ tasks'[b].awaits = tasks[b].awaits
    /\ tasks'[b].pc = tasks[b].pc /\ tasks'[b].cursor = tasks[b].cursor
    /\ tasks'[b].remaining = tasks[b].remaining

LEMMA FinishesFields ==
    ASSUME Typed, Formed, NEW a \in DOMAIN tasks, a # Root, NEW out \in Outcomes,
           Finishes(a, out)
    PROVE  /\ DOMAIN tasks' = DOMAIN tasks /\ tasks' \in [DOMAIN tasks -> TaskSet]
           /\ \A b \in DOMAIN tasks : Fixed(b)
           /\ \A b \in DOMAIN tasks \ {a} :
                 tasks'[b].phase = tasks[b].phase /\ tasks'[b].out = tasks[b].out
           /\ tasks'[a].phase = "done" /\ tasks'[a].out = out
           /\ \A b \in DOMAIN tasks \ {Parent(a)} :
                 tasks'[b].woken = tasks[b].woken /\ tasks'[b].replaying = tasks[b].replaying
           /\ tasks'[Parent(a)].woken =
                 IF /\ out # "ok" /\ a \in tasks[Parent(a)].awaits
                    /\ tasks[Parent(a)].woken = "none"
                 THEN out ELSE tasks[Parent(a)].woken
           /\ \A b \in DOMAIN tasks : tasks'[b].entered = tasks[b].entered
<1> DEFINE p == Parent(a)
<1>1. p \in DOMAIN tasks /\ p # a
  BY OwnerIs
<1>2. \A b \in DOMAIN tasks : tasks[b] \in TaskSet
  BY DEF Typed, MapOf
<1> DEFINE w == IF /\ out # "ok" /\ a \in tasks[p].awaits /\ tasks[p].woken = "none"
                THEN out ELSE tasks[p].woken
<1>3. w \in {"none"} \cup Outcomes
  BY <1>1, <1>2 DEF TaskSet
<1>4. PICK r \in BOOLEAN :
         tasks' = [b \in DOMAIN tasks |->
              IF b = a THEN [tasks[b] EXCEPT !.phase = "done", !.out = out]
              ELSE IF b = p THEN [tasks[b] EXCEPT !.woken = w, !.replaying = r]
              ELSE tasks[b]]
  BY DEF Finishes
<1> HIDE DEF w
<1>5. /\ tasks'[a] = [tasks[a] EXCEPT !.phase = "done", !.out = out]
      /\ tasks'[p] = [tasks[p] EXCEPT !.woken = w, !.replaying = r]
      /\ \A b \in DOMAIN tasks \ {a, p} : tasks'[b] = tasks[b]
      /\ DOMAIN tasks' = DOMAIN tasks
  BY <1>1, <1>4
<1>6. tasks'[a] \in TaskSet /\ tasks'[p] \in TaskSet
  <2>1. [tasks[a] EXCEPT !.phase = "done", !.out = out] \in TaskSet
    BY <1>2 DEF TaskSet, Phases
  <2>2. [tasks[p] EXCEPT !.woken = w, !.replaying = r] \in TaskSet
    BY <1>1, <1>2, <1>3 DEF TaskSet
  <2> QED
    BY <1>5, <2>1, <2>2
<1>7. \A b \in DOMAIN tasks : tasks'[b] \in TaskSet
  BY <1>2, <1>5, <1>6
<1>8. tasks' \in [DOMAIN tasks -> TaskSet]
  BY <1>4, <1>7
<1>9. Fixed(a) /\ tasks'[a].phase = "done" /\ tasks'[a].out = out
      /\ tasks'[a].woken = tasks[a].woken /\ tasks'[a].replaying = tasks[a].replaying
      /\ tasks'[a].entered = tasks[a].entered
  BY <1>2, <1>5 DEF TaskSet, Fixed
<1>10. Fixed(p) /\ tasks'[p].phase = tasks[p].phase /\ tasks'[p].out = tasks[p].out
       /\ tasks'[p].woken = w /\ tasks'[p].entered = tasks[p].entered
  BY <1>1, <1>2, <1>5 DEF TaskSet, Fixed
<1>11. \A b \in DOMAIN tasks \ {a, p} : Fixed(b)
  BY <1>5 DEF Fixed
<1> QED
  BY <1>1, <1>5, <1>8, <1>9, <1>10, <1>11 DEF w

LEMMA GoesOnFields ==
    ASSUME Typed, Formed, NEW a \in DOMAIN tasks, a # Root, GoesOn(a)
    PROVE  /\ DOMAIN tasks' = DOMAIN tasks /\ tasks' \in [DOMAIN tasks -> TaskSet]
           /\ \A b \in DOMAIN tasks : Fixed(b) /\ tasks'[b].out = tasks[b].out
                                      /\ tasks'[b].woken = tasks[b].woken
           /\ \A b \in DOMAIN tasks \ {a} : tasks'[b].phase = tasks[b].phase
           /\ tasks'[a].phase = "run"
<1> DEFINE p == Parent(a)
<1>1. p \in DOMAIN tasks /\ p # a
  BY OwnerIs
<1>2. \A b \in DOMAIN tasks : tasks[b] \in TaskSet
  BY DEF Typed, MapOf
<1>4. PICK e \in BOOLEAN, r \in BOOLEAN, q \in BOOLEAN :
        tasks' = [b \in DOMAIN tasks |->
            IF b = a THEN [tasks[b] EXCEPT !.phase = "run", !.entered = e, !.replaying = r]
            ELSE IF b = p THEN [tasks[b] EXCEPT !.replaying = q]
            ELSE tasks[b]]
  BY DEF GoesOn
<1>5. /\ tasks'[a] = [tasks[a] EXCEPT !.phase = "run", !.entered = e, !.replaying = r]
      /\ tasks'[p] = [tasks[p] EXCEPT !.replaying = q]
      /\ \A b \in DOMAIN tasks \ {a, p} : tasks'[b] = tasks[b]
      /\ DOMAIN tasks' = DOMAIN tasks
  BY <1>1, <1>4
<1>6. tasks'[a] \in TaskSet /\ tasks'[p] \in TaskSet
  <2>1. [tasks[a] EXCEPT !.phase = "run", !.entered = e, !.replaying = r] \in TaskSet
    BY <1>2 DEF TaskSet, Phases
  <2>2. [tasks[p] EXCEPT !.replaying = q] \in TaskSet
    BY <1>1, <1>2 DEF TaskSet
  <2> QED
    BY <1>5, <2>1, <2>2
<1>7. \A b \in DOMAIN tasks : tasks'[b] \in TaskSet
  BY <1>2, <1>5, <1>6
<1>8. tasks' \in [DOMAIN tasks -> TaskSet]
  BY <1>4, <1>7
<1>9. Fixed(a) /\ tasks'[a].phase = "run" /\ tasks'[a].out = tasks[a].out
      /\ tasks'[a].woken = tasks[a].woken
  BY <1>2, <1>5 DEF TaskSet, Fixed
<1>10. Fixed(p) /\ tasks'[p].phase = tasks[p].phase /\ tasks'[p].out = tasks[p].out
       /\ tasks'[p].woken = tasks[p].woken
  BY <1>1, <1>2, <1>5 DEF TaskSet, Fixed
<1>11. \A b \in DOMAIN tasks \ {a, p} : Fixed(b) /\ tasks'[b] = tasks[b]
  BY <1>5 DEF Fixed
<1> QED
  BY <1>1, <1>5, <1>8, <1>9, <1>10, <1>11

LEMMA ProceedsFields ==
    ASSUME Typed, NEW a \in DOMAIN tasks, NEW handles \in Seq(Address), Proceeds(a, handles)
    PROVE  /\ DOMAIN tasks' = DOMAIN tasks /\ tasks' \in [DOMAIN tasks -> TaskSet]
           /\ \A b \in DOMAIN tasks \ {a} : tasks'[b] = tasks[b]
           /\ tasks'[a].phase = "run" /\ tasks'[a].pc = tasks[a].pc + 1
           /\ tasks'[a].awaits = {} /\ tasks'[a].woken = "none"
           /\ tasks'[a].handles = handles /\ tasks'[a].stmt = tasks[a].stmt
           /\ tasks'[a].parent = tasks[a].parent /\ tasks'[a].out = tasks[a].out
           /\ tasks'[a].next = tasks[a].next /\ tasks'[a].attempt = tasks[a].attempt
<1>1. tasks \in [DOMAIN tasks -> TaskSet] /\ tasks[a] \in TaskSet
  BY DEF Typed, MapOf
<1>2. [tasks[a] EXCEPT !.phase = "run", !.pc = tasks[a].pc + 1, !.awaits = {},
                       !.woken = "none", !.handles = handles] \in TaskSet
  <2>1. tasks[a].pc + 1 \in Position /\ {} \in SUBSET Address
    BY <1>1 DEF TaskSet, Position
  <2> QED
    BY <1>1, <2>1 DEF TaskSet, Phases
<1> QED
  BY <1>1, <1>2 DEF Proceeds, TaskSet

LEMMA BacksOffFields ==
    ASSUME Typed, NEW a \in DOMAIN tasks, BacksOff(a)
    PROVE  /\ DOMAIN tasks' = DOMAIN tasks /\ tasks' \in [DOMAIN tasks -> TaskSet]
           /\ \A b \in DOMAIN tasks \ {a} : tasks'[b] = tasks[b]
           /\ tasks'[a].phase = "back_off" /\ Fixed(a) /\ tasks'[a].out = tasks[a].out
           /\ tasks'[a].woken = tasks[a].woken
<1>1. tasks \in [DOMAIN tasks -> TaskSet] /\ tasks[a] \in TaskSet
  BY DEF Typed, MapOf
<1>2. [tasks[a] EXCEPT !.phase = "back_off"] \in TaskSet
  BY <1>1 DEF TaskSet, Phases
<1> QED
  BY <1>1, <1>2 DEF BacksOff, TaskSet, Fixed

LEMMA RestartsFields ==
    ASSUME Typed, NEW a \in DOMAIN tasks, Restarts(a)
    PROVE  /\ DOMAIN tasks' = DOMAIN tasks /\ tasks' \in [DOMAIN tasks -> TaskSet]
           /\ \A b \in DOMAIN tasks \ {a} : tasks'[b] = tasks[b]
           /\ tasks'[a].phase = "run" /\ tasks'[a].pc = 1
           /\ tasks'[a].awaits = {} /\ tasks'[a].woken = "none"
           /\ tasks'[a].handles = <<>> /\ tasks'[a].stmt = tasks[a].stmt
           /\ tasks'[a].parent = tasks[a].parent /\ tasks'[a].out = tasks[a].out
           /\ tasks'[a].next = tasks[a].next /\ tasks'[a].attempt = tasks[a].attempt + 1
<1>1. tasks \in [DOMAIN tasks -> TaskSet] /\ tasks[a] \in TaskSet
  BY DEF Typed, MapOf
<1>2. [tasks[a] EXCEPT !.phase = "run", !.pc = 1, !.attempt = tasks[a].attempt + 1,
                       !.handles = <<>>, !.awaits = {}, !.woken = "none"] \in TaskSet
  <2>1. <<>> \in Seq(Address) /\ tasks[a].attempt + 1 \in Position /\ 1 \in Position
    BY <1>1 DEF TaskSet, Position
  <2> QED
    BY <1>1, <2>1 DEF TaskSet, Phases
<1> QED
  BY <1>1, <1>2 DEF Restarts, TaskSet

----------------------------------------------------------------------------
(* The ways of a step                                                      *)

\* The outcome a final record stands for, and what a scope raises for the end of its
\* body.
EndOf(r) == IF r.status = "SUCCEEDED" THEN "ok" ELSE r.error
Raised(o) ==
    IF o \in {"ok", "pause"} \cup InvocationErrors \cup ExecutionErrors THEN o
    ELSE Recorded(o)

\* What a statement that starts nothing comes to.
ReadOf(a) ==
    IF Statement(a).op = "raise" THEN Statement(a).error
    ELSE ResultOf(tasks[a].handles[Statement(a).of])

\* The body of a comes to o, and nothing in it takes o up.
Fails(a, o) ==
    /\ \/ Running(a, "refused") /\ o = "state"
       \/ Ready(a) /\ Statement(a).op \in {"result", "raise"} /\ o = ReadOf(a)
       \/ Running(a, "await") /\ o = Awaited(a)
    /\ o \notin {"none", "ok"} \cup Statement(a).catch
Comes(a, o) ==
    \/ Running(a, "run") /\ IsScope(a) /\ tasks[a].pc > Len(Body(a)) /\ o = "ok"
    \/ Fails(a, o) /\ (a = Root \/ ~Retries(a, o))
    \/ Running(a, "back_off") /\ Changed(a, <<Wait>>) /\ o = "state"
    \/ Running(a, "backing_off") /\ o = Awaited(a) /\ o \notin {"none", "ok"}

\* The end of the task of a.
Ending(a, out) ==
    /\ invocation = "running" /\ a # Root /\ tasks[a].phase # "done" /\ out \in Outcomes
    /\ Finishes(a, out) /\ Tell(a, out)
    /\ Kind(a) = "callback" => /\ out \in {"ok", "state"}
                               /\ out = "ok" => a \in DOMAIN records'
    /\ out = "pause" => Backed \/ (a \in DOMAIN records' /\ Open(records'[a]))

\* An update of the record of a, and what the task is told when it ends with it.
Writes(a, r) ==
    LET parent == Persisted(Parent(a)) IN
    /\ invocation = "running" /\ a # Root /\ tasks[a].phase # "done"
    /\ r \in RecordSet /\ r.op = Kind(a) /\ RecordFits(r) /\ r.parent = parent
    /\ journal = "open" /\ ~Final(In(records, a).status)
    /\ parent # Root => In(records, parent).status = "STARTED"
    /\ records' = With(records, Only(a, r)) /\ view' = records'
    /\ UNCHANGED <<program, outcome, stirred, journal, invocation, crashes, asked, logged>>
Agrees(a, r, out) ==
    /\ r.status = "SUCCEEDED" => out = "ok"
    /\ r.status = "FAILED" =>
          /\ out \in Errors /\ Recorded(out) = r.error
          /\ \/ out = r.error
             \/ r.op = "condition" /\ out \notin Retryable
             \/ r.op = "step" /\ tasks[a].stmt.once /\ out = "interrupted"
    /\ ~Final(r.status) => \/ out = "pause" /\ Open(r)
                           \/ out = "ok" /\ r.op = "callback"
Commits(a) ==
    \E r \in RecordSet, out \in Outcomes :
        /\ Writes(a, r) /\ Agrees(a, r, out) /\ Ending(a, out)
        /\ IsScope(a) => \E o \in Outcomes : Comes(a, o) /\ out = Raised(o)

\* The service refuses an update, or has refused one.
Expected(a) ==
    IF tasks[a].phase = "begin" /\ Seen(a).status \in {"none", "READY"}
    THEN {"none", "READY"} ELSE {"STARTED", "READY"}
Due(a) ==
    tasks[a].phase = "begin" => \/ Seen(a).status \in {"none", "READY"}
                                \/ Seen(a).status = "STARTED" /\ IsStep(a)
Rejects(a) ==
    /\ Due(a)
    /\ \/ journal = "failed"
       \/ /\ Persisted(Parent(a)) # Root
          /\ In(records, Persisted(Parent(a))).status # "STARTED"
       \/ In(records, a).status \notin Expected(a)
    /\ Ending(a, "state")
    /\ journal' = "failed"
    /\ UNCHANGED <<program, serviceVars, view, invocation, crashes, asked, logged>>

\* The task of a ends without an update.
Gives(a, out) ==
    \/ /\ tasks[a].phase = "begin" /\ a \in DOMAIN view
       /\ \/ Final(view[a].status) /\ out = EndOf(view[a])
          \/ Open(view[a]) /\ out = "pause"
          \/ Kind(a) = "callback" /\ out = "ok"
    \/ /\ tasks[a].phase = "run" /\ IsStep(a)
       /\ out = RunOf(tasks[a].stmt, Seen(a).attempt + 1)
       /\ out \in InvocationErrors \cup (ExecutionErrors \ {"condition"})
    \/ /\ IsScope(a)
       /\ \E o \in Outcomes : /\ Comes(a, o) /\ out = Raised(o)
                              /\ o \in {"pause"} \cup Retryable \/ tasks[a].stmt.virtual
Delivers(a) ==
    /\ \E out \in Outcomes : Gives(a, out) /\ Ending(a, out)
    /\ UNCHANGED <<program, serviceVars, view, journal, invocation, crashes, asked, logged>>

\* The task of a begins to run, with an update or without.
Begins(a) ==
    /\ invocation = "running" /\ a # Root /\ tasks[a].phase = "begin"
    /\ IsStep(a) \/ IsScope(a)
    /\ GoesOn(a) /\ UNCHANGED told
Starts(a) ==
    Begins(a) /\ \E r \in RecordSet : r.status = "STARTED" /\ Writes(a, r)
Enters(a) ==
    /\ Begins(a)
    /\ \/ a \in DOMAIN view /\ view[a].status = "STARTED"
       \/ IsScope(a) /\ tasks[a].stmt.virtual
    /\ UNCHANGED <<program, serviceVars, view, journal, invocation, crashes, asked, logged>>
Exits == Lost /\ UNCHANGED crashes

\* The body of a goes on; a callback it has created is one it may read.
Passes(a, o, handles) ==
    \/ /\ handles = tasks[a].handles
       /\ Statement(a).op = "callback" => "state" \in Statement(a).catch /\ o # "ok"
    \/ /\ Statement(a).op = "callback"
       /\ \E b \in tasks[a].awaits :
             /\ handles = Append(tasks[a].handles, b)
             /\ tasks[b].phase = "done" /\ b \in DOMAIN records
             /\ records[b].op = "callback"
\* What makes it go on.
GoodFor(a, o) ==
    /\ \/ Running(a, "refused") /\ o = "state"
       \/ Ready(a) /\ Statement(a).op \in {"result", "raise"} /\ o = ReadOf(a)
       \/ Ready(a) /\ Statement(a).op = "log" /\ o = "ok"
       \/ Running(a, "await") /\ o = Awaited(a)
    /\ o \in {"ok"} \cup Statement(a).catch
Moves(a) ==
    /\ IsScope(a) /\ tasks[a].phase \in {"run", "await", "refused"} /\ tasks[a].pc <= Len(Body(a))
    /\ \E o \in Outcomes :
          /\ GoodFor(a, o)
          /\ \E handles \in Seq(Address) : Passes(a, o, handles) /\ Proceeds(a, handles)
    /\ UNCHANGED <<program, serviceVars, view, journal, invocation, crashes, asked, told>>
    /\ invocation = "running"

\* with_retry backs off, and tries again.
Retires(a) ==
    /\ a # Root /\ IsScope(a) /\ tasks[a].phase \in {"run", "await", "refused"}
    /\ tasks[a].pc <= Len(Body(a)) /\ invocation = "running"
    /\ \E o \in Outcomes : Fails(a, o) /\ Retries(a, o)
    /\ BacksOff(a)
    /\ UNCHANGED <<program, serviceVars, view, journal, invocation, crashes, asked, told,
                   logged>>
Repeats(a) ==
    /\ Running(a, "backing_off") /\ Awaited(a) = "ok" /\ Restarts(a)
    /\ UNCHANGED <<program, serviceVars, view, journal, invocation, crashes, asked, told,
                   logged>>
Opens(a) ==
    /\ invocation = "running"
    /\ \/ /\ Ready(a) /\ Statement(a).op \notin Plain
          /\ ~Changed(a, Operations(Statement(a)))
          /\ Launch(a, Operations(Statement(a)), "await")
       \/ /\ Ready(a) /\ Statement(a).op \notin Plain
          /\ \E n \in 0 .. Len(Operations(Statement(a))) - 1 :
                LET before == SubSeq(Operations(Statement(a)), 1, n)
                IN /\ ~Changed(a, before)
                   /\ Changes(a, Operations(Statement(a))[n + 1], tasks[a].next + n)
                   /\ Launch(a, before, "refused")
       \/ /\ Running(a, "back_off") /\ ~Changed(a, <<Wait>>)
          /\ Launch(a, <<Wait>>, "backing_off")
    /\ UNCHANGED <<program, serviceVars, view, journal, invocation, crashes, told, logged>>
Finally(a) == a = Root /\ \E o \in Outcomes : Comes(a, o) /\ HandlerEnds(o)

Way(a) ==
    \/ Commits(a) \/ Rejects(a) \/ Delivers(a) \/ Starts(a) \/ Enters(a) \/ Exits
    \/ Moves(a) \/ Retires(a) \/ Repeats(a) \/ Opens(a) \/ Finally(a)

----------------------------------------------------------------------------
(* Every step of a task goes one of these ways                             *)

LEMMA RecordedErrors ==
    /\ \A e \in Errors : Recorded(e) \in Errors /\ Recorded(Recorded(e)) = Recorded(e)
    /\ \A o \in Outcomes : Raised(o) \in Outcomes
    /\ \A e \in Errors : Raised(e) \in Errors /\ Recorded(Raised(e)) = Recorded(e)
    /\ \A e \in Errors : e # "ok" /\ e # "pause" /\ e # "none"
    /\ \A r : RecordFits(r) /\ Final(r.status) => EndOf(r) \in Outcomes \ {"pause"}
  BY DEF Recorded, Errors, Outcomes, Raised, InvocationErrors, Retryable, ExecutionErrors,
         Others, RecordFits, Final, EndOf

\* The record of a task that has one.
LEMMA SeenIs ==
    ASSUME Typed, Known, Formed, KindsFit, invocation = "running", NEW a \in DOMAIN tasks
    PROVE  /\ a \in Address /\ tasks[a] \in TaskSet
           /\ a \in DOMAIN view =>
                 /\ a # Root /\ Seen(a) = view[a] /\ view[a] \in RecordSet
                 /\ view[a].op = Kind(a) /\ RecordFits(view[a])
                 /\ a \in DOMAIN records /\ records[a].op = Kind(a)
           /\ a \notin DOMAIN view => /\ Seen(a) = Absent /\ a \notin DOMAIN records
           /\ Seen(a).attempt \in Nat /\ Seen(a).status \in {"none"} \cup Statuses
           /\ (Seen(a).status = "none") = (a \notin DOMAIN view)
<1>1. a \in Address /\ tasks[a] \in TaskSet
  BY DEF Typed, MapOf
<1>2. DOMAIN view = DOMAIN records /\ Root \notin DOMAIN records
  BY DEF Known
<1>3. CASE a \in DOMAIN view
  <2>1. view[a] \in RecordSet /\ Seen(a) = view[a]
    BY <1>3 DEF Typed, MapOf, Seen, In
  <2>2. RecordFits(view[a]) /\ view[a].op = records[a].op /\ records[a].op = Kind(a)
    BY <1>2, <1>3 DEF KindsFit
  <2>3. view[a].attempt \in Nat /\ view[a].status \in Statuses
    BY <2>1 DEF RecordSet
  <2> QED
    BY <1>1, <1>2, <1>3, <2>1, <2>2, <2>3 DEF Statuses
<1>4. CASE a \notin DOMAIN view
  BY <1>1, <1>2, <1>4 DEF Seen, In, Absent
<1> QED
  BY <1>3, <1>4

LEMMA OperationIs ==
    ASSUME Typed, NEW a \in DOMAIN tasks
    PROVE  /\ Kind(a) \in Kinds
           /\ IsStep(a) => /\ tasks[a].stmt.runs \in Seq(AttemptEnds) /\ tasks[a].stmt.runs # <<>>
                           /\ tasks[a].stmt.once \in BOOLEAN
                           /\ \A n \in Nat \ {0} : RunOf(tasks[a].stmt, n) \in AttemptEnds
           /\ IsStep(a) /\ tasks[a].stmt.once => Kind(a) = "step"
           /\ IsScope(a) => /\ tasks[a].stmt.body \in Bodies[program]
                            /\ tasks[a].stmt.virtual \in BOOLEAN
                            /\ tasks[a].stmt.tries \in Nat
                            /\ tasks[a].stmt.body \in Seq(StatementsOver(Bodies[program]))
<1>1. tasks[a].stmt \in OperationsOver(Bodies[program]) /\ program \in Workflows
  BY DEF Typed, MapOf, TaskSet
<1>2. Kind(a) \in Kinds
  BY <1>1 DEF OperationsOver, Kind, Kinds
<1>3. IsStep(a) => /\ tasks[a].stmt.runs \in Seq(AttemptEnds) /\ tasks[a].stmt.runs # <<>>
                   /\ tasks[a].stmt.once \in BOOLEAN
  BY <1>1 DEF OperationsOver, Kind, IsStep
<1>4. ASSUME IsStep(a), NEW n \in Nat \ {0}
      PROVE  RunOf(tasks[a].stmt, n) \in AttemptEnds
  <2> DEFINE runs == tasks[a].stmt.runs
  <2>1. runs \in Seq(AttemptEnds) /\ Len(runs) \in Nat \ {0}
    BY <1>3, <1>4, EmptySeq, LenProperties
  <2>2. \A i \in 1 .. Len(runs) : runs[i] \in AttemptEnds
    BY <2>1, ElementOfSeq
  <2> QED
    BY <2>1, <2>2 DEF RunOf
<1>5. IsStep(a) /\ tasks[a].stmt.once => Kind(a) = "step"
  BY <1>1 DEF OperationsOver, Kind, IsStep
<1>6. IsScope(a) => /\ tasks[a].stmt.body \in Bodies[program]
                    /\ tasks[a].stmt.virtual \in BOOLEAN /\ tasks[a].stmt.tries \in Nat
  BY <1>1 DEF OperationsOver, Kind, IsScope
<1>7. \A body \in Bodies[program] : body \in Seq(StatementsOver(Bodies[program]))
  BY <1>1, WorkflowAssumption DEF IsBody
<1> QED
  BY <1>2, <1>3, <1>4, <1>5, <1>6, <1>7

\* A checkpoint is an end of the task with an update, or with a refusal.
LEMMA CheckpointWays ==
    ASSUME Typed, Known, Formed, KindsFit, invocation = "running", NEW a \in DOMAIN tasks,
           a # Root, tasks[a].phase # "done",
           NEW action \in {"START", "RETRY", "SUCCEED", "FAIL"},
           NEW status \in Statuses, NEW attempt \in Nat, NEW error \in {"none"} \cup Errors,
           NEW out \in Outcomes,
           LET r == [Record(a, status, attempt, error) EXCEPT !.parent = Persisted(Parent(a))]
           IN RecordFits(r) /\ Agrees(a, r, out),
           (IF action = "START" THEN {"none", "READY"} ELSE {"STARTED", "READY"}) = Expected(a),
           IsScope(a) => \E o \in Outcomes : Comes(a, o) /\ out = Raised(o),
           Kind(a) = "callback" => out = "ok", Due(a),
           Checkpoint(a, action, Record(a, status, attempt, error), out)
    PROVE  Commits(a) \/ Rejects(a)
<1> DEFINE p == Persisted(Parent(a))
           r == [Record(a, status, attempt, error) EXCEPT !.parent = p]
<1>1. RecordFits(r) /\ Agrees(a, r, out)
  OBVIOUS
<1>2. p \in Address
  <2>1. Parent(a) \in DOMAIN tasks /\ Parent(a) \in Address
    BY OwnerIs, ParentAppend
  <2>2. tasks[Parent(a)].parent \in Address
    BY <2>1 DEF Typed, MapOf, TaskSet
  <2> QED
    BY <2>1, <2>2 DEF Persisted
<1>3. r \in RecordSet /\ r.op = Kind(a) /\ r.parent = p /\ r.status = status
  BY <1>2, OperationIs DEF Record, RecordSet
<1>4. CASE /\ Written(a, action, Record(a, status, attempt, error))
           /\ tasks' = Done(Consumed(a), a, out) /\ Tell(a, out)
  <2>1. Finishes(a, out)
    BY <1>4, FinishesBy
  <2>2. /\ records' = With(records, Only(a, r)) /\ view' = records' /\ journal = "open"
        /\ UNCHANGED <<program, outcome, stirred, journal, invocation, crashes, asked, logged>>
        /\ p # Root => In(records, p).status = "STARTED"
        /\ In(records, a).status \in {"none", "STARTED", "READY"}
    BY <1>4 DEF Written, Accepts
  <2>3. Writes(a, r)
    <3>1. ~Final(In(records, a).status)
      BY <2>2 DEF Final
    <3>2. RecordFits(r)
      BY <1>1
    <3> HIDE DEF r
    <3> QED
      BY <1>3, <2>2, <3>1, <3>2 DEF Writes
  <2>4. a \in DOMAIN records' /\ records'[a] = r
    <3> HIDE DEF r
    <3> QED
      BY <2>2 DEF With, Only
  <2>5. out = "pause" => Open(r)
    <3> HIDE DEF r
    <3> QED
      BY <1>1, RecordedErrors DEF Agrees, Final
  <2>6. Ending(a, out)
    <3> HIDE DEF r
    <3> QED
      BY <1>4, <2>1, <2>4, <2>5 DEF Ending
  <2> HIDE DEF r
  <2> QED
    BY <1>1, <1>3, <2>3, <2>6 DEF Commits
<1>5. CASE Refused(a, action)
  <2>1. "state" \in Outcomes /\ "state" # "pause" /\ "state" # "ok"
    BY DEF Outcomes, Errors, Others
  <2>2. Finishes(a, "state")
    BY <1>5, <2>1, FinishesBy DEF Refused
  <2>3. Ending(a, "state")
    BY <1>5, <2>1, <2>2 DEF Ending, Refused
  <2> QED
    BY <1>5, <2>3 DEF Rejects, Refused, Accepts
<1> QED
  BY <1>4, <1>5 DEF Checkpoint

\* So is a START after which the task runs.
LEMMA StartWays ==
    ASSUME Typed, Known, Formed, KindsFit, invocation = "running", NEW a \in DOMAIN tasks,
           a # Root, tasks[a].phase = "begin", IsStep(a) \/ IsScope(a),
           Seen(a).status \in {"none", "READY"},
           StartWith(a, Started(a))
    PROVE  Starts(a) \/ Rejects(a)
<1> DEFINE p == Parent(a)
           q == Persisted(p)
           r == [Started(a) EXCEPT !.parent = q]
<1>0. p \in DOMAIN tasks /\ p # a /\ p \in Address /\ tasks[a] \in TaskSet /\ tasks[p] \in TaskSet
  BY OwnerIs, ParentAppend DEF Typed, MapOf
<1>1. q \in Address
  BY <1>0 DEF Persisted, TaskSet
<1>2. r \in RecordSet /\ r.op = Kind(a) /\ r.parent = q /\ r.status = "STARTED" /\ r.error = "none"
  <2>1. Seen(a).attempt \in Nat /\ Kind(a) \in Kinds
    BY SeenIs, OperationIs
  <2> QED
    BY <1>1, <2>1 DEF Started, Record, RecordSet, Statuses
<1>3. RecordFits(r)
  <2> HIDE DEF r
  <2> QED
    BY <1>2 DEF RecordFits
<1>4. CASE /\ Written(a, "START", Started(a))
           /\ tasks' = [Consumed(a) EXCEPT ![a].phase = "run"] /\ UNCHANGED told
  <2>1. GoesOn(a)
    <3> DEFINE e == tasks[a].entered
               k == tasks[a].replaying
               c == tasks[p].replaying /\ tasks[p].remaining # {}
    <3>1. e \in BOOLEAN /\ k \in BOOLEAN /\ c \in BOOLEAN
      BY <1>0 DEF TaskSet
    <3>2. tasks' = [[tasks EXCEPT ![p] = [tasks[p] EXCEPT !.replaying = c]]
                        EXCEPT ![a] = [tasks[a] EXCEPT !.phase = "run"]]
      BY <1>0, <1>4 DEF Consumed
    <3>3. [tasks[a] EXCEPT !.phase = "run"] = [tasks[a] EXCEPT !.phase = "run", !.entered = e,
                                                              !.replaying = k]
      BY <1>0 DEF TaskSet
    <3> HIDE DEF e, k, c
    <3>4. tasks' = [b \in DOMAIN tasks |->
            IF b = a THEN [tasks[b] EXCEPT !.phase = "run", !.entered = e, !.replaying = k]
            ELSE IF b = p THEN [tasks[b] EXCEPT !.replaying = c]
            ELSE tasks[b]]
      <4>1. \A b \in DOMAIN tasks : tasks'[b] =
              IF b = a THEN [tasks[b] EXCEPT !.phase = "run", !.entered = e, !.replaying = k]
              ELSE IF b = p THEN [tasks[b] EXCEPT !.replaying = c]
              ELSE tasks[b]
        BY <1>0, <3>2, <3>3
      <4>2. tasks' = [b \in DOMAIN tasks |-> tasks'[b]]
        BY <1>0, <3>2
      <4> QED
        BY <4>1, <4>2
    <3> QED
      BY <3>1, <3>4 DEF GoesOn
  <2>2. /\ records' = With(records, Only(a, r)) /\ view' = records' /\ journal = "open"
        /\ UNCHANGED <<program, outcome, stirred, journal, invocation, crashes, asked, logged>>
        /\ q # Root => In(records, q).status = "STARTED"
        /\ In(records, a).status \in {"none", "READY"}
    BY <1>4 DEF Written, Accepts
  <2>3. Writes(a, r)
    <3> HIDE DEF r
    <3> QED
      BY <1>2, <1>3, <2>2 DEF Writes, Final
  <2> HIDE DEF r
  <2> QED
    BY <1>2, <1>4, <2>1, <2>3 DEF Starts, Begins
<1>5. CASE Refused(a, "START")
  <2>1. "state" \in Outcomes /\ "state" # "pause" /\ "state" # "ok" /\ Kind(a) # "callback"
    BY DEF Outcomes, Errors, Others, IsStep, IsScope
  <2>2. Finishes(a, "state")
    BY <1>5, <2>1, FinishesBy DEF Refused
  <2>3. Ending(a, "state")
    BY <1>5, <2>1, <2>2 DEF Ending, Refused
  <2> QED
    BY <1>5, <2>3 DEF Rejects, Refused, Accepts, Expected, Due
<1> QED
  BY <1>4, <1>5 DEF StartWith

\* An end without an update.
LEMMA DeliverWays ==
    ASSUME Typed, Known, Formed, KindsFit, invocation = "running", NEW a \in DOMAIN tasks,
           a # Root, tasks[a].phase # "done", NEW out \in Outcomes, Gives(a, out),
           Kind(a) = "callback" => out = "ok",
           \A o \in Outcomes : Comes(a, o) /\ o = "pause" => Backed,
           NEW ts \in {tasks, Consumed(a)}, tasks' = Done(ts, a, out), Tell(a, out),
           UNCHANGED <<program, serviceVars, view, journal, invocation, crashes, asked, logged>>
    PROVE  Delivers(a)
<1>1. Finishes(a, out)
  BY FinishesBy
<1>2. Kind(a) = "callback" => a \in DOMAIN records'
  <2>1. Kind(a) = "callback" => ~IsStep(a) /\ ~IsScope(a)
    BY DEF IsStep, IsScope
  <2>2. Kind(a) = "callback" => a \in DOMAIN view
    BY <2>1 DEF Gives
  <2> QED
    BY <2>2 DEF Known, serviceVars
<1>3. out = "pause" => Backed \/ (a \in DOMAIN records' /\ Open(records'[a]))
  <2> SUFFICES ASSUME out = "pause"
               PROVE  Backed \/ (a \in DOMAIN records' /\ Open(records'[a]))
    OBVIOUS
  <2>1. CASE tasks[a].phase = "begin" /\ a \in DOMAIN view /\ Open(view[a])
    BY <2>1 DEF Backed, Known, serviceVars
  <2>2. CASE tasks[a].phase = "begin" /\ a \in DOMAIN view /\ Final(view[a].status)
             /\ out = EndOf(view[a])
    BY <2>2, SeenIs, RecordedErrors
  <2>3. CASE out \in InvocationErrors \cup (ExecutionErrors \ {"condition"})
    BY <2>3 DEF InvocationErrors, ExecutionErrors, Retryable
  <2>4. CASE \E o \in Outcomes : Comes(a, o) /\ out = Raised(o)
    <3>1. \A o \in Outcomes : Raised(o) = "pause" => o = "pause"
      BY DEF Raised, Recorded, Outcomes, Errors, InvocationErrors, Retryable, ExecutionErrors,
             Others
    <3> QED
      BY <2>4, <3>1
  <2>5. out # "ok"
    OBVIOUS
  <2> QED
    BY <2>1, <2>2, <2>3, <2>4, <2>5 DEF Gives
<1>4. Ending(a, out)
  BY <1>1, <1>2, <1>3 DEF Ending
<1> QED
  BY <1>4 DEF Delivers

LEMMA StatementIs ==
    ASSUME Typed, NEW a \in DOMAIN tasks, IsScope(a), tasks[a].pc <= Len(Body(a))
    PROVE  /\ tasks[a].pc \in 1 .. Len(Body(a)) /\ tasks[a].pc \in DOMAIN Body(a)
           /\ Statement(a) \in StatementsOver(Bodies[program])
           /\ Statement(a) = Body(a)[tasks[a].pc]
           /\ Statement(a).catch \subseteq Errors
           /\ Statement(a).op \in Kinds \cup {"gather"} \cup Plain
           /\ Statement(a).op = "raise" => Statement(a).error \in Errors
           /\ Statement(a).op = "result" =>
                 /\ Statement(a).of \in Nat \ {0}
                 /\ Statement(a).of <= Cardinality(Created(Body(a), tasks[a].pc))
                 /\ \A j \in Created(Body(a), tasks[a].pc) : "state" \notin Body(a)[j].catch
           /\ Statement(a).op \notin Plain =>
                 Operations(Statement(a)) \in Seq(OperationsOver(Bodies[program]))
<1>1. /\ Body(a) \in Bodies[program] /\ Body(a) \in Seq(StatementsOver(Bodies[program]))
      /\ IsBody(Body(a), Bodies[program]) /\ tasks[a].pc \in Position
  BY OperationIs, WorkflowAssumption DEF Body, Typed, MapOf, TaskSet
<1>2. tasks[a].pc \in 1 .. Len(Body(a)) /\ tasks[a].pc \in DOMAIN Body(a)
  BY <1>1, LenProperties DEF Position
<1>3. Statement(a) = Body(a)[tasks[a].pc] /\ Statement(a) \in StatementsOver(Bodies[program])
  BY <1>1, <1>2, ElementOfSeq DEF Statement, Body
<1> DEFINE s == Statement(a)
           Parts == OperationsOver(Bodies[program])
<1>4. /\ s.catch \subseteq Errors /\ s.op \in Kinds \cup {"gather"} \cup Plain
      /\ s.op = "raise" => s.error \in Errors
      /\ s.op = "result" => s.of \in Nat \ {0}
      /\ s.op = "gather" => s.parts \in Seq(Parts)
      /\ s.op \notin Plain \cup {"gather"} => s \in Parts
  <2>1. CASE s \in Parts
    BY <2>1 DEF OperationsOver, Kinds, Plain
  <2>2. CASE s \notin Parts
    <3> HIDE DEF Parts
    <3>1. s \in [op : {"gather"}, parts : Seq(Parts), catch : SUBSET Errors]
              \cup [op : {"result"}, of : Nat \ {0}, catch : SUBSET Errors]
              \cup [op : {"raise"}, error : Errors, catch : SUBSET Errors]
              \cup [op : {"log"}, catch : SUBSET Errors]
      BY <1>3, <2>2 DEF StatementsOver, Parts
    <3> QED
      BY <3>1 DEF Plain
  <2> QED
    BY <2>1, <2>2
<1>5. s.op \notin Plain => Operations(s) \in Seq(Parts)
  <2> HIDE DEF Parts
  <2> QED
    BY <1>4 DEF Operations
<1> QED
  BY <1>1, <1>2, <1>3, <1>4, <1>5 DEF IsBody

\* What a body reads or awaits comes to an outcome, and a pause is backed.
LEMMA ReadIs ==
    ASSUME WInv, invocation = "running", NEW a \in DOMAIN tasks, Ready(a),
           Statement(a).op \in {"result", "raise"}
    PROVE  ReadOf(a) \in Outcomes /\ (ReadOf(a) = "pause" => Backed)
<1>1. IsScope(a) /\ tasks[a].pc <= Len(Body(a)) /\ tasks[a].phase = "run"
  BY DEF Ready, Body, Running
<1>2. CASE Statement(a).op = "raise"
  <2>1. Statement(a).error \in Errors
    BY <1>1, <1>2, StatementIs DEF WInv
  <2> QED
    BY <1>2, <2>1, RecordedErrors DEF ReadOf, Outcomes
<1>3. CASE Statement(a).op = "result"
  <2> DEFINE n == Statement(a).of
             b == tasks[a].handles[n]
             created == Created(Body(a), tasks[a].pc)
  <2>1. /\ n \in Nat \ {0} /\ n <= Cardinality(created)
        /\ \A j \in created : "state" \notin Body(a)[j].catch
    BY <1>1, <1>3, StatementIs DEF WInv
  <2>2. Cardinality(created) <= Len(tasks[a].handles)
    BY <1>1, <2>1 DEF WInv, HandlesFormed, HandlesIn
  <2>3. tasks[a].handles \in Seq(Address)
    BY DEF WInv, Typed, MapOf, TaskSet
  <2>4. Cardinality(created) \in Nat
    <3>0. tasks[a].pc \in Nat
      BY DEF WInv, Typed, MapOf, TaskSet, Position
    <3>1. created \in SUBSET (1 .. tasks[a].pc)
      BY <3>0 DEF Created
    <3>2. IsFiniteSet(1 .. tasks[a].pc)
      BY <3>0, FS_Interval
    <3> QED
      BY <3>1, <3>2, FS_Subset, FS_CardinalityType
  <2>5. n \in DOMAIN tasks[a].handles
    <3>1. Len(tasks[a].handles) \in Nat /\ DOMAIN tasks[a].handles = 1 .. Len(tasks[a].handles)
      BY <2>3, LenProperties
    <3> HIDE DEF n, created
    <3> QED
      BY <2>1, <2>2, <2>4, <3>1
  <2>6. /\ b \in DOMAIN tasks /\ tasks[b].phase = "done" /\ b \in DOMAIN records
        /\ records[b].op = "callback"
    BY <2>5 DEF WInv, HandlesFormed, HandlesIn
  <2>7. /\ b \in DOMAIN view /\ Seen(b) = view[b] /\ RecordFits(view[b])
        /\ view[b] \in RecordSet /\ view[b].op = "callback"
    <3>1. b \in DOMAIN view
      BY <2>6 DEF WInv, Known
    <3> HIDE DEF b
    <3> QED
      BY <2>6, <3>1, SeenIs DEF WInv
  <2>8. ReadOf(a) = ResultOf(b)
    BY <1>3 DEF ReadOf
  <2> HIDE DEF b
  <2>9. ResultOf(b) \in Outcomes /\ (ResultOf(b) = "pause" => Open(view[b]))
    <3>1. view[b].status \in Statuses
      BY <2>7 DEF RecordSet
    <3> QED
      BY <2>7, <3>1, RecordedErrors DEF ResultOf, RecordFits, Outcomes, Statuses, Open
  <2> QED
    BY <2>6, <2>7, <2>8, <2>9 DEF WInv, Known, Backed
<1> QED
  BY <1>2, <1>3

LEMMA AwaitedIs ==
    ASSUME WInv, invocation = "running", NEW a \in DOMAIN tasks
    PROVE  /\ Awaited(a) \in {"none"} \cup Outcomes
           /\ Awaited(a) = "pause" => Backed
           /\ Awaited(a) = "ok" => /\ tasks[a].woken = "none"
                                   /\ \A b \in tasks[a].awaits :
                                         tasks[b].phase = "done" /\ tasks[b].out = "ok"
           /\ Awaited(a) \notin {"none", "ok"} =>
                 \E b \in tasks[a].awaits : b \in DOMAIN tasks /\ tasks[b].phase = "done"
                                            /\ tasks[b].out = Awaited(a)
<1>1. tasks[a].woken \in {"none"} \cup Outcomes
  BY DEF WInv, Typed, MapOf, TaskSet
<1>2. \A b \in tasks[a].awaits : b \in DOMAIN tasks
                                 /\ ((tasks[b].phase = "done") = (tasks[b].out # "none"))
  BY DEF WInv, Formed, Shape, Children
<1>3. /\ \A b \in tasks[a].awaits : tasks[b].out \notin {"none", "ok"} => tasks[a].woken # "none"
      /\ tasks[a].woken # "none" =>
          /\ tasks[a].woken # "ok"
          /\ \E b \in tasks[a].awaits : tasks[b].out = tasks[a].woken
  BY DEF WInv, Heard, Hears
<1>4. tasks[a].woken = "pause" => Backed
  BY DEF WInv, Pauses
<1> QED
  BY <1>1, <1>2, <1>3, <1>4 DEF Awaited, Outcomes

LEMMA ComesIs ==
    ASSUME WInv, NEW a \in DOMAIN tasks, NEW o
    PROVE  Fails(a, o) \/ Comes(a, o) \/ GoodFor(a, o) =>
              o \in Outcomes /\ (o = "pause" => Backed) /\ invocation = "running" /\ IsScope(a)
<1>1. "state" \in Outcomes /\ "ok" \in Outcomes
  BY DEF Outcomes, Errors, Others
<1>2. Ready(a) /\ Statement(a).op \in {"result", "raise"} /\ o = ReadOf(a)
         => o \in Outcomes /\ (o = "pause" => Backed) /\ invocation = "running"
  BY ReadIs DEF Ready, Running
<1>3. (Running(a, "await") \/ Running(a, "backing_off")) /\ o = Awaited(a) /\ o # "none"
      => o \in Outcomes \cup {"none"} /\ (o = "pause" => Backed) /\ invocation = "running"
  BY AwaitedIs DEF Running
<1>4. (\/ Running(a, "await") \/ Running(a, "refused") \/ Running(a, "backing_off")
       \/ Running(a, "back_off"))
      => IsScope(a) /\ invocation = "running"
  BY DEF Running, WInv, Formed, Shape
<1>5. Ready(a) => IsScope(a) /\ invocation = "running"
  BY DEF Ready, Running
<1>6. Running(a, "await") => Statement(a).catch \subseteq Errors
  <2> SUFFICES ASSUME Running(a, "await") PROVE Statement(a).catch \subseteq Errors
    OBVIOUS
  <2>1. IsScope(a) /\ tasks[a].pc <= Len(Body(a))
    BY DEF Running, WInv, Formed, Shape
  <2> QED
    BY <2>1, StatementIs DEF WInv
<1>7. Fails(a, o) => o \in Outcomes /\ (o = "pause" => Backed) /\ invocation = "running" /\ IsScope(a)
  BY <1>1, <1>2, <1>3, <1>4, <1>5, AwaitedIs DEF Fails, Running
<1>8. GoodFor(a, o) => o \in Outcomes /\ (o = "pause" => Backed) /\ invocation = "running" /\ IsScope(a)
  BY <1>1, <1>2, <1>4, <1>5, <1>6, AwaitedIs, RecordedErrors DEF GoodFor, Running
<1>9. Comes(a, o) => o \in Outcomes /\ (o = "pause" => Backed) /\ invocation = "running" /\ IsScope(a)
  BY <1>1, <1>4, <1>7, AwaitedIs DEF Comes, Running
<1> QED
  BY <1>7, <1>8, <1>9

LEMMA StepReplaysWay ==
    ASSUME WInv, NEW a \in DOMAIN tasks, StepReplays(a)
    PROVE  Delivers(a)
<1> DEFINE out == IF Seen(a).status = "SUCCEEDED" THEN "ok" ELSE Seen(a).error
<1>1. /\ invocation = "running" /\ tasks[a].phase = "begin" /\ IsStep(a) /\ Final(Seen(a).status)
      /\ tasks' = Done(IF out = "ok" THEN Consumed(a) ELSE tasks, a, out) /\ Tell(a, out)
      /\ UNCHANGED <<program, serviceVars, view, journal, invocation, crashes, asked, logged>>
  BY DEF StepReplays, Running
<1>2. a # Root
  BY <1>1 DEF WInv, Formed, Shape
<1>3. a \in DOMAIN view /\ Seen(a) = view[a] /\ RecordFits(view[a])
  BY <1>1, SeenIs DEF WInv, Final
<1>4. out = EndOf(view[a]) /\ out \in Outcomes
  BY <1>1, <1>3, RecordedErrors DEF EndOf
<1>5. Gives(a, out) /\ Kind(a) # "callback"
  BY <1>1, <1>3, <1>4 DEF Gives, IsStep
<1> HIDE DEF out
<1> QED
  BY <1>1, <1>2, <1>4, <1>5, ComesIs, DeliverWays DEF WInv

\* The end of a task in begin without an update.
LEMMA DeliverWay ==
    ASSUME WInv, NEW a \in DOMAIN tasks, a # Root, invocation = "running",
           tasks[a].phase # "done", NEW out \in Outcomes, Gives(a, out),
           Kind(a) = "callback" => out = "ok", Deliver(a, out)
    PROVE  Delivers(a)
  BY ComesIs, DeliverWays DEF WInv, Deliver

LEMMA StepPausesWay ==
    ASSUME WInv, NEW a \in DOMAIN tasks, StepPauses(a)
    PROVE  Delivers(a)
<1>1. /\ invocation = "running" /\ tasks[a].phase = "begin" /\ IsStep(a)
      /\ Seen(a).status = "PENDING" /\ Deliver(a, "pause")
  BY DEF StepPauses, Running
<1>2. a # Root /\ Kind(a) # "callback" /\ "pause" \in Outcomes
  BY <1>1 DEF WInv, Formed, Shape, IsStep, Outcomes
<1>3. a \in DOMAIN view /\ Seen(a) = view[a]
  BY <1>1, SeenIs DEF WInv
<1>4. Gives(a, "pause")
  BY <1>1, <1>3 DEF Gives, Open
<1> QED
  BY <1>1, <1>2, <1>4, DeliverWay

LEMMA StepStartsWay ==
    ASSUME WInv, NEW a \in DOMAIN tasks, StepStarts(a)
    PROVE  Starts(a) \/ Rejects(a)
<1>1. a # Root
  BY DEF StepStarts, Running, WInv, Formed, Shape
<1> QED
  BY <1>1, StartWays DEF StepStarts, Running, WInv

LEMMA AttemptFailsWay ==
    ASSUME WInv, NEW a \in DOMAIN tasks, a # Root, invocation = "running",
           tasks[a].phase \in {"begin", "run"}, IsStep(a), NEW attempt \in Nat,
           NEW error \in Errors, Expected(a) = {"STARTED", "READY"}, Due(a),
           error \in Retryable =>
               error = "interrupted" /\ Kind(a) = "step" /\ tasks[a].stmt.once,
           AttemptFails(a, attempt, error)
    PROVE  Commits(a) \/ Rejects(a)
<1>1. Kind(a) \in {"step", "condition"} /\ ~IsScope(a) /\ Kind(a) # "callback"
      /\ "pause" \in Outcomes
  BY DEF IsStep, IsScope, Outcomes
<1>2. CASE Checkpoint(a, "RETRY", Record(a, "PENDING", attempt, "none"), "pause")
  <2> DEFINE r == [Record(a, "PENDING", attempt, "none") EXCEPT !.parent = Persisted(Parent(a))]
  <2>1. r.op = Kind(a) /\ r.status = "PENDING"
    BY DEF Record
  <2>2. RecordFits(r) /\ Agrees(a, r, "pause")
    <3> HIDE DEF r
    <3> QED
      BY <1>1, <2>1 DEF RecordFits, Agrees, Open, Final
  <2>3. "PENDING" \in Statuses
    BY DEF Statuses
  <2> QED
    BY <1>1, <1>2, <2>2, <2>3, CheckpointWays DEF WInv
<1>3. ASSUME NEW out \in {error, Recorded(error)},
             out = Recorded(error) \/ Kind(a) = "condition" \/ error = "interrupted",
             Checkpoint(a, "FAIL", Record(a, "FAILED", attempt, Recorded(error)), out)
      PROVE  Commits(a) \/ Rejects(a)
  <2> DEFINE r == [Record(a, "FAILED", attempt, Recorded(error)) EXCEPT !.parent = Persisted(Parent(a))]
  <2>1. r.op = Kind(a) /\ r.status = "FAILED" /\ r.error = Recorded(error)
    BY DEF Record
  <2>2. out \in Errors /\ out \in Outcomes /\ Recorded(out) = Recorded(error)
        /\ Recorded(error) \in Errors
    BY RecordedErrors DEF Outcomes
  <2>5. \/ out = Recorded(error)
        \/ Kind(a) = "condition" /\ out \notin Retryable
        \/ Kind(a) = "step" /\ tasks[a].stmt.once /\ out = "interrupted"
    BY <1>1, <1>3 DEF Retryable
  <2>3. RecordFits(r) /\ Agrees(a, r, out)
    <3> HIDE DEF r
    <3> QED
      BY <1>1, <2>1, <2>2, <2>5, RecordedErrors DEF RecordFits, Agrees, Open, Final
  <2>4. "FAILED" \in Statuses
    BY DEF Statuses
  <2> QED
    BY <1>1, <1>3, <2>2, <2>3, <2>4, CheckpointWays DEF WInv
<1> QED
  BY <1>2, <1>3 DEF AttemptFails

LEMMA StepResumesWay ==
    ASSUME WInv, NEW a \in DOMAIN tasks, StepResumes(a)
    PROVE  Commits(a) \/ Rejects(a) \/ Enters(a)
<1>1. /\ invocation = "running" /\ tasks[a].phase = "begin" /\ IsStep(a)
      /\ Seen(a).status = "STARTED"
  BY DEF StepResumes, Running
<1>2. a # Root /\ a \in DOMAIN view /\ Seen(a) = view[a] /\ Seen(a).attempt \in Nat
  BY <1>1, SeenIs DEF WInv
<1>3. CASE tasks[a].stmt.once
  <2>1. Expected(a) = {"STARTED", "READY"} /\ "interrupted" \in Errors
    BY <1>1 DEF Expected, Errors, InvocationErrors, Retryable
  <2>2. Seen(a).attempt + 1 \in Nat
    BY <1>2
  <2>3. Due(a) /\ Kind(a) = "step"
    BY <1>1, <1>3, OperationIs DEF Due, WInv, IsStep
  <2> QED
    BY <1>1, <1>2, <1>3, <2>1, <2>2, <2>3, AttemptFailsWay DEF StepResumes
<1>4. CASE ~tasks[a].stmt.once
  <2>1. /\ tasks' = [tasks EXCEPT ![a].phase = "run"]
        /\ UNCHANGED <<program, serviceVars, view, journal, invocation, crashes, asked, told,
                       logged>>
    BY <1>4 DEF StepResumes
  <2>2. GoesOn(a)
    <3> DEFINE e == tasks[a].entered
               k == tasks[a].replaying
               p == Parent(a)
               c == tasks[p].replaying
    <3>0. p \in DOMAIN tasks /\ p # a /\ tasks[a] \in TaskSet /\ tasks[p] \in TaskSet
      BY <1>2, OwnerIs DEF WInv, Typed, MapOf
    <3>1. e \in BOOLEAN /\ k \in BOOLEAN /\ c \in BOOLEAN
      BY <3>0 DEF TaskSet
    <3>3. /\ [tasks[a] EXCEPT !.phase = "run"]
                = [tasks[a] EXCEPT !.phase = "run", !.entered = e, !.replaying = k]
          /\ [tasks[p] EXCEPT !.replaying = c] = tasks[p]
      BY <3>0 DEF TaskSet
    <3>5. tasks \in [DOMAIN tasks -> TaskSet]
      BY DEF WInv, Typed, MapOf
    <3> HIDE DEF e, k, c
    <3>4. tasks' = [b \in DOMAIN tasks |->
            IF b = a THEN [tasks[b] EXCEPT !.phase = "run", !.entered = e, !.replaying = k]
            ELSE IF b = p THEN [tasks[b] EXCEPT !.replaying = c]
            ELSE tasks[b]]
      BY <2>1, <3>0, <3>3, <3>5
    <3> QED
      BY <3>1, <3>4 DEF GoesOn
  <2> QED
    BY <1>1, <1>2, <2>1, <2>2 DEF Enters, Begins
<1> QED
  BY <1>3, <1>4

LEMMA StepRunsWay ==
    ASSUME WInv, NEW a \in DOMAIN tasks, StepRuns(a)
    PROVE  Exits \/ Commits(a) \/ Rejects(a) \/ Delivers(a)
<1> DEFINE attempt == Seen(a).attempt + 1
           run == RunOf(tasks[a].stmt, attempt)
           end == IF run = "exit_if_new" THEN "ok" ELSE run
<1>1. /\ invocation = "running" /\ tasks[a].phase = "run" /\ IsStep(a)
  BY DEF StepRuns, Running
<1>2. Kind(a) \in {"step", "condition"} /\ ~IsScope(a) /\ Kind(a) # "callback"
      /\ "pause" \in Outcomes /\ "ok" \in Outcomes
  BY <1>1 DEF IsStep, IsScope, Outcomes
<1>3. a # Root
  <2>1. Root \in DOMAIN tasks /\ tasks[Root].stmt = Child(program)
    BY <1>1 DEF WInv, Known
  <2> QED
    BY <1>2, <2>1 DEF Kind, Child
<1>4. Seen(a).attempt \in Nat /\ attempt \in Nat /\ attempt \in Nat \ {0}
  BY <1>1, SeenIs DEF WInv
<1>5. run \in AttemptEnds /\ Expected(a) = {"STARTED", "READY"} /\ Due(a)
  BY <1>1, <1>4, OperationIs DEF Expected, Due, WInv
<1>6. CASE Lost /\ UNCHANGED crashes
  BY <1>6 DEF Exits
<1>7. ASSUME NEW action \in {"RETRY", "SUCCEED"}, NEW status \in Statuses, NEW out \in Outcomes,
             Checkpoint(a, action, Record(a, status, attempt, "none"), out),
             \/ status = "SUCCEEDED" /\ out = "ok"
             \/ status = "PENDING" /\ out = "pause"
      PROVE  Commits(a) \/ Rejects(a)
  <2> DEFINE r == [Record(a, status, attempt, "none") EXCEPT !.parent = Persisted(Parent(a))]
  <2>1. r.op = Kind(a) /\ r.status = status
    BY DEF Record
  <2>2. RecordFits(r) /\ Agrees(a, r, out)
    <3> HIDE DEF r
    <3> QED
      BY <1>2, <1>7, <2>1 DEF RecordFits, Agrees, Open, Final
  <2> HIDE DEF attempt, run, end
  <2> QED
    BY <1>1, <1>2, <1>3, <1>4, <1>5, <1>7, <2>2, CheckpointWays DEF WInv
<1>8. "SUCCEEDED" \in Statuses /\ "PENDING" \in Statuses
  BY DEF Statuses
<1>9. CASE end = "ok" /\ Checkpoint(a, "SUCCEED", Record(a, "SUCCEEDED", attempt, "none"), "ok")
  BY <1>2, <1>7, <1>8, <1>9
<1>10. CASE end = "again" /\ Checkpoint(a, "RETRY", Record(a, "PENDING", attempt, "none"), "pause")
  BY <1>2, <1>7, <1>8, <1>10
<1>11. CASE end \in InvocationErrors \cup (ExecutionErrors \ {"condition"}) /\ Deliver(a, end)
  <2>1. end \in Outcomes /\ end = run
    BY <1>11 DEF Outcomes, Errors, InvocationErrors, ExecutionErrors, Retryable
  <2>2. Gives(a, end)
    BY <1>1, <1>11, <2>1 DEF Gives
  <2> HIDE DEF end
  <2> QED
    BY <1>1, <1>2, <1>3, <1>11, <2>1, <2>2, DeliverWay
<1>12. CASE end \in Others \cup {"condition"} /\ AttemptFails(a, attempt, end)
  <2>1. end \in Errors /\ end \notin Retryable
    BY <1>12 DEF Errors, ExecutionErrors, Others, Retryable
  <2> HIDE DEF end, attempt
  <2> QED
    BY <1>1, <1>3, <1>4, <1>5, <1>12, <2>1, AttemptFailsWay
<1> QED
  BY <1>6, <1>9, <1>10, <1>11, <1>12 DEF StepRuns

LEMMA StartRecord ==
    ASSUME NEW a, Kind(a) \in {"wait", "invoke", "callback"}
    PROVE  LET r == [Started(a) EXCEPT !.parent = Persisted(Parent(a))]
           IN /\ RecordFits(r)
              /\ Kind(a) # "callback" => Agrees(a, r, "pause")
              /\ Kind(a) = "callback" => Agrees(a, r, "ok")
<1> DEFINE r == [Started(a) EXCEPT !.parent = Persisted(Parent(a))]
<1>1. r.op = Kind(a) /\ r.status = "STARTED"
  BY DEF Started, Record
<1> HIDE DEF r
<1>2. /\ RecordFits(r) /\ (Kind(a) # "callback" => Agrees(a, r, "pause"))
      /\ (Kind(a) = "callback" => Agrees(a, r, "ok"))
  BY <1>1 DEF RecordFits, Agrees, Open, Final
<1> QED
  BY <1>2 DEF r

LEMMA ExternalStartsWay ==
    ASSUME WInv, NEW a \in DOMAIN tasks, ExternalStarts(a)
    PROVE  Commits(a) \/ Rejects(a)
<1>1. /\ invocation = "running" /\ tasks[a].phase = "begin" /\ Kind(a) \in {"wait", "invoke"}
      /\ Seen(a).status = "none" /\ Checkpoint(a, "START", Started(a), "pause")
  BY DEF ExternalStarts, Running
<1>2. a # Root /\ "pause" \in Outcomes /\ "STARTED" \in Statuses /\ Seen(a).attempt \in Nat
  BY <1>1, SeenIs DEF WInv, Formed, Shape, Outcomes, Statuses
<1>3. Expected(a) = {"none", "READY"} /\ ~IsScope(a) /\ Kind(a) # "callback" /\ Due(a)
  BY <1>1 DEF Expected, IsScope, Due
<1>4. LET r == [Record(a, "STARTED", Seen(a).attempt, "none") EXCEPT !.parent = Persisted(Parent(a))]
      IN RecordFits(r) /\ Agrees(a, r, "pause")
  BY <1>1, <1>3, StartRecord DEF Started
<1>5. Checkpoint(a, "START", Record(a, "STARTED", Seen(a).attempt, "none"), "pause")
  BY <1>1 DEF Started
<1> QED
  BY <1>1, <1>2, <1>3, <1>4, <1>5, CheckpointWays DEF WInv

LEMMA ExternalReplaysWay ==
    ASSUME WInv, NEW a \in DOMAIN tasks, ExternalReplays(a)
    PROVE  Delivers(a)
<1> DEFINE out == CASE Seen(a).status = "SUCCEEDED" -> "ok"
                    [] Seen(a).status = "FAILED" -> Seen(a).error
                    [] OTHER -> "pause"
<1>1. /\ invocation = "running" /\ tasks[a].phase = "begin" /\ Kind(a) \in {"wait", "invoke"}
      /\ Seen(a).status # "none" /\ Deliver(a, out)
  BY DEF ExternalReplays, Running
<1>2. a # Root /\ a \in DOMAIN view /\ Seen(a) = view[a] /\ RecordFits(view[a])
      /\ view[a].op = Kind(a) /\ Seen(a).status \in Statuses
  BY <1>1, SeenIs DEF WInv
<1>3. CASE Final(Seen(a).status)
  <2>1. out = EndOf(view[a]) /\ out \in Outcomes
    BY <1>2, <1>3, RecordedErrors DEF EndOf, Final
  <2>2. Gives(a, out)
    BY <1>1, <1>2, <1>3, <2>1 DEF Gives
  <2> HIDE DEF out
  <2> QED
    BY <1>1, <1>2, <2>1, <2>2, DeliverWay
<1>4. CASE ~Final(Seen(a).status)
  <2>1. out = "pause" /\ out \in Outcomes
    BY <1>4 DEF Final, Outcomes
  <2>2. Open(view[a])
    BY <1>1, <1>2, <1>4 DEF Open, RecordFits, Statuses, Final
  <2>3. Gives(a, out)
    BY <1>1, <1>2, <2>1, <2>2 DEF Gives
  <2> HIDE DEF out
  <2> QED
    BY <1>1, <1>2, <2>1, <2>3, DeliverWay
<1> QED
  BY <1>3, <1>4

LEMMA CallbackBeginsWay ==
    ASSUME WInv, NEW a \in DOMAIN tasks, CallbackBegins(a)
    PROVE  Commits(a) \/ Rejects(a) \/ Delivers(a)
<1>1. /\ invocation = "running" /\ tasks[a].phase = "begin" /\ Kind(a) = "callback"
  BY DEF CallbackBegins, Running
<1>2. a # Root /\ "ok" \in Outcomes /\ "STARTED" \in Statuses /\ Seen(a).attempt \in Nat
  BY <1>1, SeenIs DEF WInv, Formed, Shape, Outcomes, Statuses
<1>3. CASE Seen(a).status = "none"
  <2>1. Expected(a) = {"none", "READY"} /\ ~IsScope(a) /\ Due(a)
    BY <1>1, <1>3 DEF Expected, IsScope, Due
  <2>2. LET r == [Record(a, "STARTED", Seen(a).attempt, "none") EXCEPT !.parent = Persisted(Parent(a))]
        IN RecordFits(r) /\ Agrees(a, r, "ok")
    BY <1>1, StartRecord DEF Started
  <2>3. Checkpoint(a, "START", Record(a, "STARTED", Seen(a).attempt, "none"), "ok")
    BY <1>3 DEF Started, CallbackBegins
  <2> QED
    BY <1>1, <1>2, <2>1, <2>2, <2>3, CheckpointWays DEF WInv
<1>4. CASE Seen(a).status # "none"
  <2>1. a \in DOMAIN view
    BY <1>1, <1>4, SeenIs DEF WInv
  <2>2. Gives(a, "ok")
    BY <1>1, <2>1 DEF Gives
  <2> QED
    BY <1>1, <1>2, <1>4, <2>2, DeliverWay DEF CallbackBegins
<1> QED
  BY <1>3, <1>4

LEMMA ScopeReplaysWay ==
    ASSUME WInv, NEW a \in DOMAIN tasks, ScopeReplays(a)
    PROVE  Delivers(a)
<1>1. /\ invocation = "running" /\ tasks[a].phase = "begin" /\ IsScope(a)
      /\ Final(Seen(a).status)
  BY DEF ScopeReplays, Running
<1>2. a # Root /\ a \in DOMAIN view /\ Seen(a) = view[a] /\ RecordFits(view[a]) /\ Kind(a) # "callback"
  BY <1>1, SeenIs DEF WInv, Final, IsScope
<1>3. EndOf(view[a]) \in Outcomes /\ Deliver(a, EndOf(view[a]))
  BY <1>1, <1>2, RecordedErrors DEF EndOf, ScopeReplays
<1>4. Gives(a, EndOf(view[a]))
  BY <1>1, <1>2 DEF Gives
<1> QED
  BY <1>1, <1>2, <1>3, <1>4, DeliverWay

LEMMA ScopeStartsWay ==
    ASSUME WInv, NEW a \in DOMAIN tasks, ScopeStarts(a)
    PROVE  Starts(a) \/ Rejects(a) \/ Enters(a)
<1> DEFINE known == Seen(a).status # "none"
           entered == [tasks EXCEPT ![a].entered = known, ![a].replaying = known]
<1>1. /\ invocation = "running" /\ tasks[a].phase = "begin" /\ IsScope(a)
      /\ ~Final(Seen(a).status)
  BY DEF ScopeStarts, Running
<1>2. a # Root
  BY <1>1 DEF WInv, Formed, Shape
<1>3. CASE known \/ tasks[a].stmt.virtual
  <2>1. /\ tasks' = [entered EXCEPT ![a].phase = "run"]
        /\ UNCHANGED <<program, serviceVars, view, journal, invocation, crashes, asked, told,
                       logged>>
    BY <1>3 DEF ScopeStarts
  <2>2. GoesOn(a)
    <3> DEFINE p == Parent(a)
               c == tasks[p].replaying
    <3>0. p \in DOMAIN tasks /\ p # a /\ tasks[a] \in TaskSet /\ tasks[p] \in TaskSet
          /\ tasks \in [DOMAIN tasks -> TaskSet]
      BY <1>2, OwnerIs DEF WInv, Typed, MapOf
    <3>1. known \in BOOLEAN /\ c \in BOOLEAN
      BY <3>0 DEF TaskSet
    <3>2. tasks' = [tasks EXCEPT ![a] = [tasks[a] EXCEPT !.phase = "run", !.entered = known,
                                                        !.replaying = known]]
      <4> HIDE DEF known
      <4>1. entered = [tasks EXCEPT ![a] = [tasks[a] EXCEPT !.entered = known, !.replaying = known]]
        BY <3>0
      <4>2. [[tasks[a] EXCEPT !.entered = known, !.replaying = known] EXCEPT !.phase = "run"]
            = [tasks[a] EXCEPT !.phase = "run", !.entered = known, !.replaying = known]
        BY <3>0 DEF TaskSet
      <4> HIDE DEF entered
      <4>3. entered[a] = [tasks[a] EXCEPT !.entered = known, !.replaying = known]
        BY <3>0, <4>1
      <4>4. tasks' = [entered EXCEPT ![a] = [entered[a] EXCEPT !.phase = "run"]]
        BY <2>1
      <4> QED
        BY <3>0, <4>1, <4>2, <4>3, <4>4
    <3>3. [tasks[p] EXCEPT !.replaying = c] = tasks[p]
      BY <3>0 DEF TaskSet
    <3> HIDE DEF known, c
    <3>4. tasks' = [b \in DOMAIN tasks |->
            IF b = a THEN [tasks[b] EXCEPT !.phase = "run", !.entered = known, !.replaying = known]
            ELSE IF b = p THEN [tasks[b] EXCEPT !.replaying = c]
            ELSE tasks[b]]
      BY <3>0, <3>2, <3>3
    <3> QED
      BY <3>1, <3>4 DEF GoesOn
  <2>3. \/ a \in DOMAIN view /\ view[a].status = "STARTED"
        \/ IsScope(a) /\ tasks[a].stmt.virtual
    <3> SUFFICES ASSUME known PROVE a \in DOMAIN view /\ view[a].status = "STARTED"
      BY <1>1, <1>3
    <3>1. /\ a \in DOMAIN view /\ Seen(a) = view[a] /\ RecordFits(view[a])
          /\ view[a].op = Kind(a) /\ view[a].status \in Statuses
      BY <1>1, SeenIs DEF WInv
    <3> QED
      BY <1>1, <3>1 DEF RecordFits, Statuses, Final, IsScope
  <2> QED
    BY <1>1, <1>2, <2>1, <2>2, <2>3 DEF Enters, Begins
<1>4. CASE ~(known \/ tasks[a].stmt.virtual)
  <2>1. StartWith(a, Started(a)) /\ Seen(a).status = "none"
    BY <1>4 DEF ScopeStarts
  <2> QED
    BY <1>1, <1>2, <2>1, StartWays DEF WInv
<1> QED
  BY <1>3, <1>4

LEMMA ScopeEndsWay ==
    ASSUME WInv, NEW a \in DOMAIN tasks, NEW o, Comes(a, o), ScopeEnds(a, o)
    PROVE  Finally(a) \/ Commits(a) \/ Rejects(a) \/ Delivers(a)
<1>1. o \in Outcomes /\ (o = "pause" => Backed) /\ invocation = "running" /\ IsScope(a)
      /\ tasks[a].phase \in {"run", "await", "refused", "back_off", "backing_off"}
  <2>1. tasks[a].phase \in {"run", "await", "refused", "back_off", "backing_off"}
    BY DEF Comes, Fails, Ready, Running
  <2> QED
    BY <2>1, ComesIs
<1>2. CASE a = Root
  BY <1>1, <1>2 DEF ScopeEnds, Finally
<1>3. CASE a # Root
  <2>1. /\ Kind(a) # "callback" /\ ~IsStep(a) /\ Expected(a) = {"STARTED", "READY"}
        /\ tasks[a].phase # "done" /\ Raised(o) \in Outcomes /\ Due(a)
    BY <1>1, RecordedErrors DEF IsScope, IsStep, Expected, Due
  <2>2. CASE Deliver(a, Raised(o)) /\ (o \in {"pause"} \cup Retryable \/ tasks[a].stmt.virtual)
    <3>1. Gives(a, Raised(o))
      BY <1>1, <2>2 DEF Gives
    <3> QED
      BY <1>1, <1>3, <2>1, <2>2, <3>1, DeliverWay
  <2>3. ASSUME NEW action \in {"SUCCEED", "FAIL"}, NEW status \in {"SUCCEEDED", "FAILED"},
               NEW error \in {"none"} \cup Errors,
               Checkpoint(a, action, Record(a, status, 0, error), Raised(o)),
               \/ status = "SUCCEEDED" /\ o = "ok"
               \/ status = "FAILED" /\ o \in Errors \ Retryable /\ error = Recorded(o)
        PROVE  Commits(a) \/ Rejects(a)
    <3> DEFINE r == [Record(a, status, 0, error) EXCEPT !.parent = Persisted(Parent(a))]
    <3>1. r.op = Kind(a) /\ r.status = status /\ r.error = error
      BY DEF Record
    <3>2. status \in Statuses /\ 0 \in Nat
      BY DEF Statuses
    <3>3. RecordFits(r) /\ Agrees(a, r, Raised(o))
      <4>1. /\ o = "ok" => Raised(o) = "ok"
            /\ o \in Errors \ Retryable => Raised(o) = Recorded(o)
        BY DEF Raised, Recorded, Errors, Others, InvocationErrors, ExecutionErrors, Retryable
      <4> HIDE DEF r
      <4> QED
        BY <1>1, <2>1, <2>3, <3>1, <4>1, RecordedErrors DEF RecordFits, Agrees, Open, Final, IsScope
    <3> QED
      BY <1>1, <1>3, <2>1, <2>3, <3>2, <3>3, CheckpointWays DEF WInv
  <2>4. CASE o = "pause"
    <3>1. Deliver(a, o) /\ Raised(o) = o
      BY <1>3, <2>4 DEF ScopeEnds, Raised
    <3> QED
      BY <2>2, <2>4, <3>1
  <2>5. CASE o = "ok"
    <3>1. Raised(o) = o /\ "none" \in {"none"} \cup Errors
      BY <2>5 DEF Raised
    <3>2. IF tasks[a].stmt.virtual THEN Deliver(a, "ok")
          ELSE Checkpoint(a, "SUCCEED", Record(a, "SUCCEEDED", 0, "none"), "ok")
      BY <1>3, <2>5 DEF ScopeEnds
    <3> QED
      BY <2>2, <2>3, <2>5, <3>1, <3>2
  <2>6. CASE o \in Errors
    <3>1. o # "ok" /\ o # "pause" /\ Recorded(o) \in Errors
      BY <2>6, RecordedErrors
    <3>2. Raised(o) = IF o \in InvocationErrors \cup ExecutionErrors THEN o ELSE Recorded(o)
      BY <3>1 DEF Raised
    <3>3. IF tasks[a].stmt.virtual \/ o \in Retryable THEN Deliver(a, Raised(o))
          ELSE Checkpoint(a, "FAIL", Record(a, "FAILED", 0, Recorded(o)), Raised(o))
      BY <1>3, <3>1, <3>2 DEF ScopeEnds
    <3> QED
      BY <2>2, <2>3, <2>6, <3>1, <3>3
  <2> QED
    BY <1>1, <2>4, <2>5, <2>6 DEF Outcomes
<1> QED
  BY <1>2, <1>3

LEMMA LeavesWay ==
    ASSUME WInv, NEW a \in DOMAIN tasks, NEW o, Fails(a, o), Leaves(a, o)
    PROVE  Retires(a) \/ Finally(a) \/ Commits(a) \/ Rejects(a) \/ Delivers(a)
<1>1. o \in Outcomes /\ invocation = "running" /\ IsScope(a)
      /\ tasks[a].phase \in {"run", "await", "refused"} /\ tasks[a].pc <= Len(Body(a))
  <2>1. tasks[a].phase \in {"run", "await", "refused"}
    BY DEF Fails, Ready, Running
  <2>2. tasks[a].pc <= Len(Body(a))
    BY DEF Fails, Ready, Running, WInv, Formed, Shape, Body
  <2> QED
    BY <2>1, <2>2, ComesIs
<1>2. CASE a # Root /\ Retries(a, o)
  <2>1. /\ tasks' = [tasks EXCEPT ![a].phase = "back_off"]
        /\ UNCHANGED <<program, serviceVars, view, journal, invocation, crashes,
                        asked, told, logged>>
    BY <1>2 DEF Leaves
  <2>2. BacksOff(a)
    BY <2>1 DEF BacksOff
  <2> QED
    BY <1>1, <1>2, <2>1, <2>2 DEF Retires
<1>3. CASE ~(a # Root /\ Retries(a, o))
  <2>1. Comes(a, o) /\ ScopeEnds(a, o)
    BY <1>3 DEF Leaves, Comes
  <2> QED
    BY <2>1, ScopeEndsWay
<1> QED
  BY <1>2, <1>3

LEMMA ProceedWay ==
    ASSUME WInv, NEW a \in DOMAIN tasks, NEW o, GoodFor(a, o),
           \/ /\ tasks' = Proceed(a)
              /\ Statement(a).op = "callback" => "state" \in Statement(a).catch /\ o # "ok"
           \/ tasks' = Handed(a) /\ Running(a, "await") /\ Awaited(a) = "ok" /\ o = "ok",
           UNCHANGED <<program, serviceVars, view, journal, invocation, crashes, asked, told>>
    PROVE  Moves(a)
<1>1. o \in Outcomes /\ invocation = "running" /\ IsScope(a)
      /\ tasks[a].phase \in {"run", "await", "refused"} /\ tasks[a].pc <= Len(Body(a))
  <2>1. tasks[a].phase \in {"run", "await", "refused"}
    BY DEF GoodFor, Ready, Running
  <2>2. tasks[a].pc <= Len(Body(a))
    BY DEF GoodFor, Ready, Running, WInv, Formed, Shape, Body
  <2> QED
    BY <2>1, <2>2, ComesIs
<1>2. tasks[a] \in TaskSet /\ tasks[a].handles \in Seq(Address)
  BY DEF WInv, Typed, MapOf, TaskSet
<1>3. ASSUME tasks' = Proceed(a) PROVE Proceeds(a, tasks[a].handles)
  <2> DEFINE h == tasks[a].handles
  <2>1. Proceed(a) = [tasks EXCEPT ![a] = [tasks[a] EXCEPT !.phase = "run",
                          !.pc = tasks[a].pc + 1, !.awaits = {}, !.woken = "none"]]
    BY <1>2 DEF Proceed
  <2>2. [tasks[a] EXCEPT !.phase = "run", !.pc = tasks[a].pc + 1, !.awaits = {},
                         !.woken = "none"]
        = [tasks[a] EXCEPT !.phase = "run", !.pc = tasks[a].pc + 1, !.awaits = {},
                           !.woken = "none", !.handles = h]
    BY <1>2 DEF TaskSet
  <2> QED
    BY <1>3, <2>1, <2>2 DEF Proceeds
<1>4. CASE /\ tasks' = Proceed(a)
           /\ Statement(a).op = "callback" => "state" \in Statement(a).catch /\ o # "ok"
  <2>1. Passes(a, o, tasks[a].handles)
    BY <1>4 DEF Passes
  <2> QED
    BY <1>1, <1>2, <1>3, <1>4, <2>1 DEF Moves
<1>5. CASE tasks' = Handed(a) /\ Running(a, "await") /\ Awaited(a) = "ok"
  <2>1. CASE Statement(a).op # "callback"
    <3>1. tasks' = Proceed(a)
      BY <1>5, <2>1 DEF Handed
    <3> QED
      BY <1>4, <2>1, <3>1
  <2>2. CASE Statement(a).op = "callback"
    <3> DEFINE made == CHOOSE c \in tasks[a].awaits : TRUE
               h == Append(tasks[a].handles, made)
    <3>1. Operations(Statement(a)) = <<Statement(a)>> /\ Last(a, Operations(Statement(a)))
      BY <1>5, <2>2 DEF Operations, WInv, Heard, Awaits, Running
    <3>2. Append(a, tasks[a].next - 1) \in tasks[a].awaits
          /\ tasks[Append(a, tasks[a].next - 1)].stmt = Statement(a)
          /\ tasks[a].awaits = {Append(a, tasks[a].next - 1)}
      <4>1. tasks[a].next \in Position /\ Len(<<Statement(a)>>) = 1
        BY DEF WInv, Typed, MapOf, TaskSet
      <4>2. tasks[a].awaits = {Append(a, tasks[a].next - 1 + i - 1) : i \in 1 .. 1}
            /\ \A i \in 1 .. 1 : tasks[Append(a, tasks[a].next - 1 + i - 1)].stmt = <<Statement(a)>>[i]
        BY <3>1, <4>1 DEF Last
      <4>3. 1 .. 1 = {1} /\ tasks[a].next - 1 + 1 - 1 = tasks[a].next - 1
        BY <4>1 DEF Position
      <4> QED
        BY <4>2, <4>3
    <3>3. made \in tasks[a].awaits /\ tasks[made].stmt = Statement(a)
      BY <3>2
    <3>4. made \in DOMAIN tasks /\ tasks[made].phase = "done" /\ tasks[made].out = "ok"
          /\ made \in DOMAIN tasks /\ made \in Address
      <4>1. made \in DOMAIN tasks
        BY <3>3 DEF WInv, Formed, Shape, Children
      <4> HIDE DEF made
      <4> QED
        BY <1>1, <1>5, <3>3, <4>1, AwaitedIs DEF WInv, Typed, MapOf
    <3> HIDE DEF made
    <3>5. made \in DOMAIN records /\ records[made].op = "callback"
      <4>1. Kind(made) = "callback"
        BY <2>2, <3>3 DEF Kind
      <4> QED
        BY <3>4, <4>1 DEF WInv, HandlesFormed, Handle, KindsFit
    <3>6. h \in Seq(Address) /\ tasks[a].handles \o <<made>> = h
      BY <1>2, <3>4, AppendProperties, AppendIsConcat
    <3>7. Passes(a, o, h)
      <4>1. \E c \in tasks[a].awaits :
               /\ h = Append(tasks[a].handles, c) /\ tasks[c].phase = "done"
               /\ c \in DOMAIN records /\ records[c].op = "callback"
        BY <3>3, <3>4, <3>5
      <4> HIDE DEF h
      <4> QED
        BY <2>2, <4>1 DEF Passes
    <3>8. tasks' = [Proceed(a) EXCEPT ![a].handles = h]
      <4>1. Proceed(a)[a].handles = tasks[a].handles
        BY <1>2 DEF Proceed, TaskSet
      <4>2. tasks' = [Proceed(a) EXCEPT ![a].handles = Proceed(a)[a].handles \o <<made>>]
        BY <1>5, <2>2 DEF Handed, made
      <4> HIDE DEF h
      <4> QED
        BY <3>6, <4>1, <4>2
    <3>9. Proceeds(a, h)
      <4>1. Proceed(a) = [tasks EXCEPT ![a] = [tasks[a] EXCEPT !.phase = "run",
                              !.pc = tasks[a].pc + 1, !.awaits = {}, !.woken = "none"]]
        BY <1>2 DEF Proceed
      <4>2. [[tasks[a] EXCEPT !.phase = "run", !.pc = tasks[a].pc + 1, !.awaits = {},
                             !.woken = "none"] EXCEPT !.handles = h]
            = [tasks[a] EXCEPT !.phase = "run", !.pc = tasks[a].pc + 1, !.awaits = {},
                               !.woken = "none", !.handles = h]
        BY <1>2 DEF TaskSet
      <4> HIDE DEF h
      <4> DEFINE t == [tasks[a] EXCEPT !.phase = "run", !.pc = tasks[a].pc + 1, !.awaits = {},
                             !.woken = "none"]
      <4>3. tasks' = [[tasks EXCEPT ![a] = t] EXCEPT ![a] = [t EXCEPT !.handles = h]]
        <5>1. [tasks EXCEPT ![a] = t][a] = t /\ Proceed(a) = [tasks EXCEPT ![a] = t]
          BY <4>1
        <5> HIDE DEF t
        <5> QED
          BY <3>8, <5>1
      <4>4. [[tasks EXCEPT ![a] = t] EXCEPT ![a] = [t EXCEPT !.handles = h]]
            = [tasks EXCEPT ![a] = [t EXCEPT !.handles = h]]
        <5> HIDE DEF t
        <5> QED
          OBVIOUS
      <4> QED
        BY <4>2, <4>3, <4>4 DEF Proceeds
    <3> QED
      BY <1>1, <1>5, <3>6, <3>7, <3>9 DEF Moves
  <2> QED
    BY <2>1, <2>2
<1> QED
  BY <1>4, <1>5

LEMMA LaunchesWay ==
    ASSUME WInv, NEW a \in DOMAIN tasks, Launches(a)
    PROVE  Way(a)
<1>1. Ready(a) /\ Statement(a).op \notin Plain /\ invocation = "running"
  BY DEF Launches, Plain, Ready, Running
<1> PICK all : all = Operations(Statement(a))
  OBVIOUS
<1>2. all \in Seq(OperationsOver(Bodies[program])) /\ Len(all) \in Nat
  BY <1>1, StatementIs, LenProperties DEF WInv, Ready, Running, Body
<1>3. PICK n \in 0 .. Len(all) :
        /\ ~Changed(a, SubSeq(all, 1, n))
        /\ n < Len(all) => Changes(a, all[n + 1], tasks[a].next + n)
        /\ Launch(a, SubSeq(all, 1, n), IF n < Len(all) THEN "refused" ELSE "await")
        /\ UNCHANGED <<program, serviceVars, view, journal, invocation, crashes, told, logged>>
  BY DEF Launches
<1>4. CASE n < Len(all)
  <2>1. n \in 0 .. Len(all) - 1
    BY <1>2, <1>4
  <2> QED
    BY <1>1, <1>3, <1>4, <2>1 DEF Opens, Way
<1>5. CASE ~(n < Len(all))
  <2>1. n = Len(all)
    BY <1>2, <1>5
  <2>2. SubSeq(all, 1, n) = all
    <3>1. /\ SubSeq(all, 1, n) \in Seq(OperationsOver(Bodies[program]))
          /\ Len(SubSeq(all, 1, n)) = n /\ \A i \in 1 .. n : SubSeq(all, 1, n)[i] = all[i]
      BY <1>2, <2>1, SubSeqProperties
    <3> QED
      BY <1>2, <2>1, <3>1, SeqEqual
  <2> QED
    BY <1>1, <1>3, <1>5, <2>2 DEF Opens, Way
<1> QED
  BY <1>4, <1>5

LEMMA BackOffWay ==
    ASSUME WInv, NEW a \in DOMAIN tasks, BackOff(a)
    PROVE  Way(a)
<1>1. Running(a, "back_off") /\ invocation = "running"
  BY DEF BackOff, Running
<1>2. CASE Changed(a, <<Wait>>)
  <2>1. Comes(a, "state") /\ ScopeEnds(a, "state")
    BY <1>1, <1>2 DEF Comes, BackOff
  <2> QED
    BY <2>1, ScopeEndsWay DEF Way
<1>3. CASE ~Changed(a, <<Wait>>)
  BY <1>1, <1>3 DEF BackOff, Opens, Way
<1> QED
  BY <1>2, <1>3

LEMMA ResumesWay ==
    ASSUME WInv, NEW a \in DOMAIN tasks, Resumes(a)
    PROVE  Way(a)
<1>1. PICK o : /\ Takes(a, o)
               /\ \/ Running(a, "await") /\ o = Awaited(a) /\ o # "none"
                  \/ Running(a, "refused") /\ o = "state"
  BY DEF Resumes
<1>2. invocation = "running" /\ o # "none"
  BY <1>1 DEF Running
<1>3. CASE o \in {"ok"} \cup Statement(a).catch
  <2>1. GoodFor(a, o)
    BY <1>1, <1>3 DEF GoodFor
  <2>2. tasks' = (IF o = "ok" THEN Handed(a) ELSE Proceed(a))
        /\ UNCHANGED <<program, serviceVars, view, journal, invocation, crashes, asked, told>>
    BY <1>1, <1>3 DEF Takes
  <2>3. Statement(a).op = "callback" /\ o # "ok" => "state" \in Statement(a).catch
    <3> SUFFICES ASSUME Statement(a).op = "callback", o # "ok", Running(a, "await"), o = Awaited(a)
                 PROVE  "state" \in Statement(a).catch
      BY <1>1, <1>3
    <3>1. PICK b \in tasks[a].awaits : b \in DOMAIN tasks /\ tasks[b].out = o
      BY <1>2, AwaitedIs
    <3>2. Operations(Statement(a)) = <<Statement(a)>> /\ Last(a, Operations(Statement(a)))
      BY DEF Operations, WInv, Heard, Awaits, Running
    <3>3. tasks[b].stmt = Statement(a)
      <4>1. PICK i \in 1 .. Len(<<Statement(a)>>) :
                tasks[b].stmt = <<Statement(a)>>[i]
        BY <3>1, <3>2 DEF Last
      <4> QED
        BY <4>1
    <3>4. tasks[b].out \in {"none", "ok", "state"}
      BY <3>1, <3>3 DEF Kind, WInv, HandlesFormed, Handle
    <3> QED
      BY <1>2, <1>3, <3>1, <3>4
  <2>4. o = "ok" => Running(a, "await") /\ Awaited(a) = "ok"
    BY <1>1
  <2> QED
    BY <2>1, <2>2, <2>3, <2>4, ProceedWay DEF Way
<1>4. CASE o \notin {"ok"} \cup Statement(a).catch
  <2>1. Fails(a, o) /\ Leaves(a, o)
    BY <1>1, <1>2, <1>4 DEF Fails, Takes
  <2> QED
    BY <2>1, LeavesWay DEF Way
<1> QED
  BY <1>3, <1>4

LEMMA AgainWay ==
    ASSUME WInv, NEW a \in DOMAIN tasks, Again(a)
    PROVE  Way(a)
<1>1. Running(a, "backing_off") /\ invocation = "running" /\ Awaited(a) # "none"
  BY DEF Again, Running
<1>2. CASE Awaited(a) = "ok"
  <2>1. Restarts(a) /\ UNCHANGED <<program, serviceVars, view, journal, invocation, crashes,
                        asked, told, logged>>
    BY <1>2 DEF Again, Restarts
  <2> QED
    BY <1>1, <1>2, <2>1 DEF Repeats, Way
<1>3. CASE Awaited(a) # "ok"
  <2>1. Comes(a, Awaited(a)) /\ ScopeEnds(a, Awaited(a))
    BY <1>1, <1>3 DEF Comes, Again
  <2> QED
    BY <2>1, ScopeEndsWay DEF Way
<1> QED
  BY <1>2, <1>3

LEMMA ReadsWay ==
    ASSUME WInv, NEW a \in DOMAIN tasks, Reads(a)
    PROVE  Way(a)
<1> DEFINE o == ReadOf(a)
<1>1. Ready(a) /\ Statement(a).op \in {"result", "raise"} /\ Statement(a).op # "callback"
  BY DEF Reads
<1>2. CASE o \in {"ok"} \cup Statement(a).catch
  <2>1. GoodFor(a, o)
    BY <1>1, <1>2 DEF GoodFor
  <2>2. tasks' = Proceed(a)
        /\ UNCHANGED <<program, serviceVars, view, journal, invocation, crashes, asked, told>>
    BY <1>2 DEF Reads, ReadOf
  <2> QED
    BY <1>1, <2>1, <2>2, ProceedWay DEF Way
<1>3. CASE o \notin {"ok"} \cup Statement(a).catch
  <2>1. o # "none"
    BY <1>1, ReadIs, RecordedErrors DEF Ready, Running, Outcomes
  <2>2. Fails(a, o) /\ Leaves(a, o)
    BY <1>1, <1>3, <2>1 DEF Fails, Reads, ReadOf
  <2> QED
    BY <2>2, LeavesWay DEF Way
<1> QED
  BY <1>2, <1>3

LEMMA LogsWay ==
    ASSUME WInv, NEW a \in DOMAIN tasks, Logs(a)
    PROVE  Way(a)
<1>1. GoodFor(a, "ok") /\ Statement(a).op # "callback" /\ tasks' = Proceed(a)
      /\ UNCHANGED <<program, serviceVars, view, journal, invocation, crashes, asked, told>>
  BY DEF Logs, GoodFor
<1> QED
  BY <1>1, ProceedWay DEF Way

LEMMA ReturnsWay ==
    ASSUME WInv, NEW a \in DOMAIN tasks, Returns(a)
    PROVE  Way(a)
<1>1. Comes(a, "ok") /\ ScopeEnds(a, "ok")
  BY DEF Returns, Comes, Body
<1> QED
  BY <1>1, ScopeEndsWay DEF Way

LEMMA Ways ==
    ASSUME WInv, NEW a \in DOMAIN tasks, Effect(a)
    PROVE  Way(a)
  BY StepReplaysWay, StepPausesWay, StepStartsWay, StepResumesWay, StepRunsWay,
     ExternalStartsWay, ExternalReplaysWay, CallbackBeginsWay, ScopeReplaysWay,
     ScopeStartsWay, LaunchesWay, BackOffWay, ResumesWay, AgainWay, ReadsWay, LogsWay,
     ReturnsWay
  DEF Effect, Way

----------------------------------------------------------------------------
(* The invariant, kept by each way of a step                               *)

\* The records a task's step leaves as they were, and the one it may write.
Keeps(a) ==
    /\ DOMAIN records \subseteq DOMAIN records' /\ DOMAIN records' \subseteq DOMAIN records \cup {a}
    /\ \A b \in DOMAIN records \ {a} : records'[b] = records[b]
    /\ a \in DOMAIN records' => records'[a].op = Kind(a)
    /\ UNCHANGED <<program, stirred>>

LEMMA FixedReads ==
    ASSUME NEW b, Fixed(b), DOMAIN tasks' = DOMAIN tasks
    PROVE  /\ Kind(b)' = Kind(b) /\ IsScope(b)' = IsScope(b) /\ Body(b)' = Body(b)
           /\ Statement(b)' = Statement(b) /\ Persisted(b)' = Persisted(b)
           /\ Children(b)' = Children(b)
  BY DEF Fixed, Kind, IsScope, Body, Statement, Persisted, Children

LEMMA EndingFormed ==
    ASSUME WInv, NEW a \in DOMAIN tasks, NEW out \in Outcomes, Ending(a, out), UNCHANGED asked
    PROVE  Formed'
<1> DEFINE p == Parent(a)
<1>1. /\ DOMAIN tasks' = DOMAIN tasks
      /\ \A b \in DOMAIN tasks : Fixed(b)
      /\ \A b \in DOMAIN tasks \ {a} :
            tasks'[b].phase = tasks[b].phase /\ tasks'[b].out = tasks[b].out
      /\ tasks'[a].phase = "done" /\ tasks'[a].out = out
      /\ \A b \in DOMAIN tasks \ {p} : tasks'[b].woken = tasks[b].woken
      /\ p \in DOMAIN tasks /\ p # a
      /\ a \notin tasks[p].awaits => tasks'[p].woken = tasks[p].woken
  BY FinishesFields, OwnerIs DEF WInv, Ending
<1>2. SUFFICES ASSUME NEW b \in DOMAIN tasks PROVE Shape(b)' /\ Nested(b)'
  BY <1>1 DEF Formed
<1>3. /\ Kind(b)' = Kind(b) /\ IsScope(b)' = IsScope(b) /\ Body(b)' = Body(b)
      /\ Statement(b)' = Statement(b) /\ Children(b)' = Children(b)
      /\ tasks'[b].awaits = tasks[b].awaits /\ tasks'[b].pc = tasks[b].pc
      /\ tasks'[b].next = tasks[b].next /\ tasks'[b].stmt = tasks[b].stmt
      /\ tasks'[b].parent = tasks[b].parent
  BY <1>1, FixedReads DEF Fixed
<1>4. Shape(b) /\ Nested(b)
  BY DEF WInv, Formed
<1>5. Shape(b)'
  <2>1. CASE b = a
    BY <1>1, <1>3, <1>4, <2>1, RecordedErrors DEF Shape, Ending, Outcomes
  <2>2. CASE b # a
    <3>1. tasks[b].phase \in {"begin", "run"} => tasks'[b].woken = "none"
      BY <1>1, <1>4 DEF Shape
    <3>2. tasks'[b].phase = tasks[b].phase /\ tasks'[b].out = tasks[b].out
      BY <1>1, <2>2
    <3> QED
      BY <1>3, <1>4, <3>1, <3>2 DEF Shape
  <2> QED
    BY <2>1, <2>2
<1>6. Nested(b)'
  <2> SUFFICES ASSUME b # Root PROVE Nested(b)'
    BY DEF Nested
  <2>1. /\ Parent(b) \in DOMAIN tasks /\ IsScope(Parent(b))
        /\ b[Len(b)] < tasks[Parent(b)].next
        /\ tasks[b].parent = Persisted(Parent(b)) /\ b \in DOMAIN asked
        /\ \E place \in asked[b] : place.operation = tasks[b].stmt
    BY <1>4 DEF Nested
  <2>2. IsScope(Parent(b))' /\ Persisted(Parent(b))' = Persisted(Parent(b))
        /\ tasks'[Parent(b)].next = tasks[Parent(b)].next
    BY <1>1, <2>1, FixedReads DEF Fixed
  <2> QED
    BY <1>1, <1>3, <2>1, <2>2 DEF Nested
<1> QED
  BY <1>5, <1>6

LEMMA EndingHeard ==
    ASSUME WInv, NEW a \in DOMAIN tasks, NEW out \in Outcomes, Ending(a, out)
    PROVE  Heard'
<1> DEFINE p == Parent(a)
           hears == out # "ok" /\ a \in tasks[p].awaits /\ tasks[p].woken = "none"
<1>1. /\ DOMAIN tasks' = DOMAIN tasks
      /\ \A b \in DOMAIN tasks : Fixed(b)
      /\ \A b \in DOMAIN tasks \ {a} :
            tasks'[b].phase = tasks[b].phase /\ tasks'[b].out = tasks[b].out
      /\ tasks'[a].phase = "done" /\ tasks'[a].out = out
      /\ \A b \in DOMAIN tasks \ {p} : tasks'[b].woken = tasks[b].woken
      /\ tasks'[p].woken = IF hears THEN out ELSE tasks[p].woken
      /\ p \in DOMAIN tasks /\ p # a
  BY FinishesFields, OwnerIs DEF WInv, Ending
<1>2. SUFFICES ASSUME NEW b \in DOMAIN tasks PROVE Hears(b)' /\ Awaits(b)'
  BY <1>1 DEF Heard
<1>3. /\ Statement(b)' = Statement(b) /\ tasks'[b].awaits = tasks[b].awaits
      /\ tasks'[b].next = tasks[b].next
  BY <1>1, FixedReads DEF Fixed
<1>4. Hears(b) /\ Awaits(b) /\ Shape(b) /\ tasks[b].awaits \subseteq Children(b)
  BY DEF WInv, Heard, Formed, Shape
<1>5. tasks[a].out = "none" /\ out # "none"
  BY RecordedErrors DEF WInv, Formed, Shape, Ending, Outcomes
<1>6. \A c \in tasks[b].awaits : c \in DOMAIN tasks /\ (c = a => b = p)
  BY <1>4 DEF Children
<1>7. Hears(b)'
  <2>1. CASE b = p
    <3>1. CASE hears
      BY <1>1, <1>3, <1>4, <1>5, <1>6, <2>1, <3>1 DEF Hears
    <3>2. CASE ~hears
      BY <1>1, <1>3, <1>4, <1>5, <1>6, <2>1, <3>2 DEF Hears
    <3> QED
      BY <3>1, <3>2
  <2>2. CASE b # p
    BY <1>1, <1>3, <1>4, <1>6, <2>2 DEF Hears
  <2> QED
    BY <2>1, <2>2
<1>8. ASSUME NEW operations \in {Operations(Statement(b)), <<Wait>>}, Last(b, operations)
      PROVE  Last(b, operations)'
  <2> DEFINE first == tasks[b].next - Len(operations)
  <2>1. /\ first \in Position
        /\ tasks[b].awaits = {Append(b, first + i - 1) : i \in 1 .. Len(operations)}
        /\ \A i \in 1 .. Len(operations) : tasks[Append(b, first + i - 1)].stmt = operations[i]
    BY <1>8 DEF Last
  <2>2. \A i \in 1 .. Len(operations) : Append(b, first + i - 1) \in DOMAIN tasks
    BY <1>6, <2>1
  <2>3. \A i \in 1 .. Len(operations) : tasks'[Append(b, first + i - 1)].stmt = operations[i]
    BY <1>1, <2>1, <2>2 DEF Fixed
  <2> QED
    BY <1>3, <2>1, <2>3 DEF Last
<1>9. Awaits(b)'
  <2>1. CASE b = a
    BY <1>1, <2>1 DEF Awaits
  <2>2. CASE b # a
    <3>1. tasks'[b].phase = tasks[b].phase
      BY <1>1, <2>2
    <3> QED
      BY <1>3, <1>4, <1>8, <3>1 DEF Awaits
  <2> QED
    BY <2>1, <2>2
<1> QED
  BY <1>7, <1>9

LEMMA EndingHandles ==
    ASSUME WInv, NEW a \in DOMAIN tasks, NEW out \in Outcomes, Ending(a, out), Keeps(a)
    PROVE  HandlesFormed'
<1>1. /\ DOMAIN tasks' = DOMAIN tasks
      /\ \A b \in DOMAIN tasks : Fixed(b)
      /\ \A b \in DOMAIN tasks \ {a} :
            tasks'[b].phase = tasks[b].phase /\ tasks'[b].out = tasks[b].out
      /\ tasks'[a].phase = "done" /\ tasks'[a].out = out
  BY FinishesFields DEF WInv, Ending
<1>2. SUFFICES ASSUME NEW b \in DOMAIN tasks PROVE Handle(b)' /\ HandlesIn(b)'
  BY <1>1 DEF HandlesFormed
<1>3. Kind(b)' = Kind(b) /\ IsScope(b)' = IsScope(b) /\ Body(b)' = Body(b)
      /\ tasks'[b].handles = tasks[b].handles /\ tasks'[b].pc = tasks[b].pc
  BY <1>1, FixedReads DEF Fixed
<1>4. Handle(b) /\ HandlesIn(b)
  BY DEF WInv, HandlesFormed
<1>5. Handle(b)'
  <2>1. CASE b = a
    BY <1>1, <1>3, <2>1 DEF Handle, Ending
  <2>2. CASE b # a
    BY <1>1, <1>3, <1>4, <2>2 DEF Handle, Keeps
  <2> QED
    BY <2>1, <2>2
<1>6. \A c \in DOMAIN records : records[c].op = "callback" /\ c \in DOMAIN tasks =>
            c \in DOMAIN records' /\ records'[c].op = "callback"
  BY DEF Keeps, WInv, KindsFit
<1>7. HandlesIn(b)'
  <2>1. \A j \in DOMAIN tasks[b].handles :
          LET c == tasks[b].handles[j] IN
          /\ c \in DOMAIN tasks /\ tasks[c].phase = "done"
          /\ c \in DOMAIN records /\ records[c].op = "callback"
    BY <1>4 DEF HandlesIn
  <2>2. \A j \in DOMAIN tasks[b].handles :
          LET c == tasks[b].handles[j] IN
          /\ c \in DOMAIN tasks /\ tasks'[c].phase = "done"
          /\ c \in DOMAIN records' /\ records'[c].op = "callback"
    BY <1>1, <1>6, <2>1
  <2>3. Created(Body(b), tasks[b].pc)' = Created(Body(b), tasks[b].pc)
    BY <1>3
  <2> QED
    BY <1>1, <1>3, <1>4, <2>2, <2>3 DEF HandlesIn
<1> QED
  BY <1>5, <1>7

LEMMA EndingPauses ==
    ASSUME WInv, NEW a \in DOMAIN tasks, NEW out \in Outcomes, Ending(a, out), Keeps(a),
           UNCHANGED invocation
    PROVE  Pauses'
<1>1. /\ DOMAIN tasks' = DOMAIN tasks
      /\ \A b \in DOMAIN tasks \ {a} :
            tasks'[b].phase = tasks[b].phase /\ tasks'[b].out = tasks[b].out
      /\ tasks'[a].phase = "done" /\ tasks'[a].out = out
      /\ \A b \in DOMAIN tasks : tasks'[b].woken \in {tasks[b].woken, out}
  BY FinishesFields DEF WInv, Ending
<1>2. Backed => Backed'
  BY <1>1 DEF Backed, Keeps, Ending
<1>3. a \in DOMAIN records' /\ Open(records'[a]) => Backed'
  BY <1>1 DEF Backed
<1>4. (\E b \in DOMAIN tasks : "pause" \in {tasks'[b].out, tasks'[b].woken})
         => out = "pause" \/ \E b \in DOMAIN tasks : "pause" \in {tasks[b].out, tasks[b].woken}
  BY <1>1
<1>5. (\E b \in DOMAIN tasks : "pause" \in {tasks'[b].out, tasks'[b].woken}) => Backed'
  BY <1>2, <1>3, <1>4 DEF WInv, Pauses, Ending
<1> QED
  BY <1>1, <1>5 DEF Pauses, PendingIsBacked, Ending

LEMMA ToldType ==
    ASSUME WInv, NEW a \in DOMAIN tasks, NEW out \in Outcomes, Tell(a, out)
    PROVE  MapOf(told', SUBSET Outcomes)
<1>1. a \in Address /\ MapOf(told, SUBSET Outcomes)
  BY DEF WInv, Typed, MapOf
<1>2. {out} \cup (IF a \in DOMAIN told THEN told[a] ELSE {}) \in SUBSET Outcomes
  BY <1>1 DEF MapOf
<1> QED
  BY <1>1, <1>2 DEF Tell, With, Only, MapOf

LEMMA WritesRecords ==
    ASSUME WInv, NEW a \in DOMAIN tasks, NEW r \in RecordSet, Writes(a, r)
    PROVE  /\ Keeps(a) /\ a \in DOMAIN records' /\ records'[a] = r
           /\ MapOf(records', RecordSet) /\ MapOf(view', RecordSet)
           /\ view' = records' /\ DOMAIN records' = DOMAIN records \cup {a}
           /\ \A b \in DOMAIN records' : RecordFits(records'[b])
           /\ Root \notin DOMAIN records'
<1>1. /\ records' = [b \in DOMAIN records \cup {a} |-> IF b = a THEN r ELSE records[b]]
      /\ view' = records' /\ UNCHANGED <<program, stirred>> /\ r.op = Kind(a) /\ RecordFits(r)
      /\ a # Root
  BY DEF Writes, With, Only
<1>2. MapOf(records, RecordSet) /\ a \in Address /\ \A b \in DOMAIN records : RecordFits(records[b])
  BY DEF WInv, Typed, MapOf, KindsFit
<1>3. Keeps(a)
  BY <1>1 DEF Keeps
<1>4. MapOf(records', RecordSet)
  BY <1>1, <1>2 DEF MapOf
<1>5. Root \notin DOMAIN records'
  BY <1>1 DEF WInv, Known
<1> QED
  BY <1>1, <1>2, <1>3, <1>4, <1>5

LEMMA EndingTyped ==
    ASSUME WInv, NEW a \in DOMAIN tasks, NEW out \in Outcomes, Ending(a, out), UNCHANGED program
    PROVE  MapOf(tasks', TaskSet') /\ MapOf(told', SUBSET Outcomes)
           /\ DOMAIN tasks' = DOMAIN tasks /\ \A b \in DOMAIN tasks : tasks'[b].stmt = tasks[b].stmt
<1>1. /\ DOMAIN tasks' = DOMAIN tasks /\ tasks' \in [DOMAIN tasks -> TaskSet]
      /\ \A b \in DOMAIN tasks : tasks'[b].stmt = tasks[b].stmt
  BY FinishesFields DEF WInv, Ending, Fixed
<1>2. TaskSet' = TaskSet
  BY DEF TaskSet
<1>3. MapOf(told', SUBSET Outcomes)
  BY ToldType DEF Ending
<1> QED
  BY <1>1, <1>2, <1>3 DEF WInv, Typed, MapOf

\* The part of the invariant that an end leaves as it is, with an update or without.
LEMMA EndingKeeps ==
    ASSUME WInv, NEW a \in DOMAIN tasks, NEW out \in Outcomes, Ending(a, out), Keeps(a),
           UNCHANGED <<program, stirred, outcome, invocation, crashes, asked>>,
           MapOf(records', RecordSet), MapOf(view', RecordSet), journal' \in {"open", "failed"},
           DOMAIN view' = DOMAIN records', stirred \/ view' = records',
           \A b \in DOMAIN records' : RecordFits(records'[b]),
           \A b \in DOMAIN view' : RecordFits(view'[b]) /\ view'[b].op = records'[b].op,
           Root \notin DOMAIN records'
    PROVE  WInv'
<1>1. /\ MapOf(tasks', TaskSet') /\ MapOf(told', SUBSET Outcomes) /\ DOMAIN tasks' = DOMAIN tasks
      /\ \A b \in DOMAIN tasks : tasks'[b].stmt = tasks[b].stmt
  BY EndingTyped
<1>2. PlaceSet' = PlaceSet /\ RecordSet' = RecordSet
  BY DEF PlaceSet, RecordSet
<1>3. Typed'
  BY <1>1, <1>2 DEF WInv, Typed, MapOf
<1>4. Known'
  BY <1>1 DEF WInv, Known, Ending
<1>5. KindsFit'
  <2>1. \A b \in DOMAIN tasks \cap DOMAIN records' : records'[b].op = tasks'[b].stmt.op
    BY <1>1 DEF Keeps, WInv, KindsFit, Kind
  <2> QED
    BY <1>1, <2>1 DEF KindsFit, Kind, RecordFits
<1> QED
  BY <1>3, <1>4, <1>5, EndingFormed, EndingHeard, EndingHandles, EndingPauses DEF WInv

LEMMA CommitsKeep ==
    ASSUME WInv, NEW a \in DOMAIN tasks, Commits(a)
    PROVE  WInv'
<1>1. PICK r \in RecordSet, out \in Outcomes : Writes(a, r) /\ Ending(a, out)
  BY DEF Commits
<1>2. /\ Keeps(a) /\ MapOf(records', RecordSet) /\ MapOf(view', RecordSet) /\ view' = records'
      /\ \A b \in DOMAIN records' : RecordFits(records'[b])
      /\ Root \notin DOMAIN records'
  BY <1>1, WritesRecords
<1>3. UNCHANGED <<program, stirred, outcome, invocation, crashes, asked, journal>>
  BY <1>1 DEF Writes
<1>4. journal' \in {"open", "failed"}
  BY <1>3 DEF WInv, Typed
<1> QED
  BY <1>1, <1>2, <1>3, <1>4, EndingKeeps

\* When nothing is written, the records are as they were.
LEMMA SameRecords ==
    ASSUME WInv, invocation = "running", NEW a \in DOMAIN tasks, UNCHANGED <<program, serviceVars, view>>
    PROVE  /\ Keeps(a) /\ MapOf(records', RecordSet) /\ MapOf(view', RecordSet)
           /\ DOMAIN view' = DOMAIN records' /\ (stirred \/ view' = records')
           /\ \A b \in DOMAIN records' : RecordFits(records'[b])
           /\ \A b \in DOMAIN view' : RecordFits(view'[b]) /\ view'[b].op = records'[b].op
           /\ Root \notin DOMAIN records'
<1>1. records' = records /\ view' = view /\ stirred' = stirred /\ program' = program
  BY DEF serviceVars
<1>2. Keeps(a)
  BY <1>1 DEF Keeps, WInv, KindsFit
<1> QED
  BY <1>1, <1>2 DEF WInv, Typed, Known, KindsFit

LEMMA RejectsKeep ==
    ASSUME WInv, NEW a \in DOMAIN tasks, Rejects(a)
    PROVE  WInv'
<1>1. Ending(a, "state") /\ "state" \in Outcomes /\ invocation = "running"
      /\ journal' = "failed"
      /\ UNCHANGED <<program, serviceVars, view, invocation, crashes, asked>>
  BY DEF Rejects, Ending
<1> QED
  BY <1>1, SameRecords, EndingKeeps DEF serviceVars

LEMMA DeliversKeep ==
    ASSUME WInv, NEW a \in DOMAIN tasks, Delivers(a)
    PROVE  WInv'
<1>1. PICK out \in Outcomes : Ending(a, out)
  BY DEF Delivers
<1>2. /\ invocation = "running" /\ journal' \in {"open", "failed"}
      /\ UNCHANGED <<program, serviceVars, view, journal, invocation, crashes, asked>>
  BY <1>1 DEF Delivers, Ending, WInv, Typed
<1> QED
  BY <1>1, <1>2, SameRecords, EndingKeeps DEF serviceVars

\* So does the beginning of a task.
LEMMA BeginsKeep ==
    ASSUME WInv, NEW a \in DOMAIN tasks, Begins(a), Keeps(a),
           UNCHANGED <<program, stirred, outcome, invocation, crashes, asked, journal>>,
           MapOf(records', RecordSet), MapOf(view', RecordSet),
           DOMAIN view' = DOMAIN records', stirred \/ view' = records',
           \A b \in DOMAIN records' : RecordFits(records'[b]),
           \A b \in DOMAIN view' : RecordFits(view'[b]) /\ view'[b].op = records'[b].op,
           Root \notin DOMAIN records'
    PROVE  WInv'
<1>1. /\ DOMAIN tasks' = DOMAIN tasks /\ tasks' \in [DOMAIN tasks -> TaskSet]
      /\ \A b \in DOMAIN tasks : Fixed(b) /\ tasks'[b].out = tasks[b].out
                                 /\ tasks'[b].woken = tasks[b].woken
      /\ \A b \in DOMAIN tasks \ {a} : tasks'[b].phase = tasks[b].phase
      /\ tasks'[a].phase = "run" /\ tasks[a].phase = "begin" /\ a # Root
      /\ tasks[a].out = "none"
      /\ Kind(a) \in {"step", "condition", "child"} /\ invocation = "running" /\ told' = told
  BY GoesOnFields DEF WInv, Begins, Formed, Shape, IsStep, IsScope
<1>2. /\ TaskSet' = TaskSet /\ PlaceSet' = PlaceSet /\ RecordSet' = RecordSet
  BY DEF TaskSet, PlaceSet, RecordSet
<1>3. Typed'
  BY <1>1, <1>2 DEF WInv, Typed, MapOf
<1>4. Known'
  BY <1>1 DEF WInv, Known, Fixed
<1>5. KindsFit'
  <2>1. \A b \in DOMAIN tasks \cap DOMAIN records' : records'[b].op = tasks'[b].stmt.op
    BY <1>1 DEF Keeps, WInv, KindsFit, Kind, Fixed
  <2> QED
    BY <1>1, <2>1 DEF KindsFit, Kind, RecordFits
<1>6. ASSUME NEW b \in DOMAIN tasks
      PROVE  /\ Kind(b)' = Kind(b) /\ IsScope(b)' = IsScope(b) /\ Body(b)' = Body(b)
             /\ Statement(b)' = Statement(b) /\ Children(b)' = Children(b)
             /\ Persisted(b)' = Persisted(b)
             /\ tasks'[b].awaits = tasks[b].awaits /\ tasks'[b].pc = tasks[b].pc
             /\ tasks'[b].next = tasks[b].next /\ tasks'[b].stmt = tasks[b].stmt
             /\ tasks'[b].parent = tasks[b].parent /\ tasks'[b].handles = tasks[b].handles
  BY <1>1, FixedReads DEF Fixed
<1>7. Formed'
  <2> SUFFICES ASSUME NEW b \in DOMAIN tasks PROVE Shape(b)' /\ Nested(b)'
    BY <1>1 DEF Formed
  <2>1. Shape(b) /\ Nested(b)
    BY DEF WInv, Formed
  <2>2. Shape(b)'
    <3>1. CASE b = a
      BY <1>1, <1>6, <2>1, <3>1 DEF Shape
    <3>2. CASE b # a
      BY <1>1, <1>6, <2>1, <3>2 DEF Shape
    <3> QED
      BY <3>1, <3>2
  <2>3. Nested(b)'
    <3>1. b # Root => Parent(b) \in DOMAIN tasks
      BY <2>1 DEF Nested
    <3> QED
      BY <1>1, <1>6, <2>1, <3>1 DEF Nested
  <2> QED
    BY <2>2, <2>3
<1>8. Heard'
  <2> SUFFICES ASSUME NEW b \in DOMAIN tasks PROVE Hears(b)' /\ Awaits(b)'
    BY <1>1 DEF Heard
  <2>1. Hears(b) /\ Awaits(b) /\ tasks[b].awaits \subseteq DOMAIN tasks
    BY DEF WInv, Heard, Formed, Shape, Children
  <2>2. Hears(b)'
    BY <1>1, <1>6, <2>1 DEF Hears
  <2>3. ASSUME NEW operations \in {Operations(Statement(b)), <<Wait>>}, Last(b, operations)
        PROVE  Last(b, operations)'
    <3> DEFINE first == tasks[b].next - Len(operations)
    <3>1. /\ first \in Position
          /\ tasks[b].awaits = {Append(b, first + i - 1) : i \in 1 .. Len(operations)}
          /\ \A i \in 1 .. Len(operations) : tasks[Append(b, first + i - 1)].stmt = operations[i]
      BY <2>3 DEF Last
    <3>2. \A i \in 1 .. Len(operations) : Append(b, first + i - 1) \in DOMAIN tasks
      BY <2>1, <3>1
    <3>3. \A i \in 1 .. Len(operations) : tasks'[Append(b, first + i - 1)].stmt = operations[i]
      BY <1>6, <3>1, <3>2
    <3> QED
      BY <1>6, <3>1, <3>3 DEF Last
  <2>4. Awaits(b)'
    <3>1. tasks'[b].phase \in {"await", "backing_off"} => tasks'[b].phase = tasks[b].phase
      BY <1>1
    <3> QED
      BY <1>6, <2>1, <2>3, <3>1 DEF Awaits
  <2> QED
    BY <2>2, <2>4
<1>9. HandlesFormed'
  <2> SUFFICES ASSUME NEW b \in DOMAIN tasks PROVE Handle(b)' /\ HandlesIn(b)'
    BY <1>1 DEF HandlesFormed
  <2>1. Handle(b) /\ HandlesIn(b)
    BY DEF WInv, HandlesFormed
  <2>2. Handle(b)'
    BY <1>1, <1>6, <2>1 DEF Handle, Keeps
  <2>3. \A j \in DOMAIN tasks[b].handles :
          LET c == tasks[b].handles[j] IN
          /\ c \in DOMAIN tasks /\ tasks'[c].phase = "done"
          /\ c \in DOMAIN records' /\ records'[c].op = "callback"
    <3> SUFFICES ASSUME NEW j \in DOMAIN tasks[b].handles
                 PROVE LET c == tasks[b].handles[j] IN
                       /\ c \in DOMAIN tasks /\ tasks'[c].phase = "done"
                       /\ c \in DOMAIN records' /\ records'[c].op = "callback"
      OBVIOUS
    <3> DEFINE c == tasks[b].handles[j]
    <3>1. c \in DOMAIN tasks /\ tasks[c].phase = "done"
          /\ c \in DOMAIN records /\ records[c].op = "callback"
      BY <2>1 DEF HandlesIn
    <3> HIDE DEF c
    <3>2. c # a /\ tasks'[c].phase = "done" /\ c \in DOMAIN records' /\ records'[c].op = "callback"
      BY <1>1, <3>1 DEF Keeps
    <3> QED
      BY <3>1, <3>2 DEF c
  <2>4. Created(Body(b), tasks[b].pc)' = Created(Body(b), tasks[b].pc)
    BY <1>6
  <2> QED
    BY <1>1, <1>6, <2>1, <2>2, <2>3, <2>4 DEF HandlesIn
<1>10. Pauses'
  <2>1. Backed => Backed'
    BY <1>1 DEF Backed, Keeps
  <2> QED
    BY <1>1, <2>1 DEF WInv, Pauses, PendingIsBacked
<1> QED
  BY <1>3, <1>4, <1>5, <1>7, <1>8, <1>9, <1>10 DEF WInv

LEMMA StartsKeep ==
    ASSUME WInv, NEW a \in DOMAIN tasks, Starts(a)
    PROVE  WInv'
<1>1. PICK r \in RecordSet : Writes(a, r) /\ Begins(a)
  BY DEF Starts
<1>2. /\ Keeps(a) /\ MapOf(records', RecordSet) /\ MapOf(view', RecordSet) /\ view' = records'
      /\ \A b \in DOMAIN records' : RecordFits(records'[b])
      /\ Root \notin DOMAIN records'
  BY <1>1, WritesRecords
<1>3. UNCHANGED <<program, stirred, outcome, invocation, crashes, asked, journal>>
  BY <1>1 DEF Writes
<1> QED
  BY <1>1, <1>2, <1>3, BeginsKeep

LEMMA EntersKeep ==
    ASSUME WInv, NEW a \in DOMAIN tasks, Enters(a)
    PROVE  WInv'
<1>1. /\ Begins(a) /\ invocation = "running"
      /\ UNCHANGED <<program, serviceVars, view, journal, invocation, crashes, asked>>
  BY DEF Enters, Begins
<1> QED
  BY <1>1, SameRecords, BeginsKeep DEF serviceVars

\* A step of a scope's own code changes no other task.
LEMMA OwnStepKeeps ==
    ASSUME WInv, invocation = "running", NEW a \in DOMAIN tasks, IsScope(a),
           DOMAIN tasks' = DOMAIN tasks, tasks' \in [DOMAIN tasks -> TaskSet],
           \A b \in DOMAIN tasks \ {a} : tasks'[b] = tasks[b],
           tasks'[a].stmt = tasks[a].stmt, tasks'[a].parent = tasks[a].parent,
           tasks'[a].out = tasks[a].out, tasks'[a].next = tasks[a].next,
           tasks[a].phase # "done", tasks'[a].phase # "done",
           tasks'[a].woken \in {"none", tasks[a].woken},
           Shape(a)', Hears(a)', Awaits(a)', HandlesIn(a)',
           UNCHANGED <<program, serviceVars, view, journal, invocation, crashes, asked, told>>
    PROVE  WInv'
<1>1. /\ TaskSet' = TaskSet /\ PlaceSet' = PlaceSet /\ RecordSet' = RecordSet
  BY DEF TaskSet, PlaceSet, RecordSet
<1>2. UNCHANGED <<program, records, outcome, stirred, view, journal, invocation, crashes, asked,
                  told>>
  BY DEF serviceVars
<1>3. Typed'
  BY <1>1, <1>2 DEF WInv, Typed, MapOf
<1>4. Known'
  BY <1>2 DEF WInv, Known
<1>5. KindsFit'
  <2>1. \A b \in DOMAIN tasks \cap DOMAIN records' : records'[b].op = tasks'[b].stmt.op
    BY <1>2 DEF WInv, KindsFit, Kind
  <2> QED
    BY <1>2, <2>1 DEF WInv, KindsFit, Kind, RecordFits
<1>6. ASSUME NEW b \in DOMAIN tasks
      PROVE  /\ Kind(b)' = Kind(b) /\ IsScope(b)' = IsScope(b) /\ Persisted(b)' = Persisted(b)
             /\ Children(b)' = Children(b) /\ tasks'[b].stmt = tasks[b].stmt
             /\ tasks'[b].next = tasks[b].next /\ tasks'[b].parent = tasks[b].parent
             /\ tasks'[b].out = tasks[b].out
  BY DEF Kind, IsScope, Persisted, Children
<1>7. ASSUME NEW b \in DOMAIN tasks, b # a
      PROVE  /\ Body(b)' = Body(b) /\ Statement(b)' = Statement(b)
             /\ tasks'[b] = tasks[b]
  BY <1>7 DEF Body, Statement
<1>8. Formed'
  <2> SUFFICES ASSUME NEW b \in DOMAIN tasks PROVE Shape(b)' /\ Nested(b)'
    BY DEF Formed
  <2>1. Shape(b) /\ Nested(b)
    BY DEF WInv, Formed
  <2>2. Shape(b)'
    <3>1. CASE b = a
      BY <3>1
    <3>2. CASE b # a
      BY <1>6, <1>7, <2>1, <3>2 DEF Shape
    <3> QED
      BY <3>1, <3>2
  <2>3. Nested(b)'
    <3>1. b # Root => Parent(b) \in DOMAIN tasks
      BY <2>1 DEF Nested
    <3> QED
      BY <1>2, <1>6, <2>1, <3>1 DEF Nested
  <2> QED
    BY <2>2, <2>3
<1>9. Heard'
  <2> SUFFICES ASSUME NEW b \in DOMAIN tasks, b # a PROVE Hears(b)' /\ Awaits(b)'
    BY DEF Heard
  <2>1. Hears(b) /\ Awaits(b) /\ tasks[b].awaits \subseteq DOMAIN tasks
    BY DEF WInv, Heard, Formed, Shape, Children
  <2>2. Hears(b)'
    BY <1>6, <1>7, <2>1 DEF Hears
  <2>3. ASSUME NEW operations \in {Operations(Statement(b)), <<Wait>>}, Last(b, operations)
        PROVE  Last(b, operations)'
    <3> DEFINE first == tasks[b].next - Len(operations)
    <3>1. /\ first \in Position
          /\ tasks[b].awaits = {Append(b, first + i - 1) : i \in 1 .. Len(operations)}
          /\ \A i \in 1 .. Len(operations) : tasks[Append(b, first + i - 1)].stmt = operations[i]
      BY <2>3 DEF Last
    <3>2. \A i \in 1 .. Len(operations) : Append(b, first + i - 1) \in DOMAIN tasks
      BY <2>1, <3>1
    <3>3. \A i \in 1 .. Len(operations) : tasks'[Append(b, first + i - 1)].stmt = operations[i]
      BY <1>6, <3>1, <3>2
    <3> QED
      BY <1>7, <3>1, <3>3 DEF Last
  <2>4. Awaits(b)'
    BY <1>7, <2>1, <2>3 DEF Awaits
  <2> QED
    BY <2>2, <2>4
<1>10. HandlesFormed'
  <2> SUFFICES ASSUME NEW b \in DOMAIN tasks PROVE Handle(b)' /\ HandlesIn(b)'
    BY DEF HandlesFormed
  <2>1. Handle(b) /\ HandlesIn(b)
    BY DEF WInv, HandlesFormed
  <2>2. Handle(b)'
    BY <1>2, <1>6, <2>1 DEF Handle
  <2>3. HandlesIn(b)'
    <3>1. CASE b = a
      BY <3>1
    <3>2. CASE b # a
      <4>1. \A j \in DOMAIN tasks[b].handles :
              LET c == tasks[b].handles[j] IN
              /\ c \in DOMAIN tasks /\ tasks'[c].phase = "done"
              /\ c \in DOMAIN records /\ records[c].op = "callback"
        <5>1. \A c \in DOMAIN tasks : tasks[c].phase = "done" => tasks'[c].phase = "done"
          BY <1>7
        <5> QED
          BY <2>1, <5>1 DEF HandlesIn
      <4>2. Created(Body(b), tasks[b].pc)' = Created(Body(b), tasks[b].pc)
        BY <1>7, <3>2
      <4> QED
        BY <1>2, <1>6, <1>7, <2>1, <3>2, <4>1, <4>2 DEF HandlesIn
    <3> QED
      BY <3>1, <3>2
  <2> QED
    BY <2>2, <2>3
<1>11. Pauses'
  <2>1. \A c \in DOMAIN tasks : tasks[c].phase = "done" => tasks'[c].phase = "done"
    BY <1>7
  <2>2. Backed => Backed'
    BY <1>2, <2>1 DEF Backed
  <2>3. (\E b \in DOMAIN tasks : "pause" \in {tasks'[b].out, tasks'[b].woken})
         => \E b \in DOMAIN tasks : "pause" \in {tasks[b].out, tasks[b].woken}
    BY <1>7
  <2> QED
    BY <1>2, <2>2, <2>3 DEF WInv, Pauses, PendingIsBacked
<1> QED
  BY <1>3, <1>4, <1>5, <1>8, <1>9, <1>10, <1>11 DEF WInv

\* Fields of a scope that is neither done nor in begin.
LEMMA ScopeFields ==
    ASSUME WInv, NEW a \in DOMAIN tasks
    PROVE  /\ tasks[a] \in TaskSet /\ tasks[a].pc \in Position /\ tasks[a].next \in Position
           /\ tasks[a].attempt \in Position /\ tasks[a].handles \in Seq(Address)
           /\ tasks[a].phase # "done" => tasks[a].out = "none"
           /\ a = Root => tasks[a].phase \in {"run", "await", "refused"}
  BY DEF WInv, Typed, MapOf, TaskSet, Formed, Shape

LEMMA MovesKeep ==
    ASSUME WInv, NEW a \in DOMAIN tasks, Moves(a)
    PROVE  WInv'
<1>1. PICK o \in Outcomes, handles \in Seq(Address) : Passes(a, o, handles) /\ Proceeds(a, handles)
  BY DEF Moves
<1>2. /\ IsScope(a) /\ tasks[a].phase \in {"run", "await", "refused"} /\ tasks[a].pc <= Len(Body(a))
      /\ UNCHANGED <<program, serviceVars, view, journal, invocation, crashes, asked, told>>
      /\ invocation = "running" /\ tasks[a].out = "none" /\ tasks[a].pc \in Position
  BY ScopeFields DEF Moves
<1>3. /\ DOMAIN tasks' = DOMAIN tasks /\ tasks' \in [DOMAIN tasks -> TaskSet]
      /\ \A b \in DOMAIN tasks \ {a} : tasks'[b] = tasks[b]
      /\ tasks'[a].phase = "run" /\ tasks'[a].pc = tasks[a].pc + 1
      /\ tasks'[a].awaits = {} /\ tasks'[a].woken = "none"
      /\ tasks'[a].handles = handles /\ tasks'[a].stmt = tasks[a].stmt
      /\ tasks'[a].parent = tasks[a].parent /\ tasks'[a].out = tasks[a].out
      /\ tasks'[a].next = tasks[a].next /\ tasks'[a].attempt = tasks[a].attempt
  BY <1>1, ProceedsFields DEF WInv
<1>4. Kind(a)' = Kind(a) /\ IsScope(a)' /\ Body(a)' = Body(a)
  BY <1>2, <1>3 DEF Kind, IsScope, Body
<1>5. Shape(a)'
  <2>1. Len(Body(a)) \in Nat /\ Kind(a) = "child"
    BY <1>2, OperationIs, LenProperties DEF Body, WInv, IsScope
  <2> QED
    BY <1>2, <1>3, <1>4, <2>1 DEF Shape, Position
<1>6. Hears(a)' /\ Awaits(a)'
  BY <1>3 DEF Hears, Awaits
<1>7. HandlesIn(a)'
  <2> DEFINE created == Created(Body(a), tasks[a].pc)
             more == Created(Body(a), tasks[a].pc + 1)
  <2>1. /\ (\A j \in created : "state" \notin Body(a)[j].catch)
              => Cardinality(created) <= Len(tasks[a].handles)
        /\ \A j \in DOMAIN tasks[a].handles :
              LET c == tasks[a].handles[j] IN
              /\ c \in DOMAIN tasks /\ tasks[c].phase = "done"
              /\ c \in DOMAIN records /\ records[c].op = "callback"
    BY <1>2 DEF WInv, HandlesFormed, HandlesIn
  <2>2. more = IF Statement(a).op = "callback" THEN created \cup {tasks[a].pc} ELSE created
    <3>1. tasks[a].pc \in Nat \ {0} /\ Statement(a) = Body(a)[tasks[a].pc]
      BY <1>2 DEF Position, Statement, Body
    <3>2. 1 .. tasks[a].pc + 1 - 1 = (1 .. tasks[a].pc - 1) \cup {tasks[a].pc}
      BY <3>1
    <3> QED
      BY <3>1, <3>2 DEF Created
  <2>3. IsFiniteSet(created) /\ tasks[a].pc \notin created
    <3>1. created \subseteq 1 .. tasks[a].pc - 1 /\ tasks[a].pc - 1 \in Int
      BY <1>2 DEF Created, Position
    <3>2. IsFiniteSet(1 .. tasks[a].pc - 1)
      BY <3>1, FS_Interval
    <3> QED
      BY <1>2, <3>1, <3>2, FS_Subset DEF Position
  <2>4. tasks[a].handles \in Seq(Address) /\ Len(tasks[a].handles) \in Nat
    BY ScopeFields, LenProperties
  <2>5. (\A j \in more : "state" \notin Body(a)[j].catch) => Cardinality(more) <= Len(handles)
    <3> SUFFICES ASSUME \A j \in more : "state" \notin Body(a)[j].catch
                 PROVE  Cardinality(more) <= Len(handles)
      OBVIOUS
    <3>1. Cardinality(created) <= Len(tasks[a].handles) /\ Cardinality(created) \in Nat
      BY <2>1, <2>2, <2>3, FS_CardinalityType
    <3>2. CASE Statement(a).op # "callback"
      BY <1>1, <2>2, <3>1, <3>2 DEF Passes
    <3>3. CASE Statement(a).op = "callback"
      <4>1. Body(a)[tasks[a].pc] = Statement(a) /\ tasks[a].pc \in more
        BY <2>2, <3>3 DEF Statement, Body
      <4>2. PICK b \in tasks[a].awaits : handles = Append(tasks[a].handles, b)
        BY <1>1, <3>3, <4>1 DEF Passes
      <4>3. Len(handles) = Len(tasks[a].handles) + 1
        <5>1. b \in Address
          BY DEF WInv, Typed, MapOf, Formed, Shape, Children
        <5> QED
          BY <2>4, <4>2, <5>1, AppendProperties
      <4>4. Cardinality(more) = Cardinality(created) + 1
        BY <2>2, <2>3, <3>3, FS_AddElement
      <4> QED
        BY <2>4, <3>1, <4>3, <4>4
    <3> QED
      BY <3>2, <3>3
  <2>6. \A j \in DOMAIN handles :
          LET c == handles[j] IN
          /\ c \in DOMAIN tasks /\ tasks[c].phase = "done"
          /\ c \in DOMAIN records /\ records[c].op = "callback"
    <3>1. CASE handles = tasks[a].handles
      BY <2>1, <3>1
    <3>2. CASE handles # tasks[a].handles
      <4>1. PICK b \in tasks[a].awaits :
                 /\ handles = Append(tasks[a].handles, b)
                 /\ tasks[b].phase = "done" /\ b \in DOMAIN records
                 /\ records[b].op = "callback"
        BY <1>1, <3>2 DEF Passes
      <4>2. b \in DOMAIN tasks
        BY DEF WInv, Formed, Shape, Children
      <4>3. /\ DOMAIN handles = 1 .. Len(tasks[a].handles) + 1
            /\ DOMAIN tasks[a].handles = 1 .. Len(tasks[a].handles)
            /\ \A j \in 1 .. Len(tasks[a].handles) : handles[j] = tasks[a].handles[j]
            /\ handles[Len(tasks[a].handles) + 1] = b
        BY <2>4, <4>1, LenProperties, AppendProperties
      <4> QED
        BY <2>1, <2>4, <4>1, <4>2, <4>3
    <3> QED
      BY <3>1, <3>2
  <2>7. \A c \in DOMAIN tasks : tasks[c].phase = "done" => tasks'[c].phase = "done"
    BY <1>2, <1>3
  <2>8. records' = records
    BY <1>2 DEF serviceVars
  <2>9. Created(Body(a), tasks[a].pc)' = more
    BY <1>3, <1>4
  <2> HIDE DEF created, more
  <2> QED
    BY <1>3, <1>4, <2>5, <2>6, <2>7, <2>8, <2>9 DEF HandlesIn
<1> QED
  BY <1>2, <1>3, <1>5, <1>6, <1>7, OwnStepKeeps

LEMMA RetiresKeep ==
    ASSUME WInv, NEW a \in DOMAIN tasks, Retires(a)
    PROVE  WInv'
<1>2. /\ IsScope(a) /\ tasks[a].phase \in {"run", "await", "refused"} /\ tasks[a].pc <= Len(Body(a))
      /\ UNCHANGED <<program, serviceVars, view, journal, invocation, crashes, asked, told>>
      /\ invocation = "running" /\ tasks[a].out = "none" /\ tasks[a].pc \in Position
      /\ a # Root
  BY ScopeFields DEF Retires
<1>3. /\ DOMAIN tasks' = DOMAIN tasks /\ tasks' \in [DOMAIN tasks -> TaskSet]
      /\ \A b \in DOMAIN tasks \ {a} : tasks'[b] = tasks[b]
      /\ tasks'[a].phase = "back_off" /\ Fixed(a) /\ tasks'[a].out = tasks[a].out
      /\ tasks'[a].woken = tasks[a].woken
  BY BacksOffFields DEF WInv, Retires
<1>4. Kind(a)' = Kind(a) /\ IsScope(a)' /\ Body(a)' = Body(a) /\ Children(a)' = Children(a)
  BY <1>2, <1>3, FixedReads
<1>5. /\ tasks'[a].awaits = tasks[a].awaits /\ tasks'[a].pc = tasks[a].pc
      /\ tasks'[a].handles = tasks[a].handles /\ tasks'[a].next = tasks[a].next
      /\ tasks'[a].stmt = tasks[a].stmt /\ tasks'[a].parent = tasks[a].parent
  BY <1>3 DEF Fixed
<1>6. Shape(a) /\ Hears(a) /\ HandlesIn(a)
  BY DEF WInv, Formed, Heard, HandlesFormed
<1>7. Shape(a)'
  BY <1>2, <1>3, <1>4, <1>5, <1>6 DEF Shape
<1>8. Hears(a)' /\ Awaits(a)'
  <2>1. \A b \in tasks[a].awaits : b \in DOMAIN tasks /\ tasks'[b].out = tasks[b].out
    BY <1>3, <1>6 DEF Shape, Children
  <2> QED
    BY <1>3, <1>5, <1>6, <2>1 DEF Hears, Awaits
<1>9. HandlesIn(a)'
  <2>1. \A c \in DOMAIN tasks : tasks[c].phase = "done" => tasks'[c].phase = "done"
    BY <1>2, <1>3
  <2>2. records' = records
    BY <1>2 DEF serviceVars
  <2>3. Created(Body(a), tasks[a].pc)' = Created(Body(a), tasks[a].pc)
    BY <1>4, <1>5
  <2>4. \A j \in DOMAIN tasks[a].handles :
          LET c == tasks[a].handles[j] IN
          /\ c \in DOMAIN tasks /\ tasks'[c].phase = "done"
          /\ c \in DOMAIN records /\ records[c].op = "callback"
    BY <1>6, <2>1 DEF HandlesIn
  <2>5. (\A j \in Created(Body(a), tasks[a].pc) : "state" \notin Body(a)[j].catch)
           => Cardinality(Created(Body(a), tasks[a].pc)) <= Len(tasks[a].handles)
    BY <1>2, <1>6 DEF HandlesIn
  <2> QED
    BY <1>3, <1>4, <1>5, <2>2, <2>3, <2>4, <2>5 DEF HandlesIn
<1> QED
  BY <1>2, <1>3, <1>5, <1>7, <1>8, <1>9, OwnStepKeeps

LEMMA RepeatsKeep ==
    ASSUME WInv, NEW a \in DOMAIN tasks, Repeats(a)
    PROVE  WInv'
<1>2. /\ IsScope(a) /\ tasks[a].phase = "backing_off"
      /\ UNCHANGED <<program, serviceVars, view, journal, invocation, crashes, asked, told>>
      /\ invocation = "running" /\ tasks[a].out = "none" /\ a # Root
  BY ScopeFields DEF Repeats, Running, WInv, Formed, Shape
<1>3. /\ DOMAIN tasks' = DOMAIN tasks /\ tasks' \in [DOMAIN tasks -> TaskSet]
      /\ \A b \in DOMAIN tasks \ {a} : tasks'[b] = tasks[b]
      /\ tasks'[a].phase = "run" /\ tasks'[a].pc = 1
      /\ tasks'[a].awaits = {} /\ tasks'[a].woken = "none"
      /\ tasks'[a].stmt = tasks[a].stmt
      /\ tasks'[a].parent = tasks[a].parent /\ tasks'[a].out = tasks[a].out
      /\ tasks'[a].next = tasks[a].next
  BY RestartsFields DEF WInv, Repeats
<1>4. Kind(a)' = Kind(a) /\ IsScope(a)' /\ Body(a)' = Body(a) /\ Kind(a) = "child"
  BY <1>2, <1>3 DEF Kind, IsScope, Body
<1>5. Shape(a)'
  <2>1. Len(Body(a)) \in Nat
    BY <1>2, OperationIs, LenProperties DEF Body, WInv
  <2>2. tasks'[a].pc <= Len(Body(a)') + 1
    BY <1>3, <1>4, <2>1
  <2>3. tasks'[a].awaits \subseteq Children(a)'
    BY <1>3
  <2>4. (tasks'[a].phase = "done") = (tasks'[a].out # "none")
    BY <1>2, <1>3
  <2>5. Kind(a)' \in {"step", "condition", "child"}
    BY <1>4
  <2> QED
    BY <1>3, <2>2, <2>3, <2>4, <2>5 DEF Shape
<1>6. Hears(a)' /\ Awaits(a)'
  BY <1>3 DEF Hears, Awaits
<1>7. HandlesIn(a)'
  <2>1. Created(Body(a)', 1) = {}
    BY DEF Created
  <2>2. Cardinality({}) = 0
    BY FS_EmptySet
  <2>3. tasks'[a].handles = <<>>
    BY RestartsFields DEF WInv, Repeats
  <2>4. Len(tasks'[a].handles) = 0 /\ DOMAIN tasks'[a].handles = {}
    BY <2>3
  <2>5. Created(Body(a), tasks[a].pc)' = {}
    BY <1>3, <1>4, <2>1
  <2> QED
    BY <2>2, <2>4, <2>5 DEF HandlesIn
<1> QED
  BY <1>2, <1>3, <1>5, <1>6, <1>7, OwnStepKeeps

----------------------------------------------------------------------------
(* What a scope launches                                                   *)

Reserved(a, count) == {Append(a, tasks[a].next + i - 1) : i \in 1 .. count}
PlaceOf(a, phase, i, operation) ==
    [phase |-> IF phase = "refused" THEN "await" ELSE phase,
     attempt |-> tasks[a].attempt, pc |-> tasks[a].pc, part |-> i,
     operation |-> operation]

LEMMA Positions ==
    /\ \A n, k \in Position : n + k \in Position
    /\ \A n \in Position, m \in Nat :
          /\ n + m \in Position
          /\ \A i \in 1 .. m :
                /\ n + i - 1 \in Nat /\ n + i - 1 >= n /\ n + i - 1 \in Position
                /\ n + i - 1 - n + 1 = i /\ i \in Position
  BY DEF Position

LEMMA PartOf ==
    ASSUME NEW b, NEW n \in Position, NEW m \in Nat, NEW i \in 1 .. m, b[Len(b)] = n + i - 1
    PROVE  b[Len(b)] - n + 1 = i
  BY DEF Position

LEMMA TaskType ==
    ASSUME NEW operation \in OperationsOver(Bodies[program]), NEW parent \in Address
    PROVE  /\ Task(operation, parent) \in TaskSet
           /\ Task(operation, parent).stmt = operation /\ Task(operation, parent).parent = parent
           /\ Task(operation, parent).phase = "begin" /\ Task(operation, parent).out = "none"
           /\ Task(operation, parent).awaits = {} /\ Task(operation, parent).woken = "none"
           /\ Task(operation, parent).next = 1 /\ Task(operation, parent).pc = 1
           /\ Task(operation, parent).attempt = 1
           /\ Len(Task(operation, parent).handles) = 0
           /\ DOMAIN Task(operation, parent).handles = {}
<1>1. <<>> \in Seq(Address) /\ {} \in SUBSET Address /\ 1 \in Position /\ Len(<<>>) = 0
      /\ DOMAIN <<>> = {}
  BY DEF Position
<1>2. Task(operation, parent).handles = <<>>
  BY DEF Task
<1>3. Task(operation, parent) \in TaskSet
  BY <1>1 DEF Task, TaskSet, Phases
<1>4. Len(Task(operation, parent).handles) = 0 /\ DOMAIN Task(operation, parent).handles = {}
  BY <1>1, <1>2
<1> HIDE DEF Address
<1> QED
  BY <1>3, <1>4 DEF Task

LEMMA Fresh ==
    ASSUME WInv, invocation = "running", NEW a \in DOMAIN tasks, NEW k \in Nat, k >= tasks[a].next
    PROVE  k \in Position /\ Append(a, k) \in Address /\ Append(a, k) \notin DOMAIN tasks
<1>1. a \in Address /\ tasks[a].next \in Position
  BY ScopeFields DEF WInv, Typed, MapOf
<1>2. k \in Position
  BY <1>1 DEF Position
<1>3. /\ Append(a, k) \in Address /\ Append(a, k) # Root
      /\ Append(a, k)[Len(Append(a, k))] = k /\ Parent(Append(a, k)) = a
  BY <1>1, <1>2, AppendParent
<1>4. ASSUME Append(a, k) \in DOMAIN tasks PROVE FALSE
  <2>1. Nested(Append(a, k))
    BY <1>4 DEF WInv, Formed
  <2>2. k < tasks[a].next
    BY <1>3, <2>1 DEF Nested
  <2> QED
    BY <1>1, <2>2 DEF Position
<1> QED
  BY <1>2, <1>3, <1>4

\* A launch: what becomes of the tasks, and of the places.
Advance(phase, count) == IF phase = "refused" THEN count + 1 ELSE count
LaunchedTasks(a, operations, phase) ==
    LET next == tasks[a].next
        count == Len(operations)
        reserved == Reserved(a, count)
    IN /\ next \in Position /\ count \in Nat
       /\ reserved \subseteq Address /\ reserved \cap DOMAIN tasks = {}
       /\ DOMAIN tasks' = DOMAIN tasks \cup reserved
       /\ \A b \in DOMAIN tasks \ {a} : tasks'[b] = tasks[b]
       /\ tasks'[a].stmt = tasks[a].stmt /\ tasks'[a].parent = tasks[a].parent
       /\ tasks'[a].out = tasks[a].out /\ tasks'[a].pc = tasks[a].pc
       /\ tasks'[a].attempt = tasks[a].attempt /\ tasks'[a].handles = tasks[a].handles
       /\ tasks'[a].phase = phase /\ tasks'[a].awaits = reserved
       /\ tasks'[a].woken = "none" /\ tasks'[a].next = next + Advance(phase, count)
       /\ \A i \in 1 .. count :
             tasks'[Append(a, next + i - 1)] = Task(operations[i], Persisted(a))
       /\ Persisted(a) \in Address
       /\ \A i \in 1 .. count : operations[i] \in OperationsOver(Bodies[program])
       /\ MapOf(tasks', TaskSet)
LaunchedPlaces(a, operations, phase) ==
    LET next == tasks[a].next
        count == Len(operations)
        reserved == Reserved(a, count)
        before(b) == IF b \in DOMAIN asked THEN asked[b] ELSE {}
    IN /\ DOMAIN asked' = DOMAIN asked \cup reserved
       /\ \A b \in DOMAIN asked \ reserved : asked'[b] = asked[b]
       /\ \A i \in 1 .. count : asked'[Append(a, next + i - 1)] =
             before(Append(a, next + i - 1)) \cup {PlaceOf(a, phase, i, operations[i])}
       /\ MapOf(asked', SUBSET PlaceSet)

LEMMA LaunchTasks ==
    ASSUME WInv, invocation = "running", NEW a \in DOMAIN tasks,
           NEW operations \in Seq(OperationsOver(Bodies[program])),
           NEW phase \in {"await", "refused", "backing_off"}, Launch(a, operations, phase)
    PROVE  LaunchedTasks(a, operations, phase)
<1> DEFINE scope == tasks[a]
           next == scope.next
           count == Len(operations)
           taken == IF phase = "refused" THEN count + 1 ELSE count
           part(b) == b[Len(b)] - scope.next + 1
           reserved == {Append(a, scope.next + i - 1) : i \in 1 .. count}
           held == IF scope.cursor THEN scope.remaining
                   ELSE {b \in DOMAIN view : view[b].parent = Persisted(a)}
           replays == (IF scope.cursor THEN scope.replaying ELSE held # {})
                      /\ reserved \subseteq DOMAIN view
           launched == [scope EXCEPT
                        !.phase = phase, !.awaits = reserved, !.woken = "none",
                        !.cursor = TRUE, !.next = @ + taken,
                        !.remaining = held \ reserved, !.replaying = replays]
           born == [b \in reserved |-> Task(operations[part(b)], Persisted(a))]
<1>1. a \in Address /\ scope \in TaskSet /\ next \in Position
  BY ScopeFields DEF WInv, Typed, MapOf
<1>2. count \in Nat /\ \A i \in 1 .. count : operations[i] \in OperationsOver(Bodies[program])
  BY LenProperties, ElementOfSeq
<1>3. \A i \in 1 .. count : /\ next + i - 1 \in Nat /\ next + i - 1 >= next
                            /\ next + i - 1 \in Position
  BY Positions, <1>1, <1>2
<1>4. \A i \in 1 .. count : /\ Append(a, next + i - 1) \in Address
                            /\ Append(a, next + i - 1) \notin DOMAIN tasks
  BY <1>3, Fresh
<1>5. \A i \in 1 .. count : part(Append(a, next + i - 1)) = i
  <2> SUFFICES ASSUME NEW i \in 1 .. count PROVE part(Append(a, next + i - 1)) = i
    OBVIOUS
  <2>1. Append(a, next + i - 1)[Len(Append(a, next + i - 1))] = next + i - 1
    BY <1>1, <1>3, AppendParent
  <2>2. part(Append(a, next + i - 1)) = i
    BY <1>1, <1>2, <2>1, PartOf
  <2> QED
    BY <2>2
<1>6. tasks' = With([tasks EXCEPT ![a] = launched], born)
  BY DEF Launch
<1>7. Persisted(a) \in Address
  BY <1>1 DEF Persisted, TaskSet
<1>8. reserved \subseteq Address /\ reserved \cap DOMAIN tasks = {} /\ reserved = Reserved(a, count)
  BY <1>4 DEF Reserved
<1>a. taken = Advance(phase, count) /\ taken \in Nat
  <2> HIDE DEF count
  <2> QED
    BY <1>2 DEF Advance
<1> HIDE DEF taken
<1>9. launched \in TaskSet
  <2>1. held \ reserved \in SUBSET Address
    BY <1>1 DEF TaskSet, WInv, Typed, MapOf
  <2>2. replays \in BOOLEAN
    BY <1>1 DEF TaskSet
  <2>3. reserved \in SUBSET Address /\ next + taken \in Position
    <3> HIDE DEF reserved
    <3> QED
      BY <1>1, <1>a, <1>8, Positions
  <2>4. scope.next + taken \in Position
    BY <2>3
  <2> HIDE DEF held, replays, reserved, count
  <2> QED
    BY <1>1, <2>1, <2>2, <2>3, <2>4 DEF TaskSet, Phases
<1>10. /\ launched.stmt = scope.stmt /\ launched.parent = scope.parent
       /\ launched.out = scope.out /\ launched.pc = scope.pc
       /\ launched.attempt = scope.attempt /\ launched.handles = scope.handles
       /\ launched.phase = phase /\ launched.awaits = reserved
       /\ launched.woken = "none" /\ launched.next = next + taken
  <2> HIDE DEF held, replays, reserved, count
  <2> QED
    BY <1>1 DEF TaskSet
<1> HIDE DEF launched
<1>11. /\ DOMAIN tasks' = DOMAIN tasks \cup reserved
       /\ tasks' = [b \in DOMAIN tasks \cup reserved |->
                        IF b \in reserved THEN born[b] ELSE IF b = a THEN launched ELSE tasks[b]]
  <2> HIDE DEF reserved, part
  <2> QED
    BY <1>6 DEF With
<1>12. \A b \in reserved : tasks'[b] = Task(operations[part(b)], Persisted(a))
  <2> HIDE DEF reserved, part
  <2> QED
    BY <1>11
<1>13. \A i \in 1 .. count : tasks'[Append(a, next + i - 1)] = Task(operations[i], Persisted(a))
  <2> SUFFICES ASSUME NEW i \in 1 .. count
               PROVE  tasks'[Append(a, next + i - 1)] = Task(operations[i], Persisted(a))
    OBVIOUS
  <2>1. Append(a, next + i - 1) \in reserved
    OBVIOUS
  <2> HIDE DEF reserved, part
  <2> QED
    BY <1>5, <1>12, <2>1
<1>14. tasks'[a] = launched /\ \A b \in DOMAIN tasks \ {a} : tasks'[b] = tasks[b]
  <2> HIDE DEF reserved
  <2> QED
    BY <1>8, <1>11
<1>15. MapOf(tasks', TaskSet)
  <2>1. \A i \in 1 .. count : Task(operations[i], Persisted(a)) \in TaskSet
    BY <1>2, <1>7, TaskType
  <2>2. \A b \in reserved : tasks'[b] \in TaskSet
    BY <1>13, <2>1
  <2>3. MapOf(tasks, TaskSet)
    BY DEF WInv, Typed
  <2> HIDE DEF reserved
  <2>4. \A b \in DOMAIN tasks' : tasks'[b] \in TaskSet /\ b \in Address
    BY <1>8, <1>9, <1>11, <1>14, <2>2, <2>3 DEF MapOf
  <2> QED
    BY <1>11, <2>4 DEF MapOf
<1> QED
  BY <1>1, <1>2, <1>a, <1>7, <1>8, <1>10, <1>11, <1>13, <1>14, <1>15 DEF LaunchedTasks

LEMMA LaunchAsked ==
    ASSUME WInv, invocation = "running", NEW a \in DOMAIN tasks,
           NEW operations \in Seq(OperationsOver(Bodies[program])),
           NEW phase \in {"await", "refused", "backing_off"}, Launch(a, operations, phase)
    PROVE  LaunchedPlaces(a, operations, phase)
<1> DEFINE scope == tasks[a]
           next == scope.next
           count == Len(operations)
           part(b) == b[Len(b)] - scope.next + 1
           reserved == {Append(a, scope.next + i - 1) : i \in 1 .. count}
           place(b) == [phase |-> IF phase = "refused" THEN "await" ELSE phase,
                        attempt |-> scope.attempt, pc |-> scope.pc,
                        part |-> part(b), operation |-> operations[part(b)]]
           before(b) == IF b \in DOMAIN asked THEN asked[b] ELSE {}
<1>1. a \in Address /\ scope \in TaskSet /\ next \in Position
  BY ScopeFields DEF WInv, Typed, MapOf
<1>2. count \in Nat /\ \A i \in 1 .. count : operations[i] \in OperationsOver(Bodies[program])
  BY LenProperties, ElementOfSeq
<1>3. \A i \in 1 .. count : next + i - 1 \in Position /\ next + i - 1 \in Nat /\ next + i - 1 >= next
  BY Positions, <1>1, <1>2
<1>4. \A i \in 1 .. count : Append(a, next + i - 1) \in Address
  BY <1>3, Fresh
<1>5. \A i \in 1 .. count : part(Append(a, next + i - 1)) = i
  <2> SUFFICES ASSUME NEW i \in 1 .. count PROVE part(Append(a, next + i - 1)) = i
    OBVIOUS
  <2>1. Append(a, next + i - 1)[Len(Append(a, next + i - 1))] = next + i - 1
    BY <1>1, <1>3, AppendParent
  <2>2. part(Append(a, next + i - 1)) = i
    BY <1>1, <1>2, <2>1, PartOf
  <2> QED
    BY <2>2
<1>6. asked' = With(asked, [b \in reserved |-> before(b) \cup {place(b)}])
  BY DEF Launch
<1>7. reserved = Reserved(a, count) /\ reserved \subseteq Address
  BY <1>4 DEF Reserved
<1>8. /\ DOMAIN asked' = DOMAIN asked \cup reserved
      /\ asked' = [b \in DOMAIN asked \cup reserved |->
                      IF b \in reserved THEN before(b) \cup {place(b)} ELSE asked[b]]
  <2> HIDE DEF reserved, place, before
  <2> QED
    BY <1>6 DEF With
<1>9. \A i \in 1 .. count : place(Append(a, next + i - 1)) = PlaceOf(a, phase, i, operations[i])
  BY <1>5 DEF PlaceOf
<1>10. \A i \in 1 .. count : PlaceOf(a, phase, i, operations[i]) \in PlaceSet
  <2> SUFFICES ASSUME NEW i \in 1 .. count PROVE PlaceOf(a, phase, i, operations[i]) \in PlaceSet
    OBVIOUS
  <2>1. i \in Position /\ operations[i] \in OperationsOver(Bodies[program])
        /\ scope.attempt \in Position /\ scope.pc \in Position
    BY Positions, <1>1, <1>2 DEF TaskSet
  <2> QED
    BY <2>1 DEF PlaceOf, PlaceSet
<1>11. \A i \in 1 .. count : asked'[Append(a, next + i - 1)] =
            before(Append(a, next + i - 1)) \cup {PlaceOf(a, phase, i, operations[i])}
  <2> SUFFICES ASSUME NEW i \in 1 .. count
               PROVE  asked'[Append(a, next + i - 1)] =
                        before(Append(a, next + i - 1)) \cup {PlaceOf(a, phase, i, operations[i])}
    OBVIOUS
  <2>1. Append(a, next + i - 1) \in reserved
    OBVIOUS
  <2> HIDE DEF reserved, place, before
  <2> QED
    BY <1>8, <1>9, <2>1
<1>12. \A b \in reserved : place(b) \in PlaceSet
  BY <1>9, <1>10
<1>13. MapOf(asked', SUBSET PlaceSet)
  <2>1. MapOf(asked, SUBSET PlaceSet)
    BY DEF WInv, Typed
  <2>2. \A b \in DOMAIN asked : asked[b] \in SUBSET PlaceSet /\ b \in Address
    BY <2>1 DEF MapOf
  <2>3. \A b \in reserved : before(b) \cup {place(b)} \in SUBSET PlaceSet
    <3> HIDE DEF reserved, place
    <3> QED
      BY <1>12, <2>2
  <2> HIDE DEF reserved, place, before
  <2> QED
    BY <1>7, <1>8, <2>2, <2>3 DEF MapOf
<1>14. \A b \in DOMAIN asked \ reserved : asked'[b] = asked[b]
  <2> HIDE DEF reserved, place, before
  <2> QED
    BY <1>8
<1> QED
  BY <1>7, <1>8, <1>11, <1>13, <1>14 DEF LaunchedPlaces

\* A scope launches operations none of which has another record under its address.
Launching(a, operations, phase) ==
    /\ invocation = "running" /\ a \in DOMAIN tasks /\ IsScope(a)
    /\ tasks[a].phase \in {"run", "back_off"} /\ tasks[a].pc <= Len(Body(a))
    /\ operations \in Seq(OperationsOver(Bodies[program]))
    /\ \/ /\ tasks[a].phase = "run" /\ phase = "await"
          /\ operations = Operations(Statement(a)) /\ Statement(a).op \notin Plain
       \/ /\ tasks[a].phase = "run" /\ phase = "refused"
          /\ Changed(a, Operations(Statement(a))) /\ Statement(a).op \notin Plain
       \/ /\ tasks[a].phase = "back_off" /\ phase = "backing_off"
          /\ operations = <<Wait>> /\ a # Root
    /\ ~Changed(a, operations) /\ Launch(a, operations, phase)
    /\ UNCHANGED <<program, records, outcome, stirred, view, journal, invocation, crashes, told>>

\* What is true of a slot, and of a launch as a whole.
LEMMA SlotIs ==
    ASSUME WInv, NEW a \in DOMAIN tasks, NEW count \in Nat, NEW i \in 1 .. count
    PROVE  LET b == Append(a, tasks[a].next + i - 1)
           IN /\ b \in Reserved(a, count) /\ b \in Address /\ Parent(b) = a /\ b # Root
              /\ b[Len(b)] = tasks[a].next + i - 1
              /\ b[Len(b)] < tasks[a].next + count
<1> DEFINE n == tasks[a].next
           b == Append(a, n + i - 1)
<1>1. n \in Position /\ a \in Address
  BY ScopeFields DEF WInv, Typed, MapOf
<1>2. n + i - 1 \in Position
  BY <1>1, Positions
<1>3. n + i - 1 < n + count
  <2> HIDE DEF n
  <2> QED
    BY <1>1 DEF Position
<1>4. Parent(b) = a /\ b # Root /\ b[Len(b)] = n + i - 1 /\ b \in Address
  BY <1>1, <1>2, AppendParent
<1>5. b \in Reserved(a, count)
  BY DEF Reserved
<1>6. b[Len(b)] < n + count
  <2> HIDE DEF b, n
  <2> QED
    BY <1>3, <1>4
<1> QED
  BY <1>4, <1>5, <1>6

LEMMA LaunchedIs ==
    ASSUME WInv, NEW a \in DOMAIN tasks, NEW operations, NEW phase, Launching(a, operations, phase)
    PROVE  LET reserved == Reserved(a, Len(operations))
           IN /\ reserved \subseteq Address /\ reserved \cap DOMAIN tasks = {}
              /\ DOMAIN tasks' = DOMAIN tasks \cup reserved
              /\ \A b \in DOMAIN tasks \ {a} : tasks'[b] = tasks[b]
              /\ tasks'[a].stmt = tasks[a].stmt /\ tasks'[a].parent = tasks[a].parent
              /\ tasks'[a].out = tasks[a].out /\ tasks'[a].pc = tasks[a].pc
              /\ tasks'[a].handles = tasks[a].handles
              /\ tasks'[a].phase = phase /\ tasks'[a].awaits = reserved
              /\ tasks'[a].woken = "none"
              /\ \A x \in Position : x < tasks[a].next => x < tasks'[a].next
              /\ MapOf(tasks', TaskSet) /\ MapOf(asked', SUBSET PlaceSet)
              /\ DOMAIN asked' = DOMAIN asked \cup reserved
              /\ \A b \in DOMAIN asked \ reserved : asked'[b] = asked[b]
              /\ \A b \in DOMAIN asked \cap reserved : asked[b] \subseteq asked'[b]
              /\ phase # "refused" => Last(a, operations)'
<1> DEFINE next == tasks[a].next
           count == Len(operations)
           reserved == Reserved(a, count)
           at(i) == Append(a, next + i - 1)
<1>1. /\ invocation = "running" /\ a \in DOMAIN tasks
      /\ operations \in Seq(OperationsOver(Bodies[program]))
      /\ phase \in {"await", "refused", "backing_off"} /\ Launch(a, operations, phase)
  BY DEF Launching
<1>2. /\ next \in Position /\ count \in Nat
      /\ reserved \subseteq Address /\ reserved \cap DOMAIN tasks = {}
      /\ DOMAIN tasks' = DOMAIN tasks \cup reserved
      /\ \A b \in DOMAIN tasks \ {a} : tasks'[b] = tasks[b]
      /\ tasks'[a].stmt = tasks[a].stmt /\ tasks'[a].parent = tasks[a].parent
      /\ tasks'[a].out = tasks[a].out /\ tasks'[a].pc = tasks[a].pc
      /\ tasks'[a].handles = tasks[a].handles
      /\ tasks'[a].phase = phase /\ tasks'[a].awaits = reserved
      /\ tasks'[a].woken = "none" /\ tasks'[a].next = next + Advance(phase, count)
      /\ \A i \in 1 .. count : tasks'[at(i)] = Task(operations[i], Persisted(a))
      /\ Persisted(a) \in Address
      /\ \A i \in 1 .. count : operations[i] \in OperationsOver(Bodies[program])
      /\ MapOf(tasks', TaskSet)
  <2>1. LaunchedTasks(a, operations, phase)
    BY <1>1, LaunchTasks
  <2> QED
    BY <2>1 DEF LaunchedTasks
<1>3. /\ DOMAIN asked' = DOMAIN asked \cup reserved
      /\ \A b \in DOMAIN asked \ reserved : asked'[b] = asked[b]
      /\ \A i \in 1 .. count :
            asked'[at(i)] = (IF at(i) \in DOMAIN asked THEN asked[at(i)] ELSE {})
                            \cup {PlaceOf(a, phase, i, operations[i])}
      /\ MapOf(asked', SUBSET PlaceSet)
  <2>1. LaunchedPlaces(a, operations, phase)
    BY <1>1, LaunchAsked
  <2> QED
    BY <2>1 DEF LaunchedPlaces
<1>4. reserved = {at(i) : i \in 1 .. count}
  BY DEF Reserved
<1>5. \A b \in DOMAIN asked \cap reserved : asked[b] \subseteq asked'[b]
  <2> HIDE DEF at, reserved
  <2> QED
    BY <1>3, <1>4
<1>6. \A x \in Position : x < next => x < next + Advance(phase, count)
  <2> HIDE DEF next, count
  <2>1. Advance(phase, count) \in Nat
    BY <1>2 DEF Advance
  <2> QED
    BY <1>2, <2>1 DEF Position
<1>7. next + count - count = next
  <2> HIDE DEF next, count
  <2> QED
    BY <1>2 DEF Position
<1>8. \A i \in 1 .. count : tasks'[at(i)].stmt = operations[i]
  <2> HIDE DEF at, count
  <2> QED
    BY <1>2, TaskType
<1>9. ASSUME phase # "refused" PROVE Last(a, operations)'
  <2>1. tasks'[a].next - Len(operations) = next
    <3>1. tasks'[a].next = next + count
      BY <1>2, <1>9 DEF Advance
    <3>2. Len(operations) = count /\ next \in Nat /\ count \in Nat
      BY <1>2 DEF Position
    <3>3. \A x \in Nat, y, n \in Nat : y = n + x => y - x = n
      OBVIOUS
    <3>4. tasks'[a].next - count = next
      <4> HIDE DEF next, count
      <4> QED
        BY <3>1, <3>2, <3>3
    <3> QED
      BY <3>4
  <2>2. \A i \in 1 .. Len(operations) : tasks'[Append(a, next + i - 1)].stmt = operations[i]
    BY <1>8
  <2>3. tasks'[a].awaits = {Append(a, next + i - 1) : i \in 1 .. Len(operations)}
    BY <1>2, <1>4
  <2> HIDE DEF next
  <2> QED
    BY <1>2, <2>1, <2>2, <2>3 DEF Last
<1>10. \A x \in Position : x < tasks[a].next => x < tasks'[a].next
  <2> HIDE DEF count
  <2> QED
    BY <1>2, <1>6
<1> HIDE DEF at, count
<1> QED
  BY <1>2, <1>3, <1>5, <1>9, <1>10 DEF count

LEMMA LaunchedNew ==
    ASSUME WInv, NEW a \in DOMAIN tasks, NEW operations, NEW phase, Launching(a, operations, phase),
           NEW b \in Reserved(a, Len(operations))
    PROVE  /\ Parent(b) = a /\ b # Root /\ b[Len(b)] < tasks'[a].next
           /\ tasks'[b].stmt \in OperationsOver(Bodies[program]) /\ tasks'[b].parent = Persisted(a)
           /\ tasks'[b].phase = "begin" /\ tasks'[b].out = "none"
           /\ tasks'[b].awaits = {} /\ tasks'[b].woken = "none"
           /\ tasks'[b].next = 1 /\ tasks'[b].pc = 1 /\ tasks'[b].attempt = 1
           /\ Len(tasks'[b].handles) = 0 /\ DOMAIN tasks'[b].handles = {}
           /\ \E place \in asked'[b] : place.operation = tasks'[b].stmt
           /\ b \in DOMAIN view => view[b].op = tasks'[b].stmt.op
<1> DEFINE next == tasks[a].next
           count == Len(operations)
           at(i) == Append(a, next + i - 1)
<1>1. /\ invocation = "running" /\ a \in DOMAIN tasks
      /\ operations \in Seq(OperationsOver(Bodies[program]))
      /\ phase \in {"await", "refused", "backing_off"} /\ Launch(a, operations, phase)
      /\ ~Changed(a, operations)
  BY DEF Launching
<1>2. /\ count \in Nat /\ tasks'[a].next = next + Advance(phase, count)
      /\ \A i \in 1 .. count : tasks'[at(i)] = Task(operations[i], Persisted(a))
      /\ Persisted(a) \in Address
      /\ \A i \in 1 .. count : operations[i] \in OperationsOver(Bodies[program])
  <2>1. LaunchedTasks(a, operations, phase)
    BY <1>1, LaunchTasks
  <2> QED
    BY <2>1 DEF LaunchedTasks
<1>3. /\ \A i \in 1 .. count :
            asked'[at(i)] = (IF at(i) \in DOMAIN asked THEN asked[at(i)] ELSE {})
                            \cup {PlaceOf(a, phase, i, operations[i])}
  <2>1. LaunchedPlaces(a, operations, phase)
    BY <1>1, LaunchAsked
  <2> QED
    BY <2>1 DEF LaunchedPlaces
<1>4. PICK i \in 1 .. count : b = at(i)
  BY DEF Reserved
<1>5. /\ Parent(at(i)) = a /\ at(i) # Root /\ at(i)[Len(at(i))] < next + Advance(phase, count)
  <2>1. /\ Parent(at(i)) = a /\ at(i) # Root /\ at(i)[Len(at(i))] = next + i - 1
        /\ next \in Position
    BY <1>1, <1>2, SlotIs, ScopeFields
  <2>2. next + i - 1 < next + Advance(phase, count)
    <3> HIDE DEF next, count
    <3> QED
      BY <1>2, <2>1 DEF Position, Advance
  <2> HIDE DEF at, next, count
  <2> QED
    BY <2>1, <2>2
<1>6. at(i) \in DOMAIN view => view[at(i)].op = operations[i].op
  BY <1>1 DEF Changed, Changes
<1> HIDE DEF at, next, count
<1>7. /\ tasks'[b].stmt = operations[i] /\ tasks'[b].parent = Persisted(a)
      /\ tasks'[b].phase = "begin" /\ tasks'[b].out = "none"
      /\ tasks'[b].awaits = {} /\ tasks'[b].woken = "none"
      /\ tasks'[b].next = 1 /\ tasks'[b].pc = 1 /\ tasks'[b].attempt = 1
      /\ Len(tasks'[b].handles) = 0 /\ DOMAIN tasks'[b].handles = {}
      /\ operations[i] \in OperationsOver(Bodies[program])
  BY <1>2, <1>4, TaskType
<1>8. PlaceOf(a, phase, i, operations[i]).operation = operations[i]
  BY DEF PlaceOf
<1>9. \E place \in asked'[b] : place.operation = tasks'[b].stmt
  BY <1>3, <1>4, <1>7, <1>8
<1> QED
  BY <1>2, <1>4, <1>5, <1>6, <1>7, <1>9

LEMMA LaunchKeeps ==
    ASSUME WInv, NEW a \in DOMAIN tasks, NEW operations, NEW phase, Launching(a, operations, phase)
    PROVE  WInv'
<1> DEFINE reserved == Reserved(a, Len(operations))
<1>1. /\ reserved \subseteq Address /\ reserved \cap DOMAIN tasks = {}
      /\ DOMAIN tasks' = DOMAIN tasks \cup reserved
      /\ \A b \in DOMAIN tasks \ {a} : tasks'[b] = tasks[b]
      /\ tasks'[a].stmt = tasks[a].stmt /\ tasks'[a].parent = tasks[a].parent
      /\ tasks'[a].out = tasks[a].out /\ tasks'[a].pc = tasks[a].pc
      /\ tasks'[a].handles = tasks[a].handles
      /\ tasks'[a].phase = phase /\ tasks'[a].awaits = reserved
      /\ tasks'[a].woken = "none"
      /\ MapOf(tasks', TaskSet) /\ MapOf(asked', SUBSET PlaceSet)
      /\ DOMAIN asked' = DOMAIN asked \cup reserved
      /\ \A b \in DOMAIN asked \ reserved : asked'[b] = asked[b]
      /\ \A b \in DOMAIN asked \cap reserved : asked[b] \subseteq asked'[b]
  BY LaunchedIs
<1>2. /\ \A x \in Position : x < tasks[a].next => x < tasks'[a].next
      /\ phase # "refused" => Last(a, operations)'
  BY LaunchedIs
<1>3. /\ invocation = "running" /\ a \in DOMAIN tasks /\ IsScope(a)
      /\ tasks[a].phase \in {"run", "back_off"} /\ tasks[a].pc <= Len(Body(a))
      /\ phase \in {"await", "refused", "backing_off"} /\ (phase = "backing_off" => a # Root)
      /\ phase \in {"await", "refused"} => Statement(a).op \notin Plain
  BY DEF Launching
<1>4. ASSUME NEW b \in reserved
      PROVE  /\ Parent(b) = a /\ b # Root /\ b[Len(b)] < tasks'[a].next
             /\ tasks'[b].stmt \in OperationsOver(Bodies[program]) /\ tasks'[b].parent = Persisted(a)
             /\ tasks'[b].phase = "begin" /\ tasks'[b].out = "none"
             /\ tasks'[b].awaits = {} /\ tasks'[b].woken = "none"
             /\ tasks'[b].next = 1 /\ tasks'[b].pc = 1
             /\ Len(tasks'[b].handles) = 0 /\ DOMAIN tasks'[b].handles = {}
             /\ \E place \in asked'[b] : place.operation = tasks'[b].stmt
             /\ b \in DOMAIN view => view[b].op = tasks'[b].stmt.op
  BY LaunchedNew
<1> HIDE DEF reserved
<1>5. UNCHANGED <<program, records, outcome, stirred, view, journal, invocation, crashes, told>>
  BY DEF Launching
<1>6. Typed'
  <2>1. TaskSet' = TaskSet /\ PlaceSet' = PlaceSet
    BY <1>5 DEF TaskSet, PlaceSet
  <2> QED
    BY <1>1, <1>3, <1>5, <2>1 DEF WInv, Typed, MapOf, RecordSet
<1>7. Known'
  BY <1>1, <1>5 DEF WInv, Known
<1>8. \A b \in DOMAIN tasks : tasks'[b].stmt = tasks[b].stmt /\ tasks'[b].parent = tasks[b].parent
                              /\ tasks'[b].out = tasks[b].out /\ tasks'[b].pc = tasks[b].pc
                              /\ tasks'[b].handles = tasks[b].handles
  BY <1>1
<1>9. \A b \in DOMAIN tasks : Kind(b)' = Kind(b) /\ IsScope(b)' = IsScope(b)
                              /\ Persisted(b)' = Persisted(b) /\ Body(b)' = Body(b)
                              /\ Statement(b)' = Statement(b) /\ Children(b) \subseteq Children(b)'
  BY <1>1, <1>8 DEF Kind, IsScope, Persisted, Body, Statement, Children
<1>10. Formed'
  <2>1. ASSUME NEW b \in DOMAIN tasks PROVE Shape(b)'
    <3>1. Shape(b)
      BY DEF WInv, Formed
    <3>2. CASE b # a
      BY <1>1, <1>8, <1>9, <3>1, <3>2 DEF Shape
    <3>a. a \in DOMAIN tasks /\ a \in DOMAIN tasks'
      BY <1>1, <1>3
    <3>3. CASE b = a
      <4>1. reserved \subseteq Children(a)'
        <5>1. \A c \in reserved : c \in DOMAIN tasks' /\ c # Root /\ Parent(c) = a
          BY <1>1, <1>4
        <5> QED
          BY <5>1 DEF Children
      <4>2. tasks[a].out = "none" /\ IsScope(a)'
        <5>1. IsScope(a) /\ tasks[a].phase # "done"
          BY <1>3
        <5>2. tasks[a].out = "none"
          BY <3>1, <3>3, <5>1 DEF Shape
        <5> QED
          BY <1>9, <3>a, <5>1, <5>2
      <4>3. tasks'[a].pc <= Len(Body(a)') /\ tasks'[a].pc <= Len(Body(a)') + 1
        <5>1. Len(Body(a)) \in Nat /\ tasks[a].pc \in Nat
          BY <1>3, OperationIs, LenProperties, ScopeFields DEF WInv, Body, Position
        <5>2. Body(a)' = Body(a) /\ tasks'[a].pc = tasks[a].pc
          BY <1>1, <1>9, <3>a
        <5>3. tasks[a].pc <= Len(Body(a)) + 1
          <6>1. \A m, n \in Nat : m <= n => m <= n + 1
            OBVIOUS
          <6> QED
            BY <1>3, <5>1, <6>1
        <5> QED
          BY <1>3, <5>2, <5>3
      <4>4. phase \in {"await", "refused"} => Statement(a)'.op \notin Plain
        BY <1>3, <1>9
      <4>5. tasks'[a].phase = phase /\ tasks'[a].out = "none" /\ tasks'[a].awaits = reserved
        BY <1>1, <4>2
      <4> HIDE DEF reserved
      <4> QED
        BY <1>3, <3>3, <4>1, <4>2, <4>3, <4>4, <4>5 DEF Shape
    <3> QED
      BY <3>2, <3>3
  <2>2. ASSUME NEW b \in reserved PROVE Shape(b)'
    <3>2. /\ tasks'[b].phase = "begin" /\ tasks'[b].out = "none" /\ b # Root
          /\ tasks'[b].awaits = {} /\ tasks'[b].woken = "none"
          /\ tasks'[b].next = 1 /\ tasks'[b].pc = 1
      BY <1>4
    <3>3. IsScope(b)' => Len(Body(b)') \in Nat
      <4>1. Typed'
        BY <1>6
      <4>2. b \in DOMAIN tasks'
        BY <1>1
      <4>3. IsScope(b)' => tasks'[b].stmt.body \in Seq(StatementsOver(Bodies[program']))
        <5>1. tasks'[b].stmt \in OperationsOver(Bodies[program]) /\ program \in Workflows
          BY <1>4 DEF WInv, Typed
        <5>2. IsScope(b)' => tasks'[b].stmt.body \in Bodies[program]
          BY <5>1 DEF OperationsOver, Kind, IsScope
        <5> QED
          BY <1>5, <5>1, <5>2, WorkflowAssumption DEF IsBody
      <4> QED
        BY <4>3, LenProperties DEF Body
    <3> QED
      BY <3>2, <3>3 DEF Shape
  <2>3. ASSUME NEW b \in DOMAIN tasks PROVE Nested(b)'
    <3> SUFFICES ASSUME b # Root PROVE Nested(b)'
      BY DEF Nested
    <3>1. /\ Parent(b) \in DOMAIN tasks /\ IsScope(Parent(b))
          /\ b[Len(b)] < tasks[Parent(b)].next
          /\ tasks[b].parent = Persisted(Parent(b)) /\ b \in DOMAIN asked
          /\ \E place \in asked[b] : place.operation = tasks[b].stmt
      BY DEF WInv, Formed, Nested
    <3>2. b[Len(b)] < tasks'[Parent(b)].next
      <4>1. CASE Parent(b) # a
        BY <1>1, <3>1, <4>1
      <4>2. CASE Parent(b) = a
        <5>1. b[Len(b)] \in Position
          BY ParentAppend DEF WInv, Typed, MapOf
        <5> QED
          BY <1>2, <3>1, <4>2, <5>1
      <4> QED
        BY <4>1, <4>2
    <3>3. b \in DOMAIN asked' /\ \E place \in asked'[b] : place.operation = tasks'[b].stmt
      BY <1>1, <1>8, <3>1
    <3> QED
      BY <1>1, <1>8, <1>9, <3>1, <3>2, <3>3 DEF Nested
  <2>4. ASSUME NEW b \in reserved PROVE Nested(b)'
    <3>1. a \in DOMAIN tasks' /\ IsScope(a)' /\ Persisted(a)' = Persisted(a)
      BY <1>1, <1>3, <1>9
    <3>2. Parent(b) = a /\ b # Root /\ b[Len(b)] < tasks'[a].next /\ tasks'[b].parent = Persisted(a)
          /\ b \in DOMAIN asked' /\ \E place \in asked'[b] : place.operation = tasks'[b].stmt
      BY <1>1, <1>4
    <3> QED
      BY <3>1, <3>2 DEF Nested
  <2> QED
    BY <1>1, <2>1, <2>2, <2>3, <2>4 DEF Formed
<1>11. Heard'
  <2>1. ASSUME NEW b \in DOMAIN tasks, b # a PROVE Hears(b)' /\ Awaits(b)'
    <3>1. Hears(b) /\ Awaits(b) /\ tasks[b].awaits \subseteq DOMAIN tasks
      BY DEF WInv, Heard, Formed, Shape, Children
    <3>2. Hears(b)'
      BY <1>1, <1>8, <2>1, <3>1 DEF Hears
    <3>3. ASSUME NEW ops \in {Operations(Statement(b)), <<Wait>>}, Last(b, ops)
          PROVE  Last(b, ops)'
      <4> DEFINE first == tasks[b].next - Len(ops)
      <4>1. /\ first \in Position
            /\ tasks[b].awaits = {Append(b, first + i - 1) : i \in 1 .. Len(ops)}
            /\ \A i \in 1 .. Len(ops) : tasks[Append(b, first + i - 1)].stmt = ops[i]
        BY <3>3 DEF Last
      <4>2. \A i \in 1 .. Len(ops) : Append(b, first + i - 1) \in DOMAIN tasks
        BY <3>1, <4>1
      <4>3. \A i \in 1 .. Len(ops) : tasks'[Append(b, first + i - 1)].stmt = ops[i]
        BY <1>8, <4>1, <4>2
      <4> QED
        BY <1>1, <2>1, <4>1, <4>3 DEF Last
    <3>4. Awaits(b)'
      BY <1>1, <1>9, <2>1, <3>1, <3>3 DEF Awaits
    <3> QED
      BY <3>2, <3>4
  <2>2. Hears(a)'
    BY <1>1, <1>4 DEF Hears
  <2>3. Awaits(a)'
    <3>1. phase = "await" => operations = Operations(Statement(a))
      BY DEF Launching
    <3>2. phase = "backing_off" => operations = <<Wait>>
      BY DEF Launching
    <3>3. (Statement(a)' = Statement(a)) /\ tasks'[a].phase = phase
      BY <1>1, <1>3, <1>9
    <3> QED
      BY <1>2, <3>1, <3>2, <3>3 DEF Awaits
  <2>4. ASSUME NEW b \in reserved PROVE Hears(b)' /\ Awaits(b)'
    <3>1. tasks'[b].phase = "begin" /\ tasks'[b].awaits = {} /\ tasks'[b].woken = "none"
      BY <1>4
    <3> QED
      BY <3>1 DEF Hears, Awaits
  <2> QED
    BY <1>1, <2>1, <2>2, <2>3, <2>4 DEF Heard
<1>12. HandlesFormed'
  <2>1. \A c \in DOMAIN tasks : tasks[c].phase = "done" => c \in DOMAIN tasks' /\ tasks'[c].phase = "done"
    BY <1>1, <1>3
  <2>2. ASSUME NEW b \in DOMAIN tasks PROVE Handle(b)' /\ HandlesIn(b)'
    <3>1. Handle(b) /\ HandlesIn(b)
      BY DEF WInv, HandlesFormed
    <3>2. Handle(b)'
      BY <1>5, <1>8, <1>9, <3>1 DEF Handle
    <3>3. \A j \in DOMAIN tasks[b].handles :
            LET c == tasks[b].handles[j] IN
            /\ c \in DOMAIN tasks' /\ tasks'[c].phase = "done"
            /\ c \in DOMAIN records /\ records[c].op = "callback"
      BY <2>1, <3>1 DEF HandlesIn
    <3>4. Created(Body(b), tasks[b].pc)' = Created(Body(b), tasks[b].pc)
      BY <1>8, <1>9
    <3> QED
      BY <1>5, <1>8, <1>9, <3>1, <3>2, <3>3, <3>4 DEF HandlesIn
  <2>3. ASSUME NEW b \in reserved PROVE Handle(b)' /\ HandlesIn(b)'
    <3>1. tasks'[b].out = "none" /\ tasks'[b].pc = 1 /\ Len(tasks'[b].handles) = 0
          /\ DOMAIN tasks'[b].handles = {}
      BY <1>4
    <3>2. Created(Body(b), tasks[b].pc)' = {} /\ Cardinality({}) = 0
      BY <3>1, FS_EmptySet DEF Created
    <3>3. Handle(b)'
      BY <3>1 DEF Handle
    <3>4. Cardinality(Created(Body(b), tasks[b].pc)') = 0
      BY <3>2
    <3> QED
      BY <3>1, <3>3, <3>4 DEF HandlesIn
  <2> QED
    BY <1>1, <2>2, <2>3 DEF HandlesFormed
<1>13. KindsFit'
  <2>1. ASSUME NEW b \in reserved, b \in DOMAIN records PROVE records[b].op = tasks'[b].stmt.op
    <3>1. b \in DOMAIN view /\ view[b].op = records[b].op
      BY <1>3, <2>1 DEF WInv, Known, KindsFit
    <3> QED
      BY <1>4, <3>1
  <2>2. \A b \in DOMAIN tasks \cap DOMAIN records : records[b].op = tasks'[b].stmt.op
    BY <1>8 DEF WInv, KindsFit, Kind
  <2> QED
    BY <1>1, <1>5, <2>1, <2>2 DEF WInv, KindsFit, Kind, RecordFits
<1>14. Pauses'
  <2>1. \A c \in DOMAIN tasks : tasks[c].phase = "done" => tasks'[c].phase = "done"
    BY <1>1, <1>3
  <2>2. Backed => Backed'
    BY <1>1, <1>5, <2>1 DEF Backed
  <2>3. (\E b \in DOMAIN tasks' : "pause" \in {tasks'[b].out, tasks'[b].woken})
         => \E b \in DOMAIN tasks : "pause" \in {tasks[b].out, tasks[b].woken}
    BY <1>1, <1>4
  <2> QED
    BY <1>5, <2>2, <2>3 DEF WInv, Pauses, PendingIsBacked
<1> QED
  BY <1>6, <1>7, <1>10, <1>11, <1>12, <1>13, <1>14 DEF WInv

LEMMA WaitsAre == <<Wait>> \in Seq(OperationsOver(Bodies[program]))
<1>1. Wait \in OperationsOver(Bodies[program])
  BY DEF Wait, OperationsOver
<1> QED
  BY <1>1

LEMMA OpensLaunch ==
    ASSUME WInv, NEW a \in DOMAIN tasks, Opens(a)
    PROVE  \E operations, phase : Launching(a, operations, phase)
<1>1. UNCHANGED <<program, records, outcome, stirred, view, journal, invocation, crashes, told>>
      /\ invocation = "running"
  BY DEF Opens, serviceVars
<1>2. CASE /\ Ready(a) /\ Statement(a).op \notin Plain
           /\ ~Changed(a, Operations(Statement(a)))
           /\ Launch(a, Operations(Statement(a)), "await")
  <2>1. IsScope(a) /\ tasks[a].phase = "run" /\ tasks[a].pc <= Len(Body(a))
    BY <1>2 DEF Ready, Running, Body
  <2>2. Operations(Statement(a)) \in Seq(OperationsOver(Bodies[program]))
    BY <1>2, <2>1, StatementIs DEF WInv
  <2> QED
    BY <1>1, <1>2, <2>1, <2>2 DEF Launching
<1>4. ASSUME Ready(a), Statement(a).op \notin Plain,
             NEW n \in 0 .. Len(Operations(Statement(a))) - 1,
             ~Changed(a, SubSeq(Operations(Statement(a)), 1, n)),
             Changes(a, Operations(Statement(a))[n + 1], tasks[a].next + n),
             Launch(a, SubSeq(Operations(Statement(a)), 1, n), "refused")
      PROVE  Launching(a, SubSeq(Operations(Statement(a)), 1, n), "refused")
  <2> DEFINE all == Operations(Statement(a))
  <2>1. IsScope(a) /\ tasks[a].phase = "run" /\ tasks[a].pc <= Len(Body(a))
    BY <1>4 DEF Ready, Running, Body
  <2>2. all \in Seq(OperationsOver(Bodies[program])) /\ Len(all) \in Nat
    BY <1>4, <2>1, StatementIs, LenProperties DEF WInv
  <2> HIDE DEF all
  <2>3. n \in Nat /\ n + 1 \in 1 .. Len(all) /\ n <= Len(all)
    BY <1>4, <2>2 DEF all
  <2>4. \A i \in 1 .. n : all[i] \in OperationsOver(Bodies[program])
    <3>1. \A i \in 1 .. n : i \in 1 .. Len(all)
      BY <2>2, <2>3
    <3> QED
      BY <2>2, <3>1, ElementOfSeq
  <2>5. SubSeq(all, 1, n) \in Seq(OperationsOver(Bodies[program]))
    BY <2>2, <2>3, <2>4, SubSeqProperties
  <2>6. Changed(a, all)
    <3>1. tasks[a].next + (n + 1) - 1 = tasks[a].next + n
      BY <2>3, ScopeFields DEF Position
    <3>2. Changes(a, all[n + 1], tasks[a].next + (n + 1) - 1)
      BY <1>4, <3>1 DEF all
    <3> QED
      BY <2>3, <3>2 DEF Changed
  <2> QED
    BY <1>1, <1>4, <2>1, <2>5, <2>6 DEF Launching, all
<1>3. CASE Running(a, "back_off") /\ ~Changed(a, <<Wait>>) /\ Launch(a, <<Wait>>, "backing_off")
  <2>1. IsScope(a) /\ tasks[a].phase = "back_off" /\ tasks[a].pc <= Len(Body(a)) /\ a # Root
    BY <1>3 DEF Running, WInv, Formed, Shape
  <2> QED
    BY <1>1, <1>3, <2>1, WaitsAre DEF Launching
<1> QED
  BY <1>2, <1>3, <1>4 DEF Opens

LEMMA OpensKeep ==
    ASSUME WInv, NEW a \in DOMAIN tasks, Opens(a)
    PROVE  WInv'
  BY OpensLaunch, LaunchKeeps

----------------------------------------------------------------------------
(* The ends of an invocation, the world, and the invariant                 *)

\* No invocation: nothing is true of its tasks.
LEMMA NoTasks ==
    ASSUME tasks' = <<>>
    PROVE  /\ DOMAIN tasks' = {} /\ Formed' /\ Heard' /\ HandlesFormed'
           /\ MapOf(tasks', TaskSet')
<1>1. DOMAIN tasks' = {}
  OBVIOUS
<1> QED
  BY <1>1 DEF Formed, Heard, HandlesFormed, MapOf

LEMMA GoneKeeps ==
    ASSUME WInv, invocation = "running", tasks' = <<>>,
           invocation' \in {"suspended", "lost", "over"},
           outcome' \in {"none", "ok"} \cup Errors,
           (outcome' # "none") = (invocation' = "over"),
           invocation' = "suspended" => Backed, crashes' \in Nat,
           UNCHANGED <<program, records, stirred, view, journal, asked, told>>
    PROVE  WInv'
<1>1. DOMAIN tasks' = {} /\ Formed' /\ Heard' /\ HandlesFormed' /\ MapOf(tasks', TaskSet')
  BY NoTasks
<1>2. Typed'
  <2>1. PlaceSet' = PlaceSet
    BY DEF PlaceSet
  <2> QED
    BY <1>1, <2>1 DEF WInv, Typed, MapOf, RecordSet
<1>3. Known'
  BY DEF WInv, Known
<1>4. KindsFit'
  BY <1>1 DEF WInv, KindsFit, RecordFits
<1>5. Pauses'
  <2>1. Backed => stirred \/ \E b \in DOMAIN records : Open(records[b])
    BY DEF Backed
  <2>2. PendingIsBacked'
    BY <2>1 DEF PendingIsBacked, Open
  <2> QED
    BY <1>1, <2>2 DEF Pauses
<1> QED
  BY <1>1, <1>2, <1>3, <1>4, <1>5 DEF WInv

LEMMA LostKeeps ==
    ASSUME WInv, invocation = "running", Lost, crashes' \in Nat
    PROVE  WInv'
<1>1. /\ invocation' = "lost" /\ tasks' = <<>>
      /\ UNCHANGED <<program, records, outcome, stirred, view, journal, asked, told>>
  BY DEF Lost, serviceVars
<1>2. outcome' \in {"none", "ok"} \cup Errors /\ (outcome' # "none") = (invocation' = "over")
  BY <1>1 DEF WInv, Typed
<1> QED
  BY <1>1, <1>2, GoneKeeps

LEMMA FinallyKeeps ==
    ASSUME WInv, NEW a \in DOMAIN tasks, Finally(a)
    PROVE  WInv'
<1>1. PICK o \in Outcomes : Comes(a, o) /\ HandlerEnds(o)
  BY DEF Finally
<1>2. invocation = "running" /\ (o = "pause" => Backed)
  BY <1>1, ComesIs
<1>3. /\ tasks' = <<>> /\ UNCHANGED <<program, records, stirred, view, journal, asked, told, crashes>>
      /\ invocation' = (CASE o = "pause" -> "suspended"
                          [] o \in Retryable -> "lost"
                          [] OTHER -> "over")
      /\ outcome' = IF o \in {"pause"} \cup Retryable THEN outcome ELSE o
  BY <1>1 DEF HandlerEnds
<1>4. outcome = "none" /\ crashes' \in Nat
  BY <1>2, <1>3 DEF WInv, Typed
<1>5. CASE o = "pause"
  <2>1. invocation' = "suspended" /\ outcome' = "none"
    BY <1>3, <1>4, <1>5 DEF Retryable
  <2> QED
    BY <1>2, <1>3, <1>4, <1>5, <2>1, GoneKeeps
<1>6. CASE o \in Retryable
  <2>1. invocation' = "lost" /\ outcome' = "none"
    BY <1>3, <1>4, <1>6 DEF Retryable
  <2> QED
    BY <1>2, <1>3, <1>4, <2>1, GoneKeeps
<1>7. CASE o \notin Retryable \cup {"pause"}
  <2>1. invocation' = "over" /\ outcome' = o
    BY <1>3, <1>7
  <2>2. o \in {"none", "ok"} \cup Errors /\ o # "none"
    BY RecordedErrors, <1>7 DEF Outcomes
  <2> QED
    BY <1>2, <1>3, <1>4, <2>1, <2>2, GoneKeeps
<1> QED
  BY <1>5, <1>6, <1>7

LEMMA UpdateKeeps ==
    ASSUME WInv, NEW a \in DOMAIN records, NEW status \in Statuses,
           NEW error \in {"none"} \cup Errors, Update(a, status, error),
           RecordFits([records[a] EXCEPT !.status = status, !.error = error])
    PROVE  WInv'
<1> DEFINE r == [records[a] EXCEPT !.status = status, !.error = error]
<1>1. /\ records' = [records EXCEPT ![a].status = status, ![a].error = error]
      /\ stirred' = TRUE
      /\ UNCHANGED <<program, outcome, view, tasks, journal, invocation, crashes, asked, told>>
  BY DEF Update, invocationVars
<1>2. MapOf(records, RecordSet) /\ records[a] \in RecordSet
  BY DEF WInv, Typed, MapOf
<1>3. r \in RecordSet /\ r.op = records[a].op
  BY <1>2 DEF RecordSet
<1>4. /\ DOMAIN records' = DOMAIN records /\ records'[a] = r
      /\ \A b \in DOMAIN records \ {a} : records'[b] = records[b]
  BY <1>1, <1>2 DEF MapOf
<1> HIDE DEF r
<1>5. \A b \in DOMAIN records : records'[b].op = records[b].op /\ records'[b] \in RecordSet
  BY <1>2, <1>3, <1>4 DEF MapOf
<1>6. MapOf(records', RecordSet)
  <2>1. records' = [b \in DOMAIN records |-> records'[b]]
    BY <1>1, <1>2 DEF MapOf
  <2> QED
    BY <1>2, <1>5, <2>1 DEF MapOf
<1>7. Typed'
  <2>1. TaskSet' = TaskSet /\ PlaceSet' = PlaceSet
    BY <1>1 DEF TaskSet, PlaceSet
  <2> QED
    BY <1>1, <1>6, <2>1 DEF WInv, Typed, MapOf, RecordSet
<1>8. Known'
  BY <1>1, <1>4 DEF WInv, Known
<1>9. Formed' /\ Heard'
  <2>1. \A b : /\ Kind(b)' = Kind(b) /\ IsScope(b)' = IsScope(b) /\ Body(b)' = Body(b)
               /\ Statement(b)' = Statement(b) /\ Persisted(b)' = Persisted(b)
               /\ Children(b)' = Children(b)
    BY <1>1 DEF Kind, IsScope, Body, Statement, Persisted, Children
  <2>2. \A b : (Shape(b)' = Shape(b)) /\ (Nested(b)' = Nested(b)) /\ (Hears(b)' = Hears(b))
               /\ (Awaits(b)' = Awaits(b))
    BY <1>1 DEF Shape, Nested, Hears, Awaits, Last, Persisted, Kind, IsScope, Body, Statement, Children
  <2> QED
    BY <1>1, <2>2 DEF WInv, Formed, Heard
<1>10. HandlesFormed'
  <2>1. ASSUME NEW b \in DOMAIN tasks PROVE Handle(b)' /\ HandlesIn(b)'
    <3>1. Handle(b) /\ HandlesIn(b)
      BY DEF WInv, HandlesFormed
    <3>2. Handle(b)'
      BY <1>1, <1>4, <3>1 DEF Handle, Kind
    <3>3. HandlesIn(b)'
      BY <1>1, <1>4, <1>5, <3>1 DEF HandlesIn, Kind, IsScope, Body
    <3> QED
      BY <3>2, <3>3
  <2> QED
    BY <1>1, <2>1 DEF HandlesFormed
<1>11. KindsFit'
  <2>1. \A b \in DOMAIN records' : RecordFits(records'[b])
    BY <1>4 DEF WInv, KindsFit, r
  <2>2. \A b \in DOMAIN view' : RecordFits(view'[b]) /\ view'[b].op = records'[b].op
    BY <1>1, <1>5 DEF WInv, KindsFit, Known
  <2>3. \A b \in DOMAIN tasks' \cap DOMAIN records' : records'[b].op = Kind(b)'
    BY <1>1, <1>4, <1>5 DEF WInv, KindsFit, Kind
  <2> QED
    BY <2>1, <2>2, <2>3 DEF KindsFit, RecordFits
<1>12. Pauses'
  BY <1>1 DEF Pauses, Backed, PendingIsBacked
<1> QED
  BY <1>7, <1>8, <1>9, <1>10, <1>11, <1>12 DEF WInv

LEMMA WorldKeeps ==
    ASSUME WInv, World
    PROVE  WInv'
<1>1. PICK a \in DOMAIN records : Elapses(a) \/ Answers(a)
  BY DEF World
<1>2. records[a] \in RecordSet
  BY DEF WInv, Typed, MapOf
<1>3. \A status \in Statuses, error \in {"none"} \cup Errors :
         LET r == [records[a] EXCEPT !.status = status, !.error = error]
         IN r.op = records[a].op /\ r.status = status /\ r.error = error
  BY <1>2 DEF RecordSet
<1>4. {"SUCCEEDED", "READY", "FAILED"} \subseteq Statuses
      /\ {"callback", "callable"} \subseteq Errors
      /\ Recorded("callback") = "callback" /\ Recorded("callable") = "callable"
  BY DEF Statuses, Errors, InvocationErrors, Retryable, ExecutionErrors, Others, Recorded
<1>5. CASE records[a].op = "wait" /\ Update(a, "SUCCEEDED", "none")
  <2>1. RecordFits([records[a] EXCEPT !.status = "SUCCEEDED", !.error = "none"])
    BY <1>3, <1>4 DEF RecordFits
  <2> QED
    BY <1>4, <1>5, <2>1, UpdateKeeps
<1>6. CASE records[a].op \in {"step", "condition"} /\ Update(a, "READY", "none")
  <2>1. RecordFits([records[a] EXCEPT !.status = "READY", !.error = "none"])
    BY <1>3, <1>4, <1>6 DEF RecordFits
  <2> QED
    BY <1>4, <1>6, <2>1, UpdateKeeps
<1>7. CASE Update(a, "SUCCEEDED", "none")
  <2>1. RecordFits([records[a] EXCEPT !.status = "SUCCEEDED", !.error = "none"])
    BY <1>3, <1>4 DEF RecordFits
  <2> QED
    BY <1>4, <1>7, <2>1, UpdateKeeps
<1>8. ASSUME NEW e \in Errors, Recorded(e) = e, Update(a, "FAILED", e),
             records[a].op \in {"callback", "invoke"}, records[a].op = "callback" => e = "callback"
      PROVE  WInv'
  <2>1. e \in Errors /\ Recorded(e) = e /\ Update(a, "FAILED", e)
    BY <1>8
  <2>2. RecordFits([records[a] EXCEPT !.status = "FAILED", !.error = e])
    BY <1>3, <1>4, <1>8, <2>1 DEF RecordFits
  <2> QED
    BY <1>4, <2>1, <2>2, UpdateKeeps
<1>9. CASE Elapses(a)
  BY <1>5, <1>6, <1>9 DEF Elapses
<1>10. CASE Answers(a)
  <2>1. ASSUME NEW e \in IF records[a].op = "callback" THEN {"callback"}
                          ELSE {x \in Errors : Recorded(x) = x},
               Update(a, "FAILED", e), records[a].op \in {"callback", "invoke"}
        PROVE  WInv'
    <3>1. e \in Errors /\ Recorded(e) = e /\ (records[a].op = "callback" => e = "callback")
      BY <1>4, <2>1
    <3> QED
      BY <1>8, <2>1, <3>1
  <2> QED
    BY <1>7, <1>10, <2>1 DEF Answers
<1> QED
  BY <1>1, <1>9, <1>10

LEMMA HandlerTask ==
    ASSUME Typed, NEW known \in BOOLEAN
    PROVE  LET task == [Task(Child(program), Root) EXCEPT
                           !.phase = "run", !.entered = known, !.replaying = known]
           IN /\ task \in TaskSet /\ task.stmt = Child(program) /\ task.phase = "run"
              /\ task.out = "none" /\ task.woken = "none" /\ task.awaits = {} /\ task.pc = 1
              /\ Len(task.handles) = 0 /\ DOMAIN task.handles = {}
              /\ Child(program).op = "child" /\ Child(program).body = program
              /\ Len(program) \in Nat
<1>1. /\ Child(program) \in OperationsOver(Bodies[program])
      /\ program \in Seq(StatementsOver(Bodies[program]))
  BY WorkflowAssumption DEF Typed, Child, OperationsOver, IsBody
<1>2. Root \in Address
  BY DEF Root, Address
<1>3. Task(Child(program), Root) \in TaskSet
  BY <1>1, <1>2, TaskType
<1>4. /\ Task(Child(program), Root).stmt = Child(program)
      /\ Task(Child(program), Root).out = "none"
      /\ Task(Child(program), Root).awaits = {} /\ Task(Child(program), Root).woken = "none"
      /\ Task(Child(program), Root).pc = 1
      /\ Len(Task(Child(program), Root).handles) = 0
      /\ DOMAIN Task(Child(program), Root).handles = {}
  BY <1>1, <1>2, TaskType
<1>5. Child(program).op = "child" /\ Child(program).body = program /\ Len(program) \in Nat
  BY <1>1, LenProperties DEF Child
<1> DEFINE fresh == Task(Child(program), Root)
<1> HIDE DEF fresh
<1>6. /\ [fresh EXCEPT !.phase = "run", !.entered = known, !.replaying = known] \in TaskSet
      /\ [fresh EXCEPT !.phase = "run", !.entered = known, !.replaying = known].phase = "run"
      /\ [fresh EXCEPT !.phase = "run", !.entered = known, !.replaying = known].stmt = fresh.stmt
      /\ [fresh EXCEPT !.phase = "run", !.entered = known, !.replaying = known].out = fresh.out
      /\ [fresh EXCEPT !.phase = "run", !.entered = known, !.replaying = known].awaits = fresh.awaits
      /\ [fresh EXCEPT !.phase = "run", !.entered = known, !.replaying = known].woken = fresh.woken
      /\ [fresh EXCEPT !.phase = "run", !.entered = known, !.replaying = known].pc = fresh.pc
      /\ [fresh EXCEPT !.phase = "run", !.entered = known, !.replaying = known].handles = fresh.handles
  BY <1>3 DEF TaskSet, Phases, fresh
<1> QED
  BY <1>4, <1>5, <1>6 DEF fresh

LEMMA InvokeKeeps ==
    ASSUME WInv, InvokeWorkflow
    PROVE  WInv'
<1> DEFINE known == records # <<>>
           task == [Task(Child(program), Root) EXCEPT
                       !.phase = "run", !.entered = known, !.replaying = known]
<1>1. /\ invocation \in {"due", "lost", "suspended"} /\ invocation' = "running"
      /\ stirred' = FALSE /\ view' = records /\ journal' = "open"
      /\ tasks' = Only(Root, task)
      /\ UNCHANGED <<program, records, outcome, crashes, asked, told>>
  BY DEF InvokeWorkflow
<1>2. known \in BOOLEAN
  OBVIOUS
<1> HIDE DEF known
<1>3. /\ task \in TaskSet /\ task.stmt = Child(program) /\ task.phase = "run"
      /\ task.out = "none" /\ task.woken = "none" /\ task.awaits = {} /\ task.pc = 1
      /\ Len(task.handles) = 0 /\ DOMAIN task.handles = {}
      /\ Child(program).op = "child" /\ Child(program).body = program
      /\ Len(program) \in Nat
  BY <1>2, HandlerTask DEF WInv
<1> HIDE DEF task
<1>4. tasks' = [b \in {Root} |-> task] /\ DOMAIN tasks' = {Root} /\ tasks'[Root] = task
  BY <1>1 DEF Only
<1>5. Typed'
  <2>1. TaskSet' = TaskSet /\ PlaceSet' = PlaceSet
    BY <1>1 DEF TaskSet, PlaceSet
  <2>2. MapOf(tasks', TaskSet)
    <3>1. Root \in Address
      BY DEF Root, Address
    <3> QED
      BY <1>3, <1>4, <3>1 DEF MapOf
  <2> QED
    BY <1>1, <2>1, <2>2 DEF WInv, Typed, MapOf, RecordSet
<1>6. Known'
  BY <1>1, <1>3, <1>4 DEF WInv, Known
<1>7. Kind(Root)' = "child" /\ IsScope(Root)' /\ Body(Root)' = program
  BY <1>3, <1>4 DEF Kind, IsScope, Body
<1>8. Formed'
  <2>1. 1 <= Len(program) + 1
    BY <1>3
  <2>2. Shape(Root)'
    BY <1>3, <1>4, <1>7, <2>1 DEF Shape
  <2>3. Nested(Root)'
    BY DEF Nested
  <2> QED
    BY <1>4, <2>2, <2>3 DEF Formed
<1>9. Heard'
  <2>1. Hears(Root)' /\ Awaits(Root)'
    BY <1>3, <1>4 DEF Hears, Awaits
  <2> QED
    BY <1>4, <2>1 DEF Heard
<1>10. HandlesFormed'
  <2>1. Handle(Root)'
    BY <1>7 DEF Handle
  <2>2. Created(Body(Root), tasks[Root].pc)' = {} /\ Cardinality({}) = 0
    BY <1>3, <1>4, FS_EmptySet DEF Created
  <2>3. HandlesIn(Root)'
    <3>1. Len(tasks'[Root].handles) = 0 /\ DOMAIN tasks'[Root].handles = {}
      BY <1>3, <1>4
    <3>2. Cardinality(Created(Body(Root), tasks[Root].pc)') = 0
      BY <2>2
    <3> QED
      BY <3>1, <3>2 DEF HandlesIn
  <2> QED
    BY <1>4, <2>1, <2>3 DEF HandlesFormed
<1>11. KindsFit'
  BY <1>1, <1>4 DEF WInv, KindsFit, Known, RecordFits
<1>12. Pauses'
  BY <1>1, <1>3, <1>4 DEF Pauses, PendingIsBacked
<1> QED
  BY <1>5, <1>6, <1>8, <1>9, <1>10, <1>11, <1>12 DEF WInv

LEMMA InitWInv ==
    ASSUME Init
    PROVE  WInv
<1>1. /\ DOMAIN records = {} /\ DOMAIN view = {} /\ DOMAIN tasks = {}
      /\ DOMAIN asked = {} /\ DOMAIN told = {}
      /\ \A S : MapOf(records, S) /\ MapOf(view, S) /\ MapOf(tasks, S) /\ MapOf(asked, S)
                /\ MapOf(told, S)
  BY DEF Init, MapOf
<1>2. Typed
  BY <1>1 DEF Init, Typed
<1>3. Known
  BY <1>1 DEF Init, Known
<1>4. Formed /\ Heard /\ HandlesFormed /\ KindsFit
  BY <1>1 DEF Formed, Heard, HandlesFormed, KindsFit
<1>5. Pauses
  BY <1>1 DEF Init, Pauses, PendingIsBacked
<1> QED
  BY <1>2, <1>3, <1>4, <1>5 DEF WInv

LEMMA EffectKeeps ==
    ASSUME WInv, NEW a \in DOMAIN tasks, Effect(a)
    PROVE  WInv'
<1>1. Way(a)
  BY Ways
<1>2. CASE Exits
  <2>1. invocation = "running"
    BY DEF WInv, Known
  <2>2. crashes' \in Nat
    BY <1>2 DEF Exits, WInv, Typed
  <2> QED
    BY <1>2, <2>1, <2>2, LostKeeps DEF Exits
<1> QED
  BY <1>1, <1>2, CommitsKeep, RejectsKeep, DeliversKeep, StartsKeep, EntersKeep, MovesKeep,
     RetiresKeep, RepeatsKeep, OpensKeep, FinallyKeeps DEF Way

LEMMA StutterKeeps ==
    ASSUME WInv, UNCHANGED vars
    PROVE  WInv'
<1>1. UNCHANGED <<program, records, outcome, stirred, view, tasks, journal, invocation, crashes,
                  asked, told>>
  BY DEF vars, serviceVars, invocationVars
<1>2. Typed'
  <2>1. TaskSet' = TaskSet /\ PlaceSet' = PlaceSet
    BY <1>1 DEF TaskSet, PlaceSet
  <2> QED
    BY <1>1, <2>1 DEF WInv, Typed, MapOf, RecordSet
<1>3. Formed' /\ Heard' /\ HandlesFormed'
  <2>1. \A b : /\ Kind(b)' = Kind(b) /\ IsScope(b)' = IsScope(b) /\ Body(b)' = Body(b)
               /\ Statement(b)' = Statement(b) /\ Persisted(b)' = Persisted(b)
               /\ Children(b)' = Children(b)
    BY <1>1 DEF Kind, IsScope, Body, Statement, Persisted, Children
  <2>2. \A b : /\ (Shape(b)' = Shape(b)) /\ (Nested(b)' = Nested(b)) /\ (Hears(b)' = Hears(b))
               /\ (Awaits(b)' = Awaits(b))
    BY <1>1 DEF Shape, Nested, Hears, Awaits, Last, Persisted, Kind, IsScope, Body, Statement, Children
  <2>3. \A b : (Handle(b)' = Handle(b)) /\ (HandlesIn(b)' = HandlesIn(b))
    BY <1>1 DEF Handle, HandlesIn, Kind, IsScope, Body
  <2> QED
    BY <1>1, <2>2, <2>3 DEF WInv, Formed, Heard, HandlesFormed
<1>4. Known' /\ KindsFit' /\ Pauses'
  BY <1>1 DEF WInv, Known, KindsFit, RecordFits, Kind, Pauses, Backed, Open, PendingIsBacked
<1> QED
  BY <1>2, <1>3, <1>4 DEF WInv

LEMMA NextWInv ==
    ASSUME WInv, [Next]_vars
    PROVE  WInv'
<1>1. CASE InvokeWorkflow
  BY <1>1, InvokeKeeps
<1>2. CASE Crash
  <2>1. crashes' \in Nat
    BY <1>2 DEF Crash, WInv, Typed
  <2> QED
    BY <1>2, <2>1, LostKeeps DEF Crash
<1>3. CASE Work
  BY <1>3, EffectKeeps DEF Work
<1>4. CASE World
  BY <1>4, WorldKeeps
<1>5. CASE UNCHANGED vars
  BY <1>5, StutterKeeps
<1> QED
  BY <1>1, <1>2, <1>3, <1>4, <1>5 DEF Next, Over

\* In every execution of any of the handlers, whatever crashes, fails or answers and in
\* whatever order: the types, the nesting of the tasks and what each awaits, the
\* callbacks a body has in hand, the kinds of the records, and that a pause is backed.
THEOREM WorkflowInvariant == Spec => []WInv
<1>1. Init => WInv
  BY InitWInv
<1>2. WInv /\ [Next]_vars => WInv'
  BY NextWInv
<1> QED
  BY <1>1, <1>2, PTL DEF Spec

\* The types of Workflow, and that an execution has an outcome exactly when it is over.
THEOREM WorkflowTypeOK == Spec => []TypeOK
<1>1. WInv => TypeOK
  <2> SUFFICES ASSUME WInv PROVE TypeOK
    OBVIOUS
  <2>1. \A a \in DOMAIN records : records[a] \in RecordSet
    BY DEF WInv, Typed, MapOf
  <2>2. \A a \in DOMAIN tasks : tasks[a] \in TaskSet /\ tasks[a].awaits \subseteq DOMAIN tasks
    BY DEF WInv, Typed, MapOf, Formed, Shape, Children
  <2>3. /\ DOMAIN view \subseteq DOMAIN records
        /\ invocation \in {"due", "running", "suspended", "lost", "over"}
        /\ outcome \in {"none", "ok"} \cup Errors
        /\ (outcome # "none") = (invocation = "over")
    BY DEF WInv, Typed, Known
  <2> QED
    BY <2>1, <2>2, <2>3 DEF TypeOK, RecordSet, TaskSet, Phases
<1> QED
  BY <1>1, WorkflowInvariant, PTL

\* An invocation that answers PENDING leaves something that brings the next one, however
\* its tasks interleaved with the answers of the world (_effects.py, the pauses of the
\* effects; _testing.py, _drive): a pause reaches the handler only from an operation
\* whose record is open, and no task of the invocation that ends is at work on it.
THEOREM WorkflowPendingIsBacked == Spec => []PendingIsBacked
<1>1. WInv => PendingIsBacked
  BY DEF WInv, Pauses
<1> QED
  BY <1>1, WorkflowInvariant, PTL

\* The records keep what they are of, and those with an end keep it.
Stay ==
    \A a \in DOMAIN records :
        /\ a \in DOMAIN records' /\ records'[a].op = records[a].op
        /\ Final(records[a].status) => records'[a] = records[a]

LEMMA WritesStay ==
    ASSUME WInv, NEW a \in DOMAIN tasks, NEW r, Writes(a, r)
    PROVE  Stay
<1>1. /\ records' = With(records, Only(a, r)) /\ r.op = Kind(a)
      /\ ~Final(In(records, a).status)
  BY DEF Writes
<1>2. a \in DOMAIN records => records[a].op = Kind(a) /\ ~Final(records[a].status)
  BY <1>1 DEF WInv, KindsFit, In
<1>3. \A b \in DOMAIN records : b \in DOMAIN records'
                                /\ records'[b] = IF b = a THEN r ELSE records[b]
  BY <1>1 DEF With, Only
<1> QED
  BY <1>1, <1>2, <1>3 DEF Stay

LEMMA WorldStays ==
    ASSUME WInv, World
    PROVE  Stay
<1>1. PICK a \in DOMAIN records : Elapses(a) \/ Answers(a)
  BY DEF World
<1>2. ~Final(records[a].status)
  BY <1>1 DEF Elapses, Answers, Final
<1>3. PICK status, error : Update(a, status, error)
  <2>1. CASE Elapses(a)
    BY <2>1 DEF Elapses
  <2>2. CASE Answers(a)
    BY <2>2 DEF Answers
  <2> QED
    BY <1>1, <2>1, <2>2
<1>4. /\ DOMAIN records' = DOMAIN records
      /\ \A b \in DOMAIN records \ {a} : records'[b] = records[b]
      /\ records'[a] = [records[a] EXCEPT !.status = status, !.error = error]
  BY <1>3 DEF Update, WInv, Typed, MapOf
<1>5. records'[a].op = records[a].op
  <2>1. records[a] \in RecordSet
    BY DEF WInv, Typed, MapOf
  <2> QED
    BY <1>4, <2>1 DEF RecordSet
<1> QED
  BY <1>2, <1>4, <1>5 DEF Stay

LEMMA EffectStays ==
    ASSUME WInv, NEW a \in DOMAIN tasks, Effect(a)
    PROVE  Stay
<1>1. Way(a)
  BY Ways
<1>2. CASE UNCHANGED records
  BY <1>2 DEF Stay
<1>3. CASE Commits(a) \/ Starts(a)
  BY <1>3, WritesStay DEF Commits, Starts
<1>4. CASE \/ Rejects(a) \/ Delivers(a) \/ Enters(a) \/ Exits \/ Moves(a) \/ Retires(a)
           \/ Repeats(a) \/ Opens(a) \/ Finally(a)
  <2>1. UNCHANGED records
    BY <1>4 DEF Rejects, Delivers, Enters, Exits, Lost, Moves, Retires, Repeats, Opens, Finally,
                HandlerEnds, serviceVars
  <2> QED
    BY <1>2, <2>1
<1> QED
  BY <1>1, <1>3, <1>4 DEF Way

\* No step makes the record of one operation that of another, or changes the end of one,
\* whatever a handler does when it replays (_journal.py, Ticket.select, and what each effect
\* writes; _testing.py, the service): the task of an address is only started over a record
\* of its own kind, and only a record in progress is written.
THEOREM WorkflowRecords == Spec => RecordsStand
<1>1. WInv /\ [Next]_vars => [Stay]_vars
  <2> SUFFICES ASSUME WInv, Next PROVE Stay \/ UNCHANGED vars
    OBVIOUS
  <2>1. CASE InvokeWorkflow \/ Crash
    BY <2>1 DEF InvokeWorkflow, Crash, Lost, serviceVars, Stay
  <2>2. CASE Work
    BY <2>2, EffectStays DEF Work
  <2>3. CASE World
    BY <2>3, WorldStays
  <2> QED
    BY <2>1, <2>2, <2>3 DEF Next, Over
<1>2. WInv /\ [Next]_vars => WInv'
  BY NextWInv
<1>3. Init => WInv
  BY InitWInv
<1> QED
  BY <1>1, <1>2, <1>3, PTL DEF Spec, RecordsStand, Stay

----------------------------------------------------------------------------
(* Programs that replay alike                                              *)

\* A body that awaits one operation at a time, none of them at most once, and in which
\* what a check raises is caught as what its record is raised with, or not at all.
Sequential(body) ==
    \A i \in DOMAIN body :
        /\ body[i].op # "gather"
        /\ body[i].op = "step" => ~body[i].once
        /\ body[i].op = "raise" => body[i].error \notin Retryable
        /\ body[i].op = "condition" =>
              \A e \in Others : (e \in body[i].catch) = ("callable" \in body[i].catch)

\* An operation that ends only with a record.
Settles(operation) ==
    /\ operation.op \in {"step", "condition"} =>
          \A n \in DOMAIN operation.runs :
              operation.runs[n] \in {"ok", "again", "exit", "exit_if_new", "condition"} \cup Others
    /\ operation.op = "child" => ~operation.virtual /\ Sequential(operation.body)

\* The programs whose operations all do; and those without with_retry.
Steady ==
    \A body \in Bodies[program] : \A i \in DOMAIN body :
        \A j \in DOMAIN Operations(body[i]) : Settles(Operations(body[i])[j])
Straight ==
    \A body \in Bodies[program] : \A i \in DOMAIN body :
        \A j \in DOMAIN Operations(body[i]) :
            Operations(body[i])[j].op = "child" => Operations(body[i])[j].tries = 0

\* The place of an address, and the body of a scope by its place.
PlaceAt(b) == CHOOSE place \in asked[b] : TRUE
BodyAt(s) == IF s = Root THEN program ELSE PlaceAt(s).operation.body
TriesAt(s) == IF s = Root THEN 0 ELSE PlaceAt(s).operation.tries
\* The scopes in which the records decide what comes next.
Certain(s) == Steady /\ s # Root

\* An operation that has what it will be replayed with.
Settled(b) ==
    b \in DOMAIN records /\ (Final(records[b].status) \/ records[b].op = "callback")
Verdict(b) == IF PlaceAt(b).operation.op = "callback" THEN "ok" ELSE EndOf(records[b])
Taken(s, c) == {"ok"} \cup BodyAt(s)[c].catch

\* b is the h-th callback that attempt t of s creates.
IsHandle(s, t, h, b) ==
    /\ b \in DOMAIN asked /\ b # Root /\ Parent(b) = s
    /\ PlaceAt(b).phase = "await" /\ PlaceAt(b).attempt = t
    /\ BodyAt(s)[PlaceAt(b).pc].op = "callback"
    /\ h = Cardinality(Created(BodyAt(s), PlaceAt(b).pc)) + 1

\* What a statement that starts nothing has come to.
Came(s, t, d, o) ==
    LET statement == BodyAt(s)[d] IN
    \/ statement.op = "log" /\ o = "ok"
    \/ statement.op = "raise" /\ o = statement.error
    \/ /\ statement.op = "result"
       /\ \E b \in DOMAIN asked : /\ IsHandle(s, t, statement.of, b)
                                  /\ b \in DOMAIN records /\ Final(records[b].status)
                                  /\ o = EndOf(records[b])
Idle(s, t, d) ==
    /\ BodyAt(s)[d].op \in Plain \/ Operations(BodyAt(s)[d]) = <<>>
    /\ Certain(s) => \E o \in Taken(s, d) : Came(s, t, d, o)

\* With k positions taken, s is at statement c of its attempt t.
Leads(s, k, t, c) ==
    LET b == Append(s, k)
        q == PlaceAt(b)
    IN /\ b \in DOMAIN asked /\ (Certain(s) => Settled(b))
       /\ \/ /\ q.phase = "await" /\ q.attempt = t /\ q.pc < c
             /\ q.part = Len(Operations(BodyAt(s)[q.pc]))
             /\ Certain(s) => Verdict(b) \in Taken(s, q.pc)
             /\ \A d \in q.pc + 1 .. c - 1 : Idle(s, t, d)
          \/ /\ q.phase = "backing_off" /\ t = q.attempt + 1
             /\ \A d \in 1 .. c - 1 : Idle(s, t, d)
Led(s, k, t, c) ==
    \/ k = 0 /\ t = 1 /\ \A d \in 1 .. c - 1 : Idle(s, t, d)
    \/ k \in Position /\ Leads(s, k, t, c)

\* With k positions taken, statement c of attempt t of s has come to o.
Stuck(s, k, t, c, o) ==
    \/ /\ BodyAt(s)[c].op \in Plain
       /\ Led(s, k, t, c) /\ Came(s, t, c, o)
    \/ LET b == Append(s, k)
           q == PlaceAt(b)
       IN /\ k \in Position /\ b \in DOMAIN asked /\ Settled(b)
          /\ q.phase = "await" /\ q.attempt = t /\ q.pc = c /\ o = Verdict(b)
\* And s backs off from it.
Failed(s, k, t, c) ==
    /\ Certain(s) /\ c \in DOMAIN BodyAt(s) /\ t < TriesAt(s)
    /\ \E o \in Errors \ (InvocationErrors \cup BodyAt(s)[c].catch) : Stuck(s, k, t, c, o)

PlaceFits(b) ==
    LET s == Parent(b)
        n == b[Len(b)]
        p == PlaceAt(b)
        operations == Operations(BodyAt(s)[p.pc])
    IN /\ p.pc \in 1 .. Len(BodyAt(s))
       /\ p.phase = "await" =>
             /\ BodyAt(s)[p.pc].op \notin Plain
             /\ p.part \in 1 .. Len(operations) /\ p.operation = operations[p.part]
             /\ \A j \in 1 .. Len(operations) :
                   LET c == Append(s, n - p.part + j)
                   IN /\ c \in DOMAIN asked
                      /\ PlaceAt(c) = [phase |-> "await", attempt |-> p.attempt, pc |-> p.pc,
                                       part |-> j, operation |-> operations[j]]
             /\ p.part = 1 => Led(s, n - 1, p.attempt, p.pc)
       /\ p.phase = "backing_off" =>
             /\ p.part = 1 /\ p.operation = Wait
             /\ Failed(s, n - 1, p.attempt, p.pc)
       /\ \A m \in 1 .. n - 1 : Append(s, m) \in DOMAIN asked
Places ==
    \A b \in DOMAIN asked :
        /\ b # Root /\ asked[b] = {PlaceAt(b)}
        /\ Parent(b) # Root => /\ Parent(b) \in DOMAIN asked
                               /\ PlaceAt(Parent(b)).operation.op = "child"
        /\ PlaceFits(b)

\* The places of a scope are taken in the order of its body.
Earlier(p, q) ==
    \/ p.attempt < q.attempt
    \/ /\ p.attempt = q.attempt
       /\ p.pc < q.pc \/ (p.pc = q.pc /\ p.phase = "await" /\ q.phase = "backing_off")
Ordered ==
    \A b, c \in DOMAIN asked :
        Certain(Parent(b)) /\ Parent(c) = Parent(b) /\ b[Len(b)] < c[Len(c)]
        => Earlier(PlaceAt(b), PlaceAt(c))

\* Where a scope is.
Stands(s) ==
    LET k == tasks[s].next - 1
        t == tasks[s].attempt
        c == tasks[s].pc
        at(phase) == /\ Append(s, k) \in DOMAIN asked
                     /\ PlaceAt(Append(s, k)).phase = phase
                     /\ PlaceAt(Append(s, k)).attempt = t
                     /\ PlaceAt(Append(s, k)).pc = c
    IN /\ tasks[s].phase # "refused"
       /\ tasks[s].phase = "begin" => t = 1
       /\ tasks[s].phase = "run" => Led(s, k, t, c)
       /\ tasks[s].phase = "await" =>
             IF Operations(Statement(s)) = <<>> THEN Led(s, k, t, c)
             ELSE /\ k \in Position /\ at("await")
                  /\ PlaceAt(Append(s, k)).part = Len(Operations(Statement(s)))
       /\ tasks[s].phase = "back_off" => Failed(s, k, t, c)
       /\ tasks[s].phase = "backing_off" => k \in Position /\ Certain(s) /\ at("backing_off")

Placed ==
    /\ Places /\ Ordered
    /\ \A b \in DOMAIN records : b \in DOMAIN asked /\ records[b].op = PlaceAt(b).operation.op
    /\ \A s \in DOMAIN tasks : IsScope(s) => Stands(s)

\* An outcome that agrees with the record: as it is replayed, or as it was raised when
\* the record was made.
Agreed(a, o) ==
    LET operation == PlaceAt(a).operation IN
    /\ a \in DOMAIN records /\ a \in DOMAIN asked
    /\ operation.op = "callback" => o = "ok"
    /\ operation.op # "callback" =>
          /\ Final(records[a].status)
          /\ \/ o = EndOf(records[a])
             \/ /\ operation.op = "condition" /\ o \in Errors \ Retryable
                /\ EndOf(records[a]) = Recorded(o)
             \/ /\ operation.op = "step" /\ operation.once /\ o = "interrupted"
                /\ EndOf(records[a]) = "callable"

Agreeing ==
    /\ \A a \in DOMAIN told : \A o \in told[a] \ {"pause"} : Agreed(a, o)
    /\ \A a \in DOMAIN tasks : tasks[a].out # "none" => a \in DOMAIN told /\ tasks[a].out \in told[a]

\* What runs has a record in progress, and its operations are what it awaits.
Beginning(a) ==
    a # Root /\ tasks[a].phase \notin {"begin", "done"} =>
        a \in DOMAIN records /\ records[a].status = "STARTED"
Awaiting(a) ==
    a # Root => \A b \in Children(a) :
        \/ tasks[b].phase = "done"
        \/ tasks[a].phase \in {"await", "backing_off"} /\ b \in tasks[a].awaits
Holding(a) ==
    a # Root /\ IsScope(a) =>
        /\ Len(tasks[a].handles) = Cardinality(Created(Body(a), tasks[a].pc))
        /\ \A h \in DOMAIN tasks[a].handles : IsHandle(a, tasks[a].attempt, h, tasks[a].handles[h])
Working == \A a \in DOMAIN tasks : Beginning(a) /\ Awaiting(a) /\ Holding(a)

\* The journal is in step with the service.
InStep ==
    /\ journal = "open"
    /\ \A a \in DOMAIN records : records[a].parent = Parent(a)
    /\ invocation = "running" =>
          \A a \in DOMAIN view : records[a] = view[a] \/ Open(view[a])

Settling == Agreeing /\ Working /\ InStep /\ NothingOutlivesItsScope

DInv == (Straight \/ Steady => Placed) /\ (Steady => Settling)

----------------------------------------------------------------------------
(* A program goes from one place to the next in one way                    *)

Scoped(s) == s = Root \/ (s \in DOMAIN asked /\ PlaceAt(s).operation.op = "child")

LEMMA PlaceIs ==
    ASSUME Typed, Places, NEW b \in DOMAIN asked
    PROVE  /\ asked[b] = {PlaceAt(b)} /\ PlaceFits(b)
           /\ PlaceAt(b).phase \in {"await", "backing_off"}
           /\ PlaceAt(b).attempt \in Position /\ PlaceAt(b).pc \in Position
           /\ PlaceAt(b).part \in Position
           /\ PlaceAt(b).operation \in OperationsOver(Bodies[program])
           /\ PlaceAt(b) = [phase |-> PlaceAt(b).phase, attempt |-> PlaceAt(b).attempt,
                            pc |-> PlaceAt(b).pc, part |-> PlaceAt(b).part,
                            operation |-> PlaceAt(b).operation]
           /\ b \in Address /\ b # Root /\ Parent(b) \in Address /\ b[Len(b)] \in Position
           /\ Append(Parent(b), b[Len(b)]) = b /\ Scoped(Parent(b))
<1>1. b # Root /\ asked[b] = {PlaceAt(b)} /\ PlaceFits(b) /\ Scoped(Parent(b))
  BY DEF Places, Scoped
<1>2. b \in Address /\ asked[b] \in SUBSET PlaceSet
  BY DEF Typed, MapOf
<1>3. PlaceAt(b) \in PlaceSet
  BY <1>1, <1>2
<1> QED
  BY <1>1, <1>2, <1>3, ParentAppend DEF PlaceSet

LEMMA BodyIs ==
    ASSUME Typed, Places, NEW s, Scoped(s)
    PROVE  /\ s \in Address /\ TriesAt(s) \in Nat
           /\ BodyAt(s) \in Bodies[program] /\ IsBody(BodyAt(s), Bodies[program])
           /\ BodyAt(s) \in Seq(StatementsOver(Bodies[program]))
<1>1. /\ program \in Workflows /\ program \in Bodies[program]
      /\ \A body \in Bodies[program] : IsBody(body, Bodies[program])
  BY WorkflowAssumption DEF Typed
<1>2. CASE s = Root
  <2>1. s \in Address
    BY <1>2 DEF Address, Root
  <2> QED
    BY <1>1, <1>2, <2>1 DEF BodyAt, TriesAt, IsBody
<1>3. CASE s # Root
  <2>1. s \in DOMAIN asked /\ PlaceAt(s).operation.op = "child"
    BY <1>3 DEF Scoped
  <2>2. s \in Address /\ PlaceAt(s).operation \in OperationsOver(Bodies[program])
    BY <2>1, PlaceIs
  <2>3. PlaceAt(s).operation.body \in Bodies[program] /\ PlaceAt(s).operation.tries \in Nat
    BY <2>1, <2>2 DEF OperationsOver
  <2> QED
    BY <1>1, <1>3, <2>2, <2>3 DEF BodyAt, TriesAt, IsBody
<1> QED
  BY <1>2, <1>3

\* A statement of a body, by its number.
LEMMA StatementAt ==
    ASSUME NEW body \in Seq(StatementsOver(Bodies[program])), NEW c \in 1 .. Len(body)
    PROVE  /\ c \in DOMAIN body
           /\ body[c].catch \subseteq Errors
           /\ body[c].op \in Kinds \cup {"gather"} \cup Plain
           /\ body[c].op = "raise" => body[c].error \in Errors
           /\ body[c].op \notin Plain =>
                 Operations(body[c]) \in Seq(OperationsOver(Bodies[program]))
           /\ body[c].op # "gather" =>
                 /\ Operations(body[c]) = <<body[c]>> /\ Len(Operations(body[c])) = 1
                 /\ Operations(body[c])[1] = body[c] /\ 1 \in DOMAIN Operations(body[c])
                 /\ Operations(body[c]) # <<>>
<1> DEFINE s == body[c]
           Parts == OperationsOver(Bodies[program])
<1>1. c \in DOMAIN body /\ s \in StatementsOver(Bodies[program])
  BY ElementOfSeq, LenProperties
<1>2. /\ s.catch \subseteq Errors /\ s.op \in Kinds \cup {"gather"} \cup Plain
      /\ s.op = "raise" => s.error \in Errors
      /\ s.op = "gather" => s.parts \in Seq(Parts)
      /\ s.op \notin Plain \cup {"gather"} => s \in Parts
  <2>1. CASE s \in Parts
    BY <2>1 DEF OperationsOver, Kinds, Plain
  <2>2. CASE s \notin Parts
    <3> HIDE DEF Parts
    <3>1. s \in [op : {"gather"}, parts : Seq(Parts), catch : SUBSET Errors]
              \cup [op : {"result"}, of : Nat \ {0}, catch : SUBSET Errors]
              \cup [op : {"raise"}, error : Errors, catch : SUBSET Errors]
              \cup [op : {"log"}, catch : SUBSET Errors]
      BY <1>1, <2>2 DEF StatementsOver, Parts
    <3> QED
      BY <3>1 DEF Plain
  <2> QED
    BY <2>1, <2>2
<1>3. s.op \notin Plain => Operations(s) \in Seq(Parts)
  <2> HIDE DEF Parts
  <2> QED
    BY <1>2 DEF Operations
<1>4. s.op # "gather" => Operations(s) = <<s>>
  BY DEF Operations
<1> QED
  BY <1>1, <1>2, <1>3, <1>4

\* An address has the operation of its place in the body, which settles when all do.
LEMMA OperationAt ==
    ASSUME Typed, Places, NEW b \in DOMAIN asked
    PROVE  /\ Steady => Settles(PlaceAt(b).operation)
           /\ Straight /\ PlaceAt(b).operation.op = "child" => PlaceAt(b).operation.tries = 0
<1> DEFINE p == PlaceAt(b)
           body == BodyAt(Parent(b))
<1>1. PlaceFits(b) /\ Scoped(Parent(b)) /\ p.phase \in {"await", "backing_off"}
  BY PlaceIs
<1>2. body \in Bodies[program] /\ body \in Seq(StatementsOver(Bodies[program]))
  BY <1>1, BodyIs
<1>3. CASE p.phase = "await"
  <2>1. /\ p.pc \in 1 .. Len(body) /\ body[p.pc].op \notin Plain
        /\ p.part \in 1 .. Len(Operations(body[p.pc]))
        /\ p.operation = Operations(body[p.pc])[p.part]
    BY <1>1, <1>3 DEF PlaceFits
  <2>2. p.pc \in DOMAIN body /\ Operations(body[p.pc]) \in Seq(OperationsOver(Bodies[program]))
    BY <1>2, <2>1, StatementAt
  <2>3. p.part \in DOMAIN Operations(body[p.pc])
    BY <2>1, <2>2, LenProperties
  <2> HIDE DEF p, body
  <2>4. (Steady => Settles(p.operation))
        /\ (Straight /\ p.operation.op = "child" => p.operation.tries = 0)
    BY <1>2, <2>1, <2>2, <2>3 DEF Steady, Straight
  <2> QED
    BY <2>4 DEF p
<1>4. CASE p.phase = "backing_off"
  <2>1. p.operation = Wait
    BY <1>1, <1>4 DEF PlaceFits
  <2> QED
    BY <2>1 DEF Wait, Settles
<1> QED
  BY <1>1, <1>3, <1>4

\* In a scope that the records decide there is no gather.
LEMMA CertainIs ==
    ASSUME Typed, Places, NEW s, Scoped(s), Certain(s)
    PROVE  /\ Sequential(BodyAt(s)) /\ ~PlaceAt(s).operation.virtual
           /\ \A c \in 1 .. Len(BodyAt(s)) :
                 /\ BodyAt(s)[c].op # "gather" /\ Operations(BodyAt(s)[c]) = <<BodyAt(s)[c]>>
                 /\ Len(Operations(BodyAt(s)[c])) = 1 /\ Operations(BodyAt(s)[c]) # <<>>
<1>1. Steady /\ s # Root /\ s \in DOMAIN asked /\ PlaceAt(s).operation.op = "child"
  BY DEF Certain, Scoped
<1>2. Settles(PlaceAt(s).operation)
  BY <1>1, OperationAt
<1>3. Sequential(BodyAt(s)) /\ ~PlaceAt(s).operation.virtual
  BY <1>1, <1>2 DEF Settles, BodyAt
<1>4. BodyAt(s) \in Seq(StatementsOver(Bodies[program]))
  BY BodyIs
<1> QED
  BY <1>3, <1>4, StatementAt DEF Sequential

LEMMA CreatedIs ==
    ASSUME NEW body, NEW i \in Position
    PROVE  /\ IsFiniteSet(Created(body, i)) /\ Cardinality(Created(body, i)) \in Nat
           /\ i \notin Created(body, i)
           /\ i + 1 \in Position
           /\ Created(body, i + 1) = IF body[i].op = "callback"
                                     THEN Created(body, i) \cup {i} ELSE Created(body, i)
<1>0. i \in Nat \ {0} /\ i - 1 \in Int
  BY DEF Position
<1>1. Created(body, i) \subseteq 1 .. i - 1 /\ IsFiniteSet(1 .. i - 1)
  BY <1>0, FS_Interval DEF Created
<1>2. IsFiniteSet(Created(body, i)) /\ Cardinality(Created(body, i)) \in Nat
  BY <1>1, FS_Subset, FS_CardinalityType
<1>3. i \notin Created(body, i)
  BY <1>0, <1>1
<1>4. 1 .. i + 1 - 1 = (1 .. i - 1) \cup {i}
  BY <1>0
<1>5. Created(body, i + 1) = IF body[i].op = "callback"
                             THEN Created(body, i) \cup {i} ELSE Created(body, i)
  BY <1>4 DEF Created
<1> QED
  BY <1>0, <1>2, <1>3, <1>5 DEF Position

LEMMA CreatedMore ==
    ASSUME NEW body, NEW i \in Position, NEW j \in Position, i < j, body[i].op = "callback"
    PROVE  Cardinality(Created(body, i)) < Cardinality(Created(body, j))
<1> DEFINE made == Created(body, i)
           more == Created(body, j)
<1>1. IsFiniteSet(made) /\ Cardinality(made) \in Nat /\ i \notin made
      /\ IsFiniteSet(more) /\ Cardinality(more) \in Nat
  BY CreatedIs
<1>2. made \cup {i} \subseteq more
  BY DEF Created, Position
<1>3. Cardinality(made \cup {i}) = Cardinality(made) + 1
  BY <1>1, FS_AddElement
<1>4. Cardinality(made \cup {i}) <= Cardinality(more)
  BY <1>1, <1>2, FS_Subset
<1> HIDE DEF made, more
<1>5. Cardinality(made) < Cardinality(more)
  BY <1>1, <1>3, <1>4
<1> QED
  BY <1>5 DEF made, more

\* A callback of an attempt has one address.
LEMMA HandleOne ==
    ASSUME Typed, Places, Ordered, NEW s, Certain(s), NEW t, NEW h,
           NEW b, NEW c, IsHandle(s, t, h, b), IsHandle(s, t, h, c)
    PROVE  b = c
<1>1. /\ b \in DOMAIN asked /\ c \in DOMAIN asked /\ Parent(b) = s /\ Parent(c) = s
      /\ PlaceAt(b).phase = "await" /\ PlaceAt(c).phase = "await"
      /\ PlaceAt(b).attempt = PlaceAt(c).attempt
      /\ BodyAt(s)[PlaceAt(b).pc].op = "callback" /\ BodyAt(s)[PlaceAt(c).pc].op = "callback"
      /\ Cardinality(Created(BodyAt(s), PlaceAt(b).pc)) + 1
            = Cardinality(Created(BodyAt(s), PlaceAt(c).pc)) + 1
  BY DEF IsHandle
<1>2. /\ b[Len(b)] \in Position /\ c[Len(c)] \in Position
      /\ Append(s, b[Len(b)]) = b /\ Append(s, c[Len(c)]) = c
      /\ PlaceAt(b).pc \in Position /\ PlaceAt(c).pc \in Position
      /\ PlaceAt(b).attempt \in Position /\ PlaceAt(c).attempt \in Position
  BY <1>1, PlaceIs
<1>3. Cardinality(Created(BodyAt(s), PlaceAt(b).pc)) = Cardinality(Created(BodyAt(s), PlaceAt(c).pc))
  <2>1. \A x, y \in Nat : x + 1 = y + 1 => x = y
    OBVIOUS
  <2> QED
    BY <1>1, <1>2, <2>1, CreatedIs
<1>4. ASSUME NEW x \in {b, c}, NEW y \in {b, c}, x[Len(x)] < y[Len(y)] PROVE FALSE
  <2>1. Earlier(PlaceAt(x), PlaceAt(y))
    BY <1>1, <1>4 DEF Ordered
  <2>2. PlaceAt(x).pc < PlaceAt(y).pc
    <3>1. \A m \in Position : ~(m < m)
      BY DEF Position
    <3> QED
      BY <1>1, <1>2, <2>1, <3>1 DEF Earlier
  <2>3. Cardinality(Created(BodyAt(s), PlaceAt(x).pc)) < Cardinality(Created(BodyAt(s), PlaceAt(y).pc))
    BY <1>1, <1>2, <2>2, CreatedMore
  <2>4. \A m \in Nat : ~(m < m)
    OBVIOUS
  <2> QED
    BY <1>2, <1>3, <2>3, <2>4, CreatedIs
<1>5. b[Len(b)] = c[Len(c)]
  <2>1. \A x, y \in Position : x < y \/ y < x \/ x = y
    BY DEF Position
  <2> QED
    BY <1>2, <1>4, <2>1
<1> QED
  BY <1>2, <1>5

LEMMA CameOne ==
    ASSUME Typed, Places, Ordered, NEW s, Certain(s), NEW t, NEW d,
           NEW o, NEW q, Came(s, t, d, o), Came(s, t, d, q)
    PROVE  o = q
<1>1. CASE BodyAt(s)[d].op = "result"
  <2>1. PICK b \in DOMAIN asked : IsHandle(s, t, BodyAt(s)[d].of, b) /\ o = EndOf(records[b])
    BY <1>1 DEF Came
  <2>2. PICK c \in DOMAIN asked : IsHandle(s, t, BodyAt(s)[d].of, c) /\ q = EndOf(records[c])
    BY <1>1 DEF Came
  <2>3. b = c
    BY <2>1, <2>2, HandleOne
  <2> QED
    BY <2>1, <2>2, <2>3
<1>2. CASE BodyAt(s)[d].op # "result"
  BY <1>2 DEF Came
<1> QED
  BY <1>1, <1>2

\* Two statements that k positions lead to are of one attempt, and what is between them
\* starts nothing.
LEMMA LedOne ==
    ASSUME Typed, Places, NEW s, NEW k \in Nat, NEW t \in Position, NEW u \in Position,
           NEW c \in Position, NEW d \in Position, Led(s, k, t, c), Led(s, k, u, d)
    PROVE  t = u /\ (c < d => Idle(s, t, c))
<1>1. CASE k = 0
  <2>1. k \notin Position
    BY <1>1 DEF Position
  <2>2. t = 1 /\ u = 1 /\ \A e \in 1 .. d - 1 : Idle(s, u, e)
    BY <2>1 DEF Led
  <2>3. c < d => c \in 1 .. d - 1
    BY DEF Position
  <2> QED
    BY <2>2, <2>3
<1>2. CASE k # 0
  <2> DEFINE q == PlaceAt(Append(s, k))
  <2>1. Leads(s, k, t, c) /\ Leads(s, k, u, d) /\ Append(s, k) \in DOMAIN asked
    BY <1>2 DEF Led, Leads
  <2>2. q.pc \in Position /\ q.attempt \in Position
    BY <2>1, PlaceIs
  <2>3. CASE q.phase = "await"
    <3>1. /\ q.attempt = t /\ q.attempt = u /\ q.pc < c
          /\ \A e \in q.pc + 1 .. d - 1 : Idle(s, u, e)
      BY <2>1, <2>3 DEF Leads
    <3> HIDE DEF q
    <3>2. c < d => c \in q.pc + 1 .. d - 1
      BY <2>2, <3>1 DEF Position
    <3> QED
      BY <3>1, <3>2
  <2>4. CASE q.phase # "await"
    <3>1. t = q.attempt + 1 /\ u = q.attempt + 1 /\ \A e \in 1 .. d - 1 : Idle(s, u, e)
      BY <2>1, <2>4 DEF Leads
    <3>2. c < d => c \in 1 .. d - 1
      BY DEF Position
    <3> QED
      BY <3>1, <3>2
  <2> QED
    BY <2>3, <2>4
<1> QED
  BY <1>1, <1>2

LEMMA PartBefore ==
    ASSUME NEW k \in Nat, NEW n \in Nat, NEW x \in Position, x \in 1 .. n
    PROVE  n # 0 /\ (x # 1 => /\ n # 1 /\ x - 1 \in 1 .. n /\ x - 1 # n /\ k + 1 - x + (x - 1) = k)
  BY DEF Position

\* The place at the next position, when something has taken it.
LEMMA NextPlace ==
    ASSUME Typed, Places, NEW s, Scoped(s), NEW k \in Nat, Append(s, k + 1) \in DOMAIN asked
    PROVE  LET p == PlaceAt(Append(s, k + 1))
               operations == Operations(BodyAt(s)[p.pc])
           IN /\ p.pc \in Position /\ p.pc \in 1 .. Len(BodyAt(s)) /\ p.attempt \in Position
              /\ p.phase = "await" =>
                    /\ BodyAt(s)[p.pc].op \notin Plain /\ operations # <<>>
                    /\ p.part = 1 => Led(s, k, p.attempt, p.pc)
                    /\ p.part # 1 =>
                          LET b == Append(s, k)
                              q == PlaceAt(b)
                          IN /\ k \in Position /\ b \in DOMAIN asked
                             /\ q.phase = "await" /\ q.attempt = p.attempt /\ q.pc = p.pc
                             /\ q.part # Len(operations)
                             /\ Len(operations) # 1
              /\ p.phase # "await" => /\ p.phase = "backing_off" /\ p.part = 1
                                      /\ p.operation = Wait /\ Certain(s)
                                      /\ Failed(s, k, p.attempt, p.pc)
<1> DEFINE a == Append(s, k + 1)
           p == PlaceAt(a)
           operations == Operations(BodyAt(s)[p.pc])
<1>0. s \in Address /\ k + 1 \in Position
  BY BodyIs DEF Position
<1>1. Parent(a) = s /\ a[Len(a)] = k + 1
  BY <1>0, AppendParent
<1>2. /\ PlaceFits(a) /\ p.phase \in {"await", "backing_off"} /\ p.attempt \in Position
      /\ p.pc \in Position /\ p.part \in Position
  BY PlaceIs
<1>3. p.pc \in 1 .. Len(BodyAt(s))
  BY <1>1, <1>2 DEF PlaceFits
<1>4. a[Len(a)] - 1 = k
  BY <1>1
<1>5. CASE p.phase = "await"
  <2> DEFINE Together(n) ==
        \A j \in 1 .. Len(operations) :
            LET c == Append(s, n - p.part + j)
            IN /\ c \in DOMAIN asked
               /\ PlaceAt(c) = [phase |-> "await", attempt |-> p.attempt, pc |-> p.pc,
                                part |-> j, operation |-> operations[j]]
  <2>0. /\ BodyAt(s)[p.pc].op \notin Plain /\ p.part \in 1 .. Len(operations)
        /\ Together(a[Len(a)])
        /\ p.part = 1 => Led(s, k, p.attempt, p.pc)
    BY <1>1, <1>2, <1>4, <1>5 DEF PlaceFits
  <2>1. /\ BodyAt(s)[p.pc].op \notin Plain /\ p.part \in 1 .. Len(operations)
        /\ Together(k + 1)
        /\ p.part = 1 => Led(s, k, p.attempt, p.pc)
    <3> HIDE DEF Together
    <3> QED
      BY <1>1, <2>0
  <2>2. operations \in Seq(OperationsOver(Bodies[program])) /\ Len(operations) \in Nat
    BY <1>3, <2>1, BodyIs, StatementAt, LenProperties
  <2>3. operations # <<>>
    <3>1. operations = <<>> => Len(operations) = 0
      BY EmptySeq
    <3> HIDE DEF operations, p
    <3> QED
      BY <1>2, <2>1, <2>2, <3>1, PartBefore
  <2>4. ASSUME p.part # 1
        PROVE  LET b == Append(s, k)
                   q == PlaceAt(b)
               IN /\ k \in Position /\ b \in DOMAIN asked
                  /\ q.phase = "await" /\ q.attempt = p.attempt /\ q.pc = p.pc
                  /\ q.part # Len(operations)
                  /\ Len(operations) # 1
    <3> DEFINE j == p.part - 1
    <3>0. /\ Len(operations) # 1 /\ p.part - 1 \in 1 .. Len(operations)
          /\ p.part - 1 # Len(operations) /\ k + 1 - p.part + (p.part - 1) = k
      <4> HIDE DEF p, operations, a
      <4>1. Len(operations) \in Nat /\ p.part \in Position /\ p.part \in 1 .. Len(operations)
            /\ p.part # 1 /\ k \in Nat
        BY <1>2, <2>1, <2>2, <2>4
      <4> QED
        BY ONLY <4>1, PartBefore
    <3>1. j \in 1 .. Len(operations) /\ j # Len(operations) /\ Len(operations) # 1
      BY <3>0
    <3>2. k + 1 - p.part + j = k
      BY <3>0
    <3>3. /\ Append(s, k) \in DOMAIN asked
          /\ PlaceAt(Append(s, k)) = [phase |-> "await", attempt |-> p.attempt, pc |-> p.pc,
                                      part |-> j, operation |-> operations[j]]
      <4>2. j \in 1 .. Len(operations)
        BY <3>1
      <4> DEFINE c == Append(s, k + 1 - p.part + j)
      <4> HIDE DEF a, p, operations, j
      <4>3. /\ c \in DOMAIN asked
            /\ PlaceAt(c) = [phase |-> "await", attempt |-> p.attempt, pc |-> p.pc,
                             part |-> j, operation |-> operations[j]]
        BY <2>1, <4>2
      <4>4. c = Append(s, k)
        BY <3>2
      <4> HIDE DEF c
      <4> QED
        BY <4>3, <4>4
    <3>4. k \in Position
      <4>1. Append(s, k) \in Address /\ Append(s, k)[Len(Append(s, k))] \in Position
        BY <3>3, PlaceIs
      <4>2. Append(s, k)[Len(s) + 1] = k /\ Len(Append(s, k)) = Len(s) + 1
        BY <1>0, AppendProperties DEF Address, Position
      <4> QED
        BY <4>1, <4>2
    <3> HIDE DEF p, operations, j
    <3> QED
      BY <3>1, <3>3, <3>4
  <2> HIDE DEF p, operations
  <2>5. /\ p.phase = "await" =>
                    /\ BodyAt(s)[p.pc].op \notin Plain /\ operations # <<>>
                    /\ p.part = 1 => Led(s, k, p.attempt, p.pc)
                    /\ p.part # 1 =>
                          LET b == Append(s, k)
                              q == PlaceAt(b)
                          IN /\ k \in Position /\ b \in DOMAIN asked
                             /\ q.phase = "await" /\ q.attempt = p.attempt /\ q.pc = p.pc
                             /\ q.part # Len(operations)
                             /\ Len(operations) # 1
    BY <2>1, <2>3, <2>4
  <2> QED
    BY <1>2, <1>3, <1>5, <2>5 DEF p, operations
<1>6. CASE p.phase = "backing_off"
  <2>1. p.part = 1 /\ p.operation = Wait /\ Failed(s, k, p.attempt, p.pc)
    BY <1>1, <1>2, <1>4, <1>6 DEF PlaceFits
  <2> HIDE DEF p, operations
  <2>2. Certain(s)
    BY <2>1 DEF Failed
  <2> QED
    BY <1>2, <1>3, <1>6, <2>1, <2>2 DEF p, operations
<1> QED
  BY <1>2, <1>5, <1>6

\* What no except clause takes.
LEMMA NotTaken ==
    ASSUME NEW s, NEW c, NEW o \in Errors \ (InvocationErrors \cup BodyAt(s)[c].catch)
    PROVE  o \notin Taken(s, c)
  BY RecordedErrors DEF Taken

LEMMA Between == \A x, y \in Position, n \in Nat : x \in 1 .. n /\ ~(x < y) => y \in 1 .. n
  BY DEF Position

LEMMA NotLess == \A x, y \in Position : /\ ~(x < x) /\ (x < y \/ y < x \/ x = y)
                                        /\ (x < y => x # y /\ ~(y < x))
  BY DEF Position

\* Where k positions lead to statement c, the next position is taken by it, or by what
\* comes after statements that start nothing.
LEMMA LedNext ==
    ASSUME Typed, Places, Ordered, NEW s, Scoped(s), NEW k \in Nat, NEW t \in Position,
           NEW c \in Position, Led(s, k, t, c), Append(s, k + 1) \in DOMAIN asked
    PROVE  LET p == PlaceAt(Append(s, k + 1))
           IN /\ p.attempt = t /\ p.part = 1 /\ p.pc \in 1 .. Len(BodyAt(s))
              /\ p.pc \in Position /\ ~(p.pc < c)
              /\ p.pc # c => Idle(s, t, c)
              /\ p.phase = "await" => /\ BodyAt(s)[p.pc].op \notin Plain
                                      /\ Operations(BodyAt(s)[p.pc]) # <<>>
              /\ p.phase # "await" => /\ p.phase = "backing_off" /\ Certain(s)
                                      /\ BodyAt(s)[p.pc].op \in Plain
                                      /\ Failed(s, k, t, p.pc)
<1> DEFINE p == PlaceAt(Append(s, k + 1))
<1>0. p.pc \in Position /\ p.pc \in 1 .. Len(BodyAt(s)) /\ p.attempt \in Position
  BY NextPlace
<1>1. /\ p.pc \in Position /\ p.pc \in 1 .. Len(BodyAt(s)) /\ p.attempt \in Position
      /\ p.phase # "await" => /\ p.phase = "backing_off" /\ p.part = 1 /\ Certain(s)
                              /\ Failed(s, k, p.attempt, p.pc)
  BY <1>0, NextPlace
<1>2. ASSUME Led(s, k, p.attempt, p.pc)
      PROVE  /\ p.attempt = t /\ (p.pc < c => Idle(s, t, p.pc)) /\ (c < p.pc => Idle(s, t, c))
  <2> HIDE DEF p
  <2>1. p.attempt = t /\ (c < p.pc => Idle(s, t, c))
    BY <1>1, <1>2, LedOne
  <2>2. p.pc < c => Idle(s, p.attempt, p.pc)
    BY <1>1, <1>2, LedOne
  <2> QED
    BY <2>1, <2>2
<1>3. CASE p.phase = "await"
  <2>1. BodyAt(s)[p.pc].op \notin Plain /\ Operations(BodyAt(s)[p.pc]) # <<>>
    BY <1>3, NextPlace
  <2>2. p.part = 1
    <3> SUFFICES ASSUME p.part # 1 PROVE FALSE
      OBVIOUS
    <3> DEFINE q == PlaceAt(Append(s, k))
    <3>1. /\ k \in Position /\ q.phase = "await" /\ q.pc = p.pc
          /\ q.part # Len(Operations(BodyAt(s)[p.pc]))
      BY <1>3, NextPlace
    <3>2. Leads(s, k, t, c)
      BY <3>1 DEF Led, Position
    <3>3. q.part = Len(Operations(BodyAt(s)[q.pc]))
      BY <3>1, <3>2 DEF Leads
    <3> HIDE DEF p, q
    <3> QED
      BY <3>1, <3>3
  <2>3. Led(s, k, p.attempt, p.pc)
    BY <1>3, <2>2, NextPlace
  <2>4. ~Idle(s, t, p.pc)
    BY <2>1 DEF Idle
  <2>5. p.attempt = t /\ ~(p.pc < c) /\ (p.pc # c => Idle(s, t, c))
    <3>1. p.pc < c \/ c < p.pc \/ p.pc = c
      BY <1>1, NotLess
    <3> HIDE DEF p
    <3> QED
      BY <1>2, <2>3, <2>4, <3>1
  <2> HIDE DEF p
  <2>6. p.attempt = t /\ p.part = 1 /\ ~(p.pc < c) /\ (p.pc # c => Idle(s, t, c))
        /\ p.pc \in 1 .. Len(BodyAt(s)) /\ p.pc \in Position
    BY <1>1, <2>2, <2>5
  <2> QED
    BY <1>3, <2>1, <2>6 DEF p
<1>4. CASE p.phase # "await"
  <2>1. /\ Certain(s) /\ p.part = 1 /\ p.phase = "backing_off" /\ Failed(s, k, p.attempt, p.pc)
    BY <1>1, <1>4
  <2>2. PICK o \in Errors \ (InvocationErrors \cup BodyAt(s)[p.pc].catch) :
               Stuck(s, k, p.attempt, p.pc, o)
    BY <2>1 DEF Failed
  <2>3. o \notin Taken(s, p.pc)
    BY NotTaken
  <2>4. /\ BodyAt(s)[p.pc].op \in Plain /\ Led(s, k, p.attempt, p.pc)
        /\ Came(s, p.attempt, p.pc, o)
    <3> DEFINE b == Append(s, k)
               q == PlaceAt(b)
    <3> SUFFICES ASSUME k \in Position, q.phase = "await", q.pc = p.pc, o = Verdict(b)
                 PROVE  FALSE
      BY <2>2 DEF Stuck
    <3>1. Leads(s, k, t, c)
      BY DEF Led, Position
    <3>2. Verdict(b) \in Taken(s, q.pc)
      BY <2>1, <3>1 DEF Leads
    <3> HIDE DEF p, q, b
    <3> QED
      BY <2>3, <3>2
  <2>5. p.attempt = t /\ (p.pc < c => Idle(s, t, p.pc)) /\ (c < p.pc => Idle(s, t, c))
    BY <1>2, <2>4
  <2>6. ~Idle(s, t, p.pc)
    <3> SUFFICES ASSUME Idle(s, t, p.pc) PROVE FALSE
      OBVIOUS
    <3>1. PICK x \in Taken(s, p.pc) : Came(s, t, p.pc, x)
      BY <2>1 DEF Idle
    <3>2. x = o
      BY <2>1, <2>4, <2>5, <3>1, CameOne
    <3> QED
      BY <2>3, <3>1, <3>2
  <2>7. p.pc < c \/ c < p.pc \/ p.pc = c
    BY <1>1, NotLess
  <2> HIDE DEF p
  <2>8. ~(p.pc < c) /\ (p.pc # c => Idle(s, t, c)) /\ Failed(s, k, t, p.pc)
    BY <2>1, <2>5, <2>6, <2>7
  <2> QED
    BY <1>1, <1>4, <2>1, <2>4, <2>5, <2>8 DEF p
<1> QED
  BY <1>3, <1>4

\* A statement that starts operations takes the next position, and the end of the body
\* leaves none.
LEMMA LedStarts ==
    ASSUME Typed, Places, Ordered, NEW s, Scoped(s), NEW k \in Nat, NEW t \in Position,
           NEW c \in Position, Led(s, k, t, c), Append(s, k + 1) \in DOMAIN asked
    PROVE  /\ c \in 1 .. Len(BodyAt(s))
           /\ BodyAt(s)[c].op \notin Plain /\ Operations(BodyAt(s)[c]) # <<>> =>
                 LET p == PlaceAt(Append(s, k + 1))
                 IN p.phase = "await" /\ p.attempt = t /\ p.pc = c /\ p.part = 1
<1> DEFINE p == PlaceAt(Append(s, k + 1))
<1>1. /\ p.attempt = t /\ p.part = 1 /\ p.pc \in 1 .. Len(BodyAt(s))
      /\ p.pc \in Position /\ ~(p.pc < c) /\ (p.pc # c => Idle(s, t, c))
      /\ p.phase # "await" => p.phase = "backing_off" /\ BodyAt(s)[p.pc].op \in Plain
  BY LedNext
<1>2. c \in 1 .. Len(BodyAt(s))
  <2>1. Len(BodyAt(s)) \in Nat
    BY BodyIs, LenProperties
  <2> HIDE DEF p
  <2> QED
    BY <1>1, <2>1, Between
<1>3. BodyAt(s)[c].op \notin Plain /\ Operations(BodyAt(s)[c]) # <<>> => ~Idle(s, t, c)
  BY DEF Idle
<1> HIDE DEF p
<1>4. BodyAt(s)[c].op \notin Plain /\ Operations(BodyAt(s)[c]) # <<>> =>
         p.phase = "await" /\ p.attempt = t /\ p.pc = c /\ p.part = 1
  BY <1>1, <1>3
<1> QED
  BY <1>2, <1>4 DEF p

\* A statement that comes to what nothing takes: only the wait before another attempt
\* comes after it.
LEMMA LedStuck ==
    ASSUME Typed, Places, Ordered, NEW s, Scoped(s), Certain(s), NEW k \in Nat,
           NEW t \in Position, NEW c \in Position, Led(s, k, t, c), BodyAt(s)[c].op \in Plain,
           NEW o, Came(s, t, c, o), o \notin Taken(s, c), Append(s, k + 1) \in DOMAIN asked
    PROVE  LET p == PlaceAt(Append(s, k + 1))
           IN /\ p.phase = "backing_off" /\ p.attempt = t /\ p.pc = c /\ p.part = 1
              /\ Failed(s, k, t, c) /\ t < TriesAt(s)
              /\ o \in Errors \ (InvocationErrors \cup BodyAt(s)[c].catch)
<1> DEFINE p == PlaceAt(Append(s, k + 1))
<1>1. /\ p.attempt = t /\ p.part = 1 /\ (p.pc # c => Idle(s, t, c))
      /\ p.phase = "await" => BodyAt(s)[p.pc].op \notin Plain
      /\ p.phase # "await" => p.phase = "backing_off" /\ Failed(s, k, t, p.pc)
  BY LedNext
<1>2. ~Idle(s, t, c)
  <2> SUFFICES ASSUME Idle(s, t, c) PROVE FALSE
    OBVIOUS
  <2>1. PICK x \in Taken(s, c) : Came(s, t, c, x)
    BY DEF Idle
  <2> QED
    BY <2>1, CameOne
<1>3. p.pc = c /\ p.phase = "backing_off" /\ Failed(s, k, t, c)
  <2> HIDE DEF p
  <2> QED
    BY <1>1, <1>2
<1>4. PICK x \in Errors \ (InvocationErrors \cup BodyAt(s)[c].catch) : Stuck(s, k, t, c, x)
  BY <1>3 DEF Failed
<1>5. Came(s, t, c, x)
  <2> SUFFICES ASSUME k \in Position, PlaceAt(Append(s, k)).phase = "await",
                      PlaceAt(Append(s, k)).pc = c
               PROVE  FALSE
    BY <1>4 DEF Stuck
  <2>1. Leads(s, k, t, c)
    BY DEF Led, Position
  <2>2. PlaceAt(Append(s, k)).pc < c
    BY <2>1 DEF Leads
  <2> QED
    BY <2>2, NotLess
<1>6. x = o
  BY <1>5, CameOne
<1> QED
  BY <1>1, <1>3, <1>4, <1>6 DEF Failed

LEMMA VerdictNext ==
    ASSUME Typed, Places, Ordered, NEW s, Scoped(s), Certain(s), NEW k \in Position,
           NEW t, NEW c, Append(s, k) \in DOMAIN asked,
           PlaceAt(Append(s, k)).phase = "await", PlaceAt(Append(s, k)).attempt = t,
           PlaceAt(Append(s, k)).pc = c, Verdict(Append(s, k)) \notin Taken(s, c),
           Append(s, k + 1) \in DOMAIN asked
    PROVE  LET p == PlaceAt(Append(s, k + 1))
           IN /\ p.phase = "backing_off" /\ p.attempt = t /\ p.pc = c /\ p.part = 1
              /\ Failed(s, k, t, c) /\ t < TriesAt(s) /\ Settled(Append(s, k))
              /\ Verdict(Append(s, k)) \in Errors \ (InvocationErrors \cup BodyAt(s)[c].catch)
<1> DEFINE p == PlaceAt(Append(s, k + 1))
           b == Append(s, k)
           q == PlaceAt(b)
<1>0. k \in Nat
  BY DEF Position
<1>1. /\ k \in Nat /\ p.pc \in 1 .. Len(BodyAt(s))
      /\ p.phase = "await" /\ p.part = 1 => Led(s, k, p.attempt, p.pc)
      /\ p.phase = "await" /\ p.part # 1 => Len(Operations(BodyAt(s)[p.pc])) # 1
      /\ p.phase # "await" => /\ p.phase = "backing_off" /\ p.part = 1
                              /\ Failed(s, k, p.attempt, p.pc)
  BY <1>0, NextPlace
<1>2. ~Led(s, k, p.attempt, p.pc)
  <2> SUFFICES ASSUME Led(s, k, p.attempt, p.pc) PROVE FALSE
    OBVIOUS
  <2>1. Leads(s, k, p.attempt, p.pc)
    BY DEF Led, Position
  <2>2. Verdict(b) \in Taken(s, q.pc)
    BY <2>1 DEF Leads
  <2> QED
    BY <2>2
<1>3. p.phase # "await"
  <2>1. Len(Operations(BodyAt(s)[p.pc])) = 1
    BY <1>1, CertainIs
  <2> HIDE DEF p
  <2> QED
    BY <1>1, <1>2, <2>1
<1>4. p.phase = "backing_off" /\ p.part = 1 /\ Failed(s, k, p.attempt, p.pc)
  BY <1>1, <1>3
<1>5. PICK x \in Errors \ (InvocationErrors \cup BodyAt(s)[p.pc].catch) :
             Stuck(s, k, p.attempt, p.pc, x)
  BY <1>4 DEF Failed
<1>6. Settled(b) /\ q.attempt = p.attempt /\ q.pc = p.pc /\ x = Verdict(b)
  BY <1>2, <1>5 DEF Stuck
<1>7. p.attempt = t /\ p.pc = c
  <2> HIDE DEF p
  <2> QED
    BY <1>6
<1> QED
  BY <1>4, <1>5, <1>6, <1>7 DEF Failed

LEMMA FailedNext ==
    ASSUME Typed, Places, Ordered, NEW s, Scoped(s), NEW k \in Nat,
           NEW t \in Position, NEW c \in Position, Failed(s, k, t, c),
           Append(s, k + 1) \in DOMAIN asked
    PROVE  LET p == PlaceAt(Append(s, k + 1))
           IN p.phase = "backing_off" /\ p.attempt = t /\ p.pc = c /\ p.part = 1
<1>1. PICK o \in Errors \ (InvocationErrors \cup BodyAt(s)[c].catch) : Stuck(s, k, t, c, o)
  BY DEF Failed
<1>2. Certain(s) /\ o \notin Taken(s, c)
  BY NotTaken DEF Failed
<1>3. CASE BodyAt(s)[c].op \in Plain /\ Led(s, k, t, c) /\ Came(s, t, c, o)
  BY <1>2, <1>3, LedStuck
<1>4. CASE ~(BodyAt(s)[c].op \in Plain /\ Led(s, k, t, c) /\ Came(s, t, c, o))
  <2>1. /\ k \in Position /\ Append(s, k) \in DOMAIN asked
        /\ PlaceAt(Append(s, k)).phase = "await" /\ PlaceAt(Append(s, k)).attempt = t
        /\ PlaceAt(Append(s, k)).pc = c /\ o = Verdict(Append(s, k))
    BY <1>1, <1>4 DEF Stuck
  <2>2. Verdict(Append(s, k)) \notin Taken(s, c)
    BY <1>2, <2>1
  <2> QED
    BY <1>2, <2>1, <2>2, VerdictNext
<1> QED
  BY <1>3, <1>4

\* The positions of a scope are taken without gaps.
LEMMA Below ==
    ASSUME Typed, Places, NEW s \in Address, NEW k \in Position, Append(s, k) \in DOMAIN asked,
           NEW m \in 1 .. k
    PROVE  m \in Position /\ Append(s, m) \in DOMAIN asked
<1> DEFINE b == Append(s, k)
<1>1. Parent(b) = s /\ b[Len(b)] = k
  BY AppendParent
<1>2. \A n \in 1 .. b[Len(b)] - 1 : Append(s, n) \in DOMAIN asked
  BY <1>1, PlaceIs DEF PlaceFits
<1>3. m \in Position /\ (m = k \/ m \in 1 .. k - 1)
  BY DEF Position
<1>4. \A n \in 1 .. k - 1 : Append(s, n) \in DOMAIN asked
  BY <1>1, <1>2
<1> QED
  BY <1>3, <1>4

LEMMA Slotting ==
    ASSUME NEW k \in Nat, NEW n \in Nat, NEW i \in 1 .. n
    PROVE  /\ i \in Position /\ k + i \in Position /\ k + 1 \in Position /\ k + 1 \in 1 .. k + i
           /\ n # 0 /\ 1 \in 1 .. n /\ k + 1 - 1 + i = k + i /\ k + 1 - 1 = k
           /\ (k + i) - i = k /\ (k + i) - 1 \in Nat /\ (k + i) - i + 1 = k + 1
  BY DEF Position

\* What a scope is about to launch: in the places it has, or in places none has.
Launchable(s, k, t, c, phase, operations) ==
    \/ /\ phase = "await" /\ BodyAt(s)[c].op \notin Plain /\ Led(s, k, t, c)
       /\ operations = Operations(BodyAt(s)[c])
    \/ phase = "backing_off" /\ operations = <<Wait>> /\ Failed(s, k, t, c)

LEMMA SlotsTaken ==
    ASSUME Typed, Places, Ordered, NEW s, Scoped(s), NEW k \in Nat, NEW t \in Position,
           NEW c \in Position, NEW phase, NEW operations,
           Launchable(s, k, t, c, phase, operations), Len(operations) \in Nat,
           NEW i \in 1 .. Len(operations), Append(s, k + i) \in DOMAIN asked,
           NEW j \in 1 .. Len(operations)
    PROVE  /\ Append(s, k + j) \in DOMAIN asked
           /\ PlaceAt(Append(s, k + j)) = [phase |-> phase, attempt |-> t, pc |-> c,
                                           part |-> j, operation |-> operations[j]]
<1> DEFINE b == Append(s, k + 1)
           p == PlaceAt(b)
<1>0. s \in Address
  BY BodyIs
<1>1. b \in DOMAIN asked
  <2>1. k + i \in Position /\ k + 1 \in 1 .. k + i
    BY Slotting
  <2> QED
    BY <1>0, <2>1, Below
<1>2. Parent(b) = s /\ b[Len(b)] = k + 1
  <2>1. k + 1 \in Position
    BY Slotting
  <2> QED
    BY <1>0, <2>1, AppendParent
<1>3. CASE /\ phase = "await" /\ BodyAt(s)[c].op \notin Plain /\ Led(s, k, t, c)
           /\ operations = Operations(BodyAt(s)[c])
  <2>1. operations # <<>>
    <3>1. Len(operations) # 0
      BY Slotting
    <3> QED
      BY <3>1, EmptySeq
  <2>2. p.phase = "await" /\ p.attempt = t /\ p.pc = c /\ p.part = 1
    BY <1>1, <1>3, <2>1, LedStarts
  <2> DEFINE Together(n, m) ==
        \A l \in 1 .. Len(operations) :
            LET e == Append(s, n - m + l)
            IN /\ e \in DOMAIN asked
               /\ PlaceAt(e) = [phase |-> "await", attempt |-> t, pc |-> c,
                                part |-> l, operation |-> operations[l]]
  <2>3. Together(b[Len(b)], p.part)
    <3>1. PlaceFits(b)
      BY <1>1, PlaceIs
    <3> QED
      BY <1>2, <1>3, <2>2, <3>1 DEF PlaceFits
  <2>4. Together(k + 1, 1)
    <3> HIDE DEF Together
    <3> QED
      BY <1>2, <2>2, <2>3
  <2>5. k + 1 - 1 + j = k + j
    BY Slotting
  <2> QED
    BY <1>3, <2>4, <2>5
<1>4. CASE phase = "backing_off" /\ operations = <<Wait>> /\ Failed(s, k, t, c)
  <2>1. p.phase = "backing_off" /\ p.attempt = t /\ p.pc = c /\ p.part = 1
    BY <1>1, <1>4, FailedNext
  <2>2. p.operation = Wait
    BY <1>1, <2>1, PlaceIs DEF PlaceFits
  <2>3. j = 1 /\ operations[j] = Wait
    BY <1>4
  <2>4. p = [phase |-> p.phase, attempt |-> p.attempt, pc |-> p.pc, part |-> p.part,
             operation |-> p.operation]
    BY <1>1, PlaceIs
  <2> HIDE DEF p
  <2>5. p = [phase |-> phase, attempt |-> t, pc |-> c, part |-> j, operation |-> operations[j]]
    BY <1>4, <2>1, <2>2, <2>3, <2>4
  <2> QED
    BY <1>1, <2>3, <2>5 DEF p
<1> QED
  BY <1>3, <1>4 DEF Launchable

\* A task has the operation of its place.
LEMMA TaskPlace ==
    ASSUME WInv, Places, NEW a \in DOMAIN tasks
    PROVE  /\ a # Root => /\ a \in DOMAIN asked /\ PlaceAt(a).operation = tasks[a].stmt
                          /\ Parent(a) \in DOMAIN tasks /\ IsScope(Parent(a))
           /\ a = Root => a \notin DOMAIN asked
           /\ IsScope(a) => /\ Scoped(a) /\ BodyAt(a) = Body(a) /\ TriesAt(a) = tasks[a].stmt.tries
                            /\ Statement(a) = BodyAt(a)[tasks[a].pc]
<1>1. a = Root => a \notin DOMAIN asked /\ tasks[a].stmt = Child(program)
  BY EmptyMap DEF WInv, Known, Places
<1>2. a # Root => /\ a \in DOMAIN asked /\ PlaceAt(a).operation = tasks[a].stmt
                  /\ Parent(a) \in DOMAIN tasks /\ IsScope(Parent(a))
  <2> SUFFICES ASSUME a # Root
               PROVE  /\ a \in DOMAIN asked /\ PlaceAt(a).operation = tasks[a].stmt
                      /\ Parent(a) \in DOMAIN tasks /\ IsScope(Parent(a))
    OBVIOUS
  <2>1. /\ a \in DOMAIN asked /\ Parent(a) \in DOMAIN tasks /\ IsScope(Parent(a))
        /\ \E place \in asked[a] : place.operation = tasks[a].stmt
    BY DEF WInv, Formed, Nested
  <2>2. asked[a] = {PlaceAt(a)}
    BY <2>1 DEF Places
  <2> QED
    BY <2>1, <2>2
<1>3. IsScope(a) => /\ Scoped(a) /\ BodyAt(a) = Body(a) /\ TriesAt(a) = tasks[a].stmt.tries
  <2>1. CASE a = Root
    BY <1>1, <2>1 DEF Scoped, BodyAt, Body, TriesAt, Child
  <2>2. CASE a # Root
    BY <1>2, <2>2 DEF Scoped, BodyAt, Body, TriesAt, IsScope, Kind
  <2> QED
    BY <2>1, <2>2
<1> QED
  BY <1>1, <1>2, <1>3 DEF Statement, Body

\* Where a scope stands it launches what its place says.
LEMMA LaunchableIs ==
    ASSUME WInv, Places, NEW a \in DOMAIN tasks, IsScope(a), Stands(a), NEW phase, NEW operations,
           \/ /\ Ready(a) /\ Statement(a).op \notin Plain
              /\ phase = "await" /\ operations = Operations(Statement(a))
           \/ Running(a, "back_off") /\ phase = "backing_off" /\ operations = <<Wait>>
    PROVE  /\ Launchable(a, tasks[a].next - 1, tasks[a].attempt, tasks[a].pc, phase, operations)
           /\ tasks[a].next - 1 \in Nat /\ tasks[a].attempt \in Position
           /\ tasks[a].pc \in Position /\ tasks[a].pc \in 1 .. Len(BodyAt(a))
           /\ operations \in Seq(OperationsOver(Bodies[program])) /\ Len(operations) \in Nat
           /\ \A i \in 1 .. Len(operations) : tasks[a].next + i - 1 = tasks[a].next - 1 + i
<1>1. tasks[a].next \in Position /\ tasks[a].attempt \in Position /\ tasks[a].pc \in Position
  BY ScopeFields
<1>2. Scoped(a) /\ BodyAt(a) = Body(a) /\ Statement(a) = BodyAt(a)[tasks[a].pc]
  BY TaskPlace
<1>3. tasks[a].pc <= Len(Body(a))
  BY DEF Ready, Running, Body, WInv, Formed, Shape
<1>4. tasks[a].pc \in 1 .. Len(BodyAt(a))
  BY <1>2, <1>3, StatementIs DEF WInv
<1>5. operations \in Seq(OperationsOver(Bodies[program]))
  BY <1>3, StatementIs, WaitsAre DEF WInv
<1>6. Len(operations) \in Nat
  BY <1>5, LenProperties
<1>7. tasks[a].next - 1 \in Nat
      /\ \A i \in 1 .. Len(operations) : tasks[a].next + i - 1 = tasks[a].next - 1 + i
  <2>1. \A x \in Position : \A n \in Nat : x - 1 \in Nat /\ \A i \in 1 .. n : x + i - 1 = x - 1 + i
    BY DEF Position
  <2> QED
    BY <1>1, <1>6, <2>1
<1>8. Launchable(a, tasks[a].next - 1, tasks[a].attempt, tasks[a].pc, phase, operations)
  <2>1. CASE /\ Ready(a) /\ Statement(a).op \notin Plain
             /\ phase = "await" /\ operations = Operations(Statement(a))
    <3>1. Led(a, tasks[a].next - 1, tasks[a].attempt, tasks[a].pc)
      BY <2>1 DEF Stands, Ready, Running
    <3> QED
      BY <1>2, <2>1, <3>1 DEF Launchable
  <2>2. CASE Running(a, "back_off") /\ phase = "backing_off" /\ operations = <<Wait>>
    <3>1. Failed(a, tasks[a].next - 1, tasks[a].attempt, tasks[a].pc)
      BY <2>2 DEF Stands, Running
    <3> QED
      BY <2>2, <3>1 DEF Launchable
  <2> QED
    BY <2>1, <2>2
<1> QED
  BY <1>1, <1>4, <1>5, <1>6, <1>7, <1>8

\* So no operation meets the record of another.
LEMMA NoChange ==
    ASSUME WInv, Placed, NEW a \in DOMAIN tasks, IsScope(a)
    PROVE  /\ Ready(a) /\ Statement(a).op \notin Plain => ~Changed(a, Operations(Statement(a)))
           /\ Running(a, "back_off") => ~Changed(a, <<Wait>>)
<1> SUFFICES ASSUME NEW phase, NEW operations,
                    \/ /\ Ready(a) /\ Statement(a).op \notin Plain
                       /\ phase = "await" /\ operations = Operations(Statement(a))
                    \/ Running(a, "back_off") /\ phase = "backing_off" /\ operations = <<Wait>>
             PROVE  ~Changed(a, operations)
  OBVIOUS
<1> DEFINE k == tasks[a].next - 1
<1>1. Places /\ Ordered /\ Stands(a)
      /\ \A b \in DOMAIN records : b \in DOMAIN asked /\ records[b].op = PlaceAt(b).operation.op
  BY DEF Placed
<1>2. /\ Launchable(a, k, tasks[a].attempt, tasks[a].pc, phase, operations)
      /\ k \in Nat /\ tasks[a].attempt \in Position
      /\ tasks[a].pc \in Position /\ Len(operations) \in Nat
      /\ \A i \in 1 .. Len(operations) : tasks[a].next + i - 1 = k + i
  BY <1>1, LaunchableIs
<1>3. Scoped(a)
  BY <1>1, TaskPlace
<1> SUFFICES ASSUME NEW i \in 1 .. Len(operations),
                    Append(a, tasks[a].next + i - 1) \in DOMAIN view,
                    view[Append(a, tasks[a].next + i - 1)].op # operations[i].op
             PROVE  FALSE
  BY DEF Changed, Changes
<1> DEFINE b == Append(a, k + i)
<1>4. b \in DOMAIN view /\ view[b].op # operations[i].op
  BY <1>2
<1> HIDE DEF k
<1>5. b \in DOMAIN records /\ view[b].op = records[b].op
  BY <1>4 DEF WInv, Known, KindsFit
<1>6. b \in DOMAIN asked /\ records[b].op = PlaceAt(b).operation.op
  BY <1>1, <1>5
<1>7. PlaceAt(b) = [phase |-> phase, attempt |-> tasks[a].attempt, pc |-> tasks[a].pc,
                    part |-> i, operation |-> operations[i]]
  BY <1>1, <1>2, <1>3, <1>6, SlotsTaken DEF WInv
<1>8. PlaceAt(b).operation = operations[i]
  BY <1>7
<1> HIDE DEF b
<1> QED
  BY <1>4, <1>5, <1>6, <1>8

----------------------------------------------------------------------------
(* What places and records say stays true as they grow                     *)

Grows ==
    /\ program' = program
    /\ DOMAIN asked \subseteq DOMAIN asked'
    /\ \A b \in DOMAIN asked : asked'[b] = asked[b]
    /\ DOMAIN records \subseteq DOMAIN records'
    /\ \A b \in DOMAIN records :
          /\ records'[b].op = records[b].op
          /\ Final(records[b].status) => /\ records'[b].status = records[b].status
                                         /\ records'[b].error = records[b].error
\* A record is of the kind of its place.
Recording == \A b \in DOMAIN records : b \in DOMAIN asked /\ records[b].op = PlaceAt(b).operation.op

LEMMA PlacesStay ==
    ASSUME Grows
    PROVE  /\ \A b \in DOMAIN asked : b \in DOMAIN asked' /\ PlaceAt(b)' = PlaceAt(b)
           /\ Steady' = Steady /\ Straight' = Straight
           /\ \A s : /\ Certain(s)' = Certain(s)
                     /\ Scoped(s) => /\ Scoped(s)' /\ BodyAt(s)' = BodyAt(s)
                                     /\ TriesAt(s)' = TriesAt(s)
                                     /\ \A c : Taken(s, c)' = Taken(s, c)
<1>1. \A b \in DOMAIN asked : b \in DOMAIN asked' /\ PlaceAt(b)' = PlaceAt(b)
  BY DEF Grows, PlaceAt
<1>2. Steady' = Steady /\ Straight' = Straight
  BY DEF Grows, Steady, Straight
<1>3. \A s : Certain(s)' = Certain(s)
  BY <1>2 DEF Certain
<1>4. \A s : Scoped(s) => Scoped(s)' /\ BodyAt(s)' = BodyAt(s) /\ TriesAt(s)' = TriesAt(s)
  BY <1>1 DEF Grows, Scoped, BodyAt, TriesAt
<1>5. \A s : Scoped(s) => \A c : Taken(s, c)' = Taken(s, c)
  BY <1>4 DEF Taken
<1> QED
  BY <1>1, <1>2, <1>3, <1>4, <1>5

LEMMA VerdictsStay ==
    ASSUME Grows, Recording, NEW b \in DOMAIN asked
    PROVE  /\ Settled(b) => Settled(b)' /\ Verdict(b)' = Verdict(b)
           /\ b \in DOMAIN records /\ Final(records[b].status) =>
                 /\ b \in DOMAIN records' /\ Final(records'[b].status)
                 /\ EndOf(records'[b]) = EndOf(records[b])
<1>1. b \in DOMAIN records =>
         /\ b \in DOMAIN records' /\ records'[b].op = records[b].op
         /\ Final(records[b].status) => /\ records'[b].status = records[b].status
                                        /\ records'[b].error = records[b].error
  BY DEF Grows
<1>2. PlaceAt(b)' = PlaceAt(b)
  BY PlacesStay
<1>3. b \in DOMAIN records => records[b].op = PlaceAt(b).operation.op
  BY DEF Recording
<1>4. b \in DOMAIN records /\ Final(records[b].status) =>
         /\ b \in DOMAIN records' /\ Final(records'[b].status)
         /\ EndOf(records'[b]) = EndOf(records[b])
  BY <1>1 DEF EndOf
<1>5. Settled(b) => Settled(b)'
  BY <1>1, <1>4 DEF Settled
<1>6. Settled(b) => Verdict(b)' = Verdict(b)
  BY <1>2, <1>3, <1>4 DEF Settled, Verdict
<1> QED
  BY <1>4, <1>5, <1>6

LEMMA LedStays ==
    ASSUME Grows, Recording, NEW s, Scoped(s)
    PROVE  /\ \A t, h, b : IsHandle(s, t, h, b) => IsHandle(s, t, h, b)'
           /\ \A t, d, o : Came(s, t, d, o) => Came(s, t, d, o)'
           /\ \A t, d : Idle(s, t, d) => Idle(s, t, d)'
           /\ \A k, t, c : Led(s, k, t, c) => Led(s, k, t, c)'
           /\ \A k, t, c : Failed(s, k, t, c) => Failed(s, k, t, c)'
<1>1. /\ \A b \in DOMAIN asked : b \in DOMAIN asked' /\ PlaceAt(b)' = PlaceAt(b)
      /\ Certain(s)' = Certain(s) /\ BodyAt(s)' = BodyAt(s) /\ TriesAt(s)' = TriesAt(s)
      /\ \A c : Taken(s, c)' = Taken(s, c)
  BY PlacesStay
<1>2. \A t, h, b : IsHandle(s, t, h, b) => IsHandle(s, t, h, b)'
  BY <1>1 DEF IsHandle
<1>3. ASSUME NEW t, NEW d, NEW o, Came(s, t, d, o) PROVE Came(s, t, d, o)'
  <2>1. CASE BodyAt(s)[d].op = "result"
    <3>1. PICK b \in DOMAIN asked : /\ IsHandle(s, t, BodyAt(s)[d].of, b)
                                    /\ b \in DOMAIN records /\ Final(records[b].status)
                                    /\ o = EndOf(records[b])
      BY <1>3, <2>1 DEF Came
    <3>2. /\ b \in DOMAIN asked' /\ IsHandle(s, t, BodyAt(s)[d].of, b)'
          /\ b \in DOMAIN records' /\ Final(records'[b].status) /\ o = EndOf(records'[b])
      BY <1>1, <1>2, <3>1, VerdictsStay
    <3>3. (BodyAt(s)[d].of)' = BodyAt(s)[d].of /\ (BodyAt(s)[d].op)' = "result"
      BY <1>1, <2>1
    <3>5. \E e \in DOMAIN asked' : /\ IsHandle(s, t, BodyAt(s)[d].of, e)'
                                   /\ e \in DOMAIN records' /\ Final(records'[e].status)
                                   /\ o = EndOf(records'[e])
      BY <3>2
    <3> QED
      BY <3>3, <3>5 DEF Came
  <2>2. CASE BodyAt(s)[d].op # "result"
    BY <1>1, <1>3, <2>2 DEF Came
  <2> QED
    BY <2>1, <2>2
<1>4. ASSUME NEW t, NEW d, Idle(s, t, d) PROVE Idle(s, t, d)'
  <2>1. (BodyAt(s)[d])' = BodyAt(s)[d]
    BY <1>1
  <2>2. (BodyAt(s)[d].op \in Plain \/ Operations(BodyAt(s)[d]) = <<>>)'
    BY <1>4, <2>1 DEF Idle, Operations
  <2>3. Certain(s)' => \E o \in Taken(s, d)' : Came(s, t, d, o)'
    BY <1>1, <1>3, <1>4 DEF Idle
  <2> QED
    BY <2>2, <2>3 DEF Idle
<1>5. ASSUME NEW k, NEW t, NEW c, Leads(s, k, t, c) PROVE Leads(s, k, t, c)'
  <2> DEFINE b == Append(s, k)
  <2> PICK q : q = PlaceAt(b)
    OBVIOUS
  <2>1. /\ b \in DOMAIN asked /\ b \in DOMAIN asked' /\ PlaceAt(b)' = q
        /\ Settled(b) => Settled(b)' /\ Verdict(b)' = Verdict(b)
    BY <1>1, <1>5, VerdictsStay DEF Leads
  <2>2. (Operations(BodyAt(s)[q.pc]))' = Operations(BodyAt(s)[q.pc])
    BY <1>1, <2>1 DEF Operations
  <2>3. Certain(s)' = Certain(s) /\ Taken(s, q.pc)' = Taken(s, q.pc)
    BY <1>1
  <2>4. /\ Certain(s) => Settled(b)
        /\ \/ /\ q.phase = "await" /\ q.attempt = t /\ q.pc < c
              /\ q.part = Len(Operations(BodyAt(s)[q.pc]))
              /\ Certain(s) => Verdict(b) \in Taken(s, q.pc)
              /\ \A d \in q.pc + 1 .. c - 1 : Idle(s, t, d)
           \/ /\ q.phase = "backing_off" /\ t = q.attempt + 1
              /\ \A d \in 1 .. c - 1 : Idle(s, t, d)
    BY <1>5 DEF Leads
  <2>5. /\ Certain(s)' => Settled(b)'
        /\ \/ /\ q.phase = "await" /\ q.attempt = t /\ q.pc < c
              /\ q.part = Len((Operations(BodyAt(s)[q.pc]))')
              /\ Certain(s)' => Verdict(b)' \in Taken(s, q.pc)'
              /\ \A d \in q.pc + 1 .. c - 1 : Idle(s, t, d)'
           \/ /\ q.phase = "backing_off" /\ t = q.attempt + 1
              /\ \A d \in 1 .. c - 1 : Idle(s, t, d)'
    BY <1>4, <2>1, <2>2, <2>3, <2>4
  <2> QED
    BY <2>1, <2>5 DEF Leads
<1>6. ASSUME NEW k, NEW t, NEW c, Led(s, k, t, c) PROVE Led(s, k, t, c)'
  BY <1>4, <1>5, <1>6 DEF Led
<1>7. ASSUME NEW k, NEW t, NEW c, NEW o, Stuck(s, k, t, c, o) PROVE Stuck(s, k, t, c, o)'
  <2> DEFINE b == Append(s, k)
  <2>1. (BodyAt(s)[c])' = BodyAt(s)[c]
    BY <1>1
  <2>2. CASE BodyAt(s)[c].op \in Plain /\ Led(s, k, t, c) /\ Came(s, t, c, o)
    BY <1>3, <1>6, <2>1, <2>2 DEF Stuck
  <2>3. CASE /\ k \in Position /\ b \in DOMAIN asked /\ Settled(b)
             /\ PlaceAt(b).phase = "await" /\ PlaceAt(b).attempt = t /\ PlaceAt(b).pc = c
             /\ o = Verdict(b)
    <3>1. /\ b \in DOMAIN asked' /\ PlaceAt(b)' = PlaceAt(b) /\ Settled(b)'
          /\ Verdict(b)' = Verdict(b)
      BY <1>1, <2>3, VerdictsStay
    <3> QED
      BY <2>3, <3>1 DEF Stuck
  <2> QED
    BY <1>7, <2>2, <2>3 DEF Stuck
<1>8. ASSUME NEW k, NEW t, NEW c, Failed(s, k, t, c) PROVE Failed(s, k, t, c)'
  BY <1>1, <1>7, <1>8 DEF Failed
<1> QED
  BY <1>2, <1>3, <1>4, <1>6, <1>8

LEMMA PlaceStays ==
    ASSUME Typed, Places, Recording, Grows, NEW b \in DOMAIN asked
    PROVE  PlaceFits(b)' /\ b # Root /\ asked'[b] = {PlaceAt(b)'} /\ Scoped(Parent(b))'
<1> DEFINE s == Parent(b)
           n == b[Len(b)]
           p == PlaceAt(b)
           operations == Operations(BodyAt(s)[p.pc])
<1>1. PlaceFits(b) /\ Scoped(s) /\ b # Root /\ asked[b] = {p} /\ p.phase \in {"await", "backing_off"}
  BY PlaceIs
<1>2. /\ \A e \in DOMAIN asked : e \in DOMAIN asked' /\ PlaceAt(e)' = PlaceAt(e)
      /\ BodyAt(s)' = BodyAt(s) /\ Scoped(s)' /\ p' = p /\ asked'[b] = asked[b]
  BY <1>1, PlacesStay DEF Grows
<1>3. operations' = operations
  BY <1>2 DEF Operations
<1>4. /\ \A k, t, c : Led(s, k, t, c) => Led(s, k, t, c)'
      /\ \A k, t, c : Failed(s, k, t, c) => Failed(s, k, t, c)'
  BY <1>1, LedStays
<1>5. /\ p.pc \in 1 .. Len(BodyAt(s)) /\ \A m \in 1 .. n - 1 : Append(s, m) \in DOMAIN asked
  BY <1>1 DEF PlaceFits
<1>6. CASE p.phase = "await"
  <2>1. /\ BodyAt(s)[p.pc].op \notin Plain
        /\ p.part \in 1 .. Len(operations) /\ p.operation = operations[p.part]
        /\ \A j \in 1 .. Len(operations) :
              LET c == Append(s, n - p.part + j)
              IN /\ c \in DOMAIN asked
                 /\ PlaceAt(c) = [phase |-> "await", attempt |-> p.attempt, pc |-> p.pc,
                                  part |-> j, operation |-> operations[j]]
        /\ p.part = 1 => Led(s, n - 1, p.attempt, p.pc)
    BY <1>1, <1>6 DEF PlaceFits
  <2>2. /\ \A j \in 1 .. Len(operations) :
              LET c == Append(s, n - p.part + j)
              IN /\ c \in DOMAIN asked'
                 /\ PlaceAt(c)' = [phase |-> "await", attempt |-> p.attempt, pc |-> p.pc,
                                   part |-> j, operation |-> operations[j]]
        /\ p.part = 1 => Led(s, n - 1, p.attempt, p.pc)'
    BY <1>2, <1>4, <2>1
  <2>3. (BodyAt(s)[p.pc].op)' = BodyAt(s)[p.pc].op
    BY <1>2
  <2> HIDE DEF operations
  <2>4. /\ p'.pc \in 1 .. Len(BodyAt(s)') /\ p'.phase = "await"
        /\ \A m \in 1 .. n - 1 : Append(s, m) \in DOMAIN asked'
    BY <1>2, <1>5, <1>6
  <2>5. PlaceFits(b)'
    BY <1>2, <1>3, <2>1, <2>2, <2>3, <2>4 DEF PlaceFits, operations
  <2> QED
    BY <1>1, <1>2, <2>5
<1>7. CASE p.phase = "backing_off"
  <2>1. p.part = 1 /\ p.operation = Wait /\ Failed(s, n - 1, p.attempt, p.pc)
    BY <1>1, <1>7 DEF PlaceFits
  <2>2. Failed(s, n - 1, p.attempt, p.pc)'
    BY <1>2, <1>4, <2>1
  <2>3. PlaceFits(b)'
    BY <1>2, <1>5, <1>7, <2>1, <2>2 DEF PlaceFits
  <2> QED
    BY <1>1, <1>2, <2>3
<1> QED
  BY <1>1, <1>6, <1>7

----------------------------------------------------------------------------
(* Where the scopes stand, when no new place is taken                      *)

LEMMA PlacedStays ==
    ASSUME WInv, Placed, Grows, UNCHANGED asked,
           \A b \in DOMAIN records' : b \in DOMAIN asked /\ records'[b].op = PlaceAt(b).operation.op,
           \A s \in DOMAIN tasks' : IsScope(s)' => Stands(s)'
    PROVE  Placed'
<1>1. /\ Typed /\ Places /\ Ordered /\ Recording
  BY DEF WInv, Placed, Recording
<1>2. DOMAIN asked' = DOMAIN asked
  OBVIOUS
<1>3. \A b \in DOMAIN asked : PlaceAt(b)' = PlaceAt(b)
  BY PlacesStay
<1>4. Places'
  <2> SUFFICES ASSUME NEW b \in DOMAIN asked'
               PROVE  /\ b # Root /\ asked'[b] = {PlaceAt(b)'}
                      /\ Parent(b) # Root => /\ Parent(b) \in DOMAIN asked'
                                             /\ (PlaceAt(Parent(b)).operation.op)' = "child"
                      /\ PlaceFits(b)'
    BY DEF Places
  <2>1. PlaceFits(b)' /\ b # Root /\ asked'[b] = {PlaceAt(b)'}
    BY <1>1, <1>2, PlaceStays
  <2>2. ASSUME Parent(b) # Root
        PROVE  Parent(b) \in DOMAIN asked' /\ (PlaceAt(Parent(b)).operation.op)' = "child"
    <3>1. Parent(b) \in DOMAIN asked /\ PlaceAt(Parent(b)).operation.op = "child"
      BY <1>1, <1>2, <2>2 DEF Places
    <3> QED
      BY <1>2, <1>3, <3>1
  <2> QED
    BY <2>1, <2>2
<1>5. Ordered'
  <2> SUFFICES ASSUME NEW b \in DOMAIN asked', NEW c \in DOMAIN asked',
                      Certain(Parent(b))', Parent(c) = Parent(b), b[Len(b)] < c[Len(c)]
               PROVE  Earlier(PlaceAt(b), PlaceAt(c))'
    BY DEF Ordered
  <2>1. Certain(Parent(b))
    BY PlacesStay
  <2>2. Earlier(PlaceAt(b), PlaceAt(c))
    BY <1>1, <1>2, <2>1 DEF Ordered
  <2> QED
    BY <1>2, <1>3, <2>2 DEF Earlier
<1>6. \A b \in DOMAIN records' : b \in DOMAIN asked'
                                 /\ records'[b].op = (PlaceAt(b).operation.op)'
  BY <1>2, <1>3
<1> QED
  BY <1>4, <1>5, <1>6 DEF Placed

\* A scope whose own fields are as they were, or that begins, or is done.
LEMMA StandsStays ==
    ASSUME WInv, Placed, Grows, NEW s \in DOMAIN tasks, IsScope(s),
           tasks'[s].stmt = tasks[s].stmt, tasks'[s].next = tasks[s].next,
           tasks'[s].attempt = tasks[s].attempt, tasks'[s].pc = tasks[s].pc,
           \/ tasks'[s].phase = tasks[s].phase
           \/ tasks'[s].phase = "done"
           \/ tasks[s].phase = "begin" /\ tasks'[s].phase = "run"
    PROVE  Stands(s)'
<1> PICK k, t, c : k = tasks[s].next - 1 /\ t = tasks[s].attempt /\ c = tasks[s].pc
  OBVIOUS
<1> DEFINE b == Append(s, k)
<1>1. Typed /\ Places /\ Recording /\ Scoped(s) /\ Stands(s)
  BY TaskPlace DEF WInv, Placed, Recording
<1>2. /\ Led(s, k, t, c) => Led(s, k, t, c)'
      /\ Failed(s, k, t, c) => Failed(s, k, t, c)'
  BY <1>1, LedStays
<1>3. b \in DOMAIN asked => b \in DOMAIN asked' /\ PlaceAt(b)' = PlaceAt(b)
  BY PlacesStay
<1>4. Certain(s)' = Certain(s) /\ Statement(s)' = Statement(s)
      /\ (Operations(Statement(s)))' = Operations(Statement(s))
  BY PlacesStay DEF Statement, Operations
<1>5. tasks'[s].next - 1 = k /\ tasks'[s].attempt = t /\ tasks'[s].pc = c
  OBVIOUS
<1>6. CASE tasks'[s].phase = "done"
  BY <1>6 DEF Stands
<1>7. CASE tasks[s].phase = "begin" /\ tasks'[s].phase = "run"
  <2>1. t = 1 /\ k = 0 /\ c = 1
    BY <1>1, <1>7 DEF Stands, WInv, Formed, Shape
  <2>2. Led(s, 0, 1, 1)'
    BY DEF Led
  <2> QED
    BY <1>7, <2>1, <2>2 DEF Stands
<1>8. CASE tasks'[s].phase = tasks[s].phase
  <2>1. /\ tasks[s].phase # "refused"
        /\ tasks[s].phase = "begin" => t = 1
        /\ tasks[s].phase = "run" => Led(s, k, t, c)
        /\ tasks[s].phase = "await" =>
              IF Operations(Statement(s)) = <<>> THEN Led(s, k, t, c)
              ELSE /\ k \in Position /\ b \in DOMAIN asked /\ PlaceAt(b).phase = "await"
                   /\ PlaceAt(b).attempt = t /\ PlaceAt(b).pc = c
                   /\ PlaceAt(b).part = Len(Operations(Statement(s)))
        /\ tasks[s].phase = "back_off" => Failed(s, k, t, c)
        /\ tasks[s].phase = "backing_off" =>
              /\ k \in Position /\ Certain(s) /\ b \in DOMAIN asked
              /\ PlaceAt(b).phase = "backing_off" /\ PlaceAt(b).attempt = t /\ PlaceAt(b).pc = c
    BY <1>1 DEF Stands
  <2>2. /\ tasks'[s].phase # "refused"
        /\ tasks'[s].phase = "begin" => t = 1
        /\ tasks'[s].phase = "run" => Led(s, k, t, c)'
        /\ tasks'[s].phase = "await" =>
              IF Operations(Statement(s)) = <<>> THEN Led(s, k, t, c)'
              ELSE /\ k \in Position /\ b \in DOMAIN asked' /\ PlaceAt(b)'.phase = "await"
                   /\ PlaceAt(b)'.attempt = t /\ PlaceAt(b)'.pc = c
                   /\ PlaceAt(b)'.part = Len(Operations(Statement(s)))
        /\ tasks'[s].phase = "back_off" => Failed(s, k, t, c)'
        /\ tasks'[s].phase = "backing_off" =>
              /\ k \in Position /\ Certain(s)' /\ b \in DOMAIN asked'
              /\ PlaceAt(b)'.phase = "backing_off" /\ PlaceAt(b)'.attempt = t
              /\ PlaceAt(b)'.pc = c
    BY <1>2, <1>3, <1>4, <1>8, <2>1
  <2> QED
    BY <1>4, <1>5, <2>2 DEF Stands
<1> QED
  BY <1>6, <1>7, <1>8

\* What k positions lead to, and then a statement that starts nothing.
LEMMA LedMore ==
    ASSUME NEW s, NEW k, NEW t, NEW c \in Position, Led(s, k, t, c), Idle(s, t, c),
           \A m \in Position : Append(s, m) \in DOMAIN asked => PlaceAt(Append(s, m)).pc \in Position
    PROVE  Led(s, k, t, c + 1)
<1> PICK e : e = c + 1
  OBVIOUS
<1>1. \A n \in Nat : n < c => n < e /\ \A d \in n + 1 .. e - 1 : d = c \/ d \in n + 1 .. c - 1
  BY DEF Position
<1>2. \A d \in 1 .. e - 1 : d = c \/ d \in 1 .. c - 1
  BY DEF Position
<1>3. CASE k = 0 /\ t = 1 /\ \A d \in 1 .. c - 1 : Idle(s, t, d)
  BY <1>2, <1>3 DEF Led
<1>4. CASE k \in Position /\ Leads(s, k, t, c)
  <2> DEFINE b == Append(s, k)
             q == PlaceAt(b)
  <2>1. b \in DOMAIN asked /\ (Certain(s) => Settled(b)) /\ q.pc \in Nat
    BY <1>4 DEF Leads, Position
  <2>2. CASE q.phase = "await"
    <3>1. /\ q.attempt = t /\ q.pc < c /\ q.part = Len(Operations(BodyAt(s)[q.pc]))
          /\ Certain(s) => Verdict(b) \in Taken(s, q.pc)
          /\ \A d \in q.pc + 1 .. c - 1 : Idle(s, t, d)
      BY <1>4, <2>2 DEF Leads
    <3>2. q.pc < e /\ \A d \in q.pc + 1 .. e - 1 : Idle(s, t, d)
      <4> HIDE DEF q
      <4> QED
        BY <1>1, <2>1, <3>1
    <3>3. Leads(s, k, t, e)
      BY <2>1, <2>2, <3>1, <3>2 DEF Leads
    <3> QED
      BY <1>4, <3>3 DEF Led
  <2>3. CASE q.phase # "await"
    <3>1. /\ q.phase = "backing_off" /\ t = q.attempt + 1
          /\ \A d \in 1 .. c - 1 : Idle(s, t, d)
      BY <1>4, <2>3 DEF Leads
    <3>2. \A d \in 1 .. e - 1 : Idle(s, t, d)
      BY <1>2, <3>1
    <3>3. Leads(s, k, t, e)
      BY <2>1, <3>1, <3>2 DEF Leads
    <3> QED
      BY <1>4, <3>3 DEF Led
  <2> QED
    BY <2>2, <2>3
<1>5. Led(s, k, t, e)
  BY <1>3, <1>4 DEF Led
<1> QED
  BY <1>5

----------------------------------------------------------------------------
(* The steps of a scope's own code, in the order of its body               *)

LEMMA PlacedIs ==
    ASSUME WInv, DInv, Straight \/ Steady
    PROVE  Typed /\ Placed /\ Places /\ Ordered /\ Recording /\ (Steady => Settling)
  BY DEF WInv, DInv, Placed, Recording

\* What a body has read or raised, by the records.
LEMMA PlainCame ==
    ASSUME WInv, DInv, NEW a \in DOMAIN tasks, Certain(a), Ready(a),
           Statement(a).op \in {"result", "raise"}, ReadOf(a) # "pause"
    PROVE  Came(a, tasks[a].attempt, tasks[a].pc, ReadOf(a))
<1>1. Typed /\ Places /\ Settling /\ a # Root /\ IsScope(a) /\ invocation = "running"
  BY PlacedIs DEF Certain, Ready, Running
<1>2. BodyAt(a) = Body(a) /\ Statement(a) = BodyAt(a)[tasks[a].pc]
  BY <1>1, TaskPlace
<1>3. CASE Statement(a).op = "raise"
  BY <1>2, <1>3 DEF Came, ReadOf
<1>4. CASE Statement(a).op = "result"
  <2> DEFINE n == Statement(a).of
             h == tasks[a].handles[n]
  <2>1. /\ n \in Nat \ {0} /\ n <= Cardinality(Created(Body(a), tasks[a].pc))
    BY <1>1, <1>4, StatementIs DEF Ready, Body
  <2>2. /\ Len(tasks[a].handles) = Cardinality(Created(Body(a), tasks[a].pc))
        /\ \A m \in DOMAIN tasks[a].handles :
              IsHandle(a, tasks[a].attempt, m, tasks[a].handles[m])
    BY <1>1 DEF Settling, Working, Holding
  <2>3. tasks[a].handles \in Seq(Address)
    BY ScopeFields
  <2>4. n \in DOMAIN tasks[a].handles
    <3>1. Len(tasks[a].handles) \in Nat /\ DOMAIN tasks[a].handles = 1 .. Len(tasks[a].handles)
      BY <2>3, LenProperties
    <3> HIDE DEF n
    <3> QED
      BY <2>1, <2>2, <3>1
  <2>5. IsHandle(a, tasks[a].attempt, n, h)
    BY <2>2, <2>4
  <2>6. ReadOf(a) = ResultOf(h)
    BY <1>4 DEF ReadOf
  <2> HIDE DEF h
  <2>7. h \in DOMAIN asked
    BY <2>5 DEF IsHandle
  <2>8. h \in DOMAIN view /\ Final(view[h].status) /\ ReadOf(a) = EndOf(view[h])
    BY <2>6 DEF ResultOf, Seen, In, Absent, Final, EndOf
  <2>9. h \in DOMAIN records /\ records[h] = view[h]
    BY <1>1, <2>8 DEF Settling, InStep, WInv, Known, Open, Final
  <2>10. \E b \in DOMAIN asked : /\ IsHandle(a, tasks[a].attempt, n, b)
                                 /\ b \in DOMAIN records /\ Final(records[b].status)
                                 /\ ReadOf(a) = EndOf(records[b])
    BY <2>5, <2>7, <2>8, <2>9
  <2> QED
    BY <1>2, <1>4, <2>10 DEF Came
<1> QED
  BY <1>3, <1>4

\* What a scope awaits is one operation.
LEMMA AwaitsOne ==
    ASSUME WInv, DInv, NEW a \in DOMAIN tasks, Certain(a), IsScope(a), invocation = "running",
           tasks[a].phase \in {"await", "backing_off"}
    PROVE  LET b == Append(a, tasks[a].next - 1)
           IN /\ tasks[a].next - 1 \in Position /\ b \in DOMAIN asked
              /\ PlaceAt(b).phase = tasks[a].phase /\ PlaceAt(b).attempt = tasks[a].attempt
              /\ PlaceAt(b).pc = tasks[a].pc /\ tasks[a].awaits = {b} /\ b \in DOMAIN tasks
              /\ tasks[a].pc \in 1 .. Len(BodyAt(a))
              /\ tasks[a].phase = "await" => Operations(Statement(a)) # <<>>
<1> PICK k : k = tasks[a].next - 1
  OBVIOUS
<1> DEFINE b == Append(a, k)
<1>1. Typed /\ Places /\ Settling /\ Stands(a) /\ a # Root
  BY PlacedIs DEF Certain, Placed
<1>2. Scoped(a) /\ BodyAt(a) = Body(a) /\ Statement(a) = BodyAt(a)[tasks[a].pc]
  BY <1>1, TaskPlace
<1>3. tasks[a].pc \in 1 .. Len(BodyAt(a))
  <2>1. tasks[a].pc <= Len(Body(a))
    BY DEF WInv, Formed, Shape
  <2> QED
    BY <1>1, <1>2, <2>1, StatementIs
<1>4. Operations(Statement(a)) # <<>> /\ Len(Operations(Statement(a))) = 1
  BY <1>1, <1>2, <1>3, CertainIs
<1>5. /\ k \in Position /\ b \in DOMAIN asked /\ PlaceAt(b).phase = tasks[a].phase
      /\ PlaceAt(b).attempt = tasks[a].attempt /\ PlaceAt(b).pc = tasks[a].pc
  BY <1>1, <1>4 DEF Stands
<1>6. tasks[a].awaits = {b}
  <2>1. \E operations : Len(operations) = 1 /\ Last(a, operations)
    <3>1. Len(<<Wait>>) = 1
      OBVIOUS
    <3> QED
      BY <1>4, <3>1 DEF WInv, Heard, Awaits
  <2>2. tasks[a].awaits = {Append(a, k + i - 1) : i \in 1 .. 1}
    BY <2>1 DEF Last
  <2>3. \A i \in 1 .. 1 : k + i - 1 = k
    BY <1>5 DEF Position
  <2> QED
    BY <2>2, <2>3
<1>7. b \in DOMAIN tasks
  BY <1>6 DEF WInv, Formed, Shape, Children
<1> QED
  BY <1>3, <1>4, <1>5, <1>6, <1>7

\* What it hears agrees with its record.
LEMMA AwaitedOne ==
    ASSUME WInv, DInv, NEW a \in DOMAIN tasks, Certain(a), IsScope(a), invocation = "running",
           tasks[a].phase \in {"await", "backing_off"}, Awaited(a) \notin {"none", "pause"}
    PROVE  LET b == Append(a, tasks[a].next - 1)
           IN /\ tasks[a].next - 1 \in Position /\ b \in DOMAIN asked
              /\ PlaceAt(b).phase = tasks[a].phase /\ PlaceAt(b).attempt = tasks[a].attempt
              /\ PlaceAt(b).pc = tasks[a].pc /\ Agreed(b, Awaited(a))
              /\ tasks[a].pc \in 1 .. Len(BodyAt(a))
              /\ tasks[a].phase = "await" => Operations(Statement(a)) # <<>>
<1> DEFINE b == Append(a, tasks[a].next - 1)
<1>1. Settling
  BY PlacedIs DEF Certain
<1>2. tasks[a].awaits = {b} /\ b \in DOMAIN tasks
  BY AwaitsOne
<1> HIDE DEF b
<1>3. tasks[b].out = Awaited(a)
  <2>1. CASE Awaited(a) = "ok"
    BY <1>2, <2>1, AwaitedIs
  <2>2. CASE Awaited(a) # "ok"
    BY <1>2, <2>2, AwaitedIs
  <2> QED
    BY <2>1, <2>2
<1>4. Agreed(b, Awaited(a))
  BY <1>1, <1>2, <1>3 DEF Settling, Agreeing
<1> QED
  BY <1>4, AwaitsOne DEF b

\* A handler that is told what agrees with the record takes the same way as one told what
\* the record is replayed with.
LEMMA AgreedVerdict ==
    ASSUME WInv, DInv, NEW s, Scoped(s), Certain(s), NEW k \in Position,
           Append(s, k) \in DOMAIN asked, PlaceAt(Append(s, k)).phase = "await",
           NEW o \in Outcomes, Agreed(Append(s, k), o)
    PROVE  LET b == Append(s, k)
               c == PlaceAt(b).pc
           IN /\ Settled(b) /\ o \notin Retryable
              /\ (o \in Taken(s, c)) = (Verdict(b) \in Taken(s, c))
              /\ (o \in InvocationErrors) = (Verdict(b) \in InvocationErrors)
              /\ o # "ok" => o \in Errors /\ Verdict(b) \in Errors
<1> DEFINE b == Append(s, k)
           c == PlaceAt(b).pc
           operation == PlaceAt(b).operation
<1>1. Typed /\ Places /\ Recording
  BY PlacedIs DEF Certain
<1>2. s \in Address
  BY <1>1, BodyIs
<1>3. Parent(b) = s
  BY <1>2, AppendParent
<1>4. /\ c \in 1 .. Len(BodyAt(s)) /\ PlaceAt(b).part \in 1 .. Len(Operations(BodyAt(s)[c]))
      /\ operation = Operations(BodyAt(s)[c])[PlaceAt(b).part]
  BY <1>1, <1>3, PlaceIs DEF PlaceFits
<1>5. operation = BodyAt(s)[c]
  <2>1. Operations(BodyAt(s)[c]) = <<BodyAt(s)[c]>> /\ Len(Operations(BodyAt(s)[c])) = 1
    BY <1>1, <1>4, CertainIs
  <2> HIDE DEF c, operation
  <2>2. PlaceAt(b).part = 1
    BY <1>4, <2>1
  <2> QED
    BY <1>4, <2>1, <2>2
<1>6. /\ operation.op = "step" => ~operation.once
      /\ operation.op = "condition" =>
            \A e \in Others : (e \in BodyAt(s)[c].catch) = ("callable" \in BodyAt(s)[c].catch)
  <2>1. Sequential(BodyAt(s)) /\ c \in DOMAIN BodyAt(s)
    <3>1. BodyAt(s) \in Seq(StatementsOver(Bodies[program]))
      BY <1>1, BodyIs
    <3> QED
      BY <1>1, <1>4, <3>1, CertainIs, LenProperties
  <2> QED
    BY <1>5, <2>1 DEF Sequential
<1>7. b \in DOMAIN records /\ records[b].op = operation.op
  BY <1>1 DEF Agreed, Recording
<1>8. RecordFits(records[b])
  BY <1>7 DEF WInv, KindsFit
<1>9. CASE operation.op = "callback"
  <2>1. o = "ok" /\ Verdict(b) = "ok" /\ Settled(b)
    BY <1>7, <1>9 DEF Agreed, Settled, Verdict
  <2> QED
    BY <2>1 DEF Retryable
<1>10. CASE operation.op # "callback"
  <2>1. Settled(b) /\ Verdict(b) = EndOf(records[b]) /\ Final(records[b].status)
    BY <1>10 DEF Agreed, Settled, Verdict
  <2>2. Verdict(b) # "ok" =>
           /\ Verdict(b) \in Errors /\ Recorded(Verdict(b)) = Verdict(b)
           /\ Verdict(b) \notin Retryable
    BY <1>8, <2>1 DEF EndOf, Final, RecordFits, Recorded, Retryable, ExecutionErrors
  <2>3. CASE o = EndOf(records[b])
    <3>1. o = Verdict(b)
      BY <2>1, <2>3
    <3>2. "ok" \notin Retryable
      BY DEF Retryable
    <3> QED
      BY <2>1, <2>2, <3>1, <3>2
  <2>4. CASE /\ operation.op = "condition" /\ o \in Errors \ Retryable
             /\ EndOf(records[b]) = Recorded(o)
    <3>1. \A e \in Others : (e \in BodyAt(s)[c].catch) = ("callable" \in BodyAt(s)[c].catch)
      BY <1>6, <2>4
    <3>2. CASE o \in ExecutionErrors \cup {"permanent"}
      <4>1. o = Verdict(b)
        BY <2>1, <2>4, <3>2 DEF Recorded
      <4> QED
        BY <2>1, <2>4, <4>1
    <3>3. CASE o \notin ExecutionErrors \cup {"permanent"}
      <4>1. /\ o \in Others /\ Verdict(b) = "callable" /\ o # "ok" /\ o \notin InvocationErrors
            /\ "callable" \in Errors \ InvocationErrors /\ "callable" # "ok"
        BY <2>1, <2>4, <3>3 DEF Recorded, Errors, InvocationErrors, Retryable, Others,
                                ExecutionErrors
      <4>2. (o \in Taken(s, c)) = (Verdict(b) \in Taken(s, c))
        BY <3>1, <4>1 DEF Taken
      <4> QED
        BY <2>1, <2>4, <4>1, <4>2
    <3> QED
      BY <3>2, <3>3
  <2> QED
    BY <1>6, <1>10, <2>3, <2>4 DEF Agreed
<1> QED
  BY <1>9, <1>10

LEMMA Unmoved ==
    ASSUME UNCHANGED <<program, records, asked>>
    PROVE  Grows
  BY DEF Grows

\* A step of one scope's code, the others as they were.
LEMMA OwnPlaced ==
    ASSUME WInv, DInv, Straight \/ Steady, NEW a \in DOMAIN tasks,
           UNCHANGED <<program, records, asked>>, DOMAIN tasks' = DOMAIN tasks,
           \A b \in DOMAIN tasks \ {a} : tasks'[b] = tasks[b], Stands(a)'
    PROVE  Placed'
<1>1. Grows /\ Placed
  BY Unmoved, PlacedIs
<1>2. ASSUME NEW s \in DOMAIN tasks', IsScope(s)' PROVE Stands(s)'
  <2>1. CASE s = a
    BY <2>1
  <2>2. CASE s # a
    <3>1. s \in DOMAIN tasks /\ tasks'[s] = tasks[s]
      BY <2>2
    <3>2. IsScope(s)
      BY <1>2, <3>1 DEF IsScope, Kind
    <3> QED
      BY <1>1, <3>1, <3>2, StandsStays
  <2> QED
    BY <2>1, <2>2
<1>3. \A b \in DOMAIN records' : b \in DOMAIN asked /\ records'[b].op = PlaceAt(b).operation.op
  BY <1>1 DEF Placed
<1> QED
  BY <1>1, <1>2, <1>3, PlacedStays

\* The body goes on from a statement that starts nothing, or from what it started.
LEMMA MovesLed ==
    ASSUME WInv, DInv, Straight \/ Steady, NEW a \in DOMAIN tasks, IsScope(a),
           tasks[a].pc <= Len(Body(a)), NEW o \in Outcomes, GoodFor(a, o)
    PROVE  Led(a, tasks[a].next - 1, tasks[a].attempt, tasks[a].pc + 1)
<1> PICK k, t, c : k = tasks[a].next - 1 /\ t = tasks[a].attempt /\ c = tasks[a].pc
  OBVIOUS
<1>1. /\ Typed /\ Places /\ Ordered /\ Stands(a) /\ (Certain(a) => Settling)
      /\ Scoped(a) /\ BodyAt(a) = Body(a) /\ Statement(a) = BodyAt(a)[c]
  BY PlacedIs, TaskPlace DEF Placed, Certain
<1>2. c \in Position /\ c \in 1 .. Len(BodyAt(a))
  BY <1>1, ScopeFields, StatementIs
<1>3. o \in Taken(a, c) /\ o # "pause"
  <2>1. Statement(a).catch \subseteq Errors /\ o \in {"ok"} \cup Statement(a).catch
    BY <1>1, StatementIs DEF GoodFor
  <2>2. "pause" \notin Errors
    BY DEF Errors, Retryable, InvocationErrors, ExecutionErrors, Others
  <2> QED
    BY <1>1, <2>1, <2>2 DEF Taken
<1>4. ASSUME Led(a, k, t, c), Idle(a, t, c) PROVE Led(a, k, t, c + 1)
  <2>1. \A m \in Position : Append(a, m) \in DOMAIN asked => PlaceAt(Append(a, m)).pc \in Position
    BY <1>1, PlaceIs
  <2> QED
    BY <1>2, <1>4, <2>1, LedMore
<1>5. CASE Running(a, "refused")
  BY <1>1, <1>5 DEF Stands, Running
<1>6. CASE Ready(a) /\ Statement(a).op \in Plain
  <2>1. Led(a, k, t, c)
    BY <1>1, <1>6 DEF Stands, Ready, Running
  <2>2. CASE Statement(a).op = "log"
    <3>1. Came(a, t, c, "ok") /\ "ok" \in Taken(a, c)
      BY <1>1, <2>2 DEF Came, Taken
    <3> QED
      BY <1>1, <1>4, <1>6, <2>1, <3>1 DEF Idle
  <2>3. CASE Statement(a).op # "log"
    <3>1. Statement(a).op \in {"result", "raise"} /\ o = ReadOf(a)
      BY <1>6, <2>3 DEF GoodFor, Plain, Ready, Running
    <3>2. Certain(a) => Came(a, t, c, o)
      BY <1>3, <1>6, <3>1, PlainCame
    <3> QED
      BY <1>1, <1>3, <1>4, <1>6, <2>1, <3>2 DEF Idle
  <2> QED
    BY <2>2, <2>3
<1>7. CASE Running(a, "await") /\ o = Awaited(a)
  <2>1. tasks[a].phase = "await" /\ invocation = "running"
    BY <1>7 DEF Running
  <2>2. CASE Operations(Statement(a)) = <<>>
    <3>1. Led(a, k, t, c)
      BY <1>1, <2>1, <2>2 DEF Stands
    <3>2. ~Certain(a)
      BY <1>1, <1>2, <2>2, CertainIs
    <3> QED
      BY <1>1, <1>4, <2>2, <3>1, <3>2 DEF Idle
  <2>3. CASE Operations(Statement(a)) # <<>>
    <3> DEFINE b == Append(a, k)
               q == PlaceAt(b)
    <3>1. /\ k \in Position /\ b \in DOMAIN asked /\ q.phase = "await"
          /\ q.attempt = t /\ q.pc = c /\ q.part = Len(Operations(Statement(a)))
      BY <1>1, <2>1, <2>3 DEF Stands
    <3>2. Certain(a) => Settled(b) /\ Verdict(b) \in Taken(a, c)
      <4> SUFFICES ASSUME Certain(a) PROVE Settled(b) /\ Verdict(b) \in Taken(a, c)
        OBVIOUS
      <4>1. Awaited(a) \notin {"none", "pause"}
        BY <1>3, <1>7 DEF Outcomes, Errors, Retryable, InvocationErrors, ExecutionErrors,
                          Others
      <4>2. Agreed(b, o)
        BY <1>7, <2>1, <4>1, AwaitedOne
      <4> QED
        BY <1>1, <1>3, <3>1, <4>2, AgreedVerdict
    <3>3. c < c + 1 /\ \A d \in c + 1 .. c + 1 - 1 : FALSE
      BY <1>2 DEF Position
    <3>4. q.part = Len(Operations(BodyAt(a)[q.pc]))
      BY <1>1, <3>1
    <3>5. Leads(a, k, t, c + 1)
      <4> PICK e : e = c + 1
        OBVIOUS
      <4>1. q.pc < e /\ \A d \in q.pc + 1 .. e - 1 : Idle(a, t, d)
        BY <3>1, <3>3
      <4>2. Leads(a, k, t, e)
        BY <3>1, <3>2, <3>4, <4>1 DEF Leads
      <4> QED
        BY <4>2
    <3> QED
      BY <3>1, <3>5 DEF Led
  <2> QED
    BY <2>2, <2>3
<1>8. Led(a, k, t, c + 1)
  BY <1>5, <1>6, <1>7 DEF GoodFor, Plain
<1> QED
  BY <1>8

LEMMA MovesPlaced ==
    ASSUME WInv, DInv, Straight \/ Steady, NEW a \in DOMAIN tasks, Moves(a)
    PROVE  Placed'
<1>1. PICK o \in Outcomes, handles \in Seq(Address) : GoodFor(a, o) /\ Proceeds(a, handles)
  BY DEF Moves
<1>2. /\ IsScope(a) /\ tasks[a].pc <= Len(Body(a)) /\ UNCHANGED <<program, records, asked>>
  BY DEF Moves, serviceVars
<1>3. Typed /\ Places /\ Recording /\ Scoped(a)
  BY <1>2, PlacedIs, TaskPlace
<1> PICK k, t, c : k = tasks[a].next - 1 /\ t = tasks[a].attempt /\ c = tasks[a].pc + 1
  OBVIOUS
<1>4. Led(a, k, t, c)'
  <2>1. Led(a, k, t, c)
    BY <1>1, <1>2, MovesLed
  <2> QED
    BY <1>2, <1>3, <2>1, Unmoved, LedStays
<1>5. /\ DOMAIN tasks' = DOMAIN tasks /\ \A b \in DOMAIN tasks \ {a} : tasks'[b] = tasks[b]
      /\ tasks'[a].phase = "run" /\ tasks'[a].pc = c /\ tasks'[a].next - 1 = k
      /\ tasks'[a].attempt = t
  BY <1>1, <1>3, ProceedsFields
<1>6. Stands(a)'
  BY <1>4, <1>5 DEF Stands
<1> QED
  BY <1>2, <1>5, <1>6, OwnPlaced

\* with_retry backs off from what nothing takes, as the records have it.
LEMMA RetiresPlaced ==
    ASSUME WInv, DInv, Straight \/ Steady, NEW a \in DOMAIN tasks, Retires(a)
    PROVE  Placed'
<1> PICK k, t, c : k = tasks[a].next - 1 /\ t = tasks[a].attempt /\ c = tasks[a].pc
  OBVIOUS
<1>1. PICK o \in Outcomes : Fails(a, o) /\ Retries(a, o)
  BY DEF Retires
<1>2. /\ a # Root /\ IsScope(a) /\ tasks[a].pc <= Len(Body(a)) /\ BacksOff(a)
      /\ UNCHANGED <<program, records, asked>>
  BY DEF Retires, serviceVars
<1>3. /\ Typed /\ Places /\ Ordered /\ Stands(a) /\ Recording
      /\ Scoped(a) /\ BodyAt(a) = Body(a) /\ Statement(a) = BodyAt(a)[c]
      /\ TriesAt(a) = tasks[a].stmt.tries /\ PlaceAt(a).operation = tasks[a].stmt
      /\ a \in DOMAIN asked
  BY <1>2, PlacedIs, TaskPlace DEF Placed
<1>4. t \in Position /\ c \in 1 .. Len(BodyAt(a)) /\ c \in DOMAIN BodyAt(a)
  BY <1>2, <1>3, ScopeFields, StatementIs
<1>5. t < TriesAt(a) /\ TriesAt(a) \in Nat
  <2>1. tasks[a].stmt.tries > t
    BY <1>1 DEF Retries
  <2>2. TriesAt(a) \in Nat
    BY <1>3, BodyIs
  <2> QED
    BY <1>3, <1>4, <2>1, <2>2 DEF Position
<1>6. Certain(a)
  <2>1. ~Straight
    <3>1. TriesAt(a) # 0
      BY <1>4, <1>5 DEF Position
    <3> QED
      BY <1>2, <1>3, <3>1, OperationAt DEF IsScope, Kind
  <2> QED
    BY <1>2, <2>1 DEF Certain
<1>7. o \in Errors \ (InvocationErrors \cup BodyAt(a)[c].catch) /\ o # "pause"
  BY <1>1, <1>3 DEF Fails, Retries, Outcomes
<1>8. Failed(a, k, t, c)
  <2>1. CASE Running(a, "refused")
    BY <1>3, <2>1 DEF Stands, Running
  <2>2. CASE Ready(a) /\ Statement(a).op \in {"result", "raise"} /\ o = ReadOf(a)
    <3>1. Led(a, k, t, c)
      BY <1>3, <2>2 DEF Stands, Ready, Running
    <3>2. Came(a, t, c, o)
      BY <1>6, <1>7, <2>2, PlainCame
    <3>3. Stuck(a, k, t, c, o)
      BY <1>3, <2>2, <3>1, <3>2 DEF Stuck, Plain
    <3> QED
      BY <1>4, <1>5, <1>6, <1>7, <3>3 DEF Failed
  <2>3. CASE Running(a, "await") /\ o = Awaited(a)
    <3> DEFINE b == Append(a, k)
    <3>1. Awaited(a) \notin {"none", "pause"}
      BY <1>1, <1>7, <2>3 DEF Fails
    <3>2. /\ k \in Position /\ b \in DOMAIN asked /\ PlaceAt(b).phase = "await"
          /\ PlaceAt(b).attempt = t /\ PlaceAt(b).pc = c /\ Agreed(b, o)
      BY <1>2, <1>6, <2>3, <3>1, AwaitedOne DEF Running
    <3>3. Settled(b) /\ Verdict(b) \in Errors \ (InvocationErrors \cup BodyAt(a)[c].catch)
      <4>1. o \in Outcomes /\ o \notin Taken(a, c) /\ o # "ok" /\ o \notin InvocationErrors
        BY <1>1, <1>3, <1>7 DEF Taken, Fails
      <4>2. /\ Settled(b) /\ Verdict(b) \notin Taken(a, c)
            /\ Verdict(b) \notin InvocationErrors /\ Verdict(b) \in Errors
        BY <1>3, <1>6, <3>2, <4>1, AgreedVerdict
      <4> QED
        BY <4>2 DEF Taken
    <3>4. Stuck(a, k, t, c, Verdict(b))
      BY <3>2, <3>3 DEF Stuck
    <3> QED
      BY <1>4, <1>5, <1>6, <3>3, <3>4 DEF Failed
  <2> QED
    BY <1>1, <2>1, <2>2, <2>3 DEF Fails
<1>9. Failed(a, k, t, c)'
  BY <1>2, <1>3, <1>8, Unmoved, LedStays
<1>10. /\ DOMAIN tasks' = DOMAIN tasks /\ \A b \in DOMAIN tasks \ {a} : tasks'[b] = tasks[b]
       /\ tasks'[a].phase = "back_off" /\ tasks'[a].pc = c /\ tasks'[a].next - 1 = k
       /\ tasks'[a].attempt = t
  BY <1>2, <1>3, BacksOffFields DEF Fixed
<1>11. Stands(a)'
  BY <1>9, <1>10 DEF Stands
<1> QED
  BY <1>2, <1>10, <1>11, OwnPlaced

\* The next attempt begins after the wait that came between.
LEMMA RepeatsPlaced ==
    ASSUME WInv, DInv, Straight \/ Steady, NEW a \in DOMAIN tasks, Repeats(a)
    PROVE  Placed'
<1> PICK k, t : k = tasks[a].next - 1 /\ t = tasks[a].attempt
  OBVIOUS
<1> DEFINE b == Append(a, k)
           q == PlaceAt(b)
<1>1. /\ Running(a, "backing_off") /\ Awaited(a) = "ok" /\ Restarts(a) /\ IsScope(a)
      /\ UNCHANGED <<program, records, asked>>
  BY DEF Repeats, serviceVars, Running, WInv, Formed, Shape
<1>2. Typed /\ Places /\ Ordered /\ Stands(a) /\ Recording /\ Scoped(a) /\ Certain(a)
  BY <1>1, PlacedIs, TaskPlace DEF Placed, Stands, Running
<1>3. /\ k \in Position /\ b \in DOMAIN asked /\ q.phase = "backing_off" /\ q.attempt = t
      /\ Agreed(b, "ok")
  BY <1>1, <1>2, AwaitedOne DEF Running
<1>4. q.operation = Wait
  <2>1. PlaceFits(b)
    BY <1>2, <1>3, PlaceIs
  <2> QED
    BY <1>3, <2>1 DEF PlaceFits
<1>5. Settled(b)
  BY <1>3, <1>4 DEF Agreed, Settled, Wait
<1>6. Leads(a, k, t + 1, 1)
  <2> PICK u : u = t + 1
    OBVIOUS
  <2>1. Leads(a, k, u, 1)
    BY <1>3, <1>5 DEF Leads
  <2> QED
    BY <2>1
<1>7. Led(a, k, t + 1, 1)
  BY <1>3, <1>6 DEF Led
<1>8. Led(a, k, t + 1, 1)'
  BY <1>1, <1>2, <1>7, Unmoved, LedStays
<1>9. /\ DOMAIN tasks' = DOMAIN tasks /\ \A e \in DOMAIN tasks \ {a} : tasks'[e] = tasks[e]
      /\ tasks'[a].phase = "run" /\ tasks'[a].pc = 1 /\ tasks'[a].next - 1 = k
      /\ tasks'[a].attempt = t + 1
  BY <1>1, <1>2, RestartsFields
<1>10. Stands(a)'
  BY <1>8, <1>9 DEF Stands
<1> QED
  BY <1>1, <1>9, <1>10, OwnPlaced

----------------------------------------------------------------------------
(* Ends, beginnings, and the world                                         *)

Matching == \A b \in DOMAIN records' : b \in DOMAIN asked /\ records'[b].op = PlaceAt(b).operation.op

LEMMA WritesGrow ==
    ASSUME WInv, Placed, NEW a \in DOMAIN tasks, NEW r \in RecordSet, Writes(a, r)
    PROVE  Grows /\ Matching
<1>1. /\ a # Root /\ r.op = Kind(a) /\ ~Final(In(records, a).status)
      /\ UNCHANGED <<program, asked>>
  BY DEF Writes
<1>2. /\ DOMAIN records' = DOMAIN records \cup {a} /\ records'[a] = r
      /\ \A b \in DOMAIN records \ {a} : records'[b] = records[b]
  BY WritesRecords DEF Keeps
<1>3. a \in DOMAIN records => records[a].op = Kind(a) /\ ~Final(records[a].status)
  BY <1>1 DEF WInv, KindsFit, In
<1>4. a \in DOMAIN asked /\ PlaceAt(a).operation = tasks[a].stmt
  BY <1>1, TaskPlace DEF Placed
<1>5. Grows
  BY <1>1, <1>2, <1>3 DEF Grows
<1>6. Matching
  BY <1>1, <1>2, <1>4 DEF Matching, Placed, Kind
<1> QED
  BY <1>5, <1>6

LEMMA UnmovedMatch ==
    ASSUME Placed, UNCHANGED <<program, records, asked>>
    PROVE  Grows /\ Matching
  BY DEF Placed, Matching, Grows

\* A step that leaves every scope where it is, begins one or ends one.
LEMMA FixedPlaced ==
    ASSUME WInv, Placed, Grows, Matching, UNCHANGED asked, NEW a \in DOMAIN tasks,
           DOMAIN tasks' = DOMAIN tasks, \A b \in DOMAIN tasks : Fixed(b),
           \A b \in DOMAIN tasks \ {a} : tasks'[b].phase = tasks[b].phase,
           tasks'[a].phase = "done" \/ (tasks[a].phase = "begin" /\ tasks'[a].phase = "run")
    PROVE  Placed'
<1>1. ASSUME NEW s \in DOMAIN tasks', IsScope(s)' PROVE Stands(s)'
  <2>1. s \in DOMAIN tasks /\ Fixed(s) /\ IsScope(s)
    BY <1>1 DEF Fixed, IsScope, Kind
  <2>2. \/ tasks'[s].phase = tasks[s].phase
        \/ tasks'[s].phase = "done"
        \/ tasks[s].phase = "begin" /\ tasks'[s].phase = "run"
    BY <2>1
  <2> QED
    BY <2>1, <2>2, StandsStays DEF Fixed
<1> QED
  BY <1>1, PlacedStays DEF Matching

LEMMA EndingPlaced ==
    ASSUME WInv, Placed, Grows, Matching, UNCHANGED asked, NEW a \in DOMAIN tasks,
           NEW out \in Outcomes, Ending(a, out)
    PROVE  Placed'
  BY FinishesFields, FixedPlaced DEF Ending, WInv

LEMMA BeginsPlaced ==
    ASSUME WInv, Placed, Grows, Matching, UNCHANGED asked, NEW a \in DOMAIN tasks, Begins(a)
    PROVE  Placed'
  BY GoesOnFields, FixedPlaced DEF Begins, WInv

LEMMA CommitsPlaced ==
    ASSUME WInv, Placed, NEW a \in DOMAIN tasks, Commits(a)
    PROVE  Placed'
<1>1. PICK r \in RecordSet, out \in Outcomes : Writes(a, r) /\ Ending(a, out)
  BY DEF Commits
<1>2. UNCHANGED asked
  BY <1>1 DEF Writes
<1> QED
  BY <1>1, <1>2, WritesGrow, EndingPlaced

LEMMA StartsPlaced ==
    ASSUME WInv, Placed, NEW a \in DOMAIN tasks, Starts(a)
    PROVE  Placed'
<1>1. PICK r \in RecordSet : Writes(a, r) /\ Begins(a)
  BY DEF Starts
<1>2. UNCHANGED asked
  BY <1>1 DEF Writes
<1> QED
  BY <1>1, <1>2, WritesGrow, BeginsPlaced

LEMMA StillPlaced ==
    ASSUME WInv, Placed, NEW a \in DOMAIN tasks, Rejects(a) \/ Delivers(a) \/ Enters(a)
    PROVE  Placed'
<1>1. UNCHANGED <<program, records, asked>>
  BY DEF Rejects, Delivers, Enters, serviceVars
<1>2. (\E out \in Outcomes : Ending(a, out)) \/ Begins(a)
  <2>1. "state" \in Outcomes
    BY DEF Outcomes, Errors, Others
  <2> QED
    BY <2>1 DEF Rejects, Delivers, Enters
<1> QED
  BY <1>1, <1>2, UnmovedMatch, EndingPlaced, BeginsPlaced

\* Without an invocation no scope stands anywhere.
LEMMA GonePlaced ==
    ASSUME WInv, Placed, tasks' = <<>>, UNCHANGED <<program, records, asked>>
    PROVE  Placed'
<1>1. DOMAIN tasks' = {}
  BY EmptyMap
<1> QED
  BY <1>1, UnmovedMatch, PlacedStays DEF Matching

\* The handler starts where its first statement is.
LEMMA InvokePlaced ==
    ASSUME WInv, Placed, InvokeWorkflow
    PROVE  Placed'
<1>1. UNCHANGED <<program, records, asked>>
  BY DEF InvokeWorkflow
<1> DEFINE known == records # <<>>
           task == [Task(Child(program), Root) EXCEPT
                       !.phase = "run", !.entered = known, !.replaying = known]
<1>2. tasks' = Only(Root, task)
  BY DEF InvokeWorkflow
<1>3. task.phase = "run" /\ task.next = 1 /\ task.attempt = 1 /\ task.pc = 1
  BY DEF Task
<1> HIDE DEF task
<1>4. DOMAIN tasks' = {Root} /\ tasks'[Root] = task
  BY <1>2 DEF Only
<1>5. Led(Root, 0, 1, 1)'
  BY DEF Led
<1>6. Stands(Root)'
  BY <1>3, <1>4, <1>5 DEF Stands
<1> QED
  BY <1>1, <1>4, <1>6, UnmovedMatch, PlacedStays DEF Matching

\* The world ends what has not ended.
LEMMA WorldPlaced ==
    ASSUME WInv, Placed, World
    PROVE  Placed'
<1> PICK a \in DOMAIN records : Elapses(a) \/ Answers(a)
  BY DEF World
<1>1. PICK status, error : /\ Update(a, status, error)
                           /\ records[a].status \in {"STARTED", "PENDING"}
  BY DEF Elapses, Answers
<1>2. /\ records' = [records EXCEPT ![a].status = status, ![a].error = error]
      /\ UNCHANGED <<program, tasks, asked>> /\ ~Final(records[a].status)
  BY <1>1 DEF Update, invocationVars, Final
<1>3. records \in [DOMAIN records -> RecordSet]
  BY DEF WInv, Typed, MapOf
<1>4. /\ DOMAIN records' = DOMAIN records
      /\ \A b \in DOMAIN records \ {a} : records'[b] = records[b]
      /\ records'[a].op = records[a].op
  BY <1>2, <1>3 DEF RecordSet
<1>5. Grows
  BY <1>2, <1>4 DEF Grows
<1>6. Matching
  BY <1>4 DEF Matching, Placed
<1>7. ASSUME NEW s \in DOMAIN tasks', IsScope(s)' PROVE Stands(s)'
  <2>1. s \in DOMAIN tasks /\ IsScope(s) /\ tasks'[s] = tasks[s]
    BY <1>2, <1>7 DEF IsScope, Kind
  <2> QED
    BY <1>5, <2>1, StandsStays
<1> QED
  BY <1>2, <1>5, <1>6, <1>7, PlacedStays DEF Matching

----------------------------------------------------------------------------
(* A launch takes the next places of the scope, or those it took before    *)

PlaceFor(phase, t, c, i, operation) ==
    [phase |-> phase, attempt |-> t, pc |-> c, part |-> i, operation |-> operation]

LEMMA LastTaken ==
    ASSUME NEW s, NEW k \in Nat, NEW t, NEW c, NEW phase, NEW operations,
           Launchable(s, k, t, c, phase, operations), k # 0
    PROVE  k \in Position /\ Append(s, k) \in DOMAIN asked
<1>1. k \in Position
  BY DEF Position
<1>2. ASSUME Led(s, k, t, c) PROVE Append(s, k) \in DOMAIN asked
  BY <1>2 DEF Led, Leads
<1>3. Failed(s, k, t, c) => Append(s, k) \in DOMAIN asked
  BY <1>2 DEF Failed, Stuck
<1> QED
  BY <1>1, <1>2, <1>3 DEF Launchable

LEMMA Ahead == \A k \in Nat, m \in Position : k < m => k + 1 \in 1 .. m /\ k + 1 \in Position
  BY DEF Position

OnePlace(b) == asked[b] = {PlaceAt(b)}

\* What a launch finds and leaves.
LEMMA LaunchPlaces ==
    ASSUME WInv, Placed, NEW a \in DOMAIN tasks, NEW operations, NEW phase,
           Launching(a, operations, phase), phase # "refused", NEW k, NEW t, NEW c,
           k = tasks[a].next - 1, t = tasks[a].attempt, c = tasks[a].pc
    PROVE  /\ Launchable(a, k, t, c, phase, operations)
           /\ k \in Nat /\ t \in Position /\ c \in Position /\ c \in 1 .. Len(BodyAt(a))
           /\ Len(operations) \in Nat
           /\ \A i \in 1 .. Len(operations) : tasks[a].next + i - 1 = k + i
           /\ \A i \in 1 .. Len(operations) :
                 /\ Append(a, k + i) \in DOMAIN asked'
                 /\ OnePlace(Append(a, k + i))'
                 /\ PlaceAt(Append(a, k + i))' = PlaceFor(phase, t, c, i, operations[i])
                 /\ Append(a, k + i) \notin DOMAIN asked =>
                       \A m \in Position : k < m => Append(a, m) \notin DOMAIN asked
           /\ \A b \in DOMAIN asked' : b \in DOMAIN asked
                                       \/ \E i \in 1 .. Len(operations) : b = Append(a, k + i)
           /\ Grows
<1> DEFINE n == Len(operations)
           place(i) == PlaceFor(phase, t, c, i, operations[i])
<1>1. /\ Typed /\ Places /\ Ordered /\ IsScope(a) /\ Stands(a) /\ Scoped(a)
      /\ invocation = "running" /\ Launch(a, operations, phase)
      /\ operations \in Seq(OperationsOver(Bodies[program])) /\ phase \in {"await", "backing_off"}
      /\ UNCHANGED <<program, records>>
  BY TaskPlace DEF Launching, WInv, Placed
<1>2. \/ /\ Ready(a) /\ Statement(a).op \notin Plain
         /\ phase = "await" /\ operations = Operations(Statement(a))
      \/ Running(a, "back_off") /\ phase = "backing_off" /\ operations = <<Wait>>
  <2>1. CASE phase = "await"
    <3>1. Statement(a).op \notin Plain /\ operations = Operations(Statement(a))
      BY <2>1 DEF Launching
    <3>2. tasks[a].phase = "run"
      BY <2>1 DEF Launching
    <3> QED
      BY <1>1, <2>1, <3>1, <3>2 DEF Ready, Running, Launching, Body
  <2>2. CASE phase = "backing_off"
    BY <1>1, <2>2 DEF Running, Launching
  <2> QED
    BY <1>1, <2>1, <2>2
<1>3. /\ Launchable(a, k, t, c, phase, operations)
      /\ k \in Nat /\ t \in Position /\ c \in Position /\ c \in 1 .. Len(BodyAt(a))
      /\ n \in Nat /\ \A i \in 1 .. n : tasks[a].next + i - 1 = k + i
  BY <1>1, <1>2, LaunchableIs
<1>4. LaunchedPlaces(a, operations, phase)
  BY <1>1, LaunchAsked
<1> HIDE DEF n
<1>5. Reserved(a, n) = {Append(a, k + i) : i \in 1 .. n}
  BY <1>3 DEF Reserved
<1>6. \A i \in 1 .. n : PlaceOf(a, phase, i, operations[i]) = place(i)
  BY DEF PlaceOf, PlaceFor
<1>7. ASSUME NEW i \in 1 .. n
      PROVE  /\ Append(a, k + i) \in DOMAIN asked'
             /\ asked'[Append(a, k + i)] = {PlaceAt(Append(a, k + i))'}
             /\ Append(a, k + i) \in DOMAIN asked => asked'[Append(a, k + i)] = asked[Append(a, k + i)]
             /\ PlaceAt(Append(a, k + i))' = place(i)
             /\ Append(a, k + i) \notin DOMAIN asked =>
                   \A m \in Position : k < m => Append(a, m) \notin DOMAIN asked
  <2> PICK b : b = Append(a, k + i)
    OBVIOUS
  <2>1. b \in DOMAIN asked => asked[b] = {place(i)}
    <3> SUFFICES ASSUME b \in DOMAIN asked PROVE asked[b] = {place(i)}
      OBVIOUS
    <3>1. PlaceAt(b) = place(i)
      BY <1>1, <1>3, SlotsTaken DEF PlaceFor, n
    <3>2. asked[b] = {PlaceAt(b)}
      BY <1>1, PlaceIs
    <3> QED
      BY <3>1, <3>2
  <2>2. tasks[a].next + i - 1 = k + i
    BY <1>3
  <2>3. asked'[b] = (IF b \in DOMAIN asked THEN asked[b] ELSE {}) \cup {place(i)}
        /\ b \in DOMAIN asked'
    <3>1. asked'[Append(a, tasks[a].next + i - 1)] =
            (IF Append(a, tasks[a].next + i - 1) \in DOMAIN asked
             THEN asked[Append(a, tasks[a].next + i - 1)] ELSE {})
            \cup {PlaceOf(a, phase, i, operations[i])}
      BY <1>4 DEF LaunchedPlaces, n
    <3>2. b \in DOMAIN asked'
      BY <1>4, <1>5 DEF LaunchedPlaces, n
    <3> QED
      BY <1>6, <2>2, <3>1, <3>2
  <2>4. asked'[b] = {place(i)}
    BY <2>1, <2>3
  <2>5. PlaceAt(b)' = place(i)
    BY <2>4 DEF PlaceAt
  <2>6. ASSUME b \notin DOMAIN asked, NEW m \in Position, k < m, Append(a, m) \in DOMAIN asked
        PROVE  FALSE
    <3>1. k + 1 \in 1 .. m
      BY <1>3, <2>6, Ahead
    <3>2. a \in Address
      BY <1>1 DEF Typed, MapOf
    <3>3. Append(a, k + 1) \in DOMAIN asked
      BY <1>1, <2>6, <3>1, <3>2, Below
    <3>4. 1 \in 1 .. n
      BY <1>3, Slotting
    <3> QED
      BY <1>1, <1>3, <2>6, <3>3, <3>4, SlotsTaken DEF n
  <2> QED
    BY <2>1, <2>3, <2>4, <2>5, <2>6
<1>8. \A b \in DOMAIN asked' : b \in DOMAIN asked \/ \E i \in 1 .. n : b = Append(a, k + i)
  BY <1>4, <1>5 DEF LaunchedPlaces, n
<1>9. \A b \in DOMAIN asked : b \in DOMAIN asked' /\ asked'[b] = asked[b]
  <2> SUFFICES ASSUME NEW b \in DOMAIN asked PROVE b \in DOMAIN asked' /\ asked'[b] = asked[b]
    OBVIOUS
  <2>1. CASE \E i \in 1 .. n : b = Append(a, k + i)
    BY <1>7, <2>1
  <2>2. CASE ~ \E i \in 1 .. n : b = Append(a, k + i)
    <3>1. b \notin Reserved(a, n)
      BY <1>5, <2>2
    <3> QED
      BY <1>4, <3>1 DEF LaunchedPlaces, n
  <2> QED
    BY <2>1, <2>2
<1>10. Grows
  BY <1>1, <1>9 DEF Grows
<1>11. \A i \in 1 .. n : OnePlace(Append(a, k + i))'
  <2> SUFFICES ASSUME NEW i \in 1 .. n PROVE OnePlace(Append(a, k + i))'
    OBVIOUS
  <2>1. asked'[Append(a, k + i)] = {PlaceAt(Append(a, k + i))'}
    BY <1>7
  <2> QED
    BY <2>1 DEF OnePlace
<1> QED
  BY <1>3, <1>7, <1>8, <1>10, <1>11 DEF n

\* The place a launch takes comes after the last one of its scope.
LEMMA LastEarlier ==
    ASSUME Typed, Places, NEW s, Scoped(s), NEW k \in Position, NEW t, NEW c, NEW phase,
           NEW operations, NEW i, NEW operation, Launchable(s, k, t, c, phase, operations)
    PROVE  Earlier(PlaceAt(Append(s, k)), PlaceFor(phase, t, c, i, operation))
<1> DEFINE q == PlaceAt(Append(s, k))
           p == PlaceFor(phase, t, c, i, operation)
<1>1. p.phase = phase /\ p.attempt = t /\ p.pc = c
  BY DEF PlaceFor
<1>2. Append(s, k) \in DOMAIN asked /\ k # 0 /\ k \in Nat
  BY LastTaken DEF Position
<1>3. q.attempt \in Position /\ q.pc \in Position
  BY <1>2, PlaceIs
<1> HIDE DEF p
<1>4. ASSUME Led(s, k, t, c) PROVE Earlier(q, p)
  <2>1. \/ q.phase = "await" /\ q.attempt = t /\ q.pc < c
        \/ q.phase = "backing_off" /\ t = q.attempt + 1
    BY <1>2, <1>4 DEF Led, Leads
  <2> HIDE DEF q
  <2>2. q.phase = "backing_off" /\ t = q.attempt + 1 => q.attempt < t
    BY <1>3 DEF Position
  <2> QED
    BY <1>1, <2>1, <2>2 DEF Earlier
<1>5. ASSUME ~Led(s, k, t, c) PROVE Earlier(q, p)
  <2>1. phase = "backing_off" /\ Failed(s, k, t, c)
    BY <1>5 DEF Launchable
  <2>2. q.phase = "await" /\ q.attempt = t /\ q.pc = c
    BY <1>5, <2>1 DEF Failed, Stuck
  <2> QED
    BY <1>1, <2>1, <2>2 DEF Earlier
<1> QED
  BY <1>4, <1>5 DEF p

LEMMA EarlierOn ==
    ASSUME NEW p, NEW q, NEW r, p.attempt \in Position, q.attempt \in Position,
           r.attempt \in Position, p.pc \in Position, q.pc \in Position, r.pc \in Position,
           Earlier(p, q), Earlier(q, r)
    PROVE  Earlier(p, r)
<1> DEFINE A == p.attempt
           B == q.attempt
           C == r.attempt
           D == p.pc
           E == q.pc
           F == r.pc
<1>1. /\ A \in Nat /\ B \in Nat /\ C \in Nat /\ D \in Nat /\ E \in Nat /\ F \in Nat
      /\ A < B \/ (A = B /\ (D < E \/ (D = E /\ p.phase = "await" /\ q.phase = "backing_off")))
      /\ B < C \/ (B = C /\ (E < F \/ (E = F /\ q.phase = "await" /\ r.phase = "backing_off")))
  BY DEF Earlier, Position
<1> HIDE DEF A, B, C, D, E, F
<1>2. A < C \/ (A = C /\ (D < F \/ (D = F /\ p.phase = "await" /\ r.phase = "backing_off")))
  BY <1>1
<1> QED
  BY <1>2 DEF Earlier, A, C, D, F

LEMMA Apart ==
    \A k \in Nat, i, m \in Position :
        /\ (~(k < m) => m \in 1 .. k /\ k \in Position)
        /\ (k + i < m => k < m)
        /\ ~(k + 1 < k + 1)
  BY DEF Position

LEMMA OpensOrdered ==
    ASSUME WInv, Placed, NEW a \in DOMAIN tasks, NEW operations, NEW phase,
           Launching(a, operations, phase), phase # "refused"
    PROVE  Ordered'
<1> PICK k, t, c : k = tasks[a].next - 1 /\ t = tasks[a].attempt /\ c = tasks[a].pc
  OBVIOUS
<1> DEFINE n == Len(operations)
<1>1. /\ Launchable(a, k, t, c, phase, operations)
      /\ k \in Nat /\ t \in Position /\ c \in Position /\ c \in 1 .. Len(BodyAt(a))
      /\ n \in Nat
      /\ \A i \in 1 .. n :
            /\ PlaceAt(Append(a, k + i))' = PlaceFor(phase, t, c, i, operations[i])
            /\ Append(a, k + i) \notin DOMAIN asked =>
                  \A m \in Position : k < m => Append(a, m) \notin DOMAIN asked
      /\ \A b \in DOMAIN asked' : b \in DOMAIN asked \/ \E i \in 1 .. n : b = Append(a, k + i)
      /\ Grows
  <2>1. /\ Launchable(a, k, t, c, phase, operations)
        /\ k \in Nat /\ t \in Position /\ c \in Position /\ c \in 1 .. Len(BodyAt(a))
        /\ Len(operations) \in Nat
        /\ Grows
    BY LaunchPlaces
  <2>2. \A i \in 1 .. Len(operations) :
           PlaceAt(Append(a, k + i))' = PlaceFor(phase, t, c, i, operations[i])
    BY LaunchPlaces
  <2>3. \A i \in 1 .. Len(operations) :
           Append(a, k + i) \notin DOMAIN asked =>
              \A m \in Position : k < m => Append(a, m) \notin DOMAIN asked
    BY LaunchPlaces
  <2>4. \A b \in DOMAIN asked' : b \in DOMAIN asked
                                 \/ \E i \in 1 .. Len(operations) : b = Append(a, k + i)
    BY LaunchPlaces
  <2> QED
    BY <2>1, <2>2, <2>3, <2>4, Zenon
<1>2. Typed /\ Places /\ Ordered /\ Scoped(a) /\ IsScope(a)
  BY TaskPlace DEF WInv, Placed, Launching
<1>3. \A b \in DOMAIN asked : b \in DOMAIN asked' /\ PlaceAt(b)' = PlaceAt(b)
  BY <1>1, PlacesStay
<1>4. a \in Address
  BY <1>2 DEF Typed, MapOf
<1>5. \A i \in 1 .. n : /\ i \in Position /\ k + i \in Position /\ Parent(Append(a, k + i)) = a
                        /\ Append(a, k + i)[Len(Append(a, k + i))] = k + i
  <2> SUFFICES ASSUME NEW i \in 1 .. n
               PROVE  /\ i \in Position /\ k + i \in Position /\ Parent(Append(a, k + i)) = a
                      /\ Append(a, k + i)[Len(Append(a, k + i))] = k + i
    OBVIOUS
  <2>1. i \in Position /\ k + i \in Position
    BY <1>1, Slotting
  <2> QED
    BY <1>4, <2>1, AppendParent
<1> HIDE DEF n
<1> SUFFICES ASSUME NEW b \in DOMAIN asked', NEW d \in DOMAIN asked',
                    Certain(Parent(b))', Parent(d) = Parent(b), b[Len(b)] < d[Len(d)]
             PROVE  Earlier(PlaceAt(b), PlaceAt(d))'
  BY DEF Ordered
<1>6. Certain(Parent(b))
  BY <1>1, PlacesStay
<1>7. CASE b \in DOMAIN asked /\ d \in DOMAIN asked
  <2>1. Earlier(PlaceAt(b), PlaceAt(d))
    BY <1>2, <1>6, <1>7 DEF Ordered
  <2> QED
    BY <1>3, <1>7, <2>1 DEF Earlier
<1>8. CASE b \notin DOMAIN asked
  <2>1. PICK i \in 1 .. n : b = Append(a, k + i)
    BY <1>1, <1>8
  <2>2. Parent(b) = a /\ b[Len(b)] = k + i /\ k + i \in Position /\ i \in Position
    BY <1>5, <2>1
  <2>3. CASE d \in DOMAIN asked
    <3>1. d[Len(d)] \in Position /\ Append(a, d[Len(d)]) = d
      BY <1>2, <2>2, <2>3, PlaceIs
    <3>2. k < d[Len(d)]
      <4> PICK m : m = d[Len(d)]
        OBVIOUS
      <4>1. k + i < m /\ m \in Position
        BY <2>2, <3>1
      <4>2. k \in Nat
        BY <1>1
      <4>3. k < m
        BY <2>2, <4>1, <4>2, Apart
      <4> QED
        BY <4>3
    <3> QED
      BY <1>1, <1>8, <2>1, <2>3, <3>1, <3>2
  <2>4. CASE d \notin DOMAIN asked
    <3>1. PICK j \in 1 .. n : d = Append(a, k + j)
      BY <1>1, <2>4
    <3>2. n = 1
      <4>1. CASE phase = "await"
        BY <1>1, <1>2, <1>6, <2>2, <4>1, CertainIs DEF Launchable, n
      <4>2. CASE phase # "await"
        BY <1>1, <4>2 DEF Launchable, n
      <4> QED
        BY <4>1, <4>2
    <3>3. i = 1 /\ j = 1
      BY <3>2
    <3>4. b[Len(b)] = k + 1 /\ d[Len(d)] = k + 1
      BY <2>1, <3>1, <3>3, <1>5
    <3>5. ~(k + 1 < k + 1)
      BY <1>1, Apart DEF Position
    <3> QED
      BY <3>4, <3>5
  <2> QED
    BY <2>3, <2>4
<1>9. CASE b \in DOMAIN asked /\ d \notin DOMAIN asked
  <2>1. PICK i \in 1 .. n : d = Append(a, k + i)
    BY <1>1, <1>9
  <2>2. Parent(b) = a /\ d[Len(d)] = k + i /\ k + i \in Position /\ i \in Position
    BY <1>5, <2>1
  <2> PICK m : m = b[Len(b)]
    OBVIOUS
  <2>3. m \in Position /\ Append(a, m) = b
    BY <1>2, <1>9, <2>2, PlaceIs
  <2>4. ~(k < m)
    BY <1>1, <1>9, <2>1, <2>3
  <2>5. m \in 1 .. k /\ k \in Position
    BY <1>1, <2>2, <2>3, <2>4, Apart
  <2> DEFINE l == Append(a, k)
             p == PlaceFor(phase, t, c, i, operations[i])
  <2>6. l \in DOMAIN asked /\ Earlier(PlaceAt(l), p)
    <3>1. k # 0
      BY <2>5 DEF Position
    <3> QED
      BY <1>1, <1>2, <2>5, <3>1, LastTaken, LastEarlier
  <2>7. Earlier(PlaceAt(b), p)
    <3>1. CASE m = k
      BY <2>3, <2>6, <3>1
    <3>2. CASE m # k
      <4>1. m < k
        BY <2>3, <2>5, <3>2 DEF Position
      <4>2. Parent(l) = a /\ l[Len(l)] = k
        BY <1>4, <2>5, AppendParent
      <4>3. Earlier(PlaceAt(b), PlaceAt(l))
        BY <1>2, <1>6, <1>9, <2>2, <2>6, <4>1, <4>2 DEF Ordered
      <4>4. /\ PlaceAt(b).attempt \in Position /\ PlaceAt(b).pc \in Position
            /\ PlaceAt(l).attempt \in Position /\ PlaceAt(l).pc \in Position
        BY <1>2, <1>9, <2>6, PlaceIs
      <4>5. p.attempt \in Position /\ p.pc \in Position
        BY <1>1 DEF PlaceFor
      <4> HIDE DEF p, l
      <4> QED
        BY <2>6, <4>3, <4>4, <4>5, EarlierOn
    <3> QED
      BY <3>1, <3>2
  <2>8. PlaceAt(b)' = PlaceAt(b) /\ PlaceAt(d)' = p
    BY <1>1, <1>3, <1>9, <2>1
  <2> QED
    BY <2>7, <2>8 DEF Earlier
<1> QED
  BY <1>7, <1>8, <1>9

LEMMA Filled ==
    \A k, n \in Nat : \A i \in 1 .. n : \A m \in 1 .. (k + i) - 1 :
        (k # 0 /\ k \in Position /\ m \in 1 .. k) \/ \E j \in 1 .. n : m = k + j
<1> SUFFICES ASSUME NEW k \in Nat, NEW n \in Nat, NEW i \in 1 .. n, NEW m \in 1 .. (k + i) - 1,
                    ~(m \in 1 .. k)
             PROVE  \E j \in 1 .. n : m = k + j
  BY DEF Position
<1>1. m - k \in 1 .. n /\ m = k + (m - k)
  OBVIOUS
<1> QED
  BY <1>1

LEMMA Beside == \A k, n \in Nat : \A i, j \in 1 .. n : (k + i) - i + j = k + j /\ (k + 1) - 1 = k
  OBVIOUS

LEMMA OpensPlaces ==
    ASSUME WInv, Placed, NEW a \in DOMAIN tasks, NEW operations, NEW phase,
           Launching(a, operations, phase), phase # "refused"
    PROVE  Places'
<1> PICK k, t, c : k = tasks[a].next - 1 /\ t = tasks[a].attempt /\ c = tasks[a].pc
  OBVIOUS
<1> DEFINE n == Len(operations)
<1>1. /\ Launchable(a, k, t, c, phase, operations)
      /\ k \in Nat /\ t \in Position /\ c \in Position /\ c \in 1 .. Len(BodyAt(a))
      /\ n \in Nat
      /\ \A b \in DOMAIN asked' : b \in DOMAIN asked \/ \E i \in 1 .. n : b = Append(a, k + i)
      /\ Grows
      /\ \A i \in 1 .. n : Append(a, k + i) \in DOMAIN asked'
  BY LaunchPlaces
<1>8. ASSUME NEW i \in 1 .. n
      PROVE  /\ asked'[Append(a, k + i)] = {PlaceFor(phase, t, c, i, operations[i])}
             /\ PlaceAt(Append(a, k + i))' = PlaceFor(phase, t, c, i, operations[i])
  <2>1. PlaceAt(Append(a, k + i))' = PlaceFor(phase, t, c, i, operations[i])
    BY LaunchPlaces
  <2>2. OnePlace(Append(a, k + i))'
    BY LaunchPlaces
  <2>3. asked'[Append(a, k + i)] = {PlaceAt(Append(a, k + i))'}
    BY <2>2 DEF OnePlace
  <2> QED
    BY <2>1, <2>3
<1>9. \A i \in 1 .. n : \A m \in 1 .. (k + i) - 1 :
         (k # 0 /\ k \in Position /\ m \in 1 .. k) \/ \E j \in 1 .. n : m = k + j
  BY <1>1, Filled, Zenon
<1>2. Typed /\ Places /\ Ordered /\ Scoped(a) /\ IsScope(a) /\ Recording
  BY TaskPlace DEF WInv, Placed, Launching, Recording
<1>3. \A b \in DOMAIN asked : b \in DOMAIN asked' /\ PlaceAt(b)' = PlaceAt(b)
  BY <1>1, PlacesStay
<1>4. a \in Address
  BY <1>2 DEF Typed, MapOf
<1>5. BodyAt(a)' = BodyAt(a)
      /\ (Led(a, k, t, c) => Led(a, k, t, c)') /\ (Failed(a, k, t, c) => Failed(a, k, t, c)')
  BY <1>1, <1>2, PlacesStay, LedStays
<1> HIDE DEF n
<1> SUFFICES ASSUME NEW b \in DOMAIN asked'
             PROVE  /\ b # Root /\ asked'[b] = {PlaceAt(b)'}
                    /\ Parent(b) # Root => /\ Parent(b) \in DOMAIN asked'
                                           /\ (PlaceAt(Parent(b)).operation.op)' = "child"
                    /\ PlaceFits(b)'
  BY DEF Places
<1>6. CASE b \in DOMAIN asked
  <2>1. PlaceFits(b)' /\ b # Root /\ asked'[b] = {PlaceAt(b)'}
    BY <1>1, <1>2, <1>6, PlaceStays
  <2>2. ASSUME Parent(b) # Root
        PROVE  Parent(b) \in DOMAIN asked' /\ (PlaceAt(Parent(b)).operation.op)' = "child"
    <3>1. Parent(b) \in DOMAIN asked /\ PlaceAt(Parent(b)).operation.op = "child"
      BY <1>2, <1>6, <2>2 DEF Places
    <3> QED
      BY <1>3, <3>1
  <2> QED
    BY <2>1, <2>2
<1>7. CASE b \notin DOMAIN asked
  <2> PICK i \in 1 .. n : b = Append(a, k + i)
    BY <1>1, <1>7
  <2>1. /\ i \in Position /\ k + i \in Position
    BY <1>1, Slotting
  <2>2. Parent(b) = a /\ b[Len(b)] = k + i /\ b # Root
    BY <1>4, <2>1, AppendParent
  <2> DEFINE p == PlaceFor(phase, t, c, i, operations[i])
  <2>3. asked'[b] = {p} /\ PlaceAt(b)' = p
    BY <1>8
  <2>4. Parent(b) # Root => /\ Parent(b) \in DOMAIN asked'
                            /\ (PlaceAt(Parent(b)).operation.op)' = "child"
    BY <1>2, <1>3, <2>2 DEF Scoped
  <2>5. /\ p.phase = phase /\ p.attempt = t /\ p.pc = c /\ p.part = i
        /\ p.operation = operations[i]
    BY DEF PlaceFor
  <2>6. ASSUME NEW m \in 1 .. (k + i) - 1 PROVE Append(a, m) \in DOMAIN asked'
    <3>1. CASE k # 0 /\ k \in Position /\ m \in 1 .. k
      BY <1>1, <1>2, <1>3, <1>4, <3>1, LastTaken, Below
    <3>2. CASE \E j \in 1 .. n : m = k + j
      BY <1>1, <3>2
    <3>3. (k # 0 /\ k \in Position /\ m \in 1 .. k) \/ \E j \in 1 .. n : m = k + j
      BY <1>9
    <3> QED
      BY <3>1, <3>2, <3>3
  <2>7. CASE phase = "await"
    <3>1. Led(a, k, t, c) /\ operations = Operations(BodyAt(a)[c]) /\ BodyAt(a)[c].op \notin Plain
      BY <1>1, <2>7 DEF Launchable
    <3>2. Led(a, k, t, c)' /\ (BodyAt(a)[c])' = BodyAt(a)[c]
      BY <1>5, <3>1
    <3>3. (Operations(BodyAt(a)[c]))' = operations
      BY <3>1, <3>2 DEF Operations
    <3>4. \A j \in 1 .. n : (k + i) - i + j = k + j /\ (k + 1) - 1 = k
      BY <1>1, Beside
    <3>5. \A j \in 1 .. n :
             LET e == Append(a, (k + i) - i + j)
             IN /\ e \in DOMAIN asked'
                /\ PlaceAt(e)' = [phase |-> "await", attempt |-> t, pc |-> c, part |-> j,
                                  operation |-> operations[j]]
      BY <1>1, <1>8, <2>7, <3>4 DEF PlaceFor
    <3>6. i = 1 => Led(a, (k + i) - 1, t, c)'
      BY <3>2, <3>4
    <3>7. c \in 1 .. Len(BodyAt(a)') /\ (BodyAt(a)[c].op)' \notin Plain
      BY <1>1, <1>5, <3>1
    <3> HIDE DEF p
    <3>8. PlaceFits(b)'
      BY <2>2, <2>3, <2>5, <2>6, <2>7, <3>3, <3>5, <3>6, <3>7 DEF PlaceFits, n
    <3> QED
      BY <2>2, <2>3, <2>4, <3>8
  <2>8. CASE phase # "await"
    <3>1. phase = "backing_off" /\ operations = <<Wait>> /\ Failed(a, k, t, c)
      BY <1>1, <2>8 DEF Launchable
    <3>2. n = 1
      BY <3>1 DEF n
    <3>3. i = 1 /\ operations[i] = Wait
      BY <3>1, <3>2
    <3>4. (k + i) - 1 = k
      BY <1>1, <3>3, Beside
    <3>5. Failed(a, (k + i) - 1, t, c)'
      BY <1>5, <3>1, <3>4
    <3>6. c \in 1 .. Len(BodyAt(a)')
      BY <1>1, <1>5
    <3> HIDE DEF p
    <3>7. PlaceFits(b)'
      BY <2>2, <2>3, <2>5, <2>6, <3>1, <3>3, <3>5, <3>6 DEF PlaceFits
    <3> QED
      BY <2>2, <2>3, <2>4, <3>7
  <2> QED
    BY <2>7, <2>8
<1> QED
  BY <1>6, <1>7

LEMMA OpensStands ==
    ASSUME WInv, Placed, NEW a \in DOMAIN tasks, NEW operations, NEW phase,
           Launching(a, operations, phase), phase # "refused", NEW s \in DOMAIN tasks', IsScope(s)'
    PROVE  Stands(s)'
<1> PICK k, t, c : k = tasks[a].next - 1 /\ t = tasks[a].attempt /\ c = tasks[a].pc
  OBVIOUS
<1> DEFINE n == Len(operations)
<1>1. /\ Launchable(a, k, t, c, phase, operations)
      /\ k \in Nat /\ t \in Position /\ c \in Position /\ c \in 1 .. Len(BodyAt(a))
      /\ n \in Nat /\ \A i \in 1 .. n : tasks[a].next + i - 1 = k + i
      /\ \A i \in 1 .. n :
            /\ Append(a, k + i) \in DOMAIN asked'
            /\ PlaceAt(Append(a, k + i))' = PlaceFor(phase, t, c, i, operations[i])
      /\ Grows
  BY LaunchPlaces
<1>2. Typed /\ Places /\ Ordered /\ Scoped(a) /\ IsScope(a) /\ Recording
      /\ Statement(a) = BodyAt(a)[c]
  BY TaskPlace DEF WInv, Placed, Launching, Recording
<1>3. LaunchedTasks(a, operations, phase)
  BY LaunchTasks DEF Launching
<1> HIDE DEF n
<1>4. CASE s = a
  <2>1. /\ tasks'[a].stmt = tasks[a].stmt /\ tasks'[a].phase = phase
        /\ tasks'[a].attempt = t /\ tasks'[a].pc = c /\ tasks'[a].next = tasks[a].next + n
    BY <1>3 DEF LaunchedTasks, Advance, n
  <2>2. tasks'[a].next - 1 = k + n
    <3>1. tasks[a].next \in Position
      BY ScopeFields
    <3>2. \A x \in Position, m \in Nat : x + m - 1 = (x - 1) + m
      BY DEF Position
    <3>3. n \in Nat
      BY <1>1
    <3> PICK x, y : x = tasks[a].next /\ y = tasks'[a].next
      OBVIOUS
    <3>4. x \in Position /\ y = x + n /\ k = x - 1
      BY <2>1, <3>1
    <3>5. y - 1 = k + n
      BY ONLY <3>2, <3>3, <3>4
    <3> QED
      BY <3>5
  <2>3. Statement(a)' = Statement(a) /\ (Operations(Statement(a)))' = Operations(Statement(a))
    BY <2>1 DEF Statement, Operations
  <2>4. CASE phase = "await"
    <3>1. Led(a, k, t, c) /\ operations = Operations(Statement(a))
      BY <1>1, <1>2, <2>4 DEF Launchable
    <3>2. CASE operations = <<>>
      <4>1. n = 0 /\ k + n = k
        BY <1>1, <3>2 DEF n
      <4>2. Led(a, k, t, c)'
        BY <1>1, <1>2, <3>1, LedStays
      <4> QED
        BY <1>4, <2>1, <2>2, <2>3, <2>4, <3>1, <3>2, <4>1, <4>2 DEF Stands
    <3>3. CASE operations # <<>>
      <4>1. n \in 1 .. n
        <5>1. operations \in Seq(OperationsOver(Bodies[program]))
          BY DEF Launching
        <5>2. n # 0
          BY <3>3, <5>1, EmptySeq DEF n
        <5> QED
          BY <1>1, <5>2
      <4>2. k + n \in Position
        BY <1>1, <4>1, Slotting
      <4>3. /\ Append(a, k + n) \in DOMAIN asked'
            /\ PlaceAt(Append(a, k + n))' = PlaceFor(phase, t, c, n, operations[n])
        BY <1>1, <4>1
      <4>4. /\ PlaceAt(Append(a, k + n))'.phase = "await"
            /\ PlaceAt(Append(a, k + n))'.attempt = t
            /\ PlaceAt(Append(a, k + n))'.pc = c /\ PlaceAt(Append(a, k + n))'.part = n
        BY <2>4, <4>3 DEF PlaceFor
      <4>5. n = Len(Operations(Statement(a)))
        BY <3>1 DEF n
      <4> QED
        BY <1>4, <2>1, <2>2, <2>3, <2>4, <3>1, <3>3, <4>2, <4>3, <4>4, <4>5 DEF Stands
    <3> QED
      BY <3>2, <3>3
  <2>5. CASE phase # "await"
    <3>1. phase = "backing_off" /\ operations = <<Wait>> /\ Certain(a)
      BY <1>1, <2>5 DEF Launchable, Failed
    <3>2. n = 1 /\ 1 \in 1 .. n
      BY <3>1 DEF n
    <3>3. k + 1 \in Position
      BY <1>1, <3>2, Slotting
    <3>4. /\ Append(a, k + 1) \in DOMAIN asked'
          /\ PlaceAt(Append(a, k + 1))' = PlaceFor(phase, t, c, 1, operations[1])
      BY <1>1, <3>2
    <3>5. /\ PlaceAt(Append(a, k + 1))'.phase = "backing_off"
          /\ PlaceAt(Append(a, k + 1))'.attempt = t /\ PlaceAt(Append(a, k + 1))'.pc = c
      BY <3>1, <3>4 DEF PlaceFor
    <3>6. Certain(a)'
      BY <1>1, <3>1, PlacesStay
    <3> QED
      BY <1>4, <2>1, <2>2, <3>1, <3>2, <3>3, <3>4, <3>5, <3>6 DEF Stands
  <2> QED
    BY <2>4, <2>5
<1>5. CASE s # a /\ s \in DOMAIN tasks
  <2>1. tasks'[s] = tasks[s]
    BY <1>3, <1>5 DEF LaunchedTasks
  <2>2. IsScope(s)
    BY <2>1 DEF IsScope, Kind
  <2> QED
    BY <1>1, <1>5, <2>1, <2>2, StandsStays
<1>6. CASE s \notin DOMAIN tasks
  <2>1. s \in Reserved(a, n)
    BY <1>3, <1>6 DEF LaunchedTasks, n
  <2>2. tasks'[s].phase = "begin" /\ tasks'[s].attempt = 1
    BY <2>1, LaunchedNew DEF n
  <2> QED
    BY <2>2 DEF Stands
<1> QED
  BY <1>4, <1>5, <1>6

\* No operation meets the record of another, and none is refused.
LEMMA OpensUnrefused ==
    ASSUME WInv, Placed, NEW a \in DOMAIN tasks, Opens(a)
    PROVE  \E operations, phase : Launching(a, operations, phase) /\ phase # "refused"
<1>1. PICK operations, phase : Launching(a, operations, phase)
  BY OpensLaunch
<1>2. phase # "refused"
  <2> SUFFICES ASSUME phase = "refused" PROVE FALSE
    OBVIOUS
  <2>1. /\ IsScope(a) /\ Statement(a).op \notin Plain /\ Changed(a, Operations(Statement(a)))
        /\ Ready(a)
    BY <1>1 DEF Launching, Ready, Running, Body
  <2> QED
    BY <2>1, NoChange
<1> QED
  BY <1>1, <1>2

LEMMA OpensPlaced ==
    ASSUME WInv, Placed, NEW a \in DOMAIN tasks, Opens(a)
    PROVE  Placed'
<1>1. PICK operations, phase : Launching(a, operations, phase) /\ phase # "refused"
  BY OpensUnrefused
<1>2. Places' /\ Ordered' /\ \A s \in DOMAIN tasks' : IsScope(s)' => Stands(s)'
  BY <1>1, OpensPlaces, OpensOrdered, OpensStands
<1>3. UNCHANGED <<program, records>> /\ Grows
  BY <1>1, LaunchPlaces DEF Launching
<1>4. \A b \in DOMAIN records' : b \in DOMAIN asked' /\ records'[b].op = (PlaceAt(b).operation.op)'
  <2>1. \A b \in DOMAIN asked : b \in DOMAIN asked' /\ PlaceAt(b)' = PlaceAt(b)
    BY <1>3, PlacesStay
  <2> QED
    BY <1>3, <2>1 DEF Placed
<1> QED
  BY <1>2, <1>4 DEF Placed

LEMMA WayPlaced ==
    ASSUME WInv, DInv, Straight \/ Steady, NEW a \in DOMAIN tasks, Way(a)
    PROVE  Placed'
<1>1. Placed
  BY PlacedIs
<1>2. CASE Exits \/ Finally(a)
  <2>1. tasks' = <<>> /\ UNCHANGED <<program, records, asked>>
    BY <1>2 DEF Exits, Finally, Lost, HandlerEnds, serviceVars
  <2> QED
    BY <1>1, <2>1, GonePlaced
<1> QED
  BY <1>1, <1>2, CommitsPlaced, StillPlaced, StartsPlaced, MovesPlaced, RetiresPlaced,
     RepeatsPlaced, OpensPlaced DEF Way

LEMMA NextPlaced ==
    ASSUME WInv, DInv, Straight \/ Steady, [Next]_vars
    PROVE  Placed'
<1>1. Placed
  BY PlacedIs
<1>2. CASE UNCHANGED vars \/ Over
  <2>1. UNCHANGED <<program, records, asked, tasks>>
    BY <1>2 DEF vars, Over, serviceVars, invocationVars
  <2>2. Grows /\ Matching
    BY <1>1, <2>1, UnmovedMatch
  <2>3. ASSUME NEW s \in DOMAIN tasks', IsScope(s)' PROVE Stands(s)'
    <3>1. s \in DOMAIN tasks /\ IsScope(s) /\ tasks'[s] = tasks[s]
      BY <2>1, <2>3 DEF IsScope, Kind
    <3> QED
      BY <1>1, <2>2, <3>1, StandsStays
  <2> QED
    BY <1>1, <2>1, <2>2, <2>3, PlacedStays DEF Matching
<1>3. CASE Crash
  <2>1. tasks' = <<>> /\ UNCHANGED <<program, records, asked>>
    BY <1>3 DEF Crash, Lost, serviceVars
  <2> QED
    BY <1>1, <2>1, GonePlaced
<1>4. CASE Work
  BY <1>4, Ways, WayPlaced DEF Work
<1> QED
  BY <1>1, <1>2, <1>3, <1>4, InvokePlaced, WorldPlaced DEF Next

LEMMA InitPlaced ==
    ASSUME Init
    PROVE  Placed
<1>1. DOMAIN asked = {} /\ DOMAIN records = {} /\ DOMAIN tasks = {}
  BY EmptyMap DEF Init
<1> QED
  BY <1>1 DEF Placed, Places, Ordered

----------------------------------------------------------------------------
(* What settles: the records of the operations below the handler            *)

LEMMA SettlesIs ==
    ASSUME WInv, DInv, Steady, NEW a \in DOMAIN tasks
    PROVE  /\ Settling /\ Placed /\ Places /\ Typed /\ Ordered /\ Recording
           /\ IsScope(a) => Persisted(a) = a
           /\ a # Root => /\ Settles(tasks[a].stmt) /\ Persisted(Parent(a)) = Parent(a)
                          /\ a \in DOMAIN asked /\ PlaceAt(a).operation = tasks[a].stmt
                          /\ Parent(a) \in DOMAIN tasks /\ IsScope(Parent(a))
                          /\ IsScope(a) => ~tasks[a].stmt.virtual /\ Certain(a)
                          /\ a \in Address /\ Parent(a) \in Address /\ Parent(a) # a
<1>1. Settling /\ Placed /\ Places /\ Typed /\ Ordered /\ Recording
  BY PlacedIs
<1>2. ASSUME NEW b \in DOMAIN tasks, b # Root
      PROVE  /\ Settles(tasks[b].stmt) /\ b \in DOMAIN asked /\ PlaceAt(b).operation = tasks[b].stmt
             /\ Parent(b) \in DOMAIN tasks /\ IsScope(Parent(b))
             /\ IsScope(b) => ~tasks[b].stmt.virtual
  <2>1. /\ b \in DOMAIN asked /\ PlaceAt(b).operation = tasks[b].stmt
        /\ Parent(b) \in DOMAIN tasks /\ IsScope(Parent(b))
    BY <1>1, <1>2, TaskPlace
  <2>2. Settles(tasks[b].stmt)
    BY <1>1, <2>1, OperationAt
  <2>3. IsScope(b) => ~tasks[b].stmt.virtual
    BY <2>2 DEF Settles, IsScope, Kind
  <2> QED
    BY <2>1, <2>2, <2>3
<1>3. ASSUME NEW b \in DOMAIN tasks, IsScope(b) PROVE Persisted(b) = b
  BY <1>2, <1>3 DEF Persisted
<1>4. a # Root => a \in Address /\ Parent(a) \in Address /\ Parent(a) # a
  BY <1>1, ParentAppend DEF Typed, MapOf
<1> QED
  BY <1>1, <1>2, <1>3, <1>4 DEF Certain

\* What a scope awaits is done when it hears of it, so that nothing below it is under way
\* when its body goes on or ends.
LEMMA ChildrenDone ==
    ASSUME WInv, DInv, Steady, NEW a \in DOMAIN tasks, a # Root, invocation = "running",
           tasks[a].phase \in {"await", "backing_off"} => Awaited(a) # "none"
    PROVE  \A b \in Children(a) : tasks[b].phase = "done"
<1>1. Awaiting(a)
  BY SettlesIs DEF Settling, Working
<1>2. CASE tasks[a].phase \notin {"await", "backing_off"}
  BY <1>1, <1>2 DEF Awaiting
<1>3. CASE tasks[a].phase \in {"await", "backing_off"}
  <2> DEFINE b == Append(a, tasks[a].next - 1)
  <2>1. IsScope(a) /\ Certain(a)
    BY <1>3, SettlesIs DEF WInv, Formed, Shape
  <2>2. tasks[a].awaits = {b} /\ b \in DOMAIN tasks
    BY <1>3, <2>1, AwaitsOne
  <2> HIDE DEF b
  <2>3. tasks[b].phase = "done"
    <3>1. CASE Awaited(a) = "ok"
      BY <2>2, <3>1, AwaitedIs
    <3>2. CASE Awaited(a) # "ok"
      BY <1>3, <2>2, <3>2, AwaitedIs
    <3> QED
      BY <3>1, <3>2
  <2> QED
    BY <1>1, <2>2, <2>3 DEF Awaiting
<1> QED
  BY <1>2, <1>3

LEMMA ComesDone ==
    ASSUME WInv, DInv, Steady, NEW a \in DOMAIN tasks, a # Root, NEW o,
           Comes(a, o) \/ Fails(a, o) \/ GoodFor(a, o)
    PROVE  \A b \in Children(a) : tasks[b].phase = "done"
  BY ComesIs, ChildrenDone DEF Comes, Fails, GoodFor, Running, Ready, Outcomes, Errors,
     Retryable, InvocationErrors, ExecutionErrors, Others

\* No update is refused.
LEMMA NoRejects ==
    ASSUME WInv, DInv, Steady, NEW a \in DOMAIN tasks
    PROVE  ~Rejects(a)
<1> SUFFICES ASSUME Rejects(a) PROVE FALSE
  OBVIOUS
<1>1. Due(a) /\ a # Root /\ tasks[a].phase # "done" /\ invocation = "running"
  BY DEF Rejects, Ending
<1>2. /\ Settling /\ Persisted(Parent(a)) = Parent(a) /\ Parent(a) \in DOMAIN tasks
      /\ IsScope(Parent(a))
  BY <1>1, SettlesIs
<1>3. journal = "open"
  BY <1>2 DEF Settling, InStep
<1>4. CASE Parent(a) # Root /\ In(records, Parent(a)).status # "STARTED"
  <2>1. a \in Children(Parent(a))
    BY <1>1 DEF Children
  <2>2. tasks[Parent(a)].phase \in {"await", "backing_off"}
    BY <1>1, <1>2, <1>4, <2>1 DEF Settling, Working, Awaiting
  <2>3. Parent(a) \in DOMAIN records /\ records[Parent(a)].status = "STARTED"
    BY <1>2, <1>4, <2>2 DEF Settling, Working, Beginning
  <2> QED
    BY <1>4, <2>3 DEF In
<1>5. CASE In(records, a).status \notin Expected(a)
  <2>1. CASE tasks[a].phase # "begin"
    <3>1. a \in DOMAIN records /\ records[a].status = "STARTED"
      BY <1>1, <1>2, <2>1 DEF Settling, Working, Beginning
    <3> QED
      BY <1>5, <2>1, <3>1 DEF Expected, In
  <2>2. CASE tasks[a].phase = "begin" /\ Seen(a).status = "none"
    <3>1. a \notin DOMAIN view /\ a \notin DOMAIN records
      BY <1>1, <2>2, SeenIs DEF WInv
    <3> QED
      BY <1>5, <2>2, <3>1 DEF Expected, In, Absent
  <2>3. CASE tasks[a].phase = "begin" /\ Seen(a).status # "none"
    <3>1. a \in DOMAIN view /\ a \in DOMAIN records /\ Seen(a) = view[a] /\ view[a].op = Kind(a)
      BY <1>1, <2>3, SeenIs DEF WInv
    <3>2. view[a].status = "READY" \/ (view[a].status = "STARTED" /\ IsStep(a))
      BY <1>1, <2>3, <3>1 DEF Due
    <3>3. records[a] = view[a]
      BY <1>1, <1>2, <3>1, <3>2 DEF Settling, InStep, Open, IsStep
    <3> QED
      BY <1>5, <2>3, <3>1, <3>2, <3>3 DEF Expected, In
  <2> QED
    BY <2>1, <2>2, <2>3
<1> QED
  BY <1>2, <1>3, <1>4, <1>5 DEF Rejects

\* The wait before another attempt does not fail.
LEMMA WaitsSucceed ==
    ASSUME WInv, DInv, NEW a \in DOMAIN tasks, Certain(a), IsScope(a), invocation = "running",
           tasks[a].phase = "backing_off"
    PROVE  Awaited(a) \in {"none", "ok", "pause"}
<1> SUFFICES ASSUME Awaited(a) \notin {"none", "ok", "pause"} PROVE FALSE
  OBVIOUS
<1> DEFINE b == Append(a, tasks[a].next - 1)
<1>1. b \in DOMAIN asked /\ PlaceAt(b).phase = "backing_off" /\ Agreed(b, Awaited(a))
  BY AwaitedOne
<1> HIDE DEF b
<1>2. Typed /\ Places /\ Recording
  BY PlacedIs DEF Certain
<1>3. PlaceAt(b).operation = Wait
  <2>1. PlaceFits(b)
    BY <1>1, <1>2, PlaceIs
  <2> QED
    BY <1>1, <2>1 DEF PlaceFits
<1>4. b \in DOMAIN records /\ Final(records[b].status) /\ Awaited(a) = EndOf(records[b])
  BY <1>1, <1>3 DEF Agreed, Wait
<1>5. records[b].op = "wait" /\ RecordFits(records[b])
  BY <1>2, <1>3, <1>4 DEF Recording, Wait, WInv, KindsFit
<1> QED
  BY <1>4, <1>5 DEF RecordFits, Final, EndOf

\* What a body below the handler comes to does not ask for another invocation.
LEMMA NotRetryable ==
    ASSUME WInv, DInv, NEW a \in DOMAIN tasks, Certain(a), NEW o, Comes(a, o)
    PROVE  o \notin Retryable
<1>1. o \in Outcomes /\ invocation = "running" /\ IsScope(a)
  BY ComesIs
<1>2. /\ Typed /\ Places /\ Settling /\ Scoped(a) /\ BodyAt(a) = Body(a)
      /\ Statement(a) = BodyAt(a)[tasks[a].pc]
  BY <1>1, PlacedIs, TaskPlace DEF Certain
<1>3. "state" \notin Retryable /\ "ok" \notin Retryable /\ "pause" \notin Retryable
  BY DEF Retryable
<1>4. ASSUME Ready(a), Statement(a).op \in {"result", "raise"}, o = ReadOf(a), o # "pause"
      PROVE  o \notin Retryable
  <2>1. Came(a, tasks[a].attempt, tasks[a].pc, o)
    BY <1>4, PlainCame
  <2>2. CASE Statement(a).op = "raise"
    <3>1. tasks[a].pc \in DOMAIN BodyAt(a)
      BY <1>1, <1>2, <1>4, StatementIs DEF Ready, Body
    <3>2. Statement(a).error \notin Retryable
      BY <1>2, <2>2, <3>1, CertainIs DEF Sequential
    <3> QED
      BY <1>4, <2>2, <3>2 DEF ReadOf
  <2>3. CASE Statement(a).op = "result"
    <3>1. PICK b \in DOMAIN asked : /\ b \in DOMAIN records /\ Final(records[b].status)
                                    /\ o = EndOf(records[b])
      BY <1>2, <2>1, <2>3 DEF Came
    <3>2. RecordFits(records[b])
      BY <3>1 DEF WInv, KindsFit
    <3> QED
      BY <3>1, <3>2 DEF RecordFits, EndOf, Final, Recorded, Retryable, ExecutionErrors
  <2> QED
    BY <1>4, <2>2, <2>3
<1>5. ASSUME tasks[a].phase = "await", o = Awaited(a), o \notin {"none", "pause"}
      PROVE  o \notin Retryable
  <2> PICK k : k = tasks[a].next - 1
    OBVIOUS
  <2>1. /\ k \in Position /\ Append(a, k) \in DOMAIN asked
        /\ PlaceAt(Append(a, k)).phase = "await" /\ Agreed(Append(a, k), o)
    BY <1>1, <1>5, AwaitedOne
  <2> QED
    BY <1>1, <1>2, <2>1, AgreedVerdict
<1>6. ASSUME Fails(a, o), o # "pause" PROVE o \notin Retryable
  BY <1>3, <1>4, <1>5, <1>6 DEF Fails, Running
<1>7. ASSUME tasks[a].phase = "backing_off", o = Awaited(a), o \notin {"none", "ok", "pause"}
      PROVE  FALSE
  BY <1>1, <1>7, WaitsSucceed
<1> QED
  BY <1>3, <1>6, <1>7 DEF Comes, Running

----------------------------------------------------------------------------
(* What the handler is told agrees with the records                        *)

LEMMA AgreedStays ==
    ASSUME WInv, Placed, Grows, NEW a, NEW o, Agreed(a, o)
    PROVE  Agreed(a, o)'
<1>1. Recording /\ a \in DOMAIN asked /\ a \in DOMAIN records
  BY DEF Placed, Recording, Agreed
<1>2. PlaceAt(a)' = PlaceAt(a) /\ a \in DOMAIN asked' /\ a \in DOMAIN records'
  BY <1>1, PlacesStay DEF Grows
<1>3. Final(records[a].status) => /\ Final(records'[a].status)
                                  /\ EndOf(records'[a]) = EndOf(records[a])
  BY <1>1, VerdictsStay
<1> DEFINE operation == PlaceAt(a).operation
<1>4. /\ operation.op = "callback" => o = "ok"
      /\ operation.op # "callback" =>
            /\ Final(records[a].status)
            /\ \/ o = EndOf(records[a])
               \/ /\ operation.op = "condition" /\ o \in Errors \ Retryable
                  /\ EndOf(records[a]) = Recorded(o)
               \/ /\ operation.op = "step" /\ operation.once /\ o = "interrupted"
                  /\ EndOf(records[a]) = "callable"
  BY DEF Agreed
<1>5. operation' = operation
  BY <1>2
<1> HIDE DEF operation
<1>6. /\ operation'.op = "callback" => o = "ok"
      /\ operation'.op # "callback" =>
            /\ Final(records'[a].status)
            /\ \/ o = EndOf(records'[a])
               \/ /\ operation'.op = "condition" /\ o \in Errors \ Retryable
                  /\ EndOf(records'[a]) = Recorded(o)
               \/ /\ operation'.op = "step" /\ operation'.once /\ o = "interrupted"
                  /\ EndOf(records'[a]) = "callable"
  BY <1>3, <1>4, <1>5
<1> QED
  BY <1>2, <1>6 DEF Agreed, operation

LEMMA AgreeingStays ==
    ASSUME WInv, Placed, Agreeing, Grows,
           \A a \in DOMAIN told' : \A o \in told'[a] \ {"pause"} :
               (a \in DOMAIN told /\ o \in told[a]) \/ Agreed(a, o)',
           \A a \in DOMAIN tasks' : tasks'[a].out # "none" =>
               a \in DOMAIN told' /\ tasks'[a].out \in told'[a]
    PROVE  Agreeing'
<1>1. ASSUME NEW a \in DOMAIN told', NEW o \in told'[a] \ {"pause"} PROVE Agreed(a, o)'
  <2>1. CASE Agreed(a, o)'
    BY <2>1
  <2>2. CASE a \in DOMAIN told /\ o \in told[a]
    <3>1. Agreed(a, o)
      BY <1>1, <2>2 DEF Agreeing
    <3> QED
      BY <3>1, AgreedStays
  <2> QED
    BY <1>1, <2>1, <2>2
<1> QED
  BY <1>1 DEF Agreeing

LEMMA TellIs ==
    ASSUME NEW a, NEW out, Tell(a, out)
    PROVE  /\ DOMAIN told' = DOMAIN told \cup {a} /\ out \in told'[a]
           /\ told'[a] = {out} \cup (IF a \in DOMAIN told THEN told[a] ELSE {})
           /\ \A b \in DOMAIN told \ {a} : told'[b] = told[b]
<1> DEFINE more == {out} \cup (IF a \in DOMAIN told THEN told[a] ELSE {})
<1>1. told' = With(told, Only(a, more)) /\ out \in more
  BY DEF Tell
<1> HIDE DEF more
<1> DEFINE now == With(told, Only(a, more))
<1>2. /\ DOMAIN now = DOMAIN told \cup {a} /\ now[a] = more
      /\ \A b \in DOMAIN told \ {a} : now[b] = told[b]
  BY DEF With, Only
<1>3. told' = now
  BY <1>1
<1> HIDE DEF now
<1> QED
  BY <1>1, <1>2, <1>3 DEF more

LEMMA EndingAgrees ==
    ASSUME WInv, Placed, Agreeing, Grows, NEW a \in DOMAIN tasks, NEW out \in Outcomes,
           Ending(a, out), out # "pause" => Agreed(a, out)'
    PROVE  Agreeing'
<1>1. Tell(a, out) /\ Finishes(a, out) /\ a # Root
  BY DEF Ending
<1>2. /\ DOMAIN told' = DOMAIN told \cup {a} /\ out \in told'[a]
      /\ told'[a] = {out} \cup (IF a \in DOMAIN told THEN told[a] ELSE {})
      /\ \A b \in DOMAIN told \ {a} : told'[b] = told[b]
  BY <1>1, TellIs
<1>3. /\ DOMAIN tasks' = DOMAIN tasks /\ tasks'[a].out = out
      /\ \A b \in DOMAIN tasks \ {a} : tasks'[b].out = tasks[b].out
  BY <1>1, FinishesFields DEF WInv
<1>4. ASSUME NEW b \in DOMAIN told', NEW o \in told'[b] \ {"pause"}
      PROVE  (b \in DOMAIN told /\ o \in told[b]) \/ Agreed(b, o)'
  <2>1. CASE b = a /\ o = out
    BY <1>4, <2>1
  <2>2. CASE ~(b = a /\ o = out)
    BY <1>2, <1>4, <2>2
  <2> QED
    BY <2>1, <2>2
<1>5. ASSUME NEW b \in DOMAIN tasks', tasks'[b].out # "none"
      PROVE  b \in DOMAIN told' /\ tasks'[b].out \in told'[b]
  <2>1. CASE b = a
    BY <1>2, <1>3, <2>1
  <2>2. CASE b # a
    <3>1. b \in DOMAIN told /\ tasks[b].out \in told[b]
      BY <1>3, <1>5, <2>2 DEF Agreeing
    <3> QED
      BY <1>2, <1>3, <2>2, <3>1
  <2> QED
    BY <2>1, <2>2
<1> QED
  BY <1>4, <1>5, AgreeingStays

LEMMA CommitsAgree ==
    ASSUME WInv, Placed, Agreeing, NEW a \in DOMAIN tasks, Commits(a)
    PROVE  Agreeing'
<1>1. PICK r \in RecordSet, out \in Outcomes : Writes(a, r) /\ Agrees(a, r, out) /\ Ending(a, out)
  BY DEF Commits
<1>2. Grows /\ a \in DOMAIN records' /\ records'[a] = r /\ r.op = Kind(a) /\ a # Root
  BY <1>1, WritesGrow, WritesRecords DEF Writes
<1>3. /\ a \in DOMAIN asked' /\ PlaceAt(a)' = PlaceAt(a) /\ PlaceAt(a).operation = tasks[a].stmt
  BY <1>2, PlacesStay, TaskPlace DEF Placed
<1>4. RecordFits(r) /\ r.status \in Statuses
  BY <1>1 DEF Writes, RecordSet
<1>5. ASSUME out # "pause" PROVE Agreed(a, out)'
  <2> DEFINE operation == tasks[a].stmt
  <2>1. PlaceAt(a)'.operation = operation /\ r.op = operation.op
    BY <1>2, <1>3 DEF Kind
  <2>2. r.op = "callback" => out = "ok"
    BY <1>1, <1>2, <1>4 DEF Agrees, Ending, RecordFits, Final, Statuses, Errors, Recorded,
                            Others, ExecutionErrors, InvocationErrors, Retryable, EndOf
  <2>3. r.op # "callback" => Final(r.status)
    BY <1>1, <1>5 DEF Agrees
  <2>4. Final(r.status) =>
           \/ out = EndOf(r)
           \/ /\ r.op = "condition" /\ out \in Errors \ Retryable /\ EndOf(r) = Recorded(out)
           \/ /\ r.op = "step" /\ operation.once /\ out = "interrupted" /\ EndOf(r) = "callable"
    BY <1>1 DEF Agrees, Final, EndOf, Recorded, ExecutionErrors, Retryable
  <2> HIDE DEF operation
  <2>5. LET p == PlaceAt(a)' IN
        /\ p.operation.op = "callback" => out = "ok"
        /\ p.operation.op # "callback" =>
              /\ Final(records'[a].status)
              /\ \/ out = EndOf(records'[a])
                 \/ /\ p.operation.op = "condition" /\ out \in Errors \ Retryable
                    /\ EndOf(records'[a]) = Recorded(out)
                 \/ /\ p.operation.op = "step" /\ p.operation.once /\ out = "interrupted"
                    /\ EndOf(records'[a]) = "callable"
    BY <1>2, <2>1, <2>2, <2>3, <2>4
  <2> QED
    BY <1>2, <1>3, <2>5 DEF Agreed
<1> QED
  BY <1>1, <1>2, <1>5, EndingAgrees

LEMMA DeliversAgree ==
    ASSUME WInv, DInv, Steady, NEW a \in DOMAIN tasks, Delivers(a)
    PROVE  Agreeing'
<1>1. PICK out \in Outcomes : Gives(a, out) /\ Ending(a, out)
  BY DEF Delivers
<1>2. UNCHANGED <<program, records, asked>> /\ a # Root /\ invocation = "running"
  BY <1>1 DEF Delivers, Ending, serviceVars
<1>3. /\ Placed /\ Settling /\ Settles(tasks[a].stmt) /\ a \in DOMAIN asked
      /\ PlaceAt(a).operation = tasks[a].stmt
      /\ IsScope(a) => Certain(a) /\ ~tasks[a].stmt.virtual
  BY <1>2, SettlesIs
<1>4. Grows
  BY <1>2, Unmoved
<1>5. ASSUME out # "pause" PROVE Agreed(a, out)
  <2>1. CASE tasks[a].phase = "begin" /\ a \in DOMAIN view
             /\ Final(view[a].status) /\ out = EndOf(view[a])
    <3>1. a \in DOMAIN records /\ view[a].op = Kind(a) /\ RecordFits(view[a])
      BY <1>2, <2>1, SeenIs DEF WInv
    <3>2. records[a] = view[a]
      BY <1>2, <1>3, <2>1 DEF Settling, InStep, Open, Final
    <3>3. Kind(a) = "callback" => out = "ok"
      BY <1>1, <2>1, <3>1 DEF Ending, EndOf, RecordFits, Final, Recorded, ExecutionErrors
    <3> QED
      BY <1>3, <2>1, <3>1, <3>2, <3>3 DEF Agreed, Kind
  <2>2. CASE tasks[a].phase = "begin" /\ a \in DOMAIN view /\ Kind(a) = "callback" /\ out = "ok"
    BY <1>2, <1>3, <2>2, SeenIs DEF Agreed, Kind, WInv
  <2>3. CASE /\ tasks[a].phase = "run" /\ IsStep(a)
             /\ out = RunOf(tasks[a].stmt, Seen(a).attempt + 1)
             /\ out \in InvocationErrors \cup (ExecutionErrors \ {"condition"})
    <3>1. \E n \in DOMAIN tasks[a].stmt.runs : out = tasks[a].stmt.runs[n]
      <4>1. tasks[a].stmt.runs \in Seq(AttemptEnds) /\ tasks[a].stmt.runs # <<>>
        BY <2>3, OperationIs DEF WInv
      <4>2. /\ Len(tasks[a].stmt.runs) \in Nat /\ Len(tasks[a].stmt.runs) # 0
            /\ DOMAIN tasks[a].stmt.runs = 1 .. Len(tasks[a].stmt.runs)
        BY <4>1, LenProperties, EmptySeq
      <4>3. Seen(a).attempt \in Nat
        BY <1>2, SeenIs DEF WInv
      <4> DEFINE m == Len(tasks[a].stmt.runs)
                 x == Seen(a).attempt
                 n == IF x + 1 <= m THEN x + 1 ELSE m
      <4>4. out = tasks[a].stmt.runs[n]
        BY <2>3 DEF RunOf
      <4>5. m \in Nat /\ m # 0 /\ x \in Nat
        BY <4>2, <4>3
      <4> HIDE DEF m, x
      <4>6. n \in 1 .. m
        BY <4>5
      <4>7. n \in DOMAIN tasks[a].stmt.runs
        BY <4>2, <4>6 DEF m
      <4> QED
        BY <4>4, <4>7
    <3>2. out \in {"ok", "again", "exit", "exit_if_new", "condition"} \cup Others
      BY <1>3, <2>3, <3>1 DEF Settles, IsStep, Kind
    <3> QED
      BY <2>3, <3>2 DEF InvocationErrors, Retryable, ExecutionErrors, Others
  <2>4. CASE /\ IsScope(a)
             /\ \E o \in Outcomes : /\ Comes(a, o) /\ out = Raised(o)
                                    /\ o \in {"pause"} \cup Retryable \/ tasks[a].stmt.virtual
    BY <1>3, <1>5, <2>4, NotRetryable DEF Raised
  <2> QED
    BY <1>1, <1>5, <2>1, <2>2, <2>3, <2>4 DEF Gives
<1>6. out # "pause" => Agreed(a, out)'
  BY <1>3, <1>4, <1>5, AgreedStays
<1> QED
  BY <1>1, <1>3, <1>4, <1>6, EndingAgrees DEF Settling

----------------------------------------------------------------------------
(* What runs keeps its record in progress                                  *)

\* The callbacks a scope has in hand stay what they are.
LEMMA HoldingStays ==
    ASSUME WInv, DInv, Steady, Grows, NEW b \in DOMAIN tasks, tasks'[b].stmt = tasks[b].stmt,
           tasks'[b].attempt = tasks[b].attempt, tasks'[b].handles = tasks[b].handles,
           tasks'[b].pc = tasks[b].pc
    PROVE  Holding(b)'
<1>1. Kind(b)' = Kind(b) /\ IsScope(b)' = IsScope(b) /\ Body(b)' = Body(b)
  BY DEF Kind, IsScope, Body
<1>2. Holding(b) /\ Placed /\ Recording
  BY SettlesIs DEF Settling, Working
<1>3. ASSUME b # Root, IsScope(b) PROVE Scoped(b)
  BY <1>2, <1>3, TaskPlace DEF Placed
<1>4. ASSUME b # Root, IsScope(b), NEW t, NEW h, NEW c, IsHandle(b, t, h, c) PROVE IsHandle(b, t, h, c)'
  BY <1>2, <1>3, <1>4, LedStays
<1> PICK t, handles, body, pc : /\ t = tasks[b].attempt /\ handles = tasks[b].handles
                                /\ body = Body(b) /\ pc = tasks[b].pc
  OBVIOUS
<1>5. tasks'[b].attempt = t /\ tasks'[b].handles = handles /\ Body(b)' = body /\ tasks'[b].pc = pc
  BY <1>1
<1>6. b # Root /\ IsScope(b) =>
        /\ Len(handles) = Cardinality(Created(body, pc))
        /\ \A h \in DOMAIN handles : IsHandle(b, t, h, handles[h])'
  BY <1>2, <1>4 DEF Holding
<1> QED
  BY <1>1, <1>5, <1>6 DEF Holding

\* A task begins or ends, and the others are where they were.
LEMMA StillWorks ==
    ASSUME WInv, DInv, Steady, NEW a \in DOMAIN tasks, Keeps(a), Grows,
           DOMAIN tasks' = DOMAIN tasks, \A b \in DOMAIN tasks : Fixed(b),
           \A b \in DOMAIN tasks \ {a} : tasks'[b].phase = tasks[b].phase,
           tasks[a].phase # "done", Beginning(a)',
           \A b \in Children(a) : tasks[b].phase = "done"
    PROVE  Working'
<1>1. ASSUME NEW b \in DOMAIN tasks PROVE Beginning(b)'
  <2>1. CASE b = a
    BY <2>1
  <2>2. CASE b # a
    <3>1. Beginning(b)
      BY SettlesIs DEF Settling, Working
    <3>2. tasks'[b].phase = tasks[b].phase
      BY <2>2
    <3>3. b \in DOMAIN records => b \in DOMAIN records' /\ records'[b] = records[b]
      BY <2>2 DEF Keeps
    <3> QED
      BY <3>1, <3>2, <3>3 DEF Beginning
  <2> QED
    BY <2>1, <2>2
<1>2. ASSUME NEW b \in DOMAIN tasks, b # Root, NEW c \in DOMAIN tasks, c # Root, Parent(c) = b
      PROVE  \/ tasks'[c].phase = "done"
             \/ tasks'[b].phase \in {"await", "backing_off"} /\ c \in tasks'[b].awaits
  <2>1. c \in Children(b) /\ c # b
    BY <1>2, SettlesIs DEF Children
  <2>2. \/ tasks[c].phase = "done"
        \/ tasks[b].phase \in {"await", "backing_off"} /\ c \in tasks[b].awaits
    BY <1>2, <2>1, SettlesIs DEF Settling, Working, Awaiting
  <2>3. tasks'[b].awaits = tasks[b].awaits
    BY DEF Fixed
  <2>4. CASE b = a
    BY <2>1, <2>4
  <2>5. CASE c = a
    BY <2>1, <2>2, <2>3, <2>5
  <2>6. CASE b # a /\ c # a
    BY <2>2, <2>3, <2>6
  <2> QED
    BY <2>4, <2>5, <2>6
<1>3. ASSUME NEW b \in DOMAIN tasks PROVE Awaiting(b)'
  BY <1>2, <1>3 DEF Awaiting, Children
<1>4. \A b \in DOMAIN tasks : Holding(b)'
  BY HoldingStays DEF Fixed
<1> QED
  BY <1>1, <1>3, <1>4 DEF Working

LEMMA EndingWorks ==
    ASSUME WInv, DInv, Steady, NEW a \in DOMAIN tasks, NEW out \in Outcomes, Ending(a, out),
           Keeps(a), Grows, \A b \in Children(a) : tasks[b].phase = "done"
    PROVE  Working'
<1>1. /\ DOMAIN tasks' = DOMAIN tasks /\ \A b \in DOMAIN tasks : Fixed(b)
      /\ \A b \in DOMAIN tasks \ {a} : tasks'[b].phase = tasks[b].phase
      /\ tasks'[a].phase = "done" /\ tasks[a].phase # "done"
  BY FinishesFields DEF Ending, WInv
<1>2. Beginning(a)'
  BY <1>1 DEF Beginning
<1> QED
  BY <1>1, <1>2, StillWorks

\* When a task ends, what is below it is done.
LEMMA EndsLast ==
    ASSUME WInv, DInv, Steady, NEW a \in DOMAIN tasks, a # Root, invocation = "running",
           IsScope(a) => tasks[a].phase = "begin" \/ \E o : Comes(a, o)
    PROVE  \A b \in Children(a) : tasks[b].phase = "done"
<1>1. CASE IsScope(a) /\ tasks[a].phase # "begin"
  BY <1>1, ComesDone
<1>2. CASE tasks[a].phase = "begin"
  BY <1>2, ChildrenDone
<1>3. CASE ~IsScope(a)
  <2>1. tasks[a].phase \notin {"await", "backing_off"}
    BY <1>3 DEF WInv, Formed, Shape
  <2> QED
    BY <2>1, ChildrenDone
<1> QED
  BY <1>1, <1>2, <1>3

LEMMA CommitsWorks ==
    ASSUME WInv, DInv, Steady, NEW a \in DOMAIN tasks, Commits(a)
    PROVE  Working'
<1>1. PICK r \in RecordSet, out \in Outcomes :
        /\ Writes(a, r) /\ Ending(a, out)
        /\ IsScope(a) => \E o \in Outcomes : Comes(a, o)
  BY DEF Commits
<1>2. Placed /\ a # Root /\ invocation = "running"
  BY <1>1, SettlesIs DEF Writes
<1>3. Keeps(a) /\ Grows
  BY <1>1, <1>2, WritesRecords, WritesGrow
<1>4. \A b \in Children(a) : tasks[b].phase = "done"
  BY <1>1, <1>2, EndsLast
<1> QED
  BY <1>1, <1>3, <1>4, EndingWorks

LEMMA DeliversWorks ==
    ASSUME WInv, DInv, Steady, NEW a \in DOMAIN tasks, Delivers(a)
    PROVE  Working'
<1>1. PICK out \in Outcomes : Gives(a, out) /\ Ending(a, out)
  BY DEF Delivers
<1>2. UNCHANGED <<program, serviceVars, view, asked>> /\ a # Root /\ invocation = "running"
  BY <1>1 DEF Delivers, Ending
<1>3. Keeps(a) /\ Grows
  BY <1>2, SameRecords, Unmoved DEF serviceVars
<1>4. IsScope(a) => tasks[a].phase = "begin" \/ \E o : Comes(a, o)
  BY <1>1 DEF Gives, IsScope, IsStep
<1>5. \A b \in Children(a) : tasks[b].phase = "done"
  BY <1>2, <1>4, EndsLast
<1> QED
  BY <1>1, <1>3, <1>5, EndingWorks

LEMMA BeginsWorks ==
    ASSUME WInv, DInv, Steady, NEW a \in DOMAIN tasks, Begins(a), Keeps(a), Grows,
           a \in DOMAIN records', records'[a].status = "STARTED"
    PROVE  Working'
<1>1. a # Root /\ invocation = "running" /\ tasks[a].phase = "begin" /\ GoesOn(a)
  BY DEF Begins
<1>2. /\ DOMAIN tasks' = DOMAIN tasks /\ \A b \in DOMAIN tasks : Fixed(b)
      /\ \A b \in DOMAIN tasks \ {a} : tasks'[b].phase = tasks[b].phase
  BY <1>1, GoesOnFields DEF WInv
<1>3. Beginning(a)'
  BY DEF Beginning
<1>4. \A b \in Children(a) : tasks[b].phase = "done"
  BY <1>1, EndsLast
<1> QED
  BY <1>1, <1>2, <1>3, <1>4, StillWorks

LEMMA StartsWorks ==
    ASSUME WInv, DInv, Steady, NEW a \in DOMAIN tasks, Starts(a)
    PROVE  Working'
<1>1. PICK r \in RecordSet : r.status = "STARTED" /\ Writes(a, r)
  BY DEF Starts
<1>2. Keeps(a) /\ Grows /\ a \in DOMAIN records' /\ records'[a] = r
  BY <1>1, WritesRecords, WritesGrow, SettlesIs
<1> QED
  BY <1>1, <1>2, BeginsWorks DEF Starts

LEMMA EntersWorks ==
    ASSUME WInv, DInv, Steady, NEW a \in DOMAIN tasks, Enters(a)
    PROVE  Working'
<1>1. /\ UNCHANGED <<program, serviceVars, view, asked>> /\ a # Root /\ invocation = "running"
      /\ IsStep(a) \/ IsScope(a)
  BY DEF Enters, Begins
<1>2. Keeps(a) /\ Grows /\ records' = records
  BY <1>1, SameRecords, Unmoved DEF serviceVars
<1>3. a \in DOMAIN view /\ view[a].status = "STARTED"
  BY <1>1, SettlesIs DEF Enters
<1>4. a \in DOMAIN records /\ view[a].op = Kind(a)
  BY <1>1, <1>3, SeenIs DEF WInv
<1>5. records[a] = view[a]
  <2>1. ~Open(view[a])
    BY <1>1, <1>3, <1>4 DEF Open, IsStep, IsScope
  <2> QED
    BY <1>1, <1>3, <2>1, SettlesIs DEF Settling, InStep
<1> QED
  BY <1>2, <1>3, <1>4, <1>5, BeginsWorks DEF Enters

\* A step of one scope's code, below which nothing is under way.
LEMMA OwnWorks ==
    ASSUME WInv, DInv, Steady, NEW a \in DOMAIN tasks, UNCHANGED <<program, records, asked>>,
           DOMAIN tasks' = DOMAIN tasks, \A b \in DOMAIN tasks \ {a} : tasks'[b] = tasks[b],
           tasks[a].phase \notin {"begin", "done"},
           a # Root => Holding(a)' /\ \A b \in Children(a) : tasks[b].phase = "done"
    PROVE  Working'
<1>1. Grows
  BY Unmoved
<1>2. ASSUME NEW b \in DOMAIN tasks PROVE Beginning(b)'
  <2>1. Beginning(b)
    BY SettlesIs DEF Settling, Working
  <2>2. tasks'[b].phase \notin {"begin", "done"} => tasks[b].phase \notin {"begin", "done"}
    BY <1>2
  <2> QED
    BY <2>1, <2>2 DEF Beginning
<1>3. ASSUME NEW b \in DOMAIN tasks, b # Root, NEW c \in DOMAIN tasks, c # Root, Parent(c) = b
      PROVE  \/ tasks'[c].phase = "done"
             \/ tasks'[b].phase \in {"await", "backing_off"} /\ c \in tasks'[b].awaits
  <2>1. c \in Children(b) /\ c # b
    BY <1>3, SettlesIs DEF Children
  <2>2. \/ tasks[c].phase = "done"
        \/ tasks[b].phase \in {"await", "backing_off"} /\ c \in tasks[b].awaits
    BY <1>3, <2>1, SettlesIs DEF Settling, Working, Awaiting
  <2>3. CASE b = a
    BY <1>3, <2>1, <2>3
  <2>4. CASE b # a
    BY <2>2, <2>4
  <2> QED
    BY <2>3, <2>4
<1>4. ASSUME NEW b \in DOMAIN tasks PROVE Awaiting(b)'
  BY <1>3, <1>4 DEF Awaiting, Children
<1>5. ASSUME NEW b \in DOMAIN tasks PROVE Holding(b)'
  <2>1. CASE b = a /\ a # Root
    BY <2>1
  <2>2. CASE b = a /\ a = Root
    BY <2>2 DEF Holding
  <2>3. CASE b # a
    <3>1. b \in DOMAIN tasks /\ tasks'[b] = tasks[b]
      BY <1>5, <2>3
    <3> QED
      BY <1>1, <3>1, HoldingStays
  <2> QED
    BY <2>1, <2>2, <2>3
<1> QED
  BY <1>2, <1>4, <1>5 DEF Working

LEMMA HandlesMore ==
    ASSUME NEW body, NEW pc \in Position, NEW handles \in Seq(Address), NEW b \in Address,
           Len(handles) = Cardinality(Created(body, pc)), body[pc].op = "callback"
    PROVE  /\ Len(Append(handles, b)) = Cardinality(Created(body, pc + 1))
           /\ \A h \in DOMAIN Append(handles, b) :
                 \/ h \in DOMAIN handles /\ Append(handles, b)[h] = handles[h]
                 \/ /\ h = Cardinality(Created(body, pc)) + 1
                    /\ Append(handles, b)[h] = b
<1>1. /\ IsFiniteSet(Created(body, pc)) /\ Cardinality(Created(body, pc)) \in Nat
      /\ pc \notin Created(body, pc) /\ Created(body, pc + 1) = Created(body, pc) \cup {pc}
  BY CreatedIs
<1>2. Cardinality(Created(body, pc + 1)) = Cardinality(Created(body, pc)) + 1
  BY <1>1, FS_AddElement
<1>3. /\ Len(Append(handles, b)) = Len(handles) + 1
      /\ \A h \in 1 .. Len(handles) : Append(handles, b)[h] = handles[h]
      /\ Append(handles, b)[Len(handles) + 1] = b
      /\ DOMAIN handles = 1 .. Len(handles) /\ Len(handles) \in Nat
      /\ DOMAIN Append(handles, b) = 1 .. Len(handles) + 1
  BY AppendProperties, LenProperties
<1>4. \A n \in Nat : \A h \in 1 .. n + 1 : h \in 1 .. n \/ h = n + 1
  OBVIOUS
<1> QED
  BY <1>2, <1>3, <1>4

\* The body has in hand the callbacks it has created when it goes on.
LEMMA MovesHolding ==
    ASSUME WInv, DInv, Steady, NEW a \in DOMAIN tasks, a # Root, Moves(a)
    PROVE  Holding(a)'
<1>1. PICK o \in Outcomes, after \in Seq(Address) :
        GoodFor(a, o) /\ Passes(a, o, after) /\ Proceeds(a, after)
  BY DEF Moves
<1>2. /\ IsScope(a) /\ tasks[a].pc <= Len(Body(a)) /\ UNCHANGED <<program, records, asked>>
      /\ invocation = "running"
  BY DEF Moves, serviceVars
<1> PICK t, c, handles : /\ t = tasks[a].attempt /\ c = tasks[a].pc /\ handles = tasks[a].handles
  OBVIOUS
<1>3. /\ Typed /\ Placed /\ Places /\ Recording /\ Scoped(a) /\ Certain(a) /\ BodyAt(a) = Body(a)
      /\ Statement(a) = BodyAt(a)[c] /\ Holding(a)
  BY <1>2, SettlesIs, TaskPlace DEF Settling, Working
<1>4. c \in Position /\ c \in 1 .. Len(BodyAt(a)) /\ handles \in Seq(Address)
  BY <1>2, <1>3, ScopeFields, StatementIs
<1>5. /\ Len(handles) = Cardinality(Created(BodyAt(a), c))
      /\ \A h \in DOMAIN handles : IsHandle(a, t, h, handles[h])
  BY <1>2, <1>3 DEF Holding
<1>6. /\ Statement(a).op # "gather" /\ Operations(BodyAt(a)[c]) = <<BodyAt(a)[c]>>
      /\ Len(Operations(BodyAt(a)[c])) = 1
  BY <1>3, <1>4, CertainIs
<1>7. ASSUME Statement(a).op = "callback"
      PROVE  /\ o = "ok"
             /\ \A b \in tasks[a].awaits : /\ b \in Address
                   /\ IsHandle(a, t, Cardinality(Created(BodyAt(a), c)) + 1, b)
  <2>1. Running(a, "await") /\ o = Awaited(a) /\ tasks[a].phase = "await"
    BY <1>1, <1>2, <1>3, <1>7, SettlesIs DEF GoodFor, Plain, Running, Ready, Placed, Stands
  <2> DEFINE b == Append(a, tasks[a].next - 1)
  <2>2. /\ b \in DOMAIN asked /\ PlaceAt(b).phase = "await" /\ PlaceAt(b).attempt = t
        /\ PlaceAt(b).pc = c /\ tasks[a].awaits = {b} /\ b \in DOMAIN tasks
    BY <1>2, <1>3, <2>1, AwaitsOne
  <2>3. o = "ok"
    <3> SUFFICES ASSUME o # "ok" PROVE FALSE
      OBVIOUS
    <3>1. o \in Errors
      BY <1>1, <1>2, <1>3, StatementIs DEF GoodFor
    <3>2. Awaited(a) \notin {"none", "pause"}
      BY <2>1, <3>1 DEF Errors, Retryable, InvocationErrors, ExecutionErrors, Others
    <3>3. Agreed(b, o)
      BY <1>2, <1>3, <2>1, <3>2, AwaitedOne
    <3>4. PlaceAt(b).operation.op = "callback"
      <4> HIDE DEF b
      <4>1. b \in DOMAIN asked /\ Parent(b) = a /\ b # Root
        BY <2>2, <1>2 DEF WInv, Formed, Shape, Children
      <4>2. PlaceFits(b)
        BY <1>3, <4>1, PlaceIs
      <4> PICK p : p = PlaceAt(b)
        OBVIOUS
      <4>3. p.part \in 1 .. Len(Operations(BodyAt(a)[c]))
            /\ p.operation = Operations(BodyAt(a)[c])[p.part]
        BY <2>2, <4>1, <4>2 DEF PlaceFits
      <4>4. p.part = 1
        BY <1>6, <4>3
      <4> QED
        BY <1>3, <1>6, <1>7, <4>3, <4>4
    <3> QED
      BY <3>3, <3>4 DEF Agreed
  <2> HIDE DEF b
  <2>4. b \in Address /\ Parent(b) = a /\ b # Root
    BY <2>2, <1>2 DEF WInv, Formed, Shape, Children, Typed, MapOf
  <2>5. IsHandle(a, t, Cardinality(Created(BodyAt(a), c)) + 1, b)
    BY <1>3, <1>7, <2>2, <2>4 DEF IsHandle
  <2> QED
    BY <2>2, <2>3, <2>4, <2>5
<1>8. /\ Len(after) = Cardinality(Created(BodyAt(a), c + 1))
      /\ \A h \in DOMAIN after : IsHandle(a, t, h, after[h])
  <2>1. CASE Statement(a).op = "callback"
    <3>1. PICK b \in tasks[a].awaits : after = Append(handles, b)
      BY <1>1, <1>7, <2>1 DEF Passes
    <3>2. b \in Address /\ IsHandle(a, t, Cardinality(Created(BodyAt(a), c)) + 1, b)
      BY <1>7, <2>1, <3>1
    <3>3. /\ Len(after) = Cardinality(Created(BodyAt(a), c + 1))
          /\ \A h \in DOMAIN after :
                \/ h \in DOMAIN handles /\ after[h] = handles[h]
                \/ /\ h = Cardinality(Created(BodyAt(a), c)) + 1
                   /\ after[h] = b
      BY <1>3, <1>4, <1>5, <2>1, <3>1, <3>2, HandlesMore
    <3> QED
      BY <1>5, <3>2, <3>3
  <2>2. CASE Statement(a).op # "callback"
    <3>1. after = handles
      BY <1>1, <2>2 DEF Passes
    <3>2. Created(BodyAt(a), c + 1) = Created(BodyAt(a), c)
      BY <1>3, <1>4, <2>2, CreatedIs
    <3> QED
      BY <1>5, <3>1, <3>2
  <2> QED
    BY <2>1, <2>2
<1>9. \A h \in DOMAIN after : IsHandle(a, t, h, after[h])'
  BY <1>2, <1>3, <1>8, Unmoved, LedStays
<1>10. /\ tasks'[a].pc = c + 1 /\ tasks'[a].handles = after /\ tasks'[a].stmt = tasks[a].stmt
       /\ tasks'[a].attempt = t
  BY <1>1, <1>3, ProceedsFields
<1>11. Body(a)' = BodyAt(a)
  BY <1>3, <1>10 DEF Body
<1> QED
  BY <1>8, <1>9, <1>10, <1>11 DEF Holding

LEMMA MovesWorks ==
    ASSUME WInv, DInv, Steady, NEW a \in DOMAIN tasks, Moves(a)
    PROVE  Working'
<1>1. PICK o \in Outcomes, handles \in Seq(Address) : GoodFor(a, o) /\ Proceeds(a, handles)
  BY DEF Moves
<1>2. UNCHANGED <<program, records, asked>> /\ tasks[a].phase \notin {"begin", "done"}
  BY DEF Moves, serviceVars
<1>3. DOMAIN tasks' = DOMAIN tasks /\ \A b \in DOMAIN tasks \ {a} : tasks'[b] = tasks[b]
  BY <1>1, ProceedsFields DEF WInv
<1>4. a # Root => Holding(a)' /\ \A b \in Children(a) : tasks[b].phase = "done"
  BY <1>1, MovesHolding, ComesDone
<1> QED
  BY <1>2, <1>3, <1>4, OwnWorks

LEMMA RetiresWorks ==
    ASSUME WInv, DInv, Steady, NEW a \in DOMAIN tasks, Retires(a)
    PROVE  Working'
<1>1. PICK o \in Outcomes : Fails(a, o)
  BY DEF Retires
<1>2. /\ UNCHANGED <<program, records, asked>> /\ tasks[a].phase \notin {"begin", "done"}
      /\ BacksOff(a) /\ a # Root
  BY DEF Retires, serviceVars
<1>3. /\ DOMAIN tasks' = DOMAIN tasks /\ \A b \in DOMAIN tasks \ {a} : tasks'[b] = tasks[b]
      /\ Fixed(a)
  BY <1>2, BacksOffFields DEF WInv
<1>4. Holding(a)' /\ \A b \in Children(a) : tasks[b].phase = "done"
  BY <1>1, <1>2, <1>3, Unmoved, HoldingStays, ComesDone DEF Fixed
<1> QED
  BY <1>2, <1>3, <1>4, OwnWorks

LEMMA RepeatsWorks ==
    ASSUME WInv, DInv, Steady, NEW a \in DOMAIN tasks, Repeats(a)
    PROVE  Working'
<1>1. /\ UNCHANGED <<program, records, asked>> /\ tasks[a].phase = "backing_off"
      /\ Restarts(a) /\ Awaited(a) = "ok" /\ invocation = "running"
  BY DEF Repeats, serviceVars, Running
<1>2. /\ DOMAIN tasks' = DOMAIN tasks /\ \A b \in DOMAIN tasks \ {a} : tasks'[b] = tasks[b]
      /\ tasks'[a].handles = <<>> /\ tasks'[a].pc = 1
  BY <1>1, RestartsFields DEF WInv
<1>3. a # Root => \A b \in Children(a) : tasks[b].phase = "done"
  BY <1>1, ChildrenDone
<1>4. Holding(a)'
  <2>1. Created(Body(a)', 1) = {}
    BY DEF Created
  <2>2. Len(tasks'[a].handles) = 0 /\ DOMAIN tasks'[a].handles = {} /\ Cardinality({}) = 0
    BY <1>2, EmptySeq, EmptyMap, FS_EmptySet
  <2> QED
    BY <1>2, <2>1, <2>2 DEF Holding
<1> QED
  BY <1>1, <1>2, <1>3, <1>4, OwnWorks

\* What a scope starts has no record in progress yet, and is what it awaits.
LEMMA LaunchWorks ==
    ASSUME WInv, DInv, Steady, NEW a \in DOMAIN tasks, NEW operations, NEW phase,
           Launching(a, operations, phase), phase # "refused"
    PROVE  Working'
<1> PICK reserved : reserved = Reserved(a, Len(operations))
  OBVIOUS
<1>1. /\ reserved \cap DOMAIN tasks = {} /\ DOMAIN tasks' = DOMAIN tasks \cup reserved
      /\ \A b \in DOMAIN tasks \ {a} : tasks'[b] = tasks[b]
      /\ tasks'[a].stmt = tasks[a].stmt /\ tasks'[a].pc = tasks[a].pc
      /\ tasks'[a].handles = tasks[a].handles /\ tasks'[a].attempt = tasks[a].attempt
      /\ tasks'[a].phase = phase /\ tasks'[a].awaits = reserved
  <2>1. /\ operations \in Seq(OperationsOver(Bodies[program])) /\ phase \in {"await", "backing_off"}
        /\ Launch(a, operations, phase) /\ invocation = "running"
    BY DEF Launching
  <2>2. LaunchedTasks(a, operations, phase)
    BY <2>1, LaunchTasks
  <2> QED
    BY <2>2 DEF LaunchedTasks
<1>2. ASSUME NEW b \in reserved
      PROVE  /\ Parent(b) = a /\ tasks'[b].phase = "begin" /\ tasks'[b].pc = 1
             /\ Len(tasks'[b].handles) = 0 /\ DOMAIN tasks'[b].handles = {}
  BY <1>2, LaunchedNew
<1>3. /\ tasks[a].phase \in {"run", "back_off"} /\ phase \in {"await", "backing_off"}
      /\ invocation = "running" /\ UNCHANGED records /\ Grows
  BY SettlesIs, LaunchPlaces DEF Launching
<1>4. a # Root => \A b \in Children(a) : tasks[b].phase = "done"
  BY <1>3, ChildrenDone
<1>5. ASSUME NEW b \in DOMAIN tasks' PROVE Beginning(b)'
  <2>1. CASE b \in reserved
    BY <1>2, <2>1 DEF Beginning
  <2>2. CASE b \in DOMAIN tasks
    <3>1. Beginning(b)
      BY <2>2, SettlesIs DEF Settling, Working
    <3>2. tasks'[b].phase \notin {"begin", "done"} => tasks[b].phase \notin {"begin", "done"}
      BY <1>1, <1>3, <2>2
    <3> QED
      BY <1>3, <3>1, <3>2 DEF Beginning
  <2> QED
    BY <1>1, <2>1, <2>2
<1>6. ASSUME NEW b \in DOMAIN tasks', b # Root, NEW c \in DOMAIN tasks', c # Root, Parent(c) = b
      PROVE  \/ tasks'[c].phase = "done"
             \/ tasks'[b].phase \in {"await", "backing_off"} /\ c \in tasks'[b].awaits
  <2>1. CASE c \in reserved
    BY <1>1, <1>2, <1>3, <1>6, <2>1
  <2>2. CASE c \in DOMAIN tasks
    <3>1. b \in DOMAIN tasks /\ c \in Children(b) /\ c # b
      BY <1>6, <2>2, SettlesIs DEF Children
    <3>2. \/ tasks[c].phase = "done"
          \/ tasks[b].phase \in {"await", "backing_off"} /\ c \in tasks[b].awaits
      BY <1>6, <3>1, SettlesIs DEF Settling, Working, Awaiting
    <3>3. CASE b = a
      BY <1>1, <1>4, <1>6, <2>2, <3>1, <3>3
    <3>4. CASE b # a
      BY <1>1, <1>3, <2>2, <3>1, <3>2, <3>4
    <3> QED
      BY <3>3, <3>4
  <2> QED
    BY <1>1, <2>1, <2>2
<1>7. ASSUME NEW b \in DOMAIN tasks' PROVE Awaiting(b)'
  BY <1>6, <1>7 DEF Awaiting, Children
<1>8. ASSUME NEW b \in DOMAIN tasks' PROVE Holding(b)'
  <2>1. CASE b \in reserved
    <3>1. Created(Body(b)', 1) = {} /\ Cardinality({}) = 0
      BY FS_EmptySet DEF Created
    <3> QED
      BY <1>2, <2>1, <3>1 DEF Holding
  <2>2. CASE b \in DOMAIN tasks
    <3>1. /\ tasks'[b].stmt = tasks[b].stmt /\ tasks'[b].attempt = tasks[b].attempt
          /\ tasks'[b].handles = tasks[b].handles /\ tasks'[b].pc = tasks[b].pc
      BY <1>1, <2>2
    <3> QED
      BY <1>3, <2>2, <3>1, HoldingStays
  <2> QED
    BY <1>1, <2>1, <2>2
<1> QED
  BY <1>5, <1>7, <1>8 DEF Working

LEMMA GoneWorks ==
    ASSUME tasks' = <<>>
    PROVE  Working'
  BY NoTasks DEF Working

LEMMA InvokeWorks ==
    ASSUME InvokeWorkflow
    PROVE  Working'
<1>1. DOMAIN tasks' = {Root}
  BY DEF InvokeWorkflow, Only
<1> QED
  BY <1>1 DEF Working, Beginning, Awaiting, Holding

\* The world ends only what no task of the invocation is at work on.
LEMMA WorldIs ==
    ASSUME WInv, World
    PROVE  \E a \in DOMAIN records :
              /\ UNCHANGED <<program, view, tasks, journal, invocation, asked, told>>
              /\ Open(records[a]) /\ invocation # "over"
              /\ DOMAIN records' = DOMAIN records
              /\ \A b \in DOMAIN records \ {a} : records'[b] = records[b]
              /\ records'[a].op = records[a].op /\ records'[a].parent = records[a].parent
              /\ Final(records'[a].status) => records[a].op \in {"wait", "callback", "invoke"}
<1>1. PICK a \in DOMAIN records : Elapses(a) \/ Answers(a)
  BY DEF World
<1>2. /\ \E status, error : Update(a, status, error)
                            /\ (Final(status) => records[a].op \in {"wait", "callback", "invoke"})
      /\ Open(records[a])
  BY <1>1 DEF Elapses, Answers, Open, Final
<1>3. PICK status, error : /\ Update(a, status, error)
                           /\ Final(status) => records[a].op \in {"wait", "callback", "invoke"}
  BY <1>2
<1>4. /\ UNCHANGED <<program, view, tasks, journal, invocation, asked, told>>
      /\ invocation # "over"
      /\ records' = [records EXCEPT ![a].status = status, ![a].error = error]
  BY <1>3 DEF Update, invocationVars
<1>5. /\ DOMAIN records' = DOMAIN records
      /\ \A b \in DOMAIN records \ {a} : records'[b] = records[b]
      /\ records'[a] = [records[a] EXCEPT !.status = status, !.error = error]
  BY <1>4
<1>6. /\ records'[a].op = records[a].op /\ records'[a].parent = records[a].parent
      /\ records'[a].status = status
  <2>1. records[a] \in RecordSet
    BY DEF WInv, Typed, MapOf
  <2> QED
    BY <1>5, <2>1 DEF RecordSet
<1> QED
  BY <1>2, <1>3, <1>4, <1>5, <1>6

----------------------------------------------------------------------------
(* What a scope leaves behind when it ends                                 *)

\* An operation that another comes after has settled.
LEMMA EarlierSettled ==
    ASSUME Typed, Places, NEW s, Scoped(s), Certain(s), NEW k \in Position,
           Append(s, k) \in DOMAIN asked, Append(s, k + 1) \in DOMAIN asked
    PROVE  Settled(Append(s, k))
<1>1. k \in Nat /\ k # 0
  BY DEF Position
<1> PICK p : p = PlaceAt(Append(s, k + 1))
  OBVIOUS
<1>2. /\ p.pc \in 1 .. Len(BodyAt(s))
      /\ p.phase = "await" /\ p.part = 1 => Led(s, k, p.attempt, p.pc)
      /\ p.phase = "await" /\ p.part # 1 => Len(Operations(BodyAt(s)[p.pc])) # 1
      /\ p.phase # "await" => Failed(s, k, p.attempt, p.pc)
  BY <1>1, NextPlace
<1>3. ASSUME NEW t, NEW c, Led(s, k, t, c) PROVE Settled(Append(s, k))
  BY <1>1, <1>3 DEF Led, Leads
<1>4. ASSUME NEW t, NEW c, Failed(s, k, t, c) PROVE Settled(Append(s, k))
  <2>1. PICK o : Stuck(s, k, t, c, o)
    BY <1>4 DEF Failed
  <2> QED
    BY <1>3, <2>1 DEF Stuck
<1>5. p.phase = "await" => p.part = 1
  BY <1>2, CertainIs
<1> QED
  BY <1>2, <1>3, <1>4, <1>5

\* All have, when the last has.
LEMMA AllSettled ==
    ASSUME Typed, Places, NEW s, Scoped(s), Certain(s), NEW k \in Nat,
           Append(s, k + 1) \notin DOMAIN asked,
           k # 0 => Append(s, k) \in DOMAIN asked /\ Settled(Append(s, k)),
           NEW b \in DOMAIN asked, Parent(b) = s
    PROVE  Settled(b)
<1> PICK n : n = b[Len(b)]
  OBVIOUS
<1>1. n \in Position /\ Append(s, n) = b /\ s \in Address
  BY PlaceIs, BodyIs
<1>2. CASE k < n
  <2>1. k + 1 \in 1 .. n
    BY <1>1, <1>2, Ahead
  <2> QED
    BY <1>1, <2>1, Below
<1>3. CASE n = k
  <2>1. k # 0
    BY <1>1, <1>3 DEF Position
  <2> QED
    BY <1>1, <1>3, <2>1
<1>4. CASE n < k
  <2>1. k \in Position /\ k # 0 /\ n + 1 \in 1 .. k
    BY <1>1, <1>4 DEF Position
  <2>2. Append(s, n + 1) \in DOMAIN asked
    BY <1>1, <2>1, Below
  <2> QED
    BY <1>1, <2>2, EarlierSettled
<1>5. k < n \/ n = k \/ n < k
  BY <1>1 DEF Position
<1> QED
  BY <1>2, <1>3, <1>4, <1>5

\* A scope that ends with a record has nothing below it that has not.
LEMMA ScopeSettled ==
    ASSUME WInv, DInv, Steady, NEW a \in DOMAIN tasks, a # Root, NEW o, Comes(a, o), o # "pause",
           NEW b \in DOMAIN asked, Parent(b) = a
    PROVE  Settled(b)
<1> PICK k, t, c : k = tasks[a].next - 1 /\ t = tasks[a].attempt /\ c = tasks[a].pc
  OBVIOUS
<1>1. o \in Outcomes /\ invocation = "running" /\ IsScope(a)
  BY ComesIs
<1>2. /\ Typed /\ Placed /\ Places /\ Ordered /\ Stands(a) /\ Certain(a)
      /\ Scoped(a) /\ BodyAt(a) = Body(a) /\ Statement(a) = BodyAt(a)[c]
      /\ TriesAt(a) = tasks[a].stmt.tries
  BY <1>1, SettlesIs, TaskPlace DEF Placed
<1>3. k \in Nat /\ t \in Position /\ c \in Position /\ TriesAt(a) \in Nat
      /\ tasks[a].next = k + 1
  <2>1. tasks[a].next \in Position /\ TriesAt(a) \in Nat
    BY <1>2, ScopeFields, BodyIs
  <2> QED
    BY <2>1, ScopeFields DEF Position
<1>4. k # 0 => k \in Position
  BY <1>3 DEF Position
<1>5. ASSUME NEW u, NEW d, Led(a, k, u, d)
      PROVE  k # 0 => Append(a, k) \in DOMAIN asked /\ Settled(Append(a, k))
  BY <1>2, <1>5 DEF Led, Leads
<1>6. SUFFICES /\ Append(a, k + 1) \notin DOMAIN asked
               /\ k # 0 => Append(a, k) \in DOMAIN asked /\ Settled(Append(a, k))
  BY <1>2, <1>3, AllSettled
<1>7. CASE Running(a, "run") /\ tasks[a].pc > Len(Body(a))
  <2>1. Led(a, k, t, c) /\ c > Len(BodyAt(a))
    BY <1>1, <1>2, <1>7 DEF Stands, Running
  <2>2. Len(BodyAt(a)) \in Nat
    BY <1>2, BodyIs, LenProperties
  <2>3. c \notin 1 .. Len(BodyAt(a))
    BY <1>3, <2>1, <2>2 DEF Position
  <2> QED
    BY <1>2, <1>3, <1>5, <2>1, <2>3, LedStarts
<1>8. ASSUME o \in Errors \ (InvocationErrors \cup {"pause", "ok"}), t < TriesAt(a),
             tasks[a].pc <= Len(Body(a))
      PROVE  Retries(a, o)
  <2>1. \A x \in Position, y \in Nat : x < y => y > x
    BY DEF Position
  <2>2. tasks[a].stmt.tries > tasks[a].attempt
    BY <1>2, <1>3, <1>8, <2>1
  <2>3. o \notin InvocationErrors \cup {"pause", "ok"}
    BY <1>8
  <2> QED
    BY ONLY <1>8, <2>2, <2>3 DEF Retries, Body
<1>9. "ok" \notin Errors /\ "pause" \notin Errors /\ "none" \notin Errors
  BY DEF Errors, Retryable, InvocationErrors, ExecutionErrors, Others
<1>10. CASE Fails(a, o) /\ ~Retries(a, o)
  <2>0. o \notin Taken(a, c) /\ o # "ok"
    BY <1>2, <1>10 DEF Fails, Taken
  <2>1. CASE Running(a, "refused")
    BY <1>2, <2>1 DEF Stands, Running
  <2>2. CASE Ready(a) /\ Statement(a).op \in {"result", "raise"} /\ o = ReadOf(a)
    <3>1. Led(a, k, t, c) /\ tasks[a].pc <= Len(Body(a))
      BY <1>1, <1>2, <2>2 DEF Stands, Ready, Running, Body
    <3>2. Came(a, t, c, o)
      BY <1>2, <2>2, PlainCame
    <3>3. BodyAt(a)[c].op \in Plain
      BY <1>2, <2>2 DEF Plain
    <3>4. Append(a, k + 1) \notin DOMAIN asked
      <4> SUFFICES ASSUME Append(a, k + 1) \in DOMAIN asked PROVE FALSE
        OBVIOUS
      <4>1. t < TriesAt(a) /\ o \in Errors \ (InvocationErrors \cup BodyAt(a)[c].catch)
        BY <1>2, <1>3, <2>0, <3>1, <3>2, <3>3, LedStuck
      <4> QED
        BY <1>8, <1>9, <1>10, <3>1, <4>1
    <3> QED
      BY <1>5, <3>1, <3>4
  <2>3. CASE Running(a, "await") /\ o = Awaited(a)
    <3>1. /\ k \in Position /\ Append(a, k) \in DOMAIN asked
          /\ PlaceAt(Append(a, k)).phase = "await" /\ PlaceAt(Append(a, k)).attempt = t
          /\ PlaceAt(Append(a, k)).pc = c /\ Agreed(Append(a, k), o)
      BY <1>1, <1>2, <1>10, <2>3, AwaitedOne DEF Running, Fails
    <3>2. /\ Settled(Append(a, k)) /\ Verdict(Append(a, k)) \notin Taken(a, c)
          /\ (o \in InvocationErrors) = (Verdict(Append(a, k)) \in InvocationErrors)
          /\ o \in Errors
      BY <1>1, <1>2, <2>0, <3>1, AgreedVerdict
    <3>3. tasks[a].pc <= Len(Body(a))
      BY <2>3 DEF Running, WInv, Formed, Shape
    <3>4. Append(a, k + 1) \notin DOMAIN asked
      <4> SUFFICES ASSUME Append(a, k + 1) \in DOMAIN asked PROVE FALSE
        OBVIOUS
      <4>1. t < TriesAt(a) /\ Verdict(Append(a, k)) \notin InvocationErrors
        BY <1>2, <3>1, <3>2, VerdictNext
      <4> QED
        BY <1>8, <1>9, <1>10, <3>2, <3>3, <4>1
    <3> QED
      BY <3>1, <3>2, <3>4
  <2> QED
    BY <1>10, <2>1, <2>2, <2>3 DEF Fails
<1>11. CASE Running(a, "back_off") /\ Changed(a, <<Wait>>)
  BY <1>1, <1>2, <1>11, NoChange
<1>12. CASE Running(a, "backing_off") /\ o = Awaited(a) /\ o \notin {"none", "ok"}
  BY <1>1, <1>2, <1>12, WaitsSucceed DEF Running
<1> QED
  BY <1>7, <1>10, <1>11, <1>12 DEF Comes

----------------------------------------------------------------------------
(* The journal stays in step, and nothing outlives its scope               *)

\* A task is told nothing.
LEMMA ToldStays ==
    ASSUME WInv, Placed, Agreeing, Grows, UNCHANGED told,
           \A a \in DOMAIN tasks' : tasks'[a].out # "none" =>
               a \in DOMAIN tasks /\ tasks'[a].out = tasks[a].out
    PROVE  Agreeing'
<1>1. \A a \in DOMAIN tasks : tasks[a].out # "none" => a \in DOMAIN told /\ tasks[a].out \in told[a]
  BY DEF Agreeing
<1>2. \A a \in DOMAIN tasks' : tasks'[a].out # "none" => a \in DOMAIN told' /\ tasks'[a].out \in told'[a]
  BY <1>1
<1> QED
  BY <1>2, AgreeingStays

LEMMA WritesInStep ==
    ASSUME WInv, DInv, Steady, NEW a \in DOMAIN tasks, NEW r \in RecordSet, Writes(a, r)
    PROVE  InStep'
<1>1. a # Root /\ r.parent = Persisted(Parent(a)) /\ UNCHANGED journal /\ view' = records'
  BY DEF Writes
<1>2. InStep /\ Persisted(Parent(a)) = Parent(a)
  BY <1>1, SettlesIs DEF Settling
<1>3. /\ DOMAIN records' = DOMAIN records \cup {a} /\ records'[a] = r
      /\ \A b \in DOMAIN records \ {a} : records'[b] = records[b]
  BY WritesRecords DEF Keeps
<1>4. \A b \in DOMAIN records' : records'[b].parent = Parent(b)
  BY <1>1, <1>2, <1>3 DEF InStep
<1> QED
  BY <1>1, <1>2, <1>4 DEF InStep

LEMMA SameInStep ==
    ASSUME InStep, UNCHANGED <<records, view, journal>>, invocation' = "running" => invocation = "running"
    PROVE  InStep'
  BY DEF InStep

LEMMA InvokeInStep ==
    ASSUME InStep, InvokeWorkflow
    PROVE  InStep'
  BY DEF InStep, InvokeWorkflow

LEMMA WorldInStep ==
    ASSUME WInv, InStep, World
    PROVE  InStep'
<1>1. PICK a \in DOMAIN records :
              /\ UNCHANGED <<view, journal, invocation>> /\ Open(records[a])
              /\ DOMAIN records' = DOMAIN records
              /\ \A b \in DOMAIN records \ {a} : records'[b] = records[b]
              /\ records'[a].parent = records[a].parent
  BY WorldIs
<1>2. \A b \in DOMAIN records' : records'[b].parent = Parent(b)
  BY <1>1 DEF InStep
<1>3. ASSUME invocation = "running", NEW b \in DOMAIN view PROVE records'[b] = view[b] \/ Open(view[b])
  <2>1. b \in DOMAIN records /\ (records[b] = view[b] \/ Open(view[b]))
    BY <1>3 DEF InStep, WInv, Known
  <2>2. CASE b = a
    BY <1>1, <2>1, <2>2
  <2>3. CASE b # a
    BY <1>1, <2>1, <2>3
  <2> QED
    BY <2>2, <2>3
<1> QED
  BY <1>1, <1>2, <1>3 DEF InStep

\* A record is written under a scope in progress, and a final one when all under it have
\* ended.
LEMMA WritesOutlive ==
    ASSUME WInv, DInv, Steady, NEW a \in DOMAIN tasks, NEW r \in RecordSet, Writes(a, r),
           Final(r.status) /\ IsScope(a) => \E o : Comes(a, o) /\ o # "pause"
    PROVE  NothingOutlivesItsScope'
<1>1. /\ a # Root /\ r.op = Kind(a)
      /\ Persisted(Parent(a)) # Root => In(records, Persisted(Parent(a))).status = "STARTED"
  BY DEF Writes
<1>2. /\ InStep /\ NothingOutlivesItsScope /\ Persisted(Parent(a)) = Parent(a) /\ Parent(a) # a
      /\ Placed /\ Places /\ Recording /\ PlaceAt(a).operation = tasks[a].stmt
  BY <1>1, SettlesIs DEF Settling
<1>3. /\ DOMAIN records' = DOMAIN records \cup {a} /\ records'[a] = r
      /\ \A b \in DOMAIN records \ {a} : records'[b] = records[b]
      /\ Root \notin DOMAIN records'
  BY WritesRecords DEF Keeps
<1>4. InStep'
  BY WritesInStep
<1>5. ASSUME NEW b \in DOMAIN records', Final(In(records', Parent(b)).status),
             records'[b].op # "callback"
      PROVE  Final(records'[b].status)
  <2>1. CASE b = a
    <3>1. In(records', Parent(a)).status \in {"none", "STARTED"}
      <4>1. CASE Parent(a) = Root
        BY <1>3, <4>1 DEF In, Absent
      <4>2. CASE Parent(a) # Root
        <5>1. In(records, Parent(a)).status = "STARTED"
          BY <1>1, <1>2, <4>2
        <5>2. In(records', Parent(a)) = In(records, Parent(a))
          BY <1>2, <1>3 DEF In
        <5> QED
          BY <5>1, <5>2
      <4> QED
        BY <4>1, <4>2
    <3> QED
      BY <1>5, <2>1, <3>1 DEF Final
  <2>2. CASE b # a /\ Parent(b) # a
    <3>1. b \in DOMAIN records /\ records'[b] = records[b]
      BY <1>3, <2>2
    <3>2. In(records', Parent(b)) = In(records, Parent(b))
      BY <1>3, <2>2 DEF In
    <3>3. records[b].parent = Parent(b)
      BY <1>2, <3>1 DEF InStep
    <3> QED
      BY <1>2, <1>5, <3>1, <3>2, <3>3 DEF NothingOutlivesItsScope
  <2>3. CASE b # a /\ Parent(b) = a
    <3>1. b \in DOMAIN records /\ records'[b] = records[b] /\ b \in DOMAIN asked
      BY <1>2, <1>3, <2>3 DEF Recording
    <3>2. IsScope(a)
      BY <1>1, <1>2, <2>3, <3>1 DEF Places, IsScope, Kind
    <3>3. Final(r.status)
      BY <1>3, <1>5, <2>3 DEF In
    <3>4. PICK o : Comes(a, o) /\ o # "pause"
      BY <3>2, <3>3
    <3>5. Settled(b)
      BY <1>1, <2>3, <3>1, <3>4, ScopeSettled
    <3> QED
      BY <1>5, <3>1, <3>5 DEF Settled
  <2> QED
    BY <2>1, <2>2, <2>3
<1>6. ASSUME NEW b \in DOMAIN records', Final(In(records', records'[b].parent).status),
             records'[b].op # "callback"
      PROVE  Final(records'[b].status)
  <2>1. records'[b].parent = Parent(b)
    BY <1>4 DEF InStep
  <2> QED
    BY <1>5, <1>6, <2>1
<1> QED
  BY <1>6 DEF NothingOutlivesItsScope, In

LEMMA SameOutlive ==
    ASSUME NothingOutlivesItsScope, UNCHANGED records
    PROVE  NothingOutlivesItsScope'
  BY DEF NothingOutlivesItsScope, In

LEMMA WorldOutlive ==
    ASSUME WInv, Placed, InStep, NothingOutlivesItsScope, World
    PROVE  NothingOutlivesItsScope'
<1>1. PICK a \in DOMAIN records :
              /\ Open(records[a]) /\ DOMAIN records' = DOMAIN records
              /\ \A b \in DOMAIN records \ {a} : records'[b] = records[b]
              /\ records'[a].op = records[a].op /\ records'[a].parent = records[a].parent
  BY WorldIs
<1>2. Places /\ Recording
  BY DEF Placed, Recording
<1>3. records[a].op # "child"
  <2>1. RecordFits(records[a])
    BY DEF WInv, KindsFit
  <2> QED
    BY <1>1, <2>1 DEF RecordFits, Open
<1>4. ASSUME NEW b \in DOMAIN records PROVE records[b].parent # a
  <2>1. records[b].parent = Parent(b) /\ b \in DOMAIN asked
    BY <1>2 DEF InStep, Recording
  <2>2. CASE Parent(b) = Root
    <3>1. a # Root
      BY DEF WInv, Known
    <3> QED
      BY <2>1, <2>2, <3>1
  <2>3. CASE Parent(b) # Root
    <3>1. PlaceAt(Parent(b)).operation.op = "child"
      BY <1>2, <2>1, <2>3 DEF Places
    <3> QED
      BY <1>2, <1>3, <2>1, <3>1 DEF Recording
  <2> QED
    BY <2>2, <2>3
<1>5. ASSUME NEW b \in DOMAIN records, Final(In(records', records'[b].parent).status),
             records'[b].op # "callback"
      PROVE  Final(records'[b].status)
  <2>1. records'[b].parent = records[b].parent /\ records'[b].op = records[b].op
    BY <1>1
  <2>2. In(records', records'[b].parent) = In(records, records[b].parent)
    BY <1>1, <1>4, <2>1 DEF In
  <2>3. Final(records[b].status)
    BY <1>5, <2>1, <2>2 DEF NothingOutlivesItsScope
  <2>4. b # a
    BY <1>1, <2>3 DEF Open, Final
  <2> QED
    BY <1>1, <2>3, <2>4
<1> QED
  BY <1>1, <1>5 DEF NothingOutlivesItsScope, In

LEMMA WorldWorks ==
    ASSUME WInv, DInv, Steady, Grows, World
    PROVE  Working'
<1>1. PICK a \in DOMAIN records :
              /\ UNCHANGED tasks /\ Open(records[a]) /\ DOMAIN records' = DOMAIN records
              /\ \A b \in DOMAIN records \ {a} : records'[b] = records[b]
  BY WorldIs
<1>2. Working
  BY PlacedIs DEF Settling
<1>3. ASSUME NEW b \in DOMAIN tasks PROVE Beginning(b)'
  <2>1. CASE b # Root /\ tasks[b].phase \notin {"begin", "done"}
    <3>1. b \in DOMAIN records /\ records[b].status = "STARTED"
      BY <1>2, <2>1 DEF Working, Beginning
    <3>2. Kind(b) \in {"step", "condition", "child"} /\ records[b].op = Kind(b)
      BY <2>1, <3>1 DEF WInv, Formed, Shape, KindsFit, IsScope, Typed, MapOf, TaskSet, Phases
    <3>3. b # a
      BY <1>1, <3>1, <3>2 DEF Open
    <3> QED
      BY <1>1, <3>1, <3>3 DEF Beginning
  <2>2. CASE ~(b # Root /\ tasks[b].phase \notin {"begin", "done"})
    BY <1>1, <2>2 DEF Beginning
  <2> QED
    BY <2>1, <2>2
<1>4. ASSUME NEW b \in DOMAIN tasks PROVE Awaiting(b)'
  BY <1>1, <1>2 DEF Working, Awaiting, Children
<1>5. ASSUME NEW b \in DOMAIN tasks PROVE Holding(b)'
  BY <1>1, HoldingStays
<1> QED
  BY <1>1, <1>3, <1>4, <1>5 DEF Working

----------------------------------------------------------------------------
(* Every step settles                                                      *)

LEMMA CommitsSettle ==
    ASSUME WInv, DInv, Steady, NEW a \in DOMAIN tasks, Commits(a)
    PROVE  Settling'
<1>1. PICK r \in RecordSet, out \in Outcomes :
        /\ Writes(a, r) /\ Agrees(a, r, out)
        /\ IsScope(a) => \E o \in Outcomes : Comes(a, o) /\ out = Raised(o)
  BY DEF Commits
<1>2. Placed /\ Agreeing
  BY SettlesIs DEF Settling
<1>3. Final(r.status) => out # "pause"
  BY <1>1 DEF Agrees, Final, Errors, Retryable, InvocationErrors, ExecutionErrors, Others
<1>4. ASSUME Final(r.status), IsScope(a) PROVE \E o : Comes(a, o) /\ o # "pause"
  <2>1. PICK o \in Outcomes : Comes(a, o) /\ out = Raised(o)
    BY <1>1, <1>4
  <2>2. o # "pause"
    BY <1>3, <1>4, <2>1 DEF Raised
  <2> QED
    BY <2>1, <2>2
<1> QED
  BY <1>1, <1>2, <1>4, CommitsAgree, CommitsWorks, WritesInStep, WritesOutlive DEF Settling

LEMMA DeliversSettle ==
    ASSUME WInv, DInv, Steady, NEW a \in DOMAIN tasks, Delivers(a)
    PROVE  Settling'
<1>1. UNCHANGED <<records, view, journal, invocation>>
  BY DEF Delivers, serviceVars
<1>2. InStep /\ NothingOutlivesItsScope
  BY SettlesIs DEF Settling
<1> QED
  BY <1>1, <1>2, DeliversAgree, DeliversWorks, SameInStep, SameOutlive DEF Settling

LEMMA BeginsTold ==
    ASSUME WInv, DInv, Steady, Grows, NEW a \in DOMAIN tasks, Begins(a)
    PROVE  Agreeing'
<1>1. /\ UNCHANGED told /\ DOMAIN tasks' = DOMAIN tasks
      /\ \A b \in DOMAIN tasks : tasks'[b].out = tasks[b].out
  BY GoesOnFields DEF Begins, WInv
<1>2. Placed /\ Agreeing
  BY SettlesIs DEF Settling
<1> QED
  BY <1>1, <1>2, ToldStays

LEMMA StartsSettle ==
    ASSUME WInv, DInv, Steady, NEW a \in DOMAIN tasks, Starts(a)
    PROVE  Settling'
<1>1. PICK r \in RecordSet : r.status = "STARTED" /\ Writes(a, r)
  BY DEF Starts
<1>2. ~Final(r.status) /\ Grows /\ Begins(a)
  BY <1>1, WritesGrow, SettlesIs DEF Final, Starts
<1> QED
  BY <1>1, <1>2, BeginsTold, StartsWorks, WritesInStep, WritesOutlive DEF Settling

LEMMA EntersSettle ==
    ASSUME WInv, DInv, Steady, NEW a \in DOMAIN tasks, Enters(a)
    PROVE  Settling'
<1>1. UNCHANGED <<program, asked, records, view, journal, invocation>> /\ Begins(a)
  BY DEF Enters, serviceVars
<1>2. InStep /\ NothingOutlivesItsScope /\ Grows
  BY <1>1, SettlesIs, Unmoved DEF Settling
<1> QED
  BY <1>1, <1>2, BeginsTold, EntersWorks, SameInStep, SameOutlive DEF Settling

\* A step of a scope's own code tells no task anything, and writes nothing.
LEMMA OwnSettles ==
    ASSUME WInv, DInv, Steady, NEW a \in DOMAIN tasks, Moves(a) \/ Retires(a) \/ Repeats(a)
    PROVE  Settling'
<1>1. UNCHANGED <<program, asked, told, records, view, journal, invocation>>
  BY DEF Moves, Retires, Repeats, serviceVars
<1>2. /\ DOMAIN tasks' = DOMAIN tasks /\ \A b \in DOMAIN tasks \ {a} : tasks'[b] = tasks[b]
      /\ tasks'[a].out = tasks[a].out
  BY ProceedsFields, BacksOffFields, RestartsFields DEF Moves, Retires, Repeats, WInv
<1>3. Placed /\ Agreeing /\ InStep /\ NothingOutlivesItsScope /\ Grows
  BY <1>1, SettlesIs, Unmoved DEF Settling
<1>4. Agreeing'
  BY <1>1, <1>2, <1>3, ToldStays
<1> QED
  BY <1>1, <1>3, <1>4, MovesWorks, RetiresWorks, RepeatsWorks, SameInStep, SameOutlive DEF Settling

LEMMA OpensSettle ==
    ASSUME WInv, DInv, Steady, NEW a \in DOMAIN tasks, Opens(a)
    PROVE  Settling'
<1>2. Placed /\ Agreeing /\ InStep /\ NothingOutlivesItsScope
  BY SettlesIs DEF Settling
<1>1. PICK operations, phase : Launching(a, operations, phase) /\ phase # "refused"
  BY <1>2, OpensUnrefused
<1>3. UNCHANGED <<told, records, view, journal, invocation>> /\ Grows
  BY <1>1, <1>2, LaunchPlaces DEF Launching
<1>4. ASSUME NEW b \in DOMAIN tasks', tasks'[b].out # "none"
      PROVE  b \in DOMAIN tasks /\ tasks'[b].out = tasks[b].out
  <2>1. b \notin Reserved(a, Len(operations))
    BY <1>1, <1>4, LaunchedNew
  <2>2. /\ DOMAIN tasks' = DOMAIN tasks \cup Reserved(a, Len(operations))
        /\ \A c \in DOMAIN tasks \ {a} : tasks'[c] = tasks[c]
        /\ tasks'[a].out = tasks[a].out
    BY <1>1, LaunchedIs
  <2> QED
    BY <2>1, <2>2
<1>5. Agreeing'
  BY <1>2, <1>3, <1>4, ToldStays
<1> QED
  BY <1>1, <1>2, <1>3, <1>5, LaunchWorks, SameInStep, SameOutlive DEF Settling

LEMMA GoneSettles ==
    ASSUME WInv, Placed, Settling, tasks' = <<>>, invocation' # "running",
           UNCHANGED <<program, records, view, journal, asked, told>>
    PROVE  Settling'
<1>1. DOMAIN tasks' = {} /\ Grows
  BY EmptyMap, Unmoved
<1>2. Agreeing'
  BY <1>1, ToldStays DEF Settling
<1> QED
  BY <1>2, GoneWorks, SameInStep, SameOutlive DEF Settling

LEMMA WaySettles ==
    ASSUME WInv, DInv, Steady, NEW a \in DOMAIN tasks, Way(a)
    PROVE  Settling'
<1>1. CASE Exits \/ Finally(a)
  <2>1. /\ tasks' = <<>> /\ UNCHANGED <<program, records, view, journal, asked, told>>
        /\ invocation' # "running"
    BY <1>1 DEF Exits, Finally, Lost, HandlerEnds, serviceVars
  <2> QED
    BY <2>1, SettlesIs, GoneSettles
<1> QED
  BY <1>1, NoRejects, CommitsSettle, DeliversSettle, StartsSettle, EntersSettle, OwnSettles,
     OpensSettle DEF Way

LEMMA InvokeSettles ==
    ASSUME WInv, DInv, Steady, InvokeWorkflow
    PROVE  Settling'
<1>1. Placed /\ Agreeing /\ InStep /\ NothingOutlivesItsScope
  BY PlacedIs DEF Settling
<1>2. UNCHANGED <<program, records, asked, told>>
  BY DEF InvokeWorkflow
<1>3. DOMAIN tasks' = {Root} /\ tasks'[Root].out = "none"
  <2> DEFINE known == records # <<>>
             task == [Task(Child(program), Root) EXCEPT
                         !.phase = "run", !.entered = known, !.replaying = known]
  <2>1. known \in BOOLEAN /\ tasks' = [b \in {Root} |-> task]
    BY DEF InvokeWorkflow, Only
  <2> HIDE DEF known
  <2>2. task.out = "none"
    BY <2>1, HandlerTask DEF WInv
  <2> QED
    BY <2>1, <2>2
<1>4. Agreeing'
  BY <1>1, <1>2, <1>3, Unmoved, ToldStays
<1> QED
  BY <1>1, <1>2, <1>4, InvokeWorks, InvokeInStep, SameOutlive DEF Settling

LEMMA WorldSettles ==
    ASSUME WInv, DInv, Steady, World
    PROVE  Settling'
<1>1. Placed /\ Agreeing /\ InStep /\ NothingOutlivesItsScope
  BY PlacedIs DEF Settling
<1>2. PICK a \in DOMAIN records :
              /\ UNCHANGED <<program, tasks, asked, told>> /\ Open(records[a])
              /\ DOMAIN records' = DOMAIN records
              /\ \A b \in DOMAIN records \ {a} : records'[b] = records[b]
              /\ records'[a].op = records[a].op
  BY WorldIs
<1>3. Grows
  BY <1>2 DEF Grows, Open, Final
<1>4. Agreeing'
  BY <1>1, <1>2, <1>3, ToldStays
<1> QED
  BY <1>1, <1>3, <1>4, WorldWorks, WorldInStep, WorldOutlive DEF Settling

LEMMA NextSettles ==
    ASSUME WInv, DInv, Steady, [Next]_vars
    PROVE  Settling'
<1>1. Settling /\ Placed
  BY PlacedIs
<1>2. CASE UNCHANGED vars \/ Over
  <2>1. UNCHANGED <<program, records, view, journal, invocation, asked, tasks, told>>
    BY <1>2 DEF vars, Over, serviceVars, invocationVars
  <2>2. Grows
    BY <2>1, Unmoved
  <2>3. Agreeing'
    BY <1>1, <2>1, <2>2, ToldStays DEF Settling
  <2>4. \A b \in DOMAIN tasks : Beginning(b)' /\ Awaiting(b)'
    BY <1>1, <2>1 DEF Settling, Working, Beginning, Awaiting, Children
  <2>5. \A b \in DOMAIN tasks : Holding(b)'
    BY <2>1, <2>2, HoldingStays
  <2>6. Working'
    BY <2>1, <2>4, <2>5 DEF Working
  <2> QED
    BY <1>1, <2>1, <2>3, <2>6, SameInStep, SameOutlive DEF Settling
<1>3. CASE Crash
  <2>1. /\ tasks' = <<>> /\ invocation' # "running"
        /\ UNCHANGED <<program, records, view, journal, asked, told>>
    BY <1>3 DEF Crash, Lost, serviceVars
  <2> QED
    BY <1>1, <2>1, GoneSettles
<1>4. CASE Work
  BY <1>4, Ways, WaySettles DEF Work
<1> QED
  BY <1>2, <1>3, <1>4, InvokeSettles, WorldSettles DEF Next

LEMMA InitSettles ==
    ASSUME Init
    PROVE  Settling
<1>1. DOMAIN told = {} /\ DOMAIN records = {} /\ DOMAIN tasks = {} /\ DOMAIN view = {}
  BY EmptyMap DEF Init
<1> QED
  BY <1>1 DEF Init, Settling, Agreeing, Working, InStep, NothingOutlivesItsScope

\* The handler under way stays the same.
LEMMA ProgramStays ==
    ASSUME WInv, [Next]_vars
    PROVE  Steady' = Steady /\ Straight' = Straight
<1>1. CASE Work
  <2>1. PICK a \in DOMAIN tasks : Way(a)
    BY <1>1, Ways DEF Work
  <2>2. program' = program
    BY <2>1 DEF Way, Commits, Writes, Rejects, Delivers, Starts, Enters, Exits, Lost, Moves, Retires,
                Repeats, Opens, Finally, HandlerEnds
  <2> QED
    BY <2>2 DEF Steady, Straight
<1>2. CASE ~Work
  <2>1. program' = program
    BY <1>2, WorldIs DEF Next, vars, Over, Crash, Lost, InvokeWorkflow
  <2> QED
    BY <2>1 DEF Steady, Straight
<1> QED
  BY <1>1, <1>2

----------------------------------------------------------------------------
(* Theorems                                                                *)

LEMMA InitDInv ==
    ASSUME Init
    PROVE  DInv
  BY InitPlaced, InitSettles DEF DInv

LEMMA NextDInv ==
    ASSUME WInv, DInv, [Next]_vars
    PROVE  DInv'
<1>1. Steady' = Steady /\ Straight' = Straight
  BY ProgramStays
<1>2. Straight \/ Steady => Placed'
  BY NextPlaced
<1>3. Steady => Settling'
  BY NextSettles
<1> QED
  BY <1>1, <1>2, <1>3 DEF DInv

\* In every execution: the places of a program without with_retry, or of one whose
\* operations end only with a record, are taken in the order of its bodies; in the latter
\* what the handler is told agrees with the records, what runs has a record in progress,
\* and no update is refused.
THEOREM WorkflowReplays == Spec => []DInv
<1>1. Init => DInv
  BY InitDInv
<1>2. WInv /\ DInv /\ [Next]_vars => DInv'
  BY NextDInv
<1> QED
  BY <1>1, <1>2, WorkflowInvariant, PTL DEF Spec

\* An address stands for one place of the program and one operation, in every execution
\* of such a program, whatever crashes and however often it is replayed (_journal.py,
\* Cursor.reserve; _effects.py, with_retry, whose attempts share a cursor).
THEOREM WorkflowPlaces == Spec => [](Straight \/ Steady => OneAddressOnePlace)
<1>1. WInv /\ DInv => (Straight \/ Steady => OneAddressOnePlace)
  <2> SUFFICES ASSUME WInv, DInv, Straight \/ Steady, NEW a \in DOMAIN asked
               PROVE  Cardinality(asked[a]) = 1
    BY DEF OneAddressOnePlace
  <2>1. asked[a] = {PlaceAt(a)}
    BY PlacedIs DEF Places
  <2> QED
    BY <2>1, FS_Singleton
<1> QED
  BY <1>1, WorkflowInvariant, WorkflowReplays, PTL

\* Once an operation has had an outcome every later invocation gives the handler the
\* same, when operations end only with a record: a success stays one, and a failure comes
\* back as the class its record is raised with (_effects.py, error_record, raise_record).
THEOREM WorkflowOutcomes == Spec => [](Steady => OutcomesAreStable)
<1>1. WInv /\ DInv => (Steady => OutcomesAreStable)
  <2> SUFFICES ASSUME WInv, DInv, Steady, NEW a \in DOMAIN told
               PROVE  Cardinality({IF o = "ok" THEN o ELSE Recorded(o) : o \in told[a] \ {"pause"}}) <= 1
    BY DEF OutcomesAreStable
  <2> DEFINE v == IF PlaceAt(a).operation.op = "callback" THEN "ok" ELSE EndOf(records[a])
             outs == {IF o = "ok" THEN o ELSE Recorded(o) : o \in told[a] \ {"pause"}}
  <2>1. ASSUME NEW o \in told[a] \ {"pause"} PROVE (IF o = "ok" THEN o ELSE Recorded(o)) = v
    <3>1. Agreed(a, o)
      BY PlacedIs DEF Settling, Agreeing
    <3>2. a \in DOMAIN records /\ RecordFits(records[a])
      BY <3>1 DEF Agreed, WInv, KindsFit
    <3>3. "ok" \notin Errors /\ Recorded("interrupted") = "callable"
      BY DEF Errors, Retryable, InvocationErrors, ExecutionErrors, Others, Recorded
    <3>4. Final(records[a].status) =>
             EndOf(records[a]) = "ok" \/ Recorded(EndOf(records[a])) = EndOf(records[a])
      BY <3>2 DEF RecordFits, Final, EndOf
    <3> QED
      BY <3>1, <3>3, <3>4 DEF Agreed
  <2>2. outs \subseteq {v}
    BY <2>1
  <2> HIDE DEF outs, v
  <2>3. IsFiniteSet({v}) /\ Cardinality({v}) = 1
    BY FS_Singleton
  <2>4. Cardinality(outs) <= 1
    BY <2>2, <2>3, FS_Subset
  <2> QED
    BY <2>4 DEF outs
<1> QED
  BY <1>1, WorkflowInvariant, WorkflowReplays, PTL

\* A scope whose record is final has no operation in progress under it but a callback
\* nobody reads, when operations end only with a record (_effects.py, scope_effect;
\* _testing.py, transact).
THEOREM WorkflowScopes == Spec => [](Steady => NothingOutlivesItsScope)
<1>1. WInv /\ DInv => (Steady => NothingOutlivesItsScope)
  BY PlacedIs DEF Settling
<1> QED
  BY <1>1, WorkflowInvariant, WorkflowReplays, PTL
=============================================================================
