----------------------------- MODULE GroupsProofs -----------------------------
(***************************************************************************)
(* Theorems of Groups, for any groups of branches, crashes and              *)
(* interruptions: the types, the slots a group keeps, that its report        *)
(* agrees with the records and with the reason it gives, and that no built-in *)
(* policy leaves a group undecided.                                         *)
(***************************************************************************)
EXTENDS Groups, FiniteSetTheorems, WellFoundedInduction, TLAPS

USE GroupsAssumption

----------------------------------------------------------------------------
(* The inductive invariant                                                 *)

Settled == {b \in Branches : outcome[b] # "none"}

\* The group is one of those considered.
Planned ==
    /\ config \in Config /\ (config.custom => config.min # None)
    /\ fate \in Seq(Fates)

\* An invocation that has not reached the group has nothing of it.
Off == group = "off" =>
    /\ task = Idle /\ outcome = NoOutcome /\ paused = {} /\ queued = {}

\* What the group has looked at is at rest, and is what the group holds it for.
Looked ==
    \A b \in Branches :
        /\ outcome[b] = "SUCCEEDED" => task[b] = "returned"
        /\ outcome[b] = "FAILED" => task[b] = "raised"
        /\ b \in paused => task[b] = "paused"

\* A NESTED branch ends by its verdict, which is durable before anyone sees it.
Durable ==
    config.nested => \A b \in Branches :
        /\ task[b] = "returned" => record[b] = "SUCCEEDED"
        /\ task[b] = "raised" => record[b] \in {"FAILED", "SERDES"}
        /\ task[b] = "broken" => record[b] \in {"SERDES", "PERMANENT"}
        /\ task[b] = "committing" /\ b \notin queued => record[b] \in Fates
        /\ b \in queued => record[b] = "STARTED"

\* A group that has decided cancels what runs, and reports when all have unwound.
Still ==
    /\ group \in {"gathering", "over"} =>
          \A b \in Branches : task[b] \notin {"running", "committing"}
    /\ group = "over" => queued = {} /\ \A b \in Branches : task[b] # "cancelling"

\* What a reason says of the branches.
Justifies(why, items) ==
    LET n(status) == Counted(items, status) IN
    /\ why = "MIN_SUCCESSFUL_REACHED" =>
          config.min # None /\ n("SUCCEEDED") >= config.min
    /\ why = "FAILURE_TOLERANCE_EXCEEDED" => n("FAILED") > config.tolerated
    /\ why = "ALL_COMPLETED" =>
          /\ n("SUCCEEDED") + n("FAILED") = Count
          /\ n("FAILED") <= config.tolerated
    /\ why = "CUSTOM_COMPLETION_SUCCEEDED" =>
          config.min # None /\ n("SUCCEEDED") >= config.min
    /\ why = "CUSTOM_COMPLETION_FAILED" => n("FAILED") >= config.tolerated

\* A branch broke, which the group has no outcome of.
Broke == \E b \in Branches : task[b] = "broken"

Decided ==
    group = "gathering" =>
        /\ reason # "none"
        /\ reason \notin {"raise", "break"} => Justifies(reason, outcome)
        /\ reason = "break" => Broke

\* The branches are launched in the order of their indexes, and each launch
\* beyond the limit has had the outcome of another to make room for it.
Slots ==
    group = "running" =>
        \E n \in 0 .. Count : Launched = 1 .. n /\ n <= config.limit + Cardinality(Settled)

\* There is a report only when the group is over.
Reports == report # None => group = "over"

\* The reason of the report is true of its items, or the group was broken.
ReportHolds ==
    report # None => /\ Justifies(report.reason, report.items)
                     /\ report.reason = "break" => Broke

\* Only a callback leaves a group without a decision.
Undecided == group = "undecided" => config.custom

GInv ==
    /\ TypeOK /\ Planned /\ Off /\ Looked /\ Durable /\ Still /\ Decided /\ Slots
    /\ Reports /\ Undecided /\ SlotsKept /\ ReportHolds /\ ItemsMatchRecords

----------------------------------------------------------------------------
(* The policy                                                              *)

Kinds == {"idle", "running", "committing", "cancelling", "cancelled"} \cup Ended
Outcomes == [Branches -> Statuses \ {"CANCELLED"}]

LEMMA UpTo ==
    ASSUME NEW n \in Nat
    PROVE  IsFiniteSet(1 .. n) /\ Cardinality(1 .. n) = n
  <1>1. 1 \in Int /\ n \in Int
    OBVIOUS
  <1>2. /\ IsFiniteSet(1 .. n)
        /\ Cardinality(1 .. n) = IF 1 > n THEN 0 ELSE n - 1 + 1
    BY <1>1, FS_Interval, Zenon
  <1> QED
    BY <1>2

LEMMA FiniteBranches ==
    ASSUME Planned
    PROVE  /\ Branches = 1 .. Count /\ Count \in Nat
           /\ IsFiniteSet(Branches) /\ Cardinality(Branches) = Count
           /\ \A S : S \subseteq Branches => IsFiniteSet(S) /\ Cardinality(S) \in Nat
                                             /\ Cardinality(S) <= Count
  <1>1. Branches = 1 .. Count /\ Count \in Nat
    BY DEF Planned, Branches, Count
  <1>2. IsFiniteSet(Branches) /\ Cardinality(Branches) = Count
    BY <1>1, FS_Interval
  <1>3. ASSUME NEW S, S \subseteq Branches
        PROVE  IsFiniteSet(S) /\ Cardinality(S) \in Nat /\ Cardinality(S) <= Count
    BY <1>2, <1>3, FS_Subset, FS_CardinalityType
  <1> QED
    BY <1>1, <1>2, <1>3

LEMMA CountedIsNat ==
    ASSUME Planned, NEW o, NEW status
    PROVE  Counted(o, status) \in Nat
  <1>1. {b \in Branches : o[b] = status} \subseteq Branches
    OBVIOUS
  <1> QED
    BY <1>1, FiniteBranches DEF Counted

\* Every branch is counted once there are as many outcomes as branches.
LEMMA AllCounted ==
    ASSUME Planned, NEW o \in Outcomes
    PROVE  Counted(o, "SUCCEEDED") + Counted(o, "FAILED") = Count
              <=> \A b \in Branches : o[b] # "none"
  <1> DEFINE S == {b \in Branches : o[b] = "SUCCEEDED"}
             F == {b \in Branches : o[b] = "FAILED"}
  <1>1. IsFiniteSet(S) /\ IsFiniteSet(F) /\ IsFiniteSet(Branches)
        /\ Cardinality(S) \in Nat /\ Cardinality(F) \in Nat /\ Cardinality(Branches) = Count
    BY FiniteBranches
  <1>2. S \cap F = {}
    OBVIOUS
  <1>3. Cardinality(S \cup F) = Cardinality(S) + Cardinality(F)
    <2>1. Cardinality(S \cup F) = Cardinality(S) + Cardinality(F) - Cardinality(S \cap F)
      BY <1>1, FS_Union
    <2>2. Cardinality(S \cap F) = 0
      BY <1>2, FS_EmptySet
    <2> HIDE DEF S, F
    <2> QED
      BY <1>1, <2>1, <2>2
  <1>4. S \cup F \subseteq Branches
    OBVIOUS
  <1>5. Cardinality(S \cup F) = Count <=> S \cup F = Branches
    BY <1>1, <1>4, FS_Subset
  <1>6. S \cup F = Branches <=> \A b \in Branches : o[b] # "none"
    BY DEF Outcomes, Statuses
  <1> QED
    BY <1>3, <1>5, <1>6 DEF Counted

LEMMA CountedMore ==
    ASSUME Planned, NEW o, NEW i, NEW status,
           \A b \in Branches : o[b] = status => i[b] = status
    PROVE  Counted(o, status) <= Counted(i, status)
  <1> DEFINE S == {b \in Branches : o[b] = status}
             T == {b \in Branches : i[b] = status}
  <1>1. S \in SUBSET T /\ T \subseteq Branches
    OBVIOUS
  <1>2. IsFiniteSet(T)
    BY <1>1, FiniteBranches
  <1> QED
    BY <1>1, <1>2, FS_Subset DEF Counted

\* A decision is true of the outcomes it is made from.
LEMMA DecisionHolds ==
    ASSUME Planned, NEW o \in Outcomes, Decision(o) # "none"
    PROVE  Decision(o) \in Reasons /\ Justifies(Decision(o), o)
  <1>1. /\ Counted(o, "SUCCEEDED") \in Nat /\ Counted(o, "FAILED") \in Nat
        /\ config.tolerated \in Nat /\ config.custom \in BOOLEAN
        /\ config.custom => config.min # None
    BY CountedIsNat DEF Planned, Config
  <1>2. CASE config.custom
    BY <1>1, <1>2 DEF Decision, Justifies, Reasons
  <1>3. CASE ~config.custom
    BY <1>1, <1>3 DEF Decision, Justifies, Reasons
  <1> QED
    BY <1>1, <1>2, <1>3

\* A policy that is not a callback decides once every branch has an outcome.
LEMMA DecidesInTheEnd ==
    ASSUME Planned, NEW o \in Outcomes, ~config.custom, \A b \in Branches : o[b] # "none"
    PROVE  Decision(o) # "none"
  BY AllCounted DEF Decision

\* What is true of the outcomes is true of the report that completes them.
LEMMA JustifiedReport ==
    ASSUME Planned, NEW o \in Outcomes, NEW i \in [Branches -> Statuses],
           NEW why \in Reasons, Justifies(why, o),
           \A b \in Branches : o[b] # "none" => i[b] = o[b]
    PROVE  Justifies(why, i)
  <1>1. /\ Counted(o, "SUCCEEDED") <= Counted(i, "SUCCEEDED")
        /\ Counted(o, "FAILED") <= Counted(i, "FAILED")
    BY CountedMore
  <1>2. /\ Counted(o, "SUCCEEDED") \in Nat /\ Counted(o, "FAILED") \in Nat
        /\ Counted(i, "SUCCEEDED") \in Nat /\ Counted(i, "FAILED") \in Nat
        /\ config.tolerated \in Nat /\ config.min \in Nat \cup {None}
    BY CountedIsNat DEF Planned, Config
  <1>3. CASE why = "ALL_COMPLETED"
    <2>1. \A b \in Branches : o[b] # "none"
      BY <1>3, AllCounted DEF Justifies
    <2>2. {b \in Branches : o[b] = "SUCCEEDED"} = {b \in Branches : i[b] = "SUCCEEDED"}
          /\ {b \in Branches : o[b] = "FAILED"} = {b \in Branches : i[b] = "FAILED"}
      BY <2>1
    <2> QED
      BY <1>3, <2>2 DEF Justifies, Counted
  <1>4. CASE why = "MIN_SUCCESSFUL_REACHED"
    BY <1>1, <1>2, <1>4 DEF Justifies
  <1>5. CASE why = "FAILURE_TOLERANCE_EXCEEDED"
    BY <1>1, <1>2, <1>5 DEF Justifies
  <1>6. CASE why \in {"CUSTOM_COMPLETION_SUCCEEDED", "CUSTOM_COMPLETION_FAILED"}
    BY <1>1, <1>2, <1>6 DEF Justifies
  <1> QED
    BY <1>3, <1>4, <1>5, <1>6 DEF Reasons

----------------------------------------------------------------------------
(* Steps of the branches                                                   *)

\* What a step of a branch leaves alone.
GroupKept == UNCHANGED <<config, fate, waits, group, outcome, paused, reason, report, crashes>>

\* As long as the group does not move, what is said of it depends on its tasks only.
LEMMA GroupStands ==
    ASSUME GInv, GroupKept, TypeOK', Durable', Launched' = Launched,
           \A b \in Branches : task[b] \in Ended => task'[b] = task[b],
           group \in {"gathering", "over"} =>
              \A b \in Branches : task'[b] \in {"running", "committing"} =>
                 task[b] \in {"running", "committing"},
           group = "over" => queued' = {} /\ record' = record /\ task' = task,
           group = "off" => task' = task /\ queued' = {}
    PROVE  GInv'
  <1> USE DEF GroupKept
  <1>1. Planned' /\ Off' /\ Reports' /\ Undecided'
    BY DEF GInv, Planned, Off, Idle, NoOutcome, Branches, Reports, Undecided
  <1>2. Looked'
    BY DEF GInv, Looked, Ended, Branches
  <1>3. Still'
    BY DEF GInv, Still, Branches
  <1>4. \A why, items : Justifies(why, items)' <=> Justifies(why, items)
    BY DEF Justifies, Counted, Branches, Count
  <1>5. Decided' /\ ReportHolds'
    <2>1. Broke => Broke'
      BY DEF Broke, Branches, Ended
    <2> QED
      BY <1>4, <2>1 DEF GInv, Decided, ReportHolds
  <1>6. Slots'
    BY DEF GInv, Slots, Settled, Count, Branches
  <1>7. SlotsKept'
    <2>1. Active(task, outcome, paused)' = Active(task, outcome, paused)
      BY DEF Active, Launched, Branches
    <2> QED
      BY <2>1 DEF GInv, SlotsKept
  <1>8. ItemsMatchRecords'
    <2>1. report # None => group = "over"
      BY DEF GInv, Reports
    <2> QED
      BY <2>1 DEF GInv, ItemsMatchRecords, Branches
  <1> QED
    BY <1>1, <1>2, <1>3, <1>5, <1>6, <1>7, <1>8 DEF GInv

\* A branch that is not at rest moves; it did so in an invocation that has begun
\* and is not over.
LEMMA BranchMoves ==
    ASSUME GInv, GroupKept, NEW b \in Branches,
           NEW state \in {"returned", "raised", "interrupted", "broken", "paused",
                          "committing", "cancelled"},
           task[b] \in {"running", "committing", "cancelling"}, Becomes(b, state),
           state = "committing" => task[b] = "running",
           queued' \subseteq Branches,
           record' \in [Branches -> {"none", "STARTED"} \cup Fates],
           timer' \in [Branches -> {"none", "STARTED", "SUCCEEDED"}],
           interrupts' \in 0 .. MaxInterrupts, Durable'
    PROVE  GInv'
  <1>1. task' \in [Branches -> Kinds] /\ task'[b] = state
        /\ \A k \in Branches \ {b} : task'[k] = task[k]
    BY DEF GInv, TypeOK, Becomes, Kinds, Ended
  <1>2. group \notin {"off", "over"}
    BY DEF GInv, Off, Idle, Still
  <1>3. TypeOK'
    BY <1>1 DEF GInv, TypeOK, GroupKept, Branches, Kinds
  <1>4. Launched' = Launched
    BY <1>1 DEF Launched, GroupKept, Branches
  <1>5. \A k \in Branches : task[k] \in Ended => task'[k] = task[k]
    BY <1>1 DEF Ended
  <1>6. group = "gathering" => state # "committing"
    BY DEF GInv, Still
  <1> QED
    BY <1>1, <1>2, <1>3, <1>4, <1>5, <1>6, GroupStands

\* The backend, a wait or the start of a branch: the tasks stand.
LEMMA RecordMoves ==
    ASSUME GInv, NEW b \in Branches, Enter(b) \/ Apply(b) \/ Elapse(b)
    PROVE  GInv'
  <1>1. GroupKept /\ UNCHANGED <<task, interrupts>> /\ queued' \subseteq queued
    BY DEF Enter, Apply, Elapse, Rest, GroupKept, planVars
  <1>2. TypeOK'
    <2>1. record' \in [Branches -> {"none", "STARTED"} \cup Fates]
      BY DEF GInv, TypeOK, Enter, Apply, Elapse
    <2>2. timer' \in [Branches -> {"none", "STARTED", "SUCCEEDED"}]
      BY DEF GInv, TypeOK, Enter, Apply, Elapse
    <2> QED
      BY <1>1, <2>1, <2>2 DEF GInv, TypeOK, GroupKept, Branches
  <1>3. Durable'
    <2> SUFFICES ASSUME config.nested, NEW k \in Branches
                 PROVE  /\ task[k] = "returned" => record'[k] = "SUCCEEDED"
                        /\ task[k] = "raised" => record'[k] \in {"FAILED", "SERDES"}
                        /\ task[k] = "broken" => record'[k] \in {"SERDES", "PERMANENT"}
                        /\ task[k] = "committing" /\ k \notin queued' => record'[k] \in Fates
                        /\ k \in queued' => record'[k] = "STARTED"
      BY <1>1 DEF Durable, GroupKept, Branches
    <2>1. CASE Enter(b)
      BY <2>1 DEF Enter, GInv, Durable, TypeOK, Fates
    <2>2. CASE Apply(b)
      <3>1. record \in [Branches -> {"none", "STARTED"} \cup Fates] /\ fate[b] \in Fates
        BY DEF GInv, TypeOK
      <3> QED
        BY <2>2, <3>1 DEF Apply, GInv, Durable, Fates
    <2>3. CASE Elapse(b)
      BY <2>3 DEF Elapse, GInv, Durable
    <2> QED
      BY <2>1, <2>2, <2>3
  <1>4. Launched' = Launched
    BY <1>1 DEF Launched, GroupKept, Branches
  <1>5. group \in {"off", "over"} => queued' = {} /\ (group = "over" => record' = record)
    <2>1. group \in {"off", "over"} => queued = {}
      BY DEF GInv, Off, Still
    <2>2. group = "over" => ~Enter(b)
      BY DEF GInv, Still, Enter
    <2> QED
      BY <1>1, <2>1, <2>2 DEF Apply, Elapse
  <1> QED
    BY <1>1, <1>2, <1>3, <1>4, <1>5, GroupStands

\* A branch replays its verdict, waits, ends, has its receipt, or is cancelled.
LEMMA TaskMoves ==
    ASSUME GInv, NEW b \in Branches,
           Replay(b) \/ Pause(b) \/ End(b) \/ Finish(b) \/ Unwind(b) \/ Interrupt(b)
    PROVE  GInv'
  <1>1. GroupKept
    BY DEF Replay, Pause, End, Finish, Unwind, Interrupt, Rest, GroupKept, planVars
  <1>2. record' = record /\ record \in [Branches -> {"none", "STARTED"} \cup Fates]
        /\ queued' \subseteq Branches /\ task \in [Branches -> Kinds] /\ fate[b] \in Fates
    BY DEF Replay, Pause, End, Finish, Unwind, Interrupt, GInv, TypeOK, Kinds
  <1>3. timer' \in [Branches -> {"none", "STARTED", "SUCCEEDED"}]
    BY DEF Replay, Pause, End, Finish, Unwind, Interrupt, GInv, TypeOK
  <1>4. interrupts' \in 0 .. MaxInterrupts
    BY DEF Replay, Pause, End, Finish, Unwind, Interrupt, GInv, TypeOK
  <1>5. PICK state \in {"returned", "raised", "interrupted", "broken", "paused",
                        "committing", "cancelled"} :
          /\ Becomes(b, state) /\ task[b] \in {"running", "committing", "cancelling"}
          /\ state = "committing" => task[b] = "running" /\ queued' = queued \cup {b}
                                     /\ (config.nested => record[b] = "STARTED")
          /\ state # "committing" => queued' = queued
          /\ config.nested /\ state = "returned" => record[b] = "SUCCEEDED"
          /\ config.nested /\ state = "raised" => record[b] \in {"FAILED", "SERDES"}
          /\ config.nested /\ state = "broken" => record[b] \in {"SERDES", "PERMANENT"}
    <2>1. CASE Replay(b)
      BY <2>1 DEF Replay, Replayed, Ending, Fates
    <2>2. CASE Pause(b)
      BY <2>2 DEF Pause, InBody
    <2>3. CASE End(b)
      BY <1>2, <2>3 DEF End, InBody, Inside, Ending, Fates
    <2>4. CASE Finish(b)
      <3>1. config.nested => record[b] \in Fates
        BY <2>4 DEF GInv, Durable, Finish
      <3> QED
        BY <2>4, <3>1 DEF Finish, Ending, Fates
    <2>5. CASE Unwind(b) \/ Interrupt(b)
      BY <2>5 DEF Unwind, Interrupt
    <2> QED
      BY <2>1, <2>2, <2>3, <2>4, <2>5
  <1>6. task'[b] = state /\ \A k \in Branches \ {b} : task'[k] = task[k]
    BY <1>2, <1>5 DEF Becomes
  <1>7. Durable'
    <2> SUFFICES ASSUME config.nested, NEW k \in Branches
                 PROVE  /\ task'[k] = "returned" => record[k] = "SUCCEEDED"
                        /\ task'[k] = "raised" => record[k] \in {"FAILED", "SERDES"}
                        /\ task'[k] = "broken" => record[k] \in {"SERDES", "PERMANENT"}
                        /\ task'[k] = "committing" /\ k \notin queued' => record[k] \in Fates
                        /\ k \in queued' => record[k] = "STARTED"
      BY <1>1, <1>2 DEF Durable, GroupKept, Branches
    <2>1. /\ task[k] = "returned" => record[k] = "SUCCEEDED"
          /\ task[k] = "raised" => record[k] \in {"FAILED", "SERDES"}
          /\ task[k] = "broken" => record[k] \in {"SERDES", "PERMANENT"}
          /\ task[k] = "committing" /\ k \notin queued => record[k] \in Fates
          /\ k \in queued => record[k] = "STARTED"
      BY DEF GInv, Durable
    <2>2. CASE k = b
      BY <1>5, <1>6, <2>1, <2>2
    <2>3. CASE k # b
      BY <1>5, <1>6, <2>1, <2>3
    <2> QED
      BY <2>2, <2>3
  <1> QED
    BY <1>1, <1>2, <1>3, <1>4, <1>5, <1>7, BranchMoves

----------------------------------------------------------------------------
(* Steps of the group                                                      *)

\* The invocation ends without a report, and leaves nothing but the records.
LEMMA Leaves ==
    ASSUME GInv, Suspend \/ Fail \/ Crash
    PROVE  GInv'
  <1>1. /\ group' = "off" /\ Unset /\ group # "over"
        /\ UNCHANGED <<config, fate, waits, record, timer, report, interrupts>>
    BY DEF Suspend, Fail, Gathered, Crash, planVars, durableVars
  <1>2. crashes' \in 0 .. MaxCrashes
    BY DEF GInv, TypeOK, Suspend, Fail, Crash
  <1>3. report = None
    BY <1>1 DEF GInv, Reports
  <1>4. /\ task' = [b \in Branches |-> "idle"] /\ outcome' = [b \in Branches |-> "none"]
        /\ paused' = {} /\ reason' = "none" /\ queued' = {}
    BY <1>1 DEF Unset, Idle, NoOutcome
  <1>5. TypeOK'
    BY <1>1, <1>2, <1>3, <1>4 DEF GInv, TypeOK, Branches, Statuses
  <1>6. Planned' /\ Off' /\ Still' /\ Decided' /\ Slots' /\ Reports' /\ Undecided'
        /\ SlotsKept' /\ ReportHolds' /\ ItemsMatchRecords'
    BY <1>1, <1>3, <1>4 DEF GInv, Planned, Off, Idle, NoOutcome, Branches, Still, Decided,
       Slots, Reports, Undecided, SlotsKept, ReportHolds, ItemsMatchRecords
  <1>7. Looked' /\ Durable'
    BY <1>1, <1>4 DEF Looked, Durable, Branches
  <1> QED
    BY <1>5, <1>6, <1>7 DEF GInv

\* An invocation reaches the group: as many branches as the limit allows start.
LEMMA InvokeStep ==
    ASSUME GInv, Invoke
    PROVE  GInv'
  <1>1. /\ group = "off" /\ report = None
        /\ UNCHANGED <<config, fate, waits, outcome, paused, queued, record, timer, report,
                       crashes, interrupts>>
        /\ task' = [b \in Branches |-> IF b <= config.limit THEN "running" ELSE "idle"]
    BY DEF Invoke, planVars, durableVars
  <1>2. outcome = [b \in Branches |-> "none"] /\ paused = {} /\ queued = {}
    BY <1>1 DEF GInv, Off, NoOutcome
  <1>3. Branches = 1 .. Count /\ Count \in Nat /\ config.limit \in Nat \ {0}
        /\ config.tolerated \in Nat
    BY FiniteBranches DEF GInv, Planned, Config
  <1>4. \/ Count = 0 /\ group' = "gathering" /\ reason' = "ALL_COMPLETED"
        \/ Count # 0 /\ group' = "running" /\ reason' = "none"
    BY DEF Invoke
  <1>5. Branches' = Branches /\ Count' = Count
    BY <1>1 DEF Branches, Count
  <1>6. TypeOK'
    BY <1>1, <1>4, <1>5 DEF GInv, TypeOK, Reasons
  <1>7. Planned' /\ Off' /\ Reports' /\ Undecided' /\ ReportHolds' /\ ItemsMatchRecords'
    BY <1>1, <1>4 DEF GInv, Planned, Off, Reports, Undecided, ReportHolds, ItemsMatchRecords
  <1>8. Looked' /\ Durable'
    BY <1>1, <1>2, <1>5 DEF Looked, Durable
  <1>9. Still'
    BY <1>3, <1>4, <1>5 DEF Still
  <1>10. Decided'
    <2> SUFFICES ASSUME Count = 0, reason' = "ALL_COMPLETED"
                 PROVE  Justifies("ALL_COMPLETED", outcome)'
      BY <1>4 DEF Decided
    <2>1. Branches = {}
      BY <1>3
    <2>2. Counted(outcome, "SUCCEEDED") = 0 /\ Counted(outcome, "FAILED") = 0
      <3>1. \A status : {b \in Branches : outcome[b] = status} = {}
        BY <2>1
      <3> QED
        BY <3>1, FS_EmptySet DEF Counted
    <2>3. Counted(outcome, "SUCCEEDED")' = 0 /\ Counted(outcome, "FAILED")' = 0
      BY <1>1, <1>5, <2>2 DEF Counted
    <2> QED
      BY <1>1, <1>3, <1>5, <2>3 DEF Justifies
  <1>11. /\ Launched' \subseteq Branches /\ Settled' = {}
         /\ \E n \in 0 .. Count : Launched' = 1 .. n /\ n <= config.limit
    <2>1. Launched' = {b \in Branches : b <= config.limit}
      BY <1>1, <1>5 DEF Launched
    <2>2. CASE config.limit <= Count
      <3>1. Launched' = 1 .. config.limit
        BY <1>3, <2>1, <2>2
      <3> QED
        BY <1>1, <1>2, <1>3, <1>5, <2>2, <3>1 DEF Settled
    <2>3. CASE config.limit > Count
      <3>1. Launched' = 1 .. Count
        BY <1>3, <2>1, <2>3
      <3> QED
        BY <1>1, <1>2, <1>3, <1>5, <2>3, <3>1 DEF Settled
    <2> QED
      BY <1>3, <2>2, <2>3
  <1>12. PICK n \in 0 .. Count : Launched' = 1 .. n /\ n <= config.limit
    BY <1>11
  <1>13. Slots'
    <2>1. Cardinality(Settled') = 0
      BY <1>11, FS_EmptySet
    <2>2. n \in 0 .. Count' /\ n <= config'.limit + Cardinality(Settled')
      BY <1>1, <1>3, <1>5, <1>12, <2>1
    <2> QED
      BY <1>12, <2>2 DEF Slots
  <1>14. SlotsKept'
    <2>1. Active(task, outcome, paused)' \cup paused' \in SUBSET (1 .. n)
      <3>1. Active(task, outcome, paused)' \subseteq Launched'
        BY DEF Active, Launched
      <3> QED
        BY <1>1, <1>2, <1>12, <3>1
    <2>2. IsFiniteSet(1 .. n) /\ Cardinality(1 .. n) = n
      BY <1>3, UpTo
    <2>3. Cardinality(Active(task, outcome, paused)' \cup paused') <= n
      BY <2>1, <2>2, FS_Subset
    <2>4. Cardinality(Active(task, outcome, paused)' \cup paused') \in Nat
      BY <2>1, <2>2, FS_Subset, FS_CardinalityType
    <2> QED
      BY <1>1, <1>3, <1>12, <2>3, <2>4 DEF SlotsKept
  <1> QED
    BY <1>6, <1>7, <1>8, <1>9, <1>10, <1>13, <1>14 DEF GInv

\* The report is what the group has seen, completed by what became of the rest.
LEMMA ReportStep ==
    ASSUME GInv, Report
    PROVE  GInv'
  <1>1. /\ group = "gathering" /\ reason \notin {"raise", "break"} /\ group' = "over"
        /\ queued = {}
        /\ \A b \in Branches : task[b] # "cancelling"
        /\ UNCHANGED <<config, fate, waits, task, outcome, paused, reason, queued, record,
                       timer, crashes, interrupts>>
        /\ report' = [items |-> [b \in Branches |-> Reported(b)], reason |-> reason]
    BY DEF Report, Gathered, planVars
  <1>2. Branches' = Branches /\ Count' = Count
    BY <1>1 DEF Branches, Count
  <1>3. ASSUME NEW b \in Branches
        PROVE  /\ Reported(b) \in Statuses
               /\ outcome[b] # "none" => Reported(b) = outcome[b]
               /\ Reported(b) = "SUCCEEDED" => task[b] = "returned"
               /\ Reported(b) = "FAILED" => task[b] \in {"raised", "interrupted", "broken"}
    <2>1. outcome[b] \in {"none", "SUCCEEDED", "FAILED"}
      BY DEF GInv, TypeOK, Statuses
    <2>2. /\ outcome[b] = "SUCCEEDED" => task[b] = "returned"
          /\ outcome[b] = "FAILED" => task[b] = "raised"
          /\ b \in paused => task[b] = "paused"
      BY DEF GInv, Looked
    <2>3. \/ Reported(b) = "CANCELLED" /\ b \in paused
          \/ b \notin paused /\ outcome[b] # "none" /\ Reported(b) = outcome[b]
          \/ outcome[b] = "none" /\ Reported(b) = "CANCELLED"
          \/ /\ outcome[b] = "none" /\ Reported(b) = "FAILED"
             /\ task[b] \in {"raised", "interrupted", "broken"}
          \/ outcome[b] = "none" /\ Reported(b) = "SUCCEEDED" /\ task[b] = "returned"
          \/ outcome[b] = "none" /\ Reported(b) = "none"
      BY <2>2 DEF Reported, Active, Raises
    <2> QED
      BY <2>1, <2>2, <2>3 DEF Statuses
  <1>4. reason \in Reasons /\ Justifies(reason, outcome)
    BY <1>1 DEF GInv, TypeOK, Decided
  <1>5. /\ report'.items \in [Branches -> Statuses] /\ report'.reason = reason
        /\ \A b \in Branches : report'.items[b] = Reported(b)
    BY <1>1, <1>3
  <1>6. TypeOK'
    BY <1>1, <1>2, <1>4, <1>5 DEF GInv, TypeOK
  <1>8. ReportHolds'
    <2>1. outcome \in Outcomes
      BY DEF GInv, TypeOK, Outcomes
    <2>2. Justifies(reason, report'.items)
      <3> DEFINE i == report'.items
      <3>1. i \in [Branches -> Statuses]
            /\ \A b \in Branches : outcome[b] # "none" => i[b] = outcome[b]
        BY <1>3, <1>5
      <3> HIDE DEF i
      <3>2. Justifies(reason, i)
        BY <1>4, <2>1, <3>1, JustifiedReport DEF GInv
      <3> QED
        BY <3>2 DEF i
    <2>3. \A why, items : Justifies(why, items)' <=> Justifies(why, items)
      BY <1>1, <1>2 DEF Justifies, Counted
    <2> QED
      BY <1>1, <1>5, <2>2, <2>3 DEF ReportHolds
  <1>9. ItemsMatchRecords'
    BY <1>1, <1>2, <1>3, <1>5 DEF GInv, Durable, ItemsMatchRecords, Fates
  <1>10. Planned' /\ Off' /\ Looked' /\ Durable' /\ Still' /\ Decided' /\ Slots'
         /\ Undecided' /\ SlotsKept'
    BY <1>1, <1>2 DEF GInv, Planned, Off, Looked, Durable, Still, Decided, Slots,
       Undecided, SlotsKept
  <1>11. Reports'
    BY <1>1 DEF Reports
  <1> QED
    BY <1>6, <1>8, <1>9, <1>10, <1>11 DEF GInv

\* A group that breaks has no items, and the branch that broke it stays.
LEMMA BreakStep ==
    ASSUME GInv, Break
    PROVE  GInv'
  <1>1. /\ group = "gathering" /\ reason = "break" /\ group' = "over" /\ queued = {}
        /\ \A b \in Branches : task[b] # "cancelling"
        /\ UNCHANGED <<config, fate, waits, task, outcome, paused, reason, queued, record,
                       timer, crashes, interrupts>>
        /\ report' = [items |-> NoOutcome, reason |-> "break"]
    BY DEF Break, Gathered, planVars
  <1>2. Branches' = Branches /\ Count' = Count
    BY <1>1 DEF Branches, Count
  <1>3. /\ report'.items = [b \in Branches |-> "none"] /\ report'.reason = "break"
        /\ report'.items \in [Branches -> Statuses]
    BY <1>1 DEF NoOutcome, Statuses
  <1>4. TypeOK'
    BY <1>1, <1>2, <1>3 DEF GInv, TypeOK
  <1>5. ReportHolds'
    <2>1. Broke'
      BY <1>1, <1>2 DEF GInv, Decided, Broke
    <2> QED
      BY <1>3, <2>1 DEF ReportHolds, Justifies
  <1>6. ItemsMatchRecords'
    BY <1>2, <1>3 DEF ItemsMatchRecords
  <1>7. Planned' /\ Off' /\ Looked' /\ Durable' /\ Still' /\ Decided' /\ Slots'
        /\ Undecided' /\ SlotsKept' /\ Reports'
    BY <1>1, <1>2 DEF GInv, Planned, Off, Looked, Durable, Still, Decided, Slots,
       Undecided, SlotsKept, Reports
  <1> QED
    BY <1>4, <1>5, <1>6, <1>7 DEF GInv

\* When branches have finished, the loop looks at one of them at least.
LEMMA LooksAtOne ==
    ASSUME NEW done, done \subseteq Nat, done # {}
    PROVE  LookedAt(done) # {}
  <1> DEFINE Less == {p \in Nat \X Nat : p[1] < p[2]}
  <1>1. IsWellFoundedOn(Less, Nat)
    BY NatLessThanWellFounded, Zenon DEF OpToRel
  <1>2. PICK b \in done : \A k \in done : <<k, b>> \notin Less
    <2> HIDE DEF Less
    <2> QED
      BY <1>1, WFMin
  <1>3. ASSUME NEW k \in done PROVE ~(k < b)
    <2>1. <<k, b>> \notin Less
      BY <1>2
    <2> QED
      BY <2>1
  <1> HIDE DEF Less
  <1>4. b \in LookedAt(done)
    BY <1>3 DEF LookedAt
  <1> QED
    BY <1>4

\* The branches a round has looked at are those that were at rest, and what the
\* group holds them for is how they ended.
LEMMA LooksRight ==
    ASSUME GInv, Wake
    PROVE  \E set \in SUBSET Active(task, outcome, paused) :
              /\ set # {} /\ \A b \in set : task[b] \in Ended
              /\ outcome' = Seen(set)
              /\ paused' = paused \cup {b \in set : task[b] = "paused"}
              /\ reason' = IF \E b \in set : task[b] = "interrupted" THEN "raise"
                           ELSE IF \E b \in set : task[b] = "broken" THEN "break"
                           ELSE Decision(Seen(set))
              /\ IF reason' = "none" THEN GoOn(set) ELSE Stop(set)
  <1> DEFINE done == {b \in Active(task, outcome, paused) : task[b] \in Ended}
  <1>1. done \subseteq Branches /\ Branches \subseteq Nat
    BY FiniteBranches DEF Active, GInv
  <1>2. done # {}
    BY DEF Wake
  <1>3. LookedAt(done) \subseteq done /\ LookedAt(done) # {}
    <2> HIDE DEF done
    <2> QED
      BY <1>1, <1>2, LooksAtOne DEF LookedAt
  <1>4. /\ outcome' = Seen(LookedAt(done))
        /\ paused' = paused \cup {b \in LookedAt(done) : task[b] = "paused"}
        /\ reason' = IF \E b \in LookedAt(done) : task[b] = "interrupted" THEN "raise"
                     ELSE IF \E b \in LookedAt(done) : task[b] = "broken" THEN "break"
                     ELSE Decision(Seen(LookedAt(done)))
        /\ IF reason' = "none" THEN GoOn(LookedAt(done)) ELSE Stop(LookedAt(done))
    BY DEF Wake
  <1>5. LookedAt(done) \in SUBSET Active(task, outcome, paused)
        /\ \A b \in LookedAt(done) : task[b] \in Ended
    BY <1>3
  <1> QED
    BY <1>3, <1>4, <1>5

\* The launches of a round that goes on keep the order and the limit.
LEMMA Launching ==
    ASSUME GInv, group = "running", NEW set \in SUBSET Active(task, outcome, paused),
           outcome' = Seen(set), UNCHANGED <<config, fate>>,
           task' = [b \in Branches |-> IF b \in Launches(set) THEN "running" ELSE task[b]]
    PROVE  \E n \in 0 .. Count : /\ Launched' = 1 .. n
                                 /\ n <= config.limit + Cardinality(Settled')
                                 /\ Room(set) # 0 /\ Launches(set) = {} => n = Count
  <1> DEFINE R == {b \in set : task[b] \in {"returned", "raised"}}
  <1>1. PICK n \in 0 .. Count :
          Launched = 1 .. n /\ n <= config.limit + Cardinality(Settled)
    BY DEF GInv, Slots
  <1>2. /\ Branches = 1 .. Count /\ Count \in Nat /\ config.limit \in Nat
        /\ R \subseteq Branches /\ Settled \subseteq Branches /\ set \subseteq Branches
    BY FiniteBranches DEF GInv, Planned, Config, Active, Settled
  <1>3. /\ IsFiniteSet(R) /\ IsFiniteSet(Settled)
        /\ Cardinality(R) \in Nat /\ Cardinality(Settled) \in Nat
    BY <1>2, FiniteBranches DEF GInv
  <1>4. Cardinality(Launched) = n /\ Room(set) = Cardinality(R)
    BY <1>1, <1>2, UpTo DEF Room
  <1>5. Launches(set) = {b \in Branches : b <= n + Cardinality(R)} \ (1 .. n)
    BY <1>1, <1>4 DEF Launches
  <1>6. Settled' = Settled \cup R
    BY <1>2 DEF Settled, Seen, Branches
  <1>7. Cardinality(Settled') = Cardinality(Settled) + Cardinality(R)
    <2>1. Settled \cap R = {}
      BY DEF Settled, Active
    <2>2. Cardinality(Settled \cup R)
             = Cardinality(Settled) + Cardinality(R) - Cardinality(Settled \cap R)
      BY <1>3, FS_Union
    <2>3. Cardinality(Settled \cap R) = 0
      BY <2>1, FS_EmptySet
    <2> HIDE DEF R
    <2> QED
      BY <1>3, <1>6, <2>2, <2>3
  <1>8. Launched' = Launched \cup Launches(set)
    BY DEF Launched, Branches, Launches
  <1> DEFINE m == IF n + Cardinality(R) <= Count THEN n + Cardinality(R) ELSE Count
  <1> HIDE DEF R
  <1>9. m \in 0 .. Count /\ n <= m /\ m <= n + Cardinality(R)
    BY <1>1, <1>2, <1>3
  <1>10. Launched' = 1 .. m
    BY <1>1, <1>2, <1>3, <1>5, <1>8
  <1>11. m <= config.limit + Cardinality(Settled')
    BY <1>1, <1>2, <1>3, <1>7, <1>9
  <1>12. Room(set) # 0 /\ Launches(set) = {} => m = Count
    <2> SUFFICES ASSUME Cardinality(R) # 0, Launches(set) = {}, n # Count PROVE FALSE
      BY <1>1, <1>2, <1>3, <1>4
    <2> DEFINE c == Cardinality(R)
    <2>0. Launches(set) = {b \in Branches : b <= n + c} \ (1 .. n) /\ c \in Nat /\ c # 0
          /\ n \in Nat /\ n < Count /\ Count \in Nat /\ Branches = 1 .. Count
      BY <1>1, <1>2, <1>3, <1>5
    <2> HIDE DEF c
    <2>1. n + 1 \in Launches(set)
      <3>1. n + 1 \in 1 .. Count /\ n + 1 <= n + c /\ n + 1 \notin 1 .. n
        BY <2>0
      <3> QED
        BY <2>0, <3>1
    <2> QED
      BY <2>1
  <1> QED
    BY <1>9, <1>10, <1>11, <1>12

\* The group looks at what has finished: it goes on, or its policy ends it.
LEMMA WakeStep ==
    ASSUME GInv, Wake
    PROVE  GInv'
  <1>1. PICK set \in SUBSET Active(task, outcome, paused) :
          /\ set # {} /\ \A b \in set : task[b] \in Ended
          /\ outcome' = Seen(set)
          /\ paused' = paused \cup {b \in set : task[b] = "paused"}
          /\ reason' = IF \E b \in set : task[b] = "interrupted" THEN "raise"
                       ELSE IF \E b \in set : task[b] = "broken" THEN "break"
                       ELSE Decision(Seen(set))
          /\ IF reason' = "none" THEN GoOn(set) ELSE Stop(set)
    BY LooksRight
  <1>2. /\ group = "running" /\ report = None
        /\ UNCHANGED <<config, fate, waits, queued, record, timer, report, crashes,
                       interrupts>>
    BY DEF Wake, planVars, durableVars, GInv, Reports
  <1>3. Branches' = Branches /\ Count' = Count
    BY <1>2 DEF Branches, Count
  <1>4. set \subseteq Branches /\ \A b \in set : outcome[b] = "none" /\ b \notin paused
    BY DEF Active
  <1>5. Planned
    BY DEF GInv
  <1>6. outcome' \in Outcomes /\ paused' \subseteq Branches
    BY <1>1, <1>4 DEF GInv, TypeOK, Outcomes, Statuses, Seen
  <1>7. ASSUME NEW b \in Branches
        PROVE  /\ task[b] \in Ended => task'[b] = task[b]
               /\ task'[b] = "committing" => task[b] = "committing"
               /\ task'[b] \in Kinds
               /\ task'[b] \in Ended => task'[b] = task[b]
    <2>1. task[b] \in Kinds
      BY DEF GInv, TypeOK, Kinds
    <2>2. CASE reason' = "none"
      <3>1. task' = [k \in Branches |-> IF k \in Launches(set) THEN "running" ELSE task[k]]
        BY <1>1, <2>2 DEF GoOn
      <3>2. b \in Launches(set) => task[b] = "idle"
        BY DEF Launches, Launched
      <3> QED
        BY <2>1, <3>1, <3>2 DEF Ended, Kinds
    <2>3. CASE reason' # "none"
      <3>1. PICK new \in SUBSET Branches, left \in SUBSET Branches :
              /\ \A k \in new : task[k] = "idle"
              /\ task' = [k \in Branches |-> IF k \in new THEN "cancelled"
                                            ELSE IF k \in left /\ task[k] \notin Ended
                                            THEN "cancelling" ELSE task[k]]
        <4> DEFINE new == Launches({k \in set : \E j \in set : k < j})
                   left == Active(task, Seen(set), paused')
        <4>1. task' = [k \in Branches |-> IF k \in new THEN "cancelled"
                                         ELSE IF k \in left /\ task[k] \notin Ended
                                         THEN "cancelling" ELSE task[k]]
          BY <1>1, <2>3 DEF Stop
        <4>2. new \in SUBSET Branches /\ \A k \in new : task[k] = "idle"
          BY DEF Launches, Launched
        <4>3. left \in SUBSET Branches
          BY DEF Active
        <4> HIDE DEF new, left
        <4> QED
          BY <4>1, <4>2, <4>3
      <3> QED
        BY <2>1, <3>1 DEF Ended, Kinds
    <2> QED
      BY <2>2, <2>3
  <1>8. task' \in [Branches -> Kinds]
    <2>1. CASE reason' = "none"
      BY <1>1, <1>7, <2>1 DEF GoOn
    <2>2. CASE reason' # "none"
      BY <1>1, <1>7, <2>2 DEF Stop
    <2> QED
      BY <2>1, <2>2
  <1>9. Looked'
    <2> SUFFICES ASSUME NEW b \in Branches
                 PROVE  /\ outcome'[b] = "SUCCEEDED" => task[b] = "returned"
                        /\ outcome'[b] = "FAILED" => task[b] = "raised"
                        /\ b \in paused' => task[b] = "paused"
      BY <1>3, <1>7 DEF Looked, Ended
    <2> QED
      BY <1>1 DEF GInv, Looked, Seen
  <1>10. Durable'
    BY <1>2, <1>3, <1>7 DEF GInv, Durable, Ended
  <1>11. Planned' /\ Off' /\ Reports' /\ ReportHolds' /\ ItemsMatchRecords'
    <2>1. group' \notin {"off", "over"}
      BY <1>1 DEF GoOn, Stop
    <2> QED
      BY <1>2, <2>1 DEF GInv, Planned, Off, Reports, ReportHolds, ItemsMatchRecords
  <1>12. CASE reason' # "none"
    <2>1. group' = "gathering" /\ Stop(set)
      BY <1>1, <1>12 DEF Stop
    <2>2. /\ reason' \in Reasons \cup {"raise", "break"}
          /\ reason' \notin {"raise", "break"} => Justifies(reason', outcome')
          /\ reason' = "break" => Broke'
      <3>1. CASE reason' = "raise"
        BY <3>1
      <3>3. CASE \E b \in set : task[b] = "broken"
        <4>1. reason' \in {"raise", "break"}
          BY <1>1, <3>3
        <4>2. Broke'
          BY <1>3, <1>4, <1>7, <3>3 DEF Broke, Ended
        <4> QED
          BY <4>1, <4>2
      <3>2. CASE reason' # "raise" /\ ~\E b \in set : task[b] = "broken"
        <4> DEFINE o == Seen(set)
        <4>1. o \in Outcomes /\ Decision(o) # "none" /\ reason' = Decision(o)
              /\ outcome' = o
          BY <1>1, <1>6, <1>12, <3>2
        <4> HIDE DEF o
        <4>2. Decision(o) \in Reasons /\ Justifies(Decision(o), o)
          BY <1>5, <4>1, DecisionHolds
        <4> QED
          BY <4>1, <4>2 DEF Reasons
      <3> QED
        BY <3>1, <3>2, <3>3
    <2>3. \A why, items : Justifies(why, items)' <=> Justifies(why, items)
      BY <1>2, <1>3 DEF Justifies, Counted
    <2>4. Decided'
      BY <1>12, <2>2, <2>3 DEF Decided
    <2>5. Still'
      <3>1. ASSUME NEW b \in Branches, task'[b] \in {"running", "committing"} PROVE FALSE
        <4>1. b \in Active(task, Seen(set), paused') => task[b] \in Ended
          BY <2>1, <3>1 DEF Stop
        <4>2. task[b] \in {"running", "committing"}
          BY <2>1, <3>1 DEF Stop
        <4>3. outcome'[b] # "none" \/ b \in paused'
          BY <1>1, <4>1, <4>2 DEF Active, Ended
        <4> QED
          BY <1>1, <4>2, <4>3 DEF GInv, Looked, Seen, TypeOK, Statuses, Ended
      <3> QED
        BY <1>3, <2>1, <3>1 DEF Still
    <2>6. Slots' /\ SlotsKept' /\ Undecided'
      BY <2>1 DEF Slots, SlotsKept, Undecided
    <2>7. TypeOK'
      BY <1>2, <1>3, <1>6, <1>8, <2>1, <2>2 DEF GInv, TypeOK, Outcomes, Kinds
    <2> QED
      BY <1>9, <1>10, <1>11, <2>4, <2>5, <2>6, <2>7 DEF GInv
  <1>13. CASE reason' = "none"
    <2> DEFINE left == Active(task, Seen(set), paused')
    <2>1. /\ group' = IF left \cup Launches(set) # {} THEN "running"
                      ELSE IF paused' # {} THEN "pausing" ELSE "undecided"
          /\ task' = [b \in Branches |-> IF b \in Launches(set) THEN "running" ELSE task[b]]
      BY <1>1, <1>13 DEF GoOn
    <2>2. PICK n \in 0 .. Count : /\ Launched' = 1 .. n
                                  /\ n <= config.limit + Cardinality(Settled')
                                  /\ Room(set) # 0 /\ Launches(set) = {} => n = Count
      BY <1>1, <1>2, <2>1, Launching
    <2>3. group' \in {"running", "pausing", "undecided"}
      BY <2>1
    <2>4. Slots'
      BY <1>2, <1>3, <2>2 DEF Slots
    <2>5. Still' /\ Decided'
      BY <2>3 DEF Still, Decided
    <2>6. SlotsKept'
      <3>1. Active(task, outcome, paused)' \cup paused' \subseteq Launched' \ Settled'
        BY <1>3, <1>6, <1>9, <1>7 DEF Active, Launched, Settled, Looked, Outcomes, Statuses
      <3>2. Settled' \subseteq Launched'
        BY <1>3, <1>6, <1>9 DEF Settled, Launched, Looked, Outcomes, Statuses
      <3>3. /\ n \in Nat /\ IsFiniteSet(Launched') /\ Cardinality(Launched') = n
            /\ config.limit \in Nat
        BY <1>5, <2>2, FiniteBranches, UpTo DEF Planned, Config
      <3>4. Cardinality(Launched' \ Settled') = n - Cardinality(Settled')
        <4>1. Cardinality(Launched' \ Settled') = n - Cardinality(Launched' \cap Settled')
          BY <3>3, FS_Difference
        <4>2. Launched' \cap Settled' = Settled'
          BY <3>2
        <4> QED
          BY <4>1, <4>2
      <3>5. /\ IsFiniteSet(Launched' \ Settled') /\ IsFiniteSet(Settled')
            /\ Cardinality(Settled') \in Nat
        BY <3>2, <3>3, FS_Subset, FS_Difference, FS_CardinalityType
      <3> DEFINE kept == Active(task, outcome, paused)' \cup paused'
      <3>6. Cardinality(kept) <= Cardinality(Launched' \ Settled') /\ Cardinality(kept) \in Nat
        BY <3>1, <3>5, FS_Subset, FS_CardinalityType
      <3>7. Cardinality(kept) <= config'.limit
        <4> HIDE DEF kept
        <4> QED
          BY <1>2, <2>2, <3>3, <3>4, <3>5, <3>6
      <3> QED
        BY <3>7 DEF SlotsKept
    <2>7. Undecided'
      <3> SUFFICES ASSUME group' = "undecided", ~config.custom PROVE FALSE
        BY <1>2 DEF Undecided
      <3>1. left = {} /\ Launches(set) = {} /\ paused' = {}
        BY <2>1
      <3>2. PICK b \in set : task[b] \in {"returned", "raised"}
        <4>1. ~\E b \in set : task[b] \in {"interrupted", "broken"}
          BY <1>1, <1>13
        <4>2. ~\E b \in set : task[b] = "paused"
          BY <1>1, <3>1
        <4> QED
          BY <1>1, <4>1, <4>2 DEF Ended
      <3>3. Room(set) # 0
        <4>1. {k \in set : task[k] \in {"returned", "raised"}} \subseteq Branches
          BY <1>4
        <4>2. IsFiniteSet({k \in set : task[k] \in {"returned", "raised"}})
          BY <1>5, <4>1, FiniteBranches
        <4> QED
          BY <3>2, <4>2, FS_EmptySet DEF Room
      <3>4. \A k \in Branches : task'[k] # "idle"
        BY <1>3, <1>5, <2>2, <3>1, <3>3, FiniteBranches DEF Launched
      <3>5. \A k \in Branches : outcome'[k] # "none"
        BY <1>1, <2>1, <3>1, <3>4 DEF Active
      <3>6. reason' = Decision(outcome')
        BY <1>1, <1>13
      <3> QED
        BY <1>5, <1>6, <1>13, <3>5, <3>6, DecidesInTheEnd
    <2>8. TypeOK'
      BY <1>2, <1>3, <1>6, <1>8, <1>13, <2>3 DEF GInv, TypeOK, Outcomes, Kinds
    <2> QED
      BY <1>9, <1>10, <1>11, <2>4, <2>5, <2>6, <2>7, <2>8 DEF GInv
  <1> QED
    BY <1>12, <1>13

----------------------------------------------------------------------------
(* The theorems                                                            *)

LEMMA GroupsStep ==
    ASSUME GInv, [Next]_vars
    PROVE  GInv'
  <1>1. CASE UNCHANGED vars
    <2>1. GroupKept /\ UNCHANGED <<task, queued, record, timer, interrupts>>
      BY <1>1 DEF vars, planVars, localVars, durableVars, GroupKept
    <2>2. TypeOK'
      BY <2>1 DEF GInv, TypeOK, GroupKept, Branches
    <2>3. Durable' /\ Launched' = Launched
      BY <2>1 DEF GInv, Durable, GroupKept, Branches, Launched
    <2>4. group \in {"off", "over"} => queued' = {}
      BY <2>1 DEF GInv, Off, Still
    <2> QED
      BY <2>1, <2>2, <2>3, <2>4, GroupStands
  <1>2. CASE Next
    BY <1>2, InvokeStep, WakeStep, Leaves, BreakStep, ReportStep, RecordMoves, TaskMoves DEF Next
  <1> QED
    BY <1>1, <1>2

LEMMA GroupsInit == Init => GInv
  <1> SUFFICES ASSUME Init PROVE GInv
    OBVIOUS
  <1>1. PICK w \in Workloads : config = w.config /\ fate = w.fate /\ waits = w.waits
    BY DEF Init
  <1>2. Planned /\ waits \in [Branches -> BOOLEAN] /\ fate \in [Branches -> Fates]
    <2>1. /\ w.fate \in Seq(Fates) /\ w.waits \in Seq(BOOLEAN)
          /\ Len(w.waits) = Len(w.fate) /\ w.config \in Config
          /\ w.config.custom => w.config.min # None
      OBVIOUS
    <2>2. Planned
      BY <1>1, <2>1 DEF Planned
    <2>3. DOMAIN fate = 1 .. Len(fate) /\ DOMAIN waits = 1 .. Len(fate)
          /\ fate \in [DOMAIN fate -> Fates] /\ waits \in [DOMAIN waits -> BOOLEAN]
      BY <1>1, <2>1
    <2> QED
      BY <2>2, <2>3 DEF Branches
  <1>3. TypeOK
    <2>1. /\ task \in [Branches -> Kinds] /\ outcome \in [Branches -> Statuses \ {"CANCELLED"}]
          /\ record \in [Branches -> {"none", "STARTED"} \cup Fates]
          /\ timer \in [Branches -> {"none", "STARTED", "SUCCEEDED"}]
      BY DEF Init, Idle, NoOutcome, Statuses, Kinds
    <2>2. crashes \in 0 .. MaxCrashes /\ interrupts \in 0 .. MaxInterrupts
      BY DEF Init
    <2> QED
      BY <1>2, <2>1, <2>2 DEF Init, TypeOK, Planned, Kinds
  <1>4. Off /\ Looked /\ Durable /\ Still /\ Decided /\ Slots /\ Reports /\ ReportHolds
        /\ Undecided /\ SlotsKept /\ ItemsMatchRecords
    BY DEF Init, Off, Looked, Durable, Still, Decided, Slots, Reports, ReportHolds,
       Undecided, SlotsKept, ItemsMatchRecords, Idle, NoOutcome
  <1> QED
    BY <1>2, <1>3, <1>4 DEF GInv

LEMMA GroupsInvariant == Spec => []GInv
  BY GroupsInit, GroupsStep, PTL DEF Spec

\* Every variable keeps its type; a report gives one of the five reasons, or says that
\* the group failed.
THEOREM GroupsTypeOK == Spec => []TypeOK
  <1>1. GInv => TypeOK
    BY DEF GInv
  <1> QED
    BY <1>1, GroupsInvariant, PTL

\* Never are more branches unfinished than the limit allows, the suspended ones
\* counted in (collect launches one branch for each outcome it has seen).
THEOREM GroupsSlots == Spec => []SlotsKept
  <1>1. GInv => SlotsKept
    BY DEF GInv
  <1> QED
    BY <1>1, GroupsInvariant, PTL

\* What the report says of a NESTED branch agrees with the record of the branch:
\* a success and a failure are durable before the group sees them, whatever is
\* cancelled, interrupted or lost in a crash.
THEOREM GroupsItems == Spec => []ItemsMatchRecords
  <1>1. GInv => ItemsMatchRecords
    BY DEF GInv
  <1> QED
    BY <1>1, GroupsInvariant, PTL

\* The reason of a report is true of the items it is given with, though the items
\* take in what became of the branches after the decision (collect decides on the
\* outcomes it has seen, and gathers the rest).  A group that fails without a report
\* has a branch that broke it, which it has no outcome of (observe raises).
THEOREM GroupsReason == Spec => []ReportIsJustified
  <1>1. GInv => ReportIsJustified
    <2> SUFFICES ASSUME GInv, report # None PROVE ReportIsJustified
      BY DEF ReportIsJustified
    <2>1. /\ report.reason \in Reasons \cup {"break"}
          /\ Justifies(report.reason, report.items)
          /\ report.reason = "break" => Broke
      BY DEF GInv, TypeOK, ReportHolds
    <2>2. CASE report.reason = "MIN_SUCCESSFUL_REACHED"
      BY <2>1, <2>2 DEF Justifies, ReportIsJustified
    <2>3. CASE report.reason = "FAILURE_TOLERANCE_EXCEEDED"
      BY <2>1, <2>3 DEF Justifies, ReportIsJustified
    <2>4. CASE report.reason = "ALL_COMPLETED"
      BY <2>1, <2>4 DEF Justifies, ReportIsJustified
    <2>5. CASE report.reason = "CUSTOM_COMPLETION_SUCCEEDED"
      BY <2>1, <2>5 DEF Justifies, ReportIsJustified
    <2>6. CASE report.reason = "CUSTOM_COMPLETION_FAILED"
      BY <2>1, <2>6 DEF Justifies, ReportIsJustified
    <2>7. CASE report.reason = "break"
      <3>1. PICK b \in Branches : task[b] = "broken"
        BY <2>1, <2>7 DEF Broke
      <3>2. outcome[b] = "none"
        BY <3>1 DEF GInv, TypeOK, Looked, Statuses
      <3> QED
        BY <2>7, <3>1, <3>2 DEF ReportIsJustified
    <2> QED
      BY <2>1, <2>2, <2>3, <2>4, <2>5, <2>6, <2>7 DEF Reasons
  <1> QED
    BY <1>1, GroupsInvariant, PTL

\* No built-in policy leaves a group at rest without a decision: "Completion
\* policy did not finish" is raised for a callback only.
THEOREM GroupsDecide == Spec => [](group = "undecided" => config.custom)
  <1>1. GInv => (group = "undecided" => config.custom)
    BY DEF GInv, Undecided
  <1> QED
    BY <1>1, GroupsInvariant, PTL
===============================================================================
