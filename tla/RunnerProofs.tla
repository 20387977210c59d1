---------------------------- MODULE RunnerProofs ----------------------------
(***************************************************************************)
(* Proofs about the local driver: its types, the race for a callback's      *)
(* record, and the bound on heartbeats, for any operations, durations and   *)
(* budgets.                                                                 *)
(***************************************************************************)
EXTENDS Runner, WellFoundedInduction, TLAPS

\* Every set of naturals that is not empty has its minimum.
LEMMA MinOfNats ==
    ASSUME NEW S \in SUBSET Nat, S # {}
    PROVE  Min(S) \in S /\ \A x \in S : Min(S) <= x
<1> DEFINE R == {ss \in Nat \X Nat : ss[1] < ss[2]}
<1>1. IsWellFoundedOn(R, Nat)
  BY NatLessThanWellFounded, Zenon DEF OpToRel
<1>2. PICK x \in S : \A y \in S : <<y, x>> \notin R
  <2> HIDE DEF R
  <2> QED BY <1>1, WFMin
<1>3. \A y \in S : x <= y
  <2>1. ASSUME NEW y \in S PROVE ~(y < x)
    <3>1. <<y, x>> \notin R
      BY <1>2
    <3> QED
      BY <3>1
  <2> QED
    BY <2>1
<1>4. \E z \in S : \A y \in S : z <= y
  BY <1>3
<1> QED
  BY <1>4 DEF Min

\* The larger of two numbers.
LEMMA MaxOfTwo ==
    ASSUME NEW a \in Nat, NEW b \in Nat
    PROVE  Max({a, b}) \in Nat /\ Max({a, b}) >= a /\ Max({a, b}) \in {a, b}
<1>1. \E z \in {a, b} : \A y \in {a, b} : z >= y
  BY SMT
<1> QED
  BY <1>1 DEF Max

\* A wait that is under way has its deadline.
WaitsAreDue == \A w \in Waits : status[w] = "STARTED" => due[w] \in Nat

\* The driver gives up at the first failure too many.
WithinFailures == drive # "over" => failures <= MaxFailures

\* An invocation knows which operations have a record: it made the new ones.
ViewKnows ==
    drive = "invoking" => \A o \in Ops : view[o] = "none" <=> status[o] = "none"

\* Only a callback that has started has an overall deadline.
DeadlinesBelong == \A c \in Callbacks : status[c] = "none" => deadline[c] = None

IInv == /\ TypeOK /\ WaitsAreDue /\ WithinFailures /\ ViewKnows
        /\ DeadlinesBelong /\ HeartbeatsDoNotExtend

\* The clock never stands behind the wall.
LEMMA ClockType ==
    ASSUME TypeOK
    PROVE  Clock \in Nat /\ Clock >= now
<1>1. /\ wall \in Nat /\ synced \in Nat /\ synced <= wall
      /\ now \in Nat
  BY RunnerAssumption DEF TypeOK
<1> QED
  BY <1>1 DEF Clock

\* The passing of time keeps types, final statuses and absent records.
LEMMA ElapsedFacts ==
    ASSUME TypeOK, NEW t
    PROVE  /\ Elapsed(t) \in [Ops -> Statuses]
           /\ \A o \in Ops : /\ status[o] \in Final => Elapsed(t)[o] = status[o]
                             /\ Elapsed(t)[o] = "none" <=> status[o] = "none"
                             /\ Elapsed(t)[o] = "STARTED" => status[o] = "STARTED"
  BY DEF Elapsed, TypeOK, Statuses, Final

\* The deadline an operation starts with.
LEMMA DueFacts ==
    ASSUME TypeOK, NEW o \in Ops
    PROVE  /\ DueOf(o) \in Nat \cup {None}
           /\ o \in Waits => DueOf(o) \in Nat
           /\ o \in Callbacks /\ config.timeout[o] # 0
                 => DueOf(o) \in Nat /\ DueOf(o) <= now + config.timeout[o]
<1>0. now \in Nat
  BY DEF TypeOK
<1>1. CASE o \in Waits
  <2>1. config.wait[o] \in Nat
    BY <1>1 DEF TypeOK, Config
  <2> QED
    BY <1>0, <1>1, <2>1, RunnerAssumption DEF DueOf
<1>2. CASE o \in Invokes
  BY <1>2, RunnerAssumption DEF DueOf
<1>3. CASE o \in Callbacks
  <2> DEFINE limits == {config.timeout[o], config.beat[o]} \ {0}
  <2>1. config.timeout[o] \in Nat /\ config.beat[o] \in Nat
    BY <1>3 DEF TypeOK, Config
  <2>2. limits \in SUBSET Nat
    BY <2>1
  <2>3. DueOf(o) = IF limits = {} THEN None ELSE now + Min(limits)
    BY <1>3, RunnerAssumption DEF DueOf
  <2>4. limits # {} => Min(limits) \in Nat /\ \A x \in limits : Min(limits) <= x
    BY <2>2, MinOfNats
  <2>5. config.timeout[o] # 0 => config.timeout[o] \in limits
    OBVIOUS
  <2> HIDE DEF limits
  <2> QED
    BY <1>0, <1>3, <2>1, <2>3, <2>4, <2>5, RunnerAssumption
<1> QED
  BY <1>1, <1>2, <1>3 DEF Ops

\* Where the driver jumps to.
LEMMA TargetFacts ==
    ASSUME TypeOK, WaitsAreDue, Pending(Waits) # {}
    PROVE  Max({now, Min(DuesOf(Waits))}) \in Nat
<1>1. PICK w \in Waits : status[w] = "STARTED"
  BY DEF Pending
<1>2. due[w] \in DuesOf(Waits)
  <2>1. due[w] # None
    BY <1>1, RunnerAssumption DEF WaitsAreDue
  <2> QED
    BY <1>1, <2>1 DEF DuesOf, Pending
<1>3. DuesOf(Waits) \in SUBSET Nat
  BY DEF DuesOf, Pending, WaitsAreDue
<1>4. Min(DuesOf(Waits)) \in Nat
  BY <1>2, <1>3, MinOfNats
<1> QED
  BY <1>4, MaxOfTwo DEF TypeOK

\* When the driver's sleep ends.
LEMMA AlarmFacts ==
    ASSUME TypeOK, Sleep
    PROVE  alarm' \in Nat
<1> DEFINE left == {IF d >= now THEN d - now ELSE 0 : d \in DuesOf(Callbacks)}
           rest == IF wall <= Budget THEN Budget - wall ELSE 0
<1>1. wall \in Nat /\ now \in Nat /\ Budget \in Nat
  BY RunnerAssumption DEF TypeOK
<1>2. DuesOf(Callbacks) \in SUBSET Nat
  BY DEF DuesOf, Pending, TypeOK, Ops
<1>3. left \in SUBSET Nat
  <2>1. \A d \in Nat : (IF d >= now THEN d - now ELSE 0) \in Nat
    BY <1>1
  <2> QED
    BY <1>2, <2>1
<1>4. rest \in Nat
  BY <1>1
<1>5. left \cup {rest} \in SUBSET Nat /\ left \cup {rest} # {}
  BY <1>3, <1>4
<1>6. alarm' = wall + Min(left \cup {rest})
  BY DEF Sleep
<1> HIDE DEF left, rest
<1>7. Min(left \cup {rest}) \in Nat
  BY <1>5, MinOfNats
<1> QED
  BY <1>1, <1>6, <1>7

\* The deadline a heartbeat sets.
LEMMA BeatFacts ==
    ASSUME TypeOK, NEW c \in Callbacks,
           NEW d, d = Min({Clock + config.beat[c]} \cup ({deadline[c]} \ {None}))
    PROVE  d \in Nat /\ (deadline[c] # None => d <= deadline[c])
<1> DEFINE set == {Clock + config.beat[c]} \cup ({deadline[c]} \ {None})
<1>1. config.beat[c] \in Nat /\ deadline[c] \in Nat \cup {None}
  BY DEF TypeOK, Config
<1>2. set \in SUBSET Nat /\ set # {}
  BY <1>1, ClockType
<1>3. deadline[c] # None => deadline[c] \in set
  OBVIOUS
<1> HIDE DEF set
<1>4. Min(set) \in set /\ \A x \in set : Min(set) <= x
  BY <1>2, MinOfNats
<1>5. d = Min(set)
  BY DEF set
<1>6. d \in Nat
  BY <1>2, <1>4, <1>5
<1>7. ASSUME deadline[c] # None PROVE d <= deadline[c]
  BY <1>3, <1>4, <1>5, <1>7
<1> QED
  BY <1>6, <1>7

\* The strengthened invariant holds of a new execution.
LEMMA InitInv == Init => IInv
<1> SUFFICES ASSUME Init PROVE IInv
  OBVIOUS
<1>1. TypeOK
  <2>1. config \in Config
    BY RunnerAssumption DEF Init
  <2>2. MaxWall \in Nat /\ MaxFailures \in Nat
    BY RunnerAssumption
  <2>3. /\ wall \in 0 .. MaxWall /\ now \in Nat /\ synced \in 0 .. wall
        /\ alarm \in Nat /\ failures \in 0 .. MaxFailures + 1
    BY <2>2 DEF Init
  <2>4. /\ status \in [Ops -> Statuses] /\ view \in [Ops -> Statuses]
        /\ read \in [Ops -> {"unread", "paused", "done"}]
        /\ due \in [Ops -> Nat \cup {None}]
        /\ deadline \in [Callbacks -> Nat \cup {None}]
    BY DEF Init, NoRecord, Unread, Statuses
  <2> QED
    BY <2>1, <2>3, <2>4 DEF Init, TypeOK
<1>2. WaitsAreDue /\ WithinFailures /\ ViewKnows /\ DeadlinesBelong /\ HeartbeatsDoNotExtend
  BY <1>1, RunnerAssumption
     DEF Init, TypeOK, WaitsAreDue, WithinFailures, ViewKnows, DeadlinesBelong,
         HeartbeatsDoNotExtend, NoRecord, Ops
<1> QED
  BY <1>1, <1>2 DEF IInv

\* Every step of the driver, the handler and the world keeps the types.
LEMMA TypeStep == IInv /\ [Next]_vars => TypeOK'
<1> SUFFICES ASSUME IInv, [Next]_vars PROVE TypeOK'
  OBVIOUS
<1> USE RunnerAssumption
<1>0. TypeOK /\ WaitsAreDue /\ WithinFailures
  BY DEF IInv
<1>1. Clock \in Nat
  BY <1>0, ClockType
<1>2. Elapsed(Clock) \in [Ops -> Statuses]
  BY <1>0, ElapsedFacts
<1>3. CASE Tick
  BY <1>0, <1>3 DEF TypeOK, Tick, backendVars, driverVars, handlerVars
<1>4. ASSUME NEW o \in Ops, Start(o) PROVE TypeOK'
  <2>1. DueOf(o) \in Nat \cup {None}
    BY <1>0, DueFacts
  <2>2. status' \in [Ops -> Statuses] /\ due' \in [Ops -> Nat \cup {None}]
    BY <1>0, <1>4, <2>1 DEF TypeOK, Start, Statuses
  <2>3. deadline' \in [Callbacks -> Nat \cup {None}]
    BY <1>0, <1>4 DEF TypeOK, Start, Config
  <2> QED
    BY <1>0, <1>4, <2>2, <2>3 DEF TypeOK, Start, driverVars
<1>5. ASSUME NEW o \in Ops, Read(o) PROVE TypeOK'
  BY <1>0, <1>5 DEF TypeOK, Read, backendVars, driverVars
<1>6. CASE Checkpoint
  BY <1>0, <1>6 DEF TypeOK, Checkpoint, driverVars
<1> USE DEF Forget, NoRecord, Unread
<1>7. CASE HandlerEnds
  BY <1>0, <1>7 DEF TypeOK, HandlerEnds, backendVars, Statuses
<1>8. CASE HandlerFails
  <2>1. failures' \in 0 .. MaxFailures + 1
    BY <1>0, <1>8 DEF TypeOK, HandlerFails, WithinFailures
  <2> QED
    BY <1>0, <1>8, <2>1 DEF TypeOK, HandlerFails, backendVars, Statuses
<1>9. CASE Invoke
  BY <1>0, <1>9 DEF TypeOK, Invoke, backendVars
<1>10. CASE BudgetSpent
  BY <1>0, <1>10 DEF TypeOK, BudgetSpent, backendVars, handlerVars
<1>11. CASE SkipAhead
  <2>1. now' \in Nat
    BY <1>0, <1>11, TargetFacts DEF SkipAhead
  <2>2. status' \in [Ops -> Statuses]
    BY <1>0, <1>11, ElapsedFacts DEF SkipAhead
  <2>3. synced' = wall /\ wall' = wall
    BY <1>11 DEF SkipAhead
  <2> QED
    BY <1>0, <1>11, <2>1, <2>2, <2>3 DEF TypeOK, SkipAhead, Suspended, Statuses
<1>12. CASE Sleep
  <2>1. alarm' \in Nat
    BY <1>0, <1>12, AlarmFacts
  <2>2. /\ changed' = FALSE /\ drive' = "sleeping" /\ failures' = 0
        /\ UNCHANGED <<config, wall, now, synced, status, due, deadline, outcome, view, read>>
    BY <1>12 DEF Sleep, Suspended, handlerVars
  <2>3. failures' \in 0 .. MaxFailures + 1
    BY <2>2
  <2> QED
    BY <1>0, <2>1, <2>2, <2>3 DEF TypeOK
<1>13. CASE Stall
  BY <1>0, <1>13 DEF TypeOK, Stall, Suspended, backendVars, handlerVars
<1>14. CASE Wake
  BY <1>0, <1>1, <1>2, <1>14 DEF TypeOK, Wake, Sync, Statuses
<1>15. CASE Cancel
  BY <1>0, <1>15 DEF TypeOK, Cancel, backendVars, Statuses
<1>16. ASSUME NEW c \in Callbacks, Answer(c) PROVE TypeOK'
  <2>1. status' \in [Ops -> Statuses]
    BY <1>2, <1>16 DEF Answer, Statuses
  <2> QED
    BY <1>0, <1>1, <1>16, <2>1 DEF TypeOK, Answer, Sync, World, driverVars, handlerVars
<1>17. ASSUME NEW c \in Callbacks, Refuse(c) PROVE TypeOK'
  BY <1>0, <1>1, <1>2, <1>17 DEF TypeOK, Refuse, Sync, World, driverVars, handlerVars
<1>18. ASSUME NEW c \in Callbacks, Heartbeat(c) PROVE TypeOK'
  <2>1. due' \in [Ops -> Nat \cup {None}]
    BY <1>0, <1>18, BeatFacts DEF Heartbeat, TypeOK
  <2> QED
    BY <1>0, <1>1, <1>2, <1>18, <2>1
       DEF TypeOK, Heartbeat, Sync, World, driverVars, handlerVars
<1>19. CASE UNCHANGED vars
  BY <1>0, <1>19 DEF TypeOK, vars, backendVars, driverVars, handlerVars
<1> QED
  BY <1>3, <1>4, <1>5, <1>6, <1>7, <1>8, <1>9, <1>10, <1>11, <1>12, <1>13, <1>14, <1>15,
     <1>16, <1>17, <1>18, <1>19 DEF Next

\* Answers, timeouts and jumps leave final records and absent ones alone; only
\* Start makes a record.
LEMMA StatusStep ==
    ASSUME TypeOK, ViewKnows, [Next]_vars
    PROVE  /\ \A o \in Ops : status[o] \in Final => status'[o] = status[o]
           /\ \A o \in Ops : status'[o] = "none" => status[o] = "none"
           /\ \A o \in Ops : status[o] = "none" /\ status'[o] # "none" =>
                 drive = "invoking" /\ drive' = "invoking" /\ view' = status'
<1> USE DEF Final
<1>1. ASSUME NEW o \in Ops, Start(o) PROVE
        /\ \A p \in Ops : status[p] \in Final => status'[p] = status[p]
        /\ \A p \in Ops : status'[p] = "none" => status[p] = "none"
        /\ drive = "invoking" /\ drive' = "invoking" /\ view' = status'
  <2>1. status[o] = "none"
    BY <1>1 DEF Start, ViewKnows
  <2>2. status' = [status EXCEPT ![o] = status'[o]] /\ status'[o] # "none"
    BY <1>1 DEF Start, TypeOK
  <2> QED
    BY <1>1, <2>1, <2>2 DEF Start, driverVars, TypeOK
<1>2. ASSUME NEW t, status' = Elapsed(t) PROVE
        /\ \A p \in Ops : status[p] \in Final => status'[p] = status[p]
        /\ \A p \in Ops : status'[p] = "none" <=> status[p] = "none"
  BY <1>2, ElapsedFacts
<1>3. CASE SkipAhead
  <2>1. status' = Elapsed(Max({now, Min(DuesOf(Waits))}))
    BY <1>3 DEF SkipAhead
  <2> QED
    BY <1>2, <2>1
<1>4. CASE Wake
  BY <1>2, <1>4 DEF Wake
<1>5. ASSUME NEW c \in Callbacks, Answer(c) PROVE
        /\ \A p \in Ops : status[p] \in Final => status'[p] = status[p]
        /\ \A p \in Ops : status'[p] = "none" <=> status[p] = "none"
  <2>1. PICK s \in {"SUCCEEDED", "FAILED"} : status' = [Elapsed(Clock) EXCEPT ![c] = s]
    BY <1>5 DEF Answer
  <2>2. Elapsed(Clock)[c] = "STARTED"
    BY <1>5 DEF Answer, Active
  <2> QED
    BY <2>1, <2>2, ElapsedFacts DEF Ops
<1>6. ASSUME NEW c \in Callbacks, Refuse(c) \/ Heartbeat(c) PROVE
        /\ \A p \in Ops : status[p] \in Final => status'[p] = status[p]
        /\ \A p \in Ops : status'[p] = "none" <=> status[p] = "none"
  BY <1>2, <1>6 DEF Refuse, Heartbeat
<1>7. CASE UNCHANGED status
  BY <1>7
<1>8. ASSUME NEW o \in Ops, Read(o) PROVE UNCHANGED status
  BY <1>8 DEF Read, backendVars
<1>9. \/ UNCHANGED vars \/ Tick \/ Checkpoint \/ HandlerEnds \/ HandlerFails \/ Invoke
      \/ BudgetSpent \/ Sleep \/ Stall \/ Cancel
      => UNCHANGED status
  BY DEF vars, Tick, Checkpoint, HandlerEnds, HandlerFails, Invoke, BudgetSpent, Sleep,
         Stall, Cancel, backendVars
<1> QED
  BY <1>1, <1>3, <1>4, <1>5, <1>6, <1>7, <1>8, <1>9 DEF Next

\* The handler never knows a record that the backend does not hold.
LEMMA ViewStep == IInv /\ [Next]_vars => ViewKnows'
<1> SUFFICES ASSUME IInv, [Next]_vars, drive' = "invoking", NEW o \in Ops
             PROVE  view'[o] = "none" <=> status'[o] = "none"
  BY DEF ViewKnows
<1>0. TypeOK /\ ViewKnows
  BY DEF IInv
<1>1. CASE view' = status'
  BY <1>1
<1>2. CASE drive = "invoking" /\ UNCHANGED view
  BY <1>0, <1>2, StatusStep DEF ViewKnows
<1>3. \/ view' = status'
      \/ drive = "invoking" /\ UNCHANGED view
  <2>1. ASSUME NEW p \in Ops, Start(p) \/ Read(p) 
        PROVE view' = status' \/ (drive = "invoking" /\ UNCHANGED view)
    BY <2>1 DEF Start, Read, driverVars
  <2>2. Checkpoint \/ Invoke => view' = status'
    BY DEF Checkpoint, Invoke, backendVars
  <2>3. ASSUME NEW c \in Callbacks, Answer(c) \/ Refuse(c) \/ Heartbeat(c)
        PROVE drive = "invoking" /\ UNCHANGED view
    BY <2>3 DEF Answer, Refuse, Heartbeat, World, driverVars, handlerVars
  <2>4. UNCHANGED vars \/ Tick => drive = "invoking" /\ UNCHANGED view
    BY DEF vars, Tick, driverVars, handlerVars
  <2>5. HandlerEnds \/ HandlerFails \/ BudgetSpent \/ SkipAhead \/ Sleep \/ Stall \/ Wake
            \/ Cancel => FALSE
    BY DEF HandlerEnds, HandlerFails, BudgetSpent, SkipAhead, Sleep, Stall, Wake, Cancel
  <2> QED
    BY <2>1, <2>2, <2>3, <2>4, <2>5 DEF Next
<1> QED
  BY <1>1, <1>2, <1>3

\* What a step does to the deadlines.
LEMMA DeadlineStep ==
    ASSUME TypeOK, ViewKnows, WaitsAreDue, DeadlinesBelong, HeartbeatsDoNotExtend,
           [Next]_vars
    PROVE  WaitsAreDue' /\ DeadlinesBelong' /\ HeartbeatsDoNotExtend'
<1>0. \A o \in Ops : status'[o] = "none" => status[o] = "none"
  BY StatusStep
<1>1. ASSUME NEW o \in Ops, Start(o)
      PROVE  WaitsAreDue' /\ DeadlinesBelong' /\ HeartbeatsDoNotExtend'
  <2>1. /\ due' = [due EXCEPT ![o] = DueOf(o)]
        /\ \A p \in Ops : p # o => status'[p] = status[p]
        /\ deadline' = IF o \in Callbacks /\ config.timeout[o] # 0
                       THEN [deadline EXCEPT ![o] = now + config.timeout[o]] ELSE deadline
        /\ status[o] = "none" /\ status'[o] # "none"
    BY <1>1 DEF Start, TypeOK, ViewKnows
  <2>2. WaitsAreDue'
    <3> SUFFICES ASSUME NEW w \in Waits, status'[w] = "STARTED" PROVE due'[w] \in Nat
      BY DEF WaitsAreDue
    <3> QED
      BY <2>1, DueFacts DEF WaitsAreDue, TypeOK, Ops
  <2>3. HeartbeatsDoNotExtend'
    <3> SUFFICES ASSUME NEW c \in Callbacks, deadline'[c] # None
                 PROVE  due'[c] # None /\ due'[c] <= deadline'[c]
      BY DEF HeartbeatsDoNotExtend
    <3>1. CASE c = o /\ config.timeout[o] # 0
      <4>1. DueOf(o) \in Nat /\ DueOf(o) <= now + config.timeout[o]
        BY <3>1, DueFacts
      <4>2. due'[c] = DueOf(o) /\ deadline'[c] = now + config.timeout[o]
        BY <2>1, <3>1 DEF TypeOK, Ops
      <4> QED
        BY <4>1, <4>2, RunnerAssumption
    <3>2. CASE c # o
      BY <2>1, <3>2 DEF TypeOK, Ops, HeartbeatsDoNotExtend
    <3>3. CASE c = o /\ config.timeout[o] = 0
      BY <2>1, <3>3 DEF DeadlinesBelong
    <3> QED
      BY <3>1, <3>2, <3>3
  <2>4. DeadlinesBelong'
    BY <1>0, <2>1 DEF DeadlinesBelong, Ops
  <2> QED
    BY <2>2, <2>3, <2>4
<1>2. ASSUME UNCHANGED deadline,
             \A o \in Ops : status'[o] = "STARTED" => status[o] = "STARTED",
             \A w \in Waits : due'[w] = due[w]
      PROVE  WaitsAreDue' /\ DeadlinesBelong'
  BY <1>0, <1>2 DEF WaitsAreDue, DeadlinesBelong, Ops
<1>3. CASE /\ UNCHANGED <<due, deadline>>
           /\ \A o \in Ops : status'[o] = "STARTED" => status[o] = "STARTED"
  <2>1. HeartbeatsDoNotExtend'
    BY <1>3 DEF HeartbeatsDoNotExtend
  <2> QED
    BY <1>2, <1>3, <2>1
<1>4. ASSUME NEW c \in Callbacks, Heartbeat(c)
      PROVE  WaitsAreDue' /\ DeadlinesBelong' /\ HeartbeatsDoNotExtend'
  <2>1. /\ UNCHANGED deadline
        /\ \A o \in Ops : status'[o] = "STARTED" => status[o] = "STARTED"
    BY <1>4, ElapsedFacts DEF Heartbeat
  <2>2. \A o \in Ops : o # c => due'[o] = due[o]
    BY <1>4 DEF Heartbeat, TypeOK
  <2>3. \A w \in Waits : due'[w] = due[w]
    BY <2>2, RunnerAssumption DEF Ops
  <2>4. deadline[c] # None => due'[c] # None /\ due'[c] <= deadline[c]
    <3>1. CASE config.beat[c] = 0
      BY <1>4, <3>1 DEF Heartbeat, TypeOK, Ops, HeartbeatsDoNotExtend
    <3>2. CASE config.beat[c] # 0
      <4>1. due'[c] = Min({Clock + config.beat[c]} \cup ({deadline[c]} \ {None}))
        BY <1>4, <3>2 DEF Heartbeat, TypeOK, Ops
      <4>2. due'[c] \in Nat /\ (deadline[c] # None => due'[c] <= deadline[c])
        BY <4>1, BeatFacts
      <4> QED
        BY <4>2, RunnerAssumption
    <3> QED
      BY <3>1, <3>2
  <2>5. HeartbeatsDoNotExtend'
    <3> SUFFICES ASSUME NEW k \in Callbacks, deadline'[k] # None
                 PROVE  due'[k] # None /\ due'[k] <= deadline'[k]
      BY DEF HeartbeatsDoNotExtend
    <3> QED
      BY <2>1, <2>2, <2>4 DEF HeartbeatsDoNotExtend, Ops
  <2> QED
    BY <1>2, <2>1, <2>3, <2>5
<1>5. ASSUME NEW c \in Callbacks, Answer(c)
      PROVE  /\ UNCHANGED <<due, deadline>>
             /\ \A o \in Ops : status'[o] = "STARTED" => status[o] = "STARTED"
  <2>1. PICK s \in {"SUCCEEDED", "FAILED"} : status' = [Elapsed(Clock) EXCEPT ![c] = s]
    BY <1>5 DEF Answer
  <2> QED
    BY <1>5, <2>1, ElapsedFacts DEF Answer
<1>6. ASSUME NEW t, status' = Elapsed(t)
      PROVE  \A o \in Ops : status'[o] = "STARTED" => status[o] = "STARTED"
  BY <1>6, ElapsedFacts
<1>7. SkipAhead => /\ UNCHANGED <<due, deadline>>
                   /\ \A o \in Ops : status'[o] = "STARTED" => status[o] = "STARTED"
  <2>1. SkipAhead => /\ UNCHANGED <<due, deadline>>
                     /\ status' = Elapsed(Max({now, Min(DuesOf(Waits))}))
    BY DEF SkipAhead
  <2> QED
    BY <1>6, <2>1
<1>8. ASSUME NEW c \in Callbacks, Wake \/ Refuse(c)
      PROVE  UNCHANGED <<due, deadline>> /\ status' = Elapsed(Clock)
  BY <1>8 DEF Wake, Refuse
<1>9. Wake => UNCHANGED <<due, deadline>> /\ status' = Elapsed(Clock)
  BY DEF Wake
<1>10. ASSUME NEW o \in Ops, Read(o) PROVE UNCHANGED <<due, deadline, status>>
  BY <1>10 DEF Read, backendVars
<1>11. \/ UNCHANGED vars \/ Tick \/ Checkpoint \/ HandlerEnds \/ HandlerFails \/ Invoke
       \/ BudgetSpent \/ Sleep \/ Stall \/ Cancel
       => UNCHANGED <<due, deadline, status>>
  BY DEF vars, Tick, Checkpoint, HandlerEnds, HandlerFails, Invoke, BudgetSpent, Sleep,
         Stall, Cancel, backendVars
<1> QED
  BY <1>1, <1>3, <1>4, <1>5, <1>6, <1>7, <1>8, <1>9, <1>10, <1>11 DEF Next

\* Only a failed invocation that may be retried is counted.
LEMMA FailuresStep == IInv /\ [Next]_vars => WithinFailures'
<1> SUFFICES ASSUME IInv, [Next]_vars, drive' # "over" PROVE failures' <= MaxFailures
  BY DEF WithinFailures
<1>0. MaxFailures \in Nat /\ failures \in Nat
  BY RunnerAssumption DEF IInv, TypeOK
<1>1. drive # "over" => failures <= MaxFailures
  BY DEF IInv, WithinFailures
<1>2. HandlerFails => failures' <= MaxFailures
  BY <1>0 DEF HandlerFails
<1>3. Suspended => failures' <= MaxFailures
  BY <1>0 DEF Suspended
<1>4. ASSUME NEW o \in Ops, Start(o) \/ Read(o) PROVE drive # "over" /\ UNCHANGED failures
  BY <1>4 DEF Start, Read, driverVars
<1>5. ASSUME NEW c \in Callbacks, Answer(c) \/ Refuse(c) \/ Heartbeat(c)
      PROVE  drive # "over" /\ UNCHANGED failures
  BY <1>5 DEF Answer, Refuse, Heartbeat, World, driverVars
<1>6. UNCHANGED vars \/ Tick \/ Checkpoint \/ Invoke \/ Wake \/ Cancel
      => drive # "over" /\ UNCHANGED failures
  BY DEF vars, Tick, Checkpoint, Invoke, Wake, Cancel, driverVars
<1>7. HandlerEnds \/ BudgetSpent => FALSE
  BY DEF HandlerEnds, BudgetSpent
<1> QED
  BY <1>1, <1>2, <1>3, <1>4, <1>5, <1>6, <1>7 DEF Next, SkipAhead, Sleep, Stall

\* The driver's invariant, for any operations, durations and budgets.
THEOREM RunnerInv == Spec => []IInv
<1>1. IInv /\ [Next]_vars => IInv'
  BY TypeStep, ViewStep, DeadlineStep, FailuresStep DEF IInv
<1> QED
  BY InitInv, <1>1, PTL DEF Spec

\* Every variable of the driver, the backend and the invocation has its type.
THEOREM RunnerTypeOK == Spec => []TypeOK
<1>1. IInv => TypeOK
  BY DEF IInv
<1> QED
  BY <1>1, RunnerInv, PTL

\* No heartbeat moves a callback's deadline past its overall timeout.
THEOREM RunnerHeartbeats == Spec => []HeartbeatsDoNotExtend
<1>1. IInv => HeartbeatsDoNotExtend
  BY DEF IInv
<1> QED
  BY <1>1, RunnerInv, PTL

\* Whoever wins the race for a record, it stays with him.
THEOREM RunnerFinal == Spec => FinalIsFinal
<1>1. IInv /\ [Next]_vars => [\A o \in Ops : status[o] \in Final => status'[o] = status[o]]_vars
  BY StatusStep DEF IInv
<1> QED
  BY <1>1, RunnerInv, PTL DEF Spec, FinalIsFinal

\* A late answer does not count.
THEOREM RunnerAnswers == Spec => AnswersInTime
<1> DEFINE InTime == \A c \in Callbacks :
          status[c] = "STARTED" /\ status'[c] \in {"SUCCEEDED", "FAILED"}
              => due[c] = None \/ Clock < due[c]
<1>1. ASSUME IInv, [Next]_vars PROVE InTime
  <2> SUFFICES ASSUME NEW c \in Callbacks, status[c] = "STARTED",
                      status'[c] \in {"SUCCEEDED", "FAILED"}
               PROVE  due[c] = None \/ Clock < due[c]
    OBVIOUS
  <2>0. TypeOK /\ ViewKnows /\ c \in Ops /\ c \notin Waits
    BY <1>1, RunnerAssumption DEF IInv, Ops
  <2>1. \A t : Elapsed(t)[c] \in {"STARTED", "TIMED_OUT"}
    BY <2>0 DEF Elapsed
  <2>2. ASSUME NEW k \in Callbacks, Answer(k) PROVE due[c] = None \/ Clock < due[c]
    <3>1. PICK s : status' = [Elapsed(Clock) EXCEPT ![k] = s]
      BY <2>2 DEF Answer
    <3>2. c = k
      BY <2>1, <3>1 DEF Elapsed
    <3>3. Elapsed(Clock)[c] = "STARTED"
      BY <2>2, <3>2 DEF Answer, Active
    <3>4. due[c] = None \/ ~(Clock >= due[c])
      BY <2>0, <3>3 DEF Elapsed
    <3>5. due[c] \in Nat \cup {None} /\ Clock \in Nat
      BY <2>0, ClockType DEF TypeOK
    <3> QED
      BY <3>4, <3>5
  <2>3. ASSUME NEW o \in Ops, Start(o) PROVE FALSE
    <3>1. status[o] = "none"
      BY <2>0, <2>3 DEF Start, ViewKnows
    <3> QED
      BY <2>0, <2>3, <3>1 DEF Start, TypeOK
  <2>4. ASSUME NEW k \in Callbacks, Refuse(k) \/ Heartbeat(k) PROVE FALSE
    BY <2>1, <2>4 DEF Refuse, Heartbeat
  <2>5. Wake => FALSE
    BY <2>1 DEF Wake
  <2>6. SkipAhead => FALSE
    <3>1. SkipAhead => status' = Elapsed(Max({now, Min(DuesOf(Waits))}))
      BY DEF SkipAhead
    <3> QED
      BY <2>1, <3>1
  <2>7. ASSUME NEW o \in Ops, Read(o) PROVE FALSE
    BY <2>7 DEF Read, backendVars
  <2>8. \/ UNCHANGED vars \/ Tick \/ Checkpoint \/ HandlerEnds \/ HandlerFails \/ Invoke
        \/ BudgetSpent \/ Sleep \/ Stall \/ Cancel
        => FALSE
    BY DEF vars, Tick, Checkpoint, HandlerEnds, HandlerFails, Invoke, BudgetSpent, Sleep,
           Stall, Cancel, backendVars
  <2> QED
    BY <1>1, <2>2, <2>3, <2>4, <2>5, <2>6, <2>7, <2>8 DEF Next
<1>2. IInv /\ [Next]_vars => [InTime]_vars
  BY <1>1
<1> QED
  BY <1>2, RunnerInv, PTL DEF Spec, AnswersInTime

\* No durable timer is jumped over: the only step that moves the clock while it
\* takes the driver from an invocation to the next goes to the earliest one
\* (_drive, the jump to the first due wait).
THEOREM RunnerTimers == Spec => TimersInOrder
<1> DEFINE InOrder == drive = "invoking" /\ drive' = "loop" /\ now' # now =>
                          \A w \in Waits : status[w] = "STARTED" => due[w] >= now'
<1>1. ASSUME IInv, [Next]_vars PROVE InOrder
  <2> SUFFICES ASSUME drive = "invoking", drive' = "loop", now' # now,
                      NEW w \in Waits, status[w] = "STARTED"
               PROVE  due[w] >= now'
    OBVIOUS
  <2>1. TypeOK /\ WaitsAreDue /\ now \in Nat /\ due[w] \in Nat
    BY <1>1 DEF IInv, WaitsAreDue, TypeOK
  <2>2. DuesOf(Waits) \in SUBSET Nat /\ due[w] \in DuesOf(Waits)
    <3>1. due[w] # None
      BY <2>1, RunnerAssumption
    <3>2. due[w] \in DuesOf(Waits)
      BY <3>1 DEF DuesOf, Pending
    <3>3. \A v \in Waits : status[v] = "STARTED" => due[v] \in Nat
      BY <2>1 DEF WaitsAreDue
    <3> QED
      BY <3>2, <3>3 DEF DuesOf, Pending
  <2>3. Min(DuesOf(Waits)) \in Nat /\ Min(DuesOf(Waits)) <= due[w]
    BY <2>2, MinOfNats
  <2>4. SkipAhead
    <3>1. ASSUME NEW o \in Ops, Start(o) \/ Read(o) PROVE FALSE
      BY <3>1 DEF Start, Read, backendVars, driverVars
    <3>2. ASSUME NEW c \in Callbacks, Answer(c) \/ Refuse(c) \/ Heartbeat(c) PROVE FALSE
      BY <3>2 DEF Answer, Refuse, Heartbeat, World, driverVars
    <3>3. ~(Tick \/ Checkpoint \/ HandlerEnds \/ HandlerFails \/ Invoke \/ BudgetSpent
            \/ Sleep \/ Stall \/ Wake \/ Cancel \/ UNCHANGED vars)
      BY DEF Tick, Checkpoint, HandlerEnds, HandlerFails, Invoke, BudgetSpent, Sleep, Stall,
             Wake, Cancel, vars, backendVars, driverVars
    <3> QED
      BY <1>1, <3>1, <3>2, <3>3 DEF Next
  <2>5. now' = Max({now, Min(DuesOf(Waits))})
    BY <2>4 DEF SkipAhead
  <2>6. now' \in {now, Min(DuesOf(Waits))}
    BY <2>1, <2>3, <2>5, MaxOfTwo
  <2>7. now' = Min(DuesOf(Waits))
    BY <2>6
  <2> QED
    BY <2>3, <2>7
<1>2. IInv /\ [Next]_vars => [InOrder]_vars
  BY <1>1
<1> QED
  BY <1>2, RunnerInv, PTL DEF Spec, TimersInOrder
=============================================================================
