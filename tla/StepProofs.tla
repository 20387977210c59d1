---------------------------- MODULE StepProofs ----------------------------
(***************************************************************************)
(* The durable step at every size: any number of environments, of attempts, *)
(* of faults and of cuts.                                                   *)
(***************************************************************************)
EXTENDS Step, TLAPS

----------------------------------------------------------------------------
(* The inductive invariant                                                 *)

Final(r) == r.status \in {"SUCCEEDED", "FAILED"}

\* The START of attempt n is in the record, or the record has moved past it.
Passed(n) == \/ entry.attempt >= n
             \/ entry.status = "STARTED" /\ entry.attempt + 1 = n

\* A record that is not final leaves room for another attempt; a final one
\* carries the result its status stands for.
Sound(r) ==
    /\ ~Final(r) => r.attempt < MaxAttempts
    /\ r.status = "SUCCEEDED" => r.result \in Values
    /\ r.status = "FAILED" => r.result \in Errors

Records == Sound(entry) /\ \A i \in Slots : Sound(view[i])

\* The places of an effect and the update it is about.
Protocol ==
    \A i \in Slots :
        /\ pc[i] = "effect" => wire[i] = "none"
        /\ pc[i] = "starting" => request[i].action = "START"
        /\ pc[i] = "settling" => request[i].action \in {"SUCCEED", "FAIL"}
        /\ wire[i] = "sent" =>
              /\ request[i].action # "none"
              /\ request[i].action # "START" => pc[i] \notin {"effect", "starting", "body"}
              /\ request[i].action = "RETRY" => Attempt(i) < MaxAttempts
        /\ request[i].action = "SUCCEED" => request[i].result \in Values
        /\ request[i].action = "FAIL" => request[i].result \in Errors

\* An invocation whose lease is current works on the attempt of the record.
Engaged(i) == wire[i] = "sent" \/ pc[i] \in {"effect", "starting", "body"}
Lease ==
    \A i \in Slots :
        /\ token[i] <= seq
        /\ Engaged(i) /\ token[i] = seq => view[i].attempt = entry.attempt

\* What an invocation has seen or begun stays true of the record.
Begun ==
    \A i \in Slots :
        /\ Final(view[i]) => entry = view[i]
        /\ view[i].status = "STARTED" => Passed(Attempt(i))
        /\ pc[i] = "starting" /\ wire[i] = "ok" => Passed(Attempt(i))
        /\ pc[i] = "body" => Passed(Attempt(i))

\* An acknowledged verdict is the record's, and so is a delivered one.
Verdicts ==
    /\ \A i \in Slots : pc[i] = "settling" /\ wire[i] = "ok" =>
          /\ entry.status = IF request[i].action = "SUCCEED" THEN "SUCCEEDED" ELSE "FAILED"
          /\ entry.result = request[i].result
    /\ DeliveredIsDurable

\* An attempt has one acknowledged START, and its body runs once after it.
Opened(i) == pc[i] = "starting" /\ wire[i] = "ok"
Once ==
    /\ \A n \in Attempts : runs[n] > 0 => Passed(n)
    /\ config.atMostOnce =>
          /\ \A n \in Attempts : runs[n] <= 1
          /\ \A i \in Slots : Opened(i) =>
                /\ Attempt(i) \in Attempts => runs[Attempt(i)] = 0
                /\ \A j \in Slots : Opened(j) /\ Attempt(j) = Attempt(i) => j = i

IInv == TypeOK /\ Records /\ Protocol /\ Lease /\ Begun /\ Verdicts /\ Once

----------------------------------------------------------------------------
(* Every step preserves each part                                          *)

\* No record and no request are values of their types.
LEMMA EmptyRecords == NoEntry \in Entry /\ NoUpdate \in Requests
  BY StepAssumption DEF NoEntry, NoUpdate, Update, Entry, Requests

\* What leaves a slot keeps the types.
LEMMA LeaveTypes ==
    ASSUME TypeOK, NEW i \in Slots, Leave(i), over' \in BOOLEAN, failures' \in Nat,
           faults' \in 0 .. MaxFaults, cuts' \in 0 .. MaxCuts
    PROVE  TypeOK'
<1>1. current' \in Slots \cup {None}
  BY DEF TypeOK, Leave
<1>2. view' \in [Slots -> Entry] /\ request' \in [Slots -> Requests]
  <2>1. CASE wire[i] = "sent"
    BY <2>1 DEF TypeOK, Leave
  <2>2. CASE wire[i] # "sent"
    <3>1. /\ view' = [view EXCEPT ![i] = NoEntry]
          /\ request' = [request EXCEPT ![i] = NoUpdate]
      BY <2>2 DEF Leave
    <3>2. view \in [Slots -> Entry] /\ request \in [Slots -> Requests]
      BY DEF TypeOK
    <3>3. QED
      BY <3>1, <3>2, EmptyRecords
  <2>3. QED
    BY <2>1, <2>2
<1>3. /\ token' \in [Slots -> Nat]
      /\ wire' \in [Slots -> {"none", "sent", "ok", "refused"}]
  BY DEF TypeOK, Leave
<1>4. out' \in [Slots -> Values \cup Errors \cup Uncheckpointed
                           \cup {"callable", "broken", None}]
  BY DEF TypeOK, Leave
<1>5. pc' \in [Slots -> {"off", "effect", "starting", "body", "settling", "retrying",
                         "paused", "delivered", "cancelled"}]
  BY DEF TypeOK, Leave
<1>6. UNCHANGED <<config, entry, seq, runs>>
  BY DEF Leave, backendVars
<1>7. QED
  BY <1>1, <1>2, <1>3, <1>4, <1>5, <1>6 DEF TypeOK

\* The decision on a failed attempt keeps the types.
LEMMA SettleTypes ==
    ASSUME TypeOK, NEW i \in Slots, NEW e \in Errors, Settle(i, e)
    PROVE  TypeOK'
<1>1. PICK u \in Requests, next \in {"retrying", "settling"} :
          /\ request' = [request EXCEPT ![i] = u]
          /\ pc' = [pc EXCEPT ![i] = next]
          /\ wire' = [wire EXCEPT ![i] = "sent"]
          /\ UNCHANGED <<out, runs>> /\ Rest
  <2>1. /\ Update("RETRY", None) \in Requests
        /\ Update("FAIL", e) \in Requests
        /\ Update("FAIL", "plain") \in Requests
    BY DEF Update, Requests, Errors, Failures
  <2>2. QED
    BY <2>1 DEF Settle, Commit
<1>2. request' \in [Slots -> Requests]
  BY <1>1 DEF TypeOK
<1>3. /\ pc' \in [Slots -> {"off", "effect", "starting", "body", "settling", "retrying",
                            "paused", "delivered", "cancelled"}]
      /\ wire' \in [Slots -> {"none", "sent", "ok", "refused"}]
  BY <1>1 DEF TypeOK
<1>4. QED
  BY <1>1, <1>2, <1>3 DEF TypeOK, Rest, backendVars, driverVars

\* A start of a body keeps the types.
LEMMA RunBodyTypes ==
    ASSUME TypeOK, NEW i \in Slots, RunBody(i), Rest
    PROVE  TypeOK'
<1>1. runs' \in [Attempts -> 0 .. 2]
  <2>1. runs \in [Attempts -> 0 .. 2]
    BY DEF TypeOK
  <2>2. runs' = [n \in Attempts |-> IF n = Attempt(i)
                                    THEN IF runs[n] = 0 THEN 1 ELSE 2 ELSE runs[n]]
    BY <2>1 DEF RunBody
  <2>3. QED
    BY <2>1, <2>2
<1>2. pc' \in [Slots -> {"off", "effect", "starting", "body", "settling", "retrying",
                         "paused", "delivered", "cancelled"}]
  BY DEF TypeOK, RunBody
<1>3. QED
  BY <1>1, <1>2 DEF TypeOK, RunBody, Rest, backendVars, driverVars

\* An applied update leaves a record of the right type.
LEMMA AppliedType ==
    ASSUME TypeOK, Records, Protocol, NEW i \in Slots, TransactApplies(i)
    PROVE  entry' \in Entry
<1> DEFINE u == request[i]
<1>1. /\ u \in Requests /\ u.action # "none"
      /\ entry' = Applied(u) /\ Legal(u) /\ entry \in Entry
  BY DEF TypeOK, Protocol, TransactApplies
<1>2. CASE u.action = "START"
  BY <1>1, <1>2 DEF Applied, Entry
<1>3. CASE u.action # "START"
  <2>1. entry.attempt + 1 \in 0 .. MaxAttempts
    BY <1>1, <1>3, StepAssumption DEF Legal, Records, Sound, Final, Entry
  <2>2. u.action \in {"SUCCEED", "FAIL", "RETRY"} /\ u.result \in Values \cup Errors \cup {None}
    BY <1>1, <1>3 DEF Requests
  <2>3. QED
    BY <1>1, <1>3, <2>1, <2>2 DEF Applied, Entry
<1>4. QED
  BY <1>2, <1>3

\* Types: the record's attempt stays in range because only an open record is
\* counted up.
LEMMA TypeStep ==
    ASSUME IInv, [Next]_vars
    PROVE  TypeOK'
<1>0. TypeOK /\ Records /\ Protocol
  BY DEF IInv
<1> USE <1>0, StepAssumption DEF TypeOK, Entry, Requests, Errors, Failures,
     Uncheckpointed, Attempts, vars, backendVars, driverVars, effectVars
<1>1. ASSUME NEW i \in Slots, Invoke(i) PROVE TypeOK'
  BY <1>1 DEF Invoke, NoUpdate, Update
<1>2. ASSUME NEW i \in Slots, HandlerEnds(i) PROVE TypeOK'
  <2>1. /\ Leave(i) /\ over' \in BOOLEAN /\ failures' \in Nat
        /\ faults' \in 0 .. MaxFaults /\ cuts' \in 0 .. MaxCuts
    BY <1>2 DEF HandlerEnds, Leave
  <2>2. QED
    BY <2>1, LeaveTypes
<1>3. ASSUME NEW i \in Slots, HandlerSuspends(i) PROVE TypeOK'
  <2>1. /\ Leave(i) /\ over' \in BOOLEAN /\ failures' \in Nat
        /\ faults' \in 0 .. MaxFaults /\ cuts' \in 0 .. MaxCuts
    BY <1>3 DEF HandlerSuspends, Leave
  <2>2. QED
    BY <2>1, LeaveTypes
<1>4. ASSUME NEW i \in Slots, HandlerFails(i) PROVE TypeOK'
  <2>1. /\ Leave(i) /\ over' \in BOOLEAN /\ failures' \in Nat
        /\ faults' \in 0 .. MaxFaults /\ cuts' \in 0 .. MaxCuts
    BY <1>4 DEF HandlerFails, Leave
  <2>2. QED
    BY <2>1, LeaveTypes
<1>5. ASSUME NEW i \in Slots, Crash(i) PROVE TypeOK'
  <2>1. /\ Leave(i) /\ over' \in BOOLEAN /\ failures' \in Nat
        /\ faults' \in 0 .. MaxFaults /\ cuts' \in 0 .. MaxCuts
    BY <1>5 DEF Crash, Leave
  <2>2. QED
    BY <2>1, LeaveTypes
<1>6. ASSUME NEW i \in Slots, TransactApplies(i) PROVE TypeOK'
  <2>1. entry' \in Entry
    BY <1>6, AppliedType
  <2>2. QED
    BY <1>6, <2>1 DEF TransactApplies, Answer
<1>7. ASSUME NEW i \in Slots, TransactRefuses(i) PROVE TypeOK'
  BY <1>7 DEF TransactRefuses, Answer
<1>8. ASSUME NEW i \in Slots, LoseAnswer(i) PROVE TypeOK'
  BY <1>8 DEF LoseAnswer, Answer
<1>9. ASSUME NEW i \in Slots, EffectReplay(i) PROVE TypeOK'
  BY <1>9 DEF EffectReplay, Deliver, Rest, Reraised
<1>10. ASSUME NEW i \in Slots, EffectPauses(i) PROVE TypeOK'
  BY <1>10 DEF EffectPauses, Rest
<1>11. ASSUME NEW i \in Slots, EffectStarts(i) PROVE TypeOK'
  BY <1>11 DEF EffectStarts, Commit, Rest, Update
<1>12. ASSUME NEW i \in Slots, StartAcked(i) PROVE TypeOK'
  BY <1>12, RunBodyTypes DEF StartAcked
<1>13. ASSUME NEW i \in Slots, EffectResumes(i) PROVE TypeOK'
  BY <1>13, RunBodyTypes DEF EffectResumes
<1>14. ASSUME NEW i \in Slots, EffectInterrupted(i) PROVE TypeOK'
  BY <1>14, SettleTypes DEF EffectInterrupted
<1>15. ASSUME NEW i \in Slots, BodyReturns(i) PROVE TypeOK'
  BY <1>15 DEF BodyReturns, Commit, Rest, Update
<1>16. ASSUME NEW i \in Slots, BodyAgain(i) PROVE TypeOK'
  BY <1>16 DEF BodyAgain, Commit, Rest, Update
<1>17. ASSUME NEW i \in Slots, BodyFails(i) PROVE TypeOK'
  BY <1>17, SettleTypes DEF BodyFails
<1>18. ASSUME NEW i \in Slots, BodyRaises(i) PROVE TypeOK'
  BY <1>18 DEF BodyRaises, Deliver, Rest
<1>19. ASSUME NEW i \in Slots, RetryAcked(i) PROVE TypeOK'
  BY <1>19 DEF RetryAcked, Rest
<1>20. ASSUME NEW i \in Slots, VerdictAcked(i) PROVE TypeOK'
  BY <1>20 DEF VerdictAcked, Deliver, Rest, Verdict, Raised, Reraised
<1>21. ASSUME NEW i \in Slots, CommitRaises(i) PROVE TypeOK'
  BY <1>21 DEF CommitRaises, Deliver, Rest
<1>22. ASSUME NEW i \in Slots, Cancel(i) PROVE TypeOK'
  BY <1>22 DEF Cancel
<1>23. CASE Advance
  BY <1>23 DEF Advance
<1>24. CASE TakeForDead \/ UNCHANGED vars
  BY <1>24, SMTT(30) DEF TakeForDead
<1>25. QED
  BY <1>1, <1>2, <1>3, <1>4, <1>5, <1>6, <1>7, <1>8, <1>9, <1>10, <1>11, <1>12,
       <1>13, <1>14, <1>15, <1>16, <1>17, <1>18, <1>19, <1>20, <1>21, <1>22,
       <1>23, <1>24
  DEF Next, EffectStep, Transact, HandlerStep

\* The record and its copies are sound.
LEMMA RecordsStep ==
    ASSUME IInv, [Next]_vars
    PROVE  Records'
<1> USE StepAssumption DEF IInv, Records, Sound, Final, TypeOK, Entry, Requests,
     vars, backendVars, driverVars, effectVars
<1>1. ASSUME NEW i \in Slots, Invoke(i) PROVE Records'
  BY <1>1 DEF Invoke
<1>2. ASSUME NEW i \in Slots, Leave(i) PROVE Records'
  BY <1>2 DEF Leave, NoEntry
<1>3. ASSUME NEW i \in Slots, TransactApplies(i) PROVE Records'
  BY <1>3 DEF TransactApplies, Answer, Applied, Legal, Protocol, Lease, Engaged,
       Attempt
<1>4. ASSUME NEW i \in Slots, TransactRefuses(i) PROVE Records'
  BY <1>4 DEF TransactRefuses, Answer
<1>5. ASSUME NEW i \in Slots, LoseAnswer(i) PROVE Records'
  BY <1>5 DEF LoseAnswer, Answer
<1>6. ASSUME NEW i \in Slots, EffectReplay(i) PROVE Records'
  BY <1>6 DEF EffectReplay, Deliver, Rest
<1>7. ASSUME NEW i \in Slots, EffectPauses(i) PROVE Records'
  BY <1>7 DEF EffectPauses, Rest
<1>8. ASSUME NEW i \in Slots, EffectStarts(i) PROVE Records'
  BY <1>8 DEF EffectStarts, Commit, Rest
<1>9. ASSUME NEW i \in Slots, StartAcked(i) PROVE Records'
  BY <1>9 DEF StartAcked, RunBody, Rest
<1>10. ASSUME NEW i \in Slots, EffectResumes(i) PROVE Records'
  BY <1>10 DEF EffectResumes, RunBody, Rest
<1>11. ASSUME NEW i \in Slots, EffectInterrupted(i) PROVE Records'
  BY <1>11 DEF EffectInterrupted, Settle, Commit, Rest
<1>12. ASSUME NEW i \in Slots, BodyReturns(i) PROVE Records'
  BY <1>12 DEF BodyReturns, Commit, Rest
<1>13. ASSUME NEW i \in Slots, BodyAgain(i) PROVE Records'
  BY <1>13 DEF BodyAgain, Commit, Rest
<1>14. ASSUME NEW i \in Slots, BodyFails(i) PROVE Records'
  BY <1>14 DEF BodyFails, Settle, Commit, Rest
<1>15. ASSUME NEW i \in Slots, BodyRaises(i) PROVE Records'
  BY <1>15 DEF BodyRaises, Deliver, Rest
<1>16. ASSUME NEW i \in Slots, RetryAcked(i) PROVE Records'
  BY <1>16 DEF RetryAcked, Rest
<1>17. ASSUME NEW i \in Slots, VerdictAcked(i) PROVE Records'
  BY <1>17 DEF VerdictAcked, Deliver, Rest
<1>18. ASSUME NEW i \in Slots, CommitRaises(i) PROVE Records'
  BY <1>18 DEF CommitRaises, Deliver, Rest
<1>19. ASSUME NEW i \in Slots, Cancel(i) PROVE Records'
  BY <1>19 DEF Cancel
<1>20. CASE Advance
  BY <1>20 DEF Advance
<1>21. CASE TakeForDead \/ UNCHANGED vars
  BY <1>21 DEF TakeForDead
<1>22. QED
  BY <1>1, <1>2, <1>3, <1>4, <1>5, <1>6, <1>7, <1>8, <1>9, <1>10, <1>11, <1>12,
       <1>13, <1>14, <1>15, <1>16, <1>17, <1>18, <1>19, <1>20, <1>21
  DEF Next, EffectStep, Transact, HandlerStep, HandlerEnds, HandlerSuspends,
       HandlerFails, Crash

\* The places of an effect go with its update.
LEMMA ProtocolStep ==
    ASSUME IInv, [Next]_vars
    PROVE  Protocol'
<1> USE StepAssumption DEF IInv, Protocol, TypeOK, Requests, Errors, Failures,
     Attempt, vars, backendVars, driverVars, effectVars
<1>1. ASSUME NEW i \in Slots, Invoke(i) PROVE Protocol'
  BY <1>1 DEF Invoke, NoUpdate, Update
<1>2. ASSUME NEW i \in Slots, Leave(i) PROVE Protocol'
  BY <1>2 DEF Leave, NoUpdate, Update
<1>3. ASSUME NEW i \in Slots, TransactApplies(i) PROVE Protocol'
  BY <1>3 DEF TransactApplies, Answer
<1>4. ASSUME NEW i \in Slots, TransactRefuses(i) PROVE Protocol'
  BY <1>4 DEF TransactRefuses, Answer
<1>5. ASSUME NEW i \in Slots, LoseAnswer(i) PROVE Protocol'
  BY <1>5 DEF LoseAnswer, Answer
<1>6. ASSUME NEW i \in Slots, EffectReplay(i) PROVE Protocol'
  BY <1>6 DEF EffectReplay, Deliver, Rest
<1>7. ASSUME NEW i \in Slots, EffectPauses(i) PROVE Protocol'
  BY <1>7 DEF EffectPauses, Rest
<1>8. ASSUME NEW i \in Slots, EffectStarts(i) PROVE Protocol'
  BY <1>8 DEF EffectStarts, Commit, Rest, Update
<1>9. ASSUME NEW i \in Slots, StartAcked(i) PROVE Protocol'
  BY <1>9 DEF StartAcked, RunBody, Rest
<1>10. ASSUME NEW i \in Slots, EffectResumes(i) PROVE Protocol'
  BY <1>10 DEF EffectResumes, RunBody, Rest
<1>11. ASSUME NEW i \in Slots, EffectInterrupted(i) PROVE Protocol'
  BY <1>11 DEF EffectInterrupted, Settle, Commit, Rest, Update
<1>12. ASSUME NEW i \in Slots, BodyReturns(i) PROVE Protocol'
  BY <1>12 DEF BodyReturns, Commit, Rest, Update
<1>13. ASSUME NEW i \in Slots, BodyAgain(i) PROVE Protocol'
  BY <1>13 DEF BodyAgain, Commit, Rest, Update
<1>14. ASSUME NEW i \in Slots, BodyFails(i) PROVE Protocol'
  BY <1>14 DEF BodyFails, Settle, Commit, Rest, Update
<1>15. ASSUME NEW i \in Slots, BodyRaises(i) PROVE Protocol'
  BY <1>15 DEF BodyRaises, Deliver, Rest
<1>16. ASSUME NEW i \in Slots, RetryAcked(i) PROVE Protocol'
  BY <1>16 DEF RetryAcked, Rest
<1>17. ASSUME NEW i \in Slots, VerdictAcked(i) PROVE Protocol'
  BY <1>17 DEF VerdictAcked, Deliver, Rest
<1>18. ASSUME NEW i \in Slots, CommitRaises(i) PROVE Protocol'
  BY <1>18 DEF CommitRaises, Deliver, Rest
<1>19. ASSUME NEW i \in Slots, Cancel(i) PROVE Protocol'
  BY <1>19 DEF Cancel
<1>20. CASE Advance
  BY <1>20 DEF Advance
<1>21. CASE TakeForDead \/ UNCHANGED vars
  BY <1>21 DEF TakeForDead
<1>22. QED
  BY <1>1, <1>2, <1>3, <1>4, <1>5, <1>6, <1>7, <1>8, <1>9, <1>10, <1>11, <1>12,
       <1>13, <1>14, <1>15, <1>16, <1>17, <1>18, <1>19, <1>20, <1>21
  DEF Next, EffectStep, Transact, HandlerStep, HandlerEnds, HandlerSuspends,
       HandlerFails, Crash

\* A current lease means an up-to-date attempt.
LEMMA LeaseStep ==
    ASSUME IInv, [Next]_vars
    PROVE  Lease'
<1> USE StepAssumption DEF IInv, Lease, Engaged, TypeOK, Entry, Protocol, Requests,
     vars, backendVars, driverVars, effectVars
<1>1. ASSUME NEW i \in Slots, Invoke(i) PROVE Lease'
  BY <1>1 DEF Invoke
<1>2. ASSUME NEW i \in Slots, Leave(i) PROVE Lease'
  BY <1>2 DEF Leave, NoEntry
<1>3. ASSUME NEW i \in Slots, TransactApplies(i) PROVE Lease'
  BY <1>3 DEF TransactApplies, Answer, Applied, Legal
<1>4. ASSUME NEW i \in Slots, TransactRefuses(i) PROVE Lease'
  BY <1>4 DEF TransactRefuses, Answer
<1>5. ASSUME NEW i \in Slots, LoseAnswer(i) PROVE Lease'
  BY <1>5 DEF LoseAnswer, Answer
<1>6. ASSUME NEW i \in Slots, EffectReplay(i) PROVE Lease'
  BY <1>6 DEF EffectReplay, Deliver, Rest
<1>7. ASSUME NEW i \in Slots, EffectPauses(i) PROVE Lease'
  BY <1>7 DEF EffectPauses, Rest
<1>8. ASSUME NEW i \in Slots, EffectStarts(i) PROVE Lease'
  BY <1>8 DEF EffectStarts, Commit, Rest, Update
<1>9. ASSUME NEW i \in Slots, StartAcked(i) PROVE Lease'
  BY <1>9 DEF StartAcked, RunBody, Rest
<1>10. ASSUME NEW i \in Slots, EffectResumes(i) PROVE Lease'
  BY <1>10 DEF EffectResumes, RunBody, Rest
<1>11. ASSUME NEW i \in Slots, EffectInterrupted(i) PROVE Lease'
  BY <1>11 DEF EffectInterrupted, Settle, Commit, Rest, Update
<1>12. ASSUME NEW i \in Slots, BodyReturns(i) PROVE Lease'
  BY <1>12 DEF BodyReturns, Commit, Rest, Update
<1>13. ASSUME NEW i \in Slots, BodyAgain(i) PROVE Lease'
  BY <1>13 DEF BodyAgain, Commit, Rest, Update
<1>14. ASSUME NEW i \in Slots, BodyFails(i) PROVE Lease'
  BY <1>14 DEF BodyFails, Settle, Commit, Rest, Update
<1>15. ASSUME NEW i \in Slots, BodyRaises(i) PROVE Lease'
  BY <1>15 DEF BodyRaises, Deliver, Rest
<1>16. ASSUME NEW i \in Slots, RetryAcked(i) PROVE Lease'
  BY <1>16 DEF RetryAcked, Rest
<1>17. ASSUME NEW i \in Slots, VerdictAcked(i) PROVE Lease'
  BY <1>17 DEF VerdictAcked, Deliver, Rest
<1>18. ASSUME NEW i \in Slots, CommitRaises(i) PROVE Lease'
  BY <1>18 DEF CommitRaises, Deliver, Rest
<1>19. ASSUME NEW i \in Slots, Cancel(i) PROVE Lease'
  BY <1>19 DEF Cancel
<1>20. CASE Advance
  BY <1>20 DEF Advance
<1>21. CASE TakeForDead \/ UNCHANGED vars
  BY <1>21 DEF TakeForDead
<1>22. QED
  BY <1>1, <1>2, <1>3, <1>4, <1>5, <1>6, <1>7, <1>8, <1>9, <1>10, <1>11, <1>12,
       <1>13, <1>14, <1>15, <1>16, <1>17, <1>18, <1>19, <1>20, <1>21
  DEF Next, EffectStep, Transact, HandlerStep, HandlerEnds, HandlerSuspends,
       HandlerFails, Crash

\* What has begun stays begun.
LEMMA BegunStep ==
    ASSUME IInv, [Next]_vars
    PROVE  Begun'
<1> USE StepAssumption DEF IInv, Begun, Passed, Final, Attempt, TypeOK, Entry,
     Requests, vars, backendVars, driverVars, effectVars
<1>1. ASSUME NEW i \in Slots, Invoke(i) PROVE Begun'
  BY <1>1 DEF Invoke
<1>2. ASSUME NEW i \in Slots, Leave(i) PROVE Begun'
  BY <1>2 DEF Leave, NoEntry
<1>3. ASSUME NEW i \in Slots, TransactApplies(i) PROVE Begun'
  BY <1>3 DEF TransactApplies, Answer, Applied, Legal, Lease, Engaged, Protocol
<1>4. ASSUME NEW i \in Slots, TransactRefuses(i) PROVE Begun'
  BY <1>4 DEF TransactRefuses, Answer
<1>5. ASSUME NEW i \in Slots, LoseAnswer(i) PROVE Begun'
  BY <1>5 DEF LoseAnswer, Answer
<1>6. ASSUME NEW i \in Slots, EffectReplay(i) PROVE Begun'
  BY <1>6 DEF EffectReplay, Deliver, Rest
<1>7. ASSUME NEW i \in Slots, EffectPauses(i) PROVE Begun'
  BY <1>7 DEF EffectPauses, Rest
<1>8. ASSUME NEW i \in Slots, EffectStarts(i) PROVE Begun'
  BY <1>8 DEF EffectStarts, Commit, Rest
<1>9. ASSUME NEW i \in Slots, StartAcked(i) PROVE Begun'
  BY <1>9 DEF StartAcked, RunBody, Rest
<1>10. ASSUME NEW i \in Slots, EffectResumes(i) PROVE Begun'
  BY <1>10 DEF EffectResumes, RunBody, Rest
<1>11. ASSUME NEW i \in Slots, EffectInterrupted(i) PROVE Begun'
  BY <1>11 DEF EffectInterrupted, Settle, Commit, Rest
<1>12. ASSUME NEW i \in Slots, BodyReturns(i) PROVE Begun'
  BY <1>12 DEF BodyReturns, Commit, Rest
<1>13. ASSUME NEW i \in Slots, BodyAgain(i) PROVE Begun'
  BY <1>13 DEF BodyAgain, Commit, Rest
<1>14. ASSUME NEW i \in Slots, BodyFails(i) PROVE Begun'
  BY <1>14 DEF BodyFails, Settle, Commit, Rest
<1>15. ASSUME NEW i \in Slots, BodyRaises(i) PROVE Begun'
  BY <1>15 DEF BodyRaises, Deliver, Rest
<1>16. ASSUME NEW i \in Slots, RetryAcked(i) PROVE Begun'
  BY <1>16 DEF RetryAcked, Rest
<1>17. ASSUME NEW i \in Slots, VerdictAcked(i) PROVE Begun'
  BY <1>17 DEF VerdictAcked, Deliver, Rest
<1>18. ASSUME NEW i \in Slots, CommitRaises(i) PROVE Begun'
  BY <1>18 DEF CommitRaises, Deliver, Rest
<1>19. ASSUME NEW i \in Slots, Cancel(i) PROVE Begun'
  BY <1>19 DEF Cancel
<1>20. CASE Advance
  BY <1>20 DEF Advance
<1>21. CASE TakeForDead \/ UNCHANGED vars
  BY <1>21 DEF TakeForDead
<1>22. QED
  BY <1>1, <1>2, <1>3, <1>4, <1>5, <1>6, <1>7, <1>8, <1>9, <1>10, <1>11, <1>12,
       <1>13, <1>14, <1>15, <1>16, <1>17, <1>18, <1>19, <1>20, <1>21
  DEF Next, EffectStep, Transact, HandlerStep, HandlerEnds, HandlerSuspends,
       HandlerFails, Crash

\* What the decision on a failed attempt touches.
LEMMA SettleTouches ==
    ASSUME TypeOK, NEW i \in Slots, NEW e, Settle(i, e)
    PROVE  \E next \in {"retrying", "settling"} :
              /\ pc' = [pc EXCEPT ![i] = next]
              /\ wire' = [wire EXCEPT ![i] = "sent"]
              /\ UNCHANGED <<out, runs, config, entry, seq, view, token>>
              /\ \A j \in Slots : j # i => request'[j] = request[j]
<1>1. \A u, v : request' = [request EXCEPT ![i] = Update(u, v)]
                  => \A j \in Slots : j # i => request'[j] = request[j]
  BY DEF TypeOK
<1>2. /\ UNCHANGED <<out, runs, config, entry, seq, view, token>>
      /\ wire' = [wire EXCEPT ![i] = "sent"]
  BY DEF Settle, Commit, Rest, backendVars
<1>3. /\ pc' = [pc EXCEPT ![i] = "retrying"] \/ pc' = [pc EXCEPT ![i] = "settling"]
      /\ \E u, v : request' = [request EXCEPT ![i] = Update(u, v)]
  BY DEF Settle, Commit
<1>4. QED
  BY <1>1, <1>2, <1>3

\* Verdicts stay.
LEMMA VerdictsStep ==
    ASSUME IInv, [Next]_vars
    PROVE  Verdicts'
<1> USE StepAssumption DEF IInv, Verdicts, DeliveredIsDurable, TypeOK, Entry,
     Requests, Errors, Failures, Uncheckpointed, vars, backendVars, driverVars,
     effectVars
<1>1. ASSUME NEW i \in Slots, Invoke(i) PROVE Verdicts'
  BY <1>1 DEF Invoke, Raised, Reraised
<1>2. ASSUME NEW i \in Slots, Leave(i) PROVE Verdicts'
  BY <1>2 DEF Leave, NoUpdate, Update, Raised, Reraised
<1>3. ASSUME NEW i \in Slots, TransactApplies(i) PROVE Verdicts'
  BY <1>3 DEF TransactApplies, Answer, Applied, Legal, Protocol, Raised, Reraised
<1>4. ASSUME NEW i \in Slots, TransactRefuses(i) PROVE Verdicts'
  BY <1>4 DEF TransactRefuses, Answer, Raised, Reraised
<1>5. ASSUME NEW i \in Slots, LoseAnswer(i) PROVE Verdicts'
  BY <1>5 DEF LoseAnswer, Answer, Raised, Reraised
<1>6. ASSUME NEW i \in Slots, EffectReplay(i) PROVE Verdicts'
  BY <1>6 DEF EffectReplay, Deliver, Rest, Begun, Final, Records, Sound, Raised,
       Reraised
<1>7. ASSUME NEW i \in Slots, EffectPauses(i) PROVE Verdicts'
  BY <1>7 DEF EffectPauses, Rest, Raised, Reraised
<1>8. ASSUME NEW i \in Slots, EffectStarts(i) PROVE Verdicts'
  BY <1>8 DEF EffectStarts, Commit, Rest, Raised, Reraised
<1>9. ASSUME NEW i \in Slots, StartAcked(i) PROVE Verdicts'
  BY <1>9 DEF StartAcked, RunBody, Rest, Raised, Reraised
<1>10. ASSUME NEW i \in Slots, EffectResumes(i) PROVE Verdicts'
  BY <1>10 DEF EffectResumes, RunBody, Rest, Raised, Reraised
<1>11. ASSUME NEW i \in Slots, EffectInterrupted(i) PROVE Verdicts'
  BY <1>11, SettleTouches DEF EffectInterrupted, Raised, Reraised
<1>12. ASSUME NEW i \in Slots, BodyReturns(i) PROVE Verdicts'
  BY <1>12 DEF BodyReturns, Commit, Rest, Raised, Reraised
<1>13. ASSUME NEW i \in Slots, BodyAgain(i) PROVE Verdicts'
  BY <1>13 DEF BodyAgain, Commit, Rest, Raised, Reraised
<1>14. ASSUME NEW i \in Slots, BodyFails(i) PROVE Verdicts'
  BY <1>14, SettleTouches DEF BodyFails, Raised, Reraised
<1>15. ASSUME NEW i \in Slots, BodyRaises(i) PROVE Verdicts'
  BY <1>15 DEF BodyRaises, Deliver, Rest, Raised, Reraised
<1>16. ASSUME NEW i \in Slots, RetryAcked(i) PROVE Verdicts'
  BY <1>16 DEF RetryAcked, Rest, Raised, Reraised
<1>17. ASSUME NEW i \in Slots, VerdictAcked(i) PROVE Verdicts'
  BY <1>17 DEF VerdictAcked, Deliver, Rest, Verdict, Raised, Reraised, Protocol
<1>18. ASSUME NEW i \in Slots, CommitRaises(i) PROVE Verdicts'
  BY <1>18 DEF CommitRaises, Deliver, Rest, Raised, Reraised
<1>19. ASSUME NEW i \in Slots, Cancel(i) PROVE Verdicts'
  BY <1>19 DEF Cancel, Raised, Reraised
<1>20. CASE Advance
  BY <1>20 DEF Advance, Raised, Reraised
<1>21. CASE TakeForDead \/ UNCHANGED vars
  BY <1>21 DEF TakeForDead, Raised, Reraised
<1>22. QED
  BY <1>1, <1>2, <1>3, <1>4, <1>5, <1>6, <1>7, <1>8, <1>9, <1>10, <1>11, <1>12,
       <1>13, <1>14, <1>15, <1>16, <1>17, <1>18, <1>19, <1>20, <1>21
  DEF Next, EffectStep, Transact, HandlerStep, HandlerEnds, HandlerSuspends,
       HandlerFails, Crash

\* No attempt runs its body twice under AT_MOST_ONCE_PER_RETRY.
LEMMA OnceStep ==
    ASSUME IInv, [Next]_vars
    PROVE  Once'
<1> USE StepAssumption DEF IInv, Once, Opened, Attempts, TypeOK, Entry, vars,
     backendVars, driverVars, effectVars
<1>1. ASSUME NEW i \in Slots, Invoke(i) PROVE Once'
  BY <1>1 DEF Invoke, Attempt, Passed
<1>2. ASSUME NEW i \in Slots, Leave(i) PROVE Once'
  BY <1>2 DEF Leave, NoEntry, Attempt, Passed
<1>3. ASSUME NEW i \in Slots, TransactApplies(i) PROVE Once'
  <2>1. /\ UNCHANGED <<config, pc, view, request, runs>>
        /\ wire' = [wire EXCEPT ![i] = "ok"]
        /\ wire[i] = "sent" /\ Legal(request[i])
        /\ entry' = Applied(request[i])
        /\ entry.attempt \in Nat /\ view[i].attempt = entry.attempt
    BY <1>3 DEF TransactApplies, Answer, Lease, Engaged
  <2>2. ASSUME NEW n \in Nat, Passed(n) PROVE Passed(n)'
    BY <2>1, <2>2 DEF Passed, Legal, Applied
  <2>3. ASSUME request[i].action = "START" 
        PROVE  /\ ~Passed(Attempt(i))
               /\ Attempt(i) \in Attempts => runs[Attempt(i)] = 0
    <3>1. ~Passed(Attempt(i))
      BY <2>1, <2>3 DEF Passed, Legal, Attempt
    <3>2. ASSUME NEW n \in Attempts, runs[n] # 0 PROVE Passed(n)
      <4>1. runs[n] \in 0 .. 2
        OBVIOUS
      <4>2. runs[n] > 0
        BY <3>2, <4>1
      <4>3. QED
        BY <4>2
    <3>3. QED
      BY <3>1, <3>2
  <2>4. ASSUME NEW j \in Slots, j # i PROVE Opened(j)' <=> Opened(j)
    BY <2>1, <2>4 DEF Opened
  <2>5. \A j \in Slots : Attempt(j)' = Attempt(j) /\ Attempt(j) \in Nat
    BY <2>1 DEF Attempt
  <2>6. Opened(i)' => request[i].action = "START"
    BY <2>1 DEF Opened, Protocol
  <2>7. \A j \in Slots : Opened(j) => Passed(Attempt(j))
    BY DEF Opened, Begun
  <2>8. \A n \in Attempts : runs'[n] > 0 => Passed(n)'
    BY <2>1, <2>2
  <2>9. ASSUME config.atMostOnce, NEW j \in Slots, Opened(j)'
        PROVE  /\ Attempt(j) \in Attempts => runs[Attempt(j)] = 0
               /\ \A k \in Slots : Opened(k)' /\ Attempt(k) = Attempt(j) => k = j
    <3> HIDE DEF Opened
    <3>1. CASE j = i
      <4>1. /\ ~Passed(Attempt(i))
            /\ Attempt(i) \in Attempts => runs[Attempt(i)] = 0
        BY <2>3, <2>6, <2>9, <3>1
      <4>2. QED
        BY <4>1, <2>4, <2>7, <3>1
    <3>2. CASE j # i
      <4>1. Opened(j) /\ Passed(Attempt(j))
        BY <2>4, <2>7, <2>9, <3>2
      <4>2. Opened(i)' => Attempt(i) # Attempt(j)
        BY <4>1, <2>3, <2>6
      <4>3. QED
        BY <4>1, <4>2, <2>4, <2>9
    <3>3. QED
      BY <3>1, <3>2
  <2>10. QED
    BY <2>1, <2>5, <2>8, <2>9
<1>4. ASSUME NEW i \in Slots, TransactRefuses(i) PROVE Once'
  BY <1>4 DEF TransactRefuses, Answer, Attempt, Passed
<1>5. ASSUME NEW i \in Slots, LoseAnswer(i) PROVE Once'
  BY <1>5 DEF LoseAnswer, Answer, Attempt, Passed
<1>6. ASSUME NEW i \in Slots, EffectReplay(i) PROVE Once'
  BY <1>6 DEF EffectReplay, Deliver, Rest, Attempt, Passed
<1>7. ASSUME NEW i \in Slots, EffectPauses(i) PROVE Once'
  BY <1>7 DEF EffectPauses, Rest, Attempt, Passed
<1>8. ASSUME NEW i \in Slots, EffectStarts(i) PROVE Once'
  BY <1>8 DEF EffectStarts, Commit, Rest, Attempt, Passed
<1>9. ASSUME NEW i \in Slots, StartAcked(i) PROVE Once'
  BY <1>9, SMTT(30) DEF StartAcked, RunBody, Rest, Attempt, Passed, Begun
<1>10. ASSUME NEW i \in Slots, EffectResumes(i) PROVE Once'
  BY <1>10 DEF EffectResumes, RunBody, Rest, Interrupted, Attempt, Passed, Begun
<1>11. ASSUME NEW i \in Slots, EffectInterrupted(i) PROVE Once'
  <2>1. PICK next \in {"retrying", "settling"} :
            /\ pc' = [pc EXCEPT ![i] = next]
            /\ wire' = [wire EXCEPT ![i] = "sent"]
            /\ UNCHANGED <<runs, config, entry, view>>
    BY <1>11, SettleTouches DEF EffectInterrupted
  <2>2. \A n : Passed(n)' <=> Passed(n)
    BY <2>1 DEF Passed
  <2>3. \A j \in Slots : Attempt(j)' = Attempt(j) /\ (Opened(j)' => Opened(j))
    BY <2>1 DEF Attempt
  <2>4. QED
    BY <2>1, <2>2, <2>3
<1>12. ASSUME NEW i \in Slots, BodyReturns(i) PROVE Once'
  BY <1>12 DEF BodyReturns, Commit, Rest, Attempt, Passed
<1>13. ASSUME NEW i \in Slots, BodyAgain(i) PROVE Once'
  BY <1>13 DEF BodyAgain, Commit, Rest, Attempt, Passed
<1>14. ASSUME NEW i \in Slots, BodyFails(i) PROVE Once'
  <2>1. PICK next \in {"retrying", "settling"} :
            /\ pc' = [pc EXCEPT ![i] = next]
            /\ wire' = [wire EXCEPT ![i] = "sent"]
            /\ UNCHANGED <<runs, config, entry, view>>
    BY <1>14, SettleTouches DEF BodyFails
  <2>2. \A n : Passed(n)' <=> Passed(n)
    BY <2>1 DEF Passed
  <2>3. \A j \in Slots : Attempt(j)' = Attempt(j) /\ (Opened(j)' => Opened(j))
    BY <2>1 DEF Attempt
  <2>4. QED
    BY <2>1, <2>2, <2>3
<1>15. ASSUME NEW i \in Slots, BodyRaises(i) PROVE Once'
  BY <1>15 DEF BodyRaises, Deliver, Rest, Attempt, Passed
<1>16. ASSUME NEW i \in Slots, RetryAcked(i) PROVE Once'
  BY <1>16 DEF RetryAcked, Rest, Attempt, Passed
<1>17. ASSUME NEW i \in Slots, VerdictAcked(i) PROVE Once'
  BY <1>17 DEF VerdictAcked, Deliver, Rest, Attempt, Passed
<1>18. ASSUME NEW i \in Slots, CommitRaises(i) PROVE Once'
  BY <1>18 DEF CommitRaises, Deliver, Rest, Attempt, Passed
<1>19. ASSUME NEW i \in Slots, Cancel(i) PROVE Once'
  BY <1>19 DEF Cancel, Attempt, Passed
<1>20. CASE Advance
  BY <1>20 DEF Advance, Attempt, Passed
<1>21. CASE TakeForDead \/ UNCHANGED vars
  BY <1>21 DEF TakeForDead, Attempt, Passed
<1>22. QED
  BY <1>1, <1>2, <1>3, <1>4, <1>5, <1>6, <1>7, <1>8, <1>9, <1>10, <1>11, <1>12,
       <1>13, <1>14, <1>15, <1>16, <1>17, <1>18, <1>19, <1>20, <1>21
  DEF Next, EffectStep, Transact, HandlerStep, HandlerEnds, HandlerSuspends,
       HandlerFails, Crash

----------------------------------------------------------------------------
(* The theorems                                                            *)

\* The strengthened invariant holds before the first invocation.
LEMMA InitInv == Init => IInv
<1> SUFFICES ASSUME Init PROVE IInv
  OBVIOUS
<1> USE StepAssumption DEF Init
<1>1. TypeOK
  <2>1. /\ view \in [Slots -> Entry] /\ request \in [Slots -> Requests]
        /\ entry \in Entry
    BY EmptyRecords
  <2>2. /\ pc \in [Slots -> {"off", "effect", "starting", "body", "settling",
                             "retrying", "paused", "delivered", "cancelled"}]
        /\ token \in [Slots -> Nat]
        /\ wire \in [Slots -> {"none", "sent", "ok", "refused"}]
        /\ runs \in [Attempts -> 0 .. 2]
    OBVIOUS
  <2>3. out \in [Slots -> Values \cup Errors \cup Uncheckpointed
                            \cup {"callable", "broken", None}]
    OBVIOUS
  <2>4. /\ faults \in 0 .. MaxFaults /\ cuts \in 0 .. MaxCuts
    OBVIOUS
  <2>5. QED
    BY <2>1, <2>2, <2>3, <2>4 DEF TypeOK
<1>2. Records
  BY DEF Records, Sound, Final, NoEntry
<1>3. Protocol
  BY DEF Protocol, NoUpdate, Update
<1>4. Lease /\ Begun /\ Verdicts /\ Once
  BY DEF Lease, Engaged, Begun, Final, NoEntry, Verdicts, DeliveredIsDurable,
         Once, Opened
<1>5. QED
  BY <1>1, <1>2, <1>3, <1>4 DEF IInv

\* The invariant holds in every state, for every number of environments,
\* attempts, faults and cuts.
THEOREM StepInv == Spec => []IInv
<1>1. IInv /\ [Next]_vars => IInv'
  BY TypeStep, RecordsStep, ProtocolStep, LeaseStep, BegunStep, VerdictsStep,
     OnceStep DEF IInv
<1>2. QED
  BY InitInv, <1>1, PTL DEF Spec

\* Every variable has its type; in particular no more attempts are counted than
\* the policy allows.
THEOREM StepTypeOK == Spec => []TypeOK
<1>1. IInv => TypeOK
  BY DEF IInv
<1>2. QED
  BY <1>1, StepInv, PTL

\* An at-most-once step runs its body once in each attempt.
THEOREM StepAtMostOnce == Spec => []AtMostOncePerAttempt
<1>1. IInv => AtMostOncePerAttempt
  BY DEF IInv, Once, AtMostOncePerAttempt
<1>2. QED
  BY <1>1, StepInv, PTL

\* No body runs before its START is durable.
THEOREM StepStartIsDurable == Spec => []StartIsDurable
<1>1. IInv => StartIsDurable
  <2> SUFFICES ASSUME IInv, NEW i \in Slots, pc[i] = "body"
               PROVE  \/ entry.status = "STARTED" /\ entry.attempt = view[i].attempt
                      \/ entry.attempt > view[i].attempt
    BY DEF StartIsDurable
  <2>1. Passed(Attempt(i))
    BY DEF IInv, Begun
  <2>2. entry.attempt \in Nat /\ view[i].attempt \in Nat
    BY DEF IInv, TypeOK, Entry
  <2>3. QED
    BY <2>1, <2>2 DEF Passed, Attempt
<1>2. QED
  BY <1>1, StepInv, PTL

\* What the handler was given is in the record.
THEOREM StepDelivered == Spec => []DeliveredIsDurable
<1>1. IInv => DeliveredIsDurable
  BY DEF IInv, Verdicts
<1>2. QED
  BY <1>1, StepInv, PTL

\* A verdict counts the attempt it is about.
THEOREM StepCounts == Spec => CountsItsAttempt
<1> DEFINE Counted ==
        entry'.attempt # entry.attempt =>
            \E i \in Slots : /\ wire[i] = "sent" /\ wire'[i] = "ok"
                             /\ entry'.attempt = Attempt(i)
<1>1. IInv /\ [Next]_vars => [Counted]_vars
  <2> SUFFICES ASSUME IInv, [Next]_vars, entry'.attempt # entry.attempt
               PROVE  \E i \in Slots : /\ wire[i] = "sent" /\ wire'[i] = "ok"
                                       /\ entry'.attempt = Attempt(i)
    OBVIOUS
  <2>1. PICK i \in Slots : TransactApplies(i)
    <3>1. entry \in Entry
      BY DEF IInv, TypeOK
    <3>2. ~Advance
      BY <3>1 DEF Advance, Entry
    <3>3. entry' # entry
      OBVIOUS
    <3>4. QED
      BY <3>2, <3>3 DEF Next, EffectStep, Transact, HandlerStep, Invoke,
           HandlerEnds,
         HandlerSuspends, HandlerFails, Crash, Leave, TakeForDead, TransactRefuses,
         LoseAnswer, EffectReplay, EffectPauses, EffectStarts, StartAcked,
         EffectResumes, EffectInterrupted, BodyReturns, BodyAgain, BodyFails,
         BodyRaises, RetryAcked, VerdictAcked, CommitRaises, Settle, Cancel, Rest,
         backendVars, vars
  <2>2. entry \in Entry /\ wire[i] = "sent" /\ wire' = [wire EXCEPT ![i] = "ok"]
    BY <2>1 DEF TransactApplies, Answer, IInv, TypeOK
  <2>3. wire'[i] = "ok"
    BY <2>2 DEF IInv, TypeOK
  <2>4. view[i].attempt = entry.attempt
    BY <2>1 DEF TransactApplies, IInv, Lease, Engaged
  <2>5. entry' = Applied(request[i])
    BY <2>1 DEF TransactApplies
  <2>6. entry'.attempt = entry.attempt + 1
    BY <2>2, <2>5 DEF Applied, Entry
  <2>7. QED
    BY <2>2, <2>3, <2>4, <2>6 DEF Attempt
<1>2. QED
  BY <1>1, StepInv, PTL DEF Spec, CountsItsAttempt
=============================================================================
