---------------------------- MODULE RemoteProofs ----------------------------
(***************************************************************************)
(* Theorems of Remote, for any number of steps, tries, invocations and      *)
(* faults: its types, that no record refers to a payload which is not on    *)
(* disk, that the report of the cloud runner is whole, and then what the    *)
(* checkpoint lease gives: a request is never refused for its own lease,    *)
(* and the last invocation goes by the records the service holds.           *)
(***************************************************************************)
EXTENDS Remote, TLAPS

USE RemoteAssumption

----------------------------------------------------------------------------
(* Types                                                                   *)

\* What the phase of an invocation says of its request and its place.
Sane(w) ==
    /\ w.phase \in {"asking", "waiting"} => w.ask.kind # "none"
    /\ w.phase = "waiting" => w.try < Tries
    /\ w.phase \notin {"running", "ended"} => w.step \in Step

Workers == worker \in [Invocation -> WorkerType] /\ \A n \in Invocation : Sane(worker[n])

TInv == TypeOK /\ Workers

\* The fields of an invocation, for the provers.
LEMMA Fields ==
    ASSUME NEW w \in WorkerType
    PROVE  /\ w.phase \in Phases /\ w.lease \in Nat /\ w.step \in 1 .. Steps + 1
           /\ w.page \in Step /\ w.try \in 1 .. Tries
           /\ w.seen \in [Step -> RecordType]
           /\ w.ask \in AskType /\ w.ask.kind \in {"none", "PAGE"} \cup Checkpoints
           /\ w.ask.step \in Step
  BY DEF WorkerType, AskType

\* An invocation moved to another phase is still one.
LEMMA Moves ==
    ASSUME NEW w \in WorkerType, NEW p \in Phases
    PROVE  /\ [w EXCEPT !.phase = p] \in WorkerType
           /\ [w EXCEPT !.phase = p].phase = p
           /\ [w EXCEPT !.phase = p].ask = w.ask
           /\ [w EXCEPT !.phase = p].step = w.step
           /\ [w EXCEPT !.phase = p].try = w.try
  BY DEF WorkerType

\* Setting one invocation keeps the types of all.
LEMMA Sets ==
    ASSUME Workers, NEW n \in Invocation, NEW x \in WorkerType, Sane(x), Set(n, x)
    PROVE  Workers'
  BY DEF Workers, Set, Sane

LEMMA PhaseNames ==
    /\ Storing \subseteq Phases
    /\ {"none", "paging", "running", "asking", "waiting", "ran", "decoding",
        "pausing", "named", "ended"} \subseteq Phases
  BY DEF Phases

\* The end of an invocation.
LEMMA EndedType ==
    ASSUME TInv, NEW n \in Invocation, NEW how \in {"lost", "PENDING", "SUCCEEDED", "FAILED"},
           Ended(n, how)
    PROVE  /\ Workers'
           /\ due' \in BOOLEAN /\ outcome' \in {"none", "SUCCEEDED", "FAILED"}
           /\ UNCHANGED <<records, lease, answered, started>>
  <1>1. worker[n] \in WorkerType
    BY DEF TInv, Workers
  <1>2. Sane([worker[n] EXCEPT !.phase = "ended"])
    BY <1>1, Moves, PhaseNames DEF Sane
  <1>3. Workers'
    BY <1>1, <1>2, Moves, PhaseNames, Sets DEF TInv, Ended
  <1>4. QED
    BY <1>3 DEF TInv, TypeOK, Ended

\* A message is well typed if its invocation asks for something.
LEMMA MessageTyped ==
    ASSUME NEW n \in Invocation, NEW w \in WorkerType, w.ask.kind # "none"
    PROVE  Message(n, w) \in MessageType
  BY Fields DEF Message, MessageType, Token

\* A request that is sent.
LEMMA SendType ==
    ASSUME TInv, NEW n \in Invocation, NEW w \in WorkerType, Send(n, w),
           w.ask.kind # "none", w.step \in Step
    PROVE  TInv'
  <1>1. [w EXCEPT !.phase = "asking"] \in WorkerType
        /\ Sane([w EXCEPT !.phase = "asking"])
    BY Moves, PhaseNames DEF Sane
  <1>2. Workers'
    BY <1>1, Sets DEF TInv, Send
  <1>3. wire' \subseteq MessageType
    BY MessageTyped DEF TInv, TypeOK, Send
  <1>4. QED
    BY <1>2, <1>3 DEF TInv, TypeOK, Workers, Send, serviceVars, fileVars

LEMMA AskedType ==
    ASSUME TInv, NEW n \in Invocation, NEW k \in {"PAGE"} \cup Checkpoints, NEW s \in Step,
           worker[n].step \in Step, Ask(n, k, s)
    PROVE  TInv'
  <1> DEFINE x == [worker[n] EXCEPT !.ask = [kind |-> k, step |-> s], !.try = 1]
  <1>1. x \in WorkerType /\ x.ask.kind = k /\ x.step = worker[n].step
    <2>1. worker[n] \in WorkerType
      BY DEF TInv, Workers
    <2>2. [kind |-> k, step |-> s] \in AskType /\ 1 \in 1 .. Tries
      BY DEF AskType
    <2> QED
      BY <2>1, <2>2 DEF WorkerType
  <1>2. Send(n, x)
    BY DEF Ask
  <1>3. k # "none"
    BY DEF Checkpoints
  <1> HIDE DEF x
  <1> QED
    BY <1>1, <1>2, <1>3, SendType

\* A page is read.
LEMMA PagedType ==
    ASSUME TInv, NEW w \in WorkerType, NEW p \in Step, w.step \in Step
    PROVE  Paged(w, p) \in WorkerType /\ Sane(Paged(w, p))
  <1>1. records[p] \in RecordType
    BY DEF TInv, TypeOK
  <1>2. p < Steps => p + 1 \in Step
    BY RemoteAssumption DEF Step
  <1> DEFINE read == [w EXCEPT !.seen[p] = records[p]]
  <1>3. read \in WorkerType /\ read.step = w.step
    BY <1>1, Fields DEF WorkerType
  <1>4. [read EXCEPT !.phase = "paging", !.page = p + 1] \in WorkerType
        \/ ~(p < Steps)
    BY <1>2, <1>3, PhaseNames DEF WorkerType
  <1>5. [read EXCEPT !.phase = "running"] \in WorkerType
    BY <1>3, PhaseNames, Moves
  <1>6. CASE p < Steps
    <2>1. Paged(w, p) = [read EXCEPT !.phase = "paging", !.page = p + 1]
      BY <1>6 DEF Paged
    <2>2. Sane([read EXCEPT !.phase = "paging", !.page = p + 1])
      BY <1>3 DEF Sane, WorkerType
    <2> QED
      BY <1>4, <1>6, <2>1, <2>2
  <1>7. CASE ~(p < Steps)
    <2>1. Paged(w, p) = [read EXCEPT !.phase = "running"]
      BY <1>7 DEF Paged
    <2>2. Sane([read EXCEPT !.phase = "running"])
      BY <1>3, Moves, PhaseNames DEF Sane
    <2> QED
      BY <1>5, <2>1, <2>2
  <1> QED
    BY <1>6, <1>7

\* A try that fails.
LEMMA TryFailsType ==
    ASSUME TInv, NEW n \in Invocation, NEW code, TryFails(n, code),
           worker[n].phase = "asking"
    PROVE  /\ Workers'
           /\ due' \in BOOLEAN /\ outcome' \in {"none", "SUCCEEDED", "FAILED"}
           /\ UNCHANGED <<records, lease, answered, started>>
  <1>0. worker[n] \in WorkerType /\ Sane(worker[n])
    BY DEF TInv, Workers
  <1>1. CASE worker[n].try < Tries
    <2>1. Set(n, [worker[n] EXCEPT !.phase = "waiting"]) /\ UNCHANGED serviceVars
      BY <1>1 DEF TryFails
    <2>2. Sane([worker[n] EXCEPT !.phase = "waiting"])
      BY <1>0, <1>1, Moves, PhaseNames DEF Sane
    <2>3. Workers'
      BY <1>0, <2>1, <2>2, Moves, PhaseNames, Sets DEF TInv
    <2> QED
      BY <2>1, <2>3 DEF serviceVars, TInv, TypeOK
  <1>2. CASE ~(worker[n].try < Tries)
    BY <1>2, EndedType DEF TryFails, Raised
  <1> QED
    BY <1>1, <1>2

\* One answer is noted among those of the client tokens.
LEMMA Notes ==
    ASSUME NEW A, NEW B, NEW C, NEW D, NEW f \in [A -> [B -> [C -> [D -> Nat]]]],
           NEW a \in A, NEW b \in B, NEW c \in C, NEW d \in D, NEW v \in Nat
    PROVE  [f EXCEPT ![a][b][c][d] = v] \in [A -> [B -> [C -> [D -> Nat]]]]
  <1> DEFINE g == [f[a][b][c] EXCEPT ![d] = v]
             h == [f[a][b] EXCEPT ![c] = g]
             k == [f[a] EXCEPT ![b] = h]
  <1>1. g \in [D -> Nat]
    OBVIOUS
  <1>2. h \in [C -> [D -> Nat]]
    <2> HIDE DEF g
    <2> QED
      BY <1>1
  <1>3. k \in [B -> [C -> [D -> Nat]]]
    <2> HIDE DEF h
    <2> QED
      BY <1>2
  <1>4. [f EXCEPT ![a] = k] \in [A -> [B -> [C -> [D -> Nat]]]]
    <2> HIDE DEF k
    <2> QED
      BY <1>3
  <1> QED
    BY <1>4

\* The service handles a request.
LEMMA AppliedType ==
    ASSUME TInv, NEW m \in wire, Applied(m)
    PROVE  /\ records' \in [Step -> RecordType] /\ lease' \in Nat
           /\ answered' \in [Invocation -> [Checkpoints -> [Step -> [1 .. Tries -> Nat]]]]
  <1>1. m \in MessageType
    BY DEF TInv, TypeOK
  <1>2. CASE Fresh(m)
    <2>1. m.kind \in Checkpoints /\ m.from \in Invocation /\ m.step \in Step
          /\ m.token \in 1 .. Tries
      BY <1>1, <1>2 DEF MessageType, Fresh
    <2>2. After(m) \in [Step -> RecordType]
      <3>1. [status |-> "STARTED", by |-> 0] \in RecordType
            /\ [status |-> "PENDING", by |-> 0] \in RecordType
            /\ [status |-> "SUCCEEDED", by |-> m.from] \in RecordType
        BY <2>1, RemoteAssumption DEF RecordType, Statuses, Invocation
      <3> DEFINE r == CASE m.kind = "START" -> [status |-> "STARTED", by |-> 0]
                        [] m.kind = "RETRY" -> [status |-> "PENDING", by |-> 0]
                        [] OTHER -> [status |-> "SUCCEEDED", by |-> m.from]
      <3>2. After(m) = [records EXCEPT ![m.step] = r]
        BY DEF After
      <3>3. r \in RecordType
        BY <3>1
      <3> HIDE DEF r
      <3> QED
        BY <2>1, <3>2, <3>3 DEF TInv, TypeOK
    <2>3. lease' \in Nat
      BY <1>2 DEF Applied, TInv, TypeOK
    <2>4. answered' = [answered EXCEPT ![m.from][m.kind][m.step][m.token] = lease']
      BY <1>2 DEF Applied
    <2>5. answered' \in [Invocation -> [Checkpoints -> [Step -> [1 .. Tries -> Nat]]]]
      <3>1. answered \in [Invocation -> [Checkpoints -> [Step -> [1 .. Tries -> Nat]]]]
        BY DEF TInv, TypeOK
      <3>2. [answered EXCEPT ![m.from][m.kind][m.step][m.token] = lease']
              \in [Invocation -> [Checkpoints -> [Step -> [1 .. Tries -> Nat]]]]
        BY ONLY <2>1, <2>3, <3>1, Notes, Zenon
      <3> QED
        BY <2>4, <3>2
    <2> QED
      BY <1>2, <2>2, <2>3, <2>5 DEF Applied
  <1>3. CASE ~Fresh(m)
    BY <1>3 DEF Applied, TInv, TypeOK
  <1> QED
    BY <1>2, <1>3

\* An answer reaches its invocation.
LEMMA AnswersType ==
    ASSUME TInv, NEW n \in Invocation, NEW all \in [Step -> RecordType], NEW next \in Nat,
           Answers(n, all, next), worker[n].phase = "asking"
    PROVE  Workers'
  <1>0. worker[n] \in WorkerType /\ Sane(worker[n]) /\ worker[n].step \in Step
    BY DEF TInv, Workers, Sane
  <1>1. CASE worker[n].ask.kind = "PAGE"
    <2>1. Set(n, Paged(worker[n], worker[n].ask.step))
      BY <1>1 DEF Answers
    <2>2. worker[n].ask.step \in Step
      BY <1>0, Fields
    <2> QED
      BY <1>0, <2>1, <2>2, PagedType, Sets DEF TInv
  <1>2. CASE worker[n].ask.kind # "PAGE"
    <2> DEFINE p == CASE worker[n].ask.kind = "START" -> "ran"
                      [] worker[n].ask.kind = "RETRY" -> "pausing"
                      [] OTHER -> "decoding"
               x == [worker[n] EXCEPT !.phase = p, !.seen = all, !.lease = next]
    <2>1. p \in {"ran", "pausing", "decoding"}
      OBVIOUS
    <2>2. Set(n, x)
      BY <1>2 DEF Answers
    <2> HIDE DEF p
    <2>3. x \in WorkerType /\ x.phase = p /\ x.step = worker[n].step
      BY <1>0, <2>1, PhaseNames DEF WorkerType
    <2>4. Sane(x)
      BY <1>0, <2>1, <2>3 DEF Sane
    <2> QED
      BY <2>2, <2>3, <2>4, Sets DEF TInv
  <1> QED
    BY <1>1, <1>2

LEMMA Waited ==
    ASSUME TInv, NEW m \in wire, Waits(m)
    PROVE  m \in MessageType /\ m.from \in Invocation /\ worker[m.from].phase = "asking"
  BY DEF TInv, TypeOK, MessageType, Waits

LEMMA FaultType ==
    ASSUME TInv, Fault
    PROVE  faults' \in 0 .. MaxFaults
  BY DEF TInv, TypeOK, Fault

\* An invocation that starts reads the first page.
LEMMA InvokeType ==
    ASSUME TInv, InvokeWorkflow
    PROVE  TInv'
  <1>1. lease' \in Nat /\ started' \in Invocation
    BY DEF TInv, TypeOK, InvokeWorkflow, Invocation
  <1> DEFINE w == [Idle EXCEPT !.lease = lease']
  <1>2. NoRecord \in RecordType /\ NoAsk \in AskType /\ 1 \in Step
    BY DEF NoRecord, RecordType, Statuses, NoAsk, AskType, Step
  <1>3. w \in WorkerType /\ w.step \in Step
    <2>1. Idle \in WorkerType /\ Idle.step = 1
      <3>1. [s \in Step |-> NoRecord] \in [Step -> RecordType]
        BY <1>2
      <3>2. 1 \in 1 .. Steps + 1 /\ 1 \in 1 .. Tries /\ 0 \in Nat /\ "none" \in Phases
        BY PhaseNames
      <3> QED
        BY <1>2, <3>1, <3>2 DEF Idle, WorkerType
    <2>2. w = [Idle EXCEPT !.lease = lease'] /\ lease' \in Nat
      BY <1>1
    <2> HIDE DEF w
    <2>3. w \in WorkerType /\ w.step = Idle.step
      BY <2>1, <2>2 DEF WorkerType
    <2> QED
      BY <1>2, <2>1, <2>3
  <1>4. Paged(w, 1) \in WorkerType /\ Sane(Paged(w, 1))
    BY <1>2, <1>3, PagedType
  <1>5. Set(started', Paged(w, 1))
    BY DEF InvokeWorkflow
  <1>6. Workers'
    <2> HIDE DEF w
    <2> QED
      BY <1>1, <1>4, <1>5, Sets DEF TInv
  <1>7. /\ due' = FALSE
        /\ UNCHANGED <<records, answered, outcome, wire, directory, files, runner, faults>>
    BY DEF InvokeWorkflow, fileVars
  <1>8. started' \in 0 .. MaxInvocations /\ worker' \in [Invocation -> WorkerType]
    BY <1>1, <1>6 DEF Invocation, Workers
  <1> HIDE DEF w
  <1>9. TypeOK'
    BY <1>1, <1>7, <1>8 DEF TInv, TypeOK
  <1> QED
    BY <1>6, <1>9 DEF TInv

LEMMA EndsType ==
    ASSUME TInv, NEW n \in Invocation,
           Crash(n) \/ ReadFails(n) \/ PauseHandler(n) \/ Return(n)
    PROVE  TInv'
  <1>1. PICK how \in {"lost", "PENDING", "SUCCEEDED", "FAILED"} : Ended(n, how)
    BY DEF Crash, ReadFails, PauseHandler, Return
  <1>2. faults' \in 0 .. MaxFaults
    BY FaultType DEF Crash, ReadFails, PauseHandler, Return, TInv, TypeOK
  <1>3. UNCHANGED <<wire, fileVars, runner>>
    BY DEF Crash, ReadFails, PauseHandler, Return
  <1> QED
    BY <1>1, <1>2, <1>3, EndedType DEF TInv, TypeOK, Workers, fileVars

LEMMA TimeOutType ==
    ASSUME TInv, NEW n \in Invocation, TimeOut(n)
    PROVE  TInv'
  <1>1. faults' \in 0 .. MaxFaults
    BY FaultType DEF TimeOut
  <1> QED
    BY <1>1, TryFailsType DEF TimeOut, TInv, TypeOK, Workers, fileVars

\* What the service says of a request it has handled.
LEMMA HandledType ==
    ASSUME TInv, NEW m \in wire,
           Reply(m) \/ Fenced(m) \/ ArriveLate(m) \/ LoseAnswer(m) \/ Refuse(m)
             \/ NoLease(m) \/ RepeatMarker(m)
    PROVE  TInv'
  <1>0. /\ wire' \subseteq MessageType /\ UNCHANGED <<directory, files, runner>>
        /\ m \in MessageType /\ m.from \in Invocation
    BY DEF Reply, Fenced, ArriveLate, LoseAnswer, Refuse, NoLease, RepeatMarker,
           Handled, fileVars, TInv, TypeOK, MessageType
  <1>1. CASE Reply(m)
    <2>1. records' \in [Step -> RecordType] /\ lease' \in Nat
          /\ answered' \in [Invocation -> [Checkpoints -> [Step -> [1 .. Tries -> Nat]]]]
      BY <1>1, AppliedType DEF Reply
    <2> DEFINE next == IF m.kind = "PAGE" THEN 0
                       ELSE answered'[m.from][m.kind][m.step][m.token]
    <2>2. next \in Nat
      <3>1. m.kind # "PAGE" => m.kind \in Checkpoints
        BY <1>0 DEF MessageType
      <3>2. m.step \in Step /\ m.token \in 1 .. Tries
        BY <1>0 DEF MessageType
      <3> QED
        BY <1>0, <2>1, <3>1, <3>2
    <2>3. Answers(m.from, records', next)
      BY <1>1 DEF Reply
    <2>4. worker[m.from].phase = "asking"
      BY <1>1, Waited DEF Reply
    <2> HIDE DEF next
    <2>5. Workers'
      BY <1>0, <2>1, <2>2, <2>3, <2>4, AnswersType
    <2> QED
      BY <1>0, <1>1, <2>1, <2>5 DEF Reply, TInv, TypeOK, Workers
  <1>2. CASE Fenced(m)
    BY <1>0, <1>2, EndedType DEF Fenced, Raised, TInv, TypeOK, Workers
  <1>3. CASE ArriveLate(m)
    BY <1>0, <1>3, AppliedType DEF ArriveLate, TInv, TypeOK, Workers
  <1>4. CASE LoseAnswer(m) \/ NoLease(m)
    <2>1. records' \in [Step -> RecordType] /\ lease' \in Nat
          /\ answered' \in [Invocation -> [Checkpoints -> [Step -> [1 .. Tries -> Nat]]]]
      BY <1>4, AppliedType DEF LoseAnswer, NoLease
    <2>2. worker[m.from] \in WorkerType /\ Sane(worker[m.from])
          /\ worker[m.from].phase = "asking"
      BY <1>0, <1>4, Waited DEF LoseAnswer, NoLease, TInv, Workers
    <2>3. PICK p \in {"waiting", "ended"} :
            /\ Set(m.from, [worker[m.from] EXCEPT !.phase = p])
            /\ p = "waiting" => worker[m.from].try < Tries
      BY <1>4 DEF LoseAnswer, NoLease
    <2>4. Sane([worker[m.from] EXCEPT !.phase = p])
      BY <2>2, <2>3, Moves, PhaseNames DEF Sane
    <2>5. Workers'
      BY <1>0, <2>2, <2>3, <2>4, Moves, PhaseNames, Sets DEF TInv
    <2>6. due' \in BOOLEAN /\ UNCHANGED <<started, outcome>> /\ faults' \in 0 .. MaxFaults
      BY <1>4, FaultType DEF LoseAnswer, NoLease, TInv, TypeOK
    <2> QED
      BY <1>0, <2>1, <2>5, <2>6 DEF TInv, TypeOK, Workers
  <1>5. CASE Refuse(m)
    <2>1. faults' \in 0 .. MaxFaults /\ worker[m.from].phase = "asking"
      BY <1>5, FaultType, Waited DEF Refuse
    <2>2. \/ \E code \in {"throttled", "KMS"} : TryFails(m.from, code)
          \/ \E how \in {"FAILED", "lost"} : Ended(m.from, how)
      BY <1>5 DEF Refuse, Raised
    <2>3. /\ Workers'
          /\ due' \in BOOLEAN /\ outcome' \in {"none", "SUCCEEDED", "FAILED"}
          /\ UNCHANGED <<records, lease, answered, started>>
      BY <1>0, <2>1, <2>2, EndedType, TryFailsType
    <2> QED
      BY <1>0, <2>1, <2>3 DEF TInv, TypeOK, Workers
  <1>6. CASE RepeatMarker(m)
    <2>1. worker[m.from] \in WorkerType /\ Sane(worker[m.from])
          /\ worker[m.from].phase = "asking" /\ records[m.step] \in RecordType
      BY <1>0, <1>6, Waited DEF RepeatMarker, TInv, Workers, TypeOK, MessageType
    <2> DEFINE x == [worker[m.from] EXCEPT !.phase = "paging",
                                           !.seen[m.step] = records[m.step]]
    <2>2. x \in WorkerType /\ x.phase = "paging" /\ x.step = worker[m.from].step
      BY <2>1, PhaseNames DEF WorkerType
    <2>3. Sane(x)
      BY <2>1, <2>2 DEF Sane
    <2>4. Set(m.from, x)
      BY <1>6 DEF RepeatMarker
    <2> HIDE DEF x
    <2>5. Workers' /\ faults' \in 0 .. MaxFaults
      BY <1>0, <1>6, <2>2, <2>3, <2>4, Sets, FaultType DEF RepeatMarker, TInv
    <2> QED
      BY <1>0, <1>6, <2>5 DEF RepeatMarker, serviceVars, TInv, TypeOK, Workers
  <1> QED
    BY <1>1, <1>2, <1>3, <1>4, <1>5, <1>6

\* The requests of an invocation.
LEMMA AsksType ==
    ASSUME TInv, NEW n \in Invocation,
           AskPage(n) \/ SendAgain(n) \/ StartStep(n) \/ EncodeInline(n) \/ Envelope(n)
    PROVE  TInv'
  <1>0. worker[n] \in WorkerType /\ Sane(worker[n])
    BY DEF TInv, Workers
  <1>1. CASE SendAgain(n)
    <2> DEFINE x == [worker[n] EXCEPT !.try = @ + 1]
    <2>1. x \in WorkerType /\ x.ask = worker[n].ask /\ x.step = worker[n].step
      BY <1>0, <1>1 DEF SendAgain, Sane, WorkerType
    <2>2. x.ask.kind # "none" /\ x.step \in Step
      BY <1>0, <1>1, <2>1 DEF SendAgain, Sane
    <2>3. Send(n, x)
      BY <1>1 DEF SendAgain
    <2> HIDE DEF x
    <2> QED
      BY <2>1, <2>2, <2>3, SendType
  <1>2. CASE ~SendAgain(n)
    <2>1. worker[n].step \in Step
      BY <1>0, <1>2, Fields
      DEF Sane, AskPage, StartStep, EncodeInline, Envelope, Ran, At, Step
    <2>2. worker[n].page \in Step
      BY <1>0, Fields
    <2>3. PICK k \in {"PAGE"} \cup Checkpoints, s \in Step : Ask(n, k, s)
      BY <1>2, <2>1, <2>2 DEF AskPage, StartStep, EncodeInline, Envelope, Checkpoints
    <2> QED
      BY <2>1, <2>3, AskedType
  <1> QED
    BY <1>1, <1>2

LEMMA FileType ==
    ASSUME TypeOK, NEW n \in Invocation, worker[n].step \in Step,
           NEW c \in {"none", "written", "synced", "durable"}, File(n, c)
    PROVE  files' \in [Invocation -> [Step -> {"none", "written", "synced", "durable"}]]
  <1> DEFINE of == [files[n] EXCEPT ![worker[n].step] = c]
  <1>1. of \in [Step -> {"none", "written", "synced", "durable"}]
    BY DEF TypeOK
  <1>2. files' = [files EXCEPT ![n] = of]
    BY DEF File
  <1> HIDE DEF of
  <1> QED
    BY <1>1, <1>2 DEF TypeOK

\* The steps of an invocation that ask nobody.
LEMMA MovesType ==
    ASSUME TInv, NEW n \in Invocation,
           EncodeInFile(n) \/ MakeDirectory(n) \/ SyncDirectory(n) \/ CreateFile(n)
             \/ FlushFile(n) \/ PublishFile(n)
    PROVE  TInv'
  <1>0. worker[n] \in WorkerType /\ Sane(worker[n])
    BY DEF TInv, Workers
  <1>1. worker[n].step \in Step
    BY <1>0, Fields
    DEF Sane, EncodeInFile, MakeDirectory, SyncDirectory, CreateFile, FlushFile,
        PublishFile, Ran, At, Goes, Step
  <1>2. PICK p \in {"mkdir", "sync", "create", "flush", "publish", "named"} :
          Set(n, [worker[n] EXCEPT !.phase = p])
    BY DEF EncodeInFile, MakeDirectory, SyncDirectory, CreateFile, FlushFile,
           PublishFile, Goes
  <1>3. p \in Phases
    BY DEF Phases, Storing
  <1>4. Sane([worker[n] EXCEPT !.phase = p])
    BY <1>0, <1>1, <1>3, Moves DEF Sane
  <1>5. Workers'
    BY <1>0, <1>2, <1>3, <1>4, Moves, Sets DEF TInv
  <1>6. UNCHANGED <<serviceVars, wire, runner, faults>>
    BY DEF EncodeInFile, MakeDirectory, SyncDirectory, CreateFile, FlushFile,
           PublishFile, Goes
  <1>7. directory' \in {"none", "made", "durable"}
    BY DEF EncodeInFile, MakeDirectory, SyncDirectory, CreateFile, FlushFile,
           PublishFile, fileVars, TInv, TypeOK
  <1>8. \/ files' = files
        \/ \E c \in {"written", "synced", "durable"} : File(n, c)
    BY DEF EncodeInFile, MakeDirectory, SyncDirectory, CreateFile, FlushFile,
           PublishFile, fileVars
  <1>9. files' \in [Invocation -> [Step -> {"none", "written", "synced", "durable"}]]
    BY <1>1, <1>8, FileType DEF TInv, TypeOK
  <1> QED
    BY <1>5, <1>6, <1>7, <1>9 DEF serviceVars, TInv, TypeOK, Workers

LEMMA ReplayType ==
    ASSUME TInv, NEW n \in Invocation, ReplayStep(n)
    PROVE  TInv'
  <1>0. worker[n] \in WorkerType /\ Sane(worker[n])
    BY DEF TInv, Workers
  <1>1. worker[n].step \in Step
    BY <1>0, Fields DEF Sane, ReplayStep, Decodes, At, Step
  <1> DEFINE x == [worker[n] EXCEPT !.phase = "running", !.step = @ + 1]
  <1>2. x \in WorkerType /\ x.phase = "running"
    <2>1. worker[n].step + 1 \in 1 .. Steps + 1 /\ "running" \in Phases
      BY <1>1, PhaseNames DEF Step
    <2>2. x = [worker[n] EXCEPT !.phase = "running", !.step = worker[n].step + 1]
      BY <1>0 DEF WorkerType
    <2> HIDE DEF x
    <2> QED
      BY <1>0, <2>1, <2>2 DEF WorkerType
  <1>3. Sane(x)
    BY <1>2 DEF Sane
  <1>4. Set(n, x)
    BY DEF ReplayStep
  <1> HIDE DEF x
  <1>5. Workers'
    BY <1>2, <1>3, <1>4, Sets DEF TInv
  <1> QED
    BY <1>5 DEF ReplayStep, serviceVars, fileVars, TInv, TypeOK, Workers

LEMMA StoreFailsType ==
    ASSUME TInv, NEW n \in Invocation, StoreFails(n)
    PROVE  TInv'
  <1>0. worker[n] \in WorkerType /\ Sane(worker[n])
    BY DEF TInv, Workers
  <1>1. worker[n].step \in Step
    BY <1>0 DEF Sane, StoreFails, Storing
  <1>2. files' \in [Invocation -> [Step -> {"none", "written", "synced", "durable"}]]
    BY <1>1 DEF StoreFails, File, TInv, TypeOK
  <1>3. faults' \in 0 .. MaxFaults /\ UNCHANGED <<directory, runner>>
    BY FaultType DEF StoreFails
  <1>4. CASE Ended(n, "FAILED") /\ UNCHANGED wire
    BY <1>2, <1>3, <1>4, EndedType DEF TInv, TypeOK, Workers
  <1>5. CASE ~(Ended(n, "FAILED") /\ UNCHANGED wire)
    <2> DEFINE w == [worker[n] EXCEPT !.ask = [kind |-> "RETRY", step |-> worker[n].step],
                                      !.try = 1]
    <2>1. Set(n, [w EXCEPT !.phase = "asking"]) /\ UNCHANGED serviceVars
          /\ wire' = wire \cup {Message(n, w)}
      BY <1>5 DEF StoreFails
    <2>2. [kind |-> "RETRY", step |-> worker[n].step] \in AskType /\ 1 \in 1 .. Tries
      BY <1>1 DEF AskType, Checkpoints
    <2>3. w \in WorkerType /\ w.ask.kind = "RETRY" /\ w.step = worker[n].step
      BY <1>0, <2>2 DEF WorkerType
    <2> HIDE DEF w
    <2>4. [w EXCEPT !.phase = "asking"] \in WorkerType
          /\ Sane([w EXCEPT !.phase = "asking"])
      BY <1>1, <2>3, Moves, PhaseNames DEF Sane
    <2>5. Workers' /\ wire' \subseteq MessageType
      BY <2>1, <2>3, <2>4, MessageTyped, Sets DEF TInv, TypeOK
    <2> QED
      BY <1>2, <1>3, <2>1, <2>5 DEF serviceVars, TInv, TypeOK, Workers
  <1> QED
    BY <1>4, <1>5

LEMMA LosePowerType ==
    ASSUME TInv, LosePower
    PROVE  TInv'
  <1>1. faults' \in 0 .. MaxFaults
    BY FaultType DEF LosePower
  <1>2. files' \in [Invocation -> [Step -> {"none", "written", "synced", "durable"}]]
    BY DEF LosePower
  <1>3. Workers'
    <2>1. \A n \in Invocation : /\ [worker[n] EXCEPT !.phase = "ended"] \in WorkerType
                                /\ Sane([worker[n] EXCEPT !.phase = "ended"])
                                /\ worker[n] \in WorkerType /\ Sane(worker[n])
      BY Moves, PhaseNames DEF TInv, Workers, Sane
    <2>2. \A n \in Invocation : worker'[n] \in {worker[n], [worker[n] EXCEPT !.phase = "ended"]}
      BY DEF LosePower
    <2>3. worker' = [n \in Invocation |-> worker'[n]]
      BY DEF LosePower
    <2>4. \A n \in Invocation : worker'[n] \in WorkerType /\ Sane(worker'[n])
      BY <2>1, <2>2
    <2>5. worker' \in [Invocation -> WorkerType]
      BY <2>3, <2>4
    <2> QED
      BY <2>4, <2>5 DEF Workers, Sane
  <1> QED
    BY <1>1, <1>2, <1>3 DEF LosePower, TInv, TypeOK, Workers

\* The service and the runner on their own.
LEMMA OthersType ==
    ASSUME TInv, TakeForDead \/ RunnerInvokes \/ RunnerPolls \/ RunnerReads
                   \/ RunnerGivesUp \/ \E s \in Step : Elapse(s)
    PROVE  TInv'
  <1>1. CASE TakeForDead
    BY <1>1, FaultType DEF TakeForDead, fileVars, TInv, TypeOK, Workers
  <1>2. CASE RunnerInvokes \/ RunnerPolls \/ RunnerReads \/ RunnerGivesUp
    <2>1. faults' \in 0 .. MaxFaults /\ due' \in BOOLEAN
      BY <1>2, FaultType DEF RunnerInvokes, RunnerPolls, RunnerReads, RunnerGivesUp,
                             TInv, TypeOK
    <2>2. UNCHANGED <<records, lease, answered, started, outcome, wire, worker, fileVars>>
      BY <1>2 DEF RunnerInvokes, RunnerPolls, RunnerReads, RunnerGivesUp, Watch
    <2>3. CASE RunnerReads
      <3>1. runner.page \in Step /\ records[runner.page] \in RecordType
            /\ (runner.page < Steps => runner.page + 1 \in Step)
        BY DEF TInv, TypeOK, RunnerType, Step
      <3>2. runner' \in RunnerType
        BY <2>3, <3>1 DEF RunnerReads, Watch, RunnerType, TInv, TypeOK
      <3> QED
        BY <2>1, <2>2, <3>2 DEF fileVars, TInv, TypeOK, Workers
    <2>4. CASE ~RunnerReads
      <3>1. runner' \in RunnerType
        BY <1>2, <2>4
        DEF RunnerInvokes, RunnerPolls, RunnerGivesUp, Watch, RunnerType, TInv, TypeOK
      <3> QED
        BY <2>1, <2>2, <3>1 DEF fileVars, TInv, TypeOK, Workers
    <2> QED
      BY <2>3, <2>4
  <1>3. CASE \E s \in Step : Elapse(s)
    <2>1. PICK s \in Step : Elapse(s)
      BY <1>3
    <2>2. [records[s] EXCEPT !.status = "READY"] \in RecordType
      BY DEF TInv, TypeOK, RecordType, Statuses
    <2>3. records' = [records EXCEPT ![s] = [records[s] EXCEPT !.status = "READY"]]
      BY <2>1 DEF Elapse
    <2>4. records' \in [Step -> RecordType]
      BY <2>2, <2>3 DEF TInv, TypeOK
    <2> QED
      BY <2>1, <2>4 DEF Elapse, fileVars, TInv, TypeOK, Workers
  <1> QED
    BY <1>1, <1>2, <1>3

LEMMA TypeStep ==
    ASSUME TInv, [Next]_vars
    PROVE  TInv'
  <1>1. CASE InvokeWorkflow
    BY <1>1, InvokeType
  <1>2. CASE Service
    BY <1>2, HandledType DEF Service
  <1>3. CASE Runner
    BY <1>3, OthersType DEF Runner
  <1>4. CASE Failures
    BY <1>4, EndsType, TimeOutType, StoreFailsType, HandledType, OthersType, LosePowerType
    DEF Failures
  <1>5. CASE \E n \in Invocation : Transport(n) \/ Handler(n) \/ Storage(n)
    BY <1>5, AsksType, MovesType, ReplayType, EndsType DEF Transport, Handler, Storage
  <1>6. CASE \E s \in Step : Elapse(s)
    BY <1>6, OthersType
  <1>7. CASE Finished \/ UNCHANGED vars
    BY <1>7 DEF Finished, vars, serviceVars, fileVars, TInv, TypeOK, Workers
  <1> QED
    BY <1>1, <1>2, <1>3, <1>4, <1>5, <1>6, <1>7 DEF Next

LEMMA RemoteInit == Init => TInv
  <1> SUFFICES ASSUME Init PROVE TInv
    OBVIOUS
  <1>1. NoRecord \in RecordType /\ NoAsk \in AskType /\ 1 \in Step
    BY DEF NoRecord, RecordType, Statuses, NoAsk, AskType, Step
  <1>2. Idle \in WorkerType /\ Sane(Idle)
    <2>1. [s \in Step |-> NoRecord] \in [Step -> RecordType]
      BY <1>1
    <2>2. 1 \in 1 .. Steps + 1 /\ 1 \in 1 .. Tries /\ 0 \in Nat /\ "none" \in Phases
      BY PhaseNames
    <2>3. Idle \in WorkerType
      BY <1>1, <2>1, <2>2 DEF Idle, WorkerType
    <2> QED
      BY <1>1, <2>3 DEF Idle, Sane
  <1>3. Workers
    BY <1>2 DEF Init, Workers
  <1>4. runner \in RunnerType
    BY <1>1 DEF Init, RunnerType
  <1>5. answered \in [Invocation -> [Checkpoints -> [Step -> [1 .. Tries -> Nat]]]]
    BY DEF Init
  <1>6. records \in [Step -> RecordType] /\ lease \in Nat /\ due \in BOOLEAN
    BY <1>1 DEF Init
  <1>7. started \in 0 .. MaxInvocations /\ outcome \in {"none", "SUCCEEDED", "FAILED"}
        /\ wire \subseteq MessageType /\ faults \in 0 .. MaxFaults
    BY DEF Init
  <1>8. directory \in {"none", "made", "durable"}
        /\ files \in [Invocation -> [Step -> {"none", "written", "synced", "durable"}]]
    BY DEF Init
  <1> QED
    BY <1>3, <1>4, <1>5, <1>6, <1>7, <1>8 DEF TInv, TypeOK, Workers

\* Every variable keeps its type: no step of the transport, of the service, of
\* the storage or of the runner leaves a state the code does not know.
THEOREM RemoteTypeOK == Spec => []TypeOK
  <1>1. Init => TInv
    BY RemoteInit
  <1>2. TInv /\ [Next]_vars => TInv'
    BY TypeStep
  <1>3. TInv => TypeOK
    BY DEF TInv
  <1> QED
    BY <1>1, <1>2, <1>3, PTL DEF Spec

----------------------------------------------------------------------------
(* Payloads                                                                *)

\* The invocation has sent the result of its step and has no answer yet.
Awaits(n) == worker[n].phase \in {"asking", "waiting"} /\ worker[n].ask.kind = "SUCCEED"

\* It will not write the file of step s any more.
Past(n, s) ==
    \/ s < worker[n].step
    \/ s = worker[n].step /\ (worker[n].phase \in {"decoding", "ended"} \/ Awaits(n))

\* Its file of step s outlives a loss of power.
Kept(n, s) == files[n][s] = "durable" /\ directory = "durable"

\* The service has, or will have, its result of step s.
Claim(n, s) ==
    \/ \E m \in wire : m.from = n /\ m.kind = "SUCCEED" /\ m.step = s
    \/ records[s].status = "SUCCEEDED" /\ records[s].by = n

Held(n) == \A s \in Offloaded : Claim(n, s) => Past(n, s) /\ Kept(n, s)
Asked(n) ==
    Awaits(n) => /\ worker[n].ask.step = worker[n].step
                 /\ worker[n].step \in Offloaded => Kept(n, worker[n].step)
Placed(n) ==
    /\ worker[n].phase \in {"create", "flush", "publish", "named"} => directory = "durable"
    /\ worker[n].phase = "named" => files[n][worker[n].step] = "durable"
    /\ worker[n].phase \in Storing \cup {"named"} => worker[n].step \in Offloaded
Born(n) == n > started => worker[n].phase = "none" /\ worker[n].step = 1
ByWhom == \A s \in Step : records[s].status = "SUCCEEDED" => records[s].by \in Invocation

Own(n) == Held(n) /\ Asked(n) /\ Placed(n) /\ Born(n)
Filed == ByWhom /\ \A n \in Invocation : Own(n)

PInv == TInv /\ Filed

\* An invocation that does nothing keeps what it had.
LEMMA Stays ==
    ASSUME NEW n \in Invocation, Own(n), worker'[n] = worker[n],
           directory = "durable" => directory' = "durable",
           \A s \in Step : files[n][s] = "durable" => files'[n][s] = "durable",
           worker[n].step \in 1 .. Steps + 1,
           worker[n].phase = "named" => worker[n].step \in Step,
           n > started' => n > started,
           \A s \in Offloaded : Claim(n, s)' => Claim(n, s)
    PROVE  Own(n)'
  <1>1. Offloaded \subseteq Step
    BY RemoteAssumption DEF Step
  <1>2. \A s \in Offloaded : (Past(n, s) => Past(n, s)') /\ (Kept(n, s) => Kept(n, s)')
    BY <1>1 DEF Past, Awaits, Kept
  <1>3. Held(n)'
    BY <1>2 DEF Own, Held
  <1>4. Asked(n)'
    BY <1>2 DEF Own, Asked, Awaits
  <1>5. Placed(n)'
    BY DEF Own, Placed
  <1>6. Born(n)'
    BY DEF Own, Born
  <1> QED
    BY <1>3, <1>4, <1>5, <1>6 DEF Own

\* An invocation that takes a step keeps what it had, and what it adds is on disk.
LEMMA Moved ==
    ASSUME NEW n \in Invocation, Own(n), worker[n].phase # "none", started' = started,
           \A s \in Offloaded : Past(n, s) => Past(n, s)',
           \A s \in Offloaded : Past(n, s) /\ Kept(n, s) => Kept(n, s)',
           \A s \in Offloaded :
              Claim(n, s)' => Claim(n, s) \/ (Past(n, s)' /\ Kept(n, s)'),
           Asked(n)', Placed(n)'
    PROVE  Own(n)'
  BY DEF Own, Held, Born

\* Only one invocation takes a step.
LEMMA OnlyOne ==
    ASSUME PInv, NEW n \in Invocation, Own(n)', ByWhom', n > started' => n > started,
           started \in Nat, started' \in Nat, started' >= started,
           directory = "durable" => directory' = "durable",
           \A k \in Invocation \ {n} :
              /\ worker'[k] = worker[k] /\ files'[k] = files[k]
              /\ \A s \in Offloaded : Claim(k, s)' => Claim(k, s)
    PROVE  Filed'
  <1> SUFFICES ASSUME NEW k \in Invocation, k # n PROVE Own(k)'
    BY DEF Filed
  <1>1. worker[k].step \in 1 .. Steps + 1
        /\ (worker[k].phase = "named" => worker[k].step \in Step)
    BY Fields DEF PInv, TInv, Workers, Sane
  <1>2. k > started' => k > started
    BY DEF Invocation
  <1>3. Own(k)
    BY DEF PInv, Filed
  <1> QED
    BY <1>1, <1>2, <1>3, Stays

\* No invocation takes a step.
LEMMA Nobody ==
    ASSUME PInv, ByWhom', UNCHANGED <<worker, directory, files, started>>,
           \A k \in Invocation : \A s \in Offloaded : Claim(k, s)' => Claim(k, s)
    PROVE  Filed'
  <1> SUFFICES ASSUME NEW k \in Invocation PROVE Own(k)'
    BY DEF Filed
  <1>1. worker[k].step \in 1 .. Steps + 1
        /\ (worker[k].phase = "named" => worker[k].step \in Step)
    BY Fields DEF PInv, TInv, Workers, Sane
  <1>2. Own(k)
    BY DEF PInv, Filed
  <1> QED
    BY <1>1, <1>2, Stays

\* The service applies what was under way to it.
LEMMA AppliedClaims ==
    ASSUME PInv, NEW m \in wire, wire' \subseteq wire, Applied(m)
    PROVE  /\ ByWhom'
           /\ \A k \in Invocation : \A s \in Offloaded : Claim(k, s)' => Claim(k, s)
  <1>1. Offloaded \subseteq Step /\ m \in MessageType
    BY RemoteAssumption DEF PInv, TInv, TypeOK, Step
  <1>2. \A s \in Step : records'[s].status = "SUCCEEDED" =>
           \/ records'[s] = records[s]
           \/ m.kind = "SUCCEED" /\ m.step = s /\ records'[s].by = m.from
    <2>1. CASE Fresh(m)
      <3>1. records' = After(m) /\ records \in [Step -> RecordType]
        BY <2>1 DEF Applied, PInv, TInv, TypeOK
      <3>2. m.kind \in Checkpoints /\ m.step \in Step
        BY <1>1, <2>1 DEF MessageType, Fresh
      <3>3. CASE m.kind = "START"
        <4>1. records' = [records EXCEPT ![m.step] = [status |-> "STARTED", by |-> 0]]
          BY <3>1, <3>3 DEF After
        <4> QED
          BY <3>1, <3>2, <4>1
      <3>4. CASE m.kind = "RETRY"
        <4>1. records' = [records EXCEPT ![m.step] = [status |-> "PENDING", by |-> 0]]
          BY <3>1, <3>4 DEF After
        <4> QED
          BY <3>1, <3>2, <4>1
      <3>5. CASE m.kind = "SUCCEED"
        <4>1. records' = [records EXCEPT
                            ![m.step] = [status |-> "SUCCEEDED", by |-> m.from]]
          BY <3>1, <3>5 DEF After
        <4> QED
          BY <3>1, <3>2, <3>5, <4>1
      <3> QED
        BY <3>2, <3>3, <3>4, <3>5 DEF Checkpoints
    <2>2. CASE ~Fresh(m)
      BY <2>2 DEF Applied
    <2> QED
      BY <2>1, <2>2
  <1>3. ByWhom'
    BY <1>1, <1>2 DEF PInv, Filed, ByWhom, MessageType
  <1>4. ASSUME NEW k \in Invocation, NEW s \in Offloaded, Claim(k, s)'
        PROVE  Claim(k, s)
    <2>1. CASE \E u \in wire' : u.from = k /\ u.kind = "SUCCEED" /\ u.step = s
      BY <2>1 DEF Claim
    <2>2. CASE records'[s].status = "SUCCEEDED" /\ records'[s].by = k
      BY <1>1, <1>2, <2>2 DEF Claim
    <2> QED
      BY <1>4, <2>1, <2>2 DEF Claim
  <1> QED
    BY <1>3, <1>4

\* A request adds at most the claim it names.
LEMMA SentClaims ==
    ASSUME NEW n \in Invocation, NEW w, wire' = wire \cup {Message(n, w)},
           UNCHANGED records, NEW k \in Invocation, NEW s \in Offloaded, Claim(k, s)'
    PROVE  Claim(k, s) \/ (k = n /\ w.ask.kind = "SUCCEED" /\ w.ask.step = s)
  <1>1. Message(n, w).from = n /\ Message(n, w).kind = w.ask.kind
        /\ Message(n, w).step = w.ask.step
    BY DEF Message
  <1> QED
    BY <1>1 DEF Claim

\* What a move of one invocation leaves alone.
LEMMA Others ==
    ASSUME PInv, NEW n \in Invocation, NEW x, Set(n, x)
    PROVE  /\ worker'[n] = x
           /\ \A k \in Invocation \ {n} : worker'[k] = worker[k]
  BY DEF PInv, TInv, Workers, Set

\* What is true of every invocation that is at work.
LEMMA AtWork ==
    ASSUME PInv, NEW n \in Invocation, worker[n].phase # "none"
    PROVE  /\ Own(n) /\ ByWhom /\ n <= started /\ started \in Nat
           /\ worker[n] \in WorkerType /\ Offloaded \subseteq Step
  BY RemoteAssumption DEF PInv, Filed, Own, Born, TInv, Workers, TypeOK, Invocation, Step

\* A step that changes the phase of one invocation, no file and no claim.
LEMMA Calm ==
    ASSUME PInv, NEW n \in Invocation, NEW x \in WorkerType, Set(n, x), ByWhom',
           worker[n].phase # "none", UNCHANGED <<directory, files, started>>,
           \A k \in Invocation : \A s \in Offloaded : Claim(k, s)' => Claim(k, s),
           \/ x.step = worker[n].step + 1 /\ x.phase = "running"
           \/ x.step = worker[n].step /\ x.phase \in {"decoding", "ended"}
           \/ /\ x.step = worker[n].step /\ ~Awaits(n)
              /\ worker[n].phase \notin {"decoding", "ended"}
              /\ \/ x.phase \in {"paging", "running", "ran", "pausing"}
                 \/ x.phase \in {"asking", "waiting"} /\ x.ask.kind # "SUCCEED"
                 \/ x.phase = "mkdir" /\ x.step \in Offloaded
           \/ /\ x.step = worker[n].step /\ x.ask = worker[n].ask
              /\ worker[n].phase \in {"asking", "waiting"}
              /\ x.phase \in {"asking", "waiting"}
    PROVE  Filed'
  <1>1. /\ Own(n) /\ started \in Nat /\ worker[n].step \in Nat
        /\ Offloaded \subseteq Step /\ Step \subseteq Nat
    BY AtWork, Fields DEF Step
  <1>2. worker'[n] = x /\ \A k \in Invocation \ {n} : worker'[k] = worker[k]
    BY Others
  <1>3. \A s \in Offloaded : Past(n, s) => Past(n, s)'
    BY <1>1, <1>2 DEF Past, Awaits
  <1>4. \A s \in Offloaded : Kept(n, s) => Kept(n, s)'
    BY DEF Kept
  <1>5. Asked(n)'
    BY <1>1, <1>2, <1>4 DEF Own, Asked, Awaits
  <1>6. Placed(n)'
    BY <1>1, <1>2 DEF Placed, Storing
  <1>7. Own(n)'
    BY <1>1, <1>3, <1>4, <1>5, <1>6, Moved
  <1> QED
    BY <1>1, <1>2, <1>7, OnlyOne

LEMMA SameClaims ==
    ASSUME PInv, UNCHANGED records, wire' \subseteq wire
    PROVE  /\ ByWhom'
           /\ \A k \in Invocation : \A s \in Offloaded : Claim(k, s)' => Claim(k, s)
  BY DEF PInv, Filed, ByWhom, Claim

\* The end of an invocation.
LEMMA EndsFiled ==
    ASSUME PInv, NEW n \in Invocation, Set(n, [worker[n] EXCEPT !.phase = "ended"]),
           UNCHANGED <<directory, files, started>>, worker[n].phase # "none", ByWhom',
           \A k \in Invocation : \A s \in Offloaded : Claim(k, s)' => Claim(k, s)
    PROVE  Filed'
  <1>1. worker[n] \in WorkerType
    BY AtWork
  <1>2. [worker[n] EXCEPT !.phase = "ended"] \in WorkerType
        /\ [worker[n] EXCEPT !.phase = "ended"].phase = "ended"
        /\ [worker[n] EXCEPT !.phase = "ended"].step = worker[n].step
    BY <1>1, Moves, PhaseNames
  <1> QED
    BY <1>2, Calm

\* A request that failed and will be sent again.
LEMMA WaitsFiled ==
    ASSUME PInv, NEW n \in Invocation, Set(n, [worker[n] EXCEPT !.phase = "waiting"]),
           UNCHANGED <<directory, files, started>>, worker[n].phase = "asking", ByWhom',
           \A k \in Invocation : \A s \in Offloaded : Claim(k, s)' => Claim(k, s)
    PROVE  Filed'
  <1>1. worker[n] \in WorkerType
    BY AtWork
  <1> DEFINE x == [worker[n] EXCEPT !.phase = "waiting"]
  <1>2. x \in WorkerType /\ x.phase = "waiting" /\ x.step = worker[n].step
        /\ x.ask = worker[n].ask
    BY <1>1, Moves, PhaseNames
  <1>3. Set(n, x)
    OBVIOUS
  <1>4. worker[n].phase \in {"asking", "waiting"} /\ worker[n].phase # "none"
        /\ x.phase \in {"asking", "waiting"}
    BY <1>2
  <1> HIDE DEF x
  <1> QED
    BY <1>2, <1>3, <1>4, Calm

LEMMA TryFailsFiled ==
    ASSUME PInv, NEW n \in Invocation, NEW code, TryFails(n, code),
           UNCHANGED <<directory, files>>, worker[n].phase = "asking", wire' \subseteq wire
    PROVE  Filed'
  <1>1. UNCHANGED <<records, started>>
    BY DEF TryFails, Raised, Ended, serviceVars
  <1>2. \/ Set(n, [worker[n] EXCEPT !.phase = "waiting"])
        \/ Set(n, [worker[n] EXCEPT !.phase = "ended"])
    BY DEF TryFails, Raised, Ended
  <1> QED
    BY <1>1, <1>2, SameClaims, WaitsFiled, EndsFiled

LEMMA FinishFiled ==
    ASSUME PInv, NEW n \in Invocation,
           Crash(n) \/ ReadFails(n) \/ PauseHandler(n) \/ Return(n)
    PROVE  Filed'
  <1>1. Set(n, [worker[n] EXCEPT !.phase = "ended"])
        /\ UNCHANGED <<records, wire, directory, files, started>>
    BY DEF Crash, ReadFails, PauseHandler, Return, Ended, fileVars
  <1>2. worker[n].phase # "none"
    BY DEF Crash, ReadFails, PauseHandler, Return, Alive, Decodes, At, Running
  <1> QED
    BY <1>1, <1>2, SameClaims, EndsFiled

LEMMA InvokeFiled ==
    ASSUME PInv, InvokeWorkflow
    PROVE  Filed'
  <1>0. started' \in Invocation /\ started \in Nat /\ started' = started + 1
    BY DEF InvokeWorkflow, PInv, TInv, TypeOK, Invocation
  <1>1. PICK n \in Invocation : n = started'
    BY <1>0
  <1> DEFINE x == Paged([Idle EXCEPT !.lease = lease'], 1)
  <1>2. UNCHANGED <<records, wire, directory, files>> /\ Set(n, x)
    BY <1>1 DEF InvokeWorkflow, fileVars
  <1>3. x.phase \in {"paging", "running"} /\ x.step = 1
    <2>1. [Idle EXCEPT !.lease = lease'].step = 1
      BY DEF Idle
    <2>2. "phase" \in DOMAIN [Idle EXCEPT !.lease = lease']
          /\ "step" \in DOMAIN [Idle EXCEPT !.lease = lease']
      BY DEF Idle
    <2> DEFINE w == [Idle EXCEPT !.lease = lease']
    <2> HIDE DEF w
    <2> QED
      BY <2>1, <2>2 DEF Paged
  <1> HIDE DEF x
  <1>4. worker'[n] = x /\ \A k \in Invocation \ {n} : worker'[k] = worker[k]
    BY <1>2, Others
  <1>5. ByWhom' /\ \A k \in Invocation : \A s \in Offloaded : Claim(k, s)' => Claim(k, s)
    BY <1>2, SameClaims
  <1>6. worker[n].phase = "none" /\ worker[n].step = 1
    BY <1>0, <1>1 DEF PInv, Filed, Own, Born
  <1>7. \A s \in Offloaded : ~Claim(n, s)
    <2>1. \A s \in Offloaded : ~Past(n, s)
      BY <1>6, RemoteAssumption DEF Past, Awaits
    <2> QED
      BY <1>1, <2>1 DEF PInv, Filed, Own, Held
  <1>8. Own(n)'
    <2>1. Held(n)'
      BY <1>1, <1>5, <1>7 DEF Held
    <2>2. Asked(n)' /\ Placed(n)'
      BY <1>3, <1>4 DEF Asked, Awaits, Placed, Storing
    <2>3. Born(n)'
      BY <1>0, <1>1 DEF Born
    <2> QED
      BY <2>1, <2>2, <2>3 DEF Own
  <1>9. started' \in Nat /\ started' >= started /\ (n > started' => n > started)
    BY <1>0, <1>1
  <1> QED
    BY <1>0, <1>2, <1>4, <1>5, <1>8, <1>9, OnlyOne

\* An answer with the records moves the handler on; it may be the one that the
\* result was waiting for.
LEMMA ReplyFiled ==
    ASSUME PInv, NEW m \in wire, Reply(m)
    PROVE  Filed'
  <1> DEFINE n == m.from
             w == worker[n]
             next == IF m.kind = "PAGE" THEN 0
                     ELSE answered'[m.from][m.kind][m.step][m.token]
  <1>1. n \in Invocation /\ w.phase = "asking" /\ w \in WorkerType /\ Sane(w)
    BY Waited DEF Reply, PInv, TInv, Workers
  <1>2. w.step \in Step /\ w.ask.step \in Step
    BY <1>1, Fields DEF Sane
  <1>3. /\ wire' \subseteq wire /\ Applied(m)
        /\ UNCHANGED <<directory, files, started>> /\ Answers(n, records', next)
    BY DEF Reply, Handled, fileVars
  <1>4. ByWhom' /\ \A k \in Invocation : \A s \in Offloaded : Claim(k, s)' => Claim(k, s)
    BY <1>3, AppliedClaims
  <1>5. records' \in [Step -> RecordType]
    BY <1>3, AppliedType DEF PInv
  <1>6. next \in Nat
    <2>1. answered' \in [Invocation -> [Checkpoints -> [Step -> [1 .. Tries -> Nat]]]]
      BY <1>3, AppliedType DEF PInv
    <2>2. m.kind # "PAGE" => m.kind \in Checkpoints
      BY DEF PInv, TInv, TypeOK, MessageType
    <2>3. m.step \in Step /\ m.token \in 1 .. Tries
      BY DEF PInv, TInv, TypeOK, MessageType
    <2> QED
      BY <1>1, <2>1, <2>2, <2>3
  <1> HIDE DEF n, next
  <1>7. CASE w.ask.kind = "PAGE"
    <2> DEFINE x == Paged(w, w.ask.step)
    <2>1. Set(n, x)
      BY <1>3, <1>7 DEF Answers
    <2>2. x \in WorkerType
      BY <1>1, <1>2, PagedType DEF PInv
    <2>3. x.phase \in {"paging", "running"} /\ x.step = w.step
      BY <1>1 DEF Paged, WorkerType
    <2>4. ~Awaits(n)
      BY <1>7 DEF Awaits
    <2> HIDE DEF x
    <2> QED
      BY <1>1, <1>3, <1>4, <2>1, <2>2, <2>3, <2>4, Calm
  <1>8. CASE w.ask.kind # "PAGE"
    <2> DEFINE p == CASE w.ask.kind = "START" -> "ran"
                      [] w.ask.kind = "RETRY" -> "pausing"
                      [] OTHER -> "decoding"
               x == [w EXCEPT !.phase = p, !.seen = records', !.lease = next]
    <2>1. p \in {"ran", "pausing", "decoding"}
          /\ (w.ask.kind = "SUCCEED" => p = "decoding")
      OBVIOUS
    <2>2. Set(n, x)
      BY <1>3, <1>8 DEF Answers
    <2> HIDE DEF p
    <2>3. x \in WorkerType /\ x.phase = p /\ x.step = w.step
      BY <1>1, <1>5, <1>6, <2>1, PhaseNames DEF WorkerType
    <2>4. p # "decoding" => ~Awaits(n)
      BY <2>1 DEF Awaits
    <2> HIDE DEF x
    <2> QED
      BY <1>1, <1>3, <1>4, <2>1, <2>2, <2>3, <2>4, Calm
  <1> QED
    BY <1>7, <1>8

LEMMA HandledFiled ==
    ASSUME PInv, NEW m \in wire,
           Fenced(m) \/ ArriveLate(m) \/ LoseAnswer(m) \/ Refuse(m) \/ NoLease(m)
             \/ RepeatMarker(m)
    PROVE  Filed'
  <1>1. wire' \subseteq wire /\ UNCHANGED <<directory, files>>
    BY DEF Fenced, ArriveLate, LoseAnswer, Refuse, NoLease, RepeatMarker, Handled, fileVars
  <1>2. CASE ArriveLate(m)
    <2>1. Applied(m) /\ UNCHANGED <<worker, started>>
      BY <1>2 DEF ArriveLate
    <2> QED
      BY <1>1, <2>1, AppliedClaims, Nobody
  <1>3. CASE ~ArriveLate(m)
    <2>1. /\ m.from \in Invocation /\ worker[m.from].phase = "asking"
          /\ worker[m.from].phase # "none"
      BY <1>3, Waited DEF PInv, Fenced, LoseAnswer, Refuse, NoLease, RepeatMarker
    <2>2. CASE Fenced(m)
      <3>1. Set(m.from, [worker[m.from] EXCEPT !.phase = "ended"])
            /\ UNCHANGED <<records, started>>
        BY <2>2 DEF Fenced, Raised, Ended
      <3> QED
        BY <1>1, <2>1, <3>1, SameClaims, EndsFiled
    <2>3. CASE LoseAnswer(m) \/ NoLease(m)
      <3>1. Applied(m) /\ UNCHANGED started
        BY <2>3 DEF LoseAnswer, NoLease
      <3>2. \/ Set(m.from, [worker[m.from] EXCEPT !.phase = "waiting"])
            \/ Set(m.from, [worker[m.from] EXCEPT !.phase = "ended"])
        BY <2>3 DEF LoseAnswer, NoLease
      <3> QED
        BY <1>1, <2>1, <3>1, <3>2, AppliedClaims, WaitsFiled, EndsFiled
    <2>4. CASE Refuse(m)
      <3>1. CASE \E code \in {"throttled", "KMS"} : TryFails(m.from, code)
        BY <1>1, <2>1, <3>1, TryFailsFiled
      <3>2. CASE Raised(m.from, TRUE)
        <4>1. Set(m.from, [worker[m.from] EXCEPT !.phase = "ended"])
              /\ UNCHANGED <<records, started>>
          BY <3>2 DEF Raised, Ended
        <4> QED
          BY <1>1, <2>1, <4>1, SameClaims, EndsFiled
      <3> QED
        BY <2>4, <3>1, <3>2 DEF Refuse
    <2>5. CASE RepeatMarker(m)
      <3> DEFINE w == worker[m.from]
                 x == [w EXCEPT !.phase = "paging", !.seen[m.step] = records[m.step]]
      <3>1. w \in WorkerType /\ records[m.step] \in RecordType
            /\ w.ask.kind = "PAGE"
        BY <2>1, <2>5 DEF RepeatMarker, Waits, Message, PInv, TInv, Workers, TypeOK, MessageType
      <3>2. x \in WorkerType /\ x.phase = "paging" /\ x.step = w.step
        BY <3>1, PhaseNames DEF WorkerType
      <3>3. Set(m.from, x) /\ UNCHANGED <<records, started>>
        BY <2>5 DEF RepeatMarker, serviceVars
      <3>4. ~Awaits(m.from)
        BY <3>1 DEF Awaits
      <3> HIDE DEF x
      <3> QED
        BY <1>1, <2>1, <3>2, <3>3, <3>4, SameClaims, Calm
    <2> QED
      BY <1>3, <2>2, <2>3, <2>4, <2>5
  <1> QED
    BY <1>2, <1>3

\* A request: the result it carries, if any, is inline or on disk.
LEMMA SendFiled ==
    ASSUME PInv, NEW n \in Invocation, NEW w \in WorkerType, Send(n, w),
           worker[n].phase \notin {"none", "decoding", "ended"},
           w.step = worker[n].step,
           Awaits(n) => w.ask = worker[n].ask,
           w.ask.kind = "SUCCEED" =>
              w.ask.step = w.step /\ (w.step \in Offloaded => Kept(n, w.step))
    PROVE  Filed'
  <1> DEFINE x == [w EXCEPT !.phase = "asking"]
  <1>1. x \in WorkerType /\ x.phase = "asking" /\ x.ask = w.ask /\ x.step = w.step
    BY Moves, PhaseNames
  <1>2. Set(n, x) /\ wire' = wire \cup {Message(n, w)}
        /\ UNCHANGED <<records, started, directory, files>>
    BY DEF Send, serviceVars, fileVars
  <1> HIDE DEF x
  <1>3. worker'[n] = x /\ \A k \in Invocation \ {n} : worker'[k] = worker[k]
    BY <1>2, Others
  <1>4. /\ Own(n) /\ started \in Nat /\ worker[n].step \in Nat
        /\ Offloaded \subseteq Step /\ Step \subseteq Nat
    BY AtWork, Fields DEF Step
  <1>5. Awaits(n)' <=> w.ask.kind = "SUCCEED"
    BY <1>1, <1>3 DEF Awaits
  <1>6. \A s \in Offloaded : Kept(n, s)' <=> Kept(n, s)
    BY <1>2 DEF Kept
  <1>7. \A s \in Offloaded : Past(n, s) => Past(n, s)'
    <2>1. Awaits(n) => Awaits(n)'
      BY <1>5 DEF Awaits
    <2> QED
      BY <1>1, <1>3, <2>1 DEF Past
  <1>8. Asked(n)'
    BY <1>1, <1>3, <1>5, <1>6 DEF Asked
  <1>9. Placed(n)'
    BY <1>1, <1>3 DEF Placed, Storing
  <1>10. \A s \in Offloaded :
           Claim(n, s)' => Claim(n, s) \/ (Past(n, s)' /\ Kept(n, s)')
    BY <1>1, <1>2, <1>3, <1>5, <1>6, SentClaims DEF Past
  <1>11. \A k \in Invocation \ {n} : \A s \in Offloaded : Claim(k, s)' => Claim(k, s)
    BY <1>2, SentClaims
  <1>12. Own(n)'
    BY <1>2, <1>4, <1>6, <1>7, <1>8, <1>9, <1>10, Moved
  <1>13. ByWhom'
    BY <1>2 DEF PInv, Filed, ByWhom
  <1> QED
    BY <1>2, <1>3, <1>4, <1>11, <1>12, <1>13, OnlyOne

LEMMA AsksFiled ==
    ASSUME PInv, NEW n \in Invocation,
           AskPage(n) \/ SendAgain(n) \/ StartStep(n) \/ EncodeInline(n) \/ Envelope(n)
    PROVE  Filed'
  <1>0. /\ worker[n] \in WorkerType /\ Sane(worker[n])
        /\ worker[n].phase \notin {"none", "decoding", "ended"} /\ Own(n)
    BY DEF PInv, TInv, Workers, Filed, AskPage, SendAgain, StartStep, EncodeInline,
           Envelope, Ran, At, Running
  <1>1. CASE SendAgain(n)
    <2> DEFINE x == [worker[n] EXCEPT !.try = @ + 1]
    <2>1. x \in WorkerType /\ x.ask = worker[n].ask /\ x.step = worker[n].step
      BY <1>0, <1>1 DEF SendAgain, Sane, WorkerType
    <2>2. Send(n, x) /\ worker[n].phase = "waiting"
      BY <1>1 DEF SendAgain
    <2>3. x.ask.kind = "SUCCEED" =>
             x.ask.step = x.step /\ (x.step \in Offloaded => Kept(n, x.step))
      BY <1>0, <2>1, <2>2 DEF Own, Asked, Awaits
    <2> HIDE DEF x
    <2> QED
      BY <1>0, <2>1, <2>2, <2>3, SendFiled
  <1>2. CASE ~SendAgain(n)
    <2>1. worker[n].step \in Step /\ worker[n].page \in Step /\ ~Awaits(n)
      BY <1>0, <1>2, Fields
      DEF Sane, AskPage, StartStep, EncodeInline, Envelope, Ran, At, Running, Awaits, Step
    <2>2. PICK k \in {"PAGE"} \cup Checkpoints, s \in Step :
            /\ Ask(n, k, s)
            /\ k = "SUCCEED" => /\ s = worker[n].step
                                /\ s \in Offloaded => worker[n].phase = "named"
      BY <1>2, <2>1 DEF AskPage, StartStep, EncodeInline, Envelope, Checkpoints
    <2> DEFINE x == [worker[n] EXCEPT !.ask = [kind |-> k, step |-> s], !.try = 1]
    <2>3. x \in WorkerType /\ x.ask.kind = k /\ x.ask.step = s /\ x.step = worker[n].step
      <3>1. [kind |-> k, step |-> s] \in AskType /\ 1 \in 1 .. Tries
        BY DEF AskType
      <3> QED
        BY <1>0, <3>1 DEF WorkerType
    <2>4. Send(n, x)
      BY <2>2 DEF Ask
    <2>5. worker[n].phase = "named" => Kept(n, worker[n].step)
      BY <1>0 DEF Own, Placed, Kept
    <2>6. x.ask.kind = "SUCCEED" =>
             x.ask.step = x.step /\ (x.step \in Offloaded => Kept(n, x.step))
      BY <2>2, <2>3, <2>5
    <2> HIDE DEF x
    <2> QED
      BY <1>0, <2>1, <2>3, <2>4, <2>6, SendFiled
  <1> QED
    BY <1>1, <1>2

LEMMA CalmsFiled ==
    ASSUME PInv, NEW n \in Invocation,
           TimeOut(n) \/ ReplayStep(n) \/ EncodeInFile(n)
    PROVE  Filed'
  <1>1. CASE TimeOut(n)
    BY <1>1, TryFailsFiled DEF TimeOut, fileVars
  <1>2. CASE ReplayStep(n)
    <2> DEFINE x == [worker[n] EXCEPT !.phase = "running", !.step = @ + 1]
    <2>1. worker[n].phase # "none" /\ UNCHANGED <<records, wire, directory, files, started>>
          /\ Set(n, x)
      BY <1>2 DEF ReplayStep, Decodes, At, Running, serviceVars, fileVars
    <2>2. worker[n] \in WorkerType /\ Sane(worker[n])
      BY DEF PInv, TInv, Workers
    <2>3. worker[n].step \in Step
      BY <1>2, <2>2, Fields DEF Sane, ReplayStep, Decodes, At, Step
    <2>4. x \in WorkerType /\ x.phase = "running" /\ x.step = worker[n].step + 1
      <3>1. worker[n].step + 1 \in 1 .. Steps + 1 /\ "running" \in Phases
        BY <2>3, PhaseNames DEF Step
      <3>2. x = [worker[n] EXCEPT !.phase = "running", !.step = worker[n].step + 1]
        BY <2>2 DEF WorkerType
      <3> HIDE DEF x
      <3> QED
        BY <2>2, <3>1, <3>2 DEF WorkerType
    <2> HIDE DEF x
    <2> QED
      BY <2>1, <2>4, SameClaims, Calm
  <1>3. CASE EncodeInFile(n)
    <2> DEFINE x == [worker[n] EXCEPT !.phase = "mkdir"]
    <2>1. /\ worker[n].phase \in {"ran", "running"} /\ worker[n].step \in Offloaded
          /\ UNCHANGED <<records, wire, directory, files, started>> /\ Set(n, x)
      BY <1>3 DEF EncodeInFile, Ran, At, Running, serviceVars, fileVars
    <2>2. worker[n] \in WorkerType
      BY DEF PInv, TInv, Workers
    <2>3. x \in WorkerType /\ x.phase = "mkdir" /\ x.step = worker[n].step
      BY <2>2, Moves, PhaseNames DEF Phases, Storing
    <2>4. ~Awaits(n)
      BY <2>1 DEF Awaits
    <2> HIDE DEF x
    <2> QED
      BY <2>1, <2>3, <2>4, SameClaims, Calm
  <1> QED
    BY <1>1, <1>2, <1>3

\* The storage works on a file that no claim refers to.
LEMMA StorageFiled ==
    ASSUME PInv, NEW n \in Invocation, NEW x \in WorkerType, Set(n, x),
           worker[n].phase \in Storing, x.step = worker[n].step,
           \/ x.phase \in Storing \cup {"named"}
           \/ x.phase = "ended"
           \/ x.phase = "asking" /\ x.ask.kind # "SUCCEED",
           x.phase \in {"create", "flush", "publish", "named"} => directory' = "durable",
           x.phase = "named" => files'[n][x.step] = "durable",
           directory = "durable" => directory' = "durable",
           \A k \in Invocation : \A s \in Step :
              k # n \/ s # worker[n].step => files'[k][s] = files[k][s],
           \A k \in Invocation : k # n => files'[k] = files[k],
           \A k \in Invocation : \A s \in Offloaded : Claim(k, s)' => Claim(k, s),
           UNCHANGED <<records, started>>
    PROVE  Filed'
  <1>1. worker'[n] = x /\ \A k \in Invocation \ {n} : worker'[k] = worker[k]
    BY Others
  <1>2. /\ Own(n) /\ started \in Nat /\ worker[n].step \in Nat /\ worker[n].phase # "none"
        /\ Offloaded \subseteq Step /\ Step \subseteq Nat
    BY AtWork, Fields DEF Step, Storing
  <1>3. ~Awaits(n) /\ ~Awaits(n)'
    BY <1>1 DEF Awaits, Storing
  <1>4. \A s \in Offloaded : Past(n, s) => s # worker[n].step
    BY <1>2, <1>3 DEF Past, Storing
  <1>5. \A s \in Offloaded : Past(n, s) => Past(n, s)'
    BY <1>1, <1>2, <1>4 DEF Past
  <1>6. \A s \in Offloaded : Past(n, s) /\ Kept(n, s) => Kept(n, s)'
    BY <1>2, <1>4 DEF Kept
  <1>7. Asked(n)'
    BY <1>3 DEF Asked
  <1>8. Placed(n)'
    BY <1>1, <1>2 DEF Own, Placed, Storing
  <1>9. Own(n)'
    BY <1>2, <1>5, <1>6, <1>7, <1>8, Moved
  <1>10. ByWhom'
    BY DEF PInv, Filed, ByWhom
  <1> QED
    BY <1>1, <1>2, <1>9, <1>10, OnlyOne

\* One file is written.
LEMMA OneFile ==
    ASSUME PInv, NEW n \in Invocation, worker[n].step \in Step, NEW c, File(n, c)
    PROVE  /\ files'[n][worker[n].step] = c
           /\ \A k \in Invocation : \A s \in Step :
                 k # n \/ s # worker[n].step => files'[k][s] = files[k][s]
           /\ \A k \in Invocation : k # n => files'[k] = files[k]
  <1> DEFINE of == [files[n] EXCEPT ![worker[n].step] = c]
  <1>1. files' = [files EXCEPT ![n] = of]
    BY DEF File
  <1>2. /\ of[worker[n].step] = c
        /\ \A s \in Step : s # worker[n].step => of[s] = files[n][s]
    BY DEF PInv, TInv, TypeOK
  <1> HIDE DEF of
  <1> QED
    BY <1>1, <1>2 DEF PInv, TInv, TypeOK

LEMMA WritesFiled ==
    ASSUME PInv, NEW n \in Invocation,
           MakeDirectory(n) \/ SyncDirectory(n) \/ CreateFile(n) \/ FlushFile(n)
             \/ PublishFile(n)
    PROVE  Filed'
  <1>1. PICK p \in {"sync", "create", "flush", "publish", "named"} :
          /\ Set(n, [worker[n] EXCEPT !.phase = p])
          /\ p = "sync" => MakeDirectory(n)
          /\ p = "create" => SyncDirectory(n)
          /\ p = "flush" => CreateFile(n)
          /\ p = "publish" => FlushFile(n)
          /\ p = "named" => PublishFile(n)
    BY DEF MakeDirectory, SyncDirectory, CreateFile, FlushFile, PublishFile, Goes
  <1> DEFINE x == [worker[n] EXCEPT !.phase = p]
  <1>2. worker[n].phase \in Storing /\ UNCHANGED <<records, wire, started>>
    BY DEF MakeDirectory, SyncDirectory, CreateFile, FlushFile, PublishFile, Goes,
           Storing, serviceVars
  <1>3. worker[n] \in WorkerType /\ Sane(worker[n]) /\ Own(n)
    BY DEF PInv, TInv, Workers, Filed
  <1>4. worker[n].step \in Step
    BY <1>2, <1>3 DEF Sane, Storing
  <1>5. x \in WorkerType /\ x.phase = p /\ x.step = worker[n].step
    BY <1>3, Moves, PhaseNames, ZenonT(60) DEF Phases, Storing
  <1>6. Set(n, x)
    BY <1>1
  <1>7. CASE p \in {"sync", "create"}
    <2>1. UNCHANGED files
      BY <1>1, <1>7 DEF MakeDirectory, SyncDirectory
    <2>2. /\ directory = "durable" => directory' = "durable"
          /\ p = "create" => directory' = "durable"
      BY <1>1, <1>7 DEF MakeDirectory, SyncDirectory
    <2> HIDE DEF x
    <2> QED
      BY <1>2, <1>5, <1>6, <1>7, <2>1, <2>2, SameClaims, StorageFiled DEF Storing
  <1>8. CASE p \in {"flush", "publish", "named"}
    <2>1. UNCHANGED directory
      BY <1>1, <1>8 DEF CreateFile, FlushFile, PublishFile
    <2>2. PICK c \in {"written", "synced", "durable"} :
            File(n, c) /\ (p = "named" => c = "durable")
      BY <1>1, <1>8 DEF CreateFile, FlushFile, PublishFile
    <2>3. directory = "durable"
      <3>1. worker[n].phase \in {"create", "flush", "publish"}
        BY <1>1, <1>8 DEF CreateFile, FlushFile, PublishFile, Goes
      <3> QED
        BY <1>3, <3>1 DEF Own, Placed
    <2>4. /\ files'[n][worker[n].step] = c
          /\ \A k \in Invocation : \A s \in Step :
                k # n \/ s # worker[n].step => files'[k][s] = files[k][s]
          /\ \A k \in Invocation : k # n => files'[k] = files[k]
      BY <1>4, <2>2, OneFile
    <2> HIDE DEF x
    <2> QED
      BY <1>2, <1>5, <1>6, <1>8, <2>1, <2>2, <2>3, <2>4, SameClaims, StorageFiled
      DEF Storing
  <1> QED
    BY <1>7, <1>8

LEMMA StoreFailsFiled ==
    ASSUME PInv, NEW n \in Invocation, StoreFails(n)
    PROVE  Filed'
  <1>1. worker[n] \in WorkerType /\ Sane(worker[n]) /\ worker[n].phase \in Storing
    BY DEF PInv, TInv, Workers, StoreFails
  <1>2. worker[n].step \in Step
    BY <1>1 DEF Sane, Storing
  <1>3. File(n, "none") /\ UNCHANGED directory
    BY DEF StoreFails
  <1>4. /\ \A k \in Invocation : \A s \in Step :
              k # n \/ s # worker[n].step => files'[k][s] = files[k][s]
        /\ \A k \in Invocation : k # n => files'[k] = files[k]
    BY <1>2, <1>3, OneFile
  <1>5. CASE Ended(n, "FAILED") /\ UNCHANGED wire
    <2> DEFINE x == [worker[n] EXCEPT !.phase = "ended"]
    <2>1. x \in WorkerType /\ x.phase = "ended" /\ x.step = worker[n].step
      BY <1>1, Moves, PhaseNames
    <2>2. Set(n, x) /\ UNCHANGED <<records, started>>
      BY <1>5 DEF Ended
    <2> HIDE DEF x
    <2> QED
      BY <1>1, <1>3, <1>4, <1>5, <2>1, <2>2, SameClaims, StorageFiled
  <1>6. CASE ~(Ended(n, "FAILED") /\ UNCHANGED wire)
    <2> DEFINE w == [worker[n] EXCEPT !.ask = [kind |-> "RETRY", step |-> worker[n].step],
                                      !.try = 1]
               x == [w EXCEPT !.phase = "asking"]
    <2>1. Set(n, x) /\ wire' = wire \cup {Message(n, w)} /\ UNCHANGED <<records, started>>
      BY <1>6 DEF StoreFails, serviceVars
    <2>2. [kind |-> "RETRY", step |-> worker[n].step] \in AskType /\ 1 \in 1 .. Tries
      BY <1>2 DEF AskType, Checkpoints
    <2>3. w \in WorkerType /\ w.ask.kind = "RETRY" /\ w.step = worker[n].step
      BY <1>1, <2>2 DEF WorkerType
    <2> HIDE DEF w
    <2>4. x \in WorkerType /\ x.phase = "asking" /\ x.ask = w.ask /\ x.step = w.step
      BY <2>3, Moves, PhaseNames
    <2>5. \A k \in Invocation : \A s \in Offloaded : Claim(k, s)' => Claim(k, s)
      BY <2>1, <2>3, SentClaims
    <2> HIDE DEF x
    <2> QED
      BY <1>1, <1>3, <1>4, <2>1, <2>3, <2>4, <2>5, StorageFiled
  <1> QED
    BY <1>5, <1>6

\* What is durable outlives a loss of power, and nobody was half way with it.
LEMMA LosePowerFiled ==
    ASSUME PInv, LosePower
    PROVE  Filed'
  <1>1. UNCHANGED <<records, wire, started>>
        /\ (directory = "durable" => directory' = "durable")
    BY DEF LosePower
  <1>2. ByWhom' /\ \A k \in Invocation : \A s \in Offloaded : Claim(k, s)' => Claim(k, s)
    BY <1>1, SameClaims
  <1> SUFFICES ASSUME NEW n \in Invocation PROVE Own(n)'
    BY <1>2 DEF Filed
  <1>3. /\ Own(n) /\ worker[n] \in WorkerType /\ worker[n].step \in 1 .. Steps + 1
        /\ Offloaded \subseteq Step /\ Sane(worker[n])
    BY Fields, RemoteAssumption DEF PInv, Filed, TInv, Workers, Step
  <1>4. \A s \in Step : Kept(n, s) => Kept(n, s)'
    BY DEF LosePower, Kept
  <1>5. CASE worker[n].phase \in Storing \cup {"named"}
    <2>1. worker'[n] = [worker[n] EXCEPT !.phase = "ended"]
      BY <1>5 DEF LosePower
    <2>2. worker'[n].phase = "ended" /\ worker'[n].step = worker[n].step
      BY <1>3, <2>1, Moves, PhaseNames
    <2>3. \A s \in Offloaded : Past(n, s) => Past(n, s)'
      BY <2>2 DEF Past
    <2>4. Asked(n)' /\ Placed(n)'
      BY <2>2 DEF Asked, Awaits, Placed, Storing
    <2>5. worker[n].phase # "none"
      BY <1>5 DEF Storing
    <2> QED
      BY <1>1, <1>2, <1>3, <1>4, <2>3, <2>4, <2>5, Moved
  <1>6. CASE worker[n].phase \notin Storing \cup {"named"}
    <2>1. worker'[n] = worker[n]
      BY <1>6 DEF LosePower
    <2>2. \A s \in Offloaded : Past(n, s) => Past(n, s)'
      BY <2>1 DEF Past, Awaits
    <2>3. Held(n)'
      BY <1>2, <1>3, <1>4, <2>2 DEF Own, Held
    <2>4. Asked(n)'
      BY <1>3, <1>4, <2>1 DEF Own, Asked, Awaits
    <2>5. Placed(n)' /\ Born(n)'
      BY <1>1, <1>3, <1>6, <2>1 DEF Own, Placed, Born, Storing
    <2> QED
      BY <2>3, <2>4, <2>5 DEF Own
  <1> QED
    BY <1>5, <1>6

LEMMA OutsideFiled ==
    ASSUME PInv, TakeForDead \/ RunnerInvokes \/ RunnerPolls \/ RunnerReads
                   \/ RunnerGivesUp \/ Finished \/ UNCHANGED vars
    PROVE  Filed'
  <1>1. UNCHANGED <<records, wire, worker, directory, files, started>>
    BY DEF TakeForDead, RunnerInvokes, RunnerPolls, RunnerReads, RunnerGivesUp, Watch,
           Finished, vars, serviceVars, fileVars
  <1> QED
    BY <1>1, SameClaims, Nobody

LEMMA ElapseFiled ==
    ASSUME PInv, NEW e \in Step, Elapse(e)
    PROVE  Filed'
  <1>1. UNCHANGED <<wire, worker, directory, files, started>>
        /\ records' = [records EXCEPT ![e].status = "READY"]
    BY DEF Elapse, fileVars
  <1>2. \A s \in Step : records'[s].status = "SUCCEEDED" => records'[s] = records[s]
    BY <1>1 DEF PInv, TInv, TypeOK, RecordType
  <1>3. ByWhom'
    BY <1>2 DEF PInv, Filed, ByWhom
  <1>4. \A k \in Invocation : \A s \in Offloaded : Claim(k, s)' => Claim(k, s)
    BY <1>1, <1>2, RemoteAssumption DEF Claim, Step
  <1> QED
    BY <1>1, <1>3, <1>4, Nobody

LEMMA PayloadStep ==
    ASSUME PInv, [Next]_vars
    PROVE  PInv'
  <1> SUFFICES Filed'
    BY TypeStep DEF PInv
  <1>1. CASE InvokeWorkflow
    BY <1>1, InvokeFiled
  <1>2. CASE Service
    BY <1>2, ReplyFiled, HandledFiled DEF Service
  <1>3. CASE Runner
    BY <1>3, OutsideFiled DEF Runner
  <1>4. CASE Failures
    BY <1>4, FinishFiled, CalmsFiled, StoreFailsFiled, HandledFiled, OutsideFiled,
       LosePowerFiled DEF Failures
  <1>5. CASE \E n \in Invocation : Transport(n) \/ Handler(n) \/ Storage(n)
    BY <1>5, AsksFiled, WritesFiled, CalmsFiled, FinishFiled
    DEF Transport, Handler, Storage
  <1>6. CASE \E s \in Step : Elapse(s)
    BY <1>6, ElapseFiled
  <1>7. CASE Finished \/ UNCHANGED vars
    BY <1>7, OutsideFiled
  <1> QED
    BY <1>1, <1>2, <1>3, <1>4, <1>5, <1>6, <1>7 DEF Next

LEMMA PayloadInit == Init => PInv
  <1> SUFFICES ASSUME Init PROVE Filed
    BY RemoteInit DEF PInv
  <1>1. wire = {} /\ \A s \in Step : records[s].status = "none"
    BY DEF Init, NoRecord
  <1>2. \A n \in Invocation : worker[n].phase = "none" /\ worker[n].step = 1
    BY DEF Init, Idle
  <1>3. ByWhom /\ \A n \in Invocation : Held(n)
    BY <1>1, RemoteAssumption DEF ByWhom, Held, Claim, Step
  <1>4. \A n \in Invocation : Asked(n) /\ Placed(n) /\ Born(n)
    BY <1>2 DEF Asked, Awaits, Placed, Storing, Born
  <1> QED
    BY <1>3, <1>4 DEF Filed, Own

\* A record that refers to a file refers to one that is on disk, whatever fails
\* between the body of the step and the answer of the service: the loss of an
\* answer, of an invocation or of the power (_payloads.py, persist; the order of
\* the writes is what the proof rests on).
THEOREM RemotePayloads == Spec => []PayloadsAreReadable
  <1>1. Init => PInv
    BY PayloadInit
  <1>2. PInv /\ [Next]_vars => PInv'
    BY PayloadStep
  <1>3. PInv => PayloadsAreReadable
    <2> SUFFICES ASSUME PInv, NEW s \in Offloaded, records[s].status = "SUCCEEDED"
                 PROVE  files[records[s].by][s] \in {"synced", "durable"}
      BY DEF PayloadsAreReadable
    <2>1. s \in Step /\ records[s].by \in Invocation
      BY RemoteAssumption DEF PInv, Filed, ByWhom, Step
    <2>2. Claim(records[s].by, s)
      BY DEF Claim
    <2> QED
      BY <2>1, <2>2 DEF PInv, Filed, Own, Held, Kept
  <1> QED
    BY <1>1, <1>2, <1>3, PTL DEF Spec

----------------------------------------------------------------------------
(* The report                                                              *)

\* The runner has the final status, and the records as they are, up to its page.
Reported ==
    /\ runner.phase \in {"new", "polling"} => runner.page = 1
    /\ runner.phase \in {"history", "done"} =>
          /\ runner.status = outcome /\ outcome # "none"
          /\ \A s \in Step : s < runner.page \/ runner.phase = "done" =>
                runner.read[s] = records[s]

\* An execution that is over changes no record.
LEMMA Settled ==
    ASSUME outcome # "none", [Next]_vars
    PROVE  UNCHANGED <<records, outcome>>
  <1>1. ASSUME NEW n, NEW how, Ended(n, how) PROVE UNCHANGED <<records, outcome>>
    BY <1>1 DEF Ended
  <1>2. ASSUME NEW m, Applied(m) PROVE UNCHANGED records
    BY <1>2 DEF Applied, Fresh, Stale
  <1>3. ASSUME NEW n, NEW p, Raised(n, p) PROVE UNCHANGED <<records, outcome>>
    BY <1>1, <1>3 DEF Raised
  <1>4. ASSUME NEW n, NEW code, TryFails(n, code) PROVE UNCHANGED <<records, outcome>>
    BY <1>3, <1>4 DEF TryFails, serviceVars
  <1>5. CASE Service
    BY <1>2, <1>3, <1>5 DEF Service, Reply, Fenced, ArriveLate
  <1>6. CASE Runner \/ InvokeWorkflow \/ Finished \/ UNCHANGED vars
    BY <1>6 DEF Runner, RunnerInvokes, RunnerPolls, RunnerReads, Watch, InvokeWorkflow,
                Finished, vars, serviceVars
  <1>7. CASE Failures
    <2>1. ASSUME NEW n \in Invocation, Crash(n) \/ TimeOut(n) \/ ReadFails(n) \/ StoreFails(n)
          PROVE  UNCHANGED <<records, outcome>>
      BY <1>1, <1>4, <2>1 DEF Crash, TimeOut, ReadFails, StoreFails, serviceVars
    <2>2. ASSUME NEW m \in wire, LoseAnswer(m) \/ Refuse(m) \/ NoLease(m) \/ RepeatMarker(m)
          PROVE  UNCHANGED <<records, outcome>>
      BY <1>2, <1>3, <1>4, <2>2
      DEF LoseAnswer, Refuse, NoLease, RepeatMarker, serviceVars
    <2>3. ASSUME TakeForDead \/ LosePower \/ RunnerGivesUp
          PROVE  UNCHANGED <<records, outcome>>
      BY <2>3 DEF TakeForDead, LosePower, RunnerGivesUp, Watch
    <2> QED
      BY <1>7, <2>1, <2>2, <2>3 DEF Failures
  <1>8. ASSUME NEW n \in Invocation, Transport(n) \/ Handler(n) \/ Storage(n)
        PROVE  UNCHANGED <<records, outcome>>
    <2>1. CASE Transport(n)
      BY <2>1 DEF Transport, AskPage, SendAgain, Ask, Send, serviceVars
    <2>2. CASE Handler(n)
      BY <1>1, <2>2 DEF Handler, StartStep, ReplayStep, EncodeInline, EncodeInFile,
                        PauseHandler, Return, Ask, Send, serviceVars
    <2>3. CASE Storage(n)
      BY <2>3 DEF Storage, MakeDirectory, SyncDirectory, CreateFile, FlushFile,
                  PublishFile, Envelope, Goes, Ask, Send, serviceVars
    <2> QED
      BY <1>8, <2>1, <2>2, <2>3
  <1>9. ASSUME NEW s \in Step, Elapse(s) PROVE FALSE
    BY <1>9 DEF Elapse
  <1> QED
    BY <1>5, <1>6, <1>7, <1>8, <1>9 DEF Next

\* Only the runner's own steps are seen in its state.
LEMMA RunnerAlone ==
    ASSUME [Next]_vars, ~Runner, ~RunnerGivesUp
    PROVE  UNCHANGED runner
  <1>1. CASE Service
    BY <1>1 DEF Service, Reply, Fenced, ArriveLate, Handled
  <1>2. CASE InvokeWorkflow \/ Finished \/ UNCHANGED vars
    BY <1>2 DEF InvokeWorkflow, Finished, vars
  <1>3. CASE Failures
    <2>1. ASSUME NEW n \in Invocation, Crash(n) \/ TimeOut(n) \/ ReadFails(n) \/ StoreFails(n)
          PROVE  UNCHANGED runner
      BY <2>1 DEF Crash, TimeOut, ReadFails, StoreFails
    <2>2. ASSUME NEW m \in wire, LoseAnswer(m) \/ Refuse(m) \/ NoLease(m) \/ RepeatMarker(m)
          PROVE  UNCHANGED runner
      BY <2>2 DEF LoseAnswer, Refuse, NoLease, RepeatMarker, Handled
    <2>3. ASSUME TakeForDead \/ LosePower PROVE UNCHANGED runner
      BY <2>3 DEF TakeForDead, LosePower
    <2> QED
      BY <1>3, <2>1, <2>2, <2>3 DEF Failures
  <1>4. ASSUME NEW n \in Invocation, Transport(n) \/ Handler(n) \/ Storage(n)
        PROVE  UNCHANGED runner
    <2>1. CASE Transport(n)
      BY <2>1 DEF Transport, AskPage, SendAgain, Ask, Send
    <2>2. CASE Handler(n)
      BY <2>2 DEF Handler, StartStep, ReplayStep, EncodeInline, EncodeInFile,
                  PauseHandler, Return, Ask, Send
    <2>3. CASE Storage(n)
      BY <2>3 DEF Storage, MakeDirectory, SyncDirectory, CreateFile, FlushFile,
                  PublishFile, Envelope, Goes, Ask, Send
    <2> QED
      BY <1>4, <2>1, <2>2, <2>3
  <1>5. ASSUME NEW s \in Step, Elapse(s) PROVE UNCHANGED runner
    BY <1>5 DEF Elapse
  <1> QED
    BY <1>1, <1>2, <1>3, <1>4, <1>5 DEF Next

LEMMA ReportStep ==
    ASSUME TInv, Reported, [Next]_vars
    PROVE  Reported'
  <1>1. runner \in RunnerType /\ records \in [Step -> RecordType]
    BY DEF TInv, TypeOK
  <1>2. /\ runner.phase \in {"history", "done"} => UNCHANGED <<records, outcome>>
    BY Settled DEF Reported
  <1>3. CASE RunnerInvokes \/ RunnerGivesUp
    <2>1. /\ runner'.phase \in {"polling", "error", "timeout"}
          /\ runner'.phase = "polling" => runner'.page = 1
      BY <1>1, <1>3 DEF Reported, RunnerInvokes, RunnerGivesUp, Watch, RunnerType
    <2> QED
      BY <2>1 DEF Reported
  <1>4. CASE RunnerPolls
    <2>1. /\ runner'.phase = "history" /\ runner'.status = outcome /\ outcome # "none"
          /\ runner'.page = runner.page /\ runner'.read = runner.read
          /\ UNCHANGED <<records, outcome>> /\ runner.phase = "polling"
      BY <1>1, <1>4 DEF RunnerPolls, Watch, RunnerType
    <2>2. runner'.page = 1
      BY <2>1 DEF Reported
    <2> QED
      BY <2>1, <2>2 DEF Reported, Step
  <1>5. CASE RunnerReads
    BY <1>1, <1>5 DEF RunnerReads, Watch, RunnerType, Reported, Step
  <1>6. CASE ~Runner /\ ~RunnerGivesUp
    <2>1. UNCHANGED runner
      BY <1>6, RunnerAlone
    <2> QED
      BY <1>2, <2>1 DEF Reported
  <1> QED
    BY <1>3, <1>4, <1>5, <1>6 DEF Runner

\* The report of the runner is whole: the status it stops polling at is final, and
\* the records it reads after it are those the execution ended with
\* (wait_for_result reads the status first, then the history).
THEOREM RemoteReport == Spec => []ReportIsComplete
  <1>1. Init => TInv /\ Reported
    <2>1. Init => Reported
      BY DEF Init, Reported
    <2> QED
      BY <2>1, RemoteInit
  <1>2. TInv /\ Reported /\ [Next]_vars => (TInv /\ Reported)'
    BY TypeStep, ReportStep
  <1>3. TInv /\ Reported => ReportIsComplete
    <2> SUFFICES ASSUME TInv, Reported, runner.phase = "done"
                 PROVE  runner.read = records
      BY DEF ReportIsComplete, Reported
    <2>1. \A s \in Step : runner.read[s] = records[s]
      BY DEF Reported
    <2>2. runner.read \in [Step -> RecordType] /\ records \in [Step -> RecordType]
      BY DEF TInv, TypeOK, RunnerType
    <2> QED
      BY <2>1, <2>2
  <1> QED
    BY <1>1, <1>2, <1>3, PTL DEF Spec

----------------------------------------------------------------------------
(* The lease: the inductive invariant                                      *)

\* The lease a request of invocation n was answered with, 0 if it was not.
Told(n, k, s) == answered[n][k][s][1]

Asking(n) == worker[n].phase \in {"asking", "waiting"}
AsksPage(n) == Asking(n) /\ worker[n].ask.kind = "PAGE"
AsksFor(n, k, s) == Asking(n) /\ worker[n].ask.kind = k /\ worker[n].ask.step = s

\* No invocation knows a lease the service has not given out, and those the
\* service has superseded only know leases that are over.
Behind(n) ==
    /\ worker[n].lease <= lease
    /\ n < started => worker[n].lease < lease
    /\ \A k \in Checkpoints, s \in Step :
          /\ Told(n, k, s) <= lease
          /\ n < started => Told(n, k, s) < lease
          /\ n > started => Told(n, k, s) = 0

\* The same of what they have sent.
MailBehind ==
    \A m \in wire : /\ m.token = 1 /\ m.from <= started /\ m.lease <= lease
                    /\ m.from < started => m.lease < lease

\* The invocation the service listens to.
Latest(n) == n = started /\ outcome = "none" /\ Alive(n)

\* A request is about the page, or the step, the invocation is at.
AsksHere(n) ==
    Asking(n) => worker[n].ask.step =
                    IF worker[n].ask.kind = "PAGE" THEN worker[n].page ELSE worker[n].step

\* The invocation has not asked for this yet.
Unasked(n, k, s) ==
    \/ s > worker[n].step
    \/ /\ s = worker[n].step
       /\ \/ worker[n].phase \in {"running", "paging"}
          \/ AsksPage(n)
          \/ /\ k # "START"
             /\ \/ worker[n].phase \in Storing \cup {"ran", "named"}
                \/ Asking(n) /\ worker[n].ask.kind = "START"
Ahead(n) == \A k \in Checkpoints, s \in Step : Unasked(n, k, s) => Told(n, k, s) = 0

\* It holds the valid lease, or will be told it in the answer to its request.
HoldsLease(n) ==
    IF Asking(n) /\ ~AsksPage(n)
    THEN \A k \in Checkpoints, s \in Step : AsksFor(n, k, s) =>
            IF Told(n, k, s) = 0 THEN worker[n].lease = lease ELSE Told(n, k, s) = lease
    ELSE worker[n].lease = lease

\* Its requests that are still under way have had their effect, but for the
\* one it waits for.
Mail(n) ==
    \A m \in wire : m.from = n /\ m.kind # "PAGE" =>
        \/ Told(n, m.kind, m.step) # 0
        \/ AsksFor(n, m.kind, m.step) /\ m.lease = worker[n].lease

\* It knows the records up to its page, and goes by them once it has all.
Reads(n) ==
    /\ worker[n].phase \in {"running", "decoding"} =>
          \A s \in Step : Knows(worker[n], s)
    /\ worker[n].phase = "paging" \/ AsksPage(n) =>
          \A s \in Step : s < worker[n].page => Knows(worker[n], s)

Claims(n) == AsksHere(n) /\ Ahead(n) /\ HoldsLease(n) /\ Mail(n) /\ Reads(n)

LeaseInv ==
    /\ MailBehind
    /\ \A n \in Invocation : Behind(n) /\ (Latest(n) => Claims(n))

LInv == PInv /\ LeaseInv

----------------------------------------------------------------------------
(* Steps that change nothing at the service                                *)

\* An invocation nothing happens to keeps its claims.
LEMMA KeepsClaims ==
    ASSUME NEW n \in Invocation, Claims(n), worker'[n] = worker[n],
           UNCHANGED <<records, lease, answered>>,
           \A m \in wire' : m.from = n => m \in wire
    PROVE  Claims(n)'
  BY DEF Claims, AsksHere, Ahead, Unasked, HoldsLease, Mail, Reads, Knows, AsksPage,
         AsksFor, Asking, Told

\* One invocation moves, and keeps the lease or has been told another.
LEMMA OneMoves ==
    ASSUME LInv, NEW n \in Invocation, NEW x, Set(n, x),
           UNCHANGED <<records, lease, answered, started>>,
           outcome' = "none" => outcome = "none", wire' \subseteq wire,
           x.lease <= lease, n < started => x.lease < lease,
           Latest(n)' => Claims(n)'
    PROVE  LeaseInv'
  <1>1. worker'[n] = x /\ \A k \in Invocation \ {n} : worker'[k] = worker[k]
    BY Others DEF LInv
  <1>2. MailBehind'
    BY DEF LInv, LeaseInv, MailBehind
  <1>3. ASSUME NEW k \in Invocation PROVE Behind(k)'
    BY <1>1 DEF LInv, LeaseInv, Behind, Told
  <1>4. ASSUME NEW k \in Invocation, k # n, Latest(k)' PROVE Claims(k)'
    <2>1. worker'[k] = worker[k] /\ Latest(k)
      BY <1>1, <1>4 DEF Latest, Alive
    <2>2. Claims(k)
      BY <2>1 DEF LInv, LeaseInv
    <2> QED
      BY <2>1, <2>2, KeepsClaims
  <1> QED
    BY <1>2, <1>3, <1>4 DEF LeaseInv

\* No invocation moves.
LEMMA NoneMoves ==
    ASSUME LInv, UNCHANGED <<records, lease, answered, started, worker>>,
           outcome' = "none" => outcome = "none", wire' \subseteq wire
    PROVE  LeaseInv'
  <1>1. MailBehind'
    BY DEF LInv, LeaseInv, MailBehind
  <1>2. ASSUME NEW k \in Invocation PROVE Behind(k)'
    BY DEF LInv, LeaseInv, Behind, Told
  <1>3. ASSUME NEW k \in Invocation, Latest(k)' PROVE Claims(k)'
    <2>1. Latest(k)
      BY <1>3 DEF Latest, Alive
    <2> QED
      BY <2>1, KeepsClaims DEF LInv, LeaseInv
  <1> QED
    BY <1>1, <1>2, <1>3 DEF LeaseInv

\* What is known of every invocation.
LEMMA Known1 ==
    ASSUME LInv, NEW n \in Invocation
    PROVE  /\ worker[n] \in WorkerType /\ Sane(worker[n]) /\ Behind(n) /\ Born(n)
           /\ started \in Nat /\ n \in Nat /\ lease \in Nat
           /\ Latest(n) => Claims(n)
  BY DEF LInv, PInv, LeaseInv, TInv, TypeOK, Workers, Filed, Own, Invocation

\* An invocation ends.
LEMMA EndsLease ==
    ASSUME LInv, NEW n \in Invocation, Set(n, [worker[n] EXCEPT !.phase = "ended"]),
           UNCHANGED <<records, lease, answered, started>>,
           outcome' = "none" => outcome = "none", wire' \subseteq wire
    PROVE  LeaseInv'
  <1> DEFINE x == [worker[n] EXCEPT !.phase = "ended"]
  <1>1. x.phase = "ended" /\ x.lease = worker[n].lease
    BY Known1 DEF WorkerType
  <1>2. worker'[n] = x
    BY Others DEF LInv
  <1>3. ~Latest(n)'
    BY <1>1, <1>2 DEF Latest, Alive
  <1>4. x.lease <= lease /\ (n < started => x.lease < lease)
    BY <1>1, Known1 DEF Behind
  <1>5. Set(n, x)
    OBVIOUS
  <1> HIDE DEF x
  <1> QED
    BY <1>3, <1>4, <1>5, OneMoves

\* A request that failed will be sent again.
LEMMA WaitsLease ==
    ASSUME LInv, NEW n \in Invocation, Set(n, [worker[n] EXCEPT !.phase = "waiting"]),
           worker[n].phase = "asking", UNCHANGED <<records, lease, answered, started>>,
           outcome' = "none" => outcome = "none", wire' \subseteq wire
    PROVE  LeaseInv'
  <1> DEFINE x == [worker[n] EXCEPT !.phase = "waiting"]
  <1>1. /\ x.phase = "waiting" /\ x.lease = worker[n].lease /\ x.ask = worker[n].ask
        /\ x.step = worker[n].step /\ x.page = worker[n].page /\ x.seen = worker[n].seen
    BY Known1 DEF WorkerType
  <1>2. worker'[n] = x
    BY Others DEF LInv
  <1>3. x.lease <= lease /\ (n < started => x.lease < lease)
    BY <1>1, Known1 DEF Behind
  <1>4. Set(n, x)
    OBVIOUS
  <1> HIDE DEF x
  <1>5. ASSUME Latest(n)' PROVE Claims(n)'
    <2>1. Claims(n)
      BY <1>5, Known1 DEF Latest, Alive
    <2>2. (Asking(n) /\ Asking(n)') /\ (AsksPage(n)' <=> AsksPage(n))
          /\ \A k, s : AsksFor(n, k, s)' <=> AsksFor(n, k, s)
      BY <1>1, <1>2 DEF Asking, AsksPage, AsksFor
    <2>3. AsksHere(n)' /\ HoldsLease(n)' /\ Mail(n)'
      BY <1>1, <1>2, <2>1, <2>2 DEF Claims, AsksHere, HoldsLease, Mail, Told
    <2>4. Ahead(n)' /\ Reads(n)'
      BY <1>1, <1>2, <2>1, <2>2 DEF Claims, Ahead, Unasked, Reads, Knows, Told, Storing
    <2> QED
      BY <2>3, <2>4 DEF Claims
  <1> QED
    BY <1>3, <1>4, <1>5, OneMoves

\* A try fails.
LEMMA TryFailsLease ==
    ASSUME LInv, NEW n \in Invocation, NEW code, TryFails(n, code),
           worker[n].phase = "asking", wire' \subseteq wire
    PROVE  LeaseInv'
  <1>1. UNCHANGED <<records, lease, answered, started>>
        /\ (outcome' = "none" => outcome = "none")
    BY DEF TryFails, Raised, Ended, serviceVars
  <1>2. \/ Set(n, [worker[n] EXCEPT !.phase = "waiting"])
        \/ Set(n, [worker[n] EXCEPT !.phase = "ended"])
    BY DEF TryFails, Raised, Ended
  <1> QED
    BY <1>1, <1>2, WaitsLease, EndsLease

LEMMA FinishLease ==
    ASSUME LInv, NEW n \in Invocation,
           Crash(n) \/ ReadFails(n) \/ PauseHandler(n) \/ Return(n)
    PROVE  LeaseInv'
  <1>1. /\ Set(n, [worker[n] EXCEPT !.phase = "ended"])
        /\ UNCHANGED <<records, lease, answered, started, wire>>
        /\ outcome' = "none" => outcome = "none"
    BY DEF Crash, ReadFails, PauseHandler, Return, Ended
  <1> QED
    BY <1>1, EndsLease

\* The moves of the handler and of its storage between two requests.
LEMMA WorksLease ==
    ASSUME LInv, NEW n \in Invocation, NEW p \in Storing \cup {"named"},
           worker[n].phase \in Storing \cup {"ran"} \/ At(n, {"STARTED"}),
           Set(n, [worker[n] EXCEPT !.phase = p]),
           UNCHANGED <<records, lease, answered, started, outcome, wire>>
    PROVE  LeaseInv'
  <1> DEFINE x == [worker[n] EXCEPT !.phase = p]
  <1>1. /\ x.phase = p /\ x.lease = worker[n].lease /\ x.ask = worker[n].ask
        /\ x.step = worker[n].step
    BY Known1 DEF WorkerType
  <1>2. worker'[n] = x
    BY Others DEF LInv
  <1>3. x.lease <= lease /\ (n < started => x.lease < lease)
    BY <1>1, Known1 DEF Behind
  <1>4. Set(n, x)
    OBVIOUS
  <1> HIDE DEF x
  <1>5. ASSUME Latest(n)' PROVE Claims(n)'
    <2>1. Claims(n)
      BY <1>5, Known1 DEF Latest, Alive, At, Running, Storing
    <2>2. ~Asking(n) /\ ~Asking(n)' /\ ~AsksPage(n)'
      BY <1>1, <1>2 DEF Asking, AsksPage, At, Running, Storing
    <2>3. AsksHere(n)' /\ HoldsLease(n)'
      BY <1>1, <1>2, <2>1, <2>2 DEF Claims, AsksHere, HoldsLease, AsksPage
    <2>4. Mail(n)'
      BY <2>1, <2>2 DEF Claims, Mail, AsksFor, Told
    <2>5. Reads(n)'
      BY <1>1, <1>2, <2>2 DEF Reads, Storing
    <2>6. \A k \in Checkpoints, s \in Step : Unasked(n, k, s)' => Unasked(n, k, s)
      BY <1>1, <1>2, <2>2 DEF Unasked, At, Running, Storing
    <2>7. Ahead(n)'
      BY <2>1, <2>6 DEF Claims, Ahead, Told
    <2> QED
      BY <2>3, <2>4, <2>5, <2>7 DEF Claims
  <1> QED
    BY <1>3, <1>4, <1>5, OneMoves

LEMMA StorageLease ==
    ASSUME LInv, NEW n \in Invocation,
           EncodeInFile(n) \/ MakeDirectory(n) \/ SyncDirectory(n) \/ CreateFile(n)
             \/ FlushFile(n) \/ PublishFile(n)
    PROVE  LeaseInv'
  <1>1. CASE EncodeInFile(n)
    <2>1. worker[n].phase \in {"ran"} \/ At(n, {"STARTED"})
      BY <1>1 DEF EncodeInFile, Ran
    <2>2. Set(n, [worker[n] EXCEPT !.phase = "mkdir"])
          /\ UNCHANGED <<records, lease, answered, started, outcome, wire>>
      BY <1>1 DEF EncodeInFile, serviceVars
    <2> QED
      BY <2>1, <2>2, WorksLease DEF Storing
  <1>2. CASE ~EncodeInFile(n)
    <2>1. PICK p \in {"sync", "create", "flush", "publish", "named"} :
            Set(n, [worker[n] EXCEPT !.phase = p])
      BY <1>2 DEF MakeDirectory, SyncDirectory, CreateFile, FlushFile, PublishFile, Goes
    <2>2. /\ worker[n].phase \in Storing
          /\ UNCHANGED <<records, lease, answered, started, outcome, wire>>
      BY <1>2 DEF MakeDirectory, SyncDirectory, CreateFile, FlushFile, PublishFile, Goes,
                  Storing, serviceVars
    <2> QED
      BY <2>1, <2>2, WorksLease DEF Storing
  <1> QED
    BY <1>1, <1>2

\* The handler goes on with its next step.
LEMMA ReplayLease ==
    ASSUME LInv, NEW n \in Invocation, ReplayStep(n)
    PROVE  LeaseInv'
  <1> DEFINE x == [worker[n] EXCEPT !.phase = "running", !.step = @ + 1]
  <1>1. /\ Set(n, x) /\ worker[n].phase \in {"decoding", "running"}
        /\ UNCHANGED <<records, lease, answered, started, outcome, wire>>
    BY DEF ReplayStep, Decodes, At, Running, serviceVars
  <1>2. /\ x.phase = "running" /\ x.lease = worker[n].lease /\ x.ask = worker[n].ask
        /\ x.step = worker[n].step + 1 /\ x.seen = worker[n].seen
    BY Known1 DEF WorkerType
  <1>3. worker'[n] = x
    BY <1>1, Others DEF LInv
  <1>4. x.lease <= lease /\ (n < started => x.lease < lease)
    BY <1>2, Known1 DEF Behind
  <1> HIDE DEF x
  <1>5. ASSUME Latest(n)' PROVE Claims(n)'
    <2>1. Claims(n)
      BY <1>1, <1>5, Known1 DEF Latest, Alive
    <2>2. ~Asking(n) /\ ~Asking(n)' /\ ~AsksPage(n)'
      BY <1>1, <1>2, <1>3 DEF Asking, AsksPage
    <2>3. AsksHere(n)' /\ HoldsLease(n)'
      BY <1>1, <1>2, <1>3, <2>1, <2>2 DEF Claims, AsksHere, HoldsLease, AsksPage
    <2>4. Mail(n)'
      BY <1>1, <2>1, <2>2 DEF Claims, Mail, AsksFor, Told
    <2>5. Reads(n)'
      BY <1>1, <1>2, <1>3, <2>1, <2>2 DEF Claims, Reads, Knows
    <2>6. worker[n].step \in Nat
      BY Known1, Fields
    <2>7. \A k \in Checkpoints, s \in Step : Unasked(n, k, s)' => Unasked(n, k, s)
      BY <1>2, <1>3, <2>2, <2>6 DEF Unasked, Storing, Step
    <2>8. Ahead(n)'
      BY <1>1, <2>1, <2>7 DEF Claims, Ahead, Told
    <2> QED
      BY <2>3, <2>4, <2>5, <2>8 DEF Claims
  <1> QED
    BY <1>1, <1>4, <1>5, OneMoves

----------------------------------------------------------------------------
(* Requests                                                                *)

\* A request is sent, for the first time or again.
LEMMA SendsLease ==
    ASSUME LInv, NEW n \in Invocation, NEW w \in WorkerType, Alive(n),
           Set(n, [w EXCEPT !.phase = "asking"]), wire' = wire \cup {Message(n, w)},
           UNCHANGED <<records, lease, answered, started>>,
           outcome' = "none" => outcome = "none",
           w.lease = worker[n].lease, w.step = worker[n].step, w.page = worker[n].page,
           w.seen = worker[n].seen,
           \/ worker[n].phase = "waiting" /\ w.ask = worker[n].ask
           \/ worker[n].phase = "paging" /\ w.ask = [kind |-> "PAGE", step |-> w.page]
           \/ worker[n].phase = "running" /\ w.ask = [kind |-> "START", step |-> w.step]
           \/ /\ worker[n].phase \in Storing \cup {"running", "ran", "named"}
              /\ w.ask.kind \in {"SUCCEED", "RETRY"} /\ w.ask.step = w.step
    PROVE  LeaseInv'
  <1> DEFINE x == [w EXCEPT !.phase = "asking"]
             m == Message(n, w)
  <1>1. /\ x.phase = "asking" /\ x.lease = w.lease /\ x.ask = w.ask
        /\ x.step = w.step /\ x.page = w.page /\ x.seen = w.seen
    BY DEF WorkerType
  <1>2. worker'[n] = x /\ \A k \in Invocation \ {n} : worker'[k] = worker[k]
    BY Others DEF LInv
  <1>3. /\ m.from = n /\ m.kind = w.ask.kind /\ m.step = w.ask.step
        /\ m.lease = w.lease /\ m.token = 1
    BY DEF Message, Token
  <1>4. wire' = wire \cup {m}
    OBVIOUS
  <1> HIDE DEF x, m
  <1>5. n <= started /\ Behind(n)
    BY Known1 DEF Born, Alive
  <1>6. MailBehind'
    BY <1>3, <1>4, <1>5 DEF LInv, LeaseInv, MailBehind, Behind
  <1>7. ASSUME NEW k \in Invocation PROVE Behind(k)'
    BY <1>1, <1>2 DEF LInv, LeaseInv, Behind, Told
  <1>8. ASSUME NEW k \in Invocation, k # n, Latest(k)' PROVE Claims(k)'
    <2>1. worker'[k] = worker[k] /\ Latest(k)
      BY <1>2, <1>8 DEF Latest, Alive
    <2> QED
      BY <1>3, <1>4, <1>8, <2>1, KeepsClaims DEF LInv, LeaseInv
  <1>9. ASSUME Latest(n)' PROVE Claims(n)'
    <2>1. Claims(n) /\ worker[n] \in WorkerType /\ w.ask \in AskType
      BY <1>9, Known1, Fields DEF Latest
    <2>2. Asking(n)' /\ (AsksPage(n)' <=> w.ask.kind = "PAGE")
          /\ (\A k, s : AsksFor(n, k, s)' <=> (w.ask.kind = k /\ w.ask.step = s))
      BY <1>1, <1>2 DEF Asking, AsksPage, AsksFor
    <2>3. AsksHere(n)'
      BY <1>1, <1>2, <2>1 DEF Claims, AsksHere, Asking
    <2>4. \A k \in Checkpoints, s \in Step : Unasked(n, k, s)' => Unasked(n, k, s)
      BY <1>1, <1>2, <2>2 DEF Unasked, AsksPage, Asking, Storing
    <2>5. Ahead(n)'
      BY <2>1, <2>4 DEF Claims, Ahead, Told
    <2>6. HoldsLease(n)'
      <3>1. CASE worker[n].phase = "waiting" /\ w.ask = worker[n].ask
        <4>1. /\ Asking(n) /\ (AsksPage(n)' <=> AsksPage(n))
              /\ \A k, s : AsksFor(n, k, s)' <=> AsksFor(n, k, s)
          BY <2>2, <3>1 DEF Asking, AsksPage, AsksFor
        <4> QED
          BY <1>1, <1>2, <2>1, <2>2, <4>1 DEF Claims, HoldsLease, Told
      <3>2. CASE worker[n].phase # "waiting"
        <4>1. worker[n].lease = lease
          BY <2>1, <3>2 DEF Claims, HoldsLease, Asking, Storing
        <4>2. \A k \in Checkpoints, s \in Step : AsksFor(n, k, s)' => Unasked(n, k, s)
          BY <2>2, <3>2 DEF Unasked, Storing, Checkpoints
        <4>3. \A k \in Checkpoints, s \in Step : AsksFor(n, k, s)' => Told(n, k, s)' = 0
          BY <2>1, <4>2 DEF Claims, Ahead, Told
        <4> QED
          BY <1>1, <1>2, <4>1, <4>3 DEF HoldsLease
      <3> QED
        BY <3>1, <3>2 DEF Storing
    <2>7. Mail(n)'
      <3> SUFFICES ASSUME NEW u \in wire', u.from = n, u.kind # "PAGE"
                   PROVE  \/ Told(n, u.kind, u.step)' # 0
                          \/ AsksFor(n, u.kind, u.step)' /\ u.lease = worker'[n].lease
        BY DEF Mail
      <3>1. CASE u = m
        BY <1>1, <1>2, <1>3, <2>2, <3>1
      <3>2. CASE u \in wire
        <4>1. \/ Told(n, u.kind, u.step) # 0
              \/ AsksFor(n, u.kind, u.step) /\ u.lease = worker[n].lease
          BY <2>1, <3>2 DEF Claims, Mail
        <4>2. AsksFor(n, u.kind, u.step) => AsksFor(n, u.kind, u.step)'
          BY <2>2 DEF AsksFor, Asking, Storing
        <4>3. Told(n, u.kind, u.step)' = Told(n, u.kind, u.step)
          BY DEF Told
        <4> QED
          BY <1>1, <1>2, <4>1, <4>2, <4>3
      <3> QED
        BY <1>4, <3>1, <3>2
    <2>8. Reads(n)'
      BY <1>1, <1>2, <2>1, <2>2 DEF Claims, Reads, Knows, AsksPage, Asking, Storing
    <2> QED
      BY <2>3, <2>5, <2>6, <2>7, <2>8 DEF Claims
  <1> QED
    BY <1>6, <1>7, <1>8, <1>9 DEF LeaseInv

LEMMA AsksLease ==
    ASSUME LInv, NEW n \in Invocation,
           AskPage(n) \/ SendAgain(n) \/ StartStep(n) \/ EncodeInline(n) \/ Envelope(n)
    PROVE  LeaseInv'
  <1>0. worker[n] \in WorkerType /\ Sane(worker[n]) /\ Alive(n)
    BY Known1 DEF AskPage, SendAgain, StartStep, EncodeInline, Envelope, Ran, At, Running,
                  Alive
  <1>1. CASE SendAgain(n)
    <2> DEFINE x == [worker[n] EXCEPT !.try = @ + 1]
    <2>1. /\ x \in WorkerType /\ x.ask = worker[n].ask /\ x.step = worker[n].step
          /\ x.lease = worker[n].lease /\ x.page = worker[n].page /\ x.seen = worker[n].seen
      BY <1>0, <1>1 DEF SendAgain, Sane, WorkerType
    <2>2. Send(n, x) /\ worker[n].phase = "waiting"
      BY <1>1 DEF SendAgain
    <2> HIDE DEF x
    <2> QED
      BY <1>0, <2>1, <2>2, SendsLease DEF Send, serviceVars
  <1>2. CASE ~SendAgain(n)
    <2>1. worker[n].page \in Step /\ (worker[n].phase # "running" => worker[n].step \in Step)
      BY <1>0, Fields DEF Sane, Alive
    <2>2. PICK k \in {"PAGE"} \cup Checkpoints, s \in Step :
            /\ Ask(n, k, s)
            /\ \/ worker[n].phase = "paging" /\ k = "PAGE" /\ s = worker[n].page
               \/ worker[n].phase = "running" /\ k = "START" /\ s = worker[n].step
               \/ /\ worker[n].phase \in {"running", "ran", "named"}
                  /\ k = "SUCCEED" /\ s = worker[n].step
      <3>1. CASE AskPage(n)
        BY <2>1, <3>1 DEF AskPage
      <3>2. CASE StartStep(n)
        BY <1>0, <3>2, Fields DEF StartStep, At, Running, Step, Checkpoints
      <3>3. CASE EncodeInline(n)
        BY <1>0, <2>1, <3>3, Fields DEF EncodeInline, Ran, At, Running, Step, Checkpoints
      <3>4. CASE Envelope(n)
        BY <2>1, <3>4 DEF Envelope, Checkpoints
      <3> QED
        BY <1>2, <3>1, <3>2, <3>3, <3>4
    <2> DEFINE x == [worker[n] EXCEPT !.ask = [kind |-> k, step |-> s], !.try = 1]
    <2>3. /\ x \in WorkerType /\ x.ask = [kind |-> k, step |-> s] /\ x.step = worker[n].step
          /\ x.lease = worker[n].lease /\ x.page = worker[n].page /\ x.seen = worker[n].seen
      <3>1. [kind |-> k, step |-> s] \in AskType /\ 1 \in 1 .. Tries
        BY DEF AskType
      <3> QED
        BY <1>0, <3>1 DEF WorkerType
    <2>4. Send(n, x)
      BY <2>2 DEF Ask
    <2>5. /\ Set(n, [x EXCEPT !.phase = "asking"]) /\ wire' = wire \cup {Message(n, x)}
          /\ UNCHANGED <<records, lease, answered, started, outcome>>
      BY <2>4 DEF Send, serviceVars
    <2>6. \/ worker[n].phase = "waiting" /\ x.ask = worker[n].ask
          \/ worker[n].phase = "paging" /\ x.ask = [kind |-> "PAGE", step |-> x.page]
          \/ worker[n].phase = "running" /\ x.ask = [kind |-> "START", step |-> x.step]
          \/ /\ worker[n].phase \in Storing \cup {"running", "ran", "named"}
             /\ x.ask.kind \in {"SUCCEED", "RETRY"} /\ x.ask.step = x.step
      BY <2>2, <2>3
    <2> HIDE DEF x
    <2> QED
      BY <1>0, <2>3, <2>5, <2>6, SendsLease
  <1> QED
    BY <1>1, <1>2

\* A file that cannot be written: the step fails, or asks for a retry.
LEMMA StoreFailsLease ==
    ASSUME LInv, NEW n \in Invocation, StoreFails(n)
    PROVE  LeaseInv'
  <1>1. worker[n] \in WorkerType /\ Sane(worker[n]) /\ worker[n].phase \in Storing
    BY Known1 DEF StoreFails
  <1>2. worker[n].step \in Step /\ Alive(n)
    BY <1>1 DEF Sane, Storing, Alive
  <1>3. CASE Ended(n, "FAILED") /\ UNCHANGED wire
    BY <1>3, EndsLease DEF Ended
  <1>4. CASE ~(Ended(n, "FAILED") /\ UNCHANGED wire)
    <2> DEFINE w == [worker[n] EXCEPT !.ask = [kind |-> "RETRY", step |-> worker[n].step],
                                      !.try = 1]
    <2>1. /\ Set(n, [w EXCEPT !.phase = "asking"]) /\ wire' = wire \cup {Message(n, w)}
          /\ UNCHANGED <<records, lease, answered, started, outcome>>
      BY <1>4 DEF StoreFails, serviceVars
    <2>2. [kind |-> "RETRY", step |-> worker[n].step] \in AskType /\ 1 \in 1 .. Tries
      BY <1>2 DEF AskType, Checkpoints
    <2>3. /\ w \in WorkerType /\ w.ask = [kind |-> "RETRY", step |-> worker[n].step]
          /\ w.step = worker[n].step /\ w.lease = worker[n].lease
          /\ w.page = worker[n].page /\ w.seen = worker[n].seen
      BY <1>1, <2>2 DEF WorkerType
    <2>4. w.ask.kind \in {"SUCCEED", "RETRY"} /\ w.ask.step = w.step
      BY <2>3
    <2> HIDE DEF w
    <2> QED
      BY <1>1, <1>2, <2>1, <2>3, <2>4, SendsLease
  <1> QED
    BY <1>3, <1>4

----------------------------------------------------------------------------
(* The service                                                             *)

\* One answer is noted, and no other changes.
LEMMA NotesOne ==
    ASSUME NEW A, NEW B, NEW C, NEW D, NEW f \in [A -> [B -> [C -> [D -> Nat]]]],
           NEW a \in A, NEW b \in B, NEW c \in C, NEW d \in D, NEW v,
           NEW p \in A, NEW q \in B, NEW r \in C
    PROVE  /\ p = a /\ q = b /\ r = c => [f EXCEPT ![a][b][c][d] = v][p][q][r][d] = v
           /\ p # a \/ q # b \/ r # c =>
                 [f EXCEPT ![a][b][c][d] = v][p][q][r][d] = f[p][q][r][d]
  <1> DEFINE g == [f[a][b][c] EXCEPT ![d] = v]
             h == [f[a][b] EXCEPT ![c] = g]
             k == [f[a] EXCEPT ![b] = h]
  <1>1. g[d] = v
    OBVIOUS
  <1>2. h[r] = IF r = c THEN g ELSE f[a][b][r]
    <2> HIDE DEF g
    <2> QED
      OBVIOUS
  <1>3. k[q] = IF q = b THEN h ELSE f[a][q]
    <2> HIDE DEF h
    <2> QED
      OBVIOUS
  <1>4. [f EXCEPT ![a] = k][p] = IF p = a THEN k ELSE f[p]
    <2> HIDE DEF k
    <2> QED
      OBVIOUS
  <1>5. [f EXCEPT ![a][b][c][d] = v] = [f EXCEPT ![a] = k]
    OBVIOUS
  <1> HIDE DEF g, h, k
  <1> QED
    BY <1>1, <1>2, <1>3, <1>4, <1>5

\* A request the service still applies is one of the latest invocation, under
\* the valid lease.
LEMMA FreshIsLatest ==
    ASSUME LInv, NEW m \in wire, Fresh(m)
    PROVE  /\ m.from = started /\ m.from \in Invocation /\ outcome = "none"
           /\ m.lease = lease /\ m.kind \in Checkpoints /\ m.step \in Step /\ m.token = 1
           /\ m.kind # "PAGE" /\ Told(m.from, m.kind, m.step) = 0
  <1>1. m \in MessageType /\ started \in Nat /\ lease \in Nat
    BY DEF LInv, PInv, TInv, TypeOK
  <1>2. /\ m.token = 1 /\ m.from <= started /\ (m.from < started => m.lease < lease)
    BY DEF LInv, LeaseInv, MailBehind
  <1>3. m.from \in Invocation /\ m.from \in Nat /\ m.step \in Step /\ m.kind \in Checkpoints
    BY <1>1 DEF MessageType, Fresh, Invocation
  <1>4. m.lease = lease /\ outcome = "none" /\ m.kind # "PAGE"
    BY DEF Fresh, Stale, Known
  <1>5. Told(m.from, m.kind, m.step) = 0
    BY <1>2 DEF Fresh, Known, Told
  <1> QED
    BY <1>1, <1>2, <1>3, <1>4, <1>5

\* What the service changes when it applies a request.
LEMMA AppliedTells ==
    ASSUME LInv, NEW m \in wire, Fresh(m), Applied(m)
    PROVE  /\ lease' = lease + 1
           /\ \A n \in Invocation : \A k \in Checkpoints : \A s \in Step :
                 Told(n, k, s)' = IF n = m.from /\ k = m.kind /\ s = m.step
                                  THEN lease' ELSE Told(n, k, s)
  <1>1. /\ lease' = lease + 1
        /\ answered' = [answered EXCEPT ![m.from][m.kind][m.step][m.token] = lease']
    BY DEF Applied
  <1>2. /\ m.from \in Invocation /\ m.kind \in Checkpoints /\ m.step \in Step
        /\ m.token = 1 /\ 1 \in 1 .. Tries
    BY FreshIsLatest
  <1>3. answered \in [Invocation -> [Checkpoints -> [Step -> [1 .. Tries -> Nat]]]]
    BY DEF LInv, PInv, TInv, TypeOK
  <1>4. ASSUME NEW n \in Invocation, NEW k \in Checkpoints, NEW s \in Step
        PROVE  Told(n, k, s)' = IF n = m.from /\ k = m.kind /\ s = m.step
                                THEN lease' ELSE Told(n, k, s)
    <2> DEFINE noted == [answered EXCEPT ![m.from][m.kind][m.step][1] = lease'][n][k][s][1]
    <2>1. /\ n = m.from /\ k = m.kind /\ s = m.step => noted = lease'
          /\ n # m.from \/ k # m.kind \/ s # m.step => noted = answered[n][k][s][1]
      <3> DEFINE A == Invocation  B == Checkpoints  D == 1 .. Tries
                 a == m.from  b == m.kind  c == m.step  v == lease'
      <3>1. /\ answered \in [A -> [B -> [Step -> [D -> Nat]]]] /\ 1 \in D
            /\ a \in A /\ b \in B /\ c \in Step /\ n \in A /\ k \in B /\ s \in Step
        BY <1>2, <1>3
      <3>2. noted = [answered EXCEPT ![a][b][c][1] = v][n][k][s][1]
        OBVIOUS
      <3> HIDE DEF A, B, D, a, b, c, v, noted
      <3>3. /\ n = a /\ k = b /\ s = c => noted = v
            /\ n # a \/ k # b \/ s # c => noted = answered[n][k][s][1]
        BY ONLY <3>1, <3>2, NotesOne
      <3> QED
        BY <3>3 DEF a, b, c, v
    <2>2. Told(n, k, s)' = noted
      BY <1>1, <1>2 DEF Told
    <2> HIDE DEF noted
    <2> QED
      BY <2>1, <2>2 DEF Told
  <1> QED
    BY <1>1, <1>4

\* The service applies a request: what holds of the latest invocation after it
\* is all there is to see to.
LEMMA AppliesLease ==
    ASSUME LInv, NEW m \in wire, Fresh(m), Applied(m), wire' \subseteq wire,
           started' = started,
           \A k \in Invocation : k # m.from => worker'[k] = worker[k],
           worker'[m.from].lease \in {worker[m.from].lease, lease'},
           Latest(m.from)' => Claims(m.from)'
    PROVE  LeaseInv'
  <1>1. m.from = started /\ m.from \in Invocation /\ lease' = lease + 1
    BY FreshIsLatest, AppliedTells
  <1>2. started \in Nat /\ lease \in Nat
    BY DEF LInv, PInv, TInv, TypeOK
  <1>3. MailBehind'
    <2> SUFFICES ASSUME NEW u \in wire'
                 PROVE  /\ u.token = 1 /\ u.from <= started /\ u.lease <= lease'
                        /\ u.from < started => u.lease < lease'
      BY DEF MailBehind
    <2>1. /\ u.token = 1 /\ u.from <= started /\ u.lease <= lease
          /\ u.lease \in Nat
      BY DEF LInv, LeaseInv, MailBehind, PInv, TInv, TypeOK, MessageType
    <2> QED
      BY <1>1, <1>2, <2>1
  <1>4. ASSUME NEW k \in Invocation PROVE Behind(k)'
    <2>1. Behind(k) /\ k \in Nat /\ worker[k].lease \in Nat
      BY Known1, Fields
    <2>2. \A c \in Checkpoints, s \in Step : Told(k, c, s) \in Nat
      BY DEF Told, LInv, PInv, TInv, TypeOK
    <2>3. worker'[k].lease <= lease' /\ (k < started => worker'[k].lease < lease')
      BY <1>1, <1>2, <2>1 DEF Behind
    <2>4. ASSUME NEW c \in Checkpoints, NEW s \in Step
          PROVE  /\ Told(k, c, s)' <= lease'
                 /\ k < started => Told(k, c, s)' < lease'
                 /\ k > started => Told(k, c, s)' = 0
      BY <1>1, <1>2, <2>1, <2>2, AppliedTells DEF Behind
    <2> QED
      BY <2>3, <2>4 DEF Behind
  <1>5. ASSUME NEW k \in Invocation, Latest(k)' PROVE Claims(k)'
    BY <1>1, <1>5 DEF Latest
  <1> QED
    BY <1>3, <1>4, <1>5 DEF LeaseInv

\* The invocation whose request is applied goes on waiting for the answer.
LEMMA AppliedUnheard ==
    ASSUME LInv, NEW m \in wire, Fresh(m), Applied(m), wire' \subseteq wire,
           started' = started, Latest(m.from),
           worker'[m.from].phase \in {"asking", "waiting"},
           worker'[m.from].lease = worker[m.from].lease,
           worker'[m.from].ask = worker[m.from].ask,
           worker'[m.from].step = worker[m.from].step,
           worker'[m.from].page = worker[m.from].page
    PROVE  Claims(m.from)'
  <1> DEFINE n == m.from
  <1>1. /\ n \in Invocation /\ m.kind \in Checkpoints /\ m.step \in Step
        /\ m.kind # "PAGE" /\ Told(n, m.kind, m.step) = 0
    BY FreshIsLatest
  <1>2. Claims(n) /\ worker[n] \in WorkerType /\ lease \in Nat
    BY <1>1, Known1
  <1>3. AsksFor(n, m.kind, m.step)
    BY <1>1, <1>2 DEF Claims, Mail
  <1>4. Asking(n) /\ ~AsksPage(n) /\ Asking(n)' /\ ~AsksPage(n)'
        /\ \A k, s : AsksFor(n, k, s)' <=> (k = m.kind /\ s = m.step)
    BY <1>1, <1>3 DEF AsksFor, Asking, AsksPage
  <1>5. /\ lease' = lease + 1
        /\ \A k \in Checkpoints : \A s \in Step :
              Told(n, k, s)' = IF k = m.kind /\ s = m.step THEN lease' ELSE Told(n, k, s)
    BY <1>1, AppliedTells
  <1>6. AsksHere(n)'
    BY <1>2, <1>4 DEF Claims, AsksHere, AsksPage
  <1>7. HoldsLease(n)'
    BY <1>2, <1>4, <1>5 DEF HoldsLease
  <1>8. Mail(n)'
    <2> SUFFICES ASSUME NEW u \in wire', u.from = n, u.kind # "PAGE"
                 PROVE  Told(n, u.kind, u.step)' # 0
      BY DEF Mail
    <2>1. u \in wire /\ u.kind \in Checkpoints /\ u.step \in Step
      BY DEF LInv, PInv, TInv, TypeOK, MessageType
    <2>2. Told(n, u.kind, u.step) # 0 \/ AsksFor(n, u.kind, u.step)
      BY <1>2, <2>1 DEF Claims, Mail
    <2>3. AsksFor(n, u.kind, u.step) => u.kind = m.kind /\ u.step = m.step
      BY <1>3 DEF AsksFor
    <2> QED
      BY <1>2, <1>5, <2>1, <2>2, <2>3
  <1>9. Ahead(n)'
    <2>1. ASSUME NEW k \in Checkpoints, NEW s \in Step, Unasked(n, k, s)'
          PROVE  Unasked(n, k, s) /\ ~(k = m.kind /\ s = m.step)
      <3>1. worker[n].ask.kind = m.kind /\ m.step = worker[n].step
        BY <1>1, <1>2, <1>3 DEF Claims, AsksHere, AsksFor
      <3>2. worker[n].step \in Nat
        BY <1>2, Fields
      <3>3. worker'[n].phase \in {"asking", "waiting"}
        OBVIOUS
      <3> QED
        BY <1>4, <2>1, <3>1, <3>2, <3>3 DEF Unasked, Storing, Step
    <2> QED
      BY <1>2, <1>5, <2>1 DEF Claims, Ahead
  <1>10. Reads(n)'
    BY <1>4 DEF Reads, Asking
  <1> QED
    BY <1>6, <1>7, <1>8, <1>9, <1>10 DEF Claims

\* What is known of the invocation that waits for the answer to a request.
LEMMA AskedFor ==
    ASSUME LInv, NEW m \in wire, Waits(m)
    PROVE  /\ m.from \in Invocation /\ m.step \in Step /\ m.token = 1
           /\ worker[m.from].phase = "asking" /\ worker[m.from] \in WorkerType
           /\ worker[m.from].ask.kind = m.kind /\ worker[m.from].ask.step = m.step
           /\ worker[m.from].lease = m.lease /\ Alive(m.from)
           /\ m.kind # "PAGE" => /\ m.kind \in Checkpoints
                                 /\ AsksFor(m.from, m.kind, m.step)
                                 /\ ~AsksPage(m.from)
           /\ m.kind = "PAGE" => AsksPage(m.from)
  <1>1. m \in MessageType /\ m.from \in Invocation /\ worker[m.from].phase = "asking"
    BY Waited DEF LInv, PInv
  <1>2. worker[m.from] \in WorkerType
    BY <1>1, Known1
  <1>3. /\ worker[m.from].ask.kind = m.kind /\ worker[m.from].ask.step = m.step
        /\ worker[m.from].lease = m.lease /\ m.token = 1
    BY DEF Waits, Message, Token
  <1> QED
    BY <1>1, <1>2, <1>3 DEF MessageType, AsksFor, AsksPage, Asking, Alive

\* The answer to a checkpoint: the invocation goes by the records it carries.
LEMMA AnsweredClaims ==
    ASSUME LInv, NEW n \in Invocation, Claims(n), NEW k \in Checkpoints, NEW s \in Step,
           AsksFor(n, k, s), wire' \subseteq wire, Told(n, k, s)' # 0,
           \A c \in Checkpoints : \A r \in Step :
              c # k \/ r # s => Told(n, c, r)' = Told(n, c, r),
           worker'[n].lease = lease', worker'[n].seen = records',
           worker'[n].step = worker[n].step,
           k = "START" => worker'[n].phase = "ran",
           k = "RETRY" => worker'[n].phase = "pausing",
           k = "SUCCEED" => worker'[n].phase = "decoding"
    PROVE  Claims(n)'
  <1>1. /\ worker'[n].phase \in {"ran", "pausing", "decoding"}
        /\ worker'[n].phase = "ran" => k = "START"
    BY DEF Checkpoints
  <1>2. ~Asking(n)' /\ ~AsksPage(n)' /\ Asking(n) /\ worker[n].ask.kind = k
        /\ s = worker[n].step /\ worker[n].step \in Nat
    <2>1. ~Asking(n)' /\ ~AsksPage(n)' /\ Asking(n) /\ worker[n].ask.kind = k
          /\ worker[n].ask.step = s
      BY <1>1 DEF Asking, AsksPage, AsksFor
    <2>2. worker[n].step \in Nat
      BY Known1, Fields
    <2> QED
      BY <2>1, <2>2 DEF Claims, AsksHere, Checkpoints
  <1>3. AsksHere(n)' /\ HoldsLease(n)'
    BY <1>2 DEF AsksHere, HoldsLease
  <1>4. Mail(n)'
    <2> SUFFICES ASSUME NEW u \in wire', u.from = n, u.kind # "PAGE"
                 PROVE  Told(n, u.kind, u.step)' # 0
      BY DEF Mail
    <2>1. u \in wire /\ u.kind \in Checkpoints /\ u.step \in Step
      BY DEF LInv, PInv, TInv, TypeOK, MessageType
    <2>2. Told(n, u.kind, u.step) # 0 \/ AsksFor(n, u.kind, u.step)
      BY <2>1 DEF Claims, Mail
    <2>3. AsksFor(n, u.kind, u.step) => u.kind = k /\ u.step = s
      BY DEF AsksFor
    <2> QED
      BY <2>1, <2>2, <2>3
  <1>5. Ahead(n)'
    <2>1. ASSUME NEW c \in Checkpoints, NEW r \in Step, Unasked(n, c, r)'
          PROVE  Unasked(n, c, r) /\ ~(c = k /\ r = s)
      BY <1>1, <1>2, <2>1 DEF Unasked, Storing, Step
    <2> QED
      BY <2>1 DEF Claims, Ahead
  <1>6. Reads(n)'
    BY <1>1, <1>2 DEF Reads, Knows
  <1> QED
    BY <1>3, <1>4, <1>5, <1>6 DEF Claims

\* A page of the initial state is read.
LEMMA PageRead ==
    ASSUME NEW w \in WorkerType, NEW p \in Step
    PROVE  /\ Paged(w, p).lease = w.lease /\ Paged(w, p).ask = w.ask
           /\ Paged(w, p).step = w.step
           /\ Paged(w, p).seen = [w.seen EXCEPT ![p] = records[p]]
           /\ p < Steps => Paged(w, p).phase = "paging" /\ Paged(w, p).page = p + 1
           /\ ~(p < Steps) => Paged(w, p).phase = "running"
  <1> DEFINE read == [w EXCEPT !.seen[p] = records[p]]
  <1>1. /\ read.lease = w.lease /\ read.ask = w.ask /\ read.step = w.step
        /\ read.seen = [w.seen EXCEPT ![p] = records[p]] /\ DOMAIN read = DOMAIN w
    BY DEF WorkerType
  <1>2. DOMAIN w = {"phase", "lease", "seen", "step", "page", "ask", "try"}
    BY DEF WorkerType
  <1>3. Paged(w, p) = IF p < Steps THEN [read EXCEPT !.phase = "paging", !.page = p + 1]
                      ELSE [read EXCEPT !.phase = "running"]
    BY DEF Paged
  <1> HIDE DEF read
  <1> QED
    BY <1>1, <1>2, <1>3

\* The pages an invocation has read are what the service holds.
LEMMA PagesClaims ==
    ASSUME LInv, NEW n \in Invocation, Claims(n), AsksPage(n),
           UNCHANGED <<records, lease, answered>>, wire' \subseteq wire,
           worker'[n].lease = worker[n].lease, worker'[n].step = worker[n].step,
           worker'[n].seen = [worker[n].seen EXCEPT ![worker[n].page]
                                                    = records[worker[n].page]],
           \/ worker'[n].phase = "paging" /\ worker'[n].page = worker[n].page + 1
           \/ worker'[n].phase = "paging" /\ worker'[n].page = worker[n].page
           \/ worker'[n].phase = "running" /\ worker[n].page = Steps
    PROVE  Claims(n)'
  <1>1. ~Asking(n)' /\ ~AsksPage(n)' /\ worker'[n].phase \in {"paging", "running"}
    BY DEF Asking, AsksPage
  <1>2. AsksHere(n)' /\ HoldsLease(n)'
    BY <1>1 DEF Claims, AsksHere, HoldsLease
  <1>3. Mail(n)'
    <2>1. \A u \in wire : u.kind # "PAGE" => ~AsksFor(n, u.kind, u.step)
      BY DEF AsksFor, AsksPage
    <2> QED
      BY <2>1 DEF Claims, Mail, Told
  <1>4. Ahead(n)'
    <2>1. \A k \in Checkpoints, s \in Step : Unasked(n, k, s)' => Unasked(n, k, s)
      BY <1>1 DEF Unasked, Storing
    <2> QED
      BY <2>1 DEF Claims, Ahead, Told
  <1>5. Reads(n)'
    <2>1. worker[n].page \in Step /\ worker[n].seen \in [Step -> RecordType]
      BY Known1, Fields
    <2>2. \A s \in Step : s < worker[n].page => Knows(worker[n], s)
      BY DEF Claims, Reads
    <2>3. \A s \in Step : s <= worker[n].page => Knows(worker[n], s)'
      BY <2>1, <2>2 DEF Step, Knows
    <2> QED
      BY <1>1, <2>1, <2>3 DEF Reads, Step
  <1> QED
    BY <1>2, <1>3, <1>4, <1>5 DEF Claims

\* An answer reaches the invocation that waits for it: a page, what the service
\* knew already by the client token, or what it applies now.
LEMMA ReplyLease ==
    ASSUME LInv, NEW m \in wire, Reply(m)
    PROVE  LeaseInv'
  <1> DEFINE n == m.from
             w == worker[n]
  <1>1. /\ n \in Invocation /\ m.step \in Step /\ m.token = 1 /\ w.phase = "asking"
        /\ w \in WorkerType /\ w.ask.kind = m.kind /\ w.ask.step = m.step /\ Alive(n)
    BY AskedFor DEF Reply
  <1>2. /\ wire' \subseteq wire /\ UNCHANGED <<started, outcome>> /\ Applied(m)
        /\ ~Stale(m)
        /\ Answers(n, records',
                   IF m.kind = "PAGE" THEN 0 ELSE answered'[n][m.kind][m.step][m.token])
    BY DEF Reply, Handled
  <1>3. Latest(n)' => Claims(n)
    BY <1>1, <1>2, Known1 DEF Latest
  <1>4. Behind(n) /\ started \in Nat /\ n \in Nat /\ lease \in Nat
    BY <1>1, Known1
  <1>5. CASE m.kind = "PAGE"
    <2> DEFINE x == Paged(w, m.step)
    <2>1. Set(n, x) /\ AsksPage(n)
      BY <1>1, <1>2, <1>5, AskedFor DEF Reply, Answers
    <2>2. UNCHANGED <<records, lease, answered>>
      BY <1>2, <1>5 DEF Applied, Fresh
    <2>3. /\ x.lease = w.lease /\ x.step = w.step
          /\ x.seen = [w.seen EXCEPT ![m.step] = records[m.step]]
          /\ m.step < Steps => x.phase = "paging" /\ x.page = m.step + 1
          /\ ~(m.step < Steps) => x.phase = "running"
      BY <1>1, PageRead
    <2>4. worker'[n] = x
      BY <1>1, <2>1, Others DEF LInv
    <2> HIDE DEF x
    <2>5. ASSUME Latest(n)' PROVE Claims(n)'
      <3>1. m.step = w.page
        BY <1>1, <1>3, <1>5, <2>5 DEF Claims, AsksHere, Asking
      <3>2. \/ x.phase = "paging" /\ x.page = w.page + 1
            \/ x.phase = "running" /\ w.page = Steps
        BY <1>1, <2>3, <3>1 DEF Step
      <3> QED
        BY <1>1, <1>2, <1>3, <2>1, <2>2, <2>3, <2>4, <2>5, <3>1, <3>2, PagesClaims
    <2> QED
      BY <1>1, <1>2, <1>4, <2>1, <2>2, <2>3, <2>5, OneMoves DEF Behind
  <1>6. CASE m.kind # "PAGE"
    <2> DEFINE p == CASE w.ask.kind = "START" -> "ran"
                      [] w.ask.kind = "RETRY" -> "pausing"
                      [] OTHER -> "decoding"
               next == Told(n, m.kind, m.step)'
               x == [w EXCEPT !.phase = p, !.seen = records', !.lease = next]
    <2>1. m.kind \in Checkpoints /\ AsksFor(n, m.kind, m.step)
      BY <1>6, AskedFor DEF Reply
    <2>2. Set(n, x)
      BY <1>1, <1>2, <1>6 DEF Answers, Told
    <2>3. /\ m.kind = "START" => p = "ran"
          /\ m.kind = "RETRY" => p = "pausing"
          /\ m.kind = "SUCCEED" => p = "decoding"
      BY <1>1
    <2> HIDE DEF p, next
    <2>4. x.phase = p /\ x.step = w.step /\ x.seen = records' /\ x.lease = next
      BY <1>1 DEF WorkerType
    <2>5. worker'[n] = x /\ \A k \in Invocation \ {n} : worker'[k] = worker[k]
      BY <1>1, <2>2, Others DEF LInv
    <2> HIDE DEF x
    <2>6. CASE Fresh(m)
      <3>1. next = lease' /\ lease' # 0
        BY <1>1, <1>2, <1>4, <2>1, <2>6, AppliedTells DEF next
      <3>2. \A c \in Checkpoints : \A r \in Step :
               c # m.kind \/ r # m.step => Told(n, c, r)' = Told(n, c, r)
        BY <1>1, <1>2, <2>6, AppliedTells
      <3>3. ASSUME Latest(n)' PROVE Claims(n)'
        BY <1>1, <1>2, <1>3, <2>1, <2>3, <2>4, <2>5, <3>1, <3>2, <3>3, AnsweredClaims
        DEF next
      <3>4. \A k \in Invocation : k # m.from => worker'[k] = worker[k]
        BY <2>5
      <3>5. worker'[m.from].lease = lease'
        BY <2>4, <2>5, <3>1
      <3> QED
        BY <1>2, <2>6, <3>3, <3>4, <3>5, AppliesLease
    <2>7. CASE ~Fresh(m)
      <3>1. UNCHANGED <<records, lease, answered>> /\ Known(m)
        BY <1>2, <1>6, <2>7 DEF Applied, Fresh
      <3>2. next = Told(n, m.kind, m.step) /\ next # 0
        BY <1>1, <3>1 DEF next, Known, Told
      <3>3. next <= lease /\ (n < started => next < lease)
        BY <1>1, <1>4, <2>1, <3>2 DEF Behind
      <3>4. ASSUME Latest(n)' PROVE Claims(n)'
        <4>1. next = lease
          <5>1. HoldsLease(n)
            BY <1>3, <3>4 DEF Claims
          <5>2. Asking(n) /\ ~AsksPage(n)
            BY <1>6, <2>1 DEF AsksFor, AsksPage
          <5>3. Told(n, m.kind, m.step) = lease
            BY <1>1, <2>1, <3>2, <5>1, <5>2 DEF HoldsLease
          <5> QED
            BY <3>2, <5>3
        <4>2. \A c \in Checkpoints : \A r \in Step : Told(n, c, r)' = Told(n, c, r)
          BY <3>1 DEF Told
        <4> QED
          BY <1>1, <1>2, <1>3, <2>1, <2>3, <2>4, <2>5, <3>1, <3>2, <3>4, <4>1, <4>2,
             AnsweredClaims
      <3> QED
        BY <1>1, <1>2, <2>2, <2>4, <3>1, <3>3, <3>4, OneMoves
    <2> QED
      BY <2>6, <2>7
  <1> QED
    BY <1>5, <1>6

\* The answer is lost, or is not what it should be: the request has been applied.
LEMMA UnheardLease ==
    ASSUME LInv, NEW m \in wire, LoseAnswer(m) \/ NoLease(m)
    PROVE  LeaseInv'
  <1> DEFINE n == m.from
  <1>1. /\ Waits(m) /\ Fresh(m) /\ Applied(m) /\ wire' \subseteq wire
        /\ UNCHANGED <<started, outcome>>
    BY DEF LoseAnswer, NoLease, Handled
  <1>2. n \in Invocation /\ worker[n].phase = "asking" /\ worker[n] \in WorkerType /\ Alive(n)
    BY <1>1, AskedFor
  <1>3. PICK p \in {"waiting", "ended"} : Set(n, [worker[n] EXCEPT !.phase = p])
    BY DEF LoseAnswer, NoLease
  <1> DEFINE x == [worker[n] EXCEPT !.phase = p]
  <1>4. /\ x.phase = p /\ x.lease = worker[n].lease /\ x.ask = worker[n].ask
        /\ x.step = worker[n].step /\ x.page = worker[n].page
    BY <1>2 DEF WorkerType
  <1>5. worker'[n] = x /\ \A k \in Invocation \ {n} : worker'[k] = worker[k]
    BY <1>2, <1>3, Others DEF LInv
  <1> HIDE DEF x
  <1>6. ASSUME Latest(n)' PROVE Claims(n)'
    <2>1. p = "waiting" /\ Latest(n)
      BY <1>1, <1>2, <1>4, <1>5, <1>6 DEF Latest, Alive
    <2> QED
      BY <1>1, <1>4, <1>5, <2>1, AppliedUnheard
  <1>7. \A k \in Invocation : k # m.from => worker'[k] = worker[k]
    BY <1>5
  <1>8. worker'[m.from].lease = worker[m.from].lease
    BY <1>4, <1>5
  <1> QED
    BY <1>1, <1>6, <1>7, <1>8, AppliesLease

\* Nobody waits for the answer any more.
LEMMA LateLease ==
    ASSUME LInv, NEW m \in wire, ArriveLate(m)
    PROVE  LeaseInv'
  <1> DEFINE n == m.from
  <1>1. Applied(m) /\ wire' \subseteq wire /\ UNCHANGED <<started, outcome, worker>>
    BY DEF ArriveLate, Handled
  <1>2. CASE Fresh(m)
    <2>1. ASSUME Latest(n)' PROVE Claims(n)'
      <3>1. Latest(n) /\ n \in Invocation /\ m.kind \in Checkpoints /\ m.step \in Step
            /\ m.kind # "PAGE" /\ Told(n, m.kind, m.step) = 0
        BY <1>1, <1>2, <2>1, FreshIsLatest DEF Latest, Alive
      <3>2. AsksFor(n, m.kind, m.step)
        BY <3>1, Known1 DEF Claims, Mail
      <3>3. worker'[n].phase \in {"asking", "waiting"}
        BY <1>1, <3>2 DEF AsksFor, Asking
      <3> QED
        BY <1>1, <1>2, <3>1, <3>3, AppliedUnheard
    <2>2. worker'[m.from].lease = worker[m.from].lease
      BY <1>1
    <2> QED
      BY <1>1, <1>2, <2>1, <2>2, AppliesLease
  <1>3. CASE ~Fresh(m)
    <2>1. UNCHANGED <<records, lease, answered>>
      BY <1>1, <1>3 DEF Applied
    <2> QED
      BY <1>1, <2>1, NoneMoves
  <1> QED
    BY <1>2, <1>3

\* A page is asked for again, as its marker has been read before.
LEMMA RepeatsLease ==
    ASSUME LInv, NEW m \in wire, RepeatMarker(m)
    PROVE  LeaseInv'
  <1> DEFINE n == m.from
             w == worker[n]
             x == [w EXCEPT !.phase = "paging", !.seen[m.step] = records[m.step]]
  <1>1. /\ n \in Invocation /\ w.phase = "asking" /\ w \in WorkerType /\ Alive(n)
        /\ w.ask.kind = m.kind /\ w.ask.step = m.step /\ AsksPage(n)
    BY AskedFor DEF RepeatMarker
  <1>2. /\ Set(n, x) /\ wire' \subseteq wire
        /\ UNCHANGED <<records, lease, answered, started, outcome>>
    BY DEF RepeatMarker, Handled, serviceVars
  <1>3. /\ x.phase = "paging" /\ x.lease = w.lease /\ x.step = w.step /\ x.page = w.page
        /\ x.seen = [w.seen EXCEPT ![m.step] = records[m.step]]
    BY <1>1 DEF WorkerType
  <1>4. worker'[n] = x
    BY <1>1, <1>2, Others DEF LInv
  <1> HIDE DEF x
  <1>5. ASSUME Latest(n)' PROVE Claims(n)'
    <2>1. Claims(n)
      BY <1>1, <1>2, <1>5, Known1 DEF Latest
    <2>2. m.step = w.page
      BY <1>1, <2>1 DEF Claims, AsksHere, AsksPage
    <2> QED
      BY <1>1, <1>2, <1>3, <1>4, <2>1, <2>2, PagesClaims
  <1>6. x.lease <= lease /\ (n < started => x.lease < lease)
    BY <1>1, <1>3, Known1 DEF Behind
  <1> QED
    BY <1>1, <1>2, <1>5, <1>6, OneMoves

LEMMA HandledLease ==
    ASSUME LInv, NEW m \in wire,
           Fenced(m) \/ ArriveLate(m) \/ LoseAnswer(m) \/ Refuse(m) \/ NoLease(m)
             \/ RepeatMarker(m)
    PROVE  LeaseInv'
  <1>1. CASE Fenced(m) \/ Refuse(m)
    <2>1. m.from \in Invocation /\ worker[m.from].phase = "asking" /\ wire' \subseteq wire
      BY <1>1, AskedFor DEF Fenced, Refuse, Handled
    <2>2. CASE \E code \in {"throttled", "KMS"} : TryFails(m.from, code)
      BY <2>1, <2>2, TryFailsLease
    <2>3. CASE \E permanent \in BOOLEAN : Raised(m.from, permanent)
      <3>1. /\ Set(m.from, [worker[m.from] EXCEPT !.phase = "ended"])
            /\ UNCHANGED <<records, lease, answered, started>>
            /\ outcome' = "none" => outcome = "none"
        BY <2>3 DEF Raised, Ended
      <3> QED
        BY <2>1, <3>1, EndsLease
    <2> QED
      BY <1>1, <2>2, <2>3 DEF Fenced, Refuse
  <1> QED
    BY <1>1, UnheardLease, LateLease, RepeatsLease

LEMMA TimeOutLease ==
    ASSUME LInv, NEW n \in Invocation, TimeOut(n)
    PROVE  LeaseInv'
  BY TryFailsLease DEF TimeOut

----------------------------------------------------------------------------
(* The rest, and the theorems                                              *)

\* An invocation that starts takes the lease over from all the others.
LEMMA InvokeLease ==
    ASSUME LInv, InvokeWorkflow
    PROVE  LeaseInv'
  <1> DEFINE w == [Idle EXCEPT !.lease = lease']
             x == Paged(w, 1)
  <1>1. /\ started' = started + 1 /\ lease' = lease + 1 /\ outcome = "none"
        /\ UNCHANGED <<records, answered, outcome, wire>> /\ Set(started', x)
    BY DEF InvokeWorkflow
  <1>2. started \in Nat /\ lease \in Nat /\ started' \in Invocation
    BY <1>1 DEF LInv, PInv, TInv, TypeOK, InvokeWorkflow, Invocation
  <1>3. PICK n \in Invocation : n = started'
    BY <1>2
  <1>4. /\ w \in WorkerType /\ w.lease = lease' /\ w.step = 1 /\ 1 \in Step
    <2>1. Idle \in WorkerType /\ Idle.step = 1
      <3>1. /\ [s \in Step |-> NoRecord] \in [Step -> RecordType] /\ NoAsk \in AskType
            /\ 1 \in 1 .. Steps + 1 /\ 1 \in 1 .. Tries /\ 0 \in Nat /\ 1 \in Step
            /\ "none" \in Phases
        BY PhaseNames DEF NoRecord, RecordType, Statuses, NoAsk, AskType, Step
      <3> QED
        BY <3>1 DEF Idle, WorkerType
    <2>2. lease' \in Nat /\ 1 \in Step
      BY <1>1, <1>2 DEF Step
    <2> QED
      BY <2>1, <2>2 DEF WorkerType
  <1> HIDE DEF w
  <1>5. /\ x.lease = lease' /\ x.step = 1
        /\ x.seen = [w.seen EXCEPT ![1] = records[1]]
        /\ \/ x.phase = "paging" /\ x.page = 2
           \/ x.phase = "running" /\ Steps = 1
    BY <1>4, PageRead DEF Step
  <1>6. worker'[n] = x /\ \A k \in Invocation \ {n} : worker'[k] = worker[k]
    BY <1>1, <1>3, Others DEF LInv
  <1>7. x.seen[1] = records[1]
    BY <1>4, <1>5, Fields
  <1> HIDE DEF x
  <1>8. \A k \in Checkpoints, s \in Step : Told(n, k, s)' = 0
    BY <1>1, <1>2, <1>3, Known1 DEF Behind, Told
  <1>9. \A m \in wire : m.lease \in Nat /\ m.from \in Nat
    BY DEF LInv, PInv, TInv, TypeOK, MessageType, Invocation
  <1>10. MailBehind'
    <2> SUFFICES ASSUME NEW m \in wire
                 PROVE  /\ m.token = 1 /\ m.from <= started + 1 /\ m.lease < lease + 1
      BY <1>1, <1>2, <1>9 DEF MailBehind
    <2>1. m.token = 1 /\ m.from <= started /\ m.lease <= lease
      BY DEF LInv, LeaseInv, MailBehind
    <2> QED
      BY <1>2, <1>9, <2>1
  <1>11. ASSUME NEW k \in Invocation PROVE Behind(k)'
    <2>1. CASE k = n
      BY <1>1, <1>2, <1>3, <1>5, <1>6, <1>8, <2>1 DEF Behind
    <2>2. CASE k # n
      <3>1. Behind(k) /\ k \in Nat /\ worker[k].lease \in Nat
            /\ \A c \in Checkpoints, s \in Step : Told(k, c, s) \in Nat
        BY Known1, Fields DEF Told, LInv, PInv, TInv, TypeOK
      <3> QED
        BY <1>1, <1>2, <1>3, <1>6, <2>2, <3>1 DEF Behind, Told
    <2> QED
      BY <2>1, <2>2
  <1>12. Claims(n)'
    <2>1. ~Asking(n)' /\ ~AsksPage(n)'
      BY <1>5, <1>6 DEF Asking, AsksPage
    <2>2. AsksHere(n)' /\ HoldsLease(n)' /\ Ahead(n)'
      BY <1>5, <1>6, <1>8, <2>1 DEF AsksHere, HoldsLease, Ahead
    <2>3. Mail(n)'
      <3>1. \A m \in wire : m.from <= started
        BY DEF LInv, LeaseInv, MailBehind
      <3>2. \A m \in wire : m.from # n
        BY <1>1, <1>2, <1>3, <1>9, <3>1
      <3> QED
        BY <1>1, <3>2 DEF Mail
    <2>4. Reads(n)'
      <3>1. worker'[n].seen[1] = records'[1]
        BY <1>1, <1>6, <1>7
      <3>2. ASSUME NEW s \in Step, worker'[n].phase = "running" \/ s < worker'[n].page
            PROVE  Knows(worker[n], s)'
        <4>1. s = 1
          BY <1>5, <1>6, <3>2 DEF Step
        <4> QED
          BY <3>1, <4>1 DEF Knows
      <3>3. worker'[n].phase # "decoding"
        BY <1>5, <1>6
      <3> QED
        BY <2>1, <3>2, <3>3 DEF Reads
    <2> QED
      BY <2>2, <2>3, <2>4 DEF Claims
  <1> QED
    BY <1>3, <1>10, <1>11, <1>12 DEF LeaseInv, Latest

\* The delay of a retry passes: what an invocation knows is behind by that alone.
LEMMA ElapseLease ==
    ASSUME LInv, NEW e \in Step, Elapse(e)
    PROVE  LeaseInv'
  <1>1. /\ records[e].status = "PENDING"
        /\ records' = [records EXCEPT ![e].status = "READY"]
        /\ UNCHANGED <<lease, answered, started, outcome, wire, worker>>
    BY DEF Elapse
  <1>2. MailBehind'
    BY <1>1 DEF LInv, LeaseInv, MailBehind
  <1>3. \A k \in Invocation : Behind(k)'
    BY <1>1 DEF LInv, LeaseInv, Behind, Told
  <1>4. ASSUME NEW k \in Invocation, Latest(k)' PROVE Claims(k)'
    <2>1. Claims(k)
      BY <1>1, <1>4 DEF LInv, LeaseInv, Latest, Alive
    <2>2. AsksHere(k)' /\ Ahead(k)' /\ HoldsLease(k)' /\ Mail(k)'
      BY <1>1, <2>1 DEF Claims, AsksHere, Ahead, Unasked, HoldsLease, Mail, AsksPage,
                        AsksFor, Asking, Told
    <2>3. ASSUME NEW s \in Step, Knows(worker[k], s) PROVE Knows(worker[k], s)'
      <3>1. records \in [Step -> RecordType]
        BY DEF LInv, PInv, TInv, TypeOK
      <3>2. records'[e].status = "READY" /\ (s # e => records'[s] = records[s])
        BY <1>1, <3>1 DEF RecordType
      <3> QED
        BY <1>1, <2>3, <3>2 DEF Knows
    <2>4. Reads(k)'
      BY <1>1, <2>1, <2>3 DEF Claims, Reads, AsksPage, Asking
    <2> QED
      BY <2>1, <2>2, <2>4 DEF Claims
  <1> QED
    BY <1>2, <1>3, <1>4 DEF LeaseInv

\* The power fails: those that were writing a file end.
LEMMA LosePowerLease ==
    ASSUME LInv, LosePower
    PROVE  LeaseInv'
  <1>1. UNCHANGED <<records, lease, answered, started, outcome, wire>>
    BY DEF LosePower
  <1>2. ASSUME NEW k \in Invocation
        PROVE  \/ worker'[k] = worker[k]
               \/ worker'[k].phase = "ended" /\ worker'[k].lease = worker[k].lease
    <2>1. worker'[k] \in {worker[k], [worker[k] EXCEPT !.phase = "ended"]}
      BY DEF LosePower
    <2>2. worker[k] \in WorkerType
      BY Known1
    <2> QED
      BY <2>1, <2>2 DEF WorkerType
  <1>3. MailBehind'
    BY <1>1 DEF LInv, LeaseInv, MailBehind
  <1>4. ASSUME NEW k \in Invocation PROVE Behind(k)'
    <2>1. worker'[k].lease = worker[k].lease
      BY <1>2
    <2> QED
      BY <1>1, <2>1 DEF LInv, LeaseInv, Behind, Told
  <1>5. ASSUME NEW k \in Invocation, Latest(k)' PROVE Claims(k)'
    <2>1. worker'[k] = worker[k] /\ Latest(k)
      BY <1>1, <1>2, <1>5 DEF Latest, Alive
    <2> QED
      BY <1>1, <2>1, KeepsClaims DEF LInv, LeaseInv
  <1> QED
    BY <1>3, <1>4, <1>5 DEF LeaseInv

LEMMA OutsideLease ==
    ASSUME LInv, TakeForDead \/ RunnerInvokes \/ RunnerPolls \/ RunnerReads
                   \/ RunnerGivesUp \/ Finished \/ UNCHANGED vars
    PROVE  LeaseInv'
  <1>1. UNCHANGED <<records, lease, answered, started, outcome, wire, worker>>
    BY DEF TakeForDead, RunnerInvokes, RunnerPolls, RunnerReads, RunnerGivesUp, Watch,
           Finished, vars, serviceVars
  <1> QED
    BY <1>1, NoneMoves

LEMMA LeaseStep ==
    ASSUME LInv, [Next]_vars
    PROVE  LInv'
  <1> SUFFICES LeaseInv'
    BY PayloadStep DEF LInv
  <1>1. CASE InvokeWorkflow
    BY <1>1, InvokeLease
  <1>2. CASE Service
    BY <1>2, ReplyLease, HandledLease DEF Service
  <1>3. CASE Runner
    BY <1>3, OutsideLease DEF Runner
  <1>4. CASE Failures
    BY <1>4, FinishLease, TimeOutLease, StoreFailsLease, HandledLease, OutsideLease,
       LosePowerLease DEF Failures
  <1>5. CASE \E n \in Invocation : Transport(n) \/ Handler(n) \/ Storage(n)
    BY <1>5, AsksLease, ReplayLease, StorageLease, FinishLease
    DEF Transport, Handler, Storage
  <1>6. CASE \E s \in Step : Elapse(s)
    BY <1>6, ElapseLease
  <1>7. CASE Finished \/ UNCHANGED vars
    BY <1>7, OutsideLease
  <1> QED
    BY <1>1, <1>2, <1>3, <1>4, <1>5, <1>6, <1>7 DEF Next

LEMMA LeaseInit == Init => LInv
  <1> SUFFICES ASSUME Init PROVE LInv
    OBVIOUS
  <1>1. PInv
    BY PayloadInit
  <1>2. wire = {} /\ started = 0 /\ lease = 0
    BY DEF Init
  <1>3. \A n \in Invocation : worker[n].lease = 0 /\ n > 0 /\ n \in Nat
    BY DEF Init, Idle, Invocation
  <1>4. \A n \in Invocation, k \in Checkpoints, s \in Step : Told(n, k, s) = 0
    BY DEF Init, Told
  <1>5. MailBehind /\ \A n \in Invocation : Behind(n)
    BY <1>2, <1>3, <1>4 DEF MailBehind, Behind
  <1>6. \A n \in Invocation : ~Latest(n)
    BY <1>2, <1>3 DEF Latest
  <1> QED
    BY <1>1, <1>5, <1>6 DEF LInv, LeaseInv

\* A try of a checkpoint is refused for its token only when the service has
\* started another invocation since, or the execution is over: of the answers to
\* its own earlier tries the invocation is told the lease by its client token
\* (AsyncAws.request; the service knows the token before it looks at the lease).
THEOREM RemoteFenced == Spec => []FencedMeansSuperseded
  <1>1. LInv => FencedMeansSuperseded
    <2> SUFFICES ASSUME LInv, NEW m \in wire, Waits(m), Stale(m), m.from = started,
                        outcome = "none"
                 PROVE  FALSE
      BY DEF FencedMeansSuperseded
    <2>1. /\ m.from \in Invocation /\ m.kind \in Checkpoints /\ m.step \in Step
          /\ AsksFor(m.from, m.kind, m.step) /\ ~AsksPage(m.from) /\ m.token = 1
          /\ worker[m.from].lease = m.lease /\ Alive(m.from)
      BY AskedFor DEF Stale
    <2>2. Told(m.from, m.kind, m.step) = 0 /\ m.lease # lease
      BY <2>1 DEF Stale, Known, Told
    <2>3. HoldsLease(m.from)
      BY <2>1, Known1 DEF Latest, Claims
    <2> QED
      BY <2>1, <2>2, <2>3 DEF HoldsLease, AsksFor
  <1> QED
    BY <1>1, LeaseInit, LeaseStep, PTL DEF Spec

\* What the last invocation goes by when its handler runs is what the service
\* holds, page for page and answer for answer, but for a delay that ends meanwhile
\* (invoke_workflow reads the state to its last page before the handler, and
\* Journal takes the records of each answer).
THEOREM RemoteState == Spec => []StateIsWhole
  <1>1. LInv => StateIsWhole
    <2> SUFFICES ASSUME LInv, NEW n \in Invocation, Running(n), n = started,
                        outcome = "none"
                 PROVE  \A s \in Step : Knows(worker[n], s)
      BY DEF StateIsWhole
    <2>1. Claims(n)
      BY Known1 DEF Latest, Alive, Running
    <2> QED
      BY <2>1 DEF Claims, Reads, Running
  <1> QED
    BY <1>1, LeaseInit, LeaseStep, PTL DEF Spec
================================================================================
