--------------------------- MODULE TerminalProofs ---------------------------
(***************************************************************************)
(* Theorems of Terminal, for bodies of any length, any number of chunks and  *)
(* any number of crashes, suspensions, retries and interruptions: the types, *)
(* that the manifest of a large result is whole, and, of scopes whose        *)
(* cancellation policy no sibling can trigger, that actions run in order,    *)
(* that an end has run what it calls for and that only failures are undone.  *)
(***************************************************************************)
EXTENDS Terminal, SequenceTheorems, TLAPS

USE TerminalAssumption

----------------------------------------------------------------------------
(* The inductive invariant, first part: what holds of every scope           *)

\* The updates the scope's task submits.
Starting == ScopeUpdate("STARTED", None)
Verdicts == {ScopeUpdate("SUCCEEDED", "value")} \cup {ScopeUpdate("FAILED", why) : why \in Causes}
Permanent == ScopeUpdate("FAILED", "permanent")
OpUpdates == [table : {"ops"}, at : Position, what : Operation,
              status : {"STARTED", "PENDING", "READY"} \cup Final]
ChunkUpdates == [table : {"chunks"}, at : 1 .. Chunks, status : {"STARTED", "SUCCEEDED"}]

Stored == \A k \in 1 .. Chunks : chunks[k] = "SUCCEEDED"
Broken == \E k \in 1 .. Chunks : chunks[k] = "STARTED"
StoredTo(k) == \A j \in 1 .. k - 1 : chunks[j] = "SUCCEEDED"

\* What an update still to be applied says of the records and of the task.
InTransit(u) ==
    \/ u = Starting /\ scope.status = "none" /\ pc \in {"starting", "cancelled"}
    \/ /\ u \in Verdicts /\ scope.status = "STARTED" /\ pc \in {"committing", "cancelled"}
       /\ u.status = "SUCCEEDED" /\ config.large => Stored
    \/ /\ u \in OpUpdates /\ scope.status = "STARTED"
       /\ pc \in {"operating", "acting", "actionOperating", "interrupted", "cancelled"}
    \/ /\ u \in ChunkUpdates /\ scope.status = "STARTED"
       /\ pc \in {"chunkStarting", "chunkEnding", "cancelled"}
       /\ StoredTo(u.at)
       /\ chunks[u.at] = IF u.status = "STARTED" THEN "none" ELSE "STARTED"

\* The journal holds one update of the scope, or the verdict of a permanent
\* error behind that of the action it ended.
Mailed ==
    \/ mailbox = <<>>
    \/ \E u \in {Starting} \cup Verdicts \cup OpUpdates \cup ChunkUpdates :
          mailbox = <<u>> /\ InTransit(u)
    \/ \E u \in OpUpdates :
          /\ mailbox = <<u, Permanent>>
          /\ scope.status = "STARTED" /\ pc \in {"committing", "cancelled"}

Working == {"body", "operating", "storing", "chunkStarting", "chunkEnding",
            "acting", "actionOperating"}

\* Where the task is, against its records and the mailbox.
Placed ==
    /\ handler = "off" <=> pc = "off"
    /\ handler = "off" => mailbox = <<>>
    /\ handler = "over" => mailbox = <<>> /\ pc \in {"done", "raised", "cancelled"}
    /\ pc \in Working => scope.status = "STARTED"
    /\ pc = "starting" /\ mailbox = <<>> => scope.status = "STARTED"
    /\ pc \in {"body", "storing"} => mailbox = <<>>
    /\ pc = "acting" /\ cause # "cancel" => mailbox = <<>>
    /\ pc = "committing" /\ mailbox = <<>> => scope.status \in Final
    /\ pc = "operating" => mailbox = <<>> \/ mailbox[1] \in OpUpdates
    /\ scope.status \in Final => pc \in {"committing"} \cup Ended

\* The position of the cursor leaves room for what is still to come.
Room ==
    /\ pc \in {"starting", "body"} => next = stage
    /\ pc = "operating" => stage <= Stages /\ next = stage + 1
    /\ pc \in {"storing", "chunkStarting", "chunkEnding"} => next <= stage
    /\ pc = "acting" => next + Len(todo) <= 3 * Stages + 1
    /\ pc = "actionOperating" =>
          todo # <<>> /\ next > 1 /\ next - 1 + Len(todo) <= 3 * Stages + 1

\* The chunks are stored one after the other.
Filled ==
    /\ \A k \in 1 .. Chunks : chunks[k] # "none" => StoredTo(k)
    /\ pc \in {"starting", "body", "operating"} => chunk = 1
    /\ pc = "storing" => StoredTo(chunk)
    /\ pc \in {"chunkStarting", "chunkEnding"} =>
          /\ chunk <= Chunks /\ StoredTo(chunk)
          /\ mailbox = <<>> => chunks[chunk] = IF pc = "chunkStarting" THEN "STARTED"
                                               ELSE "SUCCEEDED"
    /\ pc = "chunkStarting" /\ mailbox # <<>> => mailbox = <<ChunkUpdate(chunk, "STARTED")>>
    /\ pc = "chunkEnding" /\ mailbox # <<>> => mailbox = <<ChunkUpdate(chunk, "SUCCEEDED")>>

\* What the verdict will be.
Called ==
    /\ pc \in {"acting", "actionOperating"} =>
          /\ config.terminal
          /\ cause \in {"success", "failure", "cancel"}
          /\ cause = "success" /\ config.large => Stored
          /\ cause = "failure" => error \in Causes
    /\ scope.status = "SUCCEEDED" /\ config.large => Stored

TInv == TypeOK /\ Mailed /\ Placed /\ Room /\ Filled /\ Called

----------------------------------------------------------------------------
(* The inductive invariant, second part: a scope no suspension disturbs     *)

Undisturbed == config.siblings => config.policy = {}

FailsAt == IF config.failsAt = None THEN Stages + 1 ELSE config.failsAt
AbandonAt == IF config.abandon = None THEN Stages + 1 ELSE config.abandon
\* The stage at which the body ends, in every invocation that gets there.
End == IF AbandonAt <= FailsAt THEN AbandonAt ELSE FailsAt
Abandoned == AbandonAt <= Stages /\ AbandonAt <= FailsAt
Failing == FailsAt <= Stages \/ ~config.encodes \/ (config.large /\ Broken)

\* The actions this end calls for, and the operation that each position is for.
Script == IF ~config.terminal THEN {}
          ELSE IF Abandoned THEN config.policy
          ELSE IF Failing THEN Phases ELSE {"CLEANUP"}
Undo == IF "COMPENSATION" \in Script THEN End - 1 ELSE 0
Clean == IF "CLEANUP" \in Script THEN End - 1 ELSE 0
Finish == End - 1 + Undo + Clean
Line(p) == IF p < End THEN <<"BODY", p>>
           ELSE IF p < End + Undo THEN <<"COMPENSATION", 2 * End - 1 - p>>
           ELSE <<"CLEANUP", 2 * End + Undo - 1 - p>>

Done(n) == \A q \in 1 .. n : ops[q].status \in Final
\* The chunks will not change any more.
Fixed == config.encodes /\ config.large /\ End = Stages + 1 => Stored \/ Broken

\* A record is for the operation of its position, and those before it are final.
Recorded ==
    \A p \in Position : ops[p].status # "none" =>
        /\ p <= Finish /\ ops[p].what = Line(p) /\ Done(p - 1)
        /\ p < End => ops[p].status \in {"STARTED", "SUCCEEDED"}
        /\ p >= End => Fixed

\* So is an update.
Updated ==
    /\ mailbox # <<>> /\ mailbox[1] \in OpUpdates =>
        LET u == mailbox[1] IN
        /\ u.at <= Finish /\ u.what = Line(u.at) /\ Done(u.at - 1)
        /\ ops[u.at].status \notin Final
        /\ u.at < End => u.status \in {"STARTED", "SUCCEEDED"}
        /\ u.at >= End => Fixed
    /\ mailbox # <<>> /\ mailbox[1] \in ChunkUpdates => 
        \A p \in Position : p >= End => ops[p].status = "none"

\* A verdict is backed by what has been run.
Backed(status, why) ==
    config.terminal /\ why # "permanent" =>
        /\ Done(Finish)
        /\ status = "SUCCEEDED" =>
              /\ Script = {"CLEANUP"} /\ End = Stages + 1
              /\ \A q \in End .. Finish : ops[q].status = "SUCCEEDED"
        /\ status = "FAILED" => 
              \/ Script = Phases
              \/ why = "actions" /\ Script = {"CLEANUP"} /\ End = Stages + 1
Settles ==
    /\ scope.status \in Final => Backed(scope.status, scope.why)
    /\ \A u \in Verdicts : mailbox = <<u>> => Backed(u.status, u.why)

\* The task has come to position n of the script, in its actions.
At(n) ==
    /\ stage = End /\ End <= n
    /\ Len(todo) = Finish - n + 1
    /\ \A i \in 1 .. Len(todo) : todo[i] = Line(n + i - 1)
    /\ Done(n - 1)
    /\ failed <=> \E q \in End .. n - 1 : ops[q].status = "FAILED"
    /\ Fixed
    /\ cause = "cancel" => Abandoned
    /\ cause = "success" => ~Abandoned /\ ~Failing
    /\ cause = "failure" => ~Abandoned /\ Failing

Follows ==
    /\ pc = "starting" => stage = 1
    /\ pc = "body" => stage <= End /\ next = stage /\ Done(stage - 1)
    /\ pc = "operating" =>
          /\ stage < End /\ Done(stage - 1)
          /\ mailbox # <<>> => mailbox[1].at = stage
    /\ pc \in {"storing", "chunkStarting", "chunkEnding"} =>
          /\ stage = End /\ End = Stages + 1 /\ next = stage /\ Done(stage - 1)
          /\ config.encodes /\ config.large
    /\ pc \in {"chunkStarting", "chunkEnding"} =>
          \A p \in Position : p >= End => ops[p].status = "none"
    /\ pc = "acting" =>
          \/ cause = "cancel" /\ config.policy = {} /\ todo = <<>>
          \/ At(next) /\ mailbox = <<>>
    /\ pc = "actionOperating" =>
          /\ At(next - 1)
          /\ mailbox # <<>> => mailbox[1].at = next - 1
    /\ handler = "on" /\ pc \in {"acting", "actionOperating"} /\ cause = "cancel" =>
          Abandoned /\ At(IF pc = "acting" THEN next ELSE next - 1)
    /\ handler # "closing" /\ pc = "cancelled" => Abandoned /\ Done(Finish)

SInv == Recorded /\ Updated /\ Settles /\ Follows
IInv == TInv /\ config \in Configs /\ (Undisturbed => SInv)

----------------------------------------------------------------------------
(* The actions a scope runs                                                *)

\* An interval that ends at p is the one that ends before it, and p.
LEMMA UpTo ==
    ASSUME NEW p \in Nat \ {0}, NEW e \in Nat, e <= p
    PROVE  /\ \A q \in 1 .. p : q \in 1 .. p - 1 \/ q = p
           /\ \A q \in e .. p : q \in e .. p - 1 \/ q = p
           /\ \A q \in e .. p - 1 : q \in e .. p
           /\ p \in e .. p
    OBVIOUS

LEMMA ProgramIs ==
    ASSUME stage \in 1 .. Stages + 1, NEW P \in SUBSET Phases,
           NEW a \in Nat, a = IF "COMPENSATION" \in P THEN stage - 1 ELSE 0,
           NEW c \in Nat, c = IF "CLEANUP" \in P THEN stage - 1 ELSE 0
    PROVE  /\ Program(P) \in Seq(Action)
           /\ Len(Program(P)) = a + c
           /\ \A i \in 1 .. a + c :
                 Program(P)[i] = IF i <= a THEN <<"COMPENSATION", stage - i>>
                                 ELSE <<"CLEANUP", stage + a - i>>
  <1>1. stage - 1 \in Nat /\ Stages \in Nat
    OBVIOUS
  <1>2. ASSUME NEW phase \in Phases
        PROVE  /\ InReverse(phase) \in Seq(Action)
               /\ Len(InReverse(phase)) = stage - 1
               /\ \A i \in 1 .. stage - 1 : InReverse(phase)[i] = <<phase, stage - i>>
    <2>1. \A i \in 1 .. stage - 1 : stage - i \in Stage
      BY <1>1 DEF Stage
    <2>2. \A i \in 1 .. stage - 1 : <<phase, stage - i>> \in Action
      BY <2>1 DEF Action
    <2>3. InReverse(phase) \in [1 .. stage - 1 -> Action]
      BY <2>2 DEF InReverse
    <2>4. InReverse(phase) \in Seq(Action)
      BY <1>1, <2>3, SeqDef
    <2>5. Len(InReverse(phase)) = stage - 1
      <3>1. DOMAIN InReverse(phase) = 1 .. stage - 1
        BY DEF InReverse
      <3> QED
        BY <1>1, <2>4, <3>1
    <2> QED
      BY <2>4, <2>5 DEF InReverse
  <1>3. "COMPENSATION" \in Phases /\ "CLEANUP" \in Phases
    BY DEF Phases
  <1> DEFINE s == InReverse("COMPENSATION")  t == InReverse("CLEANUP")
  <1>4. <<>> \in Seq(Action) /\ Len(<<>>) = 0
    OBVIOUS
  <1>5. /\ s \in Seq(Action) /\ Len(s) = stage - 1
        /\ \A i \in 1 .. stage - 1 : s[i] = <<"COMPENSATION", stage - i>>
        /\ t \in Seq(Action) /\ Len(t) = stage - 1
        /\ \A i \in 1 .. stage - 1 : t[i] = <<"CLEANUP", stage - i>>
    BY <1>2, <1>3
  <1> DEFINE x == IF "COMPENSATION" \in P THEN s ELSE <<>>
             y == IF "CLEANUP" \in P THEN t ELSE <<>>
  <1>6. Program(P) = x \o y
    BY DEF Program
  <1>7. /\ x \in Seq(Action) /\ Len(x) = a /\ y \in Seq(Action) /\ Len(y) = c
        /\ a \in Nat /\ c \in Nat
    <2> HIDE DEF s, t
    <2> QED
      BY <1>1, <1>4, <1>5
  <1>8. /\ \A i \in 1 .. a : x[i] = <<"COMPENSATION", stage - i>>
        /\ \A i \in 1 .. c : y[i] = <<"CLEANUP", stage - i>>
    <2> HIDE DEF s, t
    <2> QED
      BY <1>1, <1>5
  <1> HIDE DEF s, t, x, y
  <1> DEFINE z == x \o y
  <1>9. /\ z \in Seq(Action) /\ Len(z) = a + c
        /\ \A i \in 1 .. a : z[i] = x[i]
        /\ \A i \in a + 1 .. a + c : z[i] = y[i - a]
    <2>1. /\ z \in Seq(Action) /\ Len(z) = Len(x) + Len(y)
          /\ \A i \in 1 .. Len(x) + Len(y) :
                z[i] = IF i <= Len(x) THEN x[i] ELSE y[i - Len(x)]
      BY <1>7, ConcatProperties, ZenonT(60)
    <2>2. /\ \A i \in 1 .. a : i \in 1 .. a + c /\ i <= a
          /\ \A i \in a + 1 .. a + c : i \in 1 .. a + c /\ ~(i <= a)
      BY ONLY a \in Nat, c \in Nat
    <2>3. Len(x) = a /\ Len(y) = c
      BY <1>7
    <2> QED
      BY ONLY <2>1, <2>2, <2>3, Zenon
  <1> HIDE DEF z
  <1>10. ASSUME NEW i \in 1 .. a + c
         PROVE  z[i] = IF i <= a THEN <<"COMPENSATION", stage - i>>
                       ELSE <<"CLEANUP", stage + a - i>>
    <2>1. CASE i \in 1 .. a
      <3>1. z[i] = x[i] /\ i <= a
        BY <1>7, <1>9, <2>1
      <3>2. x[i] = <<"COMPENSATION", stage - i>>
        BY <1>8, <2>1
      <3> QED
        BY <3>1, <3>2
    <2>2. CASE i \in a + 1 .. a + c
      <3> i \in a + 1 .. a + c
        BY <2>2
      <3> stage - 1 \in Nat /\ stage \in Int
        BY <1>1
      <3>1. i - a \in 1 .. c /\ stage - (i - a) = stage + a - i /\ ~(i <= a)
        BY ONLY a \in Nat, c \in Nat, stage \in Int, i \in a + 1 .. a + c
      <3>2. y[i - a] = <<"CLEANUP", stage - (i - a)>>
        BY <1>8, <3>1
      <3> QED
        BY <1>1, <1>7, <1>9, <2>2, <3>1, <3>2
    <2> QED
      BY <1>7, <2>1, <2>2
  <1>11. Program(P) = z
    BY <1>6 DEF z
  <1> QED
    BY <1>9, <1>10, <1>11

----------------------------------------------------------------------------
(* What every scope keeps                                                  *)

Taken == UNCHANGED <<config, recordVars, stage, chunk>>

\* The updates are what they say.
LEMMA OpUpdateIs ==
    ASSUME NEW p \in Position, NEW what \in Operation,
           NEW status \in {"STARTED", "PENDING", "READY"} \cup Final
    PROVE  /\ OpUpdate(p, what, status) \in OpUpdates
           /\ OpUpdate(p, what, status).at = p
           /\ OpUpdate(p, what, status).what = what
           /\ OpUpdate(p, what, status).status = status
  BY DEF OpUpdate, OpUpdates

LEMMA ChunkUpdateIs ==
    ASSUME NEW k \in 1 .. Chunks, NEW status \in {"STARTED", "SUCCEEDED"}
    PROVE  /\ ChunkUpdate(k, status) \in ChunkUpdates
           /\ ChunkUpdate(k, status).at = k
           /\ ChunkUpdate(k, status).status = status
  BY DEF ChunkUpdate, ChunkUpdates

LEMMA VerdictIs ==
    /\ \A why \in Causes : ScopeUpdate("FAILED", why) \in Verdicts
    /\ ScopeUpdate("SUCCEEDED", "value") \in Verdicts
    /\ Permanent \in Verdicts
    /\ \A v \in Verdicts : /\ v.status \in Final /\ v.table = "scope"
                           /\ v.status = "SUCCEEDED" => v.why = "value"
                           /\ v.status = "FAILED" => v.why \in Causes
    /\ \A status, why : ScopeUpdate(status, why).status = status
                        /\ ScopeUpdate(status, why).why = why
  BY DEF Verdicts, ScopeUpdate, Permanent, Causes, Final

LEMMA UpdatesDiffer ==
    /\ Starting.table = "scope" /\ Starting.status = "STARTED" /\ Starting.why = None
    /\ Starting \notin Verdicts \cup OpUpdates \cup ChunkUpdates
    /\ \A u \in OpUpdates : u.table = "ops" /\ u \notin Verdicts \cup ChunkUpdates
    /\ \A u \in ChunkUpdates : u.table = "chunks" /\ u \notin Verdicts
  <1>1. Starting.table = "scope" /\ Starting.status = "STARTED" /\ Starting.why = None
    BY DEF Starting, ScopeUpdate
  <1>2. \A u \in OpUpdates : u.table = "ops"
    BY DEF OpUpdates
  <1>3. \A u \in ChunkUpdates : u.table = "chunks"
    BY DEF ChunkUpdates
  <1>4. Starting.status \notin Final
    BY <1>1 DEF Final
  <1> QED
    BY <1>1, <1>2, <1>3, <1>4, VerdictIs

\* The journal with an update more.
LEMMA Sends ==
    ASSUME mailbox = <<>>, NEW u, Write(u)
    PROVE  mailbox' = <<u>> /\ mailbox' # <<>> /\ mailbox'[1] = u
  BY DEF Write

LEMMA SendsBehind ==
    ASSUME NEW u, NEW v, mailbox = <<u>>, Write(v)
    PROVE  mailbox' = <<u, v>> /\ mailbox' # <<>>
  <1>1. Append(<<u>>, v) = <<u, v>>
    <2> DEFINE s == Append(<<u>>, v)  t == <<u, v>>
    <2>1. <<u>> \in Seq({u, v}) /\ Len(<<u>>) = 1 /\ <<u>>[1] = u
      OBVIOUS
    <2>2. s \in Seq({u, v}) /\ Len(s) = 2 /\ s[1] = u /\ s[2] = v
      BY <2>1
    <2>3. t \in Seq({u, v}) /\ Len(t) = 2 /\ t[1] = u /\ t[2] = v
      OBVIOUS
    <2> HIDE DEF s, t
    <2>4. s = t
      BY <2>2, <2>3, SeqEqual
    <2> QED
      BY <2>4 DEF s, t
  <1>2. <<u, v>> # <<>>
    OBVIOUS
  <1>3. mailbox' = Append(<<u>>, v)
    BY DEF Write
  <1> QED
    BY <1>1, <1>2, <1>3, Zenon

\* What the service takes from the journal.
LEMMA Receives ==
    ASSUME NEW u, NEW v
    PROVE  /\ Head(<<u>>) = u /\ Tail(<<u>>) = <<>>
           /\ Head(<<u, v>>) = u /\ Tail(<<u, v>>) = <<v>> /\ <<u, v>> # <<>> /\ <<v>> # <<>>
  OBVIOUS

\* The actions a scope is about to run.
LEMMA RunIs ==
    ASSUME TypeOK, NEW P \in SUBSET Phases, NEW why, Run(P, why)
    PROVE  /\ pc' = "acting" /\ cause' = why /\ failed' = FALSE
           /\ todo' = Program(P) /\ todo' \in Seq(Action)
           /\ Len(todo') \in Nat /\ Len(todo') <= 2 * (stage - 1)
           /\ P = {} => todo' = <<>>
  <1>1. stage \in 1 .. Stages + 1 /\ Stages \in Nat
    BY DEF TypeOK
  <1> DEFINE a == IF "COMPENSATION" \in P THEN stage - 1 ELSE 0
             c == IF "CLEANUP" \in P THEN stage - 1 ELSE 0
  <1>2. a \in Nat /\ c \in Nat /\ a + c <= 2 * (stage - 1)
    BY <1>1
  <1>3. Program(P) \in Seq(Action) /\ Len(Program(P)) = a + c
    <2> HIDE DEF a, c
    <2>1. a = IF "COMPENSATION" \in P THEN stage - 1 ELSE 0
      BY DEF a
    <2>2. c = IF "CLEANUP" \in P THEN stage - 1 ELSE 0
      BY DEF c
    <2> QED
      BY <1>1, <1>2, <2>1, <2>2, ProgramIs
  <1>4. pc' = "acting" /\ todo' = Program(P) /\ cause' = why /\ failed' = FALSE
    BY DEF Run
  <1>5. P = {} => Program(P) = <<>>
    <2>1. ASSUME P = {} PROVE Len(Program(P)) = 0
      BY <1>3, <2>1
    <2> QED
      BY <1>3, <2>1
  <1> HIDE DEF a, c
  <1> QED
    BY <1>1, <1>2, <1>3, <1>4, <1>5

\* The task goes on to its actions.
LEMMA Acting ==
    ASSUME TInv, Taken, pc \in {"body", "operating", "storing", "acting", "actionOperating"},
           pc' = "acting", mailbox' = mailbox, handler' \in {"on", "closing"}, config.terminal,
           next' \in 1 .. 3 * Stages + 1, todo' \in Seq(Action), failed' \in BOOLEAN,
           next' + Len(todo') <= 3 * Stages + 1,
           cause' \in {"success", "failure", "cancel"},
           cause' # "cancel" => mailbox = <<>>,
           cause' = "success" /\ config.large => Stored,
           cause' = "failure" => error' \in Causes
    PROVE  TInv'
  <1> USE DEF Taken, recordVars
  <1>1. TypeOK'
    BY DEF TInv, TypeOK
  <1>2. Mailed'
    BY DEF TInv, Mailed, InTransit, Stored, StoredTo
  <1>3. Placed'
    BY DEF TInv, Placed, Working, Final, Ended
  <1>4. Room'
    BY DEF TInv, Room
  <1>5. Filled'
    BY DEF TInv, Filled, StoredTo
  <1>6. Called'
    BY DEF TInv, Called, Stored
  <1> QED
    BY <1>1, <1>2, <1>3, <1>4, <1>5, <1>6 DEF TInv

\* The task writes its verdict.
LEMMA Committing ==
    ASSUME TInv, Taken, scope.status = "STARTED", pc' = "committing",
           mailbox = <<>>, NEW v \in Verdicts, mailbox' = <<v>>,
           v.status = "SUCCEEDED" /\ config.large => Stored,
           handler' \in {"on", "closing"}, next' \in 1 .. 3 * Stages + 1, UNCHANGED todo,
           cause' \in {None, "success", "failure", "cancel"}, failed' \in BOOLEAN
    PROVE  TInv'
  <1> USE DEF Taken, recordVars
  <1>1. TypeOK'
    BY DEF TInv, TypeOK
  <1>2. Mailed'
    BY DEF Mailed, InTransit, Stored
  <1>3. Placed'
    BY DEF TInv, Placed, Working, Final, Ended
  <1>4. Room'
    BY DEF TInv, Room
  <1>5. Filled'
    BY DEF TInv, Filled, StoredTo
  <1>6. Called'
    BY DEF TInv, Called, Stored
  <1> QED
    BY <1>1, <1>2, <1>3, <1>4, <1>5, <1>6 DEF TInv

\* The task submits an update of its operation.
LEMMA Operating ==
    ASSUME TInv, Taken, pc \in {"operating", "actionOperating"},
           UNCHANGED <<handler, pc, next, todo, cause, failed, error>>,
           mailbox = <<>>, NEW u \in OpUpdates, mailbox' = <<u>>
    PROVE  TInv'
  <1> USE DEF Taken, recordVars
  <1>1. TypeOK'
    BY DEF TInv, TypeOK
  <1>2. Mailed'
    BY DEF TInv, Placed, Working, Mailed, InTransit
  <1>3. Placed'
    BY DEF TInv, Placed, Working, Final, Ended
  <1>4. Room'
    BY DEF TInv, Room
  <1>5. Filled'
    BY DEF TInv, Filled, StoredTo
  <1>6. Called'
    BY DEF TInv, Called, Stored
  <1> QED
    BY <1>1, <1>2, <1>3, <1>4, <1>5, <1>6 DEF TInv

----------------------------------------------------------------------------
(* The steps of the task                                                   *)

\* A failure calls for the actions, or is the verdict.
LEMMA FailTyped ==
    ASSUME TInv, Taken, pc \in {"body", "storing"}, NEW why \in Causes, Fail(why),
           UNCHANGED handler, handler # "off", next' = next \/ (pc = "body" /\ next' = next + 1 /\ stage <= Stages)
    PROVE  TInv'
  <1>1. /\ mailbox = <<>> /\ scope.status = "STARTED" /\ next <= stage
        /\ handler \in {"on", "closing"} /\ next \in 1 .. 3 * Stages + 1 /\ Stages \in Nat
        /\ stage \in 1 .. Stages + 1 /\ failed \in BOOLEAN
        /\ cause \in {None, "success", "failure", "cancel"}
    BY DEF TInv, Placed, Working, Room, TypeOK
  <1>2. next' \in 1 .. 3 * Stages + 1 /\ next' + 2 * (stage - 1) <= 3 * Stages + 1
    BY <1>1
  <1>3. CASE config.terminal
    <2>1. Run(Phases, "failure") /\ error' = why /\ mailbox' = mailbox
      BY <1>3 DEF Fail
    <2>2. /\ pc' = "acting" /\ cause' = "failure" /\ failed' = FALSE
          /\ todo' \in Seq(Action) /\ Len(todo') \in Nat /\ Len(todo') <= 2 * (stage - 1)
      BY <2>1, RunIs DEF TInv
    <2>3. next' + Len(todo') <= 3 * Stages + 1
      BY <1>1, <1>2, <2>2
    <2> QED
      BY <1>1, <1>2, <1>3, <2>1, <2>2, <2>3, Acting
  <1>4. CASE ~config.terminal
    <2>1. pc' = "committing" /\ Write(ScopeUpdate("FAILED", why)) /\ UNCHANGED <<todo, cause, failed>>
      BY <1>4 DEF Fail, Settle
    <2>2. ScopeUpdate("FAILED", why) \in Verdicts /\ ScopeUpdate("FAILED", why).status = "FAILED"
      BY VerdictIs
    <2>3. mailbox' = <<ScopeUpdate("FAILED", why)>>
      BY <1>1, <2>1, Sends
    <2> QED
      BY <1>1, <1>2, <2>1, <2>2, <2>3, Committing
  <1> QED
    BY <1>3, <1>4

\* The result is there: the cleanups, or the verdict.
LEMMA PreparedTyped ==
    ASSUME TInv, Taken, pc \in {"body", "storing"}, Prepared, UNCHANGED <<handler, next>>,
           handler # "off", config.large => Stored
    PROVE  TInv'
  <1>1. /\ mailbox = <<>> /\ scope.status = "STARTED" /\ next <= stage
        /\ handler \in {"on", "closing"} /\ next \in 1 .. 3 * Stages + 1 /\ Stages \in Nat
        /\ stage \in 1 .. Stages + 1 /\ failed \in BOOLEAN
        /\ cause \in {None, "success", "failure", "cancel"}
    BY DEF TInv, Placed, Working, Room, TypeOK
  <1>2. CASE config.terminal
    <2>1. Run({"CLEANUP"}, "success") /\ mailbox' = mailbox
      BY <1>2 DEF Prepared
    <2>2. {"CLEANUP"} \in SUBSET Phases
      BY DEF Phases
    <2>3. /\ pc' = "acting" /\ cause' = "success" /\ failed' = FALSE
          /\ todo' \in Seq(Action) /\ Len(todo') \in Nat /\ Len(todo') <= 2 * (stage - 1)
      BY <2>1, <2>2, RunIs DEF TInv
    <2>4. next' + Len(todo') <= 3 * Stages + 1
      BY <1>1, <2>3
    <2> QED
      BY <1>1, <1>2, <2>1, <2>3, <2>4, Acting
  <1>3. CASE ~config.terminal
    <2>1. /\ pc' = "committing" /\ Write(ScopeUpdate("SUCCEEDED", "value"))
          /\ UNCHANGED <<todo, cause, failed>>
      BY <1>3 DEF Prepared, Settle
    <2>2. mailbox' = <<ScopeUpdate("SUCCEEDED", "value")>>
      BY <1>1, <2>1, Sends
    <2> QED
      BY <1>1, <2>1, <2>2, VerdictIs, Committing
  <1> QED
    BY <1>2, <1>3

LEMMA BodyReservesTyped ==
    ASSUME TInv, BodyReserves
    PROVE  TInv'
  <1>1. pc = "body" /\ stage \in Stage /\ UNCHANGED <<config, handler, stage, chunk, recordVars>>
    BY DEF BodyReserves
  <1>2. handler # "off" /\ stage <= Stages /\ next \in 1 .. 3 * Stages + 1 /\ next <= stage
    BY <1>1 DEF TInv, Placed, Room, TypeOK, Stage
  <1>3. CASE \E why \in Causes : Fail(why) /\ next' \in {next, next + 1}
    BY <1>1, <1>2, <1>3, FailTyped DEF Taken
  <1>4. CASE next' = next + 1 /\ pc' = "operating" /\ UNCHANGED <<todo, cause, failed, error, mailbox>>
    <2> USE <1>1, <1>2, <1>4 DEF recordVars
    <2>1. TypeOK'
      BY DEF TInv, TypeOK
    <2>2. Mailed' /\ Placed'
      BY DEF TInv, Mailed, InTransit, Placed, Working, Final, Ended
    <2>3. Room' /\ Filled' /\ Called'
      BY DEF TInv, Room, Filled, StoredTo, Called, Stored
    <2> QED
      BY <2>1, <2>2, <2>3 DEF TInv
  <1> QED
    BY <1>3, <1>4 DEF BodyReserves, Causes

LEMMA BodyOperatesTyped ==
    ASSUME TInv, BodyOperates
    PROVE  TInv'
  <1>1. /\ pc = "operating" /\ mailbox = <<>>
        /\ UNCHANGED <<config, handler, next, todo, cause, failed, error, chunk, recordVars>>
    BY DEF BodyOperates, Acked
  <1>2. handler # "off" /\ stage \in 1 .. Stages /\ next = stage + 1 /\ Stages \in Nat
    BY <1>1 DEF TInv, Placed, Room, TypeOK
  <1>3. ASSUME NEW status \in {"STARTED", "SUCCEEDED"},
               Write(OpUpdate(next - 1, <<"BODY", stage>>, status)), UNCHANGED <<pc, stage>>
        PROVE  TInv'
    <2>1. next - 1 \in Position /\ <<"BODY", stage>> \in Operation
      BY <1>2 DEF Position, Operation, Stage
    <2>2. OpUpdate(next - 1, <<"BODY", stage>>, status) \in OpUpdates
      BY <2>1, OpUpdateIs DEF Final
    <2>3. mailbox' = <<OpUpdate(next - 1, <<"BODY", stage>>, status)>>
      BY <1>1, <1>3, Sends
    <2> QED
      BY <1>1, <1>3, <2>2, <2>3, Operating DEF Taken
  <1>4. CASE pc' \in {"paused", "body"} /\ mailbox' = mailbox
             /\ stage' = IF pc' = "body" THEN stage + 1 ELSE stage
    <2> USE <1>1, <1>2, <1>4 DEF recordVars
    <2>1. TypeOK'
      BY DEF TInv, TypeOK, Ended
    <2>2. Mailed' /\ Placed'
      BY DEF TInv, Mailed, InTransit, Placed, Working, Final, Ended
    <2>3. Room' /\ Filled' /\ Called'
      BY DEF TInv, Room, Filled, StoredTo, Called, Stored
    <2> QED
      BY <2>1, <2>2, <2>3 DEF TInv
  <1> QED
    BY <1>3, <1>4 DEF BodyOperates

LEMMA BodyReturnsTyped ==
    ASSUME TInv, BodyReturns
    PROVE  TInv'
  <1>1. pc = "body" /\ UNCHANGED <<config, handler, stage, next, chunk, recordVars>>
    BY DEF BodyReturns
  <1>2. handler # "off"
    BY <1>1 DEF TInv, Placed
  <1>3. CASE Fail("prepare")
    BY <1>1, <1>2, <1>3, FailTyped DEF Taken, Causes
  <1>4. CASE pc' = "storing" /\ UNCHANGED <<todo, cause, failed, error, mailbox>> /\ stage = Stages + 1
    <2> USE <1>1, <1>2, <1>4 DEF recordVars
    <2>1. TypeOK'
      BY DEF TInv, TypeOK
    <2>2. Mailed' /\ Placed'
      BY DEF TInv, Mailed, InTransit, Placed, Working, Final, Ended
    <2>3. chunk = 1
      BY DEF TInv, Filled
    <2>4. Room' /\ Filled' /\ Called'
      BY <2>3 DEF TInv, Room, Filled, StoredTo, Called, Stored
    <2> QED
      BY <2>1, <2>2, <2>4 DEF TInv
  <1>5. CASE ~config.large /\ Prepared
    BY <1>1, <1>2, <1>5, PreparedTyped DEF Taken
  <1> QED
    BY <1>3, <1>4, <1>5 DEF BodyReturns

\* A step of the store that looks at the next chunk.
LEMMA StoreTyped ==
    ASSUME TInv, Store
    PROVE  TInv'
  <1>1. pc = "storing" /\ UNCHANGED <<config, handler, stage, next, recordVars>>
    BY DEF Store
  <1>2. /\ handler # "off" /\ mailbox = <<>> /\ scope.status = "STARTED"
        /\ chunk \in 1 .. Chunks + 1 /\ Chunks \in Nat /\ StoredTo(chunk)
    BY <1>1 DEF TInv, Placed, Working, TypeOK, Filled
  <1>3. CASE /\ chunk <= Chunks /\ chunks[chunk] = "none" /\ pc' = "chunkStarting"
             /\ Write(ChunkUpdate(chunk, "STARTED"))
             /\ UNCHANGED <<todo, cause, failed, error, chunk>>
    <2> USE <1>1, <1>2, <1>3 DEF recordVars
    <2> DEFINE u == ChunkUpdate(chunk, "STARTED")
    <2>1. u \in ChunkUpdates /\ u.at = chunk /\ u.status = "STARTED"
      BY ChunkUpdateIs
    <2>2. mailbox' = <<u>> /\ mailbox' # <<>>
      BY Sends
    <2> HIDE DEF u
    <2>3. TypeOK'
      BY DEF TInv, TypeOK
    <2>4. Mailed'
      BY <2>1, <2>2 DEF Mailed, InTransit, StoredTo
    <2>5. Placed' /\ Room' /\ Called'
      BY <2>2 DEF TInv, Placed, Working, Final, Ended, Room, Called, Stored
    <2>6. Filled'
      BY <2>2 DEF TInv, Filled, StoredTo, u
    <2> QED
      BY <2>3, <2>4, <2>5, <2>6 DEF TInv
  <1>4. CASE /\ chunk <= Chunks /\ chunks[chunk] = "SUCCEEDED" /\ chunk' = chunk + 1
             /\ UNCHANGED <<pc, todo, cause, failed, error, mailbox>>
    <2> USE <1>1, <1>2, <1>4 DEF recordVars
    <2>1. TypeOK'
      BY DEF TInv, TypeOK
    <2>2. Mailed' /\ Placed' /\ Room' /\ Called'
      BY DEF TInv, Mailed, InTransit, Placed, Working, Final, Ended, Room, Called, Stored
    <2>3. StoredTo(chunk)'
      BY DEF StoredTo
    <2>4. Filled'
      BY <2>3 DEF TInv, Filled, StoredTo
    <2> QED
      BY <2>1, <2>2, <2>4 DEF TInv
  <1>5. CASE Fail("changed") /\ UNCHANGED chunk
    BY <1>1, <1>2, <1>5, FailTyped DEF Taken, Causes
  <1>6. CASE chunk > Chunks /\ Prepared /\ UNCHANGED chunk
    <2>1. Stored
      BY <1>2, <1>6 DEF Stored, StoredTo
    <2> QED
      BY <1>1, <1>2, <1>6, <2>1, PreparedTyped DEF Taken
  <1> QED
    BY <1>3, <1>4, <1>5, <1>6 DEF Store

LEMMA ChunkAckedTyped ==
    ASSUME TInv, ChunkAcked
    PROVE  TInv'
  <1>1. /\ mailbox = <<>> /\ pc \in {"chunkStarting", "chunkEnding"}
        /\ UNCHANGED <<config, handler, stage, next, todo, cause, failed, error, recordVars>>
    BY DEF ChunkAcked, Acked
  <1>2. /\ handler # "off" /\ scope.status = "STARTED"
        /\ chunk \in 1 .. Chunks /\ Chunks \in Nat /\ StoredTo(chunk)
        /\ chunks[chunk] = IF pc = "chunkStarting" THEN "STARTED" ELSE "SUCCEEDED"
    BY <1>1 DEF TInv, Placed, Working, TypeOK, Filled
  <1>3. CASE /\ pc = "chunkStarting" /\ pc' = "chunkEnding"
             /\ Write(ChunkUpdate(chunk, "SUCCEEDED")) /\ UNCHANGED chunk
    <2> USE <1>1, <1>2, <1>3 DEF recordVars
    <2> DEFINE u == ChunkUpdate(chunk, "SUCCEEDED")
    <2>1. u \in ChunkUpdates /\ u.at = chunk /\ u.status = "SUCCEEDED"
      BY ChunkUpdateIs
    <2>2. mailbox' = <<u>> /\ mailbox' # <<>>
      BY Sends
    <2> HIDE DEF u
    <2>3. TypeOK'
      BY DEF TInv, TypeOK
    <2>4. Mailed'
      BY <2>1, <2>2 DEF Mailed, InTransit, StoredTo
    <2>5. Placed' /\ Room' /\ Called'
      BY <2>2 DEF TInv, Placed, Working, Final, Ended, Room, Called, Stored
    <2>6. Filled'
      BY <2>2 DEF TInv, Filled, StoredTo, u
    <2> QED
      BY <2>3, <2>4, <2>5, <2>6 DEF TInv
  <1>4. CASE pc = "chunkEnding" /\ pc' = "storing" /\ chunk' = chunk + 1 /\ UNCHANGED mailbox
    <2> USE <1>1, <1>2, <1>4 DEF recordVars
    <2>1. TypeOK'
      BY DEF TInv, TypeOK
    <2>2. Mailed' /\ Placed' /\ Room' /\ Called'
      BY DEF TInv, Mailed, InTransit, Placed, Working, Final, Ended, Room, Called, Stored
    <2>3. StoredTo(chunk)'
      BY DEF StoredTo
    <2>4. Filled'
      BY <2>3 DEF TInv, Filled, StoredTo
    <2> QED
      BY <2>1, <2>2, <2>4 DEF TInv
  <1> QED
    BY <1>3, <1>4 DEF ChunkAcked

\* The list of actions without the first.
LEMMA Fewer ==
    ASSUME todo \in Seq(Action), todo # <<>>
    PROVE  /\ Head(todo) \in Action /\ Head(todo) = todo[1]
           /\ Tail(todo) \in Seq(Action) /\ Len(todo) \in Nat \ {0}
           /\ Len(Tail(todo)) = Len(todo) - 1
           /\ \A i \in 1 .. Len(todo) - 1 : Tail(todo)[i] = todo[i + 1]
  OBVIOUS

LEMMA ActionReservesTyped ==
    ASSUME TInv, ActionReserves
    PROVE  TInv'
  <1>1. /\ pc = "acting" /\ todo # <<>> /\ next' = next + 1
        /\ UNCHANGED <<config, handler, stage, cause, error, chunk, mailbox, recordVars>>
        /\ \/ pc' = "actionOperating" /\ UNCHANGED <<todo, failed>>
           \/ todo' = Tail(todo) /\ failed' = TRUE /\ UNCHANGED pc
    BY DEF ActionReserves
  <1>2. /\ todo \in Seq(Action) /\ next \in 1 .. 3 * Stages + 1 /\ Stages \in Nat
        /\ next + Len(todo) <= 3 * Stages + 1
    BY <1>1 DEF TInv, TypeOK, Room
  <1>3. /\ Tail(todo) \in Seq(Action) /\ Len(todo) \in Nat \ {0}
        /\ Len(Tail(todo)) = Len(todo) - 1
    BY <1>1, <1>2, Fewer
  <1>4. next' \in 1 .. 3 * Stages + 1 /\ next' > 1
    BY <1>1, <1>2, <1>3
  <1> USE DEF recordVars
  <1>5. TypeOK'
    BY <1>1, <1>3, <1>4 DEF TInv, TypeOK
  <1>6. Mailed' /\ Placed'
    BY <1>1 DEF TInv, Mailed, InTransit, Stored, StoredTo, Placed, Working, Final, Ended
  <1>7. Room'
    BY <1>1, <1>2, <1>3, <1>4 DEF Room
  <1>8. Filled' /\ Called'
    BY <1>1 DEF TInv, Filled, StoredTo, Called, Stored
  <1> QED
    BY <1>5, <1>6, <1>7, <1>8 DEF TInv

LEMMA ActionOperatesTyped ==
    ASSUME TInv, ActionOperates
    PROVE  TInv'
  <1>1. /\ pc = "actionOperating" /\ mailbox = <<>>
        /\ UNCHANGED <<config, handler, stage, next, cause, error, chunk, recordVars>>
    BY DEF ActionOperates, Acked
  <1>2. /\ todo \in Seq(Action) /\ todo # <<>> /\ next \in 1 .. 3 * Stages + 1 /\ Stages \in Nat
        /\ next > 1 /\ next - 1 + Len(todo) <= 3 * Stages + 1 /\ handler \in {"on", "closing"}
        /\ config.terminal /\ cause \in {"success", "failure", "cancel"} /\ failed \in BOOLEAN
        /\ cause = "success" /\ config.large => Stored
        /\ cause = "failure" => error \in Causes
    BY <1>1 DEF TInv, TypeOK, Room, Placed, Called
  <1>3. /\ Head(todo) \in Action /\ Tail(todo) \in Seq(Action) /\ Len(todo) \in Nat \ {0}
        /\ Len(Tail(todo)) = Len(todo) - 1
    BY <1>2, Fewer
  <1>4. ASSUME NEW status \in {"STARTED", "PENDING", "SUCCEEDED", "FAILED"},
               Write(OpUpdate(next - 1, Head(todo), status)), UNCHANGED <<pc, todo, failed>>
        PROVE  TInv'
    <2>1. next - 1 \in Position /\ Head(todo) \in Operation
      BY <1>2, <1>3 DEF Position, Operation
    <2>2. OpUpdate(next - 1, Head(todo), status) \in OpUpdates
      BY <2>1, OpUpdateIs DEF Final
    <2>3. mailbox' = <<OpUpdate(next - 1, Head(todo), status)>>
      BY <1>1, <1>4, Sends
    <2> QED
      BY <1>1, <1>4, <2>2, <2>3, Operating DEF Taken
  <1>5. CASE pc' = "paused" /\ UNCHANGED <<todo, failed, mailbox>>
    <2> USE <1>1, <1>2, <1>5 DEF recordVars
    <2>1. TypeOK' /\ Mailed' /\ Placed'
      BY DEF TInv, TypeOK, Mailed, InTransit, Placed, Working, Final, Ended
    <2>2. Room' /\ Filled' /\ Called'
      BY DEF TInv, Room, Filled, StoredTo, Called, Stored
    <2> QED
      BY <2>1, <2>2 DEF TInv
  <1>6. CASE pc' = "acting" /\ todo' = Tail(todo) /\ failed' \in BOOLEAN /\ UNCHANGED mailbox
    <2>1. next' + Len(todo') <= 3 * Stages + 1 /\ todo' \in Seq(Action)
      BY <1>1, <1>2, <1>3, <1>6
    <2> QED
      BY <1>1, <1>2, <1>6, <2>1, Acting DEF Taken
  <1>7. CASE pc' = "acting" /\ todo' = Tail(todo) /\ UNCHANGED mailbox
             /\ failed' = (failed \/ ops[next - 1].status = "FAILED")
    BY <1>6, <1>7
  <1> QED
    BY <1>4, <1>5, <1>7 DEF ActionOperates

LEMMA ActionsEndTyped ==
    ASSUME TInv, ActionsEnd
    PROVE  TInv'
  <1>1. /\ pc = "acting" /\ todo = <<>>
        /\ UNCHANGED <<config, handler, stage, next, todo, cause, failed, chunk, recordVars>>
    BY DEF ActionsEnd
  <1>2. /\ scope.status = "STARTED" /\ handler \in {"on", "closing"}
        /\ next \in 1 .. 3 * Stages + 1 /\ failed \in BOOLEAN
        /\ cause \in {"success", "failure", "cancel"}
        /\ cause = "success" /\ config.large => Stored
        /\ cause = "failure" => error \in Causes
        /\ cause # "cancel" => mailbox = <<>>
    BY <1>1 DEF TInv, TypeOK, Placed, Working, Called
  <1>3. CASE cause # "cancel"
    <2>1. PICK status, why :
             /\ Settle(status, why)
             /\ \/ status = "FAILED" /\ why \in Causes
                \/ status = "SUCCEEDED" /\ why = "value" /\ cause = "success"
      BY <1>2, <1>3 DEF ActionsEnd, Causes
    <2>2. pc' = "committing" /\ mailbox' = <<ScopeUpdate(status, why)>>
      BY <1>2, <1>3, <2>1, Sends DEF Settle
    <2>3. ScopeUpdate(status, why) \in Verdicts /\ ScopeUpdate(status, why).status = status
      BY <2>1, VerdictIs
    <2> QED
      BY <1>1, <1>2, <1>3, <2>1, <2>2, <2>3, Committing DEF Taken
  <1>4. CASE cause = "cancel"
    <2> USE <1>1, <1>2, <1>4 DEF recordVars
    <2>1. pc' = "cancelled" /\ UNCHANGED <<error, mailbox>>
      BY DEF ActionsEnd
    <2>2. TypeOK' /\ Placed'
      BY <2>1 DEF TInv, TypeOK, Placed, Working, Final, Ended
    <2>3. Mailed'
      BY <2>1 DEF TInv, Mailed, InTransit, Stored, StoredTo
    <2>4. Room' /\ Filled' /\ Called'
      BY <2>1 DEF TInv, Room, Filled, StoredTo, Called, Stored
    <2> QED
      BY <2>2, <2>3, <2>4 DEF TInv
  <1> QED
    BY <1>3, <1>4

\* The verdict of a permanent error waits behind the update of its action.
LEMMA InterruptForGoodTyped ==
    ASSUME TInv, InterruptForGood
    PROVE  TInv'
  <1>1. /\ pc = "actionOperating" /\ pc' = "committing" /\ Write(Permanent)
        /\ UNCHANGED <<config, handler, stage, next, todo, cause, failed, chunk, recordVars>>
    BY DEF InterruptForGood, Settle, Permanent
  <1>2. /\ scope.status = "STARTED" /\ handler \in {"on", "closing"}
        /\ next \in 1 .. 3 * Stages + 1 /\ failed \in BOOLEAN
        /\ cause \in {None, "success", "failure", "cancel"}
    BY <1>1 DEF TInv, TypeOK, Placed, Working
  <1>3. CASE mailbox = <<>>
    <2>1. mailbox' = <<Permanent>>
      BY <1>1, <1>3, Sends
    <2>2. Permanent \in Verdicts /\ Permanent.status # "SUCCEEDED"
      BY VerdictIs DEF Permanent
    <2> QED
      BY <1>1, <1>2, <1>3, <2>1, <2>2, Committing DEF Taken
  <1>4. CASE mailbox # <<>>
    <2> USE <1>1, <1>2 DEF recordVars
    <2>1. PICK u \in OpUpdates : mailbox = <<u>>
      BY <1>4 DEF TInv, Mailed, InTransit
    <2>2. mailbox' = <<u, Permanent>> /\ mailbox' # <<>>
      BY <2>1, SendsBehind
    <2>3. TypeOK' /\ Placed'
      BY <2>2 DEF TInv, TypeOK, Placed, Working, Final, Ended
    <2>4. Mailed'
      BY <2>2 DEF Mailed
    <2>5. Room' /\ Filled' /\ Called'
      BY DEF TInv, Room, Filled, StoredTo, Called, Stored
    <2> QED
      BY <2>3, <2>4, <2>5 DEF TInv
  <1> QED
    BY <1>3, <1>4

\* A cancellation, of the scope or of the whole invocation.
LEMMA CancelTyped ==
    ASSUME TInv, CancelTask, handler = "on", handler' \in {"on", "closing"},
           UNCHANGED <<config, stage, next, error, chunk, mailbox, recordVars>>
    PROVE  TInv'
  <1>1. CASE pc \in {"body", "operating"} /\ config.terminal
    <2>1. Run(config.policy, "cancel") /\ config.policy \in SUBSET Phases
      BY <1>1 DEF CancelTask, TInv, TypeOK, Config
    <2>2. /\ pc' = "acting" /\ cause' = "cancel" /\ failed' = FALSE
          /\ todo' \in Seq(Action) /\ Len(todo') \in Nat /\ Len(todo') <= 2 * (stage - 1)
      BY <2>1, RunIs DEF TInv
    <2>3. next \in 1 .. 3 * Stages + 1 /\ next + 2 * (stage - 1) <= 3 * Stages + 1
      BY <1>1 DEF TInv, Room, TypeOK
    <2>4. next' + Len(todo') <= 3 * Stages + 1
      BY <2>2, <2>3, SMTT(30) DEF TInv, TypeOK
    <2> QED
      BY <1>1, <2>2, <2>3, <2>4, Acting DEF Taken
  <1>2. CASE ~(pc \in {"body", "operating"} /\ config.terminal)
    <2> USE DEF recordVars
    <2>1. pc' = (IF pc \in Ended THEN pc ELSE "cancelled") /\ UNCHANGED <<todo, cause, failed>>
      BY <1>2 DEF CancelTask
    <2>2. pc # "off"
      BY DEF TInv, Placed
    <2>3. TypeOK' /\ Placed'
      BY <2>1, <2>2 DEF TInv, TypeOK, Placed, Working, Final, Ended
    <2>4. Mailed'
      BY <2>1 DEF TInv, Mailed, InTransit, Stored, StoredTo, Ended
    <2>5. Room' /\ Filled' /\ Called'
      BY <2>1 DEF TInv, Room, Filled, StoredTo, Called, Stored, Ended
    <2> QED
      BY <2>3, <2>4, <2>5 DEF TInv
  <1> QED
    BY <1>1, <1>2

\* The task goes on, ends or is started, with the journal as it is.
LEMMA OtherTyped ==
    ASSUME TInv, Started \/ VerdictAcked \/ Interrupt \/ Leave
    PROVE  TInv'
  <1> USE DEF taskVars, recordVars, budgetVars
  <1>1. CASE Started
    <2> USE <1>1 DEF Started, Acked
    <2>1. TypeOK' /\ Mailed' /\ Placed'
      BY DEF TInv, TypeOK, Mailed, InTransit, Placed, Working, Final, Ended
    <2>2. Room' /\ Filled' /\ Called'
      BY DEF TInv, Room, Filled, StoredTo, Called, Stored
    <2> QED
      BY <2>1, <2>2 DEF TInv
  <1>2. CASE VerdictAcked
    <2> USE <1>2 DEF VerdictAcked, Acked
    <2>1. TypeOK' /\ Mailed' /\ Placed'
      BY DEF TInv, TypeOK, Mailed, InTransit, Placed, Working, Final, Ended
    <2>2. Room' /\ Filled' /\ Called'
      BY DEF TInv, Room, Filled, StoredTo, Called, Stored
    <2> QED
      BY <2>1, <2>2 DEF TInv
  <1>3. CASE Interrupt
    <2> USE <1>3 DEF Interrupt
    <2>1. TypeOK' /\ Mailed' /\ Placed'
      BY DEF TInv, TypeOK, Mailed, InTransit, Placed, Working, Final, Ended, Stored, StoredTo
    <2>2. Room' /\ Filled' /\ Called'
      BY DEF TInv, Room, Filled, StoredTo, Called, Stored
    <2> QED
      BY <2>1, <2>2 DEF TInv
  <1>4. CASE Leave
    <2> USE <1>4 DEF Leave, Acked
    <2>1. TypeOK' /\ Mailed' /\ Placed'
      BY DEF TInv, TypeOK, Mailed, InTransit, Placed, Working, Final, Ended
    <2>2. Room' /\ Filled' /\ Called'
      BY DEF TInv, Room, Filled, StoredTo, Called, Stored, Ended
    <2> QED
      BY <2>1, <2>2 DEF TInv
  <1> QED
    BY <1>1, <1>2, <1>3, <1>4

\* The process dies.
LEMMA CrashTyped ==
    ASSUME TInv, Crash
    PROVE  TInv'
  <1> USE DEF Crash, recordVars
  <1>1. TypeOK' /\ Mailed' /\ Placed'
    BY DEF TInv, TypeOK, Mailed, InTransit, Placed, Working, Final, Ended
  <1>2. Room' /\ Filled' /\ Called'
    BY DEF TInv, Room, Filled, StoredTo, Called, Stored
  <1> QED
    BY <1>1, <1>2 DEF TInv

\* Time passes between two invocations.
LEMMA ElapseTyped ==
    ASSUME TInv, NEW p \in Position, Elapse(p)
    PROVE  TInv'
  <1> USE DEF taskVars, budgetVars
  <1>1. /\ handler = "off" /\ UNCHANGED <<config, handler, taskVars, mailbox, scope, chunks>>
        /\ ops[p].status # "none"
        /\ \E status \in Final \cup {"READY"} : ops' = [ops EXCEPT ![p].status = status]
    BY DEF Elapse, Final
  <1>2. /\ ops \in [Position -> [what : Operation, status : {"STARTED", "PENDING", "READY"} \cup Final]
                                  \cup {NoRecord}]
        /\ ops[p] # NoRecord
    BY <1>1 DEF TInv, TypeOK, NoRecord
  <1>3. ops' \in [Position -> [what : Operation, status : {"STARTED", "PENDING", "READY"} \cup Final]
                                  \cup {NoRecord}]
    BY <1>1, <1>2
  <1>4. TypeOK' /\ Placed'
    BY <1>1, <1>3 DEF TInv, TypeOK, Placed, Working, Final, Ended
  <1>5. Mailed'
    BY <1>1 DEF TInv, Placed, Mailed
  <1>6. Room' /\ Filled' /\ Called'
    BY <1>1 DEF TInv, Room, Filled, StoredTo, Called, Stored
  <1> QED
    BY <1>4, <1>5, <1>6 DEF TInv

\* An invocation reaches the scope.
LEMMA InvokeTyped ==
    ASSUME TInv, Invoke
    PROVE  TInv'
  <1>1. /\ handler = "off" /\ handler' = "on" /\ stage' = 1 /\ next' = 1 /\ todo' = <<>>
        /\ cause' = None /\ failed' = FALSE /\ chunk' = 1 /\ UNCHANGED <<config, recordVars>>
        /\ scope.status = "none" => Write(Starting)
        /\ scope.status # "none" => mailbox' = mailbox
    BY DEF Invoke, Starting
  <1>2. /\ scope.status = "SUCCEEDED" => pc' = "done"
        /\ scope.status = "FAILED" => pc' = "raised"
        /\ scope.status = "STARTED" => pc' = "body"
        /\ scope.status = "none" => pc' = "starting"
    BY DEF Invoke
  <1>3. mailbox = <<>> /\ scope.status \in {"none", "STARTED"} \cup Final
        /\ Stages \in Nat \ {0} /\ Chunks \in Nat \ {0}
    BY <1>1 DEF TInv, Placed, TypeOK, Final
  <1>4. /\ scope.status = "none" => mailbox' = <<Starting>> /\ mailbox' # <<>>
        /\ scope.status # "none" => mailbox' = <<>>
    BY <1>1, <1>3, Sends
  <1>5. todo' \in Seq(Action)
    BY <1>1
  <1> USE DEF recordVars
  <1>6. TypeOK'
    <2>1. 1 \in 1 .. Stages + 1 /\ 1 \in 1 .. 3 * Stages + 1 /\ 1 \in 1 .. Chunks + 1
      BY <1>3
    <2>2. pc' \in {"done", "raised", "body", "starting"}
      BY <1>2, <1>3 DEF Final
    <2> QED
      BY <1>1, <1>5, <2>1, <2>2 DEF TInv, TypeOK, Ended
  <1>7. Mailed'
    BY <1>1, <1>2, <1>3, <1>4 DEF Mailed, InTransit
  <1>8. Placed'
    BY <1>1, <1>2, <1>3, <1>4 DEF Placed, Working, Final, Ended
  <1>9. Room'
    BY <1>1, <1>2, <1>3 DEF Room, Final
  <1>10. Filled' /\ Called'
    BY <1>1, <1>2, <1>3 DEF TInv, Filled, StoredTo, Called, Stored, Final
  <1> QED
    BY <1>6, <1>7, <1>8, <1>9, <1>10 DEF TInv

\* The service applies an update.
LEMMA ApplyIs ==
    ASSUME TInv, Apply, NEW u, mailbox # <<>>, Head(mailbox) = u
    PROVE  /\ scope' = IF u.table = "scope" THEN [status |-> u.status, why |-> u.why] ELSE scope
           /\ ops' = IF u.table = "ops"
                     THEN [ops EXCEPT ![u.at] = [what |-> u.what, status |-> u.status]] ELSE ops
           /\ chunks' = IF u.table = "chunks" THEN [chunks EXCEPT ![u.at] = u.status] ELSE chunks
           /\ mailbox' = Tail(mailbox)
           /\ UNCHANGED <<config, handler, taskVars, budgetVars>>
  BY DEF Apply

LEMMA ApplyTyped ==
    ASSUME TInv, Apply
    PROVE  TInv'
  <1> USE DEF taskVars
  <1>1. mailbox # <<>> /\ handler # "off" /\ handler # "over"
    BY DEF Apply, TInv, Placed
  <1>2. ASSUME mailbox = <<Starting>>, InTransit(Starting) PROVE TInv'
    <2>1. /\ scope' = [status |-> "STARTED", why |-> None] /\ mailbox' = <<>>
          /\ UNCHANGED <<config, handler, taskVars, ops, chunks>>
      BY <1>1, <1>2, ApplyIs, Receives, UpdatesDiffer
    <2>2. scope.status = "none" /\ pc \in {"starting", "cancelled"}
      BY <1>2, UpdatesDiffer DEF InTransit
    <2>3. TypeOK' /\ Mailed' /\ Placed'
      BY <1>1, <2>1, <2>2 DEF TInv, TypeOK, Mailed, Placed, Working, Final, Ended
    <2>4. Room' /\ Filled' /\ Called'
      BY <2>1, <2>2 DEF TInv, Room, Filled, StoredTo, Called, Stored
    <2> QED
      BY <2>3, <2>4 DEF TInv
  <1>3. ASSUME NEW v \in Verdicts, mailbox = <<v>>, InTransit(v) PROVE TInv'
    <2>1. /\ scope' = [status |-> v.status, why |-> v.why] /\ mailbox' = <<>>
          /\ UNCHANGED <<config, handler, taskVars, ops, chunks>>
      BY <1>1, <1>3, ApplyIs, Receives, VerdictIs
    <2>2. scope.status = "STARTED" /\ pc \in {"committing", "cancelled"}
          /\ (v.status = "SUCCEEDED" /\ config.large => Stored)
      BY <1>3, UpdatesDiffer DEF InTransit
    <2>3. scope' \in [status : {"SUCCEEDED"}, why : {"value"}] \cup [status : {"FAILED"}, why : Causes]
          /\ scope'.status = v.status /\ v.status \in Final
      BY <2>1, VerdictIs DEF Final
    <2>4. TypeOK' /\ Mailed' /\ Placed'
      BY <1>1, <2>1, <2>2, <2>3 DEF TInv, TypeOK, Mailed, Placed, Working, Final, Ended
    <2>5. Room' /\ Filled' /\ Called'
      BY <2>1, <2>2, <2>3 DEF TInv, Room, Filled, StoredTo, Called, Stored
    <2> QED
      BY <2>4, <2>5 DEF TInv
  <1>4. ASSUME NEW u \in ChunkUpdates, mailbox = <<u>>, InTransit(u) PROVE TInv'
    <2>1. /\ chunks' = [chunks EXCEPT ![u.at] = u.status] /\ mailbox' = <<>>
          /\ UNCHANGED <<config, handler, taskVars, ops, scope>>
      BY <1>1, <1>4, ApplyIs, Receives, UpdatesDiffer
    <2>2. /\ scope.status = "STARTED" /\ pc \in {"chunkStarting", "chunkEnding", "cancelled"}
          /\ StoredTo(u.at) /\ u.at \in 1 .. Chunks /\ u.status \in {"STARTED", "SUCCEEDED"}
      BY <1>4, UpdatesDiffer DEF InTransit, ChunkUpdates
    <2>3. /\ pc = "chunkStarting" => u.at = chunk /\ u.status = "STARTED"
          /\ pc = "chunkEnding" => u.at = chunk /\ u.status = "SUCCEEDED"
      BY <1>1, <1>4, ChunkUpdateIs, SMTT(30) DEF TInv, Filled, TypeOK
    <2>4. chunks \in [1 .. Chunks -> {"none", "STARTED", "SUCCEEDED"}] /\ Chunks \in Nat
      BY DEF TInv, TypeOK
    <2>5. TypeOK' /\ Mailed' /\ Placed'
      BY <1>1, <2>1, <2>2, <2>4 DEF TInv, TypeOK, Mailed, Placed, Working, Final, Ended
    <2>6. Room' /\ Called'
      BY <2>1, <2>2 DEF TInv, Room, Called, Stored, Final
    <2>7. Filled'
      <3>1. /\ chunks'[u.at] = u.status
            /\ \A k \in 1 .. Chunks : k # u.at => chunks'[k] = chunks[k]
        BY <2>1, <2>2, <2>4
      <3>2. \A j \in 1 .. u.at - 1 : chunks[j] = "SUCCEEDED"
        BY <2>2 DEF StoredTo
      <3>3. \A j \in 1 .. Chunks : chunks[j] = "SUCCEEDED" => chunks'[j] = "SUCCEEDED"
        BY <1>4, <2>2, <3>1, UpdatesDiffer DEF InTransit
      <3>4. ASSUME NEW k \in 1 .. Chunks, chunks'[k] # "none" PROVE StoredTo(k)'
        BY <2>2, <2>4, <3>1, <3>2, <3>3, <3>4 DEF TInv, Filled, StoredTo
      <3>5. ASSUME pc \in {"chunkStarting", "chunkEnding"}
            PROVE  /\ chunk <= Chunks /\ StoredTo(chunk)'
                   /\ chunks'[chunk] = IF pc = "chunkStarting" THEN "STARTED" ELSE "SUCCEEDED"
        <4>1. u.at = chunk /\ u.status = IF pc = "chunkStarting" THEN "STARTED" ELSE "SUCCEEDED"
          BY <2>3, <3>5
        <4>2. \A j \in 1 .. chunk - 1 : chunks'[j] = "SUCCEEDED"
          BY <2>2, <2>4, <3>2, <3>3, <4>1
        <4>3. StoredTo(chunk)'
          BY <2>1, <4>2 DEF StoredTo
        <4> QED
          BY <2>2, <3>1, <4>1, <4>3
      <3> QED
        BY <2>1, <2>2, <3>4, <3>5 DEF Filled
    <2> QED
      BY <2>5, <2>6, <2>7 DEF TInv
  <1>5. ASSUME NEW u \in OpUpdates, scope.status = "STARTED",
               \/ mailbox = <<u>> /\ pc \in {"operating", "acting", "actionOperating",
                                             "interrupted", "cancelled"}
               \/ mailbox = <<u, Permanent>> /\ pc \in {"committing", "cancelled"}
        PROVE  TInv'
    <2>1. /\ ops' = [ops EXCEPT ![u.at] = [what |-> u.what, status |-> u.status]]
          /\ UNCHANGED <<config, handler, taskVars, scope, chunks>>
          /\ \/ mailbox = <<u>> /\ mailbox' = <<>>
             \/ mailbox = <<u, Permanent>> /\ mailbox' = <<Permanent>> /\ mailbox' # <<>>
                /\ pc \in {"committing", "cancelled"}
      <3>1. Head(mailbox) = u
        BY <1>5, Receives
      <3>2. /\ ops' = [ops EXCEPT ![u.at] = [what |-> u.what, status |-> u.status]]
            /\ UNCHANGED <<config, handler, taskVars, scope, chunks>>
            /\ mailbox' = Tail(mailbox)
        BY <1>1, <3>1, ApplyIs, UpdatesDiffer
      <3> QED
        BY <1>5, <3>2, Receives
    <2>2. [what |-> u.what, status |-> u.status]
             \in [what : Operation, status : {"STARTED", "PENDING", "READY"} \cup Final]
          /\ u.at \in Position
      BY DEF OpUpdates
    <2>3. TypeOK'
      BY <2>1, <2>2 DEF TInv, TypeOK
    <2>4. Mailed'
      BY <1>5, <2>1, VerdictIs DEF Mailed, InTransit, Permanent
    <2>5. Placed'
      BY <1>1, <1>5, <2>1 DEF TInv, Placed, Working, Final, Ended
    <2>6. Room' /\ Filled' /\ Called'
      BY <1>5, <2>1 DEF TInv, Room, Filled, StoredTo, Called, Stored
    <2> QED
      BY <2>3, <2>4, <2>5, <2>6 DEF TInv
  <1> QED
    BY <1>1, <1>2, <1>3, <1>4, <1>5, UpdatesDiffer DEF TInv, Mailed, InTransit

LEMMA TypedInit == Init => TInv
  <1> SUFFICES ASSUME Init PROVE TInv
    OBVIOUS
  <1> USE DEF Init
  <1>1. Stages \in Nat \ {0} /\ Chunks \in Nat \ {0} /\ config \in Config
    OBVIOUS
  <1>2. <<>> \in Seq(Action)
    OBVIOUS
  <1>3. 1 \in 1 .. Stages + 1 /\ 1 \in 1 .. 3 * Stages + 1 /\ 1 \in 1 .. Chunks + 1
    BY <1>1
  <1>4. TypeOK
    BY <1>1, <1>2, <1>3 DEF TypeOK, Ended
  <1>5. Mailed /\ Placed /\ Room
    BY DEF Mailed, Placed, Working, Final, Ended, Room
  <1>6. Filled /\ Called
    BY DEF Filled, StoredTo, Called
  <1> QED
    BY <1>4, <1>5, <1>6 DEF TInv

LEMMA TypedNext == TInv /\ [Next]_vars => TInv'
  <1> SUFFICES ASSUME TInv, [Next]_vars PROVE TInv'
    OBVIOUS
  <1>1. CASE Next
    <2>1. CASE TaskStep
      BY <2>1, OtherTyped, BodyReservesTyped, BodyOperatesTyped, BodyReturnsTyped, StoreTyped,
         ChunkAckedTyped, ActionReservesTyped, ActionOperatesTyped, ActionsEndTyped DEF TaskStep
    <2>2. CASE Abandon
      BY <2>2, CancelTyped DEF Abandon
    <2>3. CASE Cut
      BY <2>3, CancelTyped DEF Cut
    <2> QED
      BY <1>1, <2>1, <2>2, <2>3, ApplyTyped, InvokeTyped, OtherTyped, InterruptForGoodTyped,
         CrashTyped, ElapseTyped DEF Next
  <1>2. CASE UNCHANGED vars
    <2> USE <1>2 DEF vars, taskVars, recordVars, budgetVars
    <2>1. TypeOK' /\ Mailed' /\ Placed'
      BY DEF TInv, TypeOK, Mailed, InTransit, Stored, StoredTo, Placed
    <2>2. Room' /\ Filled' /\ Called'
      BY DEF TInv, Room, Filled, StoredTo, Called, Stored
    <2> QED
      BY <2>1, <2>2 DEF TInv
  <1> QED
    BY <1>1, <1>2

\* Every variable of a scope keeps its type, whatever suspends, cancels,
\* interrupts or kills its invocations: in particular the cursor never leaves
\* the positions of the scope, and a verdict has its reason.
THEOREM TerminalTypeOK == Spec => []TypeOK
  <1>1. TInv => TypeOK
    BY DEF TInv
  <1> QED
    BY TypedInit, TypedNext, <1>1, PTL DEF Spec

\* The verdict of a large result is durable only behind all of its chunks, over
\* any number of invocations that store some of them and die (_journal.py, store
\* and restore).
THEOREM TerminalManifest == Spec => []ManifestIsWhole
  <1>1. TInv => ManifestIsWhole
    BY DEF TInv, Called, Stored, ManifestIsWhole
  <1> QED
    BY TypedInit, TypedNext, <1>1, PTL DEF Spec

----------------------------------------------------------------------------
(* The script of a scope                                                   *)

LEMMA Shape ==
    ASSUME TypeOK
    PROVE  /\ End \in 1 .. Stages + 1 /\ Stages \in Nat \ {0}
           /\ End <= FailsAt /\ End <= AbandonAt /\ End \in {FailsAt, AbandonAt}
           /\ FailsAt \in 1 .. Stages + 1 /\ AbandonAt \in 1 .. Stages + 1
           /\ Script \in SUBSET Phases
           /\ Undo = (IF "COMPENSATION" \in Script THEN End - 1 ELSE 0)
           /\ Clean = (IF "CLEANUP" \in Script THEN End - 1 ELSE 0)
           /\ Undo \in Nat /\ Clean \in Nat /\ Finish = End - 1 + Undo + Clean
           /\ Finish \in Nat /\ End <= Finish + 1 /\ Finish <= 3 * Stages
  <1>1. Stages \in Nat \ {0} /\ config \in Config /\ None \notin Nat
    BY DEF TypeOK
  <1>2. config.failsAt \in 1 .. Stages \cup {None} /\ config.abandon \in 1 .. Stages \cup {None}
        /\ config.policy \in SUBSET Phases
    BY <1>1 DEF Config, Stage
  <1>3. FailsAt \in 1 .. Stages + 1 /\ AbandonAt \in 1 .. Stages + 1
    BY <1>1, <1>2 DEF FailsAt, AbandonAt
  <1>4. End \in 1 .. Stages + 1 /\ End <= FailsAt /\ End <= AbandonAt /\ End \in {FailsAt, AbandonAt}
    BY <1>1, <1>3 DEF End
  <1>5. Script \in SUBSET Phases
    BY <1>2 DEF Script, Phases
  <1>6. Undo \in Nat /\ Clean \in Nat /\ Undo <= End - 1 /\ Clean <= End - 1
    BY <1>1, <1>4 DEF Undo, Clean
  <1>7. Finish \in Nat /\ End <= Finish + 1 /\ Finish <= 3 * Stages
    BY <1>1, <1>4, <1>6 DEF Finish
  <1> QED
    BY <1>1, <1>3, <1>4, <1>5, <1>6, <1>7 DEF Undo, Clean, Finish

\* The body of an invocation that has got to its last stage.
LEMMA AtTheEnd ==
    ASSUME TypeOK, End = Stages + 1
    PROVE  ~Abandoned /\ ~(FailsAt <= Stages)
  BY Shape DEF Abandoned

LEMMA SameScript ==
    ASSUME UNCHANGED <<config, chunks>>
    PROVE  /\ End' = End /\ Script' = Script /\ Undo' = Undo /\ Finish' = Finish
           /\ Abandoned' <=> Abandoned
           /\ Failing' <=> Failing
           /\ Fixed' <=> Fixed
           /\ \A p : Line(p)' = Line(p)
  <1>1. FailsAt' = FailsAt /\ AbandonAt' = AbandonAt /\ (Broken' <=> Broken) /\ (Stored' <=> Stored)
    BY DEF FailsAt, AbandonAt, Broken, Stored
  <1>2. End' = End /\ (Abandoned' <=> Abandoned) /\ (Failing' <=> Failing)
    BY <1>1 DEF End, Abandoned, Failing
  <1>3. Script' = Script /\ (Fixed' <=> Fixed)
    BY <1>1, <1>2 DEF Script, Fixed
  <1>4. Undo' = Undo /\ Clean' = Clean
    BY <1>2, <1>3 DEF Undo, Clean
  <1>5. Finish' = Finish
    BY <1>2, <1>4 DEF Finish
  <1>6. \A p : Line(p)' = Line(p)
    BY <1>2, <1>4 DEF Line
  <1> QED
    BY <1>2, <1>3, <1>4, <1>5, <1>6

\* The actions are those of the script, in the order of its positions.
LEMMA ScriptIs ==
    ASSUME TypeOK, stage = End
    PROVE  /\ Len(Program(Script)) = Finish - End + 1
           /\ \A i \in 1 .. Finish - End + 1 : Program(Script)[i] = Line(End + i - 1)
  <1>1. /\ End \in 1 .. Stages + 1 /\ Stages \in Nat /\ Undo \in Nat /\ Clean \in Nat
        /\ Script \in SUBSET Phases /\ Finish = End - 1 + Undo + Clean
    BY Shape
  <1>2. /\ Len(Program(Script)) = Undo + Clean
        /\ \A i \in 1 .. Undo + Clean :
              Program(Script)[i] = IF i <= Undo THEN <<"COMPENSATION", stage - i>>
                                   ELSE <<"CLEANUP", stage + Undo - i>>
    <2>1. Undo = (IF "COMPENSATION" \in Script THEN stage - 1 ELSE 0)
      BY DEF Undo
    <2>2. Clean = (IF "CLEANUP" \in Script THEN stage - 1 ELSE 0)
      BY DEF Clean
    <2>3. stage \in 1 .. Stages + 1
      BY <1>1
    <2> DEFINE P == Script  a == Undo  c == Clean
    <2> HIDE DEF P, a, c
    <2>4. /\ P \in SUBSET Phases /\ a \in Nat /\ c \in Nat
          /\ a = (IF "COMPENSATION" \in P THEN stage - 1 ELSE 0)
          /\ c = (IF "CLEANUP" \in P THEN stage - 1 ELSE 0)
      BY <1>1, <2>1, <2>2 DEF P, a, c
    <2>5. /\ Len(Program(P)) = a + c
          /\ \A i \in 1 .. a + c :
                Program(P)[i] = IF i <= a THEN <<"COMPENSATION", stage - i>>
                                ELSE <<"CLEANUP", stage + a - i>>
      BY ONLY <2>3, <2>4, ProgramIs, ZenonT(60)
    <2> QED
      BY <2>5 DEF P, a, c
  <1>3. Finish - End + 1 = Undo + Clean
    BY <1>1
  <1>4. ASSUME NEW i \in 1 .. Undo + Clean
        PROVE  Line(End + i - 1) = IF i <= Undo THEN <<"COMPENSATION", stage - i>>
                                   ELSE <<"CLEANUP", stage + Undo - i>>
    <2> DEFINE n == End + i - 1
    <2>1. /\ ~(n < End) /\ (n < End + Undo <=> i <= Undo)
          /\ 2 * End - 1 - n = stage - i
          /\ 2 * End + Undo - 1 - n = stage + Undo - i
      BY <1>1
    <2> HIDE DEF n
    <2>2. Line(n) = IF n < End + Undo THEN <<"COMPENSATION", 2 * End - 1 - n>>
                    ELSE <<"CLEANUP", 2 * End + Undo - 1 - n>>
      BY <2>1 DEF Line
    <2>3. Line(n) = IF i <= Undo THEN <<"COMPENSATION", stage - i>>
                    ELSE <<"CLEANUP", stage + Undo - i>>
      BY <2>1, <2>2, Zenon
    <2> QED
      BY <2>3 DEF n
  <1> QED
    BY <1>2, <1>3, <1>4

\* As long as the records and the journal stand, so does what is said of them.
LEMMA RecordsStand ==
    ASSUME SInv, UNCHANGED <<config, mailbox, recordVars>>
    PROVE  Recorded' /\ Updated' /\ Settles'
  <1> USE SameScript DEF recordVars
  <1>1. \A n : Done(n)' <=> Done(n)
    BY DEF Done
  <1>2. Recorded' /\ Updated'
    BY <1>1 DEF SInv, Recorded, Updated
  <1>3. \A status, why : Backed(status, why)' <=> Backed(status, why)
    BY <1>1 DEF Backed
  <1>4. Settles'
    BY <1>3 DEF SInv, Settles
  <1> QED
    BY <1>2, <1>4

\* The task submits an update of the operation of its position.
LEMMA UpdateStands ==
    ASSUME SInv, UNCHANGED <<config, recordVars>>, NEW u \in OpUpdates, mailbox' = <<u>>,
           u.at <= Finish, u.what = Line(u.at), Done(u.at - 1), ops[u.at].status \notin Final,
           u.at < End => u.status \in {"STARTED", "SUCCEEDED"}, u.at >= End => Fixed
    PROVE  Recorded' /\ Updated' /\ Settles'
  <1> USE SameScript DEF recordVars
  <1>1. \A n : Done(n)' <=> Done(n)
    BY DEF Done
  <1>2. Recorded'
    BY <1>1 DEF SInv, Recorded
  <1>3. mailbox'[1] = u /\ mailbox' # <<>>
    OBVIOUS
  <1>4. Updated'
    BY <1>1, <1>3, UpdatesDiffer DEF Updated
  <1>5. \A status, why : Backed(status, why)' <=> Backed(status, why)
    BY <1>1 DEF Backed
  <1>6. \A v \in Verdicts : mailbox' # <<v>>
    BY <1>3, UpdatesDiffer
  <1>7. Verdicts' = Verdicts
    BY DEF Verdicts, ScopeUpdate
  <1>8. Settles'
    BY <1>5, <1>6, <1>7 DEF SInv, Settles
  <1> QED
    BY <1>2, <1>4, <1>8

\* The task submits a verdict.
LEMMA VerdictStands ==
    ASSUME SInv, UNCHANGED <<config, recordVars>>, NEW v \in Verdicts, mailbox' = <<v>>,
           Backed(v.status, v.why)
    PROVE  Recorded' /\ Updated' /\ Settles'
  <1> USE SameScript DEF recordVars
  <1>1. \A n : Done(n)' <=> Done(n)
    BY DEF Done
  <1>2. Recorded'
    BY <1>1 DEF SInv, Recorded
  <1>3. mailbox'[1] = v /\ mailbox' # <<>>
    OBVIOUS
  <1>4. v \notin OpUpdates /\ v \notin ChunkUpdates
    BY UpdatesDiffer
  <1>5. Updated'
    BY <1>3, <1>4 DEF Updated, OpUpdates, ChunkUpdates
  <1>6. \A status, why : Backed(status, why)' <=> Backed(status, why)
    BY <1>1 DEF Backed
  <1>7. Verdicts' = Verdicts
    BY DEF Verdicts, ScopeUpdate
  <1>8. \A w : mailbox' = <<w>> => w = v
    BY <1>3
  <1>9. Settles'
    BY <1>6, <1>7, <1>8 DEF SInv, Settles
  <1> QED
    BY <1>2, <1>5, <1>9

----------------------------------------------------------------------------
(* What a scope keeps that no suspension disturbs                          *)

\* The scope comes to its actions.
LEMMA RunFollows ==
    ASSUME TInv, SInv, UNCHANGED <<config, recordVars, mailbox, stage, handler>>, mailbox = <<>>,
           NEW why \in {"success", "failure", "cancel"}, Run(Script, why),
           stage = End, next' = End, Done(End - 1), Fixed,
           IF why = "cancel" THEN Abandoned ELSE ~Abandoned /\ (why = "failure" <=> Failing)
    PROVE  SInv'
  <1> USE SameScript DEF recordVars
  <1>1. TypeOK /\ End \in Nat /\ Finish \in Nat
    BY Shape DEF TInv
  <1>2. pc' = "acting" /\ cause' = why /\ failed' = FALSE /\ todo' = Program(Script)
    BY DEF Run
  <1>3. /\ Len(todo') = Finish - End + 1
        /\ \A i \in 1 .. Finish - End + 1 : todo'[i] = Line(End + i - 1)
    BY <1>1, <1>2, ScriptIs
  <1>4. Done(End - 1)'
    BY DEF Done
  <1>5. ~ \E q \in End .. End - 1 : TRUE
    BY <1>1
  <1>6. At(next)'
    BY <1>1, <1>2, <1>3, <1>4, <1>5, SMTT(30) DEF At
  <1>7. Follows'
    BY <1>2, <1>6 DEF Follows
  <1> QED
    BY <1>7, RecordsStand DEF SInv

\* The scope fails for what its body is.
LEMMA FailFollows ==
    ASSUME TInv, SInv, UNCHANGED <<config, recordVars, stage, handler>>, mailbox = <<>>,
           NEW why \in Causes, Fail(why),
           stage = End, next' = End, Done(End - 1), Fixed, ~Abandoned, Failing
    PROVE  SInv'
  <1>1. CASE config.terminal
    <2>1. Script = Phases
      BY <1>1 DEF Script
    <2>2. Run(Script, "failure") /\ UNCHANGED mailbox
      BY <1>1, <2>1 DEF Fail
    <2> QED
      BY <2>2, RunFollows
  <1>2. CASE ~config.terminal
    <2>1. pc' = "committing" /\ Write(ScopeUpdate("FAILED", why))
      BY <1>2 DEF Fail, Settle
    <2>2. mailbox' = <<ScopeUpdate("FAILED", why)>> /\ ScopeUpdate("FAILED", why) \in Verdicts
      BY <2>1, Sends, VerdictIs
    <2>3. \A status, reason : Backed(status, reason)
      BY <1>2 DEF Backed
    <2>4. Follows'
      BY <2>1 DEF Follows
    <2> QED
      BY <2>2, <2>3, <2>4, VerdictStands DEF SInv
  <1> QED
    BY <1>1, <1>2

LEMMA PreparedFollows ==
    ASSUME TInv, SInv, UNCHANGED <<config, recordVars, stage, handler>>, mailbox = <<>>, Prepared,
           stage = End, next' = End, Done(End - 1), Fixed, ~Abandoned, ~Failing
    PROVE  SInv'
  <1>1. CASE config.terminal
    <2>1. Script = {"CLEANUP"}
      BY <1>1 DEF Script
    <2>2. Run(Script, "success") /\ UNCHANGED mailbox
      BY <1>1, <2>1 DEF Prepared
    <2> QED
      BY <2>2, RunFollows
  <1>2. CASE ~config.terminal
    <2>1. pc' = "committing" /\ Write(ScopeUpdate("SUCCEEDED", "value"))
      BY <1>2 DEF Prepared, Settle
    <2>2. /\ mailbox' = <<ScopeUpdate("SUCCEEDED", "value")>>
          /\ ScopeUpdate("SUCCEEDED", "value") \in Verdicts
      BY <2>1, Sends, VerdictIs
    <2>3. \A status, reason : Backed(status, reason)
      BY <1>2 DEF Backed
    <2>4. Follows'
      BY <2>1 DEF Follows
    <2> QED
      BY <2>2, <2>3, <2>4, VerdictStands DEF SInv
  <1> QED
    BY <1>1, <1>2

\* The operation of a position is the one that its record is of.
LEMMA SelectsIt ==
    ASSUME TInv, SInv, next \in Position
    PROVE  Selects(Line(next))
  <1>1. CASE ops[next].status = "none"
    <2>1. ops[next] = NoRecord
      BY <1>1 DEF TInv, TypeOK, Final
    <2> QED
      BY <2>1 DEF Selects, NoRecord
  <1>2. CASE ops[next].status # "none"
    BY <1>2 DEF SInv, Recorded, Selects
  <1> QED
    BY <1>1, <1>2

\* The body has come to a stage at which it does not end.
LEMMA Inside ==
    ASSUME TypeOK, stage \in 1 .. Stages, stage <= End,
           stage # config.failsAt, stage # config.abandon
    PROVE  stage < End
  <1>1. Stages \in Nat /\ End \in {FailsAt, AbandonAt}
    BY Shape
  <1>2. FailsAt = stage => config.failsAt = stage
    BY <1>1 DEF FailsAt
  <1>3. AbandonAt = stage => config.abandon = stage
    BY <1>1 DEF AbandonAt
  <1> QED
    BY <1>1, <1>2, <1>3, Shape

LEMMA BodyReservesFollows ==
    ASSUME TInv, SInv, BodyReserves
    PROVE  SInv'
  <1>1. /\ pc = "body" /\ stage \in 1 .. Stages /\ stage # config.abandon
        /\ UNCHANGED <<config, handler, stage, chunk, recordVars>>
    BY DEF BodyReserves, Stage
  <1>2. TypeOK /\ mailbox = <<>> /\ Stages \in Nat /\ next = stage
    BY <1>1 DEF TInv, Placed, Room, TypeOK
  <1>3. stage <= End /\ Done(stage - 1)
    BY <1>1 DEF SInv, Follows
  <1>4. CASE stage = config.failsAt
    <2>1. Fail("body") /\ next' = next
      BY <1>1, <1>4 DEF BodyReserves
    <2>2. FailsAt = stage /\ FailsAt <= Stages
      BY <1>1, <1>2, <1>4 DEF FailsAt
    <2>3. stage = End
      BY <1>1, <1>2, <1>3, <2>2, Shape
    <2>4. AbandonAt # stage
      BY <1>1, <1>2 DEF AbandonAt
    <2>5. ~Abandoned
      BY <1>1, <1>2, <2>2, <2>3, <2>4, Shape DEF Abandoned
    <2>6. Failing /\ Fixed
      BY <1>2, <2>2, <2>3 DEF Failing, Fixed
    <2> QED
      BY <1>1, <1>2, <1>3, <2>1, <2>3, <2>5, <2>6, FailFollows DEF Causes
  <1>5. CASE stage # config.failsAt
    <2>1. stage < End
      BY <1>1, <1>2, <1>3, <1>5, Inside
    <2>2. next \in Position /\ Line(next) = <<"BODY", stage>>
      BY <1>1, <1>2, <2>1 DEF Position, Line
    <2>3. Selects(<<"BODY", stage>>)
      BY <2>2, SelectsIt
    <2>4. pc' = "operating" /\ UNCHANGED mailbox
      BY <1>5, <2>3 DEF BodyReserves
    <2>5. Done(stage - 1)'
      BY <1>1, <1>3 DEF Done, recordVars
    <2>6. Follows'
      BY <1>1, <1>2, <2>1, <2>4, <2>5, SameScript DEF Follows, recordVars
    <2> QED
      BY <1>1, <2>4, <2>6, RecordsStand DEF SInv
  <1> QED
    BY <1>4, <1>5

LEMMA BodyOperatesFollows ==
    ASSUME TInv, SInv, BodyOperates
    PROVE  SInv'
  <1>1. /\ pc = "operating" /\ mailbox = <<>>
        /\ UNCHANGED <<config, handler, next, todo, cause, failed, error, chunk, recordVars>>
    BY DEF BodyOperates, Acked
  <1>2. /\ TypeOK /\ Stages \in Nat /\ stage \in 1 .. Stages /\ next = stage + 1
        /\ End \in Nat /\ Finish \in Nat /\ End <= Finish + 1
    <2>1. Stages \in Nat /\ stage \in 1 .. Stages /\ next = stage + 1
      BY <1>1 DEF TInv, Room, TypeOK
    <2> QED
      BY <2>1, Shape DEF TInv
  <1>3. stage < End /\ Done(stage - 1)
    BY <1>1 DEF SInv, Follows
  <1>4. next - 1 = stage /\ stage \in Position /\ Line(stage) = <<"BODY", stage>> /\ stage <= Finish
    BY <1>2, <1>3 DEF Position, Line
  <1>5. ASSUME NEW status \in {"STARTED", "SUCCEEDED"}, ops[stage].status \notin Final,
               Write(OpUpdate(stage, <<"BODY", stage>>, status)), UNCHANGED <<pc, stage>>
        PROVE  SInv'
    <2> DEFINE u == OpUpdate(stage, <<"BODY", stage>>, status)
    <2>1. <<"BODY", stage>> \in Operation
      BY <1>2 DEF Operation, Stage
    <2>2. u \in OpUpdates /\ u.at = stage /\ u.what = <<"BODY", stage>> /\ u.status = status
      BY <1>4, <2>1, OpUpdateIs DEF Final
    <2>3. mailbox' = <<u>> /\ mailbox'[1] = u
      BY <1>1, <1>5, Sends
    <2> HIDE DEF u
    <2>4. Recorded' /\ Updated' /\ Settles'
      BY <1>1, <1>2, <1>3, <1>4, <1>5, <2>2, <2>3, UpdateStands
    <2>5. Done(stage - 1)'
      BY <1>1, <1>3, <1>5 DEF Done, recordVars
    <2>6. Follows'
      BY <1>1, <1>3, <1>5, <2>2, <2>3, <2>5, SameScript DEF Follows, recordVars
    <2> QED
      BY <2>4, <2>6 DEF SInv
  <1>6. CASE pc' = "paused" /\ UNCHANGED <<stage, mailbox>>
    BY <1>1, <1>6, RecordsStand DEF SInv, Follows
  <1>7. CASE ops[stage].status = "SUCCEEDED" /\ pc' = "body" /\ stage' = stage + 1 /\ UNCHANGED mailbox
    <2>1. stage' <= End /\ next' = stage' /\ stage' - 1 = stage
      BY <1>1, <1>2, <1>3, <1>7
    <2>2. Done(stage)
      BY <1>2, <1>3, <1>7 DEF Done, Final
    <2>3. Done(stage - 1)'
      BY <1>1, <2>1, <2>2 DEF Done, recordVars
    <2>4. Follows'
      BY <1>1, <1>7, <2>1, <2>3, SameScript DEF Follows, recordVars
    <2> QED
      BY <1>1, <1>7, <2>4, RecordsStand DEF SInv
  <1> QED
    BY <1>4, <1>5, <1>6, <1>7 DEF BodyOperates, Final

LEMMA BodyReturnsFollows ==
    ASSUME TInv, SInv, BodyReturns
    PROVE  SInv'
  <1>1. /\ pc = "body" /\ stage = Stages + 1
        /\ UNCHANGED <<config, handler, stage, next, chunk, recordVars>>
    BY DEF BodyReturns
  <1>2. TypeOK /\ mailbox = <<>> /\ next = stage
    BY <1>1 DEF TInv, Placed, Room
  <1>3. stage = End /\ Done(stage - 1)
    BY <1>1, <1>2, Shape, SMTT(30) DEF SInv, Follows
  <1>4. ~Abandoned /\ ~(FailsAt <= Stages)
    BY <1>1, <1>2, <1>3, AtTheEnd
  <1>5. CASE ~config.encodes /\ Fail("prepare")
    <2>1. Failing /\ Fixed
      BY <1>5 DEF Failing, Fixed
    <2> QED
      BY <1>1, <1>2, <1>3, <1>4, <1>5, <2>1, FailFollows DEF Causes
  <1>6. CASE config.encodes /\ config.large /\ pc' = "storing" /\ UNCHANGED mailbox
    <2>1. Done(stage - 1)'
      BY <1>1, <1>3 DEF Done, recordVars
    <2>2. Follows'
      BY <1>1, <1>2, <1>3, <1>6, <2>1, SameScript DEF Follows, recordVars
    <2> QED
      BY <1>1, <1>6, <2>2, RecordsStand DEF SInv
  <1>7. CASE config.encodes /\ ~config.large /\ Prepared
    <2>1. ~Failing /\ Fixed
      BY <1>4, <1>7 DEF Failing, Fixed
    <2> QED
      BY <1>1, <1>2, <1>3, <1>4, <1>7, <2>1, PreparedFollows
  <1> QED
    BY <1>5, <1>6, <1>7 DEF BodyReturns

\* The task submits an update of a chunk.
LEMMA ChunkStands ==
    ASSUME SInv, UNCHANGED <<config, recordVars>>, NEW u \in ChunkUpdates, mailbox' = <<u>>,
           \A p \in Position : p >= End => ops[p].status = "none"
    PROVE  Recorded' /\ Updated' /\ Settles'
  <1> USE SameScript DEF recordVars
  <1>1. \A n : Done(n)' <=> Done(n)
    BY DEF Done
  <1>2. Recorded'
    BY <1>1 DEF SInv, Recorded
  <1>3. mailbox'[1] = u /\ mailbox' # <<>>
    OBVIOUS
  <1>4. Updated'
    BY <1>3, UpdatesDiffer DEF Updated, OpUpdates, ChunkUpdates
  <1>5. \A status, why : Backed(status, why)' <=> Backed(status, why)
    BY <1>1 DEF Backed
  <1>6. \A v \in Verdicts : mailbox' # <<v>>
    BY <1>3, UpdatesDiffer
  <1>7. Verdicts' = Verdicts
    BY DEF Verdicts, ScopeUpdate
  <1>8. Settles'
    BY <1>5, <1>6, <1>7 DEF SInv, Settles
  <1> QED
    BY <1>2, <1>4, <1>8

LEMMA StoreFollows ==
    ASSUME TInv, SInv, Store
    PROVE  SInv'
  <1>1. pc = "storing" /\ UNCHANGED <<config, handler, stage, next, recordVars>>
    BY DEF Store
  <1>2. /\ mailbox = <<>> /\ chunk \in 1 .. Chunks + 1 /\ Chunks \in Nat /\ StoredTo(chunk)
        /\ TypeOK
    BY <1>1 DEF TInv, Placed, TypeOK, Filled
  <1>3. /\ stage = End /\ End = Stages + 1 /\ next = stage /\ Done(stage - 1)
        /\ config.encodes /\ config.large
    BY <1>1 DEF SInv, Follows
  <1>4. ~Abandoned /\ ~(FailsAt <= Stages)
    BY <1>2, <1>3, AtTheEnd
  <1>5. Done(stage - 1)'
    BY <1>1, <1>3 DEF Done, recordVars
  <1>6. CASE /\ chunk <= Chunks /\ chunks[chunk] = "none" /\ pc' = "chunkStarting"
             /\ Write(ChunkUpdate(chunk, "STARTED"))
    <2>1. ~Stored
      BY <1>2, <1>6 DEF Stored
    <2>2. ASSUME NEW k \in 1 .. Chunks, chunks[k] = "STARTED" PROVE FALSE
      <3>1. StoredTo(k)
        BY <2>2 DEF TInv, Filled
      <3> QED
        BY <1>2, <1>6, <2>2, <3>1 DEF StoredTo
    <2>3. ~Broken
      BY <2>2 DEF Broken
    <2>4. \A p \in Position : p >= End => ops[p].status = "none"
      BY <1>3, <2>1, <2>3 DEF SInv, Recorded, Fixed
    <2>5. ChunkUpdate(chunk, "STARTED") \in ChunkUpdates /\ mailbox' = <<ChunkUpdate(chunk, "STARTED")>>
      BY <1>2, <1>6, ChunkUpdateIs, Sends
    <2>6. Follows'
      BY <1>1, <1>3, <1>5, <1>6, <2>4, SameScript DEF Follows, recordVars
    <2> QED
      BY <1>1, <2>4, <2>5, <2>6, ChunkStands DEF SInv
  <1>7. CASE UNCHANGED <<pc, mailbox>>
    <2>1. Follows'
      BY <1>1, <1>3, <1>5, <1>7, SameScript DEF Follows, recordVars
    <2> QED
      BY <1>1, <1>7, <2>1, RecordsStand DEF SInv
  <1>8. CASE chunk <= Chunks /\ chunks[chunk] = "STARTED" /\ Fail("changed")
    <2>1. Broken
      BY <1>2, <1>8 DEF Broken
    <2>2. Failing /\ Fixed
      BY <1>3, <2>1 DEF Failing, Fixed
    <2> QED
      BY <1>1, <1>2, <1>3, <1>4, <1>8, <2>2, FailFollows DEF Causes
  <1>9. CASE chunk > Chunks /\ Prepared
    <2>1. Stored
      BY <1>2, <1>9 DEF Stored, StoredTo
    <2>2. ~Broken
      BY <2>1 DEF Stored, Broken
    <2>3. ~Failing /\ Fixed
      BY <1>3, <1>4, <2>1, <2>2 DEF Failing, Fixed
    <2> QED
      BY <1>1, <1>2, <1>3, <1>4, <1>9, <2>3, PreparedFollows
  <1> QED
    BY <1>6, <1>7, <1>8, <1>9 DEF Store

LEMMA ChunkAckedFollows ==
    ASSUME TInv, SInv, ChunkAcked
    PROVE  SInv'
  <1>1. /\ mailbox = <<>> /\ pc \in {"chunkStarting", "chunkEnding"}
        /\ UNCHANGED <<config, handler, stage, next, todo, cause, failed, error, recordVars>>
    BY DEF ChunkAcked, Acked
  <1>2. chunk \in 1 .. Chunks
    BY <1>1 DEF TInv, TypeOK, Filled
  <1>3. /\ stage = End /\ End = Stages + 1 /\ next = stage /\ Done(stage - 1)
        /\ config.encodes /\ config.large
        /\ \A p \in Position : p >= End => ops[p].status = "none"
    BY <1>1 DEF SInv, Follows
  <1>4. Done(stage - 1)'
    BY <1>1, <1>3 DEF Done, recordVars
  <1>5. CASE pc' = "chunkEnding" /\ Write(ChunkUpdate(chunk, "SUCCEEDED"))
    <2>1. /\ ChunkUpdate(chunk, "SUCCEEDED") \in ChunkUpdates
          /\ mailbox' = <<ChunkUpdate(chunk, "SUCCEEDED")>>
      BY <1>1, <1>2, <1>5, ChunkUpdateIs, Sends
    <2>2. Follows'
      BY <1>1, <1>3, <1>4, <1>5, SameScript DEF Follows, recordVars
    <2> QED
      BY <1>1, <1>3, <2>1, <2>2, ChunkStands DEF SInv
  <1>6. CASE pc' = "storing" /\ UNCHANGED mailbox
    <2>1. Follows'
      BY <1>1, <1>3, <1>4, <1>6, SameScript DEF Follows, recordVars
    <2> QED
      BY <1>1, <1>6, <2>1, RecordsStand DEF SInv
  <1> QED
    BY <1>5, <1>6 DEF ChunkAcked

\* The place in the script, as long as the actions left are the same.
LEMMA AtStands ==
    ASSUME UNCHANGED <<config, recordVars, stage, todo, cause, failed>>, NEW n, At(n)
    PROVE  At(n)'
  <1>1. Done(n - 1)'
    BY DEF At, Done, recordVars
  <1> QED
    BY <1>1, SameScript DEF At, recordVars

\* The task is in its actions, at position n of the script.
LEMMA OnScript ==
    ASSUME NEW n, At(n)', pc' \in {"acting", "actionOperating"},
           n = IF pc' = "acting" THEN next' ELSE next' - 1,
           mailbox' # <<>> => pc' = "actionOperating" /\ mailbox'[1].at = n
    PROVE  Follows'
  <1>1. CASE pc' = "acting"
    <2>1. At(next)' /\ mailbox' = <<>>
      BY <1>1 DEF At
    <2> QED
      BY <1>1, <2>1 DEF Follows, At
  <1>2. CASE pc' = "actionOperating"
    <2>1. At(next - 1)'
      BY <1>2 DEF At
    <2> QED
      BY <1>2, <2>1 DEF Follows, At
  <1> QED
    BY <1>1, <1>2

LEMMA ActionReservesFollows ==
    ASSUME TInv, SInv, ActionReserves
    PROVE  SInv'
  <1>1. /\ pc = "acting" /\ todo # <<>> /\ next' = next + 1
        /\ UNCHANGED <<config, handler, stage, cause, error, chunk, mailbox, recordVars>>
    BY DEF ActionReserves
  <1>2. /\ todo \in Seq(Action) /\ next \in 1 .. 3 * Stages + 1 /\ Stages \in Nat
        /\ next + Len(todo) <= 3 * Stages + 1
    BY <1>1 DEF TInv, TypeOK, Room
  <1>3. At(next) /\ mailbox = <<>>
    BY <1>1 DEF SInv, Follows
  <1>4. Len(todo) \in Nat \ {0} /\ Head(todo) = todo[1]
    BY <1>1, <1>2, Fewer
  <1>5. next + 1 - 1 = next /\ next \in Position /\ 1 \in 1 .. Len(todo)
    BY <1>2, <1>4 DEF Position
  <1>6. Head(todo) = Line(next)
    BY <1>3, <1>4, <1>5 DEF At
  <1>7. Selects(Head(todo))
    BY <1>5, <1>6, SelectsIt
  <1>8. pc' = "actionOperating" /\ UNCHANGED <<todo, failed>>
    BY <1>7 DEF ActionReserves
  <1>9. PICK n : n = next /\ At(n)
    BY <1>3
  <1>10. At(n)' /\ n = next' - 1
    BY <1>1, <1>2, <1>8, <1>9, AtStands
  <1>11. Follows'
    BY <1>1, <1>3, <1>8, <1>10, OnScript
  <1> QED
    BY <1>1, <1>11, RecordsStand DEF SInv

LEMMA ActionOperatesFollows ==
    ASSUME TInv, SInv, ActionOperates
    PROVE  SInv'
  <1> DEFINE p == next - 1
  <1>1. /\ pc = "actionOperating" /\ mailbox = <<>>
        /\ UNCHANGED <<config, handler, stage, next, cause, error, chunk, recordVars>>
    BY DEF ActionOperates, Acked
  <1>2. /\ todo \in Seq(Action) /\ todo # <<>> /\ next \in 2 .. 3 * Stages + 1 /\ Stages \in Nat
        /\ TypeOK
    BY <1>1 DEF TInv, TypeOK, Room
  <1>3. /\ stage = End /\ End <= p /\ Len(todo) = Finish - p + 1
        /\ \A i \in 1 .. Len(todo) : todo[i] = Line(p + i - 1)
        /\ Done(p - 1) /\ Fixed
        /\ failed <=> \E q \in End .. p - 1 : ops[q].status = "FAILED"
    BY <1>1 DEF SInv, Follows, At
  <1>4. At(p)
    BY <1>1 DEF SInv, Follows
  <1>5. p \in Position /\ p \in Nat \ {0} /\ p + 1 = next /\ End \in Nat /\ Finish \in Nat
    <2>1. p \in 1 .. 3 * Stages /\ p + 1 = next
      BY <1>2
    <2>2. End \in Nat /\ Finish \in Nat
      BY <1>2, Shape
    <2>3. p \in Nat \ {0}
      BY <1>2, <2>1
    <2> QED
      BY <2>1, <2>2, <2>3 DEF Position
  <1> HIDE DEF p
  <1>6. /\ Head(todo) \in Action /\ Head(todo) = todo[1] /\ Len(todo) \in Nat \ {0}
        /\ Tail(todo) \in Seq(Action) /\ Len(Tail(todo)) = Len(todo) - 1
        /\ \A i \in 1 .. Len(todo) - 1 : Tail(todo)[i] = todo[i + 1]
    BY <1>2, Fewer
  <1>7. p <= Finish /\ p + 1 - 1 = p /\ 1 \in 1 .. Len(todo)
    BY <1>3, <1>5, <1>6
  <1>8. Head(todo) = Line(p)
    BY <1>3, <1>6, <1>7
  <1>9. ASSUME NEW status \in {"STARTED", "PENDING"} \cup Final, ops[p].status \notin Final,
               Write(OpUpdate(p, Head(todo), status)), UNCHANGED <<pc, todo, failed>>
        PROVE  SInv'
    <2> DEFINE u == OpUpdate(p, Head(todo), status)
    <2>1. u \in OpUpdates /\ u.at = p /\ u.what = Line(p)
      BY <1>5, <1>6, <1>8, OpUpdateIs DEF Operation
    <2>2. mailbox' = <<u>> /\ mailbox'[1] = u
      BY <1>1, <1>9, Sends
    <2> HIDE DEF u
    <2>3. Recorded' /\ Updated' /\ Settles'
      BY <1>1, <1>3, <1>5, <1>7, <1>9, <2>1, <2>2, UpdateStands
    <2>4. PICK n : n = p /\ At(n)
      BY <1>4
    <2>5. At(n)' /\ n = next' - 1
      BY <1>1, <1>9, <2>4, AtStands DEF p
    <2>6. Follows'
      BY <1>1, <1>9, <2>1, <2>2, <2>4, <2>5, OnScript
    <2> QED
      BY <2>3, <2>6 DEF SInv
  <1>10. CASE pc' = "paused" /\ UNCHANGED mailbox
    BY <1>1, <1>10, RecordsStand DEF SInv, Follows
  <1>11. CASE /\ ops[p].status \in Final /\ pc' = "acting" /\ todo' = Tail(todo)
              /\ failed' = (failed \/ ops[p].status = "FAILED") /\ UNCHANGED mailbox
    <2> PICK n \in Nat : n = p + 1
      BY <1>5
    <2>1. /\ n - 1 = p /\ n = next' /\ \A q \in 1 .. p : q \in 1 .. p - 1 \/ q = p
          /\ \A q \in End .. p : q \in End .. p - 1 \/ q = p
          /\ End .. p - 1 \subseteq End .. p /\ p \in End .. p
      <3>1. n - 1 = p /\ n = next' /\ End \in Nat /\ p \in Nat \ {0} /\ End <= p
        BY <1>1, <1>3, <1>5
      <3>2. /\ \A q \in 1 .. p : q \in 1 .. p - 1 \/ q = p
            /\ \A q \in End .. p : q \in End .. p - 1 \/ q = p
            /\ \A q \in End .. p - 1 : q \in End .. p
            /\ p \in End .. p
        BY <3>1, UpTo
      <3> QED
        BY ONLY <3>1, <3>2
    <2>2. Done(n - 1)
      BY <1>3, <1>11, <2>1 DEF Done
    <2>3. Done(n - 1)'
      BY <1>1, <2>2 DEF Done, recordVars
    <2>4. failed' <=> \E q \in End .. n - 1 : ops[q].status = "FAILED"
      BY <1>3, <1>11, <2>1
    <2>5. Len(todo') = Finish - n + 1 /\ End <= n
      BY <1>3, <1>5, <1>6, <1>11, SMTT(30)
    <2>6. ASSUME NEW i \in 1 .. Len(todo') PROVE todo'[i] = Line(n + i - 1)
      <3>1. i \in 1 .. Len(todo) - 1 /\ i + 1 \in 1 .. Len(todo) /\ p + (i + 1) - 1 = n + i - 1
        BY <1>5, <1>6, <1>11, SMTT(30)
      <3>2. todo'[i] = todo[i + 1]
        BY <1>6, <1>11, <3>1
      <3>3. todo[i + 1] = Line(p + (i + 1) - 1)
        BY <1>3, <3>1
      <3> QED
        BY <3>1, <3>2, <3>3
    <2>7. /\ cause = "cancel" => Abandoned
          /\ cause = "success" => ~Abandoned /\ ~Failing
          /\ cause = "failure" => ~Abandoned /\ Failing
      BY <1>4 DEF At
    <2>8. At(n)'
      BY <1>1, <1>3, <2>3, <2>4, <2>5, <2>6, <2>7, SameScript DEF At, recordVars
    <2>9. Follows'
      BY <1>1, <1>11, <2>1, <2>8, OnScript
    <2> QED
      BY <1>1, <1>11, <2>9, RecordsStand DEF SInv
  <1>12. \/ \E status \in {"STARTED", "PENDING"} \cup Final :
               /\ ops[p].status \notin Final /\ Write(OpUpdate(p, Head(todo), status))
               /\ UNCHANGED <<pc, todo, failed>>
         \/ pc' = "paused" /\ UNCHANGED mailbox
         \/ /\ ops[p].status \in Final /\ pc' = "acting" /\ todo' = Tail(todo)
            /\ failed' = (failed \/ ops[p].status = "FAILED") /\ UNCHANGED mailbox
    BY DEF ActionOperates, Final, p
  <1> QED
    BY <1>9, <1>10, <1>11, <1>12

LEMMA ActionsEndFollows ==
    ASSUME TInv, SInv, ActionsEnd
    PROVE  SInv'
  <1>1. /\ pc = "acting" /\ todo = <<>>
        /\ UNCHANGED <<config, handler, stage, next, todo, cause, failed, chunk, recordVars>>
    BY DEF ActionsEnd
  <1>2. /\ TypeOK /\ config.terminal /\ cause \in {"success", "failure", "cancel"}
        /\ cause = "failure" => error \in Causes
        /\ next \in 1 .. 3 * Stages + 1 /\ Stages \in Nat
    BY <1>1 DEF TInv, Called, TypeOK
  <1>3. End \in Nat /\ Finish \in Nat /\ AbandonAt <= Stages + 1 /\ FailsAt \in 1 .. Stages + 1
    BY <1>2, Shape
  <1>4. ASSUME At(next)
        PROVE  next = Finish + 1 /\ Done(Finish)
    <2>1. Len(todo) = 0
      BY <1>1
    <2>2. Finish - next + 1 = 0 /\ Done(next - 1)
      BY <1>4, <2>1 DEF At
    <2>3. next - 1 = Finish
      BY <1>2, <1>3, <2>2
    <2> QED
      BY <1>2, <1>3, <2>2, <2>3
  <1>5. ASSUME cause # "cancel" PROVE At(next) /\ mailbox = <<>>
    BY <1>1, <1>5 DEF SInv, Follows
  <1>6. ASSUME NEW v \in Verdicts, pc' = "committing", Write(v), cause # "cancel",
               Backed(v.status, v.why)
        PROVE  SInv'
    <2>1. mailbox' = <<v>>
      BY <1>5, <1>6, Sends
    <2>2. Follows'
      BY <1>6 DEF Follows
    <2> QED
      BY <1>1, <1>6, <2>1, <2>2, VerdictStands DEF SInv
  <1>7. CASE cause = "success"
    <2>1. ~Abandoned /\ ~Failing /\ Done(Finish) /\ next = Finish + 1
          /\ (failed <=> \E q \in End .. next - 1 : ops[q].status = "FAILED")
      BY <1>4, <1>5, <1>7 DEF At
    <2>2. Script = {"CLEANUP"}
      BY <1>2, <2>1 DEF Script
    <2>3. FailsAt = Stages + 1
      BY <1>2, <1>3, <2>1 DEF Failing
    <2>4. AbandonAt \in Nat
      BY <1>2, Shape
    <2>5. End = Stages + 1
      BY <1>2, <1>3, <2>1, <2>3, <2>4 DEF End, Abandoned
    <2>6. CASE ~failed
      <3>1. next - 1 = Finish /\ End \in Nat /\ End >= 1
        BY <1>2, <1>3, <2>1, <2>5
      <3>2. \A q \in End .. Finish : ops[q].status # "FAILED" /\ ops[q].status \in Final
        BY <2>1, <2>6, <3>1, <1>3 DEF Done
      <3>3. Backed("SUCCEEDED", "value")
        BY <2>1, <2>2, <2>5, <3>2 DEF Backed, Final
      <3>4. pc' = "committing" /\ Write(ScopeUpdate("SUCCEEDED", "value"))
        BY <1>7, <2>6 DEF ActionsEnd, Settle
      <3> QED
        BY <1>6, <1>7, <3>3, <3>4, VerdictIs
    <2>7. CASE failed
      <3>1. Backed("FAILED", "actions")
        BY <2>1, <2>2, <2>5 DEF Backed
      <3>2. pc' = "committing" /\ Write(ScopeUpdate("FAILED", "actions"))
        BY <1>7, <2>7 DEF ActionsEnd, Settle
      <3> QED
        BY <1>6, <1>7, <3>1, <3>2, VerdictIs DEF Causes
    <2> QED
      BY <2>6, <2>7
  <1>8. CASE cause = "failure"
    <2>1. ~Abandoned /\ Failing /\ Done(Finish)
      BY <1>4, <1>5, <1>8 DEF At
    <2>2. Script = Phases
      BY <1>2, <2>1 DEF Script
    <2>3. \A why : Backed("FAILED", why)
      BY <2>1, <2>2 DEF Backed
    <2>4. PICK why \in Causes : pc' = "committing" /\ Write(ScopeUpdate("FAILED", why))
      BY <1>2, <1>8 DEF ActionsEnd, Settle, Causes
    <2> QED
      BY <1>6, <1>8, <2>3, <2>4, VerdictIs
  <1>9. CASE cause = "cancel"
    <2>1. pc' = "cancelled" /\ UNCHANGED mailbox
      BY <1>9 DEF ActionsEnd
    <2>2. ASSUME handler # "closing" PROVE Abandoned /\ Done(Finish)
      <3>1. handler = "on"
        BY <1>1, <2>2 DEF TInv, Placed, TypeOK
      <3>2. Abandoned /\ At(next)
        BY <1>1, <1>9, <3>1 DEF SInv, Follows
      <3> QED
        BY <1>4, <3>2
    <2>3. handler # "closing" => Abandoned' /\ Done(Finish)'
      BY <1>1, <2>2, SameScript DEF Done, recordVars
    <2>4. Follows'
      BY <1>1, <2>1, <2>3 DEF Follows
    <2> QED
      BY <1>1, <2>1, <2>4, RecordsStand DEF SInv
  <1> QED
    BY <1>2, <1>7, <1>8, <1>9

\* The verdict of a permanent error, behind the update of the action it ended.
LEMMA InterruptForGoodFollows ==
    ASSUME TInv, SInv, InterruptForGood
    PROVE  SInv'
  <1>1. /\ pc = "actionOperating" /\ pc' = "committing" /\ Write(Permanent)
        /\ UNCHANGED <<config, recordVars>>
    BY DEF InterruptForGood, Settle, Permanent
  <1>2. Follows'
    BY <1>1 DEF Follows
  <1>3. CASE mailbox = <<>>
    <2>1. Backed(Permanent.status, Permanent.why)
      BY VerdictIs DEF Permanent, Backed
    <2>2. mailbox' = <<Permanent>>
      BY <1>1, <1>3, Sends
    <2> QED
      BY <1>1, <1>2, <2>1, <2>2, VerdictIs, VerdictStands DEF SInv
  <1>4. ASSUME NEW u \in OpUpdates, mailbox = <<u>>
        PROVE  SInv'
    <2> USE SameScript DEF recordVars
    <2>1. mailbox' = <<u, Permanent>> /\ mailbox' # <<>> /\ mailbox # <<>>
      BY <1>1, <1>4, SendsBehind
    <2>2. mailbox'[1] = u /\ mailbox[1] = u /\ \A v : mailbox' # <<v>>
      BY <1>4, <2>1
    <2>3. \A n : Done(n)' <=> Done(n)
      BY <1>1 DEF Done
    <2>4. Recorded'
      BY <1>1, <2>3 DEF SInv, Recorded
    <2>5. Updated'
      BY <1>1, <1>4, <2>1, <2>2, <2>3, UpdatesDiffer DEF SInv, Updated
    <2>6. \A status, why : Backed(status, why)' <=> Backed(status, why)
      BY <1>1, <2>3 DEF Backed
    <2>7. Settles'
      BY <1>1, <2>2, <2>6 DEF SInv, Settles
    <2> QED
      BY <1>2, <2>4, <2>5, <2>7 DEF SInv
  <1>5. mailbox = <<>> \/ \E u \in OpUpdates : mailbox = <<u>>
    BY <1>1 DEF TInv, Mailed, InTransit
  <1> QED
    BY <1>3, <1>4, <1>5

\* The application cancels the scope at the stage at which its body waits for it.
LEMMA AbandonFollows ==
    ASSUME TInv, SInv, Abandon
    PROVE  SInv'
  <1>1. /\ handler = "on" /\ pc = "body" /\ stage = config.abandon /\ CancelTask
        /\ UNCHANGED <<config, handler, stage, next, error, chunk, mailbox, recordVars>>
    BY DEF Abandon
  <1>2. /\ TypeOK /\ mailbox = <<>> /\ next = stage /\ Stages \in Nat /\ None \notin Nat
        /\ stage \in 1 .. Stages
    <2>1. TypeOK /\ mailbox = <<>> /\ next = stage /\ Stages \in Nat /\ None \notin Nat
      BY <1>1 DEF TInv, TypeOK, Placed, Room
    <2>2. config.abandon \in 1 .. Stages \cup {None} /\ stage \in Nat
      BY <2>1 DEF TypeOK, Config, Stage
    <2> QED
      BY <1>1, <2>1, <2>2
  <1>3. stage <= End /\ Done(stage - 1)
    BY <1>1 DEF SInv, Follows
  <1>4. AbandonAt = stage
    BY <1>1, <1>2 DEF AbandonAt
  <1>5. stage = End /\ Abandoned
    BY <1>2, <1>3, <1>4, Shape DEF Abandoned
  <1>6. Fixed
    BY <1>2, <1>5 DEF Fixed
  <1>7. CASE config.terminal
    <2>1. Script = config.policy
      BY <1>5, <1>7 DEF Script
    <2>2. Run(Script, "cancel")
      BY <1>1, <1>7, <2>1 DEF CancelTask
    <2> QED
      BY <1>1, <1>2, <1>3, <1>5, <1>6, <2>2, RunFollows
  <1>8. CASE ~config.terminal
    <2>1. pc' = "cancelled"
      BY <1>1, <1>8 DEF CancelTask, Ended
    <2>2. Script = {}
      BY <1>8 DEF Script
    <2>3. Finish = End - 1
      BY <1>2, <2>2, Shape
    <2>4. Abandoned' /\ Done(Finish)'
      BY <1>1, <1>3, <1>5, <2>3, SameScript DEF Done, recordVars
    <2>5. Follows'
      BY <2>1, <2>4 DEF Follows
    <2> QED
      BY <1>1, <2>5, RecordsStand DEF SInv
  <1> QED
    BY <1>7, <1>8

\* A suspension cancels a scope whose policy is to run nothing.
LEMMA CutFollows ==
    ASSUME TInv, SInv, Undisturbed, Cut
    PROVE  SInv'
  <1>1. /\ handler' = "closing" /\ CancelTask /\ config.policy = {}
        /\ UNCHANGED <<config, mailbox, recordVars>>
    BY DEF Cut, Undisturbed
  <1>2. CASE pc \in {"body", "operating"} /\ config.terminal
    <2>1. Run({}, "cancel")
      BY <1>1, <1>2 DEF CancelTask
    <2>2. pc' = "acting" /\ cause' = "cancel" /\ todo' = <<>>
      BY <2>1, RunIs DEF TInv
    <2>3. Follows'
      BY <1>1, <2>2 DEF Follows
    <2> QED
      BY <1>1, <2>3, RecordsStand DEF SInv
  <1>3. CASE pc' \in Ended
    <2>1. Follows'
      BY <1>1, <1>3 DEF Follows, Ended
    <2> QED
      BY <1>1, <2>1, RecordsStand DEF SInv
  <1> QED
    BY <1>1, <1>2, <1>3 DEF CancelTask, Ended

\* The task ends or goes on, with the records and the journal as they are.
LEMMA OtherFollows ==
    ASSUME TInv, SInv, Started \/ VerdictAcked \/ Interrupt \/ Leave
    PROVE  SInv'
  <1>1. UNCHANGED <<config, mailbox, recordVars>>
    BY DEF Started, VerdictAcked, Interrupt, Leave
  <1>2. CASE Started
    <2>1. pc = "starting" /\ pc' = "body" /\ UNCHANGED <<stage, next>>
      BY <1>2 DEF Started
    <2>2. stage = 1 /\ next = 1
      BY <2>1 DEF SInv, Follows, TInv, Room
    <2>3. End >= 1 /\ Done(1 - 1)'
      BY Shape DEF Done, TInv
    <2>4. Follows'
      BY <1>1, <2>1, <2>2, <2>3, SameScript DEF Follows, Done, recordVars
    <2> QED
      BY <1>1, <2>4, RecordsStand DEF SInv
  <1>3. CASE VerdictAcked \/ Interrupt
    <2>1. pc' \in {"done", "raised", "interrupted"}
      BY <1>3 DEF VerdictAcked, Interrupt
    <2>2. Follows'
      BY <2>1 DEF Follows
    <2> QED
      BY <1>1, <2>2, RecordsStand DEF SInv
  <1>4. CASE Leave
    <2>1. CASE pc' = "cancelled"
      <3>1. handler = "on" /\ pc = "cancelled"
        BY <1>4, <2>1 DEF Leave
      <3>2. Abandoned /\ Done(Finish)
        BY <3>1 DEF SInv, Follows
      <3>3. Abandoned' /\ Done(Finish)'
        BY <1>1, <3>2, SameScript DEF Done, recordVars
      <3>4. Follows'
        BY <2>1, <3>3 DEF Follows
      <3> QED
        BY <1>1, <3>4, RecordsStand DEF SInv
    <2>2. CASE pc' # "cancelled"
      <3>1. pc' \in Ended
        BY <1>4 DEF Leave, Ended
      <3>2. Follows'
        BY <2>2, <3>1 DEF Follows, Ended
      <3> QED
        BY <1>1, <3>2, RecordsStand DEF SInv
    <2> QED
      BY <2>1, <2>2
  <1> QED
    BY <1>2, <1>3, <1>4

\* The records stand, and nothing of them is under way.
LEMMA RestStands ==
    ASSUME SInv, UNCHANGED <<config, recordVars>>,
           mailbox' = <<>> \/ mailbox' = <<Starting>>
    PROVE  Recorded' /\ Updated' /\ Settles'
  <1> USE SameScript DEF recordVars
  <1>1. \A n : Done(n)' <=> Done(n)
    BY DEF Done
  <1>2. Recorded'
    BY <1>1 DEF SInv, Recorded
  <1>3. mailbox' # <<>> => mailbox'[1] = Starting
    OBVIOUS
  <1>4. Starting \notin OpUpdates /\ Starting \notin ChunkUpdates /\ Starting \notin Verdicts
    BY UpdatesDiffer
  <1>5. Updated'
    BY <1>3, <1>4 DEF Updated, OpUpdates, ChunkUpdates
  <1>6. \A status, why : Backed(status, why)' <=> Backed(status, why)
    BY <1>1 DEF Backed
  <1>7. \A v \in Verdicts : mailbox' # <<v>>
    BY <1>3, <1>4
  <1>8. Verdicts' = Verdicts
    BY DEF Verdicts, ScopeUpdate
  <1>9. Settles'
    BY <1>6, <1>7, <1>8 DEF SInv, Settles
  <1> QED
    BY <1>2, <1>5, <1>9

LEMMA CrashFollows ==
    ASSUME TInv, SInv, Crash
    PROVE  SInv'
  <1>1. pc' = "off" /\ mailbox' = <<>> /\ UNCHANGED <<config, recordVars>>
    BY DEF Crash
  <1>2. Follows'
    BY <1>1 DEF Follows
  <1> QED
    BY <1>1, <1>2, RestStands DEF SInv

LEMMA InvokeFollows ==
    ASSUME TInv, SInv, Invoke
    PROVE  SInv'
  <1>1. /\ handler = "off" /\ stage' = 1 /\ next' = 1 /\ UNCHANGED <<config, recordVars>>
        /\ scope.status = "none" => Write(Starting)
        /\ scope.status # "none" => mailbox' = mailbox
    BY DEF Invoke, Starting
  <1>2. pc' \in {"done", "raised", "body", "starting"}
    BY DEF Invoke
  <1>3. mailbox = <<>>
    BY <1>1 DEF TInv, Placed
  <1>4. mailbox' = <<>> \/ mailbox' = <<Starting>>
    BY <1>1, <1>3, Sends
  <1>5. End >= 1
    BY Shape DEF TInv
  <1>6. Done(1 - 1)'
    BY DEF Done
  <1>7. Follows'
    BY <1>1, <1>2, <1>5, <1>6, SameScript DEF Follows, Done, recordVars
  <1> QED
    BY <1>1, <1>4, <1>7, RestStands DEF SInv

\* A timer that fires makes no more than an operation ready: nothing behind it
\* has been recorded.
LEMMA ElapseFollows ==
    ASSUME TInv, SInv, NEW p \in Position, Elapse(p)
    PROVE  SInv'
  <1>1. /\ handler = "off" /\ UNCHANGED <<config, handler, pc, mailbox, scope, chunks>>
        /\ ops[p].status \in {"STARTED", "PENDING"}
    BY DEF Elapse, taskVars
  <1>2. PICK status \in {"SUCCEEDED", "READY"} :
            /\ ops' = [ops EXCEPT ![p].status = status]
            /\ status = "SUCCEEDED" <=> ops[p].status = "STARTED"
    BY DEF Elapse
  <1>3. /\ TypeOK /\ pc = "off" /\ mailbox = <<>> /\ p \in Nat
        /\ ops \in [Position -> [what : Operation, status : {"STARTED", "PENDING", "READY"} \cup Final]
                                  \cup {NoRecord}]
    BY <1>1 DEF TInv, TypeOK, Placed, Position
  <1>4. ops[p] # NoRecord /\ ops[p].status \notin Final
    BY <1>1 DEF NoRecord, Final
  <1>5. /\ ops'[p].what = ops[p].what /\ ops'[p].status = status
        /\ \A q \in Position : q # p => ops'[q] = ops[q]
    BY <1>2, <1>3, <1>4
  <1>6. UNCHANGED <<config, chunks>> /\ p <= Finish /\ Done(p - 1)
    BY <1>1 DEF SInv, Recorded
  <1>7. Finish \in Nat /\ End \in Nat /\ Finish <= 3 * Stages /\ Stages \in Nat
    BY <1>3, Shape
  <1>8. ASSUME NEW n, n <= Finish, n \in Nat, Done(n) PROVE Done(n)'
    <2>1. ASSUME NEW q \in 1 .. n PROVE ops'[q].status \in Final
      <3>1. q # p /\ q \in Position /\ ops[q].status \in Final
        BY <1>4, <1>7, <1>8 DEF Done, Position
      <3> QED
        BY <1>5, <3>1
    <2> QED
      BY <2>1 DEF Done, Final
  <1>9. Recorded'
    <2>1. ASSUME NEW q \in Position, ops'[q].status # "none"
          PROVE  /\ q <= Finish /\ ops'[q].what = Line(q) /\ Done(q - 1)'
                 /\ q < End => ops'[q].status \in {"STARTED", "SUCCEEDED"}
                 /\ q >= End => Fixed
      <3>1. ops[q].status # "none" /\ ops'[q].what = ops[q].what
        BY <1>1, <1>5, <2>1
      <3>2. /\ q <= Finish /\ ops[q].what = Line(q) /\ Done(q - 1)
            /\ q < End => ops[q].status \in {"STARTED", "SUCCEEDED"}
            /\ q >= End => Fixed
        BY <3>1 DEF SInv, Recorded
      <3>3. q - 1 \in Nat /\ q - 1 <= Finish
        BY <1>7, <3>2 DEF Position
      <3>4. Done(q - 1)'
        BY <1>8, <3>2, <3>3
      <3>5. q < End => ops'[q].status \in {"STARTED", "SUCCEEDED"}
        BY <1>1, <1>2, <1>5, <3>2
      <3> QED
        BY <3>1, <3>2, <3>4, <3>5
    <2> QED
      BY <1>6, <2>1, SameScript DEF Recorded
  <1>10. Updated'
    BY <1>1, <1>3 DEF Updated
  <1>11. Settles'
    <2>1. ~Done(Finish)
      BY <1>3, <1>4, <1>6, <1>7 DEF Done, Position
    <2>2. ASSUME scope.status \in Final PROVE Backed(scope.status, scope.why)'
      <3>1. ~(config.terminal /\ scope.why # "permanent")
        BY <2>1, <2>2 DEF SInv, Settles, Backed
      <3> QED
        BY <1>1, <3>1 DEF Backed
    <2> QED
      BY <1>1, <1>3, <2>2 DEF Settles, Final
  <1>12. Follows'
    BY <1>1, <1>3 DEF Follows
  <1> QED
    BY <1>9, <1>10, <1>11, <1>12 DEF SInv

\* The scope stands on the records of before: no update of an operation is among
\* those applied.
LEMMA ApplyOtherFollows ==
    ASSUME TInv, SInv, UNCHANGED <<config, handler, taskVars, ops, chunks>>, mailbox # <<>>,
           mailbox' = <<>>, scope'.status \in Final => Backed(scope'.status, scope'.why)
    PROVE  SInv'
  <1> USE SameScript DEF taskVars
  <1>1. \A n : Done(n)' <=> Done(n)
    BY DEF Done
  <1>2. Recorded' /\ Updated'
    BY <1>1 DEF SInv, Recorded, Updated
  <1>3. \A status, why : Backed(status, why)' <=> Backed(status, why)
    BY <1>1 DEF Backed
  <1>4. Settles'
    BY <1>3 DEF Settles
  <1>5. Follows'
    BY <1>1 DEF SInv, Follows, At
  <1> QED
    BY <1>2, <1>4, <1>5 DEF SInv

\* A chunk is stored while no action has been recorded.
LEMMA ApplyChunkFollows ==
    ASSUME TInv, SInv, UNCHANGED <<config, handler, taskVars, ops, scope>>, mailbox' = <<>>,
           scope.status = "STARTED", pc \in {"chunkStarting", "chunkEnding", "cancelled"},
           TypeOK', \A p \in Position : p >= End => ops[p].status = "none"
    PROVE  SInv'
  <1> USE DEF taskVars
  <1>1. End' = End /\ (Abandoned' <=> Abandoned)
    BY DEF End, Abandoned, FailsAt, AbandonAt
  <1>2. End \in Nat /\ Finish' \in Nat /\ End' <= Finish' + 1
    <2>1. End \in Nat
      BY Shape DEF TInv
    <2>2. (Finish \in Nat /\ End <= Finish + 1)'
      BY Shape, PTL
    <2> QED
      BY <2>1, <2>2
  <1>3. \A n : Done(n)' <=> Done(n)
    BY DEF Done
  <1>4. Recorded'
    <2>1. ASSUME NEW p \in Position, ops[p].status # "none"
          PROVE  /\ p < End /\ p <= Finish' /\ ops[p].what = Line(p)' /\ Done(p - 1)
                 /\ ops[p].status \in {"STARTED", "SUCCEEDED"}
      <3>1. p < End /\ p \in Nat
        BY <1>2, <2>1 DEF Position
      <3>2. Line(p)' = Line(p)
        BY <1>1, <3>1 DEF Line
      <3>3. p <= Finish'
        BY <1>1, <1>2, <3>1
      <3>4. ops[p].what = Line(p) /\ Done(p - 1) /\ ops[p].status \in {"STARTED", "SUCCEEDED"}
        BY <2>1, <3>1 DEF SInv, Recorded
      <3> QED
        BY <3>1, <3>2, <3>3, <3>4
    <2>2. \A p \in Position : p < End => ~(p >= End)
      BY <1>2 DEF Position
    <2> QED
      BY <1>1, <1>3, <2>1, <2>2 DEF Recorded
  <1>5. Updated' /\ Settles'
    BY DEF Updated, Settles, Final
  <1>6. Abandoned => Finish' = Finish
    BY <1>1 DEF Finish, Undo, Clean, Script
  <1>7. Follows'
    BY <1>1, <1>3, <1>6 DEF SInv, Follows
  <1> QED
    BY <1>4, <1>5, <1>7 DEF SInv

LEMMA ApplyOpFollows ==
    ASSUME TInv, SInv, UNCHANGED <<config, handler, taskVars, scope, chunks>>, NEW u \in OpUpdates,
           mailbox # <<>>, mailbox[1] = u, scope.status = "STARTED",
           ops' = [ops EXCEPT ![u.at] = [what |-> u.what, status |-> u.status]],
           \/ mailbox' = <<>>
           \/ mailbox' = <<Permanent>> /\ pc \in {"committing", "cancelled"}
    PROVE  SInv'
  <1> USE SameScript DEF taskVars
  <1> DEFINE a == u.at
  <1>1. /\ a \in Position /\ a \in Nat \ {0} /\ TypeOK
        /\ ops \in [Position -> [what : Operation, status : {"STARTED", "PENDING", "READY"} \cup Final]
                                  \cup {NoRecord}]
    <2>1. a \in Position /\ TypeOK
      BY DEF OpUpdates, TInv
    <2> QED
      BY <2>1, SMTT(30) DEF TypeOK, Position
  <1>2. /\ a <= Finish /\ u.what = Line(a) /\ Done(a - 1) /\ ops[a].status \notin Final
        /\ a < End => u.status \in {"STARTED", "SUCCEEDED"}
        /\ a >= End => Fixed
    BY DEF SInv, Updated
  <1>3. /\ ops'[a].what = u.what /\ ops'[a].status = u.status
        /\ \A q \in Position : q # a => ops'[q] = ops[q]
    BY <1>1
  <1>4. Finish \in Nat /\ End \in Nat \ {0} /\ Finish <= 3 * Stages /\ Stages \in Nat
    <2>1. Finish \in Nat /\ End \in 1 .. Stages + 1 /\ Finish <= 3 * Stages /\ Stages \in Nat
      BY <1>1, Shape
    <2> QED
      BY <2>1
  <1> HIDE DEF a
  <1>5. ASSUME NEW n \in Nat, n <= Finish, Done(n) PROVE n < a /\ Done(n)'
    <2>1. n < a
      BY <1>1, <1>2, <1>5 DEF Done
    <2>2. ASSUME NEW q \in 1 .. n PROVE ops'[q].status \in Final
      <3>1. q # a /\ q \in Position /\ ops[q].status \in Final
        BY <1>1, <1>4, <1>5, <2>1 DEF Done, Position
      <3> QED
        BY <1>3, <3>1
    <2> QED
      BY <2>1, <2>2 DEF Done, Final
  <1>6. Recorded'
    <2>1. ASSUME NEW q \in Position, ops'[q].status # "none"
          PROVE  /\ q <= Finish /\ ops'[q].what = Line(q) /\ Done(q - 1)'
                 /\ q < End => ops'[q].status \in {"STARTED", "SUCCEEDED"}
                 /\ q >= End => Fixed
      <3>1. /\ q <= Finish /\ ops'[q].what = Line(q) /\ Done(q - 1)
            /\ q < End => ops'[q].status \in {"STARTED", "SUCCEEDED"}
            /\ q >= End => Fixed
        <4>1. CASE q = a
          BY <1>2, <1>3, <4>1
        <4>2. CASE q # a
          BY <1>3, <2>1, <4>2 DEF SInv, Recorded
        <4> QED
          BY <4>1, <4>2
      <3>2. q - 1 \in Nat /\ q - 1 <= Finish
        BY <1>4, <3>1 DEF Position
      <3>3. Done(q - 1)'
        BY <1>5, <3>1, <3>2
      <3> QED
        BY <3>1, <3>3
    <2> QED
      BY <2>1 DEF Recorded
  <1>7. mailbox' # <<>> => mailbox'[1] = Permanent
    OBVIOUS
  <1>8. Updated'
    BY <1>7, VerdictIs, UpdatesDiffer DEF Updated, OpUpdates, ChunkUpdates
  <1>9. Settles'
    <2>1. \A v \in Verdicts : mailbox' = <<v>> => v = Permanent
      BY <1>7
    <2>2. \A status : Backed(status, "permanent")'
      BY DEF Backed
    <2>3. Permanent.why = "permanent"
      BY VerdictIs DEF Permanent
    <2> QED
      BY <2>1, <2>2, <2>3 DEF Settles, Final, Verdicts, ScopeUpdate
  <1>10. ASSUME NEW n \in Nat, At(n) PROVE At(n)'
    <2>1. Len(todo) \in Nat /\ Len(todo) = Finish - n + 1 /\ End <= n /\ Done(n - 1)
      BY <1>1, <1>10 DEF At, TypeOK
    <2>2. n - 1 \in Nat /\ n - 1 <= Finish
      BY <1>4, <2>1
    <2>3. n - 1 < a /\ Done(n - 1)'
      BY <1>5, <2>1, <2>2
    <2>4. \A q \in End .. n - 1 : q # a /\ q \in Position
      BY <1>1, <1>4, <2>1, <2>2, <2>3 DEF Position
    <2>5. (\E q \in End .. n - 1 : ops'[q].status = "FAILED")
             <=> \E q \in End .. n - 1 : ops[q].status = "FAILED"
      BY <1>3, <2>4
    <2> QED
      BY <1>10, <2>3, <2>5 DEF At
  <1>11. pc \in {"operating", "acting", "actionOperating", "interrupted", "cancelled", "committing"}
    <2>1. PICK v : /\ mailbox[1] = v
                   /\ \/ /\ v \in {Starting} \cup Verdicts \cup OpUpdates \cup ChunkUpdates
                         /\ InTransit(v)
                      \/ pc \in {"committing", "cancelled"}
      BY DEF TInv, Mailed
    <2>2. v = u
      BY <2>1
    <2> QED
      BY <2>1, <2>2, UpdatesDiffer DEF InTransit
  <1>12. Follows'
    <2>1. UNCHANGED <<config, handler, pc, stage, next, todo, cause>>
      OBVIOUS
    <2>2. CASE pc = "operating"
      <3>1. stage < End /\ Done(stage - 1) /\ stage \in Nat \ {0} /\ mailbox' = <<>>
        BY <1>1, <2>2 DEF SInv, Follows, TypeOK
      <3>2. stage - 1 \in Nat /\ stage - 1 <= Finish
        BY <1>4, <3>1, Shape, <1>1, SMTT(30)
      <3>3. Done(stage - 1)'
        BY <1>5, <3>1, <3>2 DEF Done
      <3> QED
        BY <2>1, <2>2, <3>1, <3>3 DEF Follows
    <2>3. CASE pc = "acting"
      <3>1. /\ cause = "cancel" /\ config.policy = {} /\ todo = <<>> /\ mailbox' = <<>>
            /\ handler = "on" => Abandoned /\ At(next)
        BY <2>3 DEF SInv, Follows
      <3>2. PICK n \in Nat : n = next
        BY <1>1 DEF TypeOK
      <3>3. handler = "on" => At(n)'
        BY <1>10, <3>1, <3>2
      <3>4. handler = "on" => At(next)'
        BY <3>2, <3>3 DEF At
      <3> QED
        BY <2>1, <2>3, <3>1, <3>4 DEF Follows
    <2>4. CASE pc = "actionOperating"
      <3>1. At(next - 1) /\ mailbox' = <<>> /\ next - 1 \in Nat
        BY <1>1, <2>4 DEF SInv, Follows, TypeOK
      <3>2. PICK n \in Nat : n = next - 1
        BY <3>1
      <3>3. At(n)'
        BY <1>10, <3>1, <3>2
      <3> QED
        BY <2>1, <2>4, <3>1, <3>2, <3>3, OnScript
    <2>5. CASE pc = "cancelled"
      <3>1. handler # "closing" => Abandoned /\ Done(Finish)
        BY <2>5 DEF SInv, Follows
      <3>2. handler # "closing" => Done(Finish)'
        BY <1>4, <1>5, <3>1 DEF Done
      <3> QED
        BY <2>1, <2>5, <3>1, <3>2 DEF Follows
    <2>6. CASE pc \in {"interrupted", "committing"}
      BY <2>1, <2>6 DEF Follows
    <2> QED
      BY <1>11, <2>2, <2>3, <2>4, <2>5, <2>6
  <1> QED
    BY <1>6, <1>8, <1>9, <1>12 DEF SInv

LEMMA ApplyFollows ==
    ASSUME TInv, SInv, Apply
    PROVE  SInv'
  <1>1. mailbox # <<>>
    BY DEF Apply
  <1>2. ASSUME mailbox = <<Starting>> PROVE SInv'
    <2>1. /\ scope' = [status |-> "STARTED", why |-> None] /\ mailbox' = <<>>
          /\ UNCHANGED <<config, handler, taskVars, ops, chunks>>
      BY <1>1, <1>2, ApplyIs, Receives, UpdatesDiffer
    <2>2. scope'.status \notin Final
      BY <2>1 DEF Final
    <2> QED
      BY <1>1, <2>1, <2>2, ApplyOtherFollows
  <1>3. ASSUME NEW v \in Verdicts, mailbox = <<v>> PROVE SInv'
    <2>1. /\ scope' = [status |-> v.status, why |-> v.why] /\ mailbox' = <<>>
          /\ UNCHANGED <<config, handler, taskVars, ops, chunks>>
      BY <1>1, <1>3, ApplyIs, Receives, VerdictIs
    <2>2. Backed(v.status, v.why)
      BY <1>3 DEF SInv, Settles
    <2>3. Backed(scope'.status, scope'.why)
      BY <2>1, <2>2
    <2> QED
      BY <1>1, <2>1, <2>3, ApplyOtherFollows
  <1>4. ASSUME NEW u \in ChunkUpdates, mailbox = <<u>>, InTransit(u) PROVE SInv'
    <2>1. mailbox' = <<>> /\ UNCHANGED <<config, handler, taskVars, ops, scope>>
      BY <1>1, <1>4, ApplyIs, Receives, UpdatesDiffer
    <2>2. scope.status = "STARTED" /\ pc \in {"chunkStarting", "chunkEnding", "cancelled"}
      BY <1>4, UpdatesDiffer DEF InTransit
    <2>3. mailbox[1] \in ChunkUpdates
      BY <1>4
    <2>4. \A p \in Position : p >= End => ops[p].status = "none"
      BY <1>1, <2>3 DEF SInv, Updated
    <2>5. TypeOK'
      BY ApplyTyped DEF TInv
    <2> QED
      BY <2>1, <2>2, <2>4, <2>5, ApplyChunkFollows
  <1>5. ASSUME NEW u \in OpUpdates, scope.status = "STARTED",
               \/ mailbox = <<u>>
               \/ mailbox = <<u, Permanent>> /\ pc \in {"committing", "cancelled"}
        PROVE  SInv'
    <2>1. Head(mailbox) = u /\ mailbox[1] = u
      BY <1>5, Receives
    <2>2. /\ ops' = [ops EXCEPT ![u.at] = [what |-> u.what, status |-> u.status]]
          /\ UNCHANGED <<config, handler, taskVars, scope, chunks>>
          /\ mailbox' = Tail(mailbox)
      BY <1>1, <2>1, ApplyIs, UpdatesDiffer
    <2>3. mailbox' = <<>> \/ (mailbox' = <<Permanent>> /\ pc \in {"committing", "cancelled"})
      BY <1>5, <2>2, Receives
    <2> QED
      BY <1>1, <1>5, <2>1, <2>2, <2>3, ApplyOpFollows
  <1> QED
    BY <1>1, <1>2, <1>3, <1>4, <1>5, UpdatesDiffer DEF TInv, Mailed, InTransit

LEMMA ConfigStands ==
    ASSUME [Next]_vars
    PROVE  config' = config
  <1>1. ASSUME NEW p \in Position, Elapse(p) PROVE config' = config
    BY <1>1 DEF Elapse
  <1> QED
    BY <1>1 DEF Next, TaskStep, vars, Apply, Invoke, Leave, Interrupt, InterruptForGood, Abandon, Cut,
       Crash, Started, BodyReserves, BodyOperates, BodyReturns, Store, ChunkAcked, ActionReserves,
       ActionOperates, ActionsEnd, VerdictAcked

LEMMA FollowsInit == Init => IInv
  <1> SUFFICES ASSUME Init PROVE IInv
    OBVIOUS
  <1>1. config \in Configs /\ pc = "off" /\ mailbox = <<>> /\ scope.status = "none"
        /\ \A p \in Position : ops[p].status = "none"
    BY DEF Init, NoRecord
  <1>2. Recorded /\ Updated /\ Settles /\ Follows
    BY <1>1 DEF Recorded, Updated, Settles, Follows, Final
  <1> QED
    BY <1>1, <1>2, TypedInit DEF IInv, SInv

LEMMA FollowsNext == IInv /\ [Next]_vars => IInv'
  <1> SUFFICES ASSUME IInv, [Next]_vars PROVE IInv'
    OBVIOUS
  <1>1. TInv /\ TInv' /\ config' = config
    BY TypedNext, ConfigStands DEF IInv
  <1>2. ASSUME Undisturbed PROVE SInv'
    <2>1. SInv
      BY <1>2 DEF IInv
    <2>2. CASE Next
      <3>1. CASE TaskStep
        BY <1>1, <2>1, <3>1, OtherFollows, BodyReservesFollows, BodyOperatesFollows,
           BodyReturnsFollows, StoreFollows, ChunkAckedFollows, ActionReservesFollows,
           ActionOperatesFollows, ActionsEndFollows DEF TaskStep
      <3>2. CASE \E p \in Position : Elapse(p)
        BY <1>1, <2>1, <3>2, ElapseFollows
      <3> QED
        BY <1>1, <1>2, <2>1, <2>2, <3>1, <3>2, ApplyFollows, InvokeFollows, OtherFollows,
           InterruptForGoodFollows, AbandonFollows, CutFollows, CrashFollows DEF Next
    <2>3. CASE UNCHANGED vars
      <3>1. UNCHANGED <<config, handler, mailbox, recordVars, pc, stage, next, todo, cause, failed>>
        BY <2>3 DEF vars, taskVars
      <3>2. \A n : Done(n)' <=> Done(n)
        BY <3>1 DEF Done, recordVars
      <3>3. Follows'
        BY <2>1, <3>1, <3>2, SameScript DEF SInv, Follows, At, recordVars
      <3> QED
        BY <2>1, <3>1, <3>3, RecordsStand DEF SInv
    <2> QED
      BY <2>2, <2>3
  <1>3. Undisturbed' <=> Undisturbed
    BY <1>1 DEF Undisturbed
  <1> QED
    BY <1>1, <1>2, <1>3 DEF IInv

----------------------------------------------------------------------------
(* What follows for the records                                            *)

\* The records of actions are those of the positions behind the body's.
LEMMA ActsIs ==
    ASSUME TypeOK, Recorded, NEW p \in Position, Acts(p)
    PROVE  /\ ops[p].status # "none" /\ ops[p].what = Line(p) /\ Done(p - 1)
           /\ End <= p /\ p <= Finish /\ p \in Nat \ {0}
  <1>1. ops[p].status # "none"
    <2>1. ops[p] \in [what : Operation, status : {"STARTED", "PENDING", "READY"} \cup Final]
                        \cup {NoRecord}
      BY DEF TypeOK
    <2>2. ops[p] # NoRecord
      BY DEF NoRecord, Acts, Operation
    <2> QED
      BY <2>1, <2>2 DEF Final
  <1>2. ops[p].what = Line(p) /\ p <= Finish /\ Done(p - 1)
    BY <1>1 DEF Recorded
  <1>3. p \in Nat \ {0} /\ End \in Nat
    BY Shape DEF Position
  <1>4. ~(p < End)
    <2>1. ASSUME p < End PROVE FALSE
      <3>1. ops[p].what[1] = "BODY" /\ ops[p].what[1] \in Phases
        BY <1>2, <2>1 DEF Line, Acts, Action
      <3> QED
        BY <3>1 DEF Phases
    <2> QED
      BY <2>1
  <1> QED
    BY <1>1, <1>2, <1>3, <1>4

\* Position p of the script is for the i-th operation of the body.
LEMMA LineIs ==
    ASSUME TypeOK, NEW p \in Nat, End <= p, p <= Finish
    PROVE  \/ /\ p < End + Undo /\ Line(p) = <<"COMPENSATION", 2 * End - 1 - p>>
              /\ "COMPENSATION" \in Script /\ 2 * End - 1 - p \in 1 .. End - 1
           \/ /\ p >= End + Undo /\ Line(p) = <<"CLEANUP", 2 * End + Undo - 1 - p>>
              /\ "CLEANUP" \in Script /\ 2 * End + Undo - 1 - p \in 1 .. End - 1
  <1>1. /\ End \in 1 .. Stages + 1 /\ Stages \in Nat /\ Undo \in Nat /\ Clean \in Nat
        /\ Finish = End - 1 + Undo + Clean
        /\ Undo = (IF "COMPENSATION" \in Script THEN End - 1 ELSE 0)
        /\ Clean = (IF "CLEANUP" \in Script THEN End - 1 ELSE 0)
    BY Shape
  <1>2. ~(p < End)
    BY <1>1
  <1>3. CASE p < End + Undo
    <2>1. "COMPENSATION" \in Script /\ Undo = End - 1
      BY <1>1, <1>3
    <2>2. 2 * End - 1 - p \in 1 .. End - 1
      BY <1>1, <1>3, <2>1
    <2>3. Line(p) = <<"COMPENSATION", 2 * End - 1 - p>>
      BY <1>2, <1>3 DEF Line
    <2> QED
      BY <1>3, <2>1, <2>2, <2>3
  <1>4. CASE ~(p < End + Undo)
    <2>1. "CLEANUP" \in Script /\ Clean = End - 1 /\ p >= End + Undo
      BY <1>1, <1>4
    <2>2. 2 * End + Undo - 1 - p \in 1 .. End - 1
      BY <1>1, <1>4, <2>1
    <2>3. Line(p) = <<"CLEANUP", 2 * End + Undo - 1 - p>>
      BY <1>2, <1>4 DEF Line
    <2> QED
      BY <2>1, <2>2, <2>3
  <1> QED
    BY <1>3, <1>4

\* When the script has been run, its actions have: those of its phases, for
\* each operation the body had completed.
LEMMA RanIs ==
    ASSUME TypeOK, Recorded, NEW status \in SUBSET Final,
           \A q \in 1 .. Finish : ops[q].status \in Final,
           \A q \in End .. Finish : ops[q].status \in status,
           NEW phase \in Phases
    PROVE  Ran(phase, status) = IF phase \in Script THEN 1 .. End - 1 ELSE {}
  <1>1. /\ End \in 1 .. Stages + 1 /\ Stages \in Nat /\ Undo \in Nat /\ Clean \in Nat
        /\ Finish = End - 1 + Undo + Clean /\ Finish <= 3 * Stages
        /\ Undo = (IF "COMPENSATION" \in Script THEN End - 1 ELSE 0)
        /\ Clean = (IF "CLEANUP" \in Script THEN End - 1 ELSE 0)
    BY Shape
  <1>2. ASSUME NEW i \in Ran(phase, status) PROVE phase \in Script /\ i \in 1 .. End - 1
    <2>1. PICK p \in Position : ops[p].what = <<phase, i>> /\ i \in Stage
      BY <1>2 DEF Ran
    <2>2. Acts(p)
      BY <2>1 DEF Acts, Action
    <2>3. Line(p) = <<phase, i>> /\ End <= p /\ p <= Finish /\ p \in Nat
      BY <2>1, <2>2, ActsIs
    <2>4. PICK f, j : Line(p) = <<f, j>> /\ f \in Script /\ j \in 1 .. End - 1
      BY <2>3, LineIs
    <2>5. f = phase /\ j = i
      BY <2>3, <2>4
    <2> QED
      BY <2>4, <2>5
  <1>3. ASSUME NEW i \in 1 .. End - 1, phase \in Script PROVE i \in Ran(phase, status)
    <2>1. PICK p \in Position : End <= p /\ p <= Finish /\ Line(p) = <<phase, i>>
      <3>1. CASE phase = "COMPENSATION"
        <4> DEFINE p == 2 * End - 1 - i
        <4>1. /\ p \in Nat \ {0} /\ End <= p /\ p < End + Undo /\ p <= Finish
              /\ 2 * End - 1 - p = i /\ p <= 3 * Stages
          BY <1>1, <1>3, <3>1
        <4> HIDE DEF p
        <4>2. p \in Position
          BY <1>1, <4>1 DEF Position
        <4>3. ~(p < End)
          BY <1>1, <4>1
        <4>4. Line(p) = <<phase, i>>
          BY <3>1, <4>1, <4>3 DEF Line
        <4> QED
          BY <4>1, <4>2, <4>4
      <3>2. CASE phase = "CLEANUP"
        <4> DEFINE p == 2 * End + Undo - 1 - i
        <4>1. /\ p \in Nat \ {0} /\ End <= p /\ ~(p < End + Undo) /\ p <= Finish
              /\ 2 * End + Undo - 1 - p = i /\ p <= 3 * Stages
          BY <1>1, <1>3, <3>2
        <4> HIDE DEF p
        <4>2. p \in Position
          BY <1>1, <4>1 DEF Position
        <4>3. ~(p < End)
          BY <1>1, <4>1
        <4>4. Line(p) = <<phase, i>>
          BY <3>2, <4>1, <4>3 DEF Line
        <4> QED
          BY <4>1, <4>2, <4>4
      <3> QED
        BY <3>1, <3>2 DEF Phases
    <2>2. p \in End .. Finish
      BY <1>1, <2>1 DEF Position
    <2>3. ops[p].status \in status /\ ops[p].status # "none"
      BY <2>2 DEF Final
    <2>4. ops[p].what = <<phase, i>>
      BY <2>1, <2>3 DEF Recorded
    <2>5. i \in Stage
      BY <1>1 DEF Stage
    <2> QED
      BY <2>3, <2>4, <2>5 DEF Ran
  <1> QED
    BY <1>2, <1>3

LEMMA InOrder ==
    ASSUME TypeOK, Recorded
    PROVE  ActionsInOrder
  <1> SUFFICES ASSUME NEW p \in Position, NEW q \in Position, p < q, Acts(p), Acts(q)
               PROVE  /\ ops[p].status \in Final
                      /\ \/ ops[p].what[1] = "COMPENSATION" /\ ops[q].what[1] = "CLEANUP"
                         \/ ops[p].what[1] = ops[q].what[1] /\ ops[p].what[2] > ops[q].what[2]
    BY DEF ActionsInOrder
  <1>1. /\ ops[p].what = Line(p) /\ End <= p /\ p <= Finish /\ p \in Nat \ {0}
        /\ ops[q].what = Line(q) /\ End <= q /\ q <= Finish /\ q \in Nat \ {0}
        /\ Done(q - 1)
    BY ActsIs
  <1>2. ops[p].status \in Final
    BY <1>1 DEF Done
  <1>3. End \in Nat /\ Undo \in Nat
    BY Shape
  <1>4. \/ p < End + Undo /\ Line(p) = <<"COMPENSATION", 2 * End - 1 - p>>
        \/ p >= End + Undo /\ Line(p) = <<"CLEANUP", 2 * End + Undo - 1 - p>>
    BY <1>1, LineIs
  <1>5. \/ q < End + Undo /\ Line(q) = <<"COMPENSATION", 2 * End - 1 - q>>
        \/ q >= End + Undo /\ Line(q) = <<"CLEANUP", 2 * End + Undo - 1 - q>>
    BY <1>1, LineIs
  <1>6. 2 * End - 1 - p > 2 * End - 1 - q /\ 2 * End + Undo - 1 - p > 2 * End + Undo - 1 - q
    BY <1>1, <1>3
  <1>7. ~(p >= End + Undo /\ q < End + Undo)
    BY <1>1, <1>3
  <1> QED
    BY <1>1, <1>2, <1>4, <1>5, <1>6, <1>7

LEMMA VerdictBacked ==
    ASSUME TypeOK, Recorded, Settles
    PROVE  VerdictIsBacked
  <1> SUFFICES ASSUME config.terminal, scope.status \in Final, scope.why # "permanent"
               PROVE  /\ \A p \in Position : Acts(p) => ops[p].status \in Final
                      /\ scope.status = "SUCCEEDED" =>
                            /\ Ran("COMPENSATION", Final) = {}
                            /\ Ran("CLEANUP", {"SUCCEEDED"}) = Stage
                      /\ scope.status = "FAILED" =>
                            \/ /\ Ran("COMPENSATION", Final) = Ran("CLEANUP", Final)
                               /\ \E m \in 0 .. Stages : Ran("CLEANUP", Final) = 1 .. m
                            \/ /\ scope.why = "actions" /\ Ran("COMPENSATION", Final) = {}
                               /\ Ran("CLEANUP", Final) = Stage
    BY DEF VerdictIsBacked
  <1>1. /\ Done(Finish)
        /\ scope.status = "SUCCEEDED" =>
              /\ Script = {"CLEANUP"} /\ End = Stages + 1
              /\ \A q \in End .. Finish : ops[q].status = "SUCCEEDED"
        /\ scope.status = "FAILED" =>
              \/ Script = Phases
              \/ scope.why = "actions" /\ Script = {"CLEANUP"} /\ End = Stages + 1
    BY DEF Settles, Backed
  <1>2. End \in 1 .. Stages + 1 /\ Stages \in Nat /\ Finish \in Nat
    BY Shape
  <1>3. \A q \in 1 .. Finish : ops[q].status \in Final
    BY <1>1 DEF Done
  <1>4. \A q \in End .. Finish : ops[q].status \in Final
    BY <1>2, <1>3
  <1>5. \A phase \in Phases : Ran(phase, Final) = IF phase \in Script THEN 1 .. End - 1 ELSE {}
    BY <1>3, <1>4, RanIs
  <1>6. "COMPENSATION" \in Phases /\ "CLEANUP" \in Phases
    BY DEF Phases
  <1>7. \A p \in Position : Acts(p) => ops[p].status \in Final
    BY <1>2, <1>3, ActsIs
  <1>8. CASE scope.status = "SUCCEEDED"
    <2>1. \A q \in End .. Finish : ops[q].status \in {"SUCCEEDED"}
      BY <1>1, <1>8
    <2>2. Ran("CLEANUP", {"SUCCEEDED"}) = 1 .. End - 1
      BY <1>1, <1>3, <1>6, <1>8, <2>1, RanIs DEF Final
    <2>3. Ran("COMPENSATION", Final) = {}
      BY <1>1, <1>5, <1>6, <1>8
    <2>4. 1 .. End - 1 = Stage
      BY <1>1, <1>2, <1>8 DEF Stage
    <2> QED
      BY <1>7, <1>8, <2>2, <2>3, <2>4
  <1>9. CASE scope.status = "FAILED"
    <2>1. CASE Script = Phases
      <3>1. Ran("COMPENSATION", Final) = 1 .. End - 1 /\ Ran("CLEANUP", Final) = 1 .. End - 1
        BY <1>5, <1>6, <2>1
      <3>2. End - 1 \in 0 .. Stages
        BY <1>2
      <3> QED
        BY <1>7, <1>9, <3>1, <3>2
    <2>2. CASE scope.why = "actions" /\ Script = {"CLEANUP"} /\ End = Stages + 1
      <3>1. Ran("COMPENSATION", Final) = {} /\ Ran("CLEANUP", Final) = 1 .. End - 1
        BY <1>5, <1>6, <2>2
      <3>2. 1 .. End - 1 = Stage
        BY <1>2, <2>2 DEF Stage
      <3> QED
        BY <1>7, <1>9, <2>2, <3>1, <3>2
    <2> QED
      BY <1>1, <1>9, <2>1, <2>2
  <1> QED
    BY <1>8, <1>9 DEF Final

LEMMA PolicyApplied ==
    ASSUME TypeOK, config \in Configs, Recorded, Follows
    PROVE  PolicyIsApplied
  <1> SUFFICES ASSUME handler = "over", pc = "cancelled", NEW phase \in Phases
               PROVE  Ran(phase, Final) =
                          IF phase \in config.policy THEN 1 .. config.abandon - 1 ELSE {}
    BY DEF PolicyIsApplied
  <1>1. Abandoned /\ Done(Finish)
    BY DEF Follows
  <1>2. End \in 1 .. Stages + 1 /\ Stages \in Nat /\ Finish \in Nat
    BY Shape
  <1>3. End = config.abandon
    <2>1. AbandonAt <= Stages /\ End = AbandonAt
      BY <1>1 DEF Abandoned, End
    <2> QED
      BY <1>2, <2>1 DEF AbandonAt
  <1>4. Script = config.policy
    BY <1>1 DEF Script
  <1>5. \A q \in 1 .. Finish : ops[q].status \in Final
    BY <1>1 DEF Done
  <1>6. \A q \in End .. Finish : ops[q].status \in Final
    BY <1>2, <1>5
  <1>7. Ran(phase, Final) = IF phase \in Script THEN 1 .. End - 1 ELSE {}
    BY <1>5, <1>6, RanIs
  <1> QED
    BY <1>3, <1>4, <1>7

LEMMA Undone ==
    ASSUME TypeOK, Recorded, ~(config.terminal /\ config.large)
    PROVE  UndoOnlyFailures
  <1> SUFFICES ASSUME NEW i \in Ran("COMPENSATION", {"STARTED", "PENDING", "READY"} \cup Final)
               PROVE  \/ config.failsAt # None \/ ~config.encodes
                      \/ "COMPENSATION" \in config.policy
    BY DEF UndoOnlyFailures
  <1>1. PICK p \in Position : ops[p].what = <<"COMPENSATION", i>> /\ i \in Stage
    BY DEF Ran
  <1>2. Acts(p)
    BY <1>1 DEF Acts, Action, Phases
  <1>3. Line(p) = <<"COMPENSATION", i>> /\ End <= p /\ p <= Finish /\ p \in Nat
    BY <1>1, <1>2, ActsIs
  <1>4. PICK f, j : Line(p) = <<f, j>> /\ f \in Script
    BY <1>3, LineIs
  <1>5. "COMPENSATION" \in Script
    BY <1>3, <1>4
  <1>6. CASE Abandoned
    BY <1>5, <1>6 DEF Script
  <1>7. CASE ~Abandoned
    <2>1. config.terminal /\ Failing
      BY <1>5, <1>7 DEF Script
    <2>2. FailsAt <= Stages \/ ~config.encodes
      BY <2>1 DEF Failing
    <2>3. FailsAt <= Stages => config.failsAt # None
      BY Shape DEF FailsAt
    <2> QED
      BY <2>2, <2>3
  <1> QED
    BY <1>6, <1>7

\* The terminal actions of a scope, over all the invocations that take part in
\* running them, are recorded one after the other, compensations before
\* cleanups and each phase in reverse order of registration (Actions.run).  The
\* scope must have no policy, or no sibling that can suspend the handler under
\* it: what a suspension then does to it is the finding of a run.
THEOREM TerminalOrder == Spec => [](Undisturbed => ActionsInOrder)
  <1>1. IInv => (Undisturbed => ActionsInOrder)
    BY InOrder DEF IInv, TInv, SInv
  <1> QED
    BY FollowsInit, FollowsNext, <1>1, PTL DEF Spec

\* A verdict stands on its actions and a cancelled scope has applied its policy:
\* whatever crashes, is retried or interrupted, no scope ends before the actions
\* that its end calls for have come to theirs (scope_effect).
THEOREM TerminalBacked == Spec => [](Undisturbed => EndIsBacked)
  <1>1. IInv => (Undisturbed => EndIsBacked)
    BY VerdictBacked, PolicyApplied DEF IInv, TInv, SInv, EndIsBacked
  <1> QED
    BY FollowsInit, FollowsNext, <1>1, PTL DEF Spec

\* Nothing is compensated in a scope whose body never fails, in any invocation;
\* but for a large result, which a crash in the midst of a chunk makes a failure
\* (the finding of another run).
THEOREM TerminalUndo ==
    Spec => [](Undisturbed /\ ~(config.terminal /\ config.large) => UndoOnlyFailures)
  <1>1. IInv => (Undisturbed /\ ~(config.terminal /\ config.large) => UndoOnlyFailures)
    BY Undone DEF IInv, TInv, SInv
  <1> QED
    BY FollowsInit, FollowsNext, <1>1, PTL DEF Spec
=============================================================================
