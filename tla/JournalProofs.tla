--------------------------- MODULE JournalProofs ---------------------------
(***************************************************************************)
(* For every set of tasks and every bound: the journal is well typed, an     *)
(* acknowledged commit is durable and readable, an open receipt is always    *)
(* registered with a writer that will settle it, the backend holds a prefix  *)
(* of the commits, and the journal implements the checkpoint log.            *)
(***************************************************************************)
EXTENDS Journal, SequenceTheorems, TLAPS

\* Elements of the sequences the writer and the backend build.
LEMMA ToSetAppend ==
    ASSUME NEW S, NEW s \in Seq(S), NEW e \in S
    PROVE  /\ Append(s, e) \in Seq(S)
           /\ ToSet(Append(s, e)) = ToSet(s) \cup {e}
<1>1. Len(Append(s, e)) = Len(s) + 1
  OBVIOUS
<1>2. \A i \in 1 .. Len(s) : Append(s, e)[i] = s[i]
  OBVIOUS
<1>3. Append(s, e)[Len(s) + 1] = e
  OBVIOUS
<1>4. DOMAIN s = 1 .. Len(s) /\ DOMAIN Append(s, e) = 1 .. Len(s) + 1
  OBVIOUS
<1>5. Len(s) \in Nat
  OBVIOUS
<1> QED
  BY <1>1, <1>2, <1>3, <1>4, <1>5 DEF ToSet

\* Concatenation joins the sets of elements.
LEMMA ToSetConcat ==
    ASSUME NEW S, NEW s \in Seq(S), NEW t \in Seq(S)
    PROVE  /\ s \o t \in Seq(S)
           /\ ToSet(s) \subseteq ToSet(s \o t)
           /\ ToSet(t) \subseteq ToSet(s \o t)
<1>1. s \o t \in Seq(S) /\ Len(s \o t) = Len(s) + Len(t) /\ Len(s) \in Nat /\ Len(t) \in Nat
  OBVIOUS
<1>2. ASSUME NEW i \in 1 .. Len(s) PROVE s[i] = (s \o t)[i] /\ i \in DOMAIN (s \o t)
  BY <1>1
<1>3. ASSUME NEW i \in 1 .. Len(t)
      PROVE t[i] = (s \o t)[Len(s) + i] /\ Len(s) + i \in DOMAIN (s \o t)
  BY <1>1
<1>4. DOMAIN s = 1 .. Len(s) /\ DOMAIN t = 1 .. Len(t)
  OBVIOUS
<1> QED
  BY <1>1, <1>2, <1>3, <1>4 DEF ToSet

\* Cutting a sequence in two loses no element.
LEMMA ToSetSplit ==
    ASSUME NEW S, NEW s \in Seq(S), NEW n \in 0 .. Len(s)
    PROVE  /\ SubSeq(s, 1, n) \in Seq(S)
           /\ SubSeq(s, n + 1, Len(s)) \in Seq(S)
           /\ Len(SubSeq(s, n + 1, Len(s))) = Len(s) - n
           /\ \A i \in 1 .. Len(s) - n : SubSeq(s, n + 1, Len(s))[i] = s[n + i]
           /\ ToSet(s) \subseteq ToSet(SubSeq(s, 1, n)) \cup ToSet(SubSeq(s, n + 1, Len(s)))
<1> DEFINE a == SubSeq(s, 1, n)
           b == SubSeq(s, n + 1, Len(s))
<1>1. /\ a \in Seq(S) /\ b \in Seq(S)
      /\ Len(s) \in Nat /\ n \in Nat /\ n <= Len(s)
      /\ Len(a) = n /\ Len(b) = Len(s) - n
  OBVIOUS
<1>2. \A i \in 1 .. n : a[i] = s[i]
  OBVIOUS
<1>3. \A i \in 1 .. Len(s) - n : b[i] = s[n + i]
  OBVIOUS
<1> HIDE DEF a, b
<1>4. DOMAIN s = 1 .. Len(s) /\ DOMAIN a = 1 .. n /\ DOMAIN b = 1 .. Len(s) - n
  BY <1>1
<1>5. ASSUME NEW i \in 1 .. Len(s) PROVE s[i] \in ToSet(a) \cup ToSet(b)
  <2>1. CASE i <= n
    BY <1>1, <1>2, <1>4, <2>1 DEF ToSet
  <2>2. CASE i > n
    <3>1. i - n \in 1 .. Len(s) - n /\ n + (i - n) = i
      BY <1>1, <2>2
    <3> QED
      BY <1>3, <1>4, <3>1 DEF ToSet
  <2> QED
    BY <1>1, <2>1, <2>2
<1>6. ToSet(s) \subseteq ToSet(a) \cup ToSet(b)
  BY <1>4, <1>5 DEF ToSet
<1> QED
  BY <1>1, <1>3, <1>6 DEF a, b

----------------------------------------------------------------------------
(* The inductive invariant                                                 *)

\* Every update is queued before the sentinel.
SentinelIsLast ==
    \A i \in 1 .. Len(mailbox) : mailbox[i] = Close => closed /\ i = Len(mailbox)

\* What the writer holds in each of its states.
BatchInv ==
    /\ writer \in {"none", "created", "idle"} => batch = <<>>
    /\ writer = "sending" /\ flight # <<>> => flight = batch /\ reply = "none"
    /\ writer = "sending" /\ reply = "applied" => ToSet(batch) \subseteq ToSet(log)
    /\ writer = "paging" => ToSet(batch) \subseteq ToSet(log)

\* A writer ends only when the journal has failed or is closed, and the
\* journal is open for as long as close waits for the tasks.
WriterInv ==
    /\ writer = "done" => failure \/ closed
    /\ phase \in {"open", "draining", "gathering"} => ~closed

Inv == TypeOK /\ SentinelIsLast /\ BatchInv /\ WriterInv /\ AckedIsReadable /\ OpenIsServed

\* The closing sentinel of the mailbox is no update.
LEMMA UpdateIsNotClose == Close \notin Update
  BY JournalAssumption DEF Update, Actors

\* The update an operation commits next is one of the modelled updates.
LEMMA NextUpdate ==
    ASSUME NEW a \in Actors, TypeOK, asked[a] < MaxCommits
    PROVE  <<a, asked[a] + 1>> \in Update /\ asked[a] + 1 \in 0 .. MaxCommits
  BY JournalAssumption DEF Update, TypeOK

\* The sentinel stands alone behind the batch, so putting it back changes
\* nothing.
LEMMA RestIsSubSeq ==
    ASSUME TypeOK, SentinelIsLast, NEW n \in 1 .. MaxBatch, n <= Len(mailbox)
    PROVE  RestOfMailbox(n) = SubSeq(mailbox, n + 1, Len(mailbox))
<1> DEFINE rest == SubSeq(mailbox, n + 1, Len(mailbox))
<1>1. n \in 0 .. Len(mailbox) /\ mailbox \in Seq(Message)
  BY JournalAssumption DEF TypeOK
<1>2. /\ rest \in Seq(Message)
      /\ Len(rest) = Len(mailbox) - n
      /\ \A i \in 1 .. Len(mailbox) - n : rest[i] = mailbox[n + i]
  BY <1>1, ToSetSplit
<1> HIDE DEF rest
<1>3. CASE rest # <<>> /\ Head(rest) = Close
  <2>1. Len(rest) >= 1 /\ rest[1] = Close
    BY <1>2, <1>3
  <2>2. 1 \in 1 .. Len(mailbox) - n /\ n + 1 \in 1 .. Len(mailbox)
    BY <1>1, <1>2, <2>1
  <2>3. mailbox[n + 1] = Close
    BY <1>2, <2>1, <2>2
  <2>4. Len(rest) = 1
    BY <1>1, <1>2, <2>2, <2>3 DEF SentinelIsLast
  <2>5. Append(Tail(rest), Close) = rest
    <3>1. Close \in Message
      BY DEF Message
    <3>2. Tail(rest) \in Seq(Message) /\ Len(Tail(rest)) = 0
      BY <1>2, <1>3, <2>4, HeadTailProperties
    <3> DEFINE front == Tail(rest)
    <3>a. front \in Seq(Message) /\ Len(front) = 0
      BY <3>2
    <3> HIDE DEF front
    <3>b. /\ Append(front, Close) \in Seq(Message)
          /\ Len(Append(front, Close)) = 1
          /\ Append(front, Close)[1] = Close
      BY <3>1, <3>a, AppendProperties
    <3>3. /\ Append(Tail(rest), Close) \in Seq(Message)
          /\ Len(Append(Tail(rest), Close)) = 1
          /\ Append(Tail(rest), Close)[1] = Close
      BY <3>b DEF front
    <3>4. \A i \in 1 .. Len(rest) : rest[i] = Append(Tail(rest), Close)[i]
      BY <2>1, <2>4, <3>3
    <3>5. Len(rest) = Len(Append(Tail(rest), Close))
      BY <2>4, <3>3
    <3> QED
      BY <1>2, <3>3, <3>4, <3>5, SeqEqual
  <2> QED
    BY <2>5 DEF RestOfMailbox, rest
<1>4. CASE ~(rest # <<>> /\ Head(rest) = Close)
  BY <1>4 DEF RestOfMailbox, rest
<1> QED
  BY <1>3, <1>4

\* What the writer leaves in the mailbox is still a sequence of messages.
LEMMA RestIsMessages ==
    ASSUME TypeOK, NEW n \in 1 .. MaxBatch, n <= Len(mailbox)
    PROVE  RestOfMailbox(n) \in Seq(Message)
<1> DEFINE rest == SubSeq(mailbox, n + 1, Len(mailbox))
<1>1. n \in 0 .. Len(mailbox) /\ mailbox \in Seq(Message) /\ Close \in Message
  BY JournalAssumption DEF TypeOK, Message
<1>2. rest \in Seq(Message)
  BY <1>1, ToSetSplit
<1> HIDE DEF rest
<1>3. rest # <<>> => Append(Tail(rest), Close) \in Seq(Message)
  BY <1>1, <1>2
<1> QED
  BY <1>2, <1>3 DEF RestOfMailbox, rest

----------------------------------------------------------------------------
(* Type correctness                                                        *)

\* A new journal is well typed.
LEMMA TypeInit == Init => TypeOK
<1> SUFFICES ASSUME Init PROVE TypeOK
  OBVIOUS
<1>1. /\ task \in [Actors -> {"unborn", "running", "waiting", "done"}]
      /\ asked \in [Actors -> 0 .. MaxCommits]
      /\ receipt \in [Update -> {"none", "open", "ok", "failed", "refused"}]
  BY JournalAssumption DEF Init
<1>2. <<>> \in Seq(Message) /\ <<>> \in Seq(Update)
  BY EmptySeq
<1>3. /\ mailbox \in Seq(Message) /\ batch \in Seq(Update)
      /\ order \in Seq(Update) /\ flight \in Seq(Update) /\ log \in Seq(Update)
  BY <1>2 DEF Init
<1>4. interrupts \in 0 .. MaxInterrupts /\ token \in Nat /\ grant \in Nat /\ lease \in Nat
  BY JournalAssumption DEF Init
<1>5. /\ writer = "none" /\ writerCancel = FALSE /\ failure = FALSE /\ closed = FALSE
      /\ phase = "open" /\ abort = FALSE /\ reply = "none"
      /\ pending = {} /\ entries = {} /\ gathering = {}
  BY DEF Init
<1> QED
  BY <1>1, <1>3, <1>4, <1>5 DEF TypeOK

\* Every step of the operations, the writer, the backend and close keeps the
\* types.
LEMMA TypeNext == TypeOK /\ [Next]_vars => TypeOK'
<1> SUFFICES ASSUME TypeOK, [Next]_vars PROVE TypeOK'
  OBVIOUS
<1> USE DEF actorVars, writerVars, bookVars, closeVars, backendVars
<1> USE JournalAssumption
<1>1. ASSUME NEW t \in Tasks, Spawn(t) PROVE TypeOK'
  BY <1>1 DEF TypeOK, Spawn, Actors
<1>2. ASSUME NEW t \in Tasks, Finish(t) PROVE TypeOK'
  BY <1>2 DEF TypeOK, Finish, Actors
<1>3. ASSUME NEW a \in Actors, Commit(a) PROVE TypeOK'
  <2> DEFINE u == <<a, asked[a] + 1>>
  <2>1. u \in Update /\ asked[a] + 1 \in 0 .. MaxCommits
    BY <1>3, NextUpdate DEF Commit
  <2>2. mailbox' = Append(mailbox, u) /\ order' = Append(order, u)
    BY <1>3 DEF Commit
  <2>3. u \in Message
    BY <2>1 DEF Message
  <2> HIDE DEF u
  <2>4. mailbox' \in Seq(Message) /\ order' \in Seq(Update)
    BY <2>1, <2>2, <2>3 DEF TypeOK
  <2> QED
    BY <1>3, <2>1, <2>4 DEF TypeOK, Commit, u
<1>4. ASSUME NEW a \in Actors, CommitRefused(a) PROVE TypeOK'
  BY <1>4, NextUpdate, ZenonT(60) DEF TypeOK, CommitRefused
<1>5. ASSUME NEW a \in Actors, Resume(a) PROVE TypeOK'
  BY <1>5 DEF TypeOK, Resume
<1>6. ASSUME NEW a \in Actors, CancelWaiter(a) PROVE TypeOK'
  BY <1>6 DEF TypeOK, CancelWaiter
<1>7. ASSUME WriterSend PROVE TypeOK'
  <2>1. PICK n \in 1 .. MaxBatch :
           /\ n <= Len(mailbox)
           /\ \A i \in 1 .. n : mailbox[i] # Close
           /\ batch' = SubSeq(mailbox, 1, n)
           /\ flight' = SubSeq(mailbox, 1, n)
           /\ mailbox' = RestOfMailbox(n)
    BY <1>7 DEF WriterSend
  <2>2. mailbox' \in Seq(Message)
    BY <2>1, RestIsMessages
  <2>3. \A i \in 1 .. n : mailbox[i] \in Update
    BY <2>1 DEF TypeOK, Message
  <2>4. SubSeq(mailbox, 1, n) \in Seq(Update)
    <3>1. mailbox \in Seq(Message) /\ n \in Nat /\ n <= Len(mailbox)
      BY <2>1 DEF TypeOK
    <3>2. /\ SubSeq(mailbox, 1, n) \in Seq(Message)
          /\ Len(SubSeq(mailbox, 1, n)) = n
          /\ \A i \in 1 .. n : SubSeq(mailbox, 1, n)[i] = mailbox[i]
      BY <3>1, SubSeqProperties
    <3> QED
      BY <2>3, <3>1, <3>2, ElementOfSeq, IsASeq
  <2> QED
    BY <1>7, <2>1, <2>2, <2>4 DEF TypeOK, WriterSend
<1>8. ASSUME WriterStop PROVE TypeOK'
  <2>1. Tail(mailbox) \in Seq(Message)
    BY <1>8, HeadTailProperties DEF TypeOK, WriterStop
  <2> QED
    BY <1>8, <2>1 DEF TypeOK, WriterStop
<1>9. ASSUME WriterReceive PROVE TypeOK'
  <2>1. ToSet(batch) \subseteq Update
    BY DEF TypeOK, ToSet
  <2>2. entries' \in SUBSET Update
    BY <1>9, <2>1 DEF TypeOK, WriterReceive
  <2>3. token' \in Nat /\ reply' \in {"none", "applied", "error"}
    BY <1>9 DEF TypeOK, WriterReceive
  <2>4. CASE AcknowledgeBatch
    <3>1. /\ receipt' \in [Update -> {"none", "open", "ok", "failed", "refused"}]
          /\ pending' \in SUBSET Update
          /\ batch' \in Seq(Update) /\ writer' = "idle" /\ failure' \in BOOLEAN
      BY <2>4, EmptySeq DEF TypeOK, AcknowledgeBatch
    <3> QED
      BY <1>9, <2>2, <2>3, <3>1 DEF TypeOK, WriterReceive
  <2>5. CASE writer' = "paging" /\ UNCHANGED <<bookVars, batch>>
    BY <1>9, <2>2, <2>3, <2>5 DEF TypeOK, WriterReceive
  <2> QED
    BY <1>9, <2>4, <2>5 DEF WriterReceive
<1>10. ASSUME WriterLastPage PROVE TypeOK'
  BY <1>10 DEF TypeOK, WriterLastPage, AcknowledgeBatch, ToSet
<1>11. ASSUME WriterFail PROVE TypeOK'
  BY <1>11 DEF TypeOK, WriterFail, BreakJournal
<1>12. ASSUME WriterInterrupted PROVE TypeOK'
  BY <1>12 DEF TypeOK, WriterInterrupted, BreakJournal
<1>13. ASSUME WriterDone PROVE TypeOK'
  BY <1>13 DEF TypeOK, WriterDone, BreakJournal
<1>14. ASSUME BackendApply PROVE TypeOK'
  BY <1>14, ToSetConcat DEF TypeOK, BackendApply
<1>15. ASSUME BackendReject PROVE TypeOK'
  BY <1>15 DEF TypeOK, BackendReject
<1>16. ASSUME Takeover PROVE TypeOK'
  BY <1>16 DEF TypeOK, Takeover
<1>17. ASSUME BeginClose PROVE TypeOK'
  BY <1>17 DEF TypeOK, BeginClose
<1>18. ASSUME Drain PROVE TypeOK'
  BY <1>18 DEF TypeOK, Drain, Live
<1>19. ASSUME Gathered PROVE TypeOK'
  BY <1>19 DEF TypeOK, Gathered
<1>20. ASSUME CloseJournal PROVE TypeOK'
  <2>1. Append(mailbox, Close) \in Seq(Message)
    BY DEF TypeOK, Message
  <2> QED
    BY <1>20, <2>1 DEF TypeOK, CloseJournal
<1>21. ASSUME WriterAwaited PROVE TypeOK'
  BY <1>21 DEF TypeOK, WriterAwaited
<1>22. ASSUME Interrupt PROVE TypeOK'
  <2>1. interrupts' \in 0 .. MaxInterrupts
    BY <1>22 DEF TypeOK, Interrupt
  <2>2. writerCancel' \in BOOLEAN
    BY <1>22 DEF TypeOK, Interrupt
  <2>3. task' \in [Actors -> {"unborn", "running", "waiting", "done"}]
    BY <1>22 DEF TypeOK, Interrupt
  <2>4. pending' \in SUBSET Update
    BY <1>22 DEF TypeOK, Interrupt
  <2> QED
    BY <1>22, <2>1, <2>2, <2>3, <2>4 DEF TypeOK, Interrupt
<1>23. CASE UNCHANGED vars
  BY <1>23 DEF TypeOK, vars
<1> QED
  BY <1>1, <1>2, <1>3, <1>4, <1>5, <1>6, <1>7, <1>8, <1>9, <1>10, <1>11, <1>12,
     <1>13, <1>14, <1>15, <1>16, <1>17, <1>18, <1>19, <1>20, <1>21, <1>22, <1>23
     DEF Next

\* The journal's state is well typed in every reachable state.
THEOREM JournalTypeOK == Spec => []TypeOK
  BY TypeInit, TypeNext, PTL DEF Spec

----------------------------------------------------------------------------
(* Steps, by what they leave alone                                         *)

\* The actions of tasks that do not submit anything.
LEMMA TaskStepFrame ==
    ASSUME NEW a \in Actors,
           Spawn(a) \/ Finish(a) \/ CommitRefused(a) \/ Resume(a) \/ CancelWaiter(a)
    PROVE  UNCHANGED <<mailbox, order, failure, writer, writerCancel, batch, token, entries,
                       closed, phase, flight, reply, grant, log, lease>>
  BY DEF Spawn, Finish, CommitRefused, Resume, CancelWaiter, bookVars, writerVars,
         closeVars, backendVars

\* The steps of close, before the journal is closed and after.
LEMMA CloseStepFrame ==
    ASSUME BeginClose \/ Drain \/ Gathered \/ WriterAwaited \/ Interrupt \/ Takeover
    PROVE  UNCHANGED <<mailbox, order, receipt, failure, writer, batch, token, entries,
                       closed, flight, reply, log>>
  BY DEF BeginClose, Drain, Gathered, WriterAwaited, Interrupt, Takeover, actorVars,
         bookVars, writerVars, closeVars, backendVars

----------------------------------------------------------------------------
(* The sentinel                                                            *)

\* No step puts a message behind the closing sentinel, nor one before close.
LEMMA SentinelNext == Inv /\ [Next]_vars => SentinelIsLast'
<1> SUFFICES ASSUME Inv, [Next]_vars PROVE SentinelIsLast'
  OBVIOUS
<1> USE DEF Inv
<1>1. ASSUME UNCHANGED <<mailbox, closed>> PROVE SentinelIsLast'
  BY <1>1 DEF SentinelIsLast
<1>2. ASSUME NEW a \in Actors, Commit(a) PROVE SentinelIsLast'
  <2> DEFINE u == <<a, asked[a] + 1>>
  <2>1. u \in Update /\ u # Close /\ u \in Message
    BY <1>2, NextUpdate, UpdateIsNotClose DEF Commit, Message
  <2>2. mailbox' = Append(mailbox, u) /\ closed' = closed /\ ~closed
    BY <1>2 DEF Commit, closeVars
  <2> HIDE DEF u
  <2>3. mailbox \in Seq(Message)
    BY DEF TypeOK
  <2>4. /\ Len(mailbox') = Len(mailbox) + 1
        /\ \A i \in 1 .. Len(mailbox) : mailbox'[i] = mailbox[i]
        /\ mailbox'[Len(mailbox) + 1] = u
    BY <2>1, <2>2, <2>3, AppendProperties
  <2>5. \A i \in 1 .. Len(mailbox) + 1 : i \in 1 .. Len(mailbox) \/ i = Len(mailbox) + 1
    BY <2>3
  <2> QED
    BY <2>1, <2>2, <2>4, <2>5 DEF SentinelIsLast
<1>3. ASSUME WriterSend PROVE SentinelIsLast'
  <2>1. PICK n \in 1 .. MaxBatch : n <= Len(mailbox) /\ mailbox' = RestOfMailbox(n)
    BY <1>3 DEF WriterSend
  <2>2. mailbox' = SubSeq(mailbox, n + 1, Len(mailbox)) /\ closed' = closed
    BY <1>3, <2>1, RestIsSubSeq DEF WriterSend, closeVars
  <2>3. n \in 0 .. Len(mailbox) /\ mailbox \in Seq(Message)
    BY <2>1, JournalAssumption DEF TypeOK
  <2>4. /\ Len(mailbox') = Len(mailbox) - n
        /\ \A i \in 1 .. Len(mailbox) - n : mailbox'[i] = mailbox[n + i]
    BY <2>2, <2>3, ToSetSplit
  <2>5. \A i \in 1 .. Len(mailbox) - n : n + i \in 1 .. Len(mailbox)
    BY <2>3
  <2> QED
    BY <2>2, <2>3, <2>4, <2>5 DEF SentinelIsLast
<1>4. ASSUME WriterStop PROVE SentinelIsLast'
  <2>1. mailbox \in Seq(Message) /\ mailbox # <<>> /\ mailbox[1] = Close
    BY <1>4 DEF WriterStop, TypeOK
  <2>2. Len(mailbox) = 1
    <3>1. Len(mailbox) \in Nat /\ Len(mailbox) # 0
      BY <2>1, LenProperties, EmptySeq
    <3>2. 1 \in 1 .. Len(mailbox)
      BY <3>1
    <3>3. \A i \in 1 .. Len(mailbox) : mailbox[i] = Close => i = Len(mailbox)
      BY DEF SentinelIsLast
    <3> QED
      BY <2>1, <3>2, <3>3
  <2>3. Len(mailbox') = 0
    BY <1>4, <2>1, <2>2, HeadTailProperties DEF WriterStop
  <2> QED
    BY <2>3 DEF SentinelIsLast
<1>5. ASSUME CloseJournal PROVE SentinelIsLast'
  <2>1. closed' = TRUE /\ ~closed
    BY <1>5 DEF CloseJournal, WriterInv
  <2>2. CASE mailbox' = Append(mailbox, Close)
    <3>1. mailbox \in Seq(Message) /\ Close \in Message
      BY DEF TypeOK, Message
    <3>2. /\ Len(mailbox') = Len(mailbox) + 1
          /\ \A i \in 1 .. Len(mailbox) : mailbox'[i] = mailbox[i]
      BY <2>2, <3>1, AppendProperties
    <3>3. \A i \in 1 .. Len(mailbox) + 1 : i \in 1 .. Len(mailbox) \/ i = Len(mailbox) + 1
      BY <3>1
    <3> QED
      BY <2>1, <3>2, <3>3 DEF SentinelIsLast
  <2>3. CASE mailbox' = mailbox
    BY <2>1, <2>3 DEF SentinelIsLast
  <2> QED
    BY <1>5, <2>2, <2>3 DEF CloseJournal
<1>6. ASSUME WriterReceive \/ WriterLastPage \/ WriterFail \/ WriterInterrupted \/ WriterDone
             \/ BackendApply \/ BackendReject
      PROVE  UNCHANGED <<mailbox, closed>>
  BY <1>6 DEF WriterReceive, WriterLastPage, WriterFail, WriterInterrupted, WriterDone,
              BackendApply, BackendReject, closeVars
<1> QED
  BY <1>1, <1>2, <1>3, <1>4, <1>5, <1>6, TaskStepFrame, CloseStepFrame
     DEF Next, vars, closeVars, Actors

----------------------------------------------------------------------------
(* The writer and its batch                                                *)

\* No step ends the writer of an open, unbroken journal.
LEMMA WriterNext == Inv /\ [Next]_vars => WriterInv'
<1> SUFFICES ASSUME Inv, [Next]_vars PROVE WriterInv'
  OBVIOUS
<1> USE DEF Inv
<1>1. ASSUME UNCHANGED <<writer, failure, closed, phase>> PROVE WriterInv'
  BY <1>1 DEF WriterInv
<1>2. ASSUME NEW a \in Actors, Commit(a) PROVE WriterInv'
  BY <1>2 DEF WriterInv, Commit, closeVars
<1>3. ASSUME WriterSend PROVE WriterInv'
  BY <1>3 DEF WriterInv, WriterSend, closeVars
<1>4. ASSUME WriterStop PROVE WriterInv'
  <2>1. mailbox \in Seq(Message) /\ mailbox # <<>> /\ mailbox[1] = Close
    BY <1>4 DEF WriterStop, TypeOK
  <2>2. 1 \in 1 .. Len(mailbox)
    BY <2>1, LenProperties, EmptySeq
  <2>3. closed
    BY <2>1, <2>2 DEF SentinelIsLast
  <2> QED
    BY <1>4, <2>3 DEF WriterInv, WriterStop, closeVars
<1>5. ASSUME WriterReceive \/ WriterLastPage PROVE WriterInv'
  BY <1>5 DEF WriterInv, WriterReceive, WriterLastPage, AcknowledgeBatch, closeVars
<1>6. ASSUME WriterFail \/ WriterInterrupted \/ WriterDone PROVE WriterInv'
  BY <1>6 DEF WriterInv, WriterFail, WriterInterrupted, WriterDone, BreakJournal, closeVars
<1>7. ASSUME BackendApply \/ BackendReject \/ Takeover
      PROVE  UNCHANGED <<writer, failure, closed, phase>>
  BY <1>7 DEF BackendApply, BackendReject, Takeover, bookVars, writerVars, closeVars
<1>8. ASSUME BeginClose \/ Drain \/ Gathered \/ WriterAwaited \/ Interrupt PROVE WriterInv'
  <2>1. closed' = closed /\ failure' = failure /\ writer' = writer
    BY <1>8, CloseStepFrame
  <2>2. phase' \in {"open", "draining", "gathering"} => phase \in {"open", "draining", "gathering"}
    BY <1>8 DEF BeginClose, Drain, Gathered, WriterAwaited, Interrupt, TypeOK
  <2> QED
    BY <2>1, <2>2 DEF WriterInv
<1>9. ASSUME CloseJournal PROVE WriterInv'
  BY <1>9 DEF WriterInv, CloseJournal, bookVars
<1> QED
  BY <1>1, <1>2, <1>3, <1>4, <1>5, <1>6, <1>7, <1>8, <1>9, TaskStepFrame
     DEF Next, vars, closeVars, bookVars, writerVars, Actors

\* Every step keeps the agreement of the batch with the request in flight and
\* with the log.
LEMMA BatchNext == Inv /\ [Next]_vars => BatchInv'
<1> SUFFICES ASSUME Inv, [Next]_vars PROVE BatchInv'
  OBVIOUS
<1> USE DEF Inv
<1>1. ASSUME UNCHANGED <<writer, batch, flight, reply, log>> PROVE BatchInv'
  BY <1>1 DEF BatchInv
<1>2. ASSUME NEW a \in Actors, Commit(a) PROVE BatchInv'
  BY <1>2 DEF BatchInv, Commit, backendVars
<1>3. ASSUME WriterSend PROVE BatchInv'
  BY <1>3 DEF BatchInv, WriterSend
<1>4. ASSUME WriterStop PROVE BatchInv'
  BY <1>4 DEF BatchInv, WriterStop
<1>5. ASSUME WriterReceive PROVE BatchInv'
  BY <1>5 DEF BatchInv, WriterReceive, AcknowledgeBatch
<1>6. ASSUME WriterLastPage PROVE BatchInv'
  BY <1>6 DEF BatchInv, WriterLastPage, AcknowledgeBatch
<1>7. ASSUME WriterFail \/ WriterInterrupted \/ WriterDone PROVE BatchInv'
  BY <1>7 DEF BatchInv, WriterFail, WriterInterrupted, WriterDone
<1>8. ASSUME BackendApply PROVE BatchInv'
  <2>1. flight \in Seq(Update) /\ log \in Seq(Update)
    BY DEF TypeOK
  <2>2. ToSet(log) \subseteq ToSet(log') /\ ToSet(flight) \subseteq ToSet(log')
    BY <1>8, <2>1, ToSetConcat DEF BackendApply
  <2>3. writer = "sending" => ToSet(batch) \subseteq ToSet(log')
    BY <1>8, <2>2 DEF BackendApply, BatchInv
  <2>4. writer' = writer /\ batch' = batch /\ flight' = <<>>
    BY <1>8 DEF BackendApply, writerVars
  <2> QED
    BY <2>2, <2>3, <2>4 DEF BatchInv
<1>9. ASSUME BackendReject PROVE BatchInv'
  BY <1>9 DEF BatchInv, BackendReject, writerVars
<1>10. ASSUME CloseJournal PROVE UNCHANGED <<writer, batch, flight, reply, log>>
  BY <1>10 DEF CloseJournal, backendVars
<1> QED
  BY <1>1, <1>2, <1>3, <1>4, <1>5, <1>6, <1>7, <1>8, <1>9, <1>10, TaskStepFrame, CloseStepFrame
     DEF Next, vars, writerVars, backendVars, Actors

----------------------------------------------------------------------------
(* Acknowledged commits                                                    *)

\* No step acknowledges a commit that cannot be read back.
LEMMA AckedNext == Inv /\ [Next]_vars => AckedIsReadable'
<1> SUFFICES ASSUME Inv, [Next]_vars PROVE AckedIsReadable'
  OBVIOUS
<1> USE DEF Inv
\* No update becomes "ok", and nothing durable or readable is lost.
<1>1. ASSUME \A u \in Update : receipt'[u] = "ok" => receipt[u] = "ok",
             ToSet(log) \subseteq ToSet(log'), entries \subseteq entries'
      PROVE  AckedIsReadable'
  BY <1>1 DEF AckedIsReadable
<1>2. ASSUME NEW a \in Actors, Commit(a) \/ CommitRefused(a)
      PROVE  \A u \in Update : receipt'[u] = "ok" => receipt[u] = "ok"
  BY <1>2 DEF Commit, CommitRefused, TypeOK
<1>3. ASSUME NEW a \in Actors, Commit(a) \/ CommitRefused(a)
      PROVE  log' = log /\ entries' = entries
  BY <1>3 DEF Commit, CommitRefused, backendVars
<1>4. ASSUME NEW a \in Actors, Spawn(a) \/ Finish(a) \/ Resume(a) \/ CancelWaiter(a)
      PROVE  receipt' = receipt /\ log' = log /\ entries' = entries
  BY <1>4 DEF Spawn, Finish, Resume, CancelWaiter, bookVars, backendVars
<1>5. ASSUME AcknowledgeBatch, log' = log, entries' = entries \cup ToSet(batch),
             ToSet(batch) \subseteq ToSet(log)
      PROVE  AckedIsReadable'
  BY <1>5 DEF AckedIsReadable, AcknowledgeBatch
<1>6. ASSUME WriterReceive PROVE AckedIsReadable'
  <2>1. log' = log /\ ToSet(batch) \subseteq ToSet(log)
    BY <1>6 DEF WriterReceive, BatchInv
  <2>2. CASE entries' = entries \cup ToSet(batch) /\ AcknowledgeBatch
    BY <1>5, <2>1, <2>2
  <2>3. CASE /\ \E part \in SUBSET ToSet(batch) : entries' = entries \cup part
             /\ writer' = "paging"
             /\ UNCHANGED <<bookVars, batch>>
    BY <2>1, <2>3 DEF AckedIsReadable, bookVars
  <2> QED
    BY <1>6, <2>2, <2>3 DEF WriterReceive
<1>7. ASSUME WriterLastPage PROVE AckedIsReadable'
  BY <1>5, <1>7 DEF WriterLastPage, BatchInv, backendVars
<1>8. ASSUME WriterFail \/ WriterInterrupted \/ WriterDone
      PROVE  /\ \A u \in Update : receipt'[u] = "ok" => receipt[u] = "ok"
             /\ log' = log /\ entries' = entries
  BY <1>8 DEF WriterFail, WriterInterrupted, WriterDone, BreakJournal, bookVars, backendVars
<1>9. ASSUME BackendApply
      PROVE  /\ receipt' = receipt /\ entries' = entries
             /\ ToSet(log) \subseteq ToSet(log')
  <2>1. flight \in Seq(Update) /\ log \in Seq(Update)
    BY DEF TypeOK
  <2> QED
    BY <1>9, <2>1, ToSetConcat DEF BackendApply, bookVars
<1>10. ASSUME WriterSend \/ WriterStop \/ BackendReject \/ CloseJournal
       PROVE  receipt' = receipt /\ log' = log /\ entries' = entries
  BY <1>10 DEF WriterSend, WriterStop, BackendReject, CloseJournal, bookVars, backendVars
<1> QED
  BY <1>1, <1>2, <1>3, <1>4, <1>6, <1>7, <1>8, <1>9, <1>10, CloseStepFrame
     DEF Next, vars, bookVars, backendVars, Actors

----------------------------------------------------------------------------
(* Open receipts                                                           *)

\* No step loses a receipt that is still open.
LEMMA OpenNext == Inv /\ [Next]_vars => OpenIsServed'
<1> SUFFICES ASSUME Inv, [Next]_vars PROVE OpenIsServed'
  OBVIOUS
<1> USE DEF Inv
\* A step that opens no receipt, loses no queued or sent update and takes no
\* open receipt off the register, while the writer lives.
<1>1. ASSUME \A u \in Update : receipt'[u] = "open" =>
                /\ receipt[u] = "open"
                /\ u \in pending'
                /\ u \in ToSet(mailbox') \cup ToSet(batch'),
             writer' \in {"none", "done"} => writer \in {"none", "done"}
      PROVE  OpenIsServed'
  BY <1>1 DEF OpenIsServed
<1>2. ASSUME NEW a \in Actors, Commit(a) PROVE OpenIsServed'
  <2> DEFINE u == <<a, asked[a] + 1>>
  <2>1. u \in Update /\ u \in Message
    BY <1>2, NextUpdate DEF Commit, Message
  <2>2. /\ mailbox' = Append(mailbox, u)
        /\ pending' = pending \cup {u}
        /\ receipt' = [receipt EXCEPT ![u] = "open"]
        /\ batch' = batch
    BY <1>2 DEF Commit
  <2>3. writer' \notin {"none", "done"}
    BY <1>2 DEF Commit, WriterInv, TypeOK
  <2> HIDE DEF u
  <2>4. mailbox \in Seq(Message)
    BY DEF TypeOK
  <2>5. ToSet(mailbox') = ToSet(mailbox) \cup {u}
    BY <2>1, <2>2, <2>4, ToSetAppend
  <2> QED
    BY <2>1, <2>2, <2>3, <2>5 DEF OpenIsServed, TypeOK
<1>3. ASSUME NEW a \in Actors, CommitRefused(a) PROVE OpenIsServed'
  <2>1. \A u \in Update : receipt'[u] = "open" => receipt[u] = "open"
    BY <1>3 DEF CommitRefused, TypeOK
  <2>2. UNCHANGED <<pending, mailbox, batch, writer>>
    BY <1>3 DEF CommitRefused, writerVars
  <2> QED
    BY <2>1, <2>2 DEF OpenIsServed
<1>4. ASSUME UNCHANGED receipt, UNCHANGED <<mailbox, batch, writer>>,
             \A u \in pending : receipt[u] = "open" => u \in pending'
      PROVE  OpenIsServed'
  BY <1>4 DEF OpenIsServed
<1>5. ASSUME NEW a \in Actors, Spawn(a) \/ Finish(a) \/ Resume(a) \/ CancelWaiter(a)
      PROVE  OpenIsServed'
  <2>1. UNCHANGED <<receipt, mailbox, batch, writer>>
    BY <1>5 DEF Spawn, Finish, Resume, CancelWaiter, bookVars, writerVars
  <2>2. \A u \in pending : receipt[u] = "open" => u \in pending'
    BY <1>5 DEF Spawn, Finish, Resume, CancelWaiter, Unregistered, bookVars
  <2> QED
    BY <1>4, <2>1, <2>2
<1>6. ASSUME WriterSend PROVE OpenIsServed'
  <2>1. PICK n \in 1 .. MaxBatch : /\ n <= Len(mailbox)
                                    /\ batch' = SubSeq(mailbox, 1, n)
                                    /\ mailbox' = RestOfMailbox(n)
    BY <1>6 DEF WriterSend
  <2>2. mailbox' = SubSeq(mailbox, n + 1, Len(mailbox))
    BY <2>1, RestIsSubSeq
  <2>3. n \in 0 .. Len(mailbox) /\ mailbox \in Seq(Message)
    BY <2>1, JournalAssumption DEF TypeOK
  <2>4. ToSet(mailbox) \subseteq ToSet(batch') \cup ToSet(mailbox')
    BY <2>1, <2>2, <2>3, ToSetSplit
  <2>5. batch = <<>>
    BY <1>6 DEF WriterSend, BatchInv
  <2>6. ToSet(batch) = {}
    BY <2>5 DEF ToSet
  <2>7. receipt' = receipt /\ pending' = pending /\ writer' = "sending"
    BY <1>6 DEF WriterSend, bookVars
  <2> QED
    BY <2>4, <2>6, <2>7 DEF OpenIsServed
<1>7. ASSUME WriterStop PROVE OpenIsServed'
  <2>1. mailbox \in Seq(Message) /\ mailbox # <<>> /\ mailbox[1] = Close
    BY <1>7 DEF WriterStop, TypeOK
  <2>2. 1 \in 1 .. Len(mailbox) /\ DOMAIN mailbox = 1 .. Len(mailbox)
    BY <2>1, LenProperties, EmptySeq
  <2>3. Len(mailbox) = 1
    BY <2>1, <2>2 DEF SentinelIsLast
  <2>4. ToSet(mailbox) = {Close}
    BY <2>1, <2>2, <2>3 DEF ToSet
  <2>5. batch = <<>>
    BY <1>7 DEF WriterStop, BatchInv
  <2>6. ToSet(batch) = {}
    BY <2>5 DEF ToSet
  <2>7. \A u \in Update : receipt[u] # "open"
    BY <2>4, <2>6, UpdateIsNotClose DEF OpenIsServed
  <2>8. receipt' = receipt
    BY <1>7 DEF WriterStop, bookVars
  <2> QED
    BY <2>7, <2>8 DEF OpenIsServed
<1>8. ASSUME AcknowledgeBatch, mailbox' = mailbox PROVE OpenIsServed'
  <2>1. \A u \in Update : receipt'[u] = "open" => receipt[u] = "open" /\ u \notin ToSet(batch)
    BY <1>8 DEF AcknowledgeBatch
  <2>2. pending' = pending \ ToSet(batch) /\ writer' = "idle"
    BY <1>8 DEF AcknowledgeBatch
  <2> QED
    BY <1>8, <2>1, <2>2 DEF OpenIsServed
<1>9. ASSUME WriterReceive PROVE OpenIsServed'
  <2>1. mailbox' = mailbox
    BY <1>9 DEF WriterReceive
  <2>2. CASE AcknowledgeBatch
    BY <1>8, <2>1, <2>2
  <2>3. CASE writer' = "paging" /\ UNCHANGED <<bookVars, batch>>
    BY <2>1, <2>3 DEF OpenIsServed, bookVars
  <2> QED
    BY <1>9, <2>2, <2>3 DEF WriterReceive
<1>10. ASSUME WriterLastPage PROVE OpenIsServed'
  BY <1>8, <1>10 DEF WriterLastPage
<1>11. ASSUME BreakJournal PROVE OpenIsServed'
  <2>1. \A u \in Update : receipt'[u] # "open"
    BY <1>11 DEF BreakJournal, OpenIsServed
  <2> QED
    BY <2>1 DEF OpenIsServed
<1>12. ASSUME WriterInterrupted PROVE OpenIsServed'
  <2>1. CASE writer = "created"
    <3>1. UNCHANGED <<bookVars, mailbox, batch>> /\ writer' = "cancelled"
      BY <1>12, <2>1 DEF WriterInterrupted
    <3> QED
      BY <3>1 DEF OpenIsServed, bookVars
  <2>2. CASE writer # "created"
    BY <1>11, <1>12, <2>2 DEF WriterInterrupted
  <2> QED
    BY <2>1, <2>2
<1>13. ASSUME BackendApply \/ BackendReject PROVE OpenIsServed'
  BY <1>13 DEF BackendApply, BackendReject, OpenIsServed, bookVars, writerVars
<1>14. ASSUME BeginClose \/ Drain \/ Gathered \/ WriterAwaited \/ Interrupt \/ Takeover
       PROVE  OpenIsServed'
  <2>1. UNCHANGED <<receipt, mailbox, batch, writer>>
    BY <1>14, CloseStepFrame
  <2>2. \A u \in pending : receipt[u] = "open" => u \in pending'
    BY <1>14 DEF BeginClose, Drain, Gathered, WriterAwaited, Interrupt, Takeover,
                 Unregistered, bookVars
  <2> QED
    BY <1>4, <2>1, <2>2
<1>15. ASSUME CloseJournal PROVE OpenIsServed'
  <2>1. receipt' = receipt /\ pending' = pending /\ batch' = batch /\ writer' = writer
    BY <1>15 DEF CloseJournal, bookVars
  <2>2. mailbox \in Seq(Message) /\ Close \in Message
    BY DEF TypeOK, Message
  <2>3. ToSet(mailbox) \subseteq ToSet(Append(mailbox, Close))
    BY <2>2, ToSetAppend
  <2>4. mailbox' = mailbox \/ mailbox' = Append(mailbox, Close)
    BY <1>15 DEF CloseJournal
  <2>5. ToSet(mailbox) \subseteq ToSet(mailbox')
    BY <2>3, <2>4
  <2> QED
    BY <2>1, <2>5 DEF OpenIsServed
<1>16. CASE UNCHANGED vars
  BY <1>16 DEF OpenIsServed, vars, bookVars, writerVars
<1> QED
  BY <1>2, <1>3, <1>5, <1>6, <1>7, <1>9, <1>10, <1>11, <1>12, <1>13, <1>14, <1>15, <1>16
     DEF Next, Actors, WriterFail, WriterDone

----------------------------------------------------------------------------
(* The theorems                                                            *)

\* The strengthened invariant holds of a new journal.
LEMMA InvInit == Init => Inv
<1> SUFFICES ASSUME Init PROVE Inv
  OBVIOUS
<1>1. SentinelIsLast
  BY DEF Init, SentinelIsLast
<1>2. BatchInv /\ WriterInv
  BY DEF Init, BatchInv, WriterInv
<1>3. AckedIsReadable /\ OpenIsServed
  BY DEF Init, AckedIsReadable, OpenIsServed
<1> QED
  BY <1>1, <1>2, <1>3, TypeInit DEF Inv

\* The strengthened invariant of Journal: what the writer holds, where the
\* sentinel of close stands and when the writer may end, with the types and the
\* two properties of _journal.py they carry.
THEOREM JournalInv == Spec => []Inv
<1>1. Inv /\ [Next]_vars => Inv'
  BY TypeNext, SentinelNext, WriterNext, BatchNext, AckedNext, OpenNext DEF Inv
<1> QED
  BY InvInit, <1>1, PTL DEF Spec

\* A commit returns to its operation only when the update is in the backend and
\* its effect can be read back: Ticket.write relies on it.
THEOREM JournalAcked == Spec => []AckedIsReadable
<1>1. Inv => AckedIsReadable
  BY DEF Inv
<1> QED
  BY JournalInv, <1>1, PTL

\* No open receipt is forgotten: it is registered, its update is queued or
\* being sent, and a writer that has not ended will settle it.
THEOREM JournalServed == Spec => []OpenIsServed
<1>1. Inv => OpenIsServed
  BY DEF Inv
<1> QED
  BY JournalInv, <1>1, PTL
----------------------------------------------------------------------------
(* The order of the commits                                                *)

\* What the backend has applied or may still apply.
Sent == log \o flight

\* The writer may still send what is queued, or what it sends may be applied.
Sending == \/ writer \in {"none", "created", "idle", "paging"}
           \/ writer = "sending" /\ reply # "error"

\* A request is in flight only while its writer waits for the answer, or after
\* a cancellation took the writer away from it.
FlightInv ==
    writer \in {"none", "created", "idle", "paging"} \/ (writer = "sending" /\ reply # "none")
        => flight = <<>>

\* What is applied or in flight is a prefix of the commits.
SentInv == /\ Len(Sent) <= Len(order)
           /\ \A i \in 1 .. Len(Sent) : Sent[i] = order[i]

\* Behind it the mailbox holds the other commits, none left out.
QueueInv == Sending =>
    /\ ~closed => Len(order) = Len(Sent) + Len(mailbox)
    /\ \A i \in 1 .. Len(mailbox) : mailbox[i] # Close =>
          Len(Sent) + i <= Len(order) /\ order[Len(Sent) + i] = mailbox[i]

OrderInv == FlightInv /\ SentInv /\ QueueInv

\* Sequences that agree on the length of the shorter one.
LEMMA PrefixByElements ==
    ASSUME NEW S, NEW s \in Seq(S), NEW t \in Seq(S), Len(s) <= Len(t),
           \A i \in 1 .. Len(s) : s[i] = t[i]
    PROVE  IsPrefix(s, t)
<1>1. Len(s) \in Nat /\ Len(t) \in Nat
  OBVIOUS
<1>2. /\ SubSeq(s, 1, Len(s)) \in Seq(S)
      /\ Len(SubSeq(s, 1, Len(s))) = Len(s)
      /\ \A i \in 1 .. Len(s) : SubSeq(s, 1, Len(s))[i] = s[i]
  OBVIOUS
<1>3. /\ SubSeq(t, 1, Len(s)) \in Seq(S)
      /\ Len(SubSeq(t, 1, Len(s))) = Len(s)
      /\ \A i \in 1 .. Len(s) : SubSeq(t, 1, Len(s))[i] = t[i]
  BY <1>1
<1>4. SubSeq(s, 1, Len(s)) = SubSeq(t, 1, Len(s))
  BY <1>1, <1>2, <1>3, SeqEqual
<1> QED
  BY <1>4 DEF IsPrefix

\* A step that leaves the queue, the request and the order alone.
LEMMA OrderFrame ==
    ASSUME OrderInv, UNCHANGED <<mailbox, order, log, flight, closed>>,
           writer' = writer \/ writer' \in {"done", "cancelled"},
           reply' = reply
    PROVE  OrderInv'
  BY DEF OrderInv, FlightInv, SentInv, QueueInv, Sent, Sending

\* A commit goes to the end of the order and of the mailbox.
LEMMA OrderCommit ==
    ASSUME Inv, OrderInv, NEW a \in Actors, Commit(a)
    PROVE  OrderInv'
<1> DEFINE u == <<a, asked[a] + 1>>
<1>1. u \in Update /\ u \in Message
  BY NextUpdate DEF Inv, Commit, Message
<1>2. mailbox' = Append(mailbox, u) /\ order' = Append(order, u) /\ ~closed /\ closed' = closed
  BY DEF Commit, closeVars
<1>3. log' = log /\ flight' = flight /\ reply' = reply
  BY DEF Commit, backendVars
<1>4. writer' = writer \/ (writer = "none" /\ writer' = "created")
  BY DEF Commit
<1> HIDE DEF u
<1>5. mailbox \in Seq(Message) /\ order \in Seq(Update)
  BY DEF Inv, TypeOK
<1>6. /\ Len(mailbox) \in Nat /\ Len(mailbox') = Len(mailbox) + 1
      /\ \A i \in 1 .. Len(mailbox) : mailbox'[i] = mailbox[i]
      /\ mailbox'[Len(mailbox) + 1] = u
  BY <1>1, <1>2, <1>5
<1>7. /\ Len(order) \in Nat /\ Len(order') = Len(order) + 1
      /\ \A i \in 1 .. Len(order) : order'[i] = order[i]
      /\ order'[Len(order) + 1] = u
  BY <1>1, <1>2, <1>5
<1>8. Sent' = Sent /\ Sent \in Seq(Update)
  BY <1>3, ToSetConcat DEF Sent, Inv, TypeOK
<1>9. Len(Sent) \in Nat
  BY <1>8
<1>10. FlightInv'
  BY <1>3, <1>4 DEF OrderInv, FlightInv
<1>11. SentInv'
  BY <1>7, <1>8, <1>9 DEF OrderInv, SentInv
<1>12. ASSUME Sending' PROVE QueueInv'
  <2>1. Sending
    BY <1>3, <1>4, <1>12 DEF Sending
  <2>2. Len(order) = Len(Sent) + Len(mailbox)
    BY <1>2, <2>1 DEF OrderInv, QueueInv
  <2>3. ASSUME NEW i \in 1 .. Len(mailbox'), mailbox'[i] # Close
        PROVE  Len(Sent) + i <= Len(order') /\ order'[Len(Sent) + i] = mailbox'[i]
    <3>1. CASE i = Len(mailbox) + 1
      BY <1>6, <1>7, <1>9, <2>2, <3>1
    <3>2. CASE i # Len(mailbox) + 1
      <4>1. i \in 1 .. Len(mailbox) /\ mailbox[i] # Close
        BY <1>6, <2>3, <3>2
      <4>2. Len(Sent) + i <= Len(order) /\ order[Len(Sent) + i] = mailbox[i]
        BY <2>1, <4>1 DEF OrderInv, QueueInv
      <4>3. Len(Sent) + i \in 1 .. Len(order)
        BY <1>7, <1>9, <4>1, <4>2
      <4> QED
        BY <1>6, <1>7, <4>1, <4>2, <4>3
    <3> QED
      BY <3>1, <3>2
  <2>4. Len(order') = Len(Sent') + Len(mailbox')
    BY <1>6, <1>7, <1>8, <1>9, <2>2
  <2> QED
    BY <1>8, <2>3, <2>4 DEF QueueInv
<1> QED
  BY <1>10, <1>11, <1>12 DEF OrderInv, QueueInv

\* The writer takes the front of the queue: what it sends follows the log.
LEMMA OrderSend ==
    ASSUME Inv, OrderInv, WriterSend
    PROVE  OrderInv'
<1>1. PICK n \in 1 .. MaxBatch :
         /\ n <= Len(mailbox)
         /\ \A i \in 1 .. n : mailbox[i] # Close
         /\ flight' = SubSeq(mailbox, 1, n)
         /\ mailbox' = RestOfMailbox(n)
  BY DEF WriterSend
<1>2. /\ log' = log /\ order' = order /\ closed' = closed
      /\ reply' = "none" /\ writer' = "sending" /\ Sending
  BY DEF WriterSend, closeVars, Sending
<1>3. flight = <<>> /\ log \in Seq(Update) /\ mailbox \in Seq(Message) /\ order \in Seq(Update)
  BY DEF WriterSend, OrderInv, FlightInv, Inv, TypeOK
<1>4. Sent = log /\ Len(log) \in Nat /\ Len(mailbox) \in Nat /\ Len(order) \in Nat
  BY <1>3, ConcatEmptySeq DEF Sent
<1>5. n \in 0 .. Len(mailbox) /\ n \in Nat /\ n \in 1 .. Len(mailbox)
  BY <1>1, <1>4, JournalAssumption
<1>6. /\ Len(flight') = n
      /\ \A i \in 1 .. n : flight'[i] = mailbox[i]
  BY <1>1, <1>3, <1>5
<1>7. flight' \in Seq(Update)
  BY TypeNext DEF Inv, Next, TypeOK
<1>8. /\ Len(mailbox') = Len(mailbox) - n
      /\ \A i \in 1 .. Len(mailbox) - n : mailbox'[i] = mailbox[n + i]
  <2>1. mailbox' = SubSeq(mailbox, n + 1, Len(mailbox))
    BY <1>1, RestIsSubSeq DEF Inv
  <2> QED
    BY <1>3, <1>5, <2>1, ToSetSplit
<1>9. /\ Len(Sent') = Len(log) + n
      /\ \A i \in 1 .. Len(log) : Sent'[i] = log[i]
      /\ \A i \in 1 .. n : Sent'[Len(log) + i] = mailbox[i]
  <2>1. /\ Len(log \o flight') = Len(log) + n
        /\ \A i \in 1 .. Len(log) + n :
              (log \o flight')[i] = IF i <= Len(log) THEN log[i] ELSE flight'[i - Len(log)]
    BY <1>3, <1>6, <1>7, ConcatProperties
  <2>2. Sent' = log \o flight'
    BY <1>2 DEF Sent
  <2>3. \A i \in 1 .. Len(log) : Sent'[i] = log[i]
    BY <1>4, <1>5, <2>1, <2>2
  <2>4. ASSUME NEW i \in 1 .. n PROVE Sent'[Len(log) + i] = mailbox[i]
    <3>1. Len(log) + i \in 1 .. Len(log) + n /\ ~(Len(log) + i <= Len(log))
          /\ (Len(log) + i) - Len(log) = i
      BY <1>4, <1>5
    <3> QED
      BY <1>6, <2>1, <2>2, <3>1
  <2> QED
    BY <2>1, <2>2, <2>3, <2>4
\* The queue of a sending writer is in the order of the commits.
<1>10. /\ ~closed => Len(order) = Len(log) + Len(mailbox)
       /\ \A i \in 1 .. Len(mailbox) : mailbox[i] # Close =>
             Len(log) + i <= Len(order) /\ order[Len(log) + i] = mailbox[i]
  BY <1>2, <1>4 DEF OrderInv, QueueInv
<1>11. SentInv'
  <2>1. Len(log) + n <= Len(order)
    BY <1>1, <1>5, <1>10
  <2>2. ASSUME NEW i \in 1 .. Len(log) + n PROVE Sent'[i] = order[i]
    <3>1. CASE i <= Len(log)
      <4>1. i \in 1 .. Len(log)
        BY <1>4, <1>5, <3>1
      <4>2. log[i] = order[i]
        BY <1>4, <4>1 DEF OrderInv, SentInv
      <4> QED
        BY <1>9, <4>1, <4>2
    <3>2. CASE i > Len(log)
      <4>1. PICK j \in 1 .. n : i = Len(log) + j
        <5>1. i - Len(log) \in 1 .. n /\ i = Len(log) + (i - Len(log))
          BY <1>4, <1>5, <3>2
        <5> QED
          BY <5>1
      <4>2. j \in 1 .. Len(mailbox) /\ mailbox[j] # Close
        BY <1>1, <1>4, <1>5
      <4> QED
        BY <1>9, <1>10, <4>1, <4>2
    <3> QED
      BY <1>4, <1>5, <3>1, <3>2
  <2> QED
    BY <1>2, <1>9, <2>1, <2>2 DEF SentInv
<1>12. QueueInv'
  <2>1. Len(Sent') + Len(mailbox') = Len(log) + Len(mailbox)
    BY <1>4, <1>5, <1>8, <1>9
  <2>2. ASSUME NEW i \in 1 .. Len(mailbox'), mailbox'[i] # Close
        PROVE  Len(Sent') + i <= Len(order) /\ order[Len(Sent') + i] = mailbox'[i]
    <3>1. n + i \in 1 .. Len(mailbox) /\ i \in 1 .. Len(mailbox) - n
      BY <1>4, <1>5, <1>8
    <3>2. mailbox[n + i] = mailbox'[i]
      BY <1>8, <3>1
    <3>3. Len(log) + (n + i) <= Len(order) /\ order[Len(log) + (n + i)] = mailbox[n + i]
      BY <1>10, <2>2, <3>1, <3>2
    <3>4. Len(Sent') + i = Len(log) + (n + i)
      BY <1>4, <1>5, <1>9, <3>1
    <3> QED
      BY <3>2, <3>3, <3>4
  <2>3. ~closed => Len(order) = Len(Sent') + Len(mailbox')
    BY <1>10, <2>1
  <2> QED
    BY <1>2, <2>2, <2>3 DEF QueueInv
<1>13. FlightInv'
  BY <1>2 DEF FlightInv
<1> QED
  BY <1>11, <1>12, <1>13 DEF OrderInv

\* A request that is applied moves from the flight to the log.
LEMMA OrderApply ==
    ASSUME Inv, OrderInv, BackendApply
    PROVE  OrderInv'
<1>1. /\ log' = log \o flight /\ flight' = <<>> /\ mailbox' = mailbox
      /\ order' = order /\ closed' = closed /\ writer' = writer
      /\ flight # <<>>
  BY DEF BackendApply, writerVars, closeVars
<1>2. Sent \in Seq(Update)
  BY ToSetConcat DEF Sent, Inv, TypeOK
<1>3. Sent' = Sent
  BY <1>1, <1>2, ConcatEmptySeq DEF Sent
<1>4. Sending' => Sending
  BY <1>1 DEF Sending, OrderInv, FlightInv, Inv, BatchInv
<1> QED
  BY <1>1, <1>3, <1>4 DEF OrderInv, FlightInv, SentInv, QueueInv

\* A request that is refused ends the sending of its writer.
LEMMA OrderReject ==
    ASSUME Inv, OrderInv, BackendReject
    PROVE  OrderInv'
<1>1. /\ log' = log /\ flight' = <<>> /\ reply' = "error" /\ mailbox' = mailbox
      /\ order' = order /\ closed' = closed /\ writer' = writer
      /\ flight # <<>>
  BY DEF BackendReject, writerVars, closeVars
<1>2. log \in Seq(Update) /\ flight \in Seq(Update)
  BY DEF Inv, TypeOK
<1>3. Sent' = log
  BY <1>1, <1>2, ConcatEmptySeq DEF Sent
<1>4. /\ Len(log) \in Nat /\ Len(flight) \in Nat /\ Len(Sent) = Len(log) + Len(flight)
      /\ \A i \in 1 .. Len(log) : Sent[i] = log[i]
  BY <1>2 DEF Sent
<1>5. SentInv'
  <2>1. order \in Seq(Update) /\ Len(order) \in Nat
    BY DEF Inv, TypeOK
  <2> QED
    BY <1>1, <1>3, <1>4, <2>1 DEF OrderInv, SentInv
<1>6. ~Sending'
  BY <1>1 DEF Sending, OrderInv, FlightInv
<1> QED
  BY <1>1, <1>5, <1>6 DEF OrderInv, FlightInv, QueueInv

\* Every step keeps the order of the commits.
LEMMA OrderNext == Inv /\ OrderInv /\ [Next]_vars => OrderInv'
<1> SUFFICES ASSUME Inv, OrderInv, [Next]_vars PROVE OrderInv'
  OBVIOUS
<1>1. ASSUME NEW a \in Actors,
             Spawn(a) \/ Finish(a) \/ CommitRefused(a) \/ Resume(a) \/ CancelWaiter(a)
      PROVE  OrderInv'
  BY <1>1, TaskStepFrame, OrderFrame
<1>2. ASSUME NEW a \in Actors, Commit(a) PROVE OrderInv'
  BY <1>2, OrderCommit
<1>3. ASSUME WriterSend PROVE OrderInv'
  BY <1>3, OrderSend
<1>4. ASSUME WriterStop PROVE OrderInv'
  BY <1>4 DEF WriterStop, OrderInv, FlightInv, SentInv, QueueInv, Sent, Sending,
              backendVars
<1>5. ASSUME WriterReceive \/ WriterLastPage PROVE OrderInv'
  BY <1>5 DEF WriterReceive, WriterLastPage, AcknowledgeBatch, OrderInv, FlightInv, SentInv,
              QueueInv, Sent, Sending, closeVars, backendVars
<1>6. ASSUME WriterFail \/ WriterInterrupted \/ WriterDone PROVE OrderInv'
  BY <1>6, OrderFrame DEF WriterFail, WriterInterrupted, WriterDone, closeVars, backendVars
<1>7. ASSUME BackendApply PROVE OrderInv'
  BY <1>7, OrderApply
<1>8. ASSUME BackendReject PROVE OrderInv'
  BY <1>8, OrderReject
<1>9. ASSUME BeginClose \/ Drain \/ Gathered \/ WriterAwaited \/ Interrupt \/ Takeover
      PROVE  OrderInv'
  BY <1>9, CloseStepFrame, OrderFrame
<1>10. ASSUME CloseJournal PROVE OrderInv'
  <2>1. UNCHANGED <<order, log, flight, reply, writer>> /\ closed'
    BY <1>10 DEF CloseJournal, backendVars
  <2>2. mailbox' = mailbox \/ mailbox' = Append(mailbox, Close)
    BY <1>10 DEF CloseJournal
  <2>3. mailbox \in Seq(Message) /\ Close \in Message
    BY DEF Inv, TypeOK, Message
  <2>4. \A i \in 1 .. Len(mailbox') : mailbox'[i] # Close =>
           i \in 1 .. Len(mailbox) /\ mailbox'[i] = mailbox[i]
    BY <2>2, <2>3
  <2> QED
    BY <2>1, <2>4 DEF OrderInv, FlightInv, SentInv, QueueInv, Sent, Sending
<1>11. CASE UNCHANGED vars
  BY <1>11, OrderFrame DEF vars, writerVars, closeVars, backendVars
<1> QED
  BY <1>1, <1>2, <1>3, <1>4, <1>5, <1>6, <1>7, <1>8, <1>9, <1>10, <1>11
     DEF Next, Actors

\* The order of the commits holds with the rest of the invariant.
THEOREM JournalOrder == Spec => [](Inv /\ OrderInv)
<1>1. Init => OrderInv
  <2> SUFFICES ASSUME Init PROVE OrderInv
    OBVIOUS
  <2>1. log = <<>> /\ flight = <<>> /\ order = <<>> /\ mailbox = <<>>
    BY DEF Init
  <2>2. <<>> \in Seq(Update) /\ Len(<<>>) = 0
    BY EmptySeq
  <2>3. Sent = <<>>
    BY <2>1, <2>2, ConcatEmptySeq DEF Sent
  <2> QED
    BY <2>1, <2>2, <2>3 DEF OrderInv, FlightInv, SentInv, QueueInv
<1>2. (Inv /\ OrderInv) /\ [Next]_vars => (Inv /\ OrderInv)'
  BY TypeNext, SentinelNext, WriterNext, BatchNext, AckedNext, OpenNext, OrderNext DEF Inv
<1> QED
  BY InvInit, <1>1, <1>2, PTL DEF Spec

\* Without the request in flight the log is a prefix of the commits too.
LEMMA PrefixOfOrder ==
    ASSUME Inv, OrderInv
    PROVE  LogIsCommitPrefix
<1>1. log \in Seq(Update) /\ flight \in Seq(Update) /\ order \in Seq(Update)
  BY DEF Inv, TypeOK
<1>2. /\ Len(log) \in Nat /\ Len(flight) \in Nat /\ Len(Sent) = Len(log) + Len(flight)
      /\ \A i \in 1 .. Len(log) : Sent[i] = log[i]
  BY <1>1 DEF Sent
<1>3. Len(order) \in Nat
  BY <1>1
<1>4. Len(log) <= Len(order) /\ \A i \in 1 .. Len(log) : log[i] = order[i]
  BY <1>2, <1>3 DEF OrderInv, SentInv
<1> QED
  BY <1>1, <1>4, PrefixByElements DEF LogIsCommitPrefix

\* The backend holds a prefix of the commits of an invocation in the order they
\* were made, whatever batches, pages, cancellations and late requests do.
THEOREM JournalLogPrefix == Spec => []LogIsCommitPrefix
  BY JournalOrder, PrefixOfOrder, PTL

----------------------------------------------------------------------------
(* The journal implements the checkpoint log                               *)

\* An actor has no receipt for the commits it has not made, and the journal
\* fails only with its writer.
AnswerInv ==
    /\ \A u \in Update : u[2] > asked[u[1]] => receipt[u] = "none"
    /\ failure => writer \in {"cancelled", "done"}

\* Every step keeps the receipts of later commits empty.
LEMMA AnswerNext == Inv /\ AnswerInv /\ [Next]_vars => AnswerInv'
<1> SUFFICES ASSUME Inv, AnswerInv, [Next]_vars PROVE AnswerInv'
  OBVIOUS
<1> USE DEF AnswerInv
<1>1. ASSUME NEW a \in Actors, Commit(a) \/ CommitRefused(a) PROVE AnswerInv'
  <2>1. asked \in [Actors -> 0 .. MaxCommits] /\ MaxCommits \in Nat
    BY JournalAssumption DEF Inv, TypeOK
  <2>2. /\ asked' = [asked EXCEPT ![a] = @ + 1]
        /\ \A u \in Update : u # <<a, asked[a] + 1>> => receipt'[u] = receipt[u]
    BY <1>1 DEF Commit, CommitRefused, Inv, TypeOK
  <2>3. ASSUME NEW u \in Update, u[2] > asked'[u[1]] PROVE receipt'[u] = "none"
    <3>1. u[1] \in Actors /\ u[2] \in 1 .. MaxCommits /\ u = <<u[1], u[2]>>
      BY DEF Update
    <3>2. u[2] > asked[u[1]] /\ u # <<a, asked[a] + 1>>
      BY <2>1, <2>2, <2>3, <3>1
    <3> QED
      BY <2>2, <3>2
  <2>4. failure' = failure /\ (writer' = writer \/ ~failure)
    BY <1>1 DEF Commit, CommitRefused, writerVars
  <2> QED
    BY <2>3, <2>4
<1>2. ASSUME NEW a \in Actors, Spawn(a) \/ Finish(a) \/ Resume(a) \/ CancelWaiter(a)
      PROVE  AnswerInv'
  BY <1>2 DEF Spawn, Finish, Resume, CancelWaiter, bookVars, writerVars
<1>3. ASSUME WriterSend \/ WriterStop PROVE AnswerInv'
  BY <1>3 DEF WriterSend, WriterStop, actorVars, bookVars
<1>4. ASSUME WriterReceive \/ WriterLastPage PROVE AnswerInv'
  BY <1>4 DEF WriterReceive, WriterLastPage, AcknowledgeBatch, actorVars, bookVars
<1>5. ASSUME WriterFail \/ WriterInterrupted \/ WriterDone PROVE AnswerInv'
  BY <1>5 DEF WriterFail, WriterInterrupted, WriterDone, BreakJournal, actorVars, bookVars
<1>6. ASSUME BackendApply \/ BackendReject \/ Takeover PROVE AnswerInv'
  BY <1>6 DEF BackendApply, BackendReject, Takeover, actorVars, bookVars, writerVars
<1>7. ASSUME BeginClose \/ Drain \/ Gathered \/ CloseJournal \/ WriterAwaited \/ Interrupt
      PROVE  AnswerInv'
  BY <1>7 DEF BeginClose, Drain, Gathered, CloseJournal, WriterAwaited, Interrupt,
              actorVars, bookVars, writerVars
<1>8. CASE UNCHANGED vars
  BY <1>8 DEF vars, actorVars, bookVars, writerVars
<1> QED
  BY <1>1, <1>2, <1>3, <1>4, <1>5, <1>6, <1>7, <1>8 DEF Next, Actors

\* What the abstract log sees, left as it is.
LEMMA RefineStutter ==
    ASSUME UNCHANGED <<order, log, receipt, failure>>
    PROVE  UNCHANGED Log!absVars
  BY DEF Log!absVars

\* A commit is submitted, or refused by a journal that is broken or closed.
LEMMA RefineCommit ==
    ASSUME Inv, AnswerInv, NEW a \in Actors, Commit(a) \/ CommitRefused(a)
    PROVE  Log!Next
<1> DEFINE u == <<a, asked[a] + 1>>
<1>1. asked[a] < MaxCommits
  BY DEF Commit, CommitRefused
<1>2. u \in Update /\ asked[a] \in Nat
  <2>1. TypeOK
    BY DEF Inv
  <2>2. asked[a] \in 0 .. MaxCommits
    BY <2>1 DEF TypeOK
  <2> QED
    BY <1>1, <2>1, <2>2, NextUpdate
<1>3. receipt[u] = "none"
  BY <1>2 DEF AnswerInv
<1>4. CASE Commit(a)
  <2>1. /\ ~failure /\ order' = Append(order, u)
        /\ receipt' = [receipt EXCEPT ![u] = "open"]
        /\ UNCHANGED <<log, failure>>
    BY <1>4 DEF Commit, backendVars
  <2> HIDE DEF u
  <2>2. Log!Submit(u)
    BY <1>3, <2>1 DEF Log!Submit
  <2> QED
    BY <1>2, <2>2 DEF Log!Next
<1>5. CASE CommitRefused(a)
  <2>1. /\ receipt' = [receipt EXCEPT ![u] = "refused"]
        /\ UNCHANGED <<log, order, failure>>
    BY <1>5 DEF CommitRefused, backendVars
  <2> HIDE DEF u
  <2>2. Log!Refuse(u)
    BY <1>3, <2>1 DEF Log!Refuse
  <2> QED
    BY <1>2, <2>2 DEF Log!Next
<1> QED
  BY <1>4, <1>5

\* A request the backend applies makes more of the commits durable.
LEMMA RefineApply ==
    ASSUME Inv, OrderInv, BackendApply
    PROVE  Log!Next
<1>1. /\ log' = log \o flight /\ flight # <<>>
      /\ UNCHANGED <<order, receipt, failure>>
  BY DEF BackendApply, bookVars
<1>2. log \in Seq(Update) /\ flight \in Seq(Update) /\ order \in Seq(Update)
  BY DEF Inv, TypeOK
<1>3. /\ Len(log) \in Nat /\ Len(flight) \in Nat \ {0} /\ Len(order) \in Nat
      /\ Len(log') = Len(log) + Len(flight)
  BY <1>1, <1>2, EmptySeq
<1>4. Len(log') <= Len(order)
  BY <1>1 DEF OrderInv, SentInv, Sent
<1>5. Len(log') \in Len(log) + 1 .. Len(order)
  BY <1>3, <1>4
<1>6. Log!Persist
  BY <1>1, <1>5 DEF Log!Persist
<1> QED
  BY <1>6 DEF Log!Next

\* The receipts of a batch are settled once its updates lie in the durable
\* prefix; a batch nobody waits for any more changes nothing the log sees.
LEMMA RefineAcknowledge ==
    ASSUME Inv, OrderInv, AnswerInv, AcknowledgeBatch, UNCHANGED <<order, log>>,
           ToSet(batch) \subseteq ToSet(log), writer \in {"sending", "paging"}
    PROVE  Log!Next \/ UNCHANGED Log!absVars
<1> DEFINE us == {u \in Update : u \in ToSet(batch) /\ receipt[u] = "open"}
<1>1. ~failure /\ failure' = failure
  BY DEF AnswerInv, AcknowledgeBatch
<1>2. receipt' = [u \in Update |-> IF u \in us THEN "ok" ELSE receipt[u]]
  BY DEF AcknowledgeBatch
<1>3. CASE us = {}
  <2>1. receipt' = [u \in Update |-> receipt[u]]
    BY <1>2, <1>3
  <2>2. receipt = [u \in Update |-> receipt[u]]
    BY DEF Inv, TypeOK
  <2> QED
    BY <1>1, <2>1, <2>2, RefineStutter
<1>4. CASE us # {}
  <2>1. SubSeq(log, 1, Len(log)) = SubSeq(order, 1, Len(log))
    BY PrefixOfOrder DEF LogIsCommitPrefix, IsPrefix
  <2>2. SubSeq(log, 1, Len(log)) = log
    BY SubSeqFull DEF Inv, TypeOK
  <2>3. us \subseteq Log!Open /\ us \subseteq Log!ToSet(SubSeq(order, 1, Len(log)))
    BY <2>1, <2>2 DEF Log!Open, Log!ToSet, ToSet
  <2> HIDE DEF us
  <2>4. us \in SUBSET (Log!Open \cap Log!ToSet(SubSeq(order, 1, Len(log))))
    BY <2>3
  <2>5. Log!Acknowledge
    BY <1>1, <1>2, <1>4, <2>4 DEF Log!Acknowledge
  <2> QED
    BY <2>5 DEF Log!Next
<1> QED
  BY <1>3, <1>4

\* A journal that breaks fails every receipt that is still open, for it is
\* registered.
LEMMA RefineBreak ==
    ASSUME Inv, BreakJournal, UNCHANGED <<order, log>>
    PROVE  Log!Next
<1>1. receipt' = [u \in Update |->
                     IF u \in pending /\ receipt[u] = "open" THEN "failed" ELSE receipt[u]]
  BY DEF BreakJournal
<1>2. \A u \in Update : (u \in pending /\ receipt[u] = "open") <=> u \in Log!Open
  BY DEF Inv, OpenIsServed, Log!Open
<1>3. receipt' = [u \in Update |-> IF u \in Log!Open THEN "failed" ELSE receipt[u]]
  BY <1>1, <1>2
<1>4. failure' = TRUE
  BY DEF BreakJournal
<1>5. Log!Break
  BY <1>3, <1>4 DEF Log!Break
<1> QED
  BY <1>5 DEF Log!Next

\* Every step of the writer, the backend, the operations and close is a step of
\* the checkpoint log, or none.
LEMMA RefineNext ==
    Inv /\ OrderInv /\ AnswerInv /\ [Next]_vars => [Log!Next]_(Log!absVars)
<1> SUFFICES ASSUME Inv, OrderInv, AnswerInv, [Next]_vars
             PROVE  Log!Next \/ UNCHANGED Log!absVars
  OBVIOUS
<1>1. ASSUME NEW a \in Actors, Spawn(a) \/ Finish(a) \/ Resume(a) \/ CancelWaiter(a)
      PROVE  UNCHANGED <<order, log, receipt, failure>>
  BY <1>1 DEF Spawn, Finish, Resume, CancelWaiter, bookVars, backendVars
<1>2. ASSUME WriterSend \/ WriterStop \/ BackendReject \/ CloseJournal
      PROVE  UNCHANGED <<order, log, receipt, failure>>
  BY <1>2 DEF WriterSend, WriterStop, BackendReject, CloseJournal, bookVars, backendVars
<1>3. ASSUME WriterReceive PROVE Log!Next \/ UNCHANGED Log!absVars
  <2>1. /\ UNCHANGED <<order, log>> /\ writer = "sending"
        /\ ToSet(batch) \subseteq ToSet(log)
    BY <1>3 DEF WriterReceive, Inv, BatchInv
  <2>2. CASE AcknowledgeBatch
    BY <2>1, <2>2, RefineAcknowledge
  <2>3. CASE UNCHANGED bookVars
    BY <2>1, <2>3, RefineStutter DEF bookVars
  <2> QED
    BY <1>3, <2>2, <2>3 DEF WriterReceive
<1>4. ASSUME WriterLastPage PROVE Log!Next \/ UNCHANGED Log!absVars
  <2>1. /\ UNCHANGED <<order, log>> /\ writer = "paging" /\ AcknowledgeBatch
        /\ ToSet(batch) \subseteq ToSet(log)
    BY <1>4 DEF WriterLastPage, Inv, BatchInv, backendVars
  <2> QED
    BY <2>1, RefineAcknowledge
<1>5. ASSUME WriterFail \/ WriterDone PROVE Log!Next
  BY <1>5, RefineBreak DEF WriterFail, WriterDone, backendVars
<1>6. ASSUME WriterInterrupted PROVE Log!Next \/ UNCHANGED Log!absVars
  <2>1. UNCHANGED <<order, log>> /\ (UNCHANGED bookVars \/ BreakJournal)
    BY <1>6 DEF WriterInterrupted, backendVars
  <2> QED
    BY <2>1, RefineBreak, RefineStutter DEF bookVars
<1>7. CASE UNCHANGED vars
  BY <1>7, RefineStutter DEF vars, bookVars, backendVars
<1> QED
  BY <1>1, <1>2, <1>3, <1>4, <1>5, <1>6, <1>7, RefineCommit, RefineApply, RefineStutter,
     CloseStepFrame DEF Next, Actors

\* The writer, the mailbox, the batches and the pages implement what the
\* journal promises to its operations, for every set of tasks and every bound.
THEOREM JournalImplements == Spec => ImplementsCheckpointLog
<1>1. Init => Log!Init
  <2> SUFFICES ASSUME Init PROVE Log!Init
    OBVIOUS
  <2>1. log = <<>> /\ order = <<>> /\ failure = FALSE /\ receipt = [u \in Update |-> "none"]
    BY DEF Init
  <2>2. Len(log) = 0
    BY <2>1, EmptySeq
  <2> QED
    BY <2>1, <2>2 DEF Log!Init
<1>2. Init => AnswerInv
  BY DEF Init, AnswerInv
<1>3. Spec => []AnswerInv
  BY <1>2, JournalInv, AnswerNext, PTL DEF Spec
<1> QED
  BY <1>1, <1>3, JournalOrder, RefineNext, PTL DEF Spec, Log!Spec, ImplementsCheckpointLog
=============================================================================
