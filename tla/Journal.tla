------------------------------ MODULE Journal ------------------------------
(***************************************************************************)
(* The journal of one invocation (_journal.py, class Journal) and the       *)
(* supervisor that closes it (_effects.py, invoke_workflow).                *)
(*                                                                         *)
(* Durable operations run as tasks.  A task commits an update by putting it *)
(* in the mailbox with a receipt and waiting for the receipt.  A single     *)
(* writer task takes everything that is ready, sends it as one checkpoint   *)
(* under the lease token, merges the response and its further pages into    *)
(* the entries and only then settles the receipts.  Closing cancels and     *)
(* gathers the tasks until none is left, refuses later commits, and sends   *)
(* the writer a sentinel; an aborting close also cancels the writer.        *)
(*                                                                         *)
(* The event loop runs one callback at a time, so a stretch of code with no *)
(* await in it is one action.                                               *)
(***************************************************************************)
EXTENDS Naturals, Sequences, FiniteSets, SequencesExt

CONSTANTS
    Tasks,           \* operation tasks started with Journal.spawn
    Handler,         \* the task that runs invoke_workflow
    Close,           \* the sentinel of close() in the mailbox (None in the code)
    MaxCommits,      \* bound: commits per actor
    MaxBatch,        \* updates per checkpoint request (100 in the code)
    MaxTakeovers,    \* bound: times another invocation takes the lease
    MaxInterrupts    \* bound: cancellations of the handler while it closes

ASSUME JournalAssumption ==
    /\ Handler \notin Tasks
    /\ Close \notin (Tasks \cup {Handler}) \X (1 .. MaxCommits)
    /\ MaxCommits \in Nat
    /\ MaxBatch \in Nat \ {0}
    /\ MaxTakeovers \in Nat
    /\ MaxInterrupts \in Nat

Actors == Tasks \cup {Handler}
Update == Actors \X (1 .. MaxCommits)
Message == Update \cup {Close}

VARIABLES
    \* the actors
    task,            \* life of each task: "unborn", "running", "waiting", "done"
    asked,           \* commits each actor has made
    \* Journal
    mailbox,         \* asyncio.Queue of updates, and at the end the sentinel
    receipt,         \* the future of each update
    pending,         \* updates whose receipts are registered
    writer,          \* the writer task
    writerCancel,    \* cancel() was called on it and has not arrived yet
    batch,           \* updates the writer is sending
    failure,         \* Journal.failure is set
    token,           \* lease token the journal holds
    entries,         \* updates whose effect the journal can read back
    closed,          \* Journal.closed
    phase,           \* where close() is
    abort,           \* close(abort=True)
    gathering,       \* tasks the closing handler waits for
    interrupts,      \* cancellations that reached the closing handler
    order,           \* accepted updates in the order of their commits (history)
    \* the backend
    flight,          \* the checkpoint request the backend has not decided
    reply,           \* its answer
    grant,           \* the token a successful answer carries
    log,             \* updates the backend has applied
    lease            \* token the backend will accept

actorVars == <<task, asked>>
writerVars == <<writer, writerCancel, batch>>
bookVars == <<receipt, pending, failure>>
closeVars == <<closed, phase, abort, gathering, interrupts>>
backendVars == <<flight, reply, grant, log, lease>>
vars == <<actorVars, mailbox, order, bookVars, writerVars, token, entries,
          closeVars, backendVars>>

Init ==
    /\ task = [a \in Actors |-> IF a = Handler THEN "running" ELSE "unborn"]
    /\ asked = [a \in Actors |-> 0]
    /\ mailbox = <<>>
    /\ receipt = [u \in Update |-> "none"]
    /\ pending = {}
    /\ writer = "none"
    /\ writerCancel = FALSE
    /\ batch = <<>>
    /\ failure = FALSE
    /\ token = 0
    /\ entries = {}
    /\ closed = FALSE
    /\ phase = "open"
    /\ abort = FALSE
    /\ gathering = {}
    /\ interrupts = 0
    /\ order = <<>>
    /\ flight = <<>>
    /\ reply = "none"
    /\ grant = 0
    /\ log = <<>>
    /\ lease = 0

----------------------------------------------------------------------------
(* Operation tasks                                                         *)

Live == {t \in Tasks : task[t] \in {"running", "waiting"}}

\* Journal.spawn: refused once the journal is closed.
Spawn(t) ==
    /\ task[t] = "unborn"
    /\ task' = [task EXCEPT ![t] = IF closed THEN "done" ELSE "running"]
    /\ UNCHANGED <<asked, mailbox, order, bookVars, writerVars, token, entries,
                   closeVars, backendVars>>

\* Journal.commit of a journal that has failed or is closed raises.
CommitRefused(a) ==
    LET u == <<a, asked[a] + 1>> IN
    /\ task[a] = "running"
    /\ asked[a] < MaxCommits
    /\ failure \/ closed
    /\ asked' = [asked EXCEPT ![a] = @ + 1]
    /\ receipt' = [receipt EXCEPT ![u] = "refused"]
    /\ UNCHANGED <<task, mailbox, order, pending, failure, writerVars, token,
                   entries, closeVars, backendVars>>

\* Faulty variant of Commit: it does not look at the failure.
CommitIgnoringFailure(a) ==
    LET u == <<a, asked[a] + 1>> IN
    /\ task[a] = "running"
    /\ asked[a] < MaxCommits
    /\ ~closed
    /\ asked' = [asked EXCEPT ![a] = @ + 1]
    /\ receipt' = [receipt EXCEPT ![u] = "open"]
    /\ pending' = pending \cup {u}
    /\ mailbox' = Append(mailbox, u)
    /\ order' = Append(order, u)
    /\ writer' = IF writer = "none" THEN "created" ELSE writer
    /\ task' = [task EXCEPT ![a] = "waiting"]
    /\ UNCHANGED <<failure, writerCancel, batch, token, entries, closeVars,
                   backendVars>>

\* Journal.commit: register the receipt, queue the update, start the writer
\* when there is none, wait for the receipt.
Commit(a) ==
    LET u == <<a, asked[a] + 1>> IN
    /\ task[a] = "running"
    /\ asked[a] < MaxCommits
    /\ ~failure /\ ~closed
    /\ asked' = [asked EXCEPT ![a] = @ + 1]
    /\ receipt' = [receipt EXCEPT ![u] = "open"]
    /\ pending' = pending \cup {u}
    /\ mailbox' = Append(mailbox, u)
    /\ order' = Append(order, u)
    /\ writer' = IF writer = "none" THEN "created" ELSE writer
    /\ task' = [task EXCEPT ![a] = "waiting"]
    /\ UNCHANGED <<failure, writerCancel, batch, token, entries, closeVars,
                   backendVars>>

\* The shielded wait of commit ends because the receipt is settled.
Resume(a) ==
    LET u == <<a, asked[a]>> IN
    /\ task[a] = "waiting"
    /\ receipt[u] # "open"
    /\ task' = [task EXCEPT ![a] = "running"]
    /\ pending' = pending \ {u}
    /\ UNCHANGED <<asked, mailbox, order, receipt, failure, writerVars, token,
                   entries, closeVars, backendVars>>

\* Waiters that cancellation throws out of commit: the receipt is taken off
\* the register only when it is settled.
Unregistered(as) ==
    {<<a, asked[a]>> : a \in {b \in as : task[b] = "waiting"}}
        \cap {u \in Update : receipt[u] # "open"}

\* A group, a handler or the invoker cancels a task that waits in commit.
CancelWaiter(a) ==
    /\ task[a] = "waiting"
    /\ task' = [task EXCEPT ![a] = "running"]
    /\ pending' = pending \ Unregistered({a})
    /\ UNCHANGED <<asked, mailbox, order, receipt, failure, writerVars, token,
                   entries, closeVars, backendVars>>

Finish(t) ==
    /\ task[t] = "running"
    /\ task' = [task EXCEPT ![t] = "done"]
    /\ UNCHANGED <<asked, mailbox, order, bookVars, writerVars, token, entries,
                   closeVars, backendVars>>

----------------------------------------------------------------------------
(* The writer task                                                         *)

\* Faulty variant of BreakJournal: it fails the receipts of the batch only.
BreakBatch ==
    /\ failure' = TRUE
    /\ receipt' = [u \in Update |->
                      IF u \in ToSet(batch) /\ receipt[u] = "open"
                      THEN "failed" ELSE receipt[u]]
    /\ pending' = pending \ ToSet(batch)

\* _break: everything that is still registered is failed and dropped.
BreakJournal ==
    /\ failure' = TRUE
    /\ receipt' = [u \in Update |->
                      IF u \in pending /\ receipt[u] = "open"
                      THEN "failed" ELSE receipt[u]]
    /\ pending' = {}

\* Faulty variant of RestOfMailbox: the sentinel is not put back.
RestWithoutSentinel(n) ==
    LET rest == SubSeq(mailbox, n + 1, Len(mailbox)) IN
    IF n < MaxBatch /\ rest # <<>> /\ Head(rest) = Close THEN Tail(rest) ELSE rest

\* What is left of the mailbox once n messages are in the batch: the sentinel,
\* if it stopped the batch, goes back to the end of the queue.
RestOfMailbox(n) ==
    LET rest == SubSeq(mailbox, n + 1, Len(mailbox)) IN
    IF n < MaxBatch /\ rest # <<>> /\ Head(rest) = Close
    THEN Append(Tail(rest), Close)
    ELSE rest

\* The writer takes the first ready update and every further one up to the
\* sentinel, the count limit or the size limit (any prefix, for the sizes are
\* abstracted), and calls backend.transact.
WriterSend ==
    /\ writer \in {"created", "idle"} /\ ~writerCancel
    /\ \E n \in 1 .. MaxBatch :
          /\ n <= Len(mailbox)
          /\ \A i \in 1 .. n : mailbox[i] # Close
          /\ batch' = SubSeq(mailbox, 1, n)
          /\ flight' = SubSeq(mailbox, 1, n)
          /\ mailbox' = RestOfMailbox(n)
    /\ reply' = "none"
    /\ writer' = "sending"
    /\ UNCHANGED <<actorVars, order, bookVars, writerCancel, token, entries,
                   closeVars, grant, log, lease>>

\* The sentinel ends the loop.
WriterStop ==
    /\ writer \in {"created", "idle"} /\ ~writerCancel
    /\ mailbox # <<>> /\ Head(mailbox) = Close
    /\ mailbox' = Tail(mailbox)
    /\ writer' = "done"
    /\ UNCHANGED <<actorVars, order, bookVars, writerCancel, batch, token,
                   entries, closeVars, backendVars>>

\* set_result on the receipts of the batch that are not done, and off the
\* register with all of them.
AcknowledgeBatch ==
    /\ receipt' = [u \in Update |->
                      IF u \in ToSet(batch) /\ receipt[u] = "open"
                      THEN "ok" ELSE receipt[u]]
    /\ pending' = pending \ ToSet(batch)
    /\ batch' = <<>>
    /\ writer' = "idle"
    /\ UNCHANGED failure

\* Faulty variant of WriterReceive: the receipts are settled before the other
\* pages of the response are there.
WriterReceiveEarly ==
    /\ writer = "sending" /\ ~writerCancel
    /\ reply = "applied"
    /\ token' = grant
    /\ reply' = "none"
    /\ \E part \in SUBSET ToSet(batch) : entries' = entries \cup part
    /\ AcknowledgeBatch
    /\ UNCHANGED <<actorVars, mailbox, order, writerCancel, closeVars, flight,
                   grant, log, lease>>

\* The writer receives the response to its request: the next token and a first
\* part of the new state.  A NextMarker sends it to fetch the other pages.
WriterReceive ==
    /\ writer = "sending" /\ ~writerCancel
    /\ reply = "applied"
    /\ token' = grant
    /\ reply' = "none"
    /\ \/ /\ entries' = entries \cup ToSet(batch)
          /\ AcknowledgeBatch
       \/ /\ \E part \in SUBSET ToSet(batch) : entries' = entries \cup part
          /\ writer' = "paging"
          /\ UNCHANGED <<bookVars, batch>>
    /\ UNCHANGED <<actorVars, mailbox, order, writerCancel, closeVars, flight,
                   grant, log, lease>>

\* The last page of the response (the pages before it are part of the first
\* part above).
WriterLastPage ==
    /\ writer = "paging" /\ ~writerCancel
    /\ entries' = entries \cup ToSet(batch)
    /\ AcknowledgeBatch
    /\ UNCHANGED <<actorVars, mailbox, order, writerCancel, token, closeVars,
                   backendVars>>

\* Faulty variant of WriterFail: the error is left to the batch and the writer
\* goes on with the queue.
WriterFailContinues ==
    /\ ~writerCancel
    /\ \/ writer = "sending" /\ reply = "error"
       \/ writer = "paging"
    /\ receipt' = [u \in Update |->
                      IF u \in ToSet(batch) /\ receipt[u] = "open"
                      THEN "failed" ELSE receipt[u]]
    /\ pending' = pending \ ToSet(batch)
    /\ batch' = <<>>
    /\ writer' = "idle"
    /\ UNCHANGED <<actorVars, mailbox, order, failure, writerCancel, token,
                   entries, closeVars, backendVars>>

\* transact or page raises: the error breaks the journal and the writer ends.
WriterFail ==
    /\ ~writerCancel
    /\ \/ writer = "sending" /\ reply = "error"
       \/ writer = "paging"
    /\ BreakJournal
    /\ writer' = "done"
    /\ UNCHANGED <<actorVars, mailbox, order, writerCancel, batch, token,
                   entries, closeVars, backendVars>>

\* A requested cancellation arrives.  A writer that never ran does not reach
\* the handler in its loop that breaks the journal.
WriterInterrupted ==
    /\ writerCancel
    /\ writer \in {"created", "idle", "sending", "paging"}
    /\ writerCancel' = FALSE
    /\ writer' = "cancelled"
    /\ IF writer = "created" THEN UNCHANGED bookVars ELSE BreakJournal
    /\ UNCHANGED <<actorVars, mailbox, order, batch, token, entries, closeVars,
                   backendVars>>

\* Faulty variant of WriterDone: no callback looks after a cancelled writer.
WriterDoneUnnoticed ==
    /\ writer = "cancelled"
    /\ writer' = "done"
    /\ UNCHANGED <<actorVars, mailbox, order, bookVars, writerCancel, batch,
                   token, entries, closeVars, backendVars>>

\* _writer_done, the callback of a cancelled writer, breaks the journal.
WriterDone ==
    /\ writer = "cancelled"
    /\ BreakJournal
    /\ writer' = "done"
    /\ UNCHANGED <<actorVars, mailbox, order, writerCancel, batch, token,
                   entries, closeVars, backendVars>>

----------------------------------------------------------------------------
(* The backend, modelled from how the writer uses it                        *)

\* The request is applied as a whole; its response arrives or is lost.  A
\* request outlives the writer that sent it.
BackendApply ==
    /\ flight # <<>>
    /\ token = lease
    /\ log' = log \o flight
    /\ lease' = lease + 1
    /\ grant' = lease + 1
    /\ flight' = <<>>
    /\ reply' \in {"applied", "error"}
    /\ UNCHANGED <<actorVars, mailbox, order, bookVars, writerVars, token,
                   entries, closeVars>>

\* A stale lease, an invalid update or an outage: nothing is applied.
BackendReject ==
    /\ flight # <<>>
    /\ flight' = <<>>
    /\ reply' = "error"
    /\ UNCHANGED <<actorVars, mailbox, order, bookVars, writerVars, token,
                   entries, closeVars, grant, log, lease>>

\* Another invocation of the execution is handed the next lease.
Takeover ==
    /\ lease < MaxTakeovers
    /\ lease' = lease + 1
    /\ UNCHANGED <<actorVars, mailbox, order, bookVars, writerVars, token,
                   entries, closeVars, flight, reply, grant, log>>

----------------------------------------------------------------------------
(* The handler closes the journal                                          *)

\* The handler's coroutine ends, by a value, an error or a Pause, or because
\* the invocation was cancelled (abort).
BeginClose ==
    /\ phase = "open"
    /\ task[Handler] = "running"
    /\ task' = [task EXCEPT ![Handler] = "done"]
    /\ abort' \in BOOLEAN
    /\ phase' = "draining"
    /\ UNCHANGED <<asked, mailbox, order, bookVars, writerVars, token, entries,
                   closed, gathering, interrupts, backendVars>>

\* One round of the loop of close: cancel every running task and gather them.
Drain ==
    /\ phase = "draining"
    /\ Live # {}
    /\ gathering' = Live
    /\ phase' = "gathering"
    /\ task' = [a \in Actors |->
                   IF a \in Live /\ task[a] = "waiting" THEN "running" ELSE task[a]]
    /\ pending' = pending \ Unregistered(Live)
    /\ UNCHANGED <<asked, mailbox, order, receipt, failure, writerVars, token,
                   entries, closed, abort, interrupts, backendVars>>

\* The gathered tasks have ended.  A gather that was cancelled meanwhile
\* raises out of close.
Gathered ==
    /\ phase = "gathering"
    /\ \A t \in gathering : task[t] = "done"
    /\ gathering' = {}
    /\ phase' = IF interrupts > 0 THEN "escaped" ELSE "draining"
    /\ UNCHANGED <<actorVars, mailbox, order, bookVars, writerVars, token,
                   entries, closed, abort, interrupts, backendVars>>

\* No task is left: refuse later commits, post the sentinel, cancel the writer
\* when aborting.
CloseJournal ==
    /\ phase = "draining"
    /\ Live = {}
    /\ closed' = TRUE
    /\ IF writer = "none"
       THEN /\ phase' = "closed"
            /\ UNCHANGED <<mailbox, writerCancel>>
       ELSE /\ phase' = "awaiting"
            /\ mailbox' = Append(mailbox, Close)
            /\ writerCancel' = (abort /\ writer # "done")
    /\ UNCHANGED <<actorVars, order, bookVars, writer, batch, token, entries,
                   abort, gathering, interrupts, backendVars>>

\* await self.writer returns.
WriterAwaited ==
    /\ phase = "awaiting"
    /\ writer = "done"
    /\ phase' = "closed"
    /\ UNCHANGED <<actorVars, mailbox, order, bookVars, writerVars, token,
                   entries, closed, abort, gathering, interrupts, backendVars>>

\* The handler is cancelled while it closes.  The cancellation passes on to
\* what close waits for: the gathered tasks, or the writer.
Interrupt ==
    /\ interrupts < MaxInterrupts
    /\ interrupts' = interrupts + 1
    /\ \/ /\ phase = "gathering"
          /\ task' = [a \in Actors |->
                         IF a \in gathering /\ task[a] = "waiting"
                         THEN "running" ELSE task[a]]
          /\ pending' = pending \ Unregistered(gathering)
          /\ UNCHANGED writerCancel
       \/ /\ phase = "awaiting"
          /\ writerCancel' = (writer \notin {"cancelled", "done"})
          /\ UNCHANGED <<task, pending>>
    /\ UNCHANGED <<asked, mailbox, order, receipt, failure, writer, batch,
                   token, entries, closed, phase, abort, gathering,
                   backendVars>>

----------------------------------------------------------------------------
OperationStep(a) == Resume(a) \/ (a \in Tasks /\ Finish(a))
WriterStep == \/ WriterSend \/ WriterStop \/ WriterReceive \/ WriterLastPage
              \/ WriterFail \/ WriterInterrupted \/ WriterDone
BackendStep == BackendApply \/ BackendReject
CloseStep == BeginClose \/ Drain \/ Gathered \/ CloseJournal \/ WriterAwaited

Next ==
    \/ \E t \in Tasks : Spawn(t) \/ Finish(t)
    \/ \E a \in Actors : Commit(a) \/ CommitRefused(a) \/ Resume(a) \/ CancelWaiter(a)
    \/ WriterSend \/ WriterStop \/ WriterReceive \/ WriterLastPage
    \/ WriterFail \/ WriterInterrupted \/ WriterDone
    \/ BackendApply \/ BackendReject \/ Takeover
    \/ BeginClose \/ Drain \/ Gathered \/ CloseJournal \/ WriterAwaited
    \/ Interrupt

Spec == Init /\ [][Next]_vars

\* The event loop runs what is ready; a request is answered or times out; the
\* body of an operation ends, and so does the handler's.
Fairness ==
    /\ \A a \in Actors : WF_vars(OperationStep(a))
    /\ WF_vars(WriterStep)
    /\ WF_vars(BackendStep)
    /\ WF_vars(CloseStep)

FairSpec == Spec /\ Fairness

----------------------------------------------------------------------------
(* Properties                                                              *)

\* Every variable has its type; tokens and grants are counted, not compared.
TypeOK ==
    /\ task \in [Actors -> {"unborn", "running", "waiting", "done"}]
    /\ asked \in [Actors -> 0 .. MaxCommits]
    /\ mailbox \in Seq(Message)
    /\ receipt \in [Update -> {"none", "open", "ok", "failed", "refused"}]
    /\ pending \in SUBSET Update
    /\ writer \in {"none", "created", "idle", "sending", "paging", "cancelled", "done"}
    /\ writerCancel \in BOOLEAN
    /\ batch \in Seq(Update)
    /\ failure \in BOOLEAN
    /\ token \in Nat
    /\ entries \in SUBSET Update
    /\ closed \in BOOLEAN
    /\ phase \in {"open", "draining", "gathering", "awaiting", "closed", "escaped"}
    /\ abort \in BOOLEAN
    /\ gathering \in SUBSET Tasks
    /\ interrupts \in 0 .. MaxInterrupts
    /\ order \in Seq(Update)
    /\ flight \in Seq(Update)
    /\ reply \in {"none", "applied", "error"}
    /\ grant \in Nat
    /\ log \in Seq(Update)
    /\ lease \in Nat

\* An operation goes on after its commit only when the backend holds the
\* update and the journal can read its effect, whatever page of the response
\* the effect came on (steps read ticket.entry right after their write).
AckedIsReadable ==
    \A u \in Update : receipt[u] = "ok" => u \in ToSet(log) /\ u \in entries

\* The backend holds a prefix of the commits in the order they were made: no
\* batch, page, cancellation or late request skips, repeats or reorders one.
LogIsCommitPrefix == IsPrefix(log, order)

\* "Receipts remain registered until acknowledged": an open receipt is
\* registered, its update is queued or being sent, and a writer is there to
\* settle it.
OpenIsServed ==
    \A u \in Update : receipt[u] = "open" =>
        /\ u \in pending
        /\ u \in ToSet(mailbox) \cup ToSet(batch)
        /\ writer \notin {"none", "done"}

\* Every commit is answered: "cancellation cannot lose queued waiters".
ReceiptsSettle == \A u \in Update : receipt[u] = "open" ~> receipt[u] # "open"

\* close() returns, with tasks spawning tasks, a backend that loses answers and
\* a writer in any state.
CloseReturns == phase = "draining" ~> phase \in {"closed", "escaped"}

----------------------------------------------------------------------------
(* The abstract journal                                                    *)

Log == INSTANCE CheckpointLog WITH
           durable <- Len(log),
           answer <- receipt,
           broken <- failure

\* The writer, the mailbox, the batches and the pages implement the log.
ImplementsCheckpointLog == Log!Spec
=============================================================================
