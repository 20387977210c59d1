--------------------------- MODULE CheckpointLog ---------------------------
(***************************************************************************)
(* What the journal of one invocation promises to the durable operations   *)
(* that commit to it, with no writer task, mailbox, batch or page in sight. *)
(*                                                                         *)
(* Commits are ordered by the moment they are made.  What the backend holds *)
(* is always a prefix of that order.  A commit is answered "ok" only once   *)
(* it lies in the prefix; the first failure answers everything that is      *)
(* still open and ends the log for good.                                   *)
(***************************************************************************)
EXTENDS Naturals, Sequences, SequencesExt

CONSTANT Update               \* the checkpoint updates that may be committed

VARIABLES
    order,                    \* accepted updates, in the order of their commits
    durable,                  \* how many of them the backend has applied
    answer,                   \* what each commit has been told
    broken                    \* the journal has failed

absVars == <<order, durable, answer, broken>>

Open == {u \in Update : answer[u] = "open"}

Init == /\ order = <<>>
        /\ durable = 0
        /\ answer = [u \in Update |-> "none"]
        /\ broken = FALSE

Submit(u) ==
    /\ answer[u] = "none"
    /\ ~broken
    /\ order' = Append(order, u)
    /\ answer' = [answer EXCEPT ![u] = "open"]
    /\ UNCHANGED <<durable, broken>>

\* A commit made after the failure or after the close.
Refuse(u) ==
    /\ answer[u] = "none"
    /\ answer' = [answer EXCEPT ![u] = "refused"]
    /\ UNCHANGED <<order, durable, broken>>

\* A request may still reach the backend after the journal gave up on it.
Persist ==
    /\ \E n \in durable + 1 .. Len(order) : durable' = n
    /\ UNCHANGED <<order, answer, broken>>

Acknowledge ==
    /\ ~broken
    /\ \E us \in SUBSET (Open \cap ToSet(SubSeq(order, 1, durable))) :
          /\ us # {}
          /\ answer' = [u \in Update |-> IF u \in us THEN "ok" ELSE answer[u]]
    /\ UNCHANGED <<order, durable, broken>>

Break ==
    /\ answer' = [u \in Update |-> IF u \in Open THEN "failed" ELSE answer[u]]
    /\ broken' = TRUE
    /\ UNCHANGED <<order, durable>>

Next == \/ \E u \in Update : Submit(u) \/ Refuse(u)
        \/ Persist
        \/ Acknowledge
        \/ Break

Spec == Init /\ [][Next]_absVars
=============================================================================
