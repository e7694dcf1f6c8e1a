------------------------------- MODULE Mailbox -------------------------------
(***************************************************************************)
(* AgentMailbox of pywork/teams/mailbox.py, as the tool send_message and   *)
(* the teammates use it.  No event handler is registered anywhere in the   *)
(* program, so that an operation suspends only where a poll waits on the   *)
(* condition.  Contents, subjects, types and threads are left out.         *)
(***************************************************************************)
EXTENDS Naturals, Sequences, FiniteSets, SequencesExt

CONSTANTS
    Agents,         \* senders and recipients
    Pollers,        \* coroutines that may be in poll_messages at a time
    MaxMessages     \* bound: messages sent in all

ASSUME MailAssumption == IsFiniteSet(Agents) /\ MaxMessages \in Nat

VARIABLES
    message,    \* _messages with _inbox and _outbox, in the order of created_at
    poll,       \* what each poller is doing
    taken       \* for each message, the polls for new mail, with mark_read, that got it

mailVars == <<message, poll, taken>>

NoPoll == [at |-> "idle", agent |-> "none", read |-> FALSE, mark |-> FALSE]

MailInit ==
    /\ message = <<>>
    /\ poll = [p \in Pollers |-> NoPoll]
    /\ taken = <<>>

\* notify_all wakes those who wait now.
WakeAll == poll' = [p \in Pollers |-> IF poll[p].at = "waiting"
                                      THEN [poll[p] EXCEPT !.at = "woken"] ELSE poll[p]]

-----------------------------------------------------------------------------
(***************************************************************************)
(* send_message, broadcast_message and reply_message, which goes to the    *)
(* sender of a message that is still held.                                 *)
(***************************************************************************)
New(to) == [to |-> to, status |-> "delivered"]

Deliver(recipients) ==
    LET tos == SetToSeq(recipients)
    IN /\ Len(message) + Len(tos) <= MaxMessages
       /\ message' = message \o [i \in DOMAIN tos |-> New(tos[i])]
       /\ taken' = taken \o [i \in DOMAIN tos |-> 0]
       /\ WakeAll

Send == \E to \in Agents : Deliver({to})
Broadcast == Cardinality(Agents) > 1 /\ Deliver(Agents)

(***************************************************************************)
(* mark_read, acknowledge_message, archive_message and delete_message.     *)
(* An agent id other than the recipient's is refused; without one nobody   *)
(* asks.  A hard delete takes the message out of every index: it is gone.  *)
(***************************************************************************)
\* Reading or acknowledging an archived message takes it out of the archive again.
Marked(m, status) ==
    IF message[m].status = "deleted" THEN message ELSE [message EXCEPT ![m].status = status]

Mark(m, status) ==
    /\ message[m].status # "gone"
    /\ message' = IF status = "gone" THEN [message EXCEPT ![m].status = "gone"]
                                     ELSE Marked(m, status)
    /\ WakeAll /\ UNCHANGED taken

-----------------------------------------------------------------------------
(***************************************************************************)
(* poll_messages.                                                          *)
(***************************************************************************)
Hidden(read) == {"archived", "deleted", "gone"} \union (IF read THEN {} ELSE {"read", "acked"})

Visible(q) == {m \in DOMAIN message : /\ message[m].to = q.agent
                                      /\ message[m].status \notin Hidden(q.read)}

\* The oldest of them, as many as the limit allows.
Selected(q, limit) == LET seen == Visible(q)
                      IN {m \in seen : Cardinality({k \in seen : k < m}) < limit}

TakenUnmarked(p, q, chosen) ==                      \* mutant: the marks are forgotten
    /\ taken' = [m \in DOMAIN taken |-> IF q.mark /\ ~q.read /\ m \in chosen
                                        THEN taken[m] + 1 ELSE taken[m]]
    /\ poll' = [poll EXCEPT ![p] = NoPoll] /\ UNCHANGED message
\* Marking notifies the other pollers; from the select to the return nothing suspends.
Taken(p, q, chosen) ==
    LET marks == q.mark /\ chosen # {}
    IN /\ message' = [m \in DOMAIN message |->
                         IF marks /\ m \in chosen /\ message[m].status # "deleted"
                         THEN [message[m] EXCEPT !.status = "read"] ELSE message[m]]
       /\ taken' = [m \in DOMAIN taken |-> IF marks /\ ~q.read /\ m \in chosen
                                         THEN taken[m] + 1 ELSE taken[m]]
       /\ poll' = [o \in Pollers |->
                      IF o = p THEN NoPoll
                      ELSE IF marks /\ poll[o].at = "waiting" THEN [poll[o] EXCEPT !.at = "woken"]
                      ELSE poll[o]]

Poll(p) ==
    /\ poll[p].at = "idle"
    /\ \E agent \in Agents, read, mark, waits \in BOOLEAN :
         LET q == [at |-> "waiting", agent |-> agent, read |-> read, mark |-> mark]
         IN IF Visible(q) = {} /\ waits
            THEN poll' = [poll EXCEPT ![p] = q] /\ UNCHANGED <<message, taken>>
            ELSE \E limit \in {1, MaxMessages} : Taken(p, q, Selected(q, limit))

PollWakes(p) ==
    /\ poll[p].at = "woken"
    /\ IF Visible(poll[p]) = {}
       THEN poll' = [poll EXCEPT ![p].at = "waiting"] /\ UNCHANGED <<message, taken>>
       ELSE \E limit \in {1, MaxMessages} : Taken(p, poll[p], Selected(poll[p], limit))

\* The timeout, or a cancel of the coroutine; what arrived meanwhile is not selected.
PollGivesUp(p) ==
    /\ poll[p].at \in {"waiting", "woken"}
    /\ poll' = [poll EXCEPT ![p] = NoPoll]
    /\ UNCHANGED <<message, taken>>

-----------------------------------------------------------------------------
MailNext ==
    \/ Send \/ Broadcast
    \/ \E m \in DOMAIN message,
          status \in {"read", "acked", "archived", "deleted", "gone"} : Mark(m, status)
    \/ \E p \in Pollers : Poll(p) \/ PollWakes(p) \/ PollGivesUp(p)

MailSpec == MailInit /\ [][MailNext]_mailVars

MailFairness == \A p \in Pollers : WF_mailVars(PollWakes(p))

-----------------------------------------------------------------------------
MailTypeOK ==
    /\ \A m \in DOMAIN message :
         /\ message[m].to \in Agents
         /\ message[m].status \in {"delivered", "read", "acked", "archived", "deleted", "gone"}
    /\ DOMAIN taken = DOMAIN message
    /\ \A p \in Pollers : poll[p].at \in {"idle", "waiting", "woken"}

(***************************************************************************)
(* Mail is new only once: of all polls for unread messages that mark what  *)
(* they return, at most one ever gets a given message, however many wait   *)
(* for it, time out or are woken by each other's marks.                    *)
(***************************************************************************)
TakenOnce == \A m \in DOMAIN taken : taken[m] <= 1

(***************************************************************************)
(* Nobody sleeps over his mail: a poll that waits while something it asks  *)
(* for lies in the inbox wakes, or the message is taken by somebody else.  *)
(***************************************************************************)
PollersWake ==
    \A p \in Pollers : []<>(poll[p].at = "idle" \/ Visible(poll[p]) = {})
=============================================================================
