-------------------------- MODULE SupportEscalation --------------------------
(***************************************************************************)
(* Escalation of a school's support tickets to its organization             *)
(* (perum-tenant/app/modules/support/escalation.py and service.py, the      *)
(* escalation part of perum-core/app/routers/support.py).                   *)
(*                                                                         *)
(* The school's app runs one loop: it posts the outbox to the core, then    *)
(* pulls the organization's replies of every escalated ticket and confirms  *)
(* them.  Every request may be lost, handled late or handled unnoticed, and *)
(* the loop may be cut off between any two steps.                           *)
(***************************************************************************)
EXTENDS Integers, Sequences

CONSTANTS
    Ticket,         \* the school's tickets
    RelayId,        \* client_message_id's of the organization's replies
    Retry,          \* slots for concurrent requests of a manual retry
    MaxAttempts,    \* MAX_DELIVERY_ATTEMPTS
    MaxMessages,    \* bound on the messages of a ticket in the core
    NoTicket

ASSUME MaxAttemptsAssumption == MaxAttempts \in Nat \ {0}
ASSUME MaxMessagesAssumption == MaxMessages \in Nat
ASSUME NoTicketAssumption == NoTicket \notin Ticket
ASSUME RelayIdAssumption == {"school", "platform"} \cap RelayId = {}

VARIABLES
    esc,        \* ticket -> escalation_status in the school's database
    outbox,     \* ticket -> its row in support_escalation_outbox
    known,      \* tickets whose core_ticket_id is set
    cursor,     \* ticket -> last_core_message_cursor
    receipts,   \* ticket -> core ids of the replies stored in the school
    retry,      \* slot -> the row a manual retry has loaded
    loop,       \* escalation_loop
    intakes,    \* tickets whose escalation request is on its way to the core
    acks,       \* acknowledgements on their way to the core or handled there
    approval,   \* ticket -> approval_status in the core
    messages,   \* ticket -> its messages in the core, the n-th has id n
    acked       \* ticket -> outbound_ack_cursor

tenantVars == <<esc, outbox, known, cursor, receipts>>
coreVars == <<approval, messages, acked>>
vars == <<tenantVars, retry, loop, intakes, acks, coreVars>>

Esc == {"none", "pending_delivery", "pending_org_approval", "approved",
        "rejected", "delivery_error"}
Approval == {"absent", "pending", "approved", "rejected"}
Outbox == [status : {"none", "pending", "error", "delivered", "dead_letter"},
           attempts : 0 .. MaxAttempts, due : BOOLEAN]
NoRow == [status |-> "none", attempts |-> 0, due |-> FALSE]
LoopPc == {"sleep", "deliver", "posted", "pull", "asked", "rows", "pulled", "ack"}
Asleep == [pc |-> "sleep", todo |-> {}, ticket |-> NoTicket, row |-> NoRow,
           esc |-> "none", seen |-> "absent", rows |-> {}]
NoRetry == [ticket |-> NoTicket, esc |-> "none"]
Unread == -1

\* Status of the tenant for an approval status of the core.
StatusOf == [pending |-> "pending_org_approval", approved |-> "approved",
             rejected |-> "rejected"]
Pulled == {"pending_org_approval", "approved", "rejected"}

TypeOK ==
    /\ esc \in [Ticket -> Esc]
    /\ outbox \in [Ticket -> Outbox]
    /\ known \subseteq Ticket
    /\ cursor \in [Ticket -> Nat]
    /\ receipts \in [Ticket -> SUBSET Nat]
    /\ retry \in [Retry -> [ticket : Ticket \cup {NoTicket}, esc : Esc]]
    /\ loop \in [pc : LoopPc, todo : SUBSET Ticket,
                 ticket : Ticket \cup {NoTicket}, row : Outbox, esc : Esc,
                 seen : Approval, rows : SUBSET Nat]
    /\ intakes \subseteq Ticket
    /\ acks \subseteq [ticket : Ticket, cursor : Nat, read : Nat \cup {Unread}]
    /\ approval \in [Ticket -> Approval]
    /\ messages \in [Ticket -> Seq(RelayId \cup {"school", "platform"})]
    /\ acked \in [Ticket -> Nat]

Init ==
    /\ esc = [t \in Ticket |-> "none"]
    /\ outbox = [t \in Ticket |-> NoRow]
    /\ known = {}
    /\ cursor = [t \in Ticket |-> 0]
    /\ receipts = [t \in Ticket |-> {}]
    /\ retry = [r \in Retry |-> NoRetry]
    /\ loop = Asleep
    /\ intakes = {} /\ acks = {}
    /\ approval = [t \in Ticket |-> "absent"]
    /\ messages = [t \in Ticket |-> <<>>]
    /\ acked = [t \in Ticket |-> 0]

\* Commit of an attribute over the value its session loaded: an unchanged
\* attribute is not written.
Save(loaded, new, current) == IF new = loaded THEN current ELSE new

Largest(S, default) ==
    IF S = {} THEN default ELSE CHOOSE m \in S : \A n \in S : n <= m

\* Core ids of the replies relayed for a ticket.
Relays(t) == {n \in DOMAIN messages[t] : messages[t][n] \in RelayId}

-----------------------------------------------------------------------------
(* Requests of the school's admins *)

\* The UPDATE checks the version and both statuses again, so the second of
\* two concurrent requests changes nothing.
escalate_ticket(t) ==
    /\ esc[t] = "none"
    /\ esc' = [esc EXCEPT ![t] = "pending_delivery"]
    /\ outbox' = [outbox EXCEPT
           ![t] = [status |-> "pending", attempts |-> 0, due |-> TRUE]]
    /\ UNCHANGED <<known, cursor, receipts, retry, loop, intakes, acks, coreVars>>

RetryLoads(r, t) ==
    /\ retry[r] = NoRetry
    /\ outbox[t].status = "dead_letter"
    /\ retry' = [retry EXCEPT ![r] = [ticket |-> t, esc |-> esc[t]]]
    /\ UNCHANGED <<tenantVars, loop, intakes, acks, coreVars>>

\* The row may have been taken up again, even delivered, since it was loaded.
RetryCommits(r, t) ==
    /\ retry[r].ticket = t
    /\ outbox' = [outbox EXCEPT
           ![t] = [status |-> "pending", attempts |-> 0, due |-> TRUE]]
    /\ esc' = [esc EXCEPT ![t] = Save(retry[r].esc, "pending_delivery", @)]
    /\ retry' = [retry EXCEPT ![r] = NoRetry]
    /\ UNCHANGED <<known, cursor, receipts, loop, intakes, acks, coreVars>>

-----------------------------------------------------------------------------
(* deliver_outbox *)

Deliverable == {"pending", "error"}

\* MUTANT of DueRows: rows that failed once are not selected again.
DueRowsPendingOnly ==
    {t \in Ticket : outbox[t].status = "pending" /\ outbox[t].due}

DueRows == {t \in Ticket : outbox[t].status \in Deliverable /\ outbox[t].due}

\* next_attempt_at passes.
BackoffEnds(t) ==
    /\ outbox[t].status \in Deliverable /\ ~outbox[t].due
    /\ outbox' = [outbox EXCEPT ![t].due = TRUE]
    /\ UNCHANGED <<esc, known, cursor, receipts, retry, loop, intakes, acks, coreVars>>

DeliverBegins ==
    /\ loop.pc = "sleep"
    /\ loop' = [loop EXCEPT !.pc = "deliver", !.todo = DueRows]
    /\ UNCHANGED <<tenantVars, retry, intakes, acks, coreVars>>

\* The check after the reload always holds: only this loop changes due rows
\* in another way than a retry does.
DeliverPosts(t) ==
    /\ loop.pc = "deliver" /\ t \in loop.todo
    /\ loop' = [loop EXCEPT !.pc = "posted", !.todo = @ \ {t}, !.ticket = t,
                            !.row = outbox[t], !.esc = esc[t]]
    /\ intakes' = intakes \cup {t}
    /\ UNCHANGED <<tenantVars, retry, acks, coreVars>>

\* The core handles the request under the school's row lock, whether or not
\* the loop still waits; a request it has seen before is answered from the row.
intake_escalation(t) ==
    /\ t \in intakes
    /\ intakes' = intakes \ {t}
    /\ IF approval[t] = "absent"
       THEN /\ approval' = [approval EXCEPT ![t] = "pending"]
            /\ messages' = [messages EXCEPT ![t] = <<"school">>]
       ELSE UNCHANGED <<approval, messages>>
    /\ loop' = IF loop.pc = "posted" /\ loop.ticket = t
               THEN [loop EXCEPT !.seen = approval'[t]] ELSE loop
    /\ UNCHANGED <<tenantVars, retry, acks, acked>>

NextRow == loop' = [Asleep EXCEPT !.pc = "deliver", !.todo = loop.todo]

DeliverCommits(t) ==
    /\ loop.pc = "posted" /\ loop.ticket = t /\ loop.seen # "absent"
    /\ outbox' = [outbox EXCEPT ![t] = [@ EXCEPT !.status = "delivered",
                                               !.attempts = loop.row.attempts + 1]]
    /\ known' = known \cup {t}
    /\ esc' = [esc EXCEPT ![t] = Save(loop.esc, StatusOf[loop.seen], @)]
    /\ NextRow
    /\ UNCHANGED <<cursor, receipts, retry, intakes, acks, coreVars>>

\* MUTANT of FailedRow: only a permanent refusal is terminal.
FailedRowEndless(t, permanent) ==
    [status |-> Save(loop.row.status,
                     IF permanent THEN "dead_letter" ELSE "error",
                     outbox[t].status),
     attempts |-> loop.row.attempts + 1,
     due |-> FALSE]

\* delivery_is_terminal: a permanent refusal or the last attempt.
FailedRow(t, permanent) ==
    LET attempts == loop.row.attempts + 1
        terminal == permanent \/ attempts >= MaxAttempts
    IN  [status |-> Save(loop.row.status,
                         IF terminal THEN "dead_letter" ELSE "error",
                         outbox[t].status),
         attempts |-> attempts,
         due |-> FALSE]

\* The request or its answer is lost, or the core refuses it: a request that
\* was not refused may still arrive.
DeliverFails(t, permanent) ==
    /\ loop.pc = "posted" /\ loop.ticket = t
    /\ outbox' = [outbox EXCEPT ![t] = FailedRow(t, permanent)]
    /\ esc' = [esc EXCEPT ![t] = Save(loop.esc, "delivery_error", @)]
    /\ \/ ~permanent /\ UNCHANGED intakes
       \/ t \in intakes /\ intakes' = intakes \ {t}
    /\ NextRow
    /\ UNCHANGED <<known, cursor, receipts, retry, acks, coreVars>>

-----------------------------------------------------------------------------
(* pull_outbound and pull_ticket *)

\* MUTANT of PullList: only tickets the school already knows to be approved.
PullListApproved == {t \in known : esc[t] = "approved"}

PullList == {t \in known : esc[t] \in Pulled}

PullBegins ==
    /\ loop.pc = "deliver" /\ loop.todo = {}
    /\ loop' = [loop EXCEPT !.pc = "pull", !.todo = PullList]
    /\ UNCHANGED <<tenantVars, retry, intakes, acks, coreVars>>

PullAsks(t) ==
    /\ loop.pc = "pull" /\ t \in loop.todo
    /\ loop' = [loop EXCEPT !.pc = "asked", !.todo = @ \ {t}, !.ticket = t,
                            !.esc = esc[t]]
    /\ UNCHANGED <<tenantVars, retry, intakes, acks, coreVars>>

\* outbound_escalation reads the ticket and then its messages.
OutboundTicket ==
    /\ loop.pc = "asked"
    /\ loop' = [loop EXCEPT !.pc = "rows", !.seen = approval[loop.ticket]]
    /\ UNCHANGED <<tenantVars, retry, intakes, acks, coreVars>>

\* MUTANT of OutboundRows: only the latest reply is answered.
OutboundLatest(t) ==
    LET new == {n \in Relays(t) : n > cursor[t]}
    IN  {n \in new : \A k \in new : k <= n}

OutboundRows(t) == {n \in Relays(t) : n > cursor[t]}

OutboundMessages ==
    /\ loop.pc = "rows"
    /\ loop' = [loop EXCEPT !.pc = "pulled", !.rows = OutboundRows(loop.ticket)]
    /\ UNCHANGED <<tenantVars, retry, intakes, acks, coreVars>>

NextTicket == loop' = [Asleep EXCEPT !.pc = "pull", !.todo = loop.todo]

Acknowledge(t, upto) ==
    /\ loop' = [loop EXCEPT !.pc = "ack"]
    /\ acks' = acks \cup {[ticket |-> t, cursor |-> upto, read |-> Unread]}

\* Replies, receipts, status and cursor are committed together.
PullCommits(t) ==
    /\ loop.pc = "pulled" /\ loop.ticket = t
    /\ receipts' = [receipts EXCEPT ![t] = @ \cup loop.rows]
    /\ cursor' = [cursor EXCEPT ![t] = Largest(loop.rows \cup {@}, @)]
    /\ esc' = [esc EXCEPT ![t] = Save(loop.esc, StatusOf[loop.seen], @)]
    /\ Acknowledge(t, Largest(loop.rows, cursor[t]))
    /\ UNCHANGED <<outbox, known, retry, intakes, coreVars>>

\* MUTANT of PullRollsBack: the rows are acknowledged all the same.
PullRollsBackAcks(t) ==
    /\ loop.pc = "pulled" /\ loop.ticket = t
    /\ Acknowledge(t, Largest(loop.rows, cursor[t]))
    /\ UNCHANGED <<tenantVars, retry, intakes, coreVars>>

\* The commit violates a constraint (an operator's row is gone): no ack.
PullRollsBack(t) ==
    /\ loop.pc = "pulled" /\ loop.ticket = t
    /\ NextTicket
    /\ UNCHANGED <<tenantVars, retry, intakes, acks, coreVars>>

\* No answer to the pull, or a refusal: pull_outbound logs it and goes on.
PullFails ==
    /\ loop.pc \in {"asked", "rows"}
    /\ NextTicket
    /\ UNCHANGED <<tenantVars, retry, intakes, acks, coreVars>>

\* ack_outbound reads the ticket without a lock and writes the maximum.
AckReads(a) ==
    /\ a \in acks /\ a.read = Unread
    /\ acks' = (acks \ {a}) \cup {[a EXCEPT !.read = acked[a.ticket]]}
    /\ UNCHANGED <<tenantVars, retry, loop, intakes, coreVars>>

AckCommits(a) ==
    /\ a \in acks /\ a.read # Unread
    /\ acks' = acks \ {a}
    /\ acked' = [acked EXCEPT ![a.ticket] =
           Save(a.read, Largest({a.read, a.cursor}, 0), @)]
    /\ UNCHANGED <<tenantVars, retry, loop, intakes, approval, messages>>

\* The acknowledgement the loop waits for is not handled yet.
AckUnderWay ==
    \E a \in acks : a.ticket = loop.ticket /\ a.cursor = cursor[loop.ticket]

AckAnswered ==
    /\ loop.pc = "ack" /\ ~AckUnderWay
    /\ NextTicket
    /\ UNCHANGED <<tenantVars, retry, intakes, acks, coreVars>>

\* The acknowledgement is lost, or handled when nobody waits for it.
\* The refusal of a cursor above the highest relay (support.py:506) would end the
\* wait in the same way; a cursor is the id of a relay the school was given.
AckGivenUp ==
    /\ loop.pc = "ack" /\ AckUnderWay
    /\ \/ UNCHANGED acks
       \/ acks' = {a \in acks : a.ticket # loop.ticket \/ a.read # Unread}
    /\ NextTicket
    /\ UNCHANGED <<tenantVars, retry, intakes, coreVars>>

Sleeps ==
    /\ loop.pc = "pull" /\ loop.todo = {}
    /\ loop' = Asleep
    /\ UNCHANGED <<tenantVars, retry, intakes, acks, coreVars>>

\* An exception neither function expects ends the round, a restart of the
\* app ends the loop's session: both start again with deliver_outbox.
Interrupted ==
    /\ loop.pc # "sleep" /\ ~(loop.pc = "pull" /\ loop.todo = {})
    /\ loop' = Asleep
    /\ UNCHANGED <<tenantVars, retry, intakes, acks, coreVars>>

-----------------------------------------------------------------------------
(* Requests of the organization's and the platform's admins to the core *)

\* MUTANT of decide_escalation: the UPDATE does not require "pending".
DecideAgain(t, action) ==
    /\ approval[t] \notin {"absent", action}
    /\ approval' = [approval EXCEPT ![t] = action]
    /\ UNCHANGED <<tenantVars, retry, loop, intakes, acks, messages, acked>>

decide_escalation(t, action) ==
    /\ approval[t] = "pending"
    /\ approval' = [approval EXCEPT ![t] = action]
    /\ UNCHANGED <<tenantVars, retry, loop, intakes, acks, messages, acked>>

AddMessage(t, m) ==
    /\ Len(messages[t]) < MaxMessages
    /\ messages' = [messages EXCEPT ![t] = Append(@, m)]
    /\ UNCHANGED <<tenantVars, retry, loop, intakes, acks, approval, acked>>

\* The platform's reply stays in the core.
admin_reply(t) ==
    /\ approval[t] = "approved"
    /\ AddMessage(t, "platform")

\* MUTANT of relay_escalation_reply: the client's id is not looked up.
RelayTwice(t, r) ==
    /\ approval[t] = "approved"
    /\ AddMessage(t, r)

\* A relay is posted again until it is answered: the client's id is unique.
\* The ticket's row is updated before the message is inserted, so the ids of
\* a ticket's relays follow the order of their commits.
relay_escalation_reply(t, r) ==
    /\ approval[t] = "approved"
    /\ \A n \in DOMAIN messages[t] : messages[t][n] # r
    /\ AddMessage(t, r)

-----------------------------------------------------------------------------
LoopStep ==
    \/ DeliverBegins \/ PullBegins \/ Sleeps
    \/ OutboundTicket \/ OutboundMessages \/ AckAnswered
    \/ \E t \in Ticket :
           DeliverPosts(t) \/ DeliverCommits(t) \/ PullAsks(t) \/ PullCommits(t)

CoreStep ==
    \/ \E t \in Ticket : intake_escalation(t)
    \/ \E a \in acks : AckReads(a) \/ AckCommits(a)

\* What goes wrong with a request or a commit.
Trouble ==
    \/ \E t \in Ticket, permanent \in BOOLEAN : DeliverFails(t, permanent)
    \/ PullFails
    \/ AckGivenUp
    \/ \E t \in Ticket : PullRollsBack(t)

Admins ==
    \E t \in Ticket :
        \/ escalate_ticket(t)
        \/ \E r \in Retry : RetryLoads(r, t) \/ RetryCommits(r, t)
        \/ \E action \in {"approved", "rejected"} : decide_escalation(t, action)
        \/ admin_reply(t)
        \/ \E r \in RelayId : relay_escalation_reply(t, r)

Next ==
    \/ LoopStep
    \/ CoreStep
    \/ Trouble
    \/ Admins
    \/ Interrupted
    \/ \E t \in Ticket : BackoffEnds(t)

Spec == Init /\ [][Next]_vars

\* The loop runs and the core answers; nothing is assumed of the admins.
FairSpec ==
    /\ Spec
    /\ WF_vars(LoopStep)
    /\ \A t \in Ticket :
           WF_vars(intake_escalation(t)) /\ WF_vars(BackoffEnds(t))
    /\ WF_vars(\E a \in acks : AckReads(a) \/ AckCommits(a))

-----------------------------------------------------------------------------
\* The school has exactly the relayed replies up to its cursor: no reply of
\* the platform, no gap that a later pull would skip (pull_ticket's cursor
\* and receipts against outbound_escalation).  That relays commit in the order
\* of their ids, as the lock of the ticket's row makes them, is taken for granted.
InboxIsPrefix ==
    \A t \in Ticket : receipts[t] = {n \in Relays(t) : n <= cursor[t]}

\* A reply the organization sees as delivered is stored in the school
\* (escalation_relay_delivery compares ids with outbound_ack_cursor).
DeliveredIsStored ==
    \A t \in Ticket : {n \in Relays(t) : n <= acked[t]} \subseteq receipts[t]

\* The status the school shows is one the core's ticket has, or had before
\* it was decided (deliver_outbox and pull_ticket commit what an earlier
\* answer said).
StatusIsTrue ==
    \A t \in Ticket :
        /\ t \in known \/ outbox[t].status = "delivered" => approval[t] # "absent"
        /\ esc[t] = "pending_org_approval" => approval[t] # "absent"
        /\ esc[t] \in {"approved", "rejected"} => approval[t] = esc[t]

\* SupportEscalation implements the channel: the place of a reply is its id in
\* the core.
Channel == INSTANCE SupportChannel WITH
    Place <- 1 .. MaxMessages,
    decision <- [t \in Ticket |->
        IF approval[t] = "absent" THEN "none" ELSE approval[t]],
    sent <- [t \in Ticket |-> [n \in Relays(t) |-> messages[t][n]]],
    received <- receipts,
    confirmed <- [t \in Ticket |-> {n \in Relays(t) : n <= acked[t]}]

\* The channel's behaviour is all the school and the organization can see.
ImplementsChannel == Channel!Spec

\* An escalation is delivered or given up as a dead letter, as long as the
\* loop is not interrupted for ever (MAX_DELIVERY_ATTEMPTS bounds the rest).
DeliveryEnds ==
    <>[][~Interrupted]_vars =>
        \A t \in Ticket :
            outbox[t].status \in Deliverable
                ~> outbox[t].status \in {"delivered", "dead_letter"}

\* Once requests stop failing, every relayed reply of a delivered escalation
\* reaches the school and is shown as delivered, unless a stale retry took the
\* delivery back and it ended as a dead letter (ids in the order of the commits,
\* as for InboxIsPrefix).
RelaysArrive ==
    <>[][~Interrupted /\ ~Trouble]_vars =>
        \A t \in Ticket : \A n \in 1 .. MaxMessages :
            outbox[t].status = "delivered" /\ n \in Relays(t)
                ~> (n \in receipts[t] /\ n <= acked[t])
                   \/ outbox[t].status = "dead_letter"

=============================================================================
