---------------------- MODULE SupportEscalationProofs -----------------------
(***************************************************************************)
(* Proofs about SupportEscalation, for any number of tickets, relays and    *)
(* concurrent retries and any bound on the attempts, with every loss, late  *)
(* request and restart.                                                     *)
(***************************************************************************)
EXTENDS SupportEscalation, FiniteSetTheorems, SequenceTheorems,
        WellFoundedInduction, TLAPS

\* A row that is delivered again has an attempt left, in the database and in
\* the copy the loop works with, and no retry takes a row away from the loop.
DeliverInv ==
    /\ \A t \in Ticket :
           outbox[t].status \in Deliverable => outbox[t].attempts < MaxAttempts
    /\ loop.pc \in {"deliver", "posted"} =>
           \A t \in loop.todo : outbox[t].status \in Deliverable
    /\ loop.pc = "posted" =>
           /\ loop.ticket \in Ticket \ loop.todo
           /\ outbox[loop.ticket].status \in Deliverable
           /\ loop.row.status \in Deliverable
           /\ loop.row.attempts < MaxAttempts

\* What an answer said of the approval still holds: a decision is final.
SeenInv ==
    /\ loop.pc \in {"sleep", "deliver"} => loop.seen = "absent"
    /\ loop.pc \in {"posted", "rows", "pulled"} /\ loop.seen # "absent" =>
           /\ approval[loop.ticket] # "absent"
           /\ loop.seen \in {"approved", "rejected"} =>
                  approval[loop.ticket] = loop.seen
    /\ loop.pc \in {"pull", "asked", "rows", "pulled", "ack"} =>
           loop.todo \subseteq known
    /\ loop.pc \in {"asked", "rows", "pulled", "ack"} => loop.ticket \in known
    /\ loop.pc \in {"rows", "pulled"} => loop.seen # "absent"

\* The ids in use: cursors are ids the core has given, and the core's cursor
\* and every acknowledgement under way are behind the school's.
CursorInv ==
    /\ \A t \in Ticket :
           /\ approval[t] = "absent" => messages[t] = <<>>
           /\ cursor[t] <= Len(messages[t])
           /\ acked[t] <= cursor[t]
    /\ \A a \in acks :
           /\ a.cursor <= cursor[a.ticket]
           /\ a.read # Unread => a.read <= cursor[a.ticket]

\* The rows of an answer are the first relays after the school's cursor:
\* what was relayed since has a higher id.
RowsInv ==
    loop.pc = "pulled" =>
        /\ loop.rows \subseteq Relays(loop.ticket)
        /\ \A n \in loop.rows : cursor[loop.ticket] < n
        /\ \A n \in Relays(loop.ticket) :
               cursor[loop.ticket] < n /\ n \notin loop.rows =>
                   \A k \in loop.rows : k < n

\* The inductive invariant.  InboxIsPrefix needs RowsInv for the step that
\* commits an answer and CursorInv for the step that gives a new id;
\* StatusIsTrue needs SeenInv for the commits of what an earlier answer said;
\* TypeOK needs DeliverInv for the bound on the attempts.
IInv ==
    /\ TypeOK
    /\ DeliverInv
    /\ SeenInv
    /\ CursorInv
    /\ RowsInv
    /\ InboxIsPrefix
    /\ StatusIsTrue

-----------------------------------------------------------------------------
(* Lemmas about the operators *)

\* A bounded set of naturals has a greatest element.
LEMMA HasGreatest ==
    ASSUME NEW S \in SUBSET Nat, S # {}, NEW k \in Nat, \A n \in S : n <= k
    PROVE  \E m \in S : \A n \in S : n <= m
<1> DEFINE T == {k - n : n \in S}
<1>1. T \subseteq Nat /\ T # {}
  <2>1. PICK s \in S : TRUE
    OBVIOUS
  <2>2. k - s \in T
    BY <2>1
  <2>3. \A n \in S : k - n \in Nat
    OBVIOUS
  <2> QED BY <2>2, <2>3
<1>2. \E x \in T : \A y \in T : ~(<<y, x>> \in OpToRel(<, Nat))
  <2> HIDE DEF T
  <2> QED BY <1>1, NatLessThanWellFounded, WFMin
<1>3. PICK x \in T : \A y \in T : ~(<<y, x>> \in OpToRel(<, Nat))
  BY <1>2
<1>4. \A y \in T : ~(y < x)
  <2> HIDE DEF T
  <2> QED BY <1>1, <1>3 DEF OpToRel
<1>5. PICK m \in S : x = k - m
  OBVIOUS
<1>6. \A n \in S : k - n \in T
  OBVIOUS
<1>7. \A n \in S : n <= m
  BY <1>4, <1>5, <1>6
<1> QED BY <1>7

\* Largest is what its name says on a bounded set of ids.
LEMMA LargestIsGreatest ==
    ASSUME NEW S \in SUBSET Nat, NEW k \in Nat, \A n \in S : n <= k,
           NEW d \in Nat
    PROVE  /\ S = {} => Largest(S, d) = d
           /\ S # {} => Largest(S, d) \in S /\ \A n \in S : n <= Largest(S, d)
<1>1. CASE S = {}
  BY <1>1 DEF Largest
<1>2. CASE S # {}
  BY <1>2, HasGreatest DEF Largest
<1> QED BY <1>1, <1>2

\* A ticket without messages has no relays.
LEMMA NoMessageNoRelay ==
    ASSUME NEW t \in Ticket, messages[t] = <<>>
    PROVE  Relays(t) = {}
<1>1. messages[t] \in Seq(RelayId) /\ Len(messages[t]) = 0
  OBVIOUS
<1>2. DOMAIN messages[t] = {}
  BY <1>1
<1> QED BY <1>2 DEF Relays

\* The core's answer to an escalation changes no relay: a new ticket starts
\* with the school's own message.
LEMMA IntakeKeepsRelays ==
    ASSUME IInv, NEW t \in Ticket, intake_escalation(t), NEW u \in Ticket
    PROVE  /\ Relays(u)' = Relays(u)
           /\ Len(messages[u]) <= Len(messages'[u])
           /\ approval'[u] = "absent" => messages'[u] = <<>>
           /\ approval[u] # "absent" => approval'[u] = approval[u]
<1>1. messages \in [Ticket -> Seq(RelayId \cup {"school", "platform"})]
  BY DEF IInv, TypeOK
<1>2. approval \in [Ticket -> Approval]
  BY DEF IInv, TypeOK
<1>3. approval[u] = "absent" => messages[u] = <<>>
  BY DEF IInv, CursorInv
<1>4. CASE approval[t] = "absent"
  <2>1. messages' = [messages EXCEPT ![t] = <<"school">>]
    BY <1>4 DEF intake_escalation
  <2>2. approval' = [approval EXCEPT ![t] = "pending"]
    BY <1>4 DEF intake_escalation
  <2>3. CASE u = t
    <3>1. messages[u] = <<>> /\ messages'[u] = <<"school">>
      BY <1>1, <1>3, <1>4, <2>1, <2>3
    <3>2. Relays(u) = {} /\ Relays(u)' = {}
      BY <3>1, RelayIdAssumption DEF Relays
    <3> QED BY <1>2, <1>4, <2>2, <2>3, <3>1, <3>2
  <2>4. CASE u # t
    BY <1>1, <1>2, <1>3, <2>1, <2>2, <2>4 DEF Relays
  <2> QED BY <2>3, <2>4
<1>5. CASE approval[t] # "absent"
  <2>1. UNCHANGED <<approval, messages>>
    BY <1>5 DEF intake_escalation
  <2> QED BY <1>1, <1>3, <2>1 DEF Relays
<1> QED BY <1>4, <1>5

\* A commit of an answer moves the cursor to the highest id of its rows.
LEMMA CommitMovesCursor ==
    ASSUME IInv, NEW t \in Ticket, PullCommits(t)
    PROVE  /\ cursor' = [cursor EXCEPT ![t] = cursor'[t]]
           /\ cursor'[t] \in loop.rows \cup {cursor[t]}
           /\ \A n \in loop.rows \cup {cursor[t]} : n <= cursor'[t]
           /\ cursor'[t] \in Nat /\ cursor'[t] <= Len(messages[t])
           /\ Largest(loop.rows, cursor[t]) \in Nat
           /\ Largest(loop.rows, cursor[t]) <= cursor'[t]
<1> DEFINE c == Largest(loop.rows \cup {cursor[t]}, cursor[t])
<1>1. /\ loop.ticket = t /\ loop.pc = "pulled"
      /\ cursor' = [cursor EXCEPT ![t] = c]
  BY DEF PullCommits
<1>2. /\ cursor \in [Ticket -> Nat] /\ cursor[t] \in Nat
      /\ loop.rows \in SUBSET Nat
      /\ Len(messages[t]) \in Nat
  BY DEF IInv, TypeOK
<1>3. \A n \in loop.rows : n <= Len(messages[t])
  BY <1>1, <1>2 DEF IInv, RowsInv, Relays, TypeOK
<1>4. cursor[t] <= Len(messages[t])
  BY DEF IInv, CursorInv
<1>5. /\ c \in loop.rows \cup {cursor[t]}
      /\ \A n \in loop.rows \cup {cursor[t]} : n <= c
  <2>1. loop.rows \cup {cursor[t]} \in SUBSET Nat
    BY <1>2
  <2>2. \A n \in loop.rows \cup {cursor[t]} : n <= Len(messages[t])
    BY <1>3, <1>4
  <2> QED BY <1>2, <2>1, <2>2, LargestIsGreatest
<1>6. Largest(loop.rows, cursor[t]) \in loop.rows \cup {cursor[t]}
  BY <1>2, <1>3, LargestIsGreatest
<1>7. cursor'[t] = c
  BY <1>1, <1>2
<1> HIDE DEF c
<1> QED BY <1>1, <1>2, <1>3, <1>4, <1>5, <1>6, <1>7

\* Every step keeps DeliverInv.
LEMMA DeliverStep ==
    ASSUME IInv, [Next]_vars
    PROVE  DeliverInv'
<1> USE MaxAttemptsAssumption
DEF IInv, DeliverInv, TypeOK, Outbox, Deliverable, tenantVars, coreVars
<1>1. CASE DeliverBegins
  BY <1>1 DEF DeliverBegins, DueRows
<1>2. ASSUME NEW t \in Ticket, DeliverPosts(t)
      PROVE  DeliverInv'
  BY <1>2 DEF DeliverPosts
<1>3. ASSUME NEW t \in Ticket, intake_escalation(t)
      PROVE  DeliverInv'
  BY <1>3 DEF intake_escalation
<1>4. ASSUME NEW t \in Ticket, DeliverCommits(t)
      PROVE  DeliverInv'
  BY <1>4 DEF DeliverCommits, NextRow, Asleep
<1>5. ASSUME NEW t \in Ticket, NEW p \in BOOLEAN, DeliverFails(t, p)
      PROVE  DeliverInv'
  BY <1>5 DEF DeliverFails, NextRow, Asleep, FailedRow, Save
<1>6. CASE PullBegins
  BY <1>6 DEF PullBegins
<1>7. ASSUME NEW t \in Ticket, PullAsks(t)
      PROVE  DeliverInv'
  BY <1>7 DEF PullAsks
<1>8. CASE OutboundTicket
  BY <1>8 DEF OutboundTicket
<1>9. CASE OutboundMessages
  BY <1>9 DEF OutboundMessages
<1>10. ASSUME NEW t \in Ticket, PullCommits(t)
      PROVE  DeliverInv'
  BY <1>10 DEF PullCommits, Acknowledge
<1>11. ASSUME NEW t \in Ticket, PullRollsBack(t)
      PROVE  DeliverInv'
  BY <1>11 DEF PullRollsBack, NextTicket, Asleep
<1>12. CASE PullFails
  BY <1>12 DEF PullFails, NextTicket, Asleep
<1>13. CASE AckAnswered
  BY <1>13 DEF AckAnswered, NextTicket, Asleep
<1>14. CASE AckGivenUp
  BY <1>14 DEF AckGivenUp, NextTicket, Asleep
<1>15. CASE Sleeps
  BY <1>15 DEF Sleeps, Asleep
<1>16. CASE Interrupted
  BY <1>16 DEF Interrupted, Asleep
<1>17. ASSUME NEW t \in Ticket, escalate_ticket(t)
      PROVE  DeliverInv'
  BY <1>17 DEF escalate_ticket
<1>18. ASSUME NEW t \in Ticket, NEW r \in Retry, RetryCommits(r, t)
      PROVE  DeliverInv'
  BY <1>18 DEF RetryCommits
<1>19. ASSUME NEW t \in Ticket, BackoffEnds(t)
      PROVE  DeliverInv'
  BY <1>19 DEF BackoffEnds
<1>20. CASE UNCHANGED <<outbox, loop>>
  BY <1>20 DEF vars
<1> HIDE MaxAttemptsAssumption
DEF IInv, DeliverInv, TypeOK, Outbox, Deliverable, tenantVars, coreVars
<1> QED
  BY <1>1, <1>2, <1>3, <1>4, <1>5, <1>6, <1>7, <1>8, <1>9, <1>10, <1>11,
     <1>12, <1>13, <1>14, <1>15, <1>16, <1>17, <1>18, <1>19, <1>20
  DEF Next, LoopStep, CoreStep, Trouble, Admins, vars, tenantVars, coreVars,
      AckReads, AckCommits, RetryLoads, decide_escalation, admin_reply,
      AddMessage, relay_escalation_reply

\* Every step keeps SeenInv: a decision is made once, so an answer stays true.
LEMMA SeenStep ==
    ASSUME IInv, [Next]_vars
    PROVE  SeenInv'
<1>a. ASSUME NEW t \in Ticket, intake_escalation(t), NEW u \in Ticket
      PROVE  /\ Relays(u)' = Relays(u)
             /\ Len(messages[u]) <= Len(messages'[u])
             /\ approval'[u] = "absent" => messages'[u] = <<>>
             /\ approval[u] # "absent" => approval'[u] = approval[u]
  BY <1>a, IntakeKeepsRelays
<1> USE NoTicketAssumption
DEF IInv, SeenInv, StatusIsTrue, TypeOK, Approval, tenantVars, coreVars
<1>1. CASE DeliverBegins
  BY <1>1 DEF DeliverBegins
<1>2. ASSUME NEW t \in Ticket, DeliverPosts(t)
      PROVE  SeenInv'
  BY <1>2 DEF DeliverPosts
<1>3. ASSUME NEW t \in Ticket, intake_escalation(t)
      PROVE  SeenInv'
  <2>1. /\ approval'[t] # "absent"
        /\ approval'[t] # "pending" => approval'[t] = approval[t]
    BY <1>3 DEF intake_escalation
  <2>2. \A u \in Ticket : approval[u] # "absent" => approval'[u] = approval[u]
    BY <1>3, <1>a
  <2>3. CASE loop.pc = "posted" /\ loop.ticket = t
    BY <1>3, <2>1, <2>2, <2>3 DEF intake_escalation
  <2>4. CASE ~(loop.pc = "posted" /\ loop.ticket = t)
    <3>1. loop.pc \in {"posted", "rows", "pulled"} => loop.ticket \in Ticket
      BY DEF DeliverInv
    <3>2. UNCHANGED <<loop, known>>
      BY <1>3, <2>4 DEF intake_escalation
    <3> QED BY <2>2, <3>1, <3>2
  <2> QED BY <2>3, <2>4
<1>4. ASSUME NEW t \in Ticket, DeliverCommits(t)
      PROVE  SeenInv'
  BY <1>4 DEF DeliverCommits, NextRow, Asleep
<1>5. ASSUME NEW t \in Ticket, NEW p \in BOOLEAN, DeliverFails(t, p)
      PROVE  SeenInv'
  BY <1>5 DEF DeliverFails, NextRow, Asleep
<1>6. CASE PullBegins
  BY <1>6 DEF PullBegins, PullList, Pulled
<1>7. ASSUME NEW t \in Ticket, PullAsks(t)
      PROVE  SeenInv'
  BY <1>7 DEF PullAsks
<1>8. CASE OutboundTicket
  BY <1>8 DEF OutboundTicket
<1>9. CASE OutboundMessages
  BY <1>9 DEF OutboundMessages
<1>10. ASSUME NEW t \in Ticket, PullCommits(t)
      PROVE  SeenInv'
  BY <1>10 DEF PullCommits, Acknowledge
<1>11. ASSUME NEW t \in Ticket, PullRollsBack(t)
      PROVE  SeenInv'
  BY <1>11 DEF PullRollsBack, NextTicket, Asleep
<1>12. CASE PullFails
  BY <1>12 DEF PullFails, NextTicket, Asleep
<1>13. CASE AckAnswered
  BY <1>13 DEF AckAnswered, NextTicket, Asleep
<1>14. CASE AckGivenUp
  BY <1>14 DEF AckGivenUp, NextTicket, Asleep
<1>15. CASE Sleeps
  BY <1>15 DEF Sleeps, Asleep
<1>16. CASE Interrupted
  BY <1>16 DEF Interrupted, Asleep
<1>17. ASSUME NEW t \in Ticket, NEW d \in {"approved", "rejected"}, decide_escalation(t, d)
      PROVE  SeenInv'
  BY <1>17 DEF decide_escalation
<1>18. CASE UNCHANGED <<loop, known, approval>>
  BY <1>18 DEF vars
<1> HIDE NoTicketAssumption
DEF IInv, SeenInv, StatusIsTrue, TypeOK, Approval, tenantVars, coreVars
<1> QED
  BY <1>1, <1>2, <1>3, <1>4, <1>5, <1>6, <1>7, <1>8, <1>9, <1>10, <1>11,
     <1>12, <1>13, <1>14, <1>15, <1>16, <1>17, <1>18
  DEF Next, LoopStep, CoreStep, Trouble, Admins, vars, tenantVars, coreVars,
      AckReads, AckCommits, escalate_ticket, RetryLoads, RetryCommits,
      BackoffEnds, admin_reply, AddMessage, relay_escalation_reply

\* Every step keeps CursorInv.
LEMMA CursorStep ==
    ASSUME IInv, [Next]_vars
    PROVE  CursorInv'
<1>a. ASSUME NEW t \in Ticket, intake_escalation(t), NEW u \in Ticket
      PROVE  /\ Relays(u)' = Relays(u)
             /\ Len(messages[u]) <= Len(messages'[u])
             /\ approval'[u] = "absent" => messages'[u] = <<>>
             /\ approval[u] # "absent" => approval'[u] = approval[u]
  BY <1>a, IntakeKeepsRelays
<1>b. ASSUME NEW t \in Ticket, PullCommits(t)
      PROVE  /\ cursor' = [cursor EXCEPT ![t] = cursor'[t]]
             /\ cursor'[t] \in loop.rows \cup {cursor[t]}
             /\ \A n \in loop.rows \cup {cursor[t]} : n <= cursor'[t]
             /\ cursor'[t] \in Nat /\ cursor'[t] <= Len(messages[t])
             /\ Largest(loop.rows, cursor[t]) \in Nat
             /\ Largest(loop.rows, cursor[t]) <= cursor'[t]
  BY <1>b, CommitMovesCursor
<1>c. ASSUME NEW x \in Nat, NEW y \in Nat
      PROVE  Largest({x, y}, 0) \in {x, y}
  BY LargestIsGreatest
<1> USE DEF IInv, CursorInv, TypeOK, tenantVars, coreVars
<1>1. ASSUME NEW t \in Ticket, intake_escalation(t)
      PROVE  CursorInv'
  <2>1. UNCHANGED <<cursor, acks, acked>>
    BY <1>1 DEF intake_escalation
  <2>2. \A u \in Ticket : Len(messages[u]) \in Nat /\ Len(messages'[u]) \in Nat
    BY <1>1, <1>a DEF intake_escalation
  <2> QED BY <1>1, <1>a, <2>1, <2>2
<1>2. ASSUME NEW t \in Ticket, PullCommits(t)
      PROVE  CursorInv'
  <2>1. ASSUME NEW u \in Ticket
        PROVE  cursor[u] <= cursor'[u]
    <3>1. cursor[t] <= cursor'[t]
      BY <1>2, <1>b
    <3>2. u # t => cursor'[u] = cursor[u]
      BY <1>2 DEF PullCommits
    <3>3. cursor[u] \in Nat
      OBVIOUS
    <3> QED BY <3>1, <3>2, <3>3
  <2>2. UNCHANGED <<approval, messages, acked>>
    BY <1>2 DEF PullCommits
  <2>3. acks' = acks \cup {[ticket |-> t, cursor |-> Largest(loop.rows, cursor[t]),
                            read |-> Unread]}
    BY <1>2 DEF PullCommits, Acknowledge
  <2>4. \A u \in Ticket : cursor'[u] \in Nat /\ cursor'[u] <= Len(messages'[u])
    BY <1>2, <1>b, <2>2
  <2>5. \A u \in Ticket : acked'[u] <= cursor'[u]
    BY <2>1, <2>2, <2>4
  <2>6. \A a \in acks : /\ a.cursor <= cursor'[a.ticket]
                        /\ a.read # Unread => a.read <= cursor'[a.ticket]
    BY <2>1, <2>4 DEF Unread
  <2> QED BY <1>2, <1>b, <2>2, <2>3, <2>4, <2>5, <2>6
<1>3. ASSUME NEW a \in acks, AckReads(a)
      PROVE  CursorInv'
  BY <1>3 DEF AckReads, Unread
<1>4. ASSUME NEW a \in acks, AckCommits(a)
      PROVE  CursorInv'
  <2>1. /\ a.ticket \in Ticket /\ a.cursor \in Nat /\ a.read \in Nat
        /\ UNCHANGED <<cursor, approval, messages>> /\ acks' \subseteq acks
    BY <1>4 DEF AckCommits, Unread
  <2>2. Largest({a.read, a.cursor}, 0) \in {a.read, a.cursor}
    BY <1>c, <2>1
  <2>3. /\ \A u \in Ticket : u # a.ticket => acked'[u] = acked[u]
        /\ acked'[a.ticket] \in {acked[a.ticket], a.read, a.cursor}
    BY <1>4, <2>1, <2>2 DEF AckCommits, Save
  <2>4. \A u \in Ticket : acked'[u] <= cursor[u]
    BY <1>4, <2>1, <2>3 DEF AckCommits
  <2> QED BY <2>1, <2>4
<1>5. CASE AckGivenUp
  BY <1>5 DEF AckGivenUp, NextTicket, Asleep
<1>6. ASSUME NEW t \in Ticket, NEW d \in {"approved", "rejected"}, decide_escalation(t, d)
      PROVE  CursorInv'
  BY <1>6 DEF decide_escalation
<1>7. ASSUME NEW t \in Ticket, admin_reply(t)
      PROVE  CursorInv'
  BY <1>7 DEF admin_reply, AddMessage
<1>8. ASSUME NEW t \in Ticket, NEW r \in RelayId, relay_escalation_reply(t, r)
      PROVE  CursorInv'
  BY <1>8 DEF relay_escalation_reply, AddMessage
<1>9. CASE UNCHANGED <<cursor, acks, approval, messages, acked>>
  BY <1>9 DEF vars
<1> HIDE DEF IInv, CursorInv, TypeOK, tenantVars, coreVars
<1> QED
  BY <1>1, <1>2, <1>3, <1>4, <1>5, <1>6, <1>7, <1>8, <1>9
  DEF Next, LoopStep, CoreStep, Trouble, Admins, vars, tenantVars, coreVars,
      DeliverBegins, DeliverPosts, DeliverCommits, DeliverFails, PullBegins,
      PullAsks, OutboundTicket, OutboundMessages, PullRollsBack, PullFails,
      AckAnswered, Sleeps, Interrupted, escalate_ticket, RetryLoads,
      RetryCommits, BackoffEnds

\* Every step keeps RowsInv: an id given after the answer was read is higher.
LEMMA RowsStep ==
    ASSUME IInv, [Next]_vars
    PROVE  RowsInv'
<1>a. ASSUME NEW t \in Ticket, intake_escalation(t), NEW u \in Ticket
      PROVE  /\ Relays(u)' = Relays(u)
             /\ Len(messages[u]) <= Len(messages'[u])
             /\ approval'[u] = "absent" => messages'[u] = <<>>
             /\ approval[u] # "absent" => approval'[u] = approval[u]
  BY <1>a, IntakeKeepsRelays
<1> USE DEF IInv, RowsInv, TypeOK, Relays, tenantVars, coreVars
<1>1. CASE DeliverBegins
  BY <1>1 DEF DeliverBegins
<1>2. ASSUME NEW t \in Ticket, DeliverPosts(t)
      PROVE  RowsInv'
  BY <1>2 DEF DeliverPosts
<1>3. ASSUME NEW t \in Ticket, intake_escalation(t)
      PROVE  RowsInv'
  <2>1. UNCHANGED cursor /\ (loop.pc = "pulled" \/ loop'.pc = "pulled" => loop' = loop)
    BY <1>3 DEF intake_escalation
  <2>2. CASE loop.pc = "pulled"
    <3>1. loop.ticket \in Ticket
      BY <2>2 DEF SeenInv
    <3> HIDE DEF Relays
    <3> QED BY <1>3, <1>a, <2>1, <2>2, <3>1
  <2> QED BY <2>1, <2>2
<1>4. ASSUME NEW t \in Ticket, DeliverCommits(t)
      PROVE  RowsInv'
  BY <1>4 DEF DeliverCommits, NextRow, Asleep
<1>5. ASSUME NEW t \in Ticket, NEW p \in BOOLEAN, DeliverFails(t, p)
      PROVE  RowsInv'
  BY <1>5 DEF DeliverFails, NextRow, Asleep
<1>6. CASE PullBegins
  BY <1>6 DEF PullBegins
<1>7. ASSUME NEW t \in Ticket, PullAsks(t)
      PROVE  RowsInv'
  BY <1>7 DEF PullAsks
<1>8. CASE OutboundTicket
  BY <1>8 DEF OutboundTicket
<1>9. CASE OutboundMessages
  BY <1>9 DEF OutboundMessages, OutboundRows
<1>10. ASSUME NEW t \in Ticket, PullCommits(t)
      PROVE  RowsInv'
  BY <1>10 DEF PullCommits, Acknowledge
<1>11. ASSUME NEW t \in Ticket, PullRollsBack(t)
      PROVE  RowsInv'
  BY <1>11 DEF PullRollsBack, NextTicket, Asleep
<1>12. CASE PullFails
  BY <1>12 DEF PullFails, NextTicket, Asleep
<1>13. CASE AckAnswered
  BY <1>13 DEF AckAnswered, NextTicket, Asleep
<1>14. CASE AckGivenUp
  BY <1>14 DEF AckGivenUp, NextTicket, Asleep
<1>15. CASE Sleeps
  BY <1>15 DEF Sleeps, Asleep
<1>16. CASE Interrupted
  BY <1>16 DEF Interrupted, Asleep
<1>17. ASSUME NEW t \in Ticket, admin_reply(t)
      PROVE  RowsInv'
  BY <1>17 DEF admin_reply, AddMessage
<1>18. ASSUME NEW t \in Ticket, NEW r \in RelayId, relay_escalation_reply(t, r)
      PROVE  RowsInv'
  BY <1>18 DEF relay_escalation_reply, AddMessage
<1>19. CASE UNCHANGED <<cursor, loop, messages>>
  BY <1>19 DEF vars
<1> HIDE DEF IInv, RowsInv, TypeOK, Relays, tenantVars, coreVars
<1> QED
  BY <1>1, <1>2, <1>3, <1>4, <1>5, <1>6, <1>7, <1>8, <1>9, <1>10, <1>11,
     <1>12, <1>13, <1>14, <1>15, <1>16, <1>17, <1>18, <1>19
  DEF Next, LoopStep, CoreStep, Trouble, Admins, vars, tenantVars, coreVars,
      AckReads, AckCommits, escalate_ticket, RetryLoads, RetryCommits,
      BackoffEnds, decide_escalation

\* Every step keeps InboxIsPrefix.
LEMMA InboxStep ==
    ASSUME IInv, [Next]_vars
    PROVE  InboxIsPrefix'
<1>a. ASSUME NEW t \in Ticket, intake_escalation(t), NEW u \in Ticket
      PROVE  /\ Relays(u)' = Relays(u)
             /\ Len(messages[u]) <= Len(messages'[u])
             /\ approval'[u] = "absent" => messages'[u] = <<>>
             /\ approval[u] # "absent" => approval'[u] = approval[u]
  BY <1>a, IntakeKeepsRelays
<1>b. ASSUME NEW t \in Ticket, PullCommits(t)
      PROVE  /\ cursor' = [cursor EXCEPT ![t] = cursor'[t]]
             /\ cursor'[t] \in loop.rows \cup {cursor[t]}
             /\ \A n \in loop.rows \cup {cursor[t]} : n <= cursor'[t]
             /\ cursor'[t] \in Nat /\ cursor'[t] <= Len(messages[t])
             /\ Largest(loop.rows, cursor[t]) \in Nat
             /\ Largest(loop.rows, cursor[t]) <= cursor'[t]
  BY <1>b, CommitMovesCursor
<1> USE DEF IInv, InboxIsPrefix, CursorInv, TypeOK, Relays, tenantVars,
      coreVars
<1>1. ASSUME NEW t \in Ticket, intake_escalation(t)
      PROVE  InboxIsPrefix'
  <2>1. UNCHANGED <<cursor, receipts>>
    BY <1>1 DEF intake_escalation
  <2> HIDE DEF Relays
  <2> QED BY <1>1, <1>a, <2>1
<1>2. ASSUME NEW t \in Ticket, PullCommits(t)
      PROVE  InboxIsPrefix'
  <2> HIDE DEF Relays
  <2>1. /\ UNCHANGED messages /\ loop.ticket = t /\ loop.pc = "pulled"
        /\ receipts' = [receipts EXCEPT ![t] = receipts[t] \cup loop.rows]
    BY <1>2 DEF PullCommits
  <2>2. Relays(t) \subseteq Nat
    BY DEF Relays
  <2>3. \A u \in Ticket : Relays(u)' = Relays(u)
    BY <2>1 DEF Relays
  <2>4. receipts'[t] = {n \in Relays(t) : n <= cursor'[t]}
    <3>1. /\ cursor[t] \in Nat /\ cursor'[t] \in Nat
          /\ cursor'[t] \in loop.rows \cup {cursor[t]}
          /\ \A n \in loop.rows \cup {cursor[t]} : n <= cursor'[t]
      BY <1>2, <1>b
    <3>2. /\ loop.rows \subseteq Relays(t)
          /\ \A n \in loop.rows : cursor[t] < n
          /\ \A n \in Relays(t) :
                 cursor[t] < n /\ n \notin loop.rows => \A k \in loop.rows : k < n
      BY <2>1 DEF RowsInv
    <3>3. receipts'[t] = {n \in Relays(t) : n <= cursor[t]} \cup loop.rows
      BY <2>1
    <3> HIDE DEF IInv
    <3> QED BY <2>2, <3>1, <3>2, <3>3
  <2>5. \A u \in Ticket : u # t => receipts'[u] = receipts[u] /\ cursor'[u] = cursor[u]
    BY <1>2, <1>b, <2>1
  <2> QED BY <2>3, <2>4, <2>5
<1>3. ASSUME NEW t \in Ticket, admin_reply(t)
      PROVE  InboxIsPrefix'
  BY <1>3 DEF admin_reply, AddMessage
<1>4. ASSUME NEW t \in Ticket, NEW r \in RelayId, relay_escalation_reply(t, r)
      PROVE  InboxIsPrefix'
  BY <1>4 DEF relay_escalation_reply, AddMessage
<1>5. CASE UNCHANGED <<cursor, receipts, messages>>
  BY <1>5 DEF vars
<1> HIDE DEF IInv, InboxIsPrefix, CursorInv, TypeOK, Relays, tenantVars,
      coreVars
<1> QED
  BY <1>1, <1>2, <1>3, <1>4, <1>5
  DEF Next, LoopStep, CoreStep, Trouble, Admins, vars, tenantVars, coreVars,
      DeliverBegins, DeliverPosts, DeliverCommits, DeliverFails, PullBegins,
      PullAsks, OutboundTicket, OutboundMessages, PullRollsBack, PullFails,
      AckReads, AckCommits, AckAnswered, AckGivenUp, Sleeps, Interrupted,
      escalate_ticket, RetryLoads, RetryCommits, BackoffEnds,
      decide_escalation

\* Every step keeps StatusIsTrue.
LEMMA StatusStep ==
    ASSUME IInv, [Next]_vars
    PROVE  StatusIsTrue'
<1> USE DEF IInv, StatusIsTrue, SeenInv, TypeOK, Approval, Save, StatusOf,
      tenantVars, coreVars
<1>1. ASSUME NEW t \in Ticket, intake_escalation(t)
      PROVE  StatusIsTrue'
  BY <1>1 DEF intake_escalation
<1>2. ASSUME NEW t \in Ticket, DeliverCommits(t)
      PROVE  StatusIsTrue'
  BY <1>2 DEF DeliverCommits, NextRow, Asleep
<1>3. ASSUME NEW t \in Ticket, NEW p \in BOOLEAN, DeliverFails(t, p)
      PROVE  StatusIsTrue'
  BY <1>3 DEF DeliverFails, NextRow, Asleep, FailedRow
<1>4. ASSUME NEW t \in Ticket, PullCommits(t)
      PROVE  StatusIsTrue'
  BY <1>4 DEF PullCommits, Acknowledge
<1>5. ASSUME NEW t \in Ticket, escalate_ticket(t)
      PROVE  StatusIsTrue'
  BY <1>5 DEF escalate_ticket
<1>6. ASSUME NEW t \in Ticket, NEW r \in Retry, RetryCommits(r, t)
      PROVE  StatusIsTrue'
  BY <1>6 DEF RetryCommits
<1>7. ASSUME NEW t \in Ticket, BackoffEnds(t)
      PROVE  StatusIsTrue'
  BY <1>7 DEF BackoffEnds
<1>8. ASSUME NEW t \in Ticket, NEW d \in {"approved", "rejected"}, decide_escalation(t, d)
      PROVE  StatusIsTrue'
  BY <1>8 DEF decide_escalation
<1>9. CASE UNCHANGED <<esc, outbox, known, approval>>
  BY <1>9 DEF vars
<1> HIDE DEF IInv, StatusIsTrue, SeenInv, TypeOK, Approval, Save, StatusOf,
      tenantVars, coreVars
<1> QED
  BY <1>1, <1>2, <1>3, <1>4, <1>5, <1>6, <1>7, <1>8, <1>9
  DEF Next, LoopStep, CoreStep, Trouble, Admins, vars, tenantVars, coreVars,
      DeliverBegins, DeliverPosts, PullBegins, PullAsks, OutboundTicket,
      OutboundMessages, PullRollsBack, PullFails, AckReads, AckCommits,
      AckAnswered, AckGivenUp, Sleeps, Interrupted, RetryLoads, admin_reply,
      AddMessage, relay_escalation_reply

\* The conjuncts of TypeOK, by who writes the variables.
LoopTyped ==
    loop \in [pc : LoopPc, todo : SUBSET Ticket, ticket : Ticket \cup {NoTicket},
              row : Outbox, esc : Esc, seen : Approval, rows : SUBSET Nat]

SchoolTyped ==
    /\ esc \in [Ticket -> Esc]
    /\ outbox \in [Ticket -> Outbox]
    /\ known \subseteq Ticket
    /\ cursor \in [Ticket -> Nat]
    /\ receipts \in [Ticket -> SUBSET Nat]
    /\ retry \in [Retry -> [ticket : Ticket \cup {NoTicket}, esc : Esc]]

CoreTyped ==
    /\ intakes \subseteq Ticket
    /\ acks \subseteq [ticket : Ticket, cursor : Nat, read : Nat \cup {Unread}]
    /\ approval \in [Ticket -> Approval]
    /\ messages \in [Ticket -> Seq(RelayId \cup {"school", "platform"})]
    /\ acked \in [Ticket -> Nat]

\* Every step keeps the types of the loop.
LEMMA LoopTypeStep ==
    ASSUME IInv, [Next]_vars
    PROVE  LoopTyped'
<1>t. SchoolTyped /\ LoopTyped /\ CoreTyped
  BY DEF IInv, TypeOK, SchoolTyped, LoopTyped, CoreTyped
<1>a. NoRow \in Outbox /\ "none" \in Esc /\ "absent" \in Approval
  BY MaxAttemptsAssumption DEF NoRow, Outbox, Esc, Approval
<1>b. /\ Asleep.pc \in LoopPc /\ Asleep.todo \subseteq Ticket
      /\ Asleep \in [pc : LoopPc, todo : SUBSET Ticket,
                     ticket : Ticket \cup {NoTicket}, row : Outbox, esc : Esc,
                     seen : Approval, rows : SUBSET Nat]
  BY <1>a DEF Asleep, LoopPc
<1> USE <1>t DEF SchoolTyped, LoopTyped, CoreTyped, LoopPc, tenantVars, coreVars
<1>1. CASE DeliverBegins
  BY <1>1 DEF DeliverBegins, DueRows
<1>2. ASSUME NEW t \in Ticket, DeliverPosts(t)
      PROVE  LoopTyped'
  BY <1>2 DEF DeliverPosts
<1>3. ASSUME NEW t \in Ticket, intake_escalation(t)
      PROVE  LoopTyped'
  <2>1. approval'[t] \in Approval
    BY <1>3 DEF intake_escalation, Approval
  <2> QED BY <1>3, <2>1 DEF intake_escalation
<1>4. ASSUME NEW t \in Ticket, DeliverCommits(t)
      PROVE  LoopTyped'
  BY <1>4, <1>b DEF DeliverCommits, NextRow
<1>5. ASSUME NEW t \in Ticket, NEW p \in BOOLEAN, DeliverFails(t, p)
      PROVE  LoopTyped'
  BY <1>5, <1>b DEF DeliverFails, NextRow
<1>6. CASE PullBegins
  BY <1>6 DEF PullBegins, PullList
<1>7. ASSUME NEW t \in Ticket, PullAsks(t)
      PROVE  LoopTyped'
  BY <1>7 DEF PullAsks
<1>8. CASE OutboundTicket
  <2>1. approval[loop.ticket] \in Approval
    BY <1>8 DEF OutboundTicket, IInv, SeenInv
  <2> QED BY <1>8, <2>1 DEF OutboundTicket
<1>9. CASE OutboundMessages
  <2>1. loop.ticket \in Ticket
    BY <1>9 DEF OutboundMessages, IInv, SeenInv
  <2>2. OutboundRows(loop.ticket) \subseteq Nat
    BY <2>1 DEF OutboundRows, Relays
  <2> QED BY <1>9, <2>2 DEF OutboundMessages
<1>10. ASSUME NEW t \in Ticket, PullCommits(t)
      PROVE  LoopTyped'
  BY <1>10 DEF PullCommits, Acknowledge
<1>11. ASSUME NEW t \in Ticket, PullRollsBack(t)
      PROVE  LoopTyped'
  BY <1>11, <1>b DEF PullRollsBack, NextTicket
<1>12. CASE PullFails
  BY <1>12, <1>b DEF PullFails, NextTicket
<1>13. CASE AckAnswered
  BY <1>13, <1>b DEF AckAnswered, NextTicket
<1>14. CASE AckGivenUp
  BY <1>14, <1>b DEF AckGivenUp, NextTicket
<1>15. CASE Sleeps
  BY <1>15, <1>b DEF Sleeps
<1>16. CASE Interrupted
  BY <1>16, <1>b DEF Interrupted
<1>17. CASE UNCHANGED loop
  BY <1>17 DEF vars
<1> HIDE <1>t DEF SchoolTyped, LoopTyped, CoreTyped, LoopPc, tenantVars, coreVars
<1> QED
  BY <1>1, <1>2, <1>3, <1>4, <1>5, <1>6, <1>7, <1>8, <1>9, <1>10, <1>11,
     <1>12, <1>13, <1>14, <1>15, <1>16, <1>17
  DEF Next, LoopStep, CoreStep, Trouble, Admins, vars, tenantVars, coreVars,
      AckReads, AckCommits, escalate_ticket, RetryLoads, RetryCommits,
      BackoffEnds, decide_escalation, admin_reply, AddMessage,
      relay_escalation_reply

\* Every step keeps the types of the school's database; an answered or failed
\* delivery keeps the attempts within their bound.
LEMMA SchoolTypeStep ==
    ASSUME IInv, [Next]_vars
    PROVE  SchoolTyped'
<1>t. SchoolTyped /\ LoopTyped /\ CoreTyped
  BY DEF IInv, TypeOK, SchoolTyped, LoopTyped, CoreTyped
<1>b. ASSUME NEW t \in Ticket, PullCommits(t)
      PROVE  /\ cursor' = [cursor EXCEPT ![t] = cursor'[t]]
             /\ cursor'[t] \in loop.rows \cup {cursor[t]}
             /\ \A n \in loop.rows \cup {cursor[t]} : n <= cursor'[t]
             /\ cursor'[t] \in Nat /\ cursor'[t] <= Len(messages[t])
             /\ Largest(loop.rows, cursor[t]) \in Nat
             /\ Largest(loop.rows, cursor[t]) <= cursor'[t]
  BY <1>b, CommitMovesCursor
<1>c. /\ \A p \in {"pending", "approved", "rejected"} : StatusOf[p] \in Esc
      /\ {"none", "pending_delivery", "delivery_error"} \subseteq Esc
  BY DEF StatusOf, Esc
<1>d. [status |-> "pending", attempts |-> 0, due |-> TRUE] \in Outbox
  BY MaxAttemptsAssumption DEF Outbox
<1>e. ASSUME NEW t \in Ticket, DeliverCommits(t) \/ PullCommits(t)
      PROVE  StatusOf[loop.seen] \in Esc
  <2>1. loop.seen \in Approval /\ loop.seen # "absent"
    BY <1>e, <1>t DEF IInv, SeenInv, LoopTyped, DeliverCommits, PullCommits
  <2> QED BY <1>c, <2>1 DEF Approval
<1>f. ASSUME loop.pc = "posted"
      PROVE  loop.row.attempts + 1 \in 0 .. MaxAttempts /\ loop.row.status \in Deliverable
  BY <1>f, <1>t, MaxAttemptsAssumption DEF IInv, DeliverInv, LoopTyped, Outbox
<1> USE <1>t DEF SchoolTyped, LoopTyped, tenantVars, coreVars
<1>1. ASSUME NEW t \in Ticket, DeliverCommits(t)
      PROVE  SchoolTyped'
  <2>1. [outbox[t] EXCEPT !.status = "delivered",
                          !.attempts = loop.row.attempts + 1] \in Outbox
    BY <1>1, <1>f DEF DeliverCommits, Outbox
  <2>2. outbox' = [outbox EXCEPT ![t] = [outbox[t] EXCEPT !.status = "delivered",
                                    !.attempts = loop.row.attempts + 1]]
    BY <1>1 DEF DeliverCommits
  <2>3. Save(loop.esc, StatusOf[loop.seen], esc[t]) \in Esc
    BY <1>1, <1>e DEF Save
  <2> QED BY <1>1, <2>1, <2>2, <2>3 DEF DeliverCommits
<1>2. ASSUME NEW t \in Ticket, NEW p \in BOOLEAN, DeliverFails(t, p)
      PROVE  SchoolTyped'
  <2>1. FailedRow(t, p) \in Outbox
    <3>1. /\ loop.row.attempts + 1 \in 0 .. MaxAttempts
          /\ outbox[t].status \in {"none", "pending", "error", "delivered", "dead_letter"}
      BY <1>2, <1>f DEF DeliverFails, Outbox
    <3> QED BY <3>1 DEF FailedRow, Save, Outbox
  <2>2. Save(loop.esc, "delivery_error", esc[t]) \in Esc
    BY <1>c DEF Save
  <2> QED BY <1>2, <2>1, <2>2 DEF DeliverFails
<1>3. ASSUME NEW t \in Ticket, PullCommits(t)
      PROVE  SchoolTyped'
  <2>1. Save(loop.esc, StatusOf[loop.seen], esc[t]) \in Esc
    BY <1>3, <1>e DEF Save
  <2>2. cursor' \in [Ticket -> Nat]
    BY <1>3, <1>b
  <2>3. receipts' \in [Ticket -> SUBSET Nat]
    BY <1>3 DEF PullCommits
  <2> QED BY <1>3, <2>1, <2>2, <2>3 DEF PullCommits
<1>4. ASSUME NEW t \in Ticket, escalate_ticket(t)
      PROVE  SchoolTyped'
  BY <1>4, <1>c, <1>d DEF escalate_ticket
<1>5. ASSUME NEW t \in Ticket, NEW r \in Retry, RetryLoads(r, t)
      PROVE  SchoolTyped'
  BY <1>5 DEF RetryLoads
<1>6. ASSUME NEW t \in Ticket, NEW r \in Retry, RetryCommits(r, t)
      PROVE  SchoolTyped'
  <2>1. Save(retry[r].esc, "pending_delivery", esc[t]) \in Esc
    BY <1>c DEF Save
  <2> QED BY <1>6, <1>c, <1>d, <2>1 DEF RetryCommits, NoRetry
<1>7. ASSUME NEW t \in Ticket, BackoffEnds(t)
      PROVE  SchoolTyped'
  <2>1. [outbox[t] EXCEPT !.due = TRUE] \in Outbox
    BY DEF Outbox
  <2> QED BY <1>7, <2>1 DEF BackoffEnds
<1>8. CASE UNCHANGED <<tenantVars, retry>>
  BY <1>8 DEF vars
<1> HIDE <1>t DEF SchoolTyped, LoopTyped, tenantVars, coreVars
<1> QED
  BY <1>1, <1>2, <1>3, <1>4, <1>5, <1>6, <1>7, <1>8
  DEF Next, LoopStep, CoreStep, Trouble, Admins, vars, tenantVars, coreVars,
      DeliverBegins, DeliverPosts, intake_escalation, PullBegins, PullAsks,
      OutboundTicket, OutboundMessages, PullRollsBack, PullFails, AckReads,
      AckCommits, AckAnswered, AckGivenUp, Sleeps, Interrupted,
      decide_escalation, admin_reply, AddMessage, relay_escalation_reply

\* Every step keeps the types of the core's database and of the requests to it.
LEMMA CoreTypeStep ==
    ASSUME IInv, [Next]_vars
    PROVE  CoreTyped'
<1>t. SchoolTyped /\ LoopTyped /\ CoreTyped
  BY DEF IInv, TypeOK, SchoolTyped, LoopTyped, CoreTyped
<1>b. ASSUME NEW t \in Ticket, PullCommits(t)
      PROVE  /\ cursor' = [cursor EXCEPT ![t] = cursor'[t]]
             /\ cursor'[t] \in loop.rows \cup {cursor[t]}
             /\ \A n \in loop.rows \cup {cursor[t]} : n <= cursor'[t]
             /\ cursor'[t] \in Nat /\ cursor'[t] <= Len(messages[t])
             /\ Largest(loop.rows, cursor[t]) \in Nat
             /\ Largest(loop.rows, cursor[t]) <= cursor'[t]
  BY <1>b, CommitMovesCursor
<1>c. ASSUME NEW x \in Nat, NEW y \in Nat
      PROVE  Largest({x, y}, 0) \in {x, y}
  BY LargestIsGreatest
<1>g. ASSUME NEW t \in Ticket, NEW m \in RelayId \cup {"school", "platform"},
             AddMessage(t, m)
      PROVE  messages' \in [Ticket -> Seq(RelayId \cup {"school", "platform"})]
  BY <1>g, <1>t, AppendProperties DEF CoreTyped, AddMessage
<1>h. {"pending", "approved", "rejected"} \subseteq Approval
  BY DEF Approval
<1> USE <1>t DEF LoopTyped, CoreTyped, tenantVars, coreVars
<1>1. ASSUME NEW t \in Ticket, DeliverPosts(t)
      PROVE  CoreTyped'
  BY <1>1 DEF DeliverPosts
<1>2. ASSUME NEW t \in Ticket, intake_escalation(t)
      PROVE  CoreTyped'
  <2>1. <<"school">> \in Seq(RelayId \cup {"school", "platform"})
    OBVIOUS
  <2> QED BY <1>2, <1>h, <2>1 DEF intake_escalation
<1>3. ASSUME NEW t \in Ticket, NEW p \in BOOLEAN, DeliverFails(t, p)
      PROVE  CoreTyped'
  BY <1>3 DEF DeliverFails
<1>4. ASSUME NEW t \in Ticket, PullCommits(t)
      PROVE  CoreTyped'
  <2>1. [ticket |-> t, cursor |-> Largest(loop.rows, cursor[t]), read |-> Unread]
            \in [ticket : Ticket, cursor : Nat, read : Nat \cup {Unread}]
    BY <1>4, <1>b
  <2> QED BY <1>4, <2>1 DEF PullCommits, Acknowledge
<1>5. ASSUME NEW a \in acks, AckReads(a)
      PROVE  CoreTyped'
  <2>1. [a EXCEPT !.read = acked[a.ticket]]
            \in [ticket : Ticket, cursor : Nat, read : Nat \cup {Unread}]
    OBVIOUS
  <2> QED BY <1>5, <2>1 DEF AckReads
<1>6. ASSUME NEW a \in acks, AckCommits(a)
      PROVE  CoreTyped'
  <2>1. a.ticket \in Ticket /\ a.cursor \in Nat /\ a.read \in Nat
    BY <1>6 DEF AckCommits, Unread
  <2>2. Save(a.read, Largest({a.read, a.cursor}, 0), acked[a.ticket]) \in Nat
    BY <1>c, <2>1 DEF Save
  <2> QED BY <1>6, <2>1, <2>2 DEF AckCommits
<1>7. CASE AckGivenUp
  BY <1>7 DEF AckGivenUp
<1>8. ASSUME NEW t \in Ticket, NEW d \in {"approved", "rejected"}, decide_escalation(t, d)
      PROVE  CoreTyped'
  BY <1>8, <1>h DEF decide_escalation
<1>9. ASSUME NEW t \in Ticket, admin_reply(t)
      PROVE  CoreTyped'
  BY <1>9, <1>g DEF admin_reply, AddMessage
<1>10. ASSUME NEW t \in Ticket, NEW r \in RelayId, relay_escalation_reply(t, r)
      PROVE  CoreTyped'
  BY <1>10, <1>g DEF relay_escalation_reply, AddMessage
<1>11. CASE UNCHANGED <<intakes, acks, coreVars>>
  BY <1>11 DEF vars
<1> HIDE <1>t DEF LoopTyped, CoreTyped, tenantVars, coreVars
<1> QED
  BY <1>1, <1>2, <1>3, <1>4, <1>5, <1>6, <1>7, <1>8, <1>9, <1>10, <1>11
  DEF Next, LoopStep, CoreStep, Trouble, Admins, vars, tenantVars, coreVars,
      DeliverBegins, DeliverCommits, PullBegins, PullAsks, OutboundTicket,
      OutboundMessages, PullRollsBack, PullFails, AckAnswered, Sleeps,
      Interrupted, escalate_ticket, RetryLoads, RetryCommits, BackoffEnds

\* Nothing is escalated at the start.
LEMMA InitInv == Init => IInv
<1> SUFFICES ASSUME Init PROVE IInv
  OBVIOUS
<1>1. NoRow \in Outbox /\ "none" \in Esc /\ "absent" \in Approval
      /\ NoRow.status \notin Deliverable /\ "sleep" \in LoopPc
  BY MaxAttemptsAssumption DEF NoRow, Outbox, Esc, Approval, Deliverable, LoopPc
<1>2. Asleep \in [pc : LoopPc, todo : SUBSET Ticket, ticket : Ticket \cup {NoTicket},
                  row : Outbox, esc : Esc, seen : Approval, rows : SUBSET Nat]
      /\ Asleep.pc = "sleep" /\ Asleep.seen = "absent"
  BY <1>1 DEF Asleep
<1>3. TypeOK
  <2>1. <<>> \in Seq(RelayId \cup {"school", "platform"})
    OBVIOUS
  <2>2. NoRetry \in [ticket : Ticket \cup {NoTicket}, esc : Esc]
    BY <1>1 DEF NoRetry
  <2> QED BY <1>1, <1>2, <2>1, <2>2 DEF Init, TypeOK
<1>4. DeliverInv
  BY <1>1, <1>2 DEF Init, DeliverInv
<1>5. SeenInv
  BY <1>2 DEF Init, SeenInv
<1>6. CursorInv
  BY DEF Init, CursorInv
<1>7. RowsInv
  BY <1>2 DEF Init, RowsInv
<1>8. InboxIsPrefix
  <2>1. \A t \in Ticket : receipts[t] = {} /\ messages[t] = <<>>
    BY DEF Init
  <2>2. \A t \in Ticket : Relays(t) = {}
    BY <2>1, NoMessageNoRelay
  <2> QED BY <2>1, <2>2 DEF InboxIsPrefix
<1>9. StatusIsTrue
  BY DEF Init, StatusIsTrue, NoRow
<1> QED BY <1>3, <1>4, <1>5, <1>6, <1>7, <1>8, <1>9 DEF IInv

\* The invariant is inductive.
LEMMA NextInv == IInv /\ [Next]_vars => IInv'
<1> SUFFICES ASSUME IInv, [Next]_vars PROVE IInv'
  OBVIOUS
<1>1. TypeOK'
  <2>1. SchoolTyped' /\ LoopTyped' /\ CoreTyped'
    BY SchoolTypeStep, LoopTypeStep, CoreTypeStep
  <2> QED BY <2>1 DEF TypeOK, SchoolTyped, LoopTyped, CoreTyped
<1> QED BY <1>1, DeliverStep, SeenStep, CursorStep, RowsStep, InboxStep,
           StatusStep DEF IInv

-----------------------------------------------------------------------------
\* Whatever is lost, late, retried or interrupted, and with any number of
\* tickets, relays and retries, every state satisfies the invariant.
THEOREM InvariantHolds == Spec => []IInv
  BY InitInv, NextInv, PTL DEF Spec

\* The variables keep their types: no row is tried more than
\* MAX_DELIVERY_ATTEMPTS times between two manual retries (deliver_outbox).
THEOREM TypeCorrect == Spec => []TypeOK
<1>1. IInv => TypeOK
  BY DEF IInv
<1> QED BY <1>1, InvariantHolds, PTL

\* The school has exactly the organization's replies up to its cursor: a pull
\* cut off, repeated or answered late leaves no gap and adds no platform reply
\* (pull_ticket, outbound_escalation).
THEOREM InboxComplete == Spec => []InboxIsPrefix
<1>1. IInv => InboxIsPrefix
  BY DEF IInv
<1> QED BY <1>1, InvariantHolds, PTL

\* The organization sees a reply as delivered only when the school has stored
\* it, though acknowledgements are handled late and out of order and the core's
\* cursor may move back (ack_outbound, escalation_relay_delivery).
THEOREM DisplayNotAhead == Spec => []DeliveredIsStored
<1>1. IInv => DeliveredIsStored
  <2> SUFFICES ASSUME IInv, NEW t \in Ticket, NEW n \in Relays(t), n <= acked[t]
               PROVE  n \in receipts[t]
    BY DEF DeliveredIsStored
  <2>1. n \in Nat /\ acked[t] \in Nat /\ cursor[t] \in Nat
    BY DEF IInv, TypeOK, Relays
  <2>2. acked[t] <= cursor[t]
    BY DEF IInv, CursorInv
  <2>3. n <= cursor[t]
    BY <2>1, <2>2
  <2> QED BY <2>3 DEF IInv, InboxIsPrefix
<1> QED BY <1>1, InvariantHolds, PTL

\* The school never shows a decision the organization did not take, although
\* deliver_outbox and pull_ticket commit what an earlier answer said.
THEOREM StatusHolds == Spec => []StatusIsTrue
<1>1. IInv => StatusIsTrue
  BY DEF IInv
<1> QED BY <1>1, InvariantHolds, PTL

-----------------------------------------------------------------------------
(* The escalation implements SupportChannel. *)

\* The mapping of SupportEscalation, by name.
Decided == [t \in Ticket |-> IF approval[t] = "absent" THEN "none" ELSE approval[t]]
Relayed == [t \in Ticket |-> [n \in Relays(t) |-> messages[t][n]]]
Shown == [t \in Ticket |-> {n \in Relays(t) : n <= acked[t]}]

\* The relays up to a cursor leave out none before one of them.
LEMMA UpToIsWithoutGap ==
    ASSUME IInv, NEW t \in Ticket, NEW c \in Nat,
           NEW S, S = {n \in Relays(t) : n <= c}
    PROVE  Channel!WithoutGap(S, t)
<1>1. Relays(t) \subseteq Nat
  BY DEF IInv, TypeOK, Relays
<1>2. Channel!Sent(t) = Relays(t)
  BY DEF Channel!Sent
<1> QED BY <1>1, <1>2 DEF Channel!WithoutGap

\* Nothing is asked, sent, received or confirmed at the start.
LEMMA ChannelInit == Init => Channel!Init
<1> SUFFICES ASSUME Init PROVE Channel!Init
  OBVIOUS
<1>1. \A t \in Ticket : Relays(t) = {}
  <2>1. \A t \in Ticket : messages[t] = <<>>
    BY DEF Init
  <2> QED BY <2>1, NoMessageNoRelay
<1>2. Decided = [t \in Ticket |-> "none"]
  BY DEF Init, Decided
<1>3. Relayed = [t \in Ticket |-> [n \in {} |-> n]]
  BY <1>1 DEF Relayed
<1>4. Shown = [t \in Ticket |-> {}]
  BY <1>1 DEF Shown
<1> QED BY <1>2, <1>3, <1>4 DEF Init, Channel!Init, Decided, Relayed, Shown

\* A ticket's first escalation asks the organization; one the core has seen
\* before changes nothing.
LEMMA IntakeMaps ==
    ASSUME IInv, NEW t \in Ticket, intake_escalation(t)
    PROVE  [Channel!Next]_(Channel!vars)
<1>1. /\ approval \in [Ticket -> Approval]
      /\ UNCHANGED <<receipts, acked>>
  BY DEF IInv, TypeOK, intake_escalation, tenantVars
<1>2. CASE approval[t] # "absent"
  <2>1. UNCHANGED <<approval, messages>>
    BY <1>2 DEF intake_escalation
  <2> QED BY <1>1, <2>1 DEF Channel!vars, Relays
<1>3. CASE approval[t] = "absent"
  <2>1. /\ approval' = [approval EXCEPT ![t] = "pending"]
        /\ messages' = [messages EXCEPT ![t] = <<"school">>]
    BY <1>3 DEF intake_escalation
  <2>2. \A u \in Ticket : Relays(u)' = Relays(u)
    BY IntakeKeepsRelays
  <2>3. Relays(t) = {}
    BY <1>3 DEF IInv, CursorInv, Relays
  <2>4. \A u \in Ticket : u # t => messages'[u] = messages[u]
    BY <2>1 DEF IInv, TypeOK
  <2>5. Relayed' = Relayed
    <3>1. ASSUME NEW u \in Ticket
          PROVE  Relayed'[u] = Relayed[u]
      <4>1. Relayed'[u] = [n \in Relays(u)' |-> messages'[u][n]]
        BY DEF Relayed
      <4>2. Relayed[u] = [n \in Relays(u) |-> messages[u][n]]
        BY DEF Relayed
      <4>3. Relays(u)' = Relays(u)
        BY <2>2
      <4> QED BY <2>3, <2>4, <4>1, <4>2, <4>3
    <3> QED BY <3>1 DEF Relayed
  <2>6. Shown' = Shown
    BY <1>1, <2>2 DEF Shown
  <2>7. /\ Decided[t] = "none"
        /\ Decided' = [Decided EXCEPT ![t] = "pending"]
    BY <1>1, <1>3, <2>1 DEF Decided
  <2>8. Channel!Ask(t)
    BY <1>1, <2>5, <2>6, <2>7 DEF Channel!Ask, Decided, Relayed, Shown
  <2> QED BY <2>8 DEF Channel!Next
<1> QED BY <1>2, <1>3

\* The organization decides a pending escalation.
LEMMA DecisionMaps ==
    ASSUME IInv, NEW t \in Ticket, NEW d \in {"approved", "rejected"},
           decide_escalation(t, d)
    PROVE  [Channel!Next]_(Channel!vars)
<1>1. /\ approval \in [Ticket -> Approval] /\ approval[t] = "pending"
      /\ approval' = [approval EXCEPT ![t] = d]
      /\ UNCHANGED <<receipts, messages, acked>>
  BY DEF IInv, TypeOK, decide_escalation, tenantVars
<1>2. Decided[t] = "pending" /\ Decided' = [Decided EXCEPT ![t] = d]
  BY <1>1 DEF Decided
<1>3. UNCHANGED <<Relayed, Shown>>
  BY <1>1 DEF Relayed, Shown, Relays
<1>4. Channel!Decide(t)
  BY <1>1, <1>2, <1>3 DEF Channel!Decide, Decided, Relayed, Shown
<1> QED BY <1>4 DEF Channel!Next

\* The ids of a ticket's relays after a message of the core is added.
LEMMA RelaysGrow ==
    ASSUME IInv, NEW t \in Ticket,
           NEW m \in RelayId \cup {"school", "platform"}, AddMessage(t, m)
    PROVE  /\ Len(messages[t]) \in Nat /\ Len(messages[t]) < MaxMessages
           /\ \A n \in Relays(t) : n \in Nat /\ n <= Len(messages[t])
           /\ Relays(t)' = Relays(t) \cup
                  (IF m \in RelayId THEN {Len(messages[t]) + 1} ELSE {})
           /\ \A n \in Relays(t) : messages'[t][n] = messages[t][n]
           /\ messages'[t][Len(messages[t]) + 1] = m
           /\ \A u \in Ticket : u # t => messages'[u] = messages[u]
           /\ UNCHANGED <<approval, receipts, acked>>
<1>1. /\ messages \in [Ticket -> Seq(RelayId \cup {"school", "platform"})]
      /\ messages' = [messages EXCEPT ![t] = Append(messages[t], m)]
      /\ Len(messages[t]) < MaxMessages
      /\ UNCHANGED <<approval, receipts, acked>>
  BY DEF IInv, TypeOK, AddMessage, tenantVars
<1>2. /\ messages[t] \in Seq(RelayId \cup {"school", "platform"})
      /\ messages'[t] = Append(messages[t], m)
  BY <1>1
<1>3. Relays(t)' = {n \in DOMAIN messages'[t] : messages'[t][n] \in RelayId}
  BY DEF Relays
<1>4. /\ DOMAIN messages'[t] = 1 .. Len(messages[t]) + 1
      /\ DOMAIN messages[t] = 1 .. Len(messages[t])
      /\ Len(messages[t]) \in Nat
      /\ \A n \in 1 .. Len(messages[t]) : messages'[t][n] = messages[t][n]
      /\ messages'[t][Len(messages[t]) + 1] = m
  BY <1>2
<1> QED BY <1>1, <1>3, <1>4 DEF Relays

\* A new id is above the acknowledged ones: what is shown stays as it was.
LEMMA ShownStays ==
    ASSUME IInv, NEW t \in Ticket,
           NEW m \in RelayId \cup {"school", "platform"}, AddMessage(t, m)
    PROVE  UNCHANGED Shown
<1>1. ASSUME NEW u \in Ticket
      PROVE  Shown'[u] = Shown[u]
  <2>1. /\ Shown[u] = {n \in Relays(u) : n <= acked[u]}
        /\ Shown'[u] = {n \in Relays(u)' : n <= acked'[u]}
    BY DEF Shown
  <2>2. UNCHANGED acked
    BY RelaysGrow
  <2>3. CASE u # t
    <3>1. Relays(u)' = Relays(u)
      BY <2>3, RelaysGrow DEF Relays
    <3> QED BY <2>1, <2>2, <3>1
  <2>4. CASE u = t
    <3>1. /\ Len(messages[t]) \in Nat
          /\ Relays(t)' = Relays(t) \cup
                 (IF m \in RelayId THEN {Len(messages[t]) + 1} ELSE {})
      BY RelaysGrow
    <3>2. acked[t] \in Nat /\ acked[t] <= Len(messages[t])
      <4>1. acked[t] \in Nat /\ cursor[t] \in Nat
        BY DEF IInv, TypeOK
      <4>2. acked[t] <= cursor[t] /\ cursor[t] <= Len(messages[t])
        BY DEF IInv, CursorInv
      <4> QED BY <3>1, <4>1, <4>2
    <3>3. ~(Len(messages[t]) + 1 <= acked[t])
      BY <3>1, <3>2
    <3> QED BY <2>1, <2>2, <2>4, <3>1, <3>3
  <2> QED BY <2>3, <2>4
<1> QED BY <1>1 DEF Shown

\* The platform's reply is no step of the channel.
LEMMA AdminReplyMaps ==
    ASSUME IInv, NEW t \in Ticket, admin_reply(t)
    PROVE  [Channel!Next]_(Channel!vars)
<1>1. AddMessage(t, "platform")
  BY DEF admin_reply
<1>2. UNCHANGED Shown
  BY <1>1, ShownStays
<1>3. /\ Relays(t)' = Relays(t)
      /\ \A n \in Relays(t) : messages'[t][n] = messages[t][n]
      /\ \A u \in Ticket : u # t => messages'[u] = messages[u]
      /\ UNCHANGED <<approval, receipts>>
  BY <1>1, RelaysGrow, RelayIdAssumption
<1>4. UNCHANGED Relayed
  <2>1. ASSUME NEW u \in Ticket
        PROVE  Relayed'[u] = Relayed[u]
    <3>1. /\ Relayed'[u] = [n \in Relays(u)' |-> messages'[u][n]]
          /\ Relayed[u] = [n \in Relays(u) |-> messages[u][n]]
      BY DEF Relayed
    <3>2. Relays(u)' = Relays(u)
      BY <1>3 DEF Relays
    <3> QED BY <1>3, <3>1, <3>2
  <2> QED BY <2>1 DEF Relayed
<1> QED BY <1>2, <1>3, <1>4 DEF Channel!vars, Relayed, Shown

\* A relay is sent behind all that were sent before it, and only once.
LEMMA RelayMaps ==
    ASSUME IInv, NEW t \in Ticket, NEW r \in RelayId, relay_escalation_reply(t, r)
    PROVE  [Channel!Next]_(Channel!vars)
<1> DEFINE p == Len(messages[t]) + 1
<1>1. /\ approval[t] = "approved" /\ AddMessage(t, r)
      /\ \A n \in Relays(t) : messages[t][n] # r
  BY DEF relay_escalation_reply, Relays
<1>2. UNCHANGED Shown
  BY <1>1, ShownStays
<1>3. /\ p - 1 \in Nat /\ p - 1 < MaxMessages
      /\ \A n \in Relays(t) : n \in Nat /\ n <= p - 1
      /\ Relays(t)' = Relays(t) \cup {p}
      /\ \A n \in Relays(t) : messages'[t][n] = messages[t][n]
      /\ messages'[t][p] = r
      /\ \A u \in Ticket : u # t => messages'[u] = messages[u]
      /\ UNCHANGED <<approval, receipts>>
  BY <1>1, RelaysGrow
<1>4. p \in 1 .. MaxMessages /\ \A n \in Relays(t) : n < p
  BY <1>3, MaxMessagesAssumption
<1> HIDE DEF p
<1>5. Relayed' = [Relayed EXCEPT ![t] =
          [n \in Relays(t) \cup {p} |-> IF n = p THEN r ELSE Relayed[t][n]]]
  <2>1. ASSUME NEW u \in Ticket, u # t
        PROVE  Relayed'[u] = Relayed[u]
    <3>1. /\ Relayed'[u] = [n \in Relays(u)' |-> messages'[u][n]]
          /\ Relayed[u] = [n \in Relays(u) |-> messages[u][n]]
      BY DEF Relayed
    <3>2. Relays(u)' = Relays(u)
      BY <1>3, <2>1 DEF Relays
    <3> QED BY <1>3, <2>1, <3>1, <3>2
  <2>2. ASSUME NEW n \in Relays(t)
        PROVE  n # p /\ messages'[t][n] = Relayed[t][n]
    <3>1. Relayed[t][n] = messages[t][n]
      BY DEF Relayed
    <3> QED BY <1>3, <1>4, <3>1
  <2>3. Relayed'[t] = [n \in Relays(t) \cup {p} |->
                           IF n = p THEN r ELSE Relayed[t][n]]
    <3>1. Relayed'[t] = [n \in Relays(t)' |-> messages'[t][n]]
      BY DEF Relayed
    <3> QED BY <1>3, <2>2, <3>1
  <2> QED BY <2>1, <2>3 DEF Relayed
<1>6. Channel!Sent(t) = Relays(t)
  BY DEF Channel!Sent
<1>7. \A n \in Relays(t) : Relayed[t][n] = messages[t][n]
  BY DEF Relayed
<1>8. Channel!Send(t, r)
  BY <1>1, <1>2, <1>3, <1>4, <1>5, <1>6, <1>7
  DEF Channel!Send, Relayed, Shown
<1> QED BY <1>8 DEF Channel!Next

\* The rows of a pull are received together, none before them left out.
LEMMA PullMaps ==
    ASSUME IInv, IInv', NEW t \in Ticket, PullCommits(t)
    PROVE  [Channel!Next]_(Channel!vars)
<1>1. /\ UNCHANGED <<approval, messages, acked>>
      /\ receipts' = [receipts EXCEPT ![t] = receipts[t] \cup loop.rows]
      /\ receipts \in [Ticket -> SUBSET Nat]
  BY DEF PullCommits, coreVars, IInv, TypeOK
<1>2. \A u \in Ticket : Relays(u)' = Relays(u)
  BY <1>1 DEF Relays
<1>3. /\ cursor'[t] \in Nat
      /\ receipts'[t] = {n \in Relays(t) : n <= cursor'[t]}
  BY <1>2 DEF IInv, TypeOK, InboxIsPrefix
<1>4. Channel!WithoutGap(receipts'[t], t)
  BY <1>3, UpToIsWithoutGap
<1>5. /\ receipts[t] \subseteq receipts'[t]
      /\ receipts' = [receipts EXCEPT ![t] = receipts'[t]]
  BY <1>1
<1>6. Channel!Sent(t) = Relays(t)
  BY DEF Channel!Sent
<1>7. UNCHANGED <<Decided, Relayed, Shown>>
  BY <1>1, <1>2 DEF Decided, Relayed, Shown
<1>8. Channel!Receive(t)
  BY <1>3, <1>4, <1>5, <1>6, <1>7 DEF Channel!Receive, Decided, Relayed, Shown
<1> QED BY <1>8 DEF Channel!Next

\* A handled acknowledgement shows replies the school has, from the first on.
LEMMA AckMaps ==
    ASSUME IInv, IInv', NEW a \in acks, AckCommits(a)
    PROVE  [Channel!Next]_(Channel!vars)
<1> DEFINE t == a.ticket
           S == {n \in Relays(t) : n <= acked'[t]}
<1>1. /\ t \in Ticket
      /\ UNCHANGED <<receipts, cursor, approval, messages>>
      /\ acked \in [Ticket -> Nat] /\ acked' \in [Ticket -> Nat]
      /\ \A u \in Ticket : u # t => acked'[u] = acked[u]
  BY DEF AckCommits, IInv, TypeOK, tenantVars
<1>2. \A u \in Ticket : Relays(u)' = Relays(u)
  BY <1>1 DEF Relays
<1>3. /\ acked'[t] \in Nat /\ cursor[t] \in Nat /\ Relays(t) \subseteq Nat
      /\ acked'[t] <= cursor[t]
      /\ receipts[t] = {n \in Relays(t) : n <= cursor[t]}
  <2>1. acked'[t] <= cursor'[t]
    BY <1>1 DEF IInv, CursorInv
  <2>2. cursor[t] \in Nat /\ Relays(t) \subseteq Nat
    BY <1>1 DEF IInv, TypeOK, Relays
  <2>3. receipts[t] = {n \in Relays(t) : n <= cursor[t]}
    BY <1>1 DEF IInv, InboxIsPrefix
  <2> HIDE DEF t
  <2> QED BY <1>1, <2>1, <2>2, <2>3
<1> HIDE DEF t
<1>4. S \subseteq receipts[t]
  BY <1>3
<1>5. Channel!WithoutGap(S, t)
  <2> HIDE DEF S
  <2>1. S = {n \in Relays(t) : n <= acked'[t]}
    BY DEF S
  <2> QED BY <1>1, <1>3, <2>1, UpToIsWithoutGap
<1>6. Shown' = [Shown EXCEPT ![t] = S]
  BY <1>1, <1>2 DEF Shown
<1>7. UNCHANGED <<Decided, Relayed>>
  BY <1>1, <1>2 DEF Decided, Relayed
<1> HIDE DEF S
<1>8. Channel!Confirm(t)
  BY <1>1, <1>4, <1>5, <1>6, <1>7 DEF Channel!Confirm, Decided, Relayed, Shown
<1> QED BY <1>1, <1>8 DEF Channel!Next

\* Every step of the loop, the core and the admins is a step of the channel or
\* none.
LEMMA ChannelStep ==
    ASSUME IInv, IInv', [Next]_vars
    PROVE  [Channel!Next]_(Channel!vars)
<1>1. ASSUME NEW t \in Ticket, intake_escalation(t)
      PROVE  [Channel!Next]_(Channel!vars)
  BY <1>1, IntakeMaps
<1>2. ASSUME NEW t \in Ticket, NEW d \in {"approved", "rejected"},
             decide_escalation(t, d)
      PROVE  [Channel!Next]_(Channel!vars)
  BY <1>2, DecisionMaps
<1>3. ASSUME NEW t \in Ticket, admin_reply(t)
      PROVE  [Channel!Next]_(Channel!vars)
  BY <1>3, AdminReplyMaps
<1>4. ASSUME NEW t \in Ticket, NEW r \in RelayId, relay_escalation_reply(t, r)
      PROVE  [Channel!Next]_(Channel!vars)
  BY <1>4, RelayMaps
<1>5. ASSUME NEW t \in Ticket, PullCommits(t)
      PROVE  [Channel!Next]_(Channel!vars)
  BY <1>5, PullMaps
<1>6. ASSUME NEW a \in acks, AckCommits(a)
      PROVE  [Channel!Next]_(Channel!vars)
  BY <1>6, AckMaps
<1>7. CASE UNCHANGED <<approval, messages, receipts, acked>>
  <2>1. \A u \in Ticket : Relays(u)' = Relays(u)
    BY <1>7 DEF Relays
  <2>2. UNCHANGED <<Decided, Relayed, Shown>>
    BY <1>7, <2>1 DEF Decided, Relayed, Shown
  <2> QED BY <1>7, <2>2 DEF Channel!vars, Decided, Relayed, Shown
<1> QED
  BY <1>1, <1>2, <1>3, <1>4, <1>5, <1>6, <1>7
  DEF Next, LoopStep, CoreStep, Trouble, Admins, vars, tenantVars, coreVars,
      DeliverBegins, DeliverPosts, DeliverCommits, DeliverFails, PullBegins,
      PullAsks, OutboundTicket, OutboundMessages, PullRollsBack, PullFails,
      AckReads, AckAnswered, AckGivenUp, Sleeps, Interrupted,
      escalate_ticket, RetryLoads, RetryCommits, BackoffEnds

\* The escalation keeps what SupportChannel promises: a ticket is decided once,
\* its replies reach the school once each, in order and without a gap, and are
\* shown as delivered only when stored, whatever requests are lost, late or
\* handled twice (escalation.py, the outbound endpoints of support.py).
THEOREM EscalationKeepsPromise == Spec => ImplementsChannel
<1>1. Init => Channel!Init
  BY ChannelInit
<1>2. IInv /\ IInv' /\ [Next]_vars => [Channel!Next]_(Channel!vars)
  BY ChannelStep
<1> QED BY <1>1, <1>2, InvariantHolds, PTL
        DEF Spec, ImplementsChannel, Channel!Spec

=============================================================================
