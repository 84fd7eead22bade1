--------------------------- MODULE SupportChannel ---------------------------
(***************************************************************************)
(* What the escalation of support tickets promises, whatever the network    *)
(* and restarts do: a ticket the school escalates is decided once by the    *)
(* organization; the replies the organization relays after an approval      *)
(* reach the school once each, in order and without a gap; and a reply is   *)
(* shown to the organization as delivered only after the school stored it.  *)
(*                                                                         *)
(* A reply has a place in the conversation of its ticket.  Both sides write *)
(* there, so the places of the replies need not follow each other closely.  *)
(***************************************************************************)
EXTENDS Naturals

CONSTANTS Ticket, RelayId, Place

VARIABLES
    decision,   \* ticket -> what the organization decided
    sent,       \* ticket -> the replies relayed, by their places
    received,   \* ticket -> the places of those the school has
    confirmed   \* ticket -> the places of those the organization sees delivered

vars == <<decision, sent, received, confirmed>>

Decision == {"none", "pending", "approved", "rejected"}

Sent(t) == DOMAIN sent[t]

\* No reply before one of S is missing from S.
WithoutGap(S, t) == \A n \in S : \A m \in Sent(t) : m < n => m \in S

Init ==
    /\ decision = [t \in Ticket |-> "none"]
    /\ sent = [t \in Ticket |-> [n \in {} |-> n]]
    /\ received = [t \in Ticket |-> {}]
    /\ confirmed = [t \in Ticket |-> {}]

Ask(t) ==
    /\ decision[t] = "none"
    /\ decision' = [decision EXCEPT ![t] = "pending"]
    /\ UNCHANGED <<sent, received, confirmed>>

Decide(t) ==
    /\ decision[t] = "pending"
    /\ \E d \in {"approved", "rejected"} : decision' = [decision EXCEPT ![t] = d]
    /\ UNCHANGED <<sent, received, confirmed>>

\* Each reply once, behind all that were sent before it.
Send(t, r) ==
    /\ decision[t] = "approved"
    /\ \A n \in Sent(t) : sent[t][n] # r
    /\ \E p \in Place :
        /\ \A n \in Sent(t) : n < p
        /\ sent' = [sent EXCEPT ![t] =
               [n \in Sent(t) \cup {p} |-> IF n = p THEN r ELSE sent[t][n]]]
    /\ UNCHANGED <<decision, received, confirmed>>

Receive(t) ==
    /\ \E S \in SUBSET Sent(t) :
        /\ received[t] \subseteq S /\ WithoutGap(S, t)
        /\ received' = [received EXCEPT ![t] = S]
    /\ UNCHANGED <<decision, sent, confirmed>>

\* A late confirmation may take the display back, never ahead.
Confirm(t) ==
    /\ \E S \in SUBSET received[t] :
        /\ WithoutGap(S, t)
        /\ confirmed' = [confirmed EXCEPT ![t] = S]
    /\ UNCHANGED <<decision, sent, received>>

Next ==
    \E t \in Ticket :
        \/ Ask(t)
        \/ Decide(t)
        \/ \E r \in RelayId : Send(t, r)
        \/ Receive(t)
        \/ Confirm(t)

Spec == Init /\ [][Next]_vars

=============================================================================
