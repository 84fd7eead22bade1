---------------------------- MODULE MobileOutbox ----------------------------
(***************************************************************************)
(* The message outboxes of the mobile application: chat messages            *)
(* (perum-mobile/src/messages) and replies to a support ticket              *)
(* (perum-mobile/src/support).  What the user writes becomes a row of       *)
(* SQLite; an outbox core sends the rows to the school's server, which      *)
(* recognises a repeated message by its client_message_id.                  *)
(*                                                                         *)
(* A provider makes a new core with every effect React runs for it.  The    *)
(* core of an effect that was cleaned up has no triggers any more, but what *)
(* it awaits goes on, beside the core of the next effect and over the same  *)
(* rows.  Every await is a step of its own here.                            *)
(*                                                                         *)
(* The two outboxes differ in three points, each an operator of its own:    *)
(* when a core may send, which row it sends next, and whether it stops      *)
(* after a failure.  Which of them a behaviour is about is chosen by Init.  *)
(***************************************************************************)
EXTENDS Naturals

CONSTANTS
    MaxMessages,    \* bound on the messages the user writes
    Thread,         \* conversations or tickets
    ThreadOf,       \* message -> its thread
    Effect,         \* effects of the provider that may overlap
    NoEffect,
    MaxTroubles     \* bound on losses, remounts, restarts, sign-outs, retries

\* Messages in the order they are written, which (created_at, id) of the row stands
\* for: rows of one millisecond or of a clock set back would sort otherwise.
Message == 1 .. MaxMessages
NoMessage == 0

ASSUME MaxMessagesAssumption == MaxMessages \in Nat
ASSUME ThreadOfAssumption == ThreadOf \in [Message -> Thread]
ASSUME NoEffectAssumption == NoEffect \notin Effect
ASSUME MaxTroublesAssumption == MaxTroubles \in Nat

VARIABLES
    outbox,     \* which outbox: "messages" or "support"
    enabled,    \* enabledRef.current, false without an account
    leaving,    \* a sign-out has deleted the rows, setAccount(null) is to come
    current,    \* the mounted effect, the one whose alive is true
    core,       \* effect -> where its core is in run()
    recovering, \* effects whose recover() is not done
    retrying,   \* effect -> the row its retry() has read
    row,        \* message -> state of its row, "none" without one
    written,    \* how many messages were written
    wire,       \* requests their caller gave up, still under way
    copies,     \* message -> how many times the server stored it
    erased,     \* messages whose row a sign-out deleted
    troubles    \* troubles so far

accountVars == <<enabled, leaving>>
effectVars == <<core, recovering, retrying>>
userVars == <<written, erased>>
vars == <<outbox, accountVars, current, effectVars, row, userVars, wire, copies, troubles>>

\* A retry_wait row is "due" once next_attempt_at has passed.
RowState == {"none", "pending", "sending", "retry_wait", "due", "failed"}
Phase == {"picked", "marked", "notified", "inflight", "answered"}
Answer == {"none", "success", "retry", "permanent"}
AtRest == [phase : {"idle", "loop"}, item : {NoMessage}, was : {"none"},
           answer : {"none"}]
AtWork == [phase : Phase, item : Message, was : {"pending", "due"}, answer : Answer]

Resting(phase) == [phase |-> phase, item |-> NoMessage, was |-> "none",
                   answer |-> "none"]
Idle == Resting("idle")
Loop == Resting("loop")
Busy(e) == core[e].phase \in Phase

TypeOK ==
    /\ outbox \in {"messages", "support"}
    /\ enabled \in BOOLEAN /\ leaving \in BOOLEAN
    /\ current \in Effect \cup {NoEffect}
    /\ core \in [Effect -> AtRest \cup AtWork]
    /\ recovering \subseteq Effect
    /\ retrying \in [Effect -> Message \cup {NoMessage}]
    /\ row \in [Message -> RowState]
    /\ written \in 0 .. MaxMessages
    /\ wire \subseteq Message
    /\ copies \in [Message -> 0 .. 1]
    /\ erased \subseteq Message
    /\ troubles \in 0 .. MaxTroubles

Init ==
    /\ outbox \in {"messages", "support"}
    /\ enabled = FALSE /\ leaving = FALSE
    /\ current = NoEffect
    /\ core = [e \in Effect |-> Idle]
    /\ recovering = {}
    /\ retrying = [e \in Effect |-> NoMessage]
    /\ row = [m \in Message |-> "none"]
    /\ written = 0
    /\ wire = {}
    /\ copies = [m \in Message |-> 0]
    /\ erased = {}
    /\ troubles = 0

Trouble == troubles < MaxTroubles /\ troubles' = troubles + 1

-----------------------------------------------------------------------------
(* Where the two outboxes differ *)

Written == 1 .. written

\* n was written before m in the thread of m.
Before(n, m) == ThreadOf[n] = ThreadOf[m] /\ n < m

Ready == {m \in Message : row[m] \in {"pending", "due"}}

\* MUTANT of RunnableSupport: only rows that still wait for a send hold
\* back the later ones of their ticket
RunnableBehindActive ==
    {m \in Ready : \A n \in Message :
        row[n] \in {"pending", "due", "sending"} => ~ Before(n, m)}

\* A support message waits for every earlier row of its ticket, a failed
\* one included.
RunnableSupport ==
    {m \in Ready : \A n \in Message : row[n] # "none" => ~ Before(n, m)}

Runnable == IF outbox = "support" THEN RunnableSupport ELSE Ready

\* alive && enabledRef.current && the account is still the effect's
CanSendMessages(e) == e = current /\ enabled

\* A core of the support provider goes on after its effect was cleaned up.
CanSend(e) == IF outbox = "support" THEN enabled ELSE CanSendMessages(e)

AfterFailure == IF outbox = "support" THEN Loop ELSE Idle

-----------------------------------------------------------------------------
(* Effects of the provider and the life of the application *)

Free(e) == e \notin recovering /\ core[e] = Idle /\ retrying[e] = NoMessage

\* The effect runs: a new core, recover() and the triggers.
Mount(e) ==
    /\ enabled /\ current = NoEffect
    /\ Free(e) /\ e = CHOOSE f \in Effect : Free(f)
    /\ current' = e
    /\ recovering' = recovering \cup {e}
    /\ UNCHANGED <<outbox, accountVars, core, retrying, row, userVars, wire, copies,
                   troubles>>

\* A new apiClient: AuthProvider makes one every time it renders.
Unmount ==
    /\ current # NoEffect
    /\ Trouble
    /\ current' = NoEffect
    /\ UNCHANGED <<outbox, accountVars, effectVars, row, userVars, wire, copies>>

\* A descriptor without the capability, and one that has it again.
Disable ==
    /\ enabled
    /\ Trouble
    /\ enabled' = FALSE
    /\ current' = NoEffect
    /\ UNCHANGED <<outbox, leaving, effectVars, row, userVars, wire, copies>>

Enable ==
    /\ ~ enabled
    /\ enabled' = TRUE
    /\ UNCHANGED <<outbox, leaving, current, effectVars, row, userVars, wire, copies,
                   troubles>>

\* The process dies; a request that has left may still arrive.  An account that was
\* signed out is in the registry no more.
Kill ==
    /\ Trouble
    /\ enabled' = (enabled /\ ~ leaving) /\ leaving' = FALSE
    /\ current' = NoEffect
    /\ core' = [e \in Effect |-> Idle]
    /\ recovering' = {}
    /\ retrying' = [e \in Effect |-> NoMessage]
    /\ wire' = wire \cup {m \in Message : \E e \in Effect :
                             core[e].phase = "inflight" /\ core[e].item = m}
    /\ UNCHANGED <<outbox, row, userVars, copies>>

\* Sign-out deletes the account's rows; what a core awaits goes on, and the mounted
\* effect too, until the state of AuthProvider has no account.
SignOut ==
    /\ enabled /\ ~ leaving
    /\ Trouble
    /\ leaving' = TRUE
    /\ row' = [m \in Message |-> "none"]
    /\ erased' = erased \cup {m \in Message : row[m] # "none"}
    /\ UNCHANGED <<outbox, enabled, current, effectVars, written, wire, copies>>

Leave ==
    /\ leaving
    /\ leaving' = FALSE
    /\ enabled' = FALSE
    /\ current' = NoEffect
    /\ UNCHANGED <<outbox, effectVars, row, userVars, wire, copies, troubles>>

-----------------------------------------------------------------------------
(* The user *)

\* run() of a core that is already running returns at once.
Started(e) == [core EXCEPT ![e] = IF @ = Idle THEN Loop ELSE @]

Submit(e, m) ==
    /\ e = current /\ m = written + 1
    /\ written' = m
    /\ row' = [row EXCEPT ![m] = "pending"]
    /\ core' = Started(e)
    /\ UNCHANGED <<outbox, accountVars, current, recovering, retrying, wire, copies,
                   erased, troubles>>

\* retry() reads the row, whatever its state, and writes it back in two steps.
RetryRead(e, m) ==
    /\ e = current /\ retrying[e] = NoMessage
    /\ row[m] # "none"
    /\ Trouble
    /\ retrying' = [retrying EXCEPT ![e] = m]
    /\ UNCHANGED <<outbox, accountVars, current, core, recovering, row, userVars, wire,
                   copies>>

RetryPut(e) ==
    /\ retrying[e] # NoMessage
    /\ row' = [row EXCEPT ![retrying[e]] = "pending"]
    /\ retrying' = [retrying EXCEPT ![e] = NoMessage]
    /\ core' = Started(e)
    /\ UNCHANGED <<outbox, accountVars, current, recovering, userVars, wire, copies,
                   troubles>>

-----------------------------------------------------------------------------
(* The run loop of a core *)

\* MUTANT of Recovered: rows a crash left in 'sending' are taken as sent
RecoveredDropped == [m \in Message |-> IF row[m] = "sending" THEN "none" ELSE row[m]]

\* MUTANT of Recovered: rows a crash left in 'sending' stay there
RecoveredNothing == row

Recovered == [m \in Message |-> IF row[m] = "sending" THEN "pending" ELSE row[m]]

\* recover() and the run that follows it.
Recover(e) ==
    /\ e \in recovering
    /\ recovering' = recovering \ {e}
    /\ row' = Recovered
    /\ core' = Started(e)
    /\ UNCHANGED <<outbox, accountVars, current, retrying, userVars, wire, copies,
                   troubles>>

\* run() of an idle core by the timer, the network or the application coming
\* to the front, or the next turn of the loop: the first row to send.
Pick(e) ==
    /\ core[e] = Loop \/ (core[e] = Idle /\ e = current)
    /\ CanSend(e)
    /\ \E m \in Runnable :
        /\ \A n \in Runnable : m <= n
        /\ core' = [core EXCEPT ![e] = [phase |-> "picked", item |-> m,
                                       was |-> row[m], answer |-> "none"]]
    /\ UNCHANGED <<outbox, accountVars, current, recovering, retrying, row, userVars,
                   wire, copies, troubles>>

Rest(e) ==
    /\ core[e] = Loop
    /\ CanSend(e) => Runnable = {}
    /\ core' = [core EXCEPT ![e] = Idle]
    /\ UNCHANGED <<outbox, accountVars, current, recovering, retrying, row, userVars,
                   wire, copies, troubles>>

Mark(e) ==
    /\ core[e].phase = "picked"
    /\ \/ /\ CanSend(e)
          /\ row' = [row EXCEPT ![core[e].item] = "sending"]
          /\ core' = [core EXCEPT ![e].phase = "marked"]
       \/ /\ ~ CanSend(e)
          /\ core' = [core EXCEPT ![e] = Idle]
          /\ UNCHANGED row
    /\ UNCHANGED <<outbox, accountVars, current, recovering, retrying, userVars, wire,
                   copies, troubles>>

\* canSend is asked again after the write; if it fails the row is put back.
Recheck(e) ==
    /\ core[e].phase = "marked"
    /\ \/ /\ CanSend(e)
          /\ core' = [core EXCEPT ![e].phase = "notified"]
          /\ UNCHANGED row
       \/ /\ ~ CanSend(e)
          /\ row' = [row EXCEPT ![core[e].item] = core[e].was]
          /\ core' = [core EXCEPT ![e] = Idle]
    /\ UNCHANGED <<outbox, accountVars, current, recovering, retrying, userVars, wire,
                   copies, troubles>>

Answered(e, answer) ==
    core' = [core EXCEPT ![e] = [@ EXCEPT !.phase = "answered", !.answer = answer]]

\* The provider's send, after onChange: chat asks canSend once more.
Send(e) ==
    /\ core[e].phase = "notified"
    /\ \/ /\ outbox = "support" \/ CanSend(e)
          /\ core' = [core EXCEPT ![e].phase = "inflight"]
       \/ /\ outbox = "messages" /\ ~ CanSend(e)
          /\ Answered(e, "retry")
    /\ UNCHANGED <<outbox, accountVars, current, recovering, retrying, row, userVars,
                   wire, copies, troubles>>

\* MUTANT of RowAfter: a row leaves the outbox on any definite answer
RowAfterAnyAnswer(answer) == IF answer = "retry" THEN "retry_wait" ELSE "none"

\* The row of a message the server took is removed, any other kept.
RowAfter(answer) ==
    CASE answer = "success" -> "none"
      [] answer = "retry" -> "retry_wait"
      [] OTHER -> "failed"

Settle(e) ==
    /\ core[e].phase = "answered"
    /\ row' = [row EXCEPT ![core[e].item] = RowAfter(core[e].answer)]
    /\ core' = [core EXCEPT ![e] = IF @.answer = "success" THEN Loop ELSE AfterFailure]
    /\ UNCHANGED <<outbox, accountVars, current, recovering, retrying, userVars, wire,
                   copies, troubles>>

Elapse(m) ==
    /\ row[m] = "retry_wait"
    /\ row' = [row EXCEPT ![m] = "due"]
    /\ UNCHANGED <<outbox, accountVars, current, effectVars, userVars, wire, copies,
                   troubles>>

-----------------------------------------------------------------------------
(* The school's server and the network *)

\* MUTANT of Store: every request stores a message
StoreAgain(m) == [copies EXCEPT ![m] = @ + 1]

\* A message with a known client_message_id is returned, not stored again.
Store(m) == [copies EXCEPT ![m] = 1]

\* The server has the message; its answer arrives or is lost.
Accept(e) ==
    /\ core[e].phase = "inflight"
    /\ copies' = Store(core[e].item)
    /\ \/ Answered(e, "success") /\ UNCHANGED troubles
       \/ Answered(e, "retry") /\ Trouble
    /\ UNCHANGED <<outbox, accountVars, current, recovering, retrying, row, userVars,
                   wire>>

\* A conversation that is locked, a ticket that is closed, no access.
Refuse(e) ==
    /\ core[e].phase = "inflight"
    /\ Answered(e, "permanent")
    /\ UNCHANGED <<outbox, accountVars, current, recovering, retrying, row, userVars,
                   wire, copies, troubles>>

\* 408, 425, 429, 5xx or a broken connection; the request may come late.
Fail(e) ==
    /\ core[e].phase = "inflight"
    /\ Trouble
    /\ Answered(e, "retry")
    /\ wire' \in {wire, wire \cup {core[e].item}}
    /\ UNCHANGED <<outbox, accountVars, current, recovering, retrying, row, userVars,
                   copies>>

ArriveLate(m) ==
    /\ m \in wire
    /\ wire' = wire \ {m}
    /\ copies' = Store(m)
    /\ UNCHANGED <<outbox, accountVars, current, effectVars, row, userVars, troubles>>

-----------------------------------------------------------------------------

Run(e) == Recover(e) \/ Pick(e) \/ Rest(e) \/ Mark(e) \/ Recheck(e) \/ Send(e) \/ Settle(e)
Serve(e) == Accept(e) \/ Refuse(e) \/ Fail(e)

Next ==
    \/ \E e \in Effect :
        \/ Mount(e) \/ RetryPut(e) \/ Run(e) \/ Serve(e)
        \/ \E m \in Message : Submit(e, m) \/ RetryRead(e, m)
    \/ Unmount \/ Disable \/ Enable \/ Kill \/ SignOut \/ Leave
    \/ \E m \in Message : Elapse(m) \/ ArriveLate(m)

Spec == Init /\ [][Next]_vars

\* The five-second timer of a mounted effect starts its core again and again,
\* promises are settled, back-offs end, the network answers every request in
\* one way or another, the effect runs after a render, and a capability that
\* was taken away is given back.
Fairness ==
    /\ \A e \in Effect :
        /\ WF_vars(Run(e)) /\ WF_vars(Serve(e))
        /\ WF_vars(RetryPut(e)) /\ WF_vars(Mount(e))
    /\ \A m \in Message : WF_vars(Elapse(m))
    /\ WF_vars(Enable) /\ WF_vars(Leave)

FairSpec == Spec /\ Fairness

-----------------------------------------------------------------------------
(* Properties *)

\* What the user wrote is in its row or on the server, whatever crashes,
\* remounts and overlapping cores do; only a sign-out deletes rows
\* (outboxCore.ts: the row is removed only after the server took it).
NothingLost == \A m \in Written \ erased : row[m] # "none" \/ copies[m] > 0

\* The replies of a support ticket reach the server in the order they were
\* written, though two effects' cores send at once: getRunnable of
\* support/sqliteOutbox.ts takes no row while an earlier one of its ticket is left.
TicketFifo ==
    outbox = "support" =>
        \A m, n \in Message :
            Before(n, m) /\ copies[m] > 0 => copies[n] > 0 \/ n \in erased

\* Where a message ends: stored and gone from the outbox, shown as failed,
\* or, in a support ticket, held back by an earlier one that failed.
Settled(m) ==
    \/ copies[m] > 0 /\ row[m] = "none"
    \/ m \in erased
    \/ row[m] = "failed"
    \/ outbox = "support" /\ \E n \in Message : Before(n, m) /\ row[n] = "failed"

\* Every message the user writes settles: none waits for ever in 'sending',
\* in a back-off or behind a row nobody sends.
EveryMessageSettles == \A m \in Message : m <= written ~> Settled(m)

\* What the outbox promises, as OutboxPromise states it.
Promise == INSTANCE OutboxPromise WITH
    ordered <- outbox = "support",
    status <- [m \in Message |->
                CASE m > written -> "new"
                  [] m <= written /\ copies[m] = 1 -> "stored"
                  [] m <= written /\ copies[m] > 1 -> "doubled"
                  [] m <= written /\ copies[m] = 0 /\ m \in erased -> "erased"
                  [] m <= written /\ copies[m] = 0 /\ m \notin erased ->
                        IF row[m] = "none" THEN "lost" ELSE "kept"]

ImplementsPromise == Promise!Spec

=============================================================================
