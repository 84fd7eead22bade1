------------------------- MODULE PreferencesOutbox --------------------------
(***************************************************************************)
(* The preference a user of the mobile application switches, offline or     *)
(* not (perum-mobile/src/preferences), and the versioned endpoint that      *)
(* stores it (perum-tenant/app/modules/user_preferences/router.py).         *)
(*                                                                         *)
(* A tap on the switch becomes a mutation: a row of SQLite with the wanted  *)
(* value, the version it is based on and an idempotency key.  A tap on top  *)
(* of an unsent mutation changes the value of that mutation.  The server    *)
(* applies a mutation to the version it names only, and keeps a receipt by  *)
(* its key; a mutation another device was faster than becomes a conflict,   *)
(* which the user resolves.                                                 *)
(*                                                                         *)
(* As in MobileOutbox, cores of earlier effects overlap with the current    *)
(* one, and every await is a step: between the read and the write of a tap  *)
(* a core may send, and the endpoint reads and commits in two steps.        *)
(***************************************************************************)
EXTENDS Integers, FiniteSets

CONSTANTS
    MaxChoices,     \* bound on taps and resolved conflicts
    Effect,         \* effects of the provider that may overlap
    NoEffect,
    MaxTroubles,    \* bound on losses, remounts, restarts, sign-outs
    MaxForeign      \* bound on changes by another device

\* Mutations in the order they are created; the id stands for the key too.
Mutation == 1 .. MaxChoices
NoMutation == 0

ASSUME MaxChoicesAssumption == MaxChoices \in Nat
ASSUME NoEffectAssumption == NoEffect \notin Effect
ASSUME MaxTroublesAssumption == MaxTroubles \in Nat
ASSUME MaxForeignAssumption == MaxForeign \in Nat

VARIABLES
    enabled,    \* enabledRef.current, false without an account
    current,    \* the mounted effect
    core,       \* effect -> where its core is in run()
    recovering, \* effects whose recover() is not done
    tap,        \* effect -> where its enqueue() or resolveConflict() is
    row,        \* mutation -> its row
    base,       \* mutation -> the version its baseEtag names
    choices,    \* taps and resolutions so far
    closed,     \* mutations the user gave up or a sign-out deleted
    value,      \* the server's push_preview_enabled
    version,    \* and its version
    receipt,    \* mutation -> the answer its key is remembered with
    requests,   \* PATCH requests under way
    foreign,    \* changes by another device so far
    troubles    \* troubles so far

clientVars == <<enabled, current, core, recovering, tap, row>>
choiceVars == <<base, choices, closed>>
serverVars == <<value, version, receipt, foreign>>
vars == <<clientVars, choiceVars, serverVars, requests, troubles>>

\* A row is "new" before its first put and "gone" after its removal; a
\* retry_wait row is "due" once next_attempt_at has passed.
RowState == {"new", "pending", "sending", "retry_wait", "due", "conflict",
             "blocked_auth", "failed_permanent", "gone"}
Row == [state : RowState, desired : BOOLEAN, conflictCurrent : Nat]
NewRow == [state |-> "new", desired |-> FALSE, conflictCurrent |-> 0]
Gone == [NewRow EXCEPT !.state = "gone"]

Phase == {"picked", "marked", "inflight", "answered"}
Answer == {"none", "success", "retry", "conflict", "auth", "permanent"}
AtRest == [phase : {"idle", "loop"}, item : {NoMutation}, copy : {NewRow},
           answer : {"none"}, current : {0}]
AtWork == [phase : Phase, item : Mutation, copy : Row, answer : Answer, current : Nat]
Tapping == [step : {"put", "drop", "renew"}, item : Mutation, fresh : Mutation, copy : Row]
Request == [core : Effect \cup {NoEffect}, item : Mutation, desired : BOOLEAN,
            read : Nat, same : BOOLEAN]

Resting(phase) == [phase |-> phase, item |-> NoMutation, copy |-> NewRow,
                   answer |-> "none", current |-> 0]
Idle == Resting("idle")
Loop == Resting("loop")
NoTap == [step |-> "none", item |-> NoMutation, fresh |-> NoMutation, copy |-> NewRow]

TypeOK ==
    /\ enabled \in BOOLEAN
    /\ current \in Effect \cup {NoEffect}
    /\ core \in [Effect -> AtRest \cup AtWork]
    /\ recovering \subseteq Effect
    /\ tap \in [Effect -> {NoTap} \cup Tapping]
    /\ row \in [Mutation -> Row]
    /\ base \in [Mutation -> Nat]
    /\ choices \in 0 .. MaxChoices
    /\ closed \subseteq Mutation
    /\ value \in BOOLEAN
    /\ version \in Nat \ {0}
    /\ receipt \in [Mutation -> [desired : BOOLEAN, version : Nat]]
    /\ requests \subseteq Request
    /\ foreign \in 0 .. MaxForeign
    /\ troubles \in 0 .. MaxTroubles

NoReceipt == [desired |-> FALSE, version |-> 0]

Init ==
    /\ enabled = FALSE
    /\ current = NoEffect
    /\ core = [e \in Effect |-> Idle]
    /\ recovering = {}
    /\ tap = [e \in Effect |-> NoTap]
    /\ row = [m \in Mutation |-> NewRow]
    /\ base = [m \in Mutation |-> 0]
    /\ choices = 0
    /\ closed = {}
    /\ value = FALSE
    /\ version = 1
    /\ receipt = [m \in Mutation |-> NoReceipt]
    /\ requests = {}
    /\ foreign = 0
    /\ troubles = 0

Trouble == troubles < MaxTroubles /\ troubles' = troubles + 1

Stored(m) == row[m].state \notin {"new", "gone"}

\* The newest of S, if it has one.
Newest(S) == {m \in S : \A n \in S : n <= m}

-----------------------------------------------------------------------------
(* Effects of the provider and the life of the application *)

Free(e) ==
    /\ e \notin recovering /\ core[e] = Idle /\ tap[e] = NoTap
    /\ \A r \in requests : r.core # e

Mount(e) ==
    /\ enabled /\ current = NoEffect
    /\ Free(e) /\ e = CHOOSE f \in Effect : Free(f)
    /\ current' = e
    /\ recovering' = recovering \cup {e}
    /\ UNCHANGED <<enabled, core, tap, row, choiceVars, serverVars, requests, troubles>>

Unmount ==
    /\ current # NoEffect
    /\ Trouble
    /\ current' = NoEffect
    /\ UNCHANGED <<enabled, core, recovering, tap, row, choiceVars, serverVars, requests>>

Disable ==
    /\ enabled
    /\ Trouble
    /\ enabled' = FALSE
    /\ current' = NoEffect
    /\ UNCHANGED <<core, recovering, tap, row, choiceVars, serverVars, requests>>

Enable ==
    /\ ~ enabled
    /\ enabled' = TRUE
    /\ UNCHANGED <<current, core, recovering, tap, row, choiceVars, serverVars, requests, troubles>>

\* A request that left goes on without anybody who waits for its answer.
Detached(r) == [r EXCEPT !.core = NoEffect]

Kill ==
    /\ Trouble
    /\ current' = NoEffect
    /\ core' = [e \in Effect |-> Idle]
    /\ recovering' = {}
    /\ tap' = [e \in Effect |-> NoTap]
    /\ requests' = {Detached(r) : r \in requests}
    /\ UNCHANGED <<enabled, row, choiceVars, serverVars>>

SignOut ==
    /\ enabled
    /\ Trouble
    /\ enabled' = FALSE
    /\ current' = NoEffect
    /\ row' = [m \in Mutation |-> IF Stored(m) THEN Gone ELSE row[m]]
    /\ closed' = closed \cup {m \in Mutation : Stored(m)}
    /\ UNCHANGED <<core, recovering, tap, base, choices, serverVars, requests>>

-----------------------------------------------------------------------------
(* The user *)

Latest == {m \in Mutation : Stored(m)}
Unsent == {m \in Mutation : row[m].state \in {"pending", "retry_wait", "due"}}

\* The value of the preference at a version: each version switches it.
ValueAt(v) == v % 2 = 0

\* What a tap on the switch asks for: the value the screen does not show, and
\* its etag.  The screen shows the newest mutation, or else a cached snapshot,
\* which may be of any age.
Turned ==
    IF Latest = {}
    THEN {[desired |-> ~ ValueAt(v), base |-> v] : v \in 1 .. version}
    ELSE {[desired |-> ~ row[m].desired, base |-> base[m]] : m \in Newest(Latest)}

Begin(e, step, item, fresh, copy) ==
    /\ e = current /\ tap[e] = NoTap
    /\ choices < MaxChoices /\ choices' = choices + 1
    /\ tap' = [tap EXCEPT ![e] = [step |-> step, item |-> item, fresh |-> fresh,
                                  copy |-> copy]]

\* enqueue() has read the unsent mutation, or found none and made a new one.
Choose(e, turn) ==
    /\ \/ /\ \E m \in Newest(Unsent) :
                Begin(e, "put", m, m, [row[m] EXCEPT !.desired = turn.desired,
                                                     !.state = "pending"])
          /\ UNCHANGED base
       \/ /\ Unsent = {}
          /\ LET m == choices + 1 IN
                /\ Begin(e, "put", m, m, [NewRow EXCEPT !.desired = turn.desired,
                                                        !.state = "pending"])
                /\ base' = [base EXCEPT ![m] = turn.base]
    /\ UNCHANGED <<enabled, current, core, recovering, row, closed, serverVars, requests, troubles>>

\* resolveConflict() has read the newest mutation.
Resolve(e) ==
    /\ \E m \in Newest(Latest) :
        /\ row[m].state = "conflict"
        /\ \/ /\ Begin(e, "drop", m, m, row[m])
              /\ UNCHANGED base
           \/ /\ Begin(e, "renew", m, choices + 1, row[m])
              /\ base' = [base EXCEPT ![choices + 1] = row[m].conflictCurrent]
    /\ UNCHANGED <<enabled, current, core, recovering, row, closed, serverVars, requests, troubles>>

\* The conflict is removed; the user's own version becomes a new mutation.
RemoveResolved(e) ==
    /\ tap[e].step \in {"drop", "renew"}
    /\ row' = [row EXCEPT ![tap[e].item] = Gone]
    /\ closed' = closed \cup {tap[e].item}
    /\ tap' = [tap EXCEPT ![e] =
                IF tap[e].step = "drop" THEN NoTap
                ELSE [step |-> "put", item |-> tap[e].fresh, fresh |-> tap[e].fresh,
                      copy |-> [NewRow EXCEPT !.desired = tap[e].copy.desired,
                                              !.state = "pending"]]]
    /\ UNCHANGED <<enabled, current, core, recovering, base, choices, serverVars, requests, troubles>>

\* run() of a core that is already running returns at once.
Started(e) == [core EXCEPT ![e] = IF @ = Idle THEN Loop ELSE @]

\* INSERT OR REPLACE, and a run of the core.
Put(e) ==
    /\ tap[e].step = "put"
    /\ row' = [row EXCEPT ![tap[e].item] = tap[e].copy]
    /\ tap' = [tap EXCEPT ![e] = NoTap]
    /\ core' = Started(e)
    /\ UNCHANGED <<enabled, current, recovering, choiceVars, serverVars, requests, troubles>>

-----------------------------------------------------------------------------
(* The run loop of a core *)

\* A core of an effect that was cleaned up goes on sending.
CanSend == enabled

Runnable == {m \in Mutation : row[m].state \in {"pending", "due"}}

\* MUTANT of Recovered: rows a crash left in 'sending' stay there
RecoveredNothing == row

Recovered == [m \in Mutation |->
    IF row[m].state = "sending" THEN [row[m] EXCEPT !.state = "pending"] ELSE row[m]]

Recover(e) ==
    /\ e \in recovering
    /\ recovering' = recovering \ {e}
    /\ row' = Recovered
    /\ core' = Started(e)
    /\ UNCHANGED <<enabled, current, tap, choiceVars, serverVars, requests, troubles>>

\* run() by the network or the application coming to the front, or the next
\* turn of the loop: the oldest mutation that may be sent.
Pick(e) ==
    /\ core[e] = Loop \/ (core[e] = Idle /\ e = current)
    /\ CanSend
    /\ \E m \in Runnable :
        /\ \A n \in Runnable : m <= n
        /\ core' = [core EXCEPT ![e] = [phase |-> "picked", item |-> m, copy |-> row[m],
                                        answer |-> "none", current |-> 0]]
    /\ UNCHANGED <<enabled, current, recovering, tap, row, choiceVars, serverVars, requests, troubles>>

Rest(e) ==
    /\ core[e] = Loop
    /\ CanSend => Runnable = {}
    /\ core' = [core EXCEPT ![e] = Idle]
    /\ UNCHANGED <<enabled, current, recovering, tap, row, choiceVars, serverVars, requests, troubles>>

\* The copy that was read is written back, whatever the row is by now.
Mark(e) ==
    /\ core[e].phase = "picked"
    /\ \/ /\ CanSend
          /\ row' = [row EXCEPT ![core[e].item] = [core[e].copy EXCEPT !.state = "sending"]]
          /\ core' = [core EXCEPT ![e] = [@ EXCEPT !.phase = "marked"]]
       \/ /\ ~ CanSend
          /\ core' = [core EXCEPT ![e] = Idle]
          /\ UNCHANGED row
    /\ UNCHANGED <<enabled, current, recovering, tap, choiceVars, serverVars, requests, troubles>>

\* canSend is asked again after the write; then the PATCH leaves.
Send(e) ==
    /\ core[e].phase = "marked"
    /\ \/ /\ CanSend
          /\ core' = [core EXCEPT ![e] = [@ EXCEPT !.phase = "inflight"]]
          /\ requests' = requests \cup
                {[core |-> e, item |-> core[e].item, desired |-> core[e].copy.desired,
                  read |-> 0, same |-> FALSE]}
          /\ UNCHANGED row
       \/ /\ ~ CanSend
          /\ row' = [row EXCEPT ![core[e].item] = core[e].copy]
          /\ core' = [core EXCEPT ![e] = Idle]
          /\ UNCHANGED requests
    /\ UNCHANGED <<enabled, current, recovering, tap, choiceVars, serverVars, troubles>>

\* MUTANT of RowAfter: a mutation the server refuses leaves the outbox
RowAfterForgets(c) ==
    CASE c.answer = "retry" -> [c.copy EXCEPT !.state = "retry_wait"]
      [] c.answer = "conflict" ->
            [c.copy EXCEPT !.state = "conflict", !.conflictCurrent = c.current]
      [] OTHER -> Gone

\* MUTANT of RowAfter: the answer is written as the state of the row
RowAfterNamesAnswer(c) ==
    IF c.answer = "success" THEN Gone ELSE [c.copy EXCEPT !.state = c.answer]

\* The row of a mutation the server took is removed; any other is kept.
RowAfter(c) ==
    CASE c.answer = "success" -> Gone
      [] c.answer = "retry" -> [c.copy EXCEPT !.state = "retry_wait"]
      [] c.answer = "conflict" ->
            [c.copy EXCEPT !.state = "conflict", !.conflictCurrent = c.current]
      [] c.answer = "auth" -> [c.copy EXCEPT !.state = "blocked_auth"]
      [] OTHER -> [c.copy EXCEPT !.state = "failed_permanent"]

\* The row is written from the copy, or removed by its id, and the run ends
\* after anything but a success.
Settle(e) ==
    /\ core[e].phase = "answered"
    /\ row' = [row EXCEPT ![core[e].item] = RowAfter(core[e])]
    /\ core' = [core EXCEPT ![e] = IF @.answer = "success" THEN Loop ELSE Idle]
    /\ UNCHANGED <<enabled, current, recovering, tap, choiceVars, serverVars, requests, troubles>>

Elapse(m) ==
    /\ row[m].state = "retry_wait"
    /\ row' = [row EXCEPT ![m] = [@ EXCEPT !.state = "due"]]
    /\ UNCHANGED <<enabled, current, core, recovering, tap, choiceVars, serverVars, requests, troubles>>

-----------------------------------------------------------------------------
(* The endpoint *)

\* A request is answered, if somebody still waits for it.
Reply(r, answer, etag) ==
    /\ requests' = requests \ {r}
    /\ core' = IF r.core = NoEffect THEN core
               ELSE [core EXCEPT ![r.core] = [@ EXCEPT !.phase = "answered",
                                              !.answer = answer, !.current = etag]]

\* MUTANT of ByReceipt: the fingerprint of the request is not compared
ByReceiptOfAny(r) == Reply(r, "success", receipt[r.item].version)

\* A known key is answered from its receipt, or refused for another body.
ByReceipt(r) ==
    IF receipt[r.item].desired = r.desired
    THEN Reply(r, "success", receipt[r.item].version)
    ELSE Reply(r, "permanent", 0)

\* The receipt and the preferences are read; If-Match is compared.
Read(r) ==
    /\ r.read = 0
    /\ \/ /\ receipt[r.item].version # 0
          /\ ByReceipt(r)
       \/ /\ receipt[r.item].version = 0
          /\ base[r.item] # version
          /\ Reply(r, "conflict", version)
       \/ /\ receipt[r.item].version = 0
          /\ base[r.item] = version
          /\ requests' = (requests \ {r}) \cup
                {[r EXCEPT !.read = version, !.same = (value = r.desired)]}
          /\ UNCHANGED core
    /\ UNCHANGED <<enabled, current, recovering, tap, row, choiceVars, serverVars, troubles>>

\* MUTANT of Changes: the UPDATE does not name the version that was read
ChangesAnyVersion(r) == ~ r.same

\* The UPDATE of a value that differs names the version that was read.
Changes(r) == ~ r.same /\ version = r.read

\* The UPDATE, the receipt (its key is unique) and the commit.
Commit(r) ==
    /\ r.read # 0
    /\ \/ /\ ~ r.same /\ ~ Changes(r)
          /\ Reply(r, "conflict", version)
          /\ UNCHANGED serverVars
       \/ /\ r.same \/ Changes(r)
          /\ receipt[r.item].version # 0
          /\ ByReceipt(r)
          /\ UNCHANGED serverVars
       \/ /\ r.same \/ Changes(r)
          /\ receipt[r.item].version = 0
          /\ value' = IF r.same THEN value ELSE r.desired
          /\ version' = IF r.same THEN version ELSE version + 1
          /\ receipt' = [receipt EXCEPT ![r.item] =
                [desired |-> r.desired, version |-> IF r.same THEN r.read ELSE version + 1]]
          /\ Reply(r, "success", IF r.same THEN r.read ELSE version + 1)
          /\ UNCHANGED foreign
    /\ UNCHANGED <<enabled, current, recovering, tap, row, choiceVars, troubles>>

\* The session is gone (401); any other refusal for good ends as a reused key
\* does.
Refuse(r) ==
    /\ r.read = 0
    /\ Reply(r, "auth", 0)
    /\ UNCHANGED <<enabled, current, recovering, tap, row, choiceVars, serverVars, troubles>>

\* A broken connection, 408, 425, 429 or 5xx: the request never arrived, or
\* is served while its sender tries again.
Lose(r) ==
    /\ r.core # NoEffect
    /\ Trouble
    /\ core' = [core EXCEPT ![r.core] = [@ EXCEPT !.phase = "answered", !.answer = "retry"]]
    /\ \/ requests' = requests \ {r}
       \/ requests' = (requests \ {r}) \cup {Detached(r)}
    /\ UNCHANGED <<enabled, current, recovering, tap, row, choiceVars, serverVars>>

\* The user's other device switches the preference.
OtherDevice ==
    /\ foreign < MaxForeign /\ foreign' = foreign + 1
    /\ value' = ~ value
    /\ version' = version + 1
    /\ UNCHANGED <<clientVars, choiceVars, receipt, requests, troubles>>

-----------------------------------------------------------------------------

Run(e) == Recover(e) \/ Pick(e) \/ Rest(e) \/ Mark(e) \/ Send(e) \/ Settle(e)
Tapped(e) == RemoveResolved(e) \/ Put(e)
Serve(r) == Read(r) \/ Commit(r) \/ Refuse(r) \/ Lose(r)

\* The request of a core's PATCH is answered.
Answered(e) == \E r \in requests : r.core = e /\ (Read(r) \/ Commit(r))

Next ==
    \/ \E e \in Effect :
        \/ Mount(e) \/ Run(e) \/ Tapped(e) \/ Resolve(e)
        \/ \E turn \in Turned : Choose(e, turn)
    \/ \E r \in requests : Serve(r)
    \/ \E m \in Mutation : Elapse(m)
    \/ Unmount \/ Disable \/ Enable \/ Kill \/ SignOut \/ OtherDevice

Spec == Init /\ [][Next]_vars

\* Promises are settled, back-offs end, a request is answered, the effect
\* runs after a render, a capability is given back, and a mounted effect sees
\* the network or the application come back again and again: there is no
\* timer here, nothing else starts the core of a waiting mutation.
Fairness ==
    /\ \A e \in Effect :
        WF_vars(Run(e)) /\ WF_vars(Tapped(e)) /\ WF_vars(Answered(e)) /\ WF_vars(Mount(e))
    /\ \A m \in Mutation : WF_vars(Elapse(m))
    /\ WF_vars(Enable)

FairSpec == Spec /\ Fairness

-----------------------------------------------------------------------------
(* Properties *)

\* A mutation leaves the outbox only when the server holds its receipt, the
\* user gave it up in a conflict, or a sign-out deleted it, whatever overlaps,
\* crashes or is lost (outboxCore.ts:69-85, 93-102).
RemovedIsDecided ==
    \A m \in Mutation :
        row[m].state = "gone" => receipt[m].version # 0 \/ m \in closed

\* A core that is told of a success sent the value the server stored for that
\* key: a key that was used with another value is refused (router.py:85-87,
\* 158-159), although a tap may change the value of a mutation that was sent.
SuccessMeansStored ==
    \A e \in Effect :
        core[e].answer = "success" =>
            /\ receipt[core[e].item].version # 0
            /\ receipt[core[e].item].desired = core[e].copy.desired

\* A mutation changes the preference only as its user saw it: a change another
\* device committed meanwhile, even between the endpoint's read and its
\* write, is never overwritten unseen (router.py:97-113).
NoUnseenOverwrite ==
    [][\A m \in Mutation :
        receipt'[m].version # receipt[m].version /\ value' # value => base[m] = version]_vars

\* The outbox and the endpoint, as VersionedSwitch states what they are for.
Switch == INSTANCE VersionedSwitch WITH kept <- Latest, stored <- receipt

\* Whatever overlaps, crashes, is lost, late or retried, on the phone, on the way
\* or between the endpoint's read and its commit, and whatever another device does:
\* a mutation leaves the outbox only when decided, is stored once under its key,
\* changes the preference only from the version it was made for, and has a
\* true receipt (outboxCore.ts:69-102, router.py:79-166).
ImplementsSwitch == Switch!Spec

\* Every mutation ends: stored, in a conflict, blocked or failed, so that the
\* screen stops showing it as waiting.
Waiting(m) == row[m].state \in {"pending", "sending", "retry_wait", "due"}
EveryMutationSettles == \A m \in Mutation : Waiting(m) ~> ~ Waiting(m)

=============================================================================
