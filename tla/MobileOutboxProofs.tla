------------------------- MODULE MobileOutboxProofs -------------------------
(***************************************************************************)
(* Proofs about MobileOutbox, for any number of messages, threads and       *)
(* overlapping effects and any number of troubles.                          *)
(***************************************************************************)
EXTENDS MobileOutbox, TLAPS

\* What a core works on, and what is in a row, on the network, on the server
\* or erased, was written.
HeldInv ==
    \A e \in Effect :
        /\ Busy(e) => core[e].item <= written
        /\ retrying[e] # NoMessage => retrying[e] <= written

DataInv ==
    \A m \in Message :
        row[m] # "none" \/ copies[m] = 1 \/ m \in wire \/ m \in erased => m <= written

\* A core that was told of a success holds a message the server has.
SuccessInv ==
    \A e \in Effect :
        core[e].answer = "success" =>
            core[e].phase = "answered" /\ copies[core[e].item] = 1

\* Nothing before m in its thread is still to be stored.
Cleared(m) == \A n \in Message : Before(n, m) => copies[n] > 0 \/ n \in erased

ClearedInv ==
    outbox = "support" =>
        /\ \A e \in Effect : Busy(e) => Cleared(core[e].item)
        /\ \A m \in wire : Cleared(m)

\* The inductive invariant.  TicketFifo needs ClearedInv for a request that
\* is served long after its row was picked, NothingLost needs SuccessInv for
\* the row that is removed, ClearedInv needs NothingLost for the row that is not
\* there when a later one is picked.
IInv ==
    /\ TypeOK
    /\ HeldInv
    /\ DataInv
    /\ SuccessInv
    /\ ClearedInv
    /\ NothingLost
    /\ TicketFifo

-----------------------------------------------------------------------------
(* The invariant is inductive *)

\* The values the actions write belong to their types.
LEMMA Literals ==
    /\ \A s \in {"none", "pending", "sending", "retry_wait", "due", "failed"} :
           s \in RowState
    /\ \A a \in {"none", "success", "retry", "permanent"} : a \in Answer
    /\ \A p \in {"picked", "marked", "notified", "inflight", "answered"} : p \in Phase
    /\ "idle" \notin Phase /\ "loop" \notin Phase
    /\ NoMessage \notin Message
  BY MaxMessagesAssumption DEF Phase, RowState, Answer, Message, NoMessage

LEMMA Numbers ==
    /\ Message \subseteq Nat
    /\ TypeOK => written \in Nat /\ 1 .. written \subseteq Message
  BY MaxMessagesAssumption DEF Message, TypeOK

LEMMA TroubleType ==
    ASSUME troubles \in 0 .. MaxTroubles, Trouble
    PROVE  troubles' \in 0 .. MaxTroubles
  BY MaxTroublesAssumption DEF Trouble

\* An answer changes no item and wakes no other core.
LEMMA AnsweredCore ==
    ASSUME TypeOK, NEW e \in Effect, core[e].phase \in {"notified", "inflight"},
           NEW a \in Answer, Answered(e, a)
    PROVE  /\ core' \in [Effect -> AtRest \cup AtWork]
           /\ core[e].item \in Message
           /\ core'[e].phase = "answered" /\ core'[e].answer = a
           /\ \A f \in Effect : f # e => core'[f] = core[f]
           /\ \A f \in Effect : core'[f].item = core[f].item /\ Busy(f)' = Busy(f)
<1> DEFINE r == [core[e] EXCEPT !.phase = "answered", !.answer = a]
<1>1. core[e] \in AtWork
  BY Literals DEF TypeOK, AtRest, AtWork
<1>2. r \in AtWork /\ r.phase = "answered" /\ r.answer = a /\ r.item = core[e].item
  BY <1>1, Literals DEF AtWork
<1>3. core' = [core EXCEPT ![e] = r]
  BY DEF Answered
<1>4. core[e].item \in Message
  BY <1>1 DEF AtWork
<1> HIDE DEF r
<1>5. core' \in [Effect -> AtRest \cup AtWork] /\ core'[e] = r
      /\ \A f \in Effect : f # e => core'[f] = core[f]
  BY <1>2, <1>3 DEF TypeOK
<1> QED BY <1>2, <1>4, <1>5, Literals DEF Busy

LEMMA InitInv == Init => IInv
<1> SUFFICES ASSUME Init PROVE IInv
  OBVIOUS
<1>1. TypeOK
  <2>1. 0 \in 0 .. MaxMessages /\ 0 \in 0 .. MaxTroubles /\ 0 \in 0 .. 1
    BY MaxMessagesAssumption, MaxTroublesAssumption
  <2>2. Idle \in AtRest
    BY DEF Idle, Resting, AtRest
  <2> QED BY <2>1, <2>2, Literals DEF Init, TypeOK
<1>2. \A e \in Effect : ~ Busy(e) /\ core[e].answer = "none"
  BY Literals DEF Init, Busy, Idle, Resting
<1>3. HeldInv /\ DataInv /\ SuccessInv
  BY <1>1, <1>2 DEF Init, TypeOK, HeldInv, DataInv, SuccessInv
<1> QED
  BY <1>1, <1>2, <1>3
  DEF Init, IInv, ClearedInv, NothingLost, Written, TicketFifo

\* A step keeps the types.
LEMMA TypeStep ==
    ASSUME IInv, [Next]_vars
    PROVE  TypeOK'
<1> USE Literals DEF TypeOK, accountVars, effectVars, userVars, IInv
<1>1. ASSUME NEW e \in Effect, Mount(e)
      PROVE  TypeOK'
  BY <1>1 DEF Mount
<1>2. CASE Unmount
  BY <1>2, TroubleType DEF Unmount
<1>3. CASE Disable
  BY <1>3, TroubleType DEF Disable
<1>4. CASE Enable
  BY <1>4 DEF Enable
<1>5. CASE Kill
  BY <1>5, TroubleType DEF Kill, Resting, Idle, Loop, Busy, AtRest, AtWork
<1>6. CASE SignOut
  BY <1>6, TroubleType DEF SignOut
<1>6b. CASE Leave
  BY <1>6b DEF Leave
<1>7. ASSUME NEW e \in Effect, NEW m \in Message, Submit(e, m)
      PROVE  TypeOK'
  BY <1>7
  DEF Submit, Started, Resting, Idle, Loop, Message, Written, AtRest, AtWork
<1>8. ASSUME NEW e \in Effect, NEW m \in Message, RetryRead(e, m)
      PROVE  TypeOK'
  BY <1>8, TroubleType DEF RetryRead
<1>9. ASSUME NEW e \in Effect, RetryPut(e)
      PROVE  TypeOK'
  BY <1>9 DEF RetryPut, Started, Resting, Idle, Loop, AtRest, AtWork
<1>10. ASSUME NEW e \in Effect, Recover(e)
      PROVE  TypeOK'
  BY <1>10
  DEF Recover, Started, Recovered, Resting, Idle, Loop, AtRest, AtWork
<1>11. ASSUME NEW e \in Effect, Pick(e)
      PROVE  TypeOK'
  BY <1>11
  DEF Pick, Resting, Idle, Loop, Runnable, RunnableSupport, Ready, AtRest,
      AtWork
<1>12. ASSUME NEW e \in Effect, Rest(e)
      PROVE  TypeOK'
  BY <1>12 DEF Rest, Resting, Idle, Loop, AtRest, AtWork
<1>13. ASSUME NEW e \in Effect, Mark(e)
      PROVE  TypeOK'
  BY <1>13 DEF Mark, Resting, Idle, Loop, AtRest, AtWork
<1>14. ASSUME NEW e \in Effect, Recheck(e)
      PROVE  TypeOK'
  BY <1>14 DEF Recheck, Resting, Idle, Loop, AtRest, AtWork
<1>15. ASSUME NEW e \in Effect, Send(e)
      PROVE  TypeOK'
  <2>1. CASE core' = [core EXCEPT ![e].phase = "inflight"]
    BY <1>15, <2>1 DEF Send, AtRest, AtWork
  <2>2. CASE Answered(e, "retry")
    BY <1>15, <2>2, AnsweredCore DEF Send
  <2> QED BY <1>15, <2>1, <2>2 DEF Send
<1>16. ASSUME NEW e \in Effect, Settle(e)
      PROVE  TypeOK'
  <2>1. RowAfter(core[e].answer) \in RowState
    BY DEF RowAfter
  <2>2. (IF core[e].answer = "success" THEN Loop ELSE AfterFailure) \in AtRest
    BY DEF AfterFailure, Loop, Idle, Resting, AtRest
  <2> QED BY <1>16, <2>1, <2>2 DEF Settle
<1>17. ASSUME NEW e \in Effect, Accept(e)
      PROVE  TypeOK'
  <2>1. core[e].item \in Message /\ core' \in [Effect -> AtRest \cup AtWork]
    BY <1>17, AnsweredCore DEF Accept
  <2>2. copies' \in [Message -> 0 .. 1]
    BY <1>17, <2>1 DEF Accept, Store
  <2> QED BY <1>17, TroubleType, <2>1, <2>2 DEF Accept
<1>18. ASSUME NEW e \in Effect, Refuse(e)
      PROVE  TypeOK'
  BY <1>18 DEF Refuse, Answered, AtRest, AtWork
<1>19. ASSUME NEW e \in Effect, Fail(e)
      PROVE  TypeOK'
  BY <1>19, TroubleType DEF Fail, Answered, Busy, AtRest, AtWork
<1>20. ASSUME NEW m \in Message, Elapse(m)
      PROVE  TypeOK'
  BY <1>20 DEF Elapse
<1>21. ASSUME NEW m \in Message, ArriveLate(m)
      PROVE  TypeOK'
  BY <1>21 DEF ArriveLate, Store
<1>22. CASE UNCHANGED vars
  BY <1>22 DEF vars
<1> QED
  BY <1>1, <1>2, <1>3, <1>4, <1>5, <1>6, <1>6b, <1>7, <1>8, <1>9, <1>10, <1>11,
     <1>12, <1>13, <1>14, <1>15, <1>16, <1>17, <1>18, <1>19, <1>20, <1>21,
     <1>22 DEF Next, Run, Serve

\* A step keeps HeldInv.
LEMMA HeldStep ==
    ASSUME IInv, TypeOK', [Next]_vars
    PROVE  HeldInv'
<1> USE Literals, Numbers
DEF TypeOK, IInv, HeldInv, Busy, accountVars, effectVars, userVars, AtRest, AtWork
<1>1. CASE Kill
  BY <1>1 DEF Kill, Resting, Idle, Loop
<1>2. ASSUME NEW e \in Effect, NEW m \in Message, Submit(e, m)
      PROVE  HeldInv'
  BY <1>2 DEF Submit, Started, Resting, Idle, Loop, Message
<1>3. ASSUME NEW e \in Effect, NEW m \in Message, RetryRead(e, m)
      PROVE  HeldInv'
  BY <1>3 DEF RetryRead, DataInv
<1>4. ASSUME NEW e \in Effect, RetryPut(e)
      PROVE  HeldInv'
  BY <1>4 DEF RetryPut, Started, Resting, Idle, Loop
<1>5. ASSUME NEW e \in Effect, Recover(e)
      PROVE  HeldInv'
  BY <1>5 DEF Recover, Started, Recovered, Resting, Idle, Loop
<1>6. ASSUME NEW e \in Effect, Pick(e)
      PROVE  HeldInv'
  BY <1>6
  DEF Pick, Resting, Idle, Loop, Runnable, RunnableSupport, Ready, DataInv
<1>7. ASSUME NEW e \in Effect, Rest(e)
      PROVE  HeldInv'
  BY <1>7 DEF Rest, Resting, Idle, Loop
<1>8. ASSUME NEW e \in Effect, Mark(e)
      PROVE  HeldInv'
  BY <1>8 DEF Mark, Resting, Idle, Loop
<1>9. ASSUME NEW e \in Effect, Recheck(e)
      PROVE  HeldInv'
  BY <1>9 DEF Recheck, Resting, Idle, Loop
<1>10. ASSUME NEW e \in Effect, Send(e)
      PROVE  HeldInv'
  <2>1. CASE core' = [core EXCEPT ![e].phase = "inflight"]
    BY <1>10, <2>1 DEF Send, AtRest, AtWork
  <2>2. CASE Answered(e, "retry")
    BY <1>10, <2>2, AnsweredCore DEF Send
  <2> QED BY <1>10, <2>1, <2>2 DEF Send
<1>11. ASSUME NEW e \in Effect, Settle(e)
      PROVE  HeldInv'
  BY <1>11 DEF Settle, Resting, Idle, Loop, AfterFailure, RowAfter
<1>12. ASSUME NEW e \in Effect, Accept(e)
      PROVE  HeldInv'
  BY <1>12, AnsweredCore DEF Accept
<1>13. ASSUME NEW e \in Effect, Refuse(e)
      PROVE  HeldInv'
  BY <1>13, AnsweredCore DEF Refuse
<1>14. ASSUME NEW e \in Effect, Fail(e)
      PROVE  HeldInv'
  BY <1>14, AnsweredCore DEF Fail
<1>15. CASE UNCHANGED vars
  BY <1>15 DEF vars
<1> QED
  BY <1>1, <1>2, <1>3, <1>4, <1>5, <1>6, <1>7, <1>8, <1>9, <1>10, <1>11,
     <1>12, <1>13, <1>14, <1>15
  DEF Next, Run, Serve, Mount, Unmount, Disable, Enable, SignOut, Leave, Elapse,
      ArriveLate, Store

\* A step keeps DataInv.
LEMMA DataStep ==
    ASSUME IInv, TypeOK', [Next]_vars
    PROVE  DataInv'
<1> USE Literals, Numbers
DEF TypeOK, IInv, HeldInv, DataInv, Busy, accountVars, effectVars, userVars, AtRest, AtWork
<1>1. CASE Kill
  BY <1>1 DEF Kill, Resting, Idle, Loop
<1>2. CASE SignOut
  BY <1>2 DEF SignOut
<1>3. ASSUME NEW e \in Effect, NEW m \in Message, Submit(e, m)
      PROVE  DataInv'
  BY <1>3 DEF Submit, Started, Resting, Idle, Loop
<1>4. ASSUME NEW e \in Effect, RetryPut(e)
      PROVE  DataInv'
  BY <1>4 DEF RetryPut, Started, Resting, Idle, Loop
<1>5. ASSUME NEW e \in Effect, Recover(e)
      PROVE  DataInv'
  BY <1>5 DEF Recover, Started, Recovered, Resting, Idle, Loop
<1>6. ASSUME NEW e \in Effect, Mark(e)
      PROVE  DataInv'
  BY <1>6 DEF Mark, Resting, Idle, Loop
<1>7. ASSUME NEW e \in Effect, Recheck(e)
      PROVE  DataInv'
  BY <1>7 DEF Recheck, Resting, Idle, Loop
<1>8. ASSUME NEW e \in Effect, Settle(e)
      PROVE  DataInv'
  BY <1>8 DEF Settle, Resting, Idle, Loop, AfterFailure, RowAfter
<1>9. ASSUME NEW e \in Effect, Accept(e)
      PROVE  DataInv'
  BY <1>9 DEF Accept, Answered, Store
<1>10. ASSUME NEW e \in Effect, Fail(e)
      PROVE  DataInv'
  BY <1>10 DEF Fail, Answered
<1>11. ASSUME NEW m \in Message, Elapse(m)
      PROVE  DataInv'
  BY <1>11 DEF Elapse
<1>12. ASSUME NEW m \in Message, ArriveLate(m)
      PROVE  DataInv'
  BY <1>12 DEF ArriveLate, Store
<1>13. CASE UNCHANGED vars
  BY <1>13 DEF vars
<1>14. CASE UNCHANGED <<row, copies, wire, erased, written>>
  BY <1>14
<1> HIDE DEF TypeOK, IInv, HeldInv, Busy, accountVars, effectVars, userVars, AtRest, AtWork
<1> QED
  BY <1>1, <1>2, <1>3, <1>4, <1>5, <1>6, <1>7, <1>8, <1>9, <1>10, <1>11,
     <1>12, <1>13, <1>14
  DEF Next, Run, Serve, accountVars, effectVars, userVars, Mount, Unmount, Disable,
      Enable, Leave,
      RetryRead, Pick, Rest, Send, Refuse

\* A step keeps SuccessInv.
LEMMA SuccessStep ==
    ASSUME IInv, TypeOK', [Next]_vars
    PROVE  SuccessInv'
<1> USE Literals
DEF TypeOK, IInv, SuccessInv, accountVars, effectVars, userVars, AtRest, AtWork
<1>1. CASE Kill
  BY <1>1 DEF Kill, Resting, Idle, Loop, Busy
<1>2. ASSUME NEW e \in Effect, NEW m \in Message, Submit(e, m)
      PROVE  SuccessInv'
  BY <1>2 DEF Submit, Started, Resting, Idle, Loop
<1>3. ASSUME NEW e \in Effect, RetryPut(e)
      PROVE  SuccessInv'
  BY <1>3 DEF RetryPut, Started, Resting, Idle, Loop
<1>4. ASSUME NEW e \in Effect, Recover(e)
      PROVE  SuccessInv'
  BY <1>4 DEF Recover, Started, Recovered, Resting, Idle, Loop
<1>5. ASSUME NEW e \in Effect, Pick(e)
      PROVE  SuccessInv'
  BY <1>5 DEF Pick, Resting, Idle, Loop, Runnable, RunnableSupport, Ready
<1>6. ASSUME NEW e \in Effect, Rest(e)
      PROVE  SuccessInv'
  BY <1>6 DEF Rest, Resting, Idle, Loop
<1>7. ASSUME NEW e \in Effect, Mark(e)
      PROVE  SuccessInv'
  BY <1>7 DEF Mark, Resting, Idle, Loop
<1>8. ASSUME NEW e \in Effect, Recheck(e)
      PROVE  SuccessInv'
  BY <1>8 DEF Recheck, Resting, Idle, Loop
<1>9. ASSUME NEW e \in Effect, Send(e)
      PROVE  SuccessInv'
  <2>1. CASE core' = [core EXCEPT ![e].phase = "inflight"]
    BY <1>9, <2>1 DEF Send, AtRest, AtWork
  <2>2. CASE Answered(e, "retry")
    BY <1>9, <2>2, AnsweredCore DEF Send
  <2> QED BY <1>9, <2>1, <2>2 DEF Send
<1>10. ASSUME NEW e \in Effect, Settle(e)
      PROVE  SuccessInv'
  BY <1>10 DEF Settle, Resting, Idle, Loop, Busy, AfterFailure, RowAfter
<1>11. ASSUME NEW e \in Effect, Accept(e)
      PROVE  SuccessInv'
  BY <1>11, AnsweredCore DEF Accept, Store
<1>12. ASSUME NEW e \in Effect, Refuse(e)
      PROVE  SuccessInv'
  BY <1>12, AnsweredCore DEF Refuse
<1>13. ASSUME NEW e \in Effect, Fail(e)
      PROVE  SuccessInv'
  BY <1>13, AnsweredCore DEF Fail
<1>14. ASSUME NEW m \in Message, ArriveLate(m)
      PROVE  SuccessInv'
  BY <1>14 DEF ArriveLate, Store
<1>15. CASE UNCHANGED vars
  BY <1>15 DEF vars
<1> QED
  BY <1>1, <1>2, <1>3, <1>4, <1>5, <1>6, <1>7, <1>8, <1>9, <1>10, <1>11,
     <1>12, <1>13, <1>14, <1>15
  DEF Next, Run, Serve, Mount, Unmount, Disable, Enable, SignOut, Leave, RetryRead,
      Elapse

\* A step keeps ClearedInv: a message that is picked has no row before it
\* in its ticket, and what was stored or erased stays so.
LEMMA ClearedStep ==
    ASSUME IInv, TypeOK', [Next]_vars
    PROVE  ClearedInv'
<1> USE Literals
DEF TypeOK, IInv, ClearedInv, Cleared, Before, Busy, accountVars, effectVars, userVars,
    AtRest, AtWork
<1>1. CASE Kill
  BY <1>1 DEF Kill, Resting, Idle, Loop
<1>2. CASE SignOut
  BY <1>2 DEF SignOut
<1>3. ASSUME NEW e \in Effect, NEW m \in Message, Submit(e, m)
      PROVE  ClearedInv'
  BY <1>3 DEF Submit, Started, Resting, Idle, Loop
<1>4. ASSUME NEW e \in Effect, RetryPut(e)
      PROVE  ClearedInv'
  BY <1>4 DEF RetryPut, Started, Resting, Idle, Loop
<1>5. ASSUME NEW e \in Effect, Recover(e)
      PROVE  ClearedInv'
  BY <1>5 DEF Recover, Started, Recovered, Resting, Idle, Loop
<1>6. ASSUME NEW e \in Effect, Pick(e)
      PROVE  ClearedInv'
  <2>1. PICK m \in Runnable :
            core' = [core EXCEPT ![e] = [phase |-> "picked", item |-> m,
                                         was |-> row[m], answer |-> "none"]]
    BY <1>6 DEF Pick
  <2>2. UNCHANGED <<outbox, wire, copies, erased>>
    BY <1>6 DEF Pick
  <2>3. m \in Message /\ row[m] # "none"
    BY <2>1 DEF Runnable, RunnableSupport, Ready
  <2>4. ASSUME outbox = "support", NEW n \in Message, ThreadOf[n] = ThreadOf[m], n < m
        PROVE  copies[n] > 0 \/ n \in erased
    <3>1. row[n] = "none"
      BY <2>1, <2>4 DEF Runnable, RunnableSupport
    <3>2. n \in 1 .. written
      BY <2>3, <2>4, Numbers, MaxMessagesAssumption DEF DataInv, Message
    <3> QED BY <3>1, <3>2 DEF NothingLost, Written
  <2>5. \A f \in Effect : core'[f].item = IF f = e THEN m ELSE core[f].item
    BY <2>1
  <2>6. \A f \in Effect : f # e => Busy(f)' = Busy(f)
    BY <2>1
  <2> QED BY <2>2, <2>3, <2>4, <2>5, <2>6
<1>7. ASSUME NEW e \in Effect, Rest(e)
      PROVE  ClearedInv'
  BY <1>7 DEF Rest, Resting, Idle, Loop
<1>8. ASSUME NEW e \in Effect, Mark(e)
      PROVE  ClearedInv'
  BY <1>8 DEF Mark, Resting, Idle, Loop
<1>9. ASSUME NEW e \in Effect, Recheck(e)
      PROVE  ClearedInv'
  BY <1>9 DEF Recheck, Resting, Idle, Loop
<1>10. ASSUME NEW e \in Effect, Send(e)
      PROVE  ClearedInv'
  <2>1. CASE core' = [core EXCEPT ![e].phase = "inflight"]
    BY <1>10, <2>1 DEF Send, AtRest, AtWork
  <2>2. CASE Answered(e, "retry")
    BY <1>10, <2>2, AnsweredCore DEF Send
  <2> QED BY <1>10, <2>1, <2>2 DEF Send
<1>11. ASSUME NEW e \in Effect, Settle(e)
      PROVE  ClearedInv'
  BY <1>11 DEF Settle, Resting, Idle, Loop, AfterFailure, RowAfter
<1>12. ASSUME NEW e \in Effect, Accept(e)
      PROVE  ClearedInv'
  BY <1>12, AnsweredCore DEF Accept, Store
<1>13. ASSUME NEW e \in Effect, Refuse(e)
      PROVE  ClearedInv'
  BY <1>13, AnsweredCore DEF Refuse
<1>14. ASSUME NEW e \in Effect, Fail(e)
      PROVE  ClearedInv'
  BY <1>14, AnsweredCore DEF Fail
<1>15. ASSUME NEW m \in Message, ArriveLate(m)
      PROVE  ClearedInv'
  BY <1>15 DEF ArriveLate, Store
<1>16. CASE UNCHANGED vars
  BY <1>16 DEF vars
<1> QED
  BY <1>1, <1>2, <1>3, <1>4, <1>5, <1>6, <1>7, <1>8, <1>9, <1>10, <1>11,
     <1>12, <1>13, <1>14, <1>15, <1>16
  DEF Next, Run, Serve, Mount, Unmount, Disable, Enable, Leave, RetryRead, Elapse

\* A step keeps NothingLost: only Settle and SignOut delete a row.
LEMMA NothingLostStep ==
    ASSUME IInv, TypeOK', [Next]_vars
    PROVE  NothingLost'
<1> USE Literals, Numbers
DEF TypeOK, IInv, NothingLost, Written, SuccessInv, Busy, accountVars, effectVars, userVars
<1>1. CASE SignOut
  BY <1>1 DEF SignOut
<1>2. ASSUME NEW e \in Effect, NEW m \in Message, Submit(e, m)
      PROVE  NothingLost'
  BY <1>2 DEF Submit, Started, Resting, Idle, Loop
<1>3. ASSUME NEW e \in Effect, RetryPut(e)
      PROVE  NothingLost'
  BY <1>3 DEF RetryPut, Started, Resting, Idle, Loop
<1>4. ASSUME NEW e \in Effect, Recover(e)
      PROVE  NothingLost'
  BY <1>4 DEF Recover, Recovered
<1>5. ASSUME NEW e \in Effect, Mark(e)
      PROVE  NothingLost'
  <2>1. row' = row \/ row' = [row EXCEPT ![core[e].item] = "sending"]
    BY <1>5 DEF Mark
  <2>2. UNCHANGED <<written, copies, erased>>
    BY <1>5 DEF Mark
  <2> QED BY <2>1, <2>2
<1>6. ASSUME NEW e \in Effect, Recheck(e)
      PROVE  NothingLost'
  <2>1. core[e].was # "none"
    BY <1>6 DEF Recheck, AtRest, AtWork
  <2>2. row' = row \/ row' = [row EXCEPT ![core[e].item] = core[e].was]
    BY <1>6 DEF Recheck
  <2>3. UNCHANGED <<written, copies, erased>>
    BY <1>6 DEF Recheck
  <2> QED BY <2>1, <2>2, <2>3
<1>7. ASSUME NEW e \in Effect, Settle(e)
      PROVE  NothingLost'
  BY <1>7
  DEF Settle, Resting, Idle, Loop, AfterFailure, RowAfter, AtRest, AtWork
<1>8. ASSUME NEW e \in Effect, Accept(e)
      PROVE  NothingLost'
  BY <1>8, AnsweredCore DEF Accept, Store
<1>9. ASSUME NEW m \in Message, Elapse(m)
      PROVE  NothingLost'
  BY <1>9 DEF Elapse
<1>10. ASSUME NEW m \in Message, ArriveLate(m)
      PROVE  NothingLost'
  BY <1>10 DEF ArriveLate, Store
<1>11. CASE UNCHANGED vars
  BY <1>11 DEF vars
<1> QED
  BY <1>1, <1>2, <1>3, <1>4, <1>5, <1>6, <1>7, <1>8, <1>9, <1>10, <1>11
  DEF Next, Run, Serve, Mount, Unmount, Disable, Enable, Leave, Kill, Resting, Idle,
      Loop, RetryRead, Pick, Runnable, RunnableSupport, Ready, Rest, Send,
      Answered, Refuse, Fail

\* A step keeps TicketFifo: what the server stores is cleared.
LEMMA TicketFifoStep ==
    ASSUME IInv, TypeOK', [Next]_vars
    PROVE  TicketFifo'
<1> USE Literals
DEF TypeOK, IInv, ClearedInv, Cleared, TicketFifo, Before, Busy, accountVars, effectVars,
    userVars, AtRest, AtWork
<1>1. CASE SignOut
  BY <1>1 DEF SignOut
<1>2. ASSUME NEW e \in Effect, Accept(e)
      PROVE  TicketFifo'
  BY <1>2 DEF Accept, Answered, Store
<1>3. ASSUME NEW m \in Message, ArriveLate(m)
      PROVE  TicketFifo'
  BY <1>3 DEF ArriveLate, Store
<1>4. CASE UNCHANGED vars
  BY <1>4 DEF vars
<1> QED
  BY <1>1, <1>2, <1>3, <1>4
  DEF Next, Run, Serve, Mount, Unmount, Disable, Enable, Leave, Kill, Resting, Idle,
      Loop, Submit, Started, RetryRead, RetryPut, Recover, Recovered, Pick,
      Runnable, RunnableSupport, Ready, Rest, Mark, Recheck, Send, Answered,
      Settle, AfterFailure, RowAfter, Refuse, Fail, Elapse

LEMMA InvStep == IInv /\ [Next]_vars => IInv'
<1> SUFFICES ASSUME IInv, [Next]_vars PROVE IInv'
  OBVIOUS
<1>1. TypeOK'
  BY TypeStep DEF IInv
<1> QED
  BY <1>1, HeldStep, DataStep, SuccessStep, ClearedStep, NothingLostStep, TicketFifoStep DEF IInv

\* The invariant holds in every reachable state.
THEOREM Invariance == Spec => []IInv
  BY InitInv, InvStep, PTL DEF Spec

\* Type correctness of the outboxes.
THEOREM TypeCorrect == Spec => []TypeOK
  BY Invariance, PTL DEF IInv

\* What the user wrote is kept until the server has it, however many cores
\* overlap and whatever is lost (outboxCore.ts).
THEOREM MessagesAreKept == Spec => []NothingLost
  BY Invariance, PTL DEF IInv

\* Support replies reach the server first in, first out per ticket.
THEOREM TicketsAreFifo == Spec => []TicketFifo
  BY Invariance, PTL DEF IInv

-----------------------------------------------------------------------------
(* The outbox keeps its promise *)

\* What the promise calls the status of a message.
Status ==
    [m \in Message |->
        IF m > written THEN "new"
        ELSE IF copies[m] = 1 THEN "stored"
        ELSE IF m \in erased THEN "erased" ELSE "kept"]

Mapped ==
    [m \in Message |->
        CASE m > written -> "new"
          [] m <= written /\ copies[m] = 1 -> "stored"
          [] m <= written /\ copies[m] > 1 -> "doubled"
          [] m <= written /\ copies[m] = 0 /\ m \in erased -> "erased"
          [] m <= written /\ copies[m] = 0 /\ m \notin erased ->
                IF row[m] = "none" THEN "lost" ELSE "kept"]

\* No message is lost or doubled, so the mapping has four values.
LEMMA MappedIsStatus == IInv => Mapped = Status
<1> SUFFICES ASSUME IInv, NEW m \in Message PROVE Mapped[m] = Status[m]
  BY DEF Mapped, Status
<1>1. m \in Nat /\ written \in Nat /\ copies[m] \in 0 .. 1
  BY Numbers DEF IInv, TypeOK
<1>2. m <= written /\ m \notin erased /\ copies[m] = 0 => row[m] # "none"
  BY <1>1, Numbers, MaxMessagesAssumption DEF IInv, NothingLost, Written, Message
<1>3. CASE m > written
  BY <1>1, <1>3 DEF Mapped, Status
<1>4. CASE m <= written /\ copies[m] = 1
  BY <1>1, <1>4 DEF Mapped, Status
<1>5. CASE m <= written /\ copies[m] = 0
  BY <1>1, <1>2, <1>5 DEF Mapped, Status
<1> QED BY <1>1, <1>3, <1>4, <1>5

LEMMA PromiseInit == Init => Promise!Init
<1> SUFFICES ASSUME Init PROVE Promise!Init
  OBVIOUS
<1>1. IInv
  BY InitInv
<1>2. Mapped = Status
  BY <1>1, MappedIsStatus
<1>3. Status = [m \in Message |-> "new"]
  BY Numbers, MaxMessagesAssumption DEF Init, Status, Message
<1> QED BY <1>2, <1>3 DEF Init, Promise!Init, Promise!Message, Message, Mapped

\* The server stores a message it did not have, or returns the one it has.
LEMMA StoreMaps ==
    ASSUME IInv, NEW m \in Message, copies' = Store(m), m <= written,
           outbox = "support" => Cleared(m), UNCHANGED <<outbox, written, erased>>,
           Mapped = Status, Mapped' = Status'
    PROVE  Promise!Store(m) \/ UNCHANGED Promise!vars
<1>1. copies \in [Message -> 0 .. 1] /\ written \in Nat /\ Message \subseteq Nat
  BY Numbers DEF IInv, TypeOK
<1>2. CASE copies[m] = 1
  <2>1. copies' = copies
    BY <1>1, <1>2 DEF Store
  <2>2. Status' = Status
    BY <2>1 DEF Status
  <2> QED BY <2>2 DEF Promise!vars, Mapped
<1>3. CASE copies[m] = 0
  <2>1. Status[m] \in {"kept", "erased"}
    BY <1>1, <1>3 DEF Status
  <2>2. Status' = [Status EXCEPT ![m] = "stored"]
    <3>1. ~ (m > written) /\ copies' \in [Message -> 0 .. 1] /\ copies'[m] = 1
          /\ \A n \in Message : n # m => copies'[n] = copies[n]
      BY <1>1 DEF Store
    <3>2. ASSUME NEW n \in Message
          PROVE  Status'[n] = IF n = m THEN "stored" ELSE Status[n]
      BY <3>1 DEF Status
    <3> QED BY <3>2 DEF Status
  <2>3. ASSUME outbox = "support", NEW n \in Message, ThreadOf[n] = ThreadOf[m], n < m
        PROVE  Status[n] # "kept"
    <3>1. copies[n] > 0 \/ n \in erased
      BY <2>3 DEF Cleared, Before
    <3>2. copies[n] \in 0 .. 1
      BY <1>1
    <3> QED BY <3>1, <3>2 DEF Status
  <2> QED BY <2>1, <2>2, <2>3 DEF Promise!Store, Promise!Message, Message, Mapped
<1> QED BY <1>1, <1>2, <1>3

LEMMA PromiseStep ==
    ASSUME IInv, IInv', [Next]_vars
    PROVE  [Promise!Next]_(Promise!vars)
<1>1. Mapped = Status /\ Mapped' = Status'
  <2>1. Mapped = Status
    BY MappedIsStatus
  <2>2. (IInv => Mapped = Status)'
    BY MappedIsStatus, PTL
  <2> QED BY <2>1, <2>2
<1>2. Message \subseteq Nat /\ written \in Nat /\ Promise!Message = Message
      /\ core \in [Effect -> AtRest \cup AtWork]
  BY Numbers DEF IInv, TypeOK, Promise!Message, Message
<1>3. CASE UNCHANGED <<outbox, written, copies, erased>>
  <2>1. Status' = Status
    BY <1>3 DEF Status
  <2> QED BY <1>1, <1>3, <2>1 DEF Promise!vars, Mapped
<1>4. ASSUME NEW e \in Effect, NEW m \in Message, Submit(e, m)
      PROVE  Promise!Write(m)
  <2>1. m = written + 1 /\ written' = m /\ UNCHANGED <<outbox, copies, erased>>
    BY <1>4 DEF Submit
  <2>2. copies[m] = 0 /\ m \notin erased
    BY <1>2, <2>1 DEF IInv, DataInv, TypeOK
  <2>3. Status[m] = "new" /\ \A n \in Message : n < m => Status[n] # "new"
    BY <1>2, <2>1 DEF Status
  <2>4. Status' = [Status EXCEPT ![m] = "kept"]
    <3>1. ASSUME NEW n \in Message
          PROVE  Status'[n] = IF n = m THEN "kept" ELSE Status[n]
      BY <1>2, <2>1, <2>2 DEF Status
    <3> QED BY <3>1 DEF Status
  <2> QED BY <1>1, <1>2, <2>1, <2>3, <2>4 DEF Promise!Write, Mapped
<1>5. CASE SignOut
  <2>1. UNCHANGED <<outbox, written, copies>>
        /\ erased' = erased \cup {m \in Message : row[m] # "none"}
    BY <1>5 DEF SignOut
  <2>2. ASSUME NEW m \in Message
        PROVE  Status'[m] = IF Status[m] = "kept" THEN "erased" ELSE Status[m]
    <3>1. row[m] # "none" => m <= written
      BY DEF IInv, DataInv
    <3>2. m <= written => m \in erased \/ row[m] # "none" \/ copies[m] = 1
      BY <1>2 DEF IInv, NothingLost, Written, TypeOK, Message
    <3> QED BY <1>2, <2>1, <3>1, <3>2 DEF Status
  <2>3. Status' = [m \in Message |-> IF Status[m] = "kept" THEN "erased" ELSE Status[m]]
    BY <2>2 DEF Status
  <2> QED BY <1>1, <1>2, <2>1, <2>3 DEF Promise!SignOut, Promise!Next, Mapped
<1>6. ASSUME NEW e \in Effect, Accept(e)
      PROVE  [Promise!Next]_(Promise!vars)
  <2>1. core[e].item \in Message /\ Busy(e)
    BY <1>2, <1>6, Literals DEF Accept, Busy, AtRest, AtWork
  <2>2. core[e].item <= written /\ (outbox = "support" => Cleared(core[e].item))
    BY <2>1 DEF IInv, HeldInv, ClearedInv
  <2>3. copies' = Store(core[e].item) /\ UNCHANGED <<outbox, written, erased>>
    BY <1>6 DEF Accept, userVars
  <2> QED BY <1>1, <1>2, <2>1, <2>2, <2>3, StoreMaps DEF Promise!Next
<1>7. ASSUME NEW m \in Message, ArriveLate(m)
      PROVE  [Promise!Next]_(Promise!vars)
  <2>1. m <= written /\ (outbox = "support" => Cleared(m))
    BY <1>7 DEF ArriveLate, IInv, DataInv, ClearedInv
  <2>2. copies' = Store(m) /\ UNCHANGED <<outbox, written, erased>>
    BY <1>7 DEF ArriveLate, userVars
  <2> QED BY <1>1, <1>2, <2>1, <2>2, StoreMaps DEF Promise!Next
<1> QED
  BY <1>2, <1>3, <1>4, <1>5, <1>6, <1>7
  DEF Next, Run, Serve, vars, accountVars, effectVars, userVars, Mount, Unmount, Disable,
      Enable, Leave, Kill, RetryRead, RetryPut, Recover, Pick, Rest, Mark, Recheck,
      Send, Settle, Refuse, Fail, Elapse, Promise!Next

\* Both outboxes implement OutboxPromise: kept until stored, stored once, and
\* in order for a support ticket (outboxCore.ts of messages and support).
THEOREM OutboxKeepsPromise == Spec => ImplementsPromise
<1>1. Init => Promise!Init
  BY PromiseInit
<1>2. IInv /\ IInv' /\ [Next]_vars => [Promise!Next]_(Promise!vars)
  BY PromiseStep
<1> QED BY <1>1, <1>2, Invariance, PTL DEF Spec, ImplementsPromise, Promise!Spec

=============================================================================
