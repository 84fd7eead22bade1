---------------------- MODULE PreferencesOutboxProofs -----------------------
(***************************************************************************)
(* Proofs about PreferencesOutbox, for any number of choices, overlapping   *)
(* effects, troubles and changes by another device.                         *)
(***************************************************************************)
EXTENDS PreferencesOutbox, TLAPS

\* A core and a tap work on mutations that were created, and no copy they
\* write back is one of a removed row.
HeldInv ==
    \A e \in Effect :
        /\ core[e].phase \in Phase =>
                core[e].item <= choices /\ core[e].copy.state \notin {"new", "gone"}
        /\ tap[e].step # "none" =>
                /\ tap[e].item <= choices /\ tap[e].fresh <= choices
                /\ tap[e].copy.state \notin {"new", "gone"}

DataInv ==
    /\ \A m \in Mutation : row[m].state # "new" => m <= choices
    /\ \A r \in requests : r.item <= choices

\* A request that somebody waits for is the one request of that core and has
\* the value of its copy; a request in the transaction has compared the version.
RequestInv ==
    /\ \A r \in requests :
        /\ r.core # NoEffect =>
            /\ core[r.core].phase = "inflight"
            /\ core[r.core].item = r.item
            /\ core[r.core].copy.desired = r.desired
        /\ r.read # 0 => r.read = base[r.item]
    /\ \A r, s \in requests : r.core = s.core /\ r.core # NoEffect => r = s

\* The inductive invariant.  RemovedIsDecided needs SuccessMeansStored for the
\* row a core removes, which needs RequestInv for the value the answer is about.
IInv ==
    /\ TypeOK
    /\ HeldInv
    /\ DataInv
    /\ RequestInv
    /\ SuccessMeansStored
    /\ RemovedIsDecided

-----------------------------------------------------------------------------
(* The invariant is inductive *)

\* The values the actions write belong to their types.
LEMMA Literals ==
    /\ \A s \in {"new", "pending", "sending", "retry_wait", "due", "conflict",
                 "blocked_auth", "failed_permanent", "gone"} : s \in RowState
    /\ \A a \in {"none", "success", "retry", "conflict", "auth", "permanent"} : a \in Answer
    /\ \A p \in {"picked", "marked", "inflight", "answered"} : p \in Phase
    /\ "idle" \notin Phase /\ "loop" \notin Phase
    /\ NoMutation \notin Mutation
    /\ Mutation \subseteq Nat
  BY MaxChoicesAssumption DEF Phase, RowState, Answer, Mutation, NoMutation

\* Rows and resting states are of their types.
LEMMA Rows ==
    /\ NewRow \in Row /\ NewRow.state = "new"
    /\ Gone \in Row /\ Gone.state = "gone"
    /\ Idle \in AtRest /\ Loop \in AtRest
  BY Literals DEF NewRow, Row, Gone, Idle, Loop, Resting, AtRest

\* A row whose state is written stays a row, and one whose value is written too.
LEMMA RowWritten ==
    ASSUME NEW w \in Row, NEW s \in RowState
    PROVE  /\ [w EXCEPT !.state = s] \in Row
           /\ [w EXCEPT !.state = s].state = s
           /\ [w EXCEPT !.state = s].desired = w.desired
  BY DEF Row

LEMMA Desired ==
    ASSUME NEW w \in Row, NEW d \in BOOLEAN
    PROVE  /\ [w EXCEPT !.desired = d, !.state = "pending"] \in Row
           /\ [w EXCEPT !.desired = d, !.state = "pending"].state = "pending"
  BY Literals DEF Row

LEMMA Turn ==
    ASSUME TypeOK, NEW turn \in Turned
    PROVE  turn.desired \in BOOLEAN /\ turn.base \in Nat
<1>1. CASE Latest = {}
  <2>1. PICK v \in 1 .. version : turn = [desired |-> ~ ValueAt(v), base |-> v]
    BY <1>1 DEF Turned
  <2>2. v \in Nat /\ turn.base = v
    BY <2>1 DEF TypeOK
  <2>3. turn.desired \in BOOLEAN
    BY <2>1, Zenon
  <2> QED BY <2>2, <2>3
<1>2. CASE Latest # {}
  <2>1. PICK m \in Newest(Latest) : turn = [desired |-> ~ row[m].desired, base |-> base[m]]
    BY <1>2 DEF Turned
  <2>2. m \in Mutation
    BY DEF Newest, Latest
  <2> QED BY <2>1, <2>2 DEF TypeOK, Row
<1> QED BY <1>1, <1>2

LEMMA TroubleType ==
    ASSUME troubles \in 0 .. MaxTroubles, Trouble
    PROVE  troubles' \in 0 .. MaxTroubles
  BY MaxTroublesAssumption DEF Trouble

\* A choice takes the next number.
LEMMA NextChoice ==
    ASSUME TypeOK, choices < MaxChoices, choices' = choices + 1
    PROVE  /\ choices' \in 0 .. MaxChoices /\ choices' \in Mutation
           /\ choices + 1 \in Mutation /\ choices \in Nat
           /\ \A m \in Nat : m <= choices => m <= choices' /\ m # choices'
  BY MaxChoicesAssumption DEF TypeOK, Mutation

\* An answer changes no copy and wakes the core that asked, no other.
LEMMA Replied ==
    ASSUME TypeOK, RequestInv, NEW r \in requests, NEW a \in Answer, NEW v \in Nat,
           Reply(r, a, v)
    PROVE  /\ core' \in [Effect -> AtRest \cup AtWork]
           /\ requests' = requests \ {r}
           /\ \A f \in Effect : f # r.core => core'[f] = core[f]
           /\ r.core # NoEffect =>
                /\ r.core \in Effect
                /\ core[r.core] \in AtWork /\ core'[r.core] \in AtWork
                /\ core'[r.core].phase = "answered" /\ core'[r.core].answer = a
                /\ core'[r.core].item = core[r.core].item
                /\ core'[r.core].copy = core[r.core].copy
<1>1. requests' = requests \ {r}
  BY DEF Reply
<1>2. CASE r.core = NoEffect
  BY <1>1, <1>2, NoEffectAssumption DEF Reply, TypeOK
<1>3. CASE r.core # NoEffect
  <2> DEFINE c == [core[r.core] EXCEPT !.phase = "answered", !.answer = a, !.current = v]
  <2>1. r.core \in Effect
    BY <1>3 DEF TypeOK, Request
  <2>2. core[r.core] \in AtWork
    BY <1>3, <2>1 DEF TypeOK, RequestInv, AtRest, AtWork
  <2>3. /\ c \in AtWork /\ c.phase = "answered" /\ c.answer = a
        /\ c.item = core[r.core].item /\ c.copy = core[r.core].copy
    BY <2>2, Literals DEF AtWork
  <2>4. core' = [core EXCEPT ![r.core] = c]
    BY <1>3 DEF Reply
  <2> HIDE DEF c
  <2> QED BY <1>1, <1>3, <2>1, <2>2, <2>3, <2>4 DEF TypeOK
<1> QED BY <1>2, <1>3

\* A core that has a mutation.
LEMMA Working ==
    ASSUME TypeOK, NEW e \in Effect
    PROVE  /\ core[e].phase \in Phase => core[e] \in AtWork
           /\ core[e] \in AtWork =>
                /\ core[e].phase \in Phase /\ core[e].item \in Mutation
                /\ core[e].copy \in Row /\ core[e].answer \in Answer
           /\ core[e] \in AtRest =>
                /\ core[e].phase \notin Phase /\ core[e].answer = "none"
           /\ core[e] \in AtRest \/ core[e] \in AtWork
  BY Literals DEF TypeOK, AtRest, AtWork

\* The core goes on to its next phase with the same mutation.
LEMMA Phased ==
    ASSUME NEW c \in AtWork, NEW p \in Phase
    PROVE  LET d == [c EXCEPT !.phase = p] IN
           /\ d \in AtWork /\ d.phase = p
           /\ d.item = c.item /\ d.copy = c.copy /\ d.answer = c.answer
  BY DEF AtWork

\* Only the row of a success is removed.
LEMMA RowAfterType ==
    ASSUME NEW c \in AtWork
    PROVE  /\ RowAfter(c) \in Row
           /\ RowAfter(c).state # "new"
           /\ c.answer # "success" => RowAfter(c).state # "gone"
<1>1. c.copy \in Row /\ c.current \in Nat /\ c.answer \in Answer
  BY DEF AtWork
<1>2. CASE c.answer = "conflict"
  BY <1>1, <1>2, Literals DEF RowAfter, Row
<1>3. CASE c.answer # "conflict"
  BY <1>1, <1>3, Rows, RowWritten, Literals DEF RowAfter
<1> QED BY <1>2, <1>3

\* run() wakes a core at rest.
LEMMA StartedType ==
    ASSUME TypeOK, NEW e \in Effect, core' = Started(e)
    PROVE  /\ core' \in [Effect -> AtRest \cup AtWork]
           /\ \A f \in Effect : core'[f] = core[f] \/ (core[f] \in AtRest /\ core'[f] \in AtRest)
<1>1. CASE core[e] = Idle
  <2>1. core' = [core EXCEPT ![e] = Loop]
    BY <1>1 DEF Started
  <2>2. /\ core' \in [Effect -> AtRest \cup AtWork] /\ core'[e] = Loop
        /\ \A f \in Effect : f # e => core'[f] = core[f]
    BY <2>1, Rows DEF TypeOK
  <2> QED BY <1>1, <2>2, Rows
<1>2. CASE core[e] # Idle
  <2>1. core' = [core EXCEPT ![e] = core[e]]
    BY <1>2 DEF Started
  <2> QED BY <2>1 DEF TypeOK
<1> QED BY <1>1, <1>2

LEMMA PickDone ==
    ASSUME TypeOK, NEW e \in Effect, Pick(e)
    PROVE  /\ UNCHANGED <<enabled, current, recovering, tap, row, choiceVars,
                          serverVars, requests, troubles>>
           /\ core' \in [Effect -> AtRest \cup AtWork]
           /\ core[e] \in AtRest /\ core'[e] \in AtWork
           /\ \A f \in Effect : f # e => core'[f] = core[f]
           /\ core'[e].phase = "picked" /\ core'[e].answer = "none"
           /\ core'[e].item \in Runnable /\ core'[e].copy = row[core'[e].item]
<1>1. PICK m \in Runnable :
        core' = [core EXCEPT ![e] = [phase |-> "picked", item |-> m, copy |-> row[m],
                                     answer |-> "none", current |-> 0]]
  BY DEF Pick
<1> DEFINE c == [phase |-> "picked", item |-> m, copy |-> row[m], answer |-> "none",
                 current |-> 0]
<1>2. m \in Mutation /\ row[m] \in Row
  BY DEF Runnable, TypeOK
<1>3. c \in AtWork /\ c.item = m /\ c.copy = row[m] /\ c.phase = "picked" /\ c.answer = "none"
  BY <1>2, Literals DEF AtWork
<1>4. core' = [core EXCEPT ![e] = c]
  BY <1>1
<1>5. core[e] \in AtRest
  BY Rows DEF Pick
<1>6. UNCHANGED <<enabled, current, recovering, tap, row, choiceVars, serverVars,
                  requests, troubles>>
  BY DEF Pick
<1> HIDE DEF c
<1> QED BY <1>3, <1>4, <1>5, <1>6 DEF TypeOK

LEMMA MarkDone ==
    ASSUME TypeOK, NEW e \in Effect, Mark(e)
    PROVE  /\ UNCHANGED <<enabled, current, recovering, tap, choiceVars, serverVars,
                          requests, troubles>>
           /\ core' \in [Effect -> AtRest \cup AtWork] /\ row' \in [Mutation -> Row]
           /\ core[e] \in AtWork /\ core[e].phase = "picked"
           /\ \A f \in Effect : f # e => core'[f] = core[f]
           /\ \/ core'[e] \in AtRest
              \/ /\ core'[e].item = core[e].item /\ core'[e].copy = core[e].copy
                 /\ core'[e].answer = core[e].answer
           /\ \A m \in Mutation :
                row'[m] = row[m] \/ (m = core[e].item /\ row'[m].state = "sending")
<1> DEFINE c == [core[e] EXCEPT !.phase = "marked"]
           w == [core[e].copy EXCEPT !.state = "sending"]
<1>1. /\ core[e].phase = "picked" /\ core[e] \in AtWork /\ core[e].copy \in Row
      /\ core[e].item \in Mutation
  BY Working, Literals DEF Mark
<1>2. /\ c \in AtWork /\ c.item = core[e].item /\ c.copy = core[e].copy
      /\ c.answer = core[e].answer
  BY <1>1, Phased, Literals
<1>3. w \in Row /\ w.state = "sending"
  BY <1>1, RowWritten, Literals
<1>4. \/ row' = [row EXCEPT ![core[e].item] = w] /\ core' = [core EXCEPT ![e] = c]
      \/ row' = row /\ core' = [core EXCEPT ![e] = Idle]
  BY DEF Mark
<1>5. UNCHANGED <<enabled, current, recovering, tap, choiceVars, serverVars, requests, troubles>>
  BY DEF Mark
<1> HIDE DEF c, w
<1>6. CASE row' = [row EXCEPT ![core[e].item] = w] /\ core' = [core EXCEPT ![e] = c]
  <2>1. /\ core' \in [Effect -> AtRest \cup AtWork] /\ core'[e] = c
        /\ \A f \in Effect : f # e => core'[f] = core[f]
    BY <1>2, <1>6 DEF TypeOK
  <2>2. /\ row' \in [Mutation -> Row] /\ row'[core[e].item] = w
        /\ \A n \in Mutation : n # core[e].item => row'[n] = row[n]
    BY <1>1, <1>3, <1>6 DEF TypeOK
  <2> QED BY <1>1, <1>2, <1>3, <1>5, <2>1, <2>2
<1>7. CASE row' = row /\ core' = [core EXCEPT ![e] = Idle]
  <2>1. row' \in [Mutation -> Row]
    BY <1>7 DEF TypeOK
  <2>2. /\ core' \in [Effect -> AtRest \cup AtWork] /\ core'[e] = Idle
        /\ \A f \in Effect : f # e => core'[f] = core[f]
    BY <1>7, Rows DEF TypeOK
  <2> QED BY <1>1, <1>5, <1>7, <2>1, <2>2, Rows
<1> QED BY <1>4, <1>6, <1>7

LEMMA SendDone ==
    ASSUME TypeOK, NEW e \in Effect, Send(e)
    PROVE  /\ UNCHANGED <<enabled, current, recovering, tap, choiceVars, serverVars, troubles>>
           /\ core' \in [Effect -> AtRest \cup AtWork] /\ row' \in [Mutation -> Row]
           /\ core[e] \in AtWork /\ core[e].phase = "marked"
           /\ \A f \in Effect : f # e => core'[f] = core[f]
           /\ \A m \in Mutation :
                row'[m] = row[m] \/ (m = core[e].item /\ row'[m] = core[e].copy)
           /\ \/ core'[e] \in AtRest /\ requests' = requests
              \/ /\ core'[e].phase = "inflight" /\ core'[e].item = core[e].item
                 /\ core'[e].copy = core[e].copy /\ core'[e].answer = core[e].answer
                 /\ \E r \in Request :
                        /\ requests' = requests \cup {r} /\ r.core = e
                        /\ r.item = core[e].item /\ r.desired = core[e].copy.desired
                        /\ r.read = 0
<1> DEFINE c == [core[e] EXCEPT !.phase = "inflight"]
           r == [core |-> e, item |-> core[e].item, desired |-> core[e].copy.desired,
                 read |-> 0, same |-> FALSE]
<1>1. /\ core[e].phase = "marked" /\ core[e] \in AtWork /\ core[e].copy \in Row
      /\ core[e].item \in Mutation
  BY Working, Literals DEF Send
<1>2. /\ c \in AtWork /\ c.phase = "inflight" /\ c.item = core[e].item
      /\ c.copy = core[e].copy /\ c.answer = core[e].answer
  BY <1>1, Phased, Literals
<1>3. /\ r \in Request /\ r.core = e /\ r.item = core[e].item
      /\ r.desired = core[e].copy.desired /\ r.read = 0
  BY <1>1 DEF Request, Row
<1>4. \/ /\ row' = row /\ core' = [core EXCEPT ![e] = c]
         /\ requests' = requests \cup {r}
      \/ /\ row' = [row EXCEPT ![core[e].item] = core[e].copy]
         /\ core' = [core EXCEPT ![e] = Idle] /\ requests' = requests
  BY DEF Send
<1>5. UNCHANGED <<enabled, current, recovering, tap, choiceVars, serverVars, troubles>>
  BY DEF Send
<1> HIDE DEF c, r
<1>6. CASE /\ row' = row /\ core' = [core EXCEPT ![e] = c]
           /\ requests' = requests \cup {r}
  <2>1. row' \in [Mutation -> Row]
    BY <1>6 DEF TypeOK
  <2>2. /\ core' \in [Effect -> AtRest \cup AtWork] /\ core'[e] = c
        /\ \A f \in Effect : f # e => core'[f] = core[f]
    BY <1>2, <1>6 DEF TypeOK
  <2> QED BY <1>1, <1>2, <1>3, <1>5, <1>6, <2>1, <2>2
<1>7. CASE /\ row' = [row EXCEPT ![core[e].item] = core[e].copy]
           /\ core' = [core EXCEPT ![e] = Idle] /\ requests' = requests
  <2>1. /\ core' \in [Effect -> AtRest \cup AtWork] /\ core'[e] = Idle
        /\ \A f \in Effect : f # e => core'[f] = core[f]
    BY <1>7, Rows DEF TypeOK
  <2>2. /\ row' \in [Mutation -> Row] /\ row'[core[e].item] = core[e].copy
        /\ \A n \in Mutation : n # core[e].item => row'[n] = row[n]
    BY <1>1, <1>7 DEF TypeOK
  <2> QED BY <1>1, <1>5, <1>7, <2>1, <2>2, Rows
<1> QED BY <1>4, <1>6, <1>7

LEMMA SettleDone ==
    ASSUME TypeOK, NEW e \in Effect, Settle(e)
    PROVE  /\ UNCHANGED <<enabled, current, recovering, tap, choiceVars, serverVars,
                          requests, troubles>>
           /\ core' \in [Effect -> AtRest \cup AtWork] /\ row' \in [Mutation -> Row]
           /\ core[e] \in AtWork /\ core'[e] \in AtRest /\ core[e].phase = "answered"
           /\ \A f \in Effect : f # e => core'[f] = core[f]
           /\ \A m \in Mutation :
                row'[m] = row[m] \/ (m = core[e].item /\ row'[m] = RowAfter(core[e]))
<1>1. /\ core[e].phase = "answered" /\ core[e] \in AtWork
      /\ core[e].item \in Mutation
  BY Working, Literals DEF Settle
<1>2. RowAfter(core[e]) \in Row
  BY <1>1, RowAfterType
<1>3. /\ row' = [row EXCEPT ![core[e].item] = RowAfter(core[e])]
      /\ core' = [core EXCEPT ![e] = IF core[e].answer = "success" THEN Loop ELSE Idle]
  BY DEF Settle
<1>4. UNCHANGED <<enabled, current, recovering, tap, choiceVars, serverVars, requests, troubles>>
  BY DEF Settle
<1>5. (IF core[e].answer = "success" THEN Loop ELSE Idle) \in AtRest
  BY Rows
<1> DEFINE c == IF core[e].answer = "success" THEN Loop ELSE Idle
<1> HIDE DEF c
<1>6. core' = [core EXCEPT ![e] = c] /\ c \in AtRest
  BY <1>3, <1>5 DEF c
<1>7. /\ core' \in [Effect -> AtRest \cup AtWork] /\ core'[e] = c
      /\ \A f \in Effect : f # e => core'[f] = core[f]
  BY <1>6 DEF TypeOK
<1>8. /\ row' \in [Mutation -> Row] /\ row'[core[e].item] = RowAfter(core[e])
      /\ \A n \in Mutation : n # core[e].item => row'[n] = row[n]
  BY <1>1, <1>2, <1>3 DEF TypeOK
<1> QED BY <1>1, <1>4, <1>6, <1>7, <1>8

\* What a tap has read or made is a mutation that was created.
LEMMA BeginDone ==
    ASSUME IInv, NEW e \in Effect, NEW step \in {"put", "drop", "renew"},
           NEW m \in Mutation, NEW n \in Mutation, NEW w \in Row,
           m <= choices + 1, n <= choices + 1, w.state \notin {"new", "gone"},
           Begin(e, step, m, n, w)
    PROVE  /\ tap' \in [Effect -> {NoTap} \cup Tapping]
           /\ choices' = choices + 1 /\ choices' \in 0 .. MaxChoices
           /\ \A f \in Effect : f # e => tap'[f] = tap[f]
           /\ tap'[e].item <= choices' /\ tap'[e].fresh <= choices'
           /\ tap'[e].copy.state \notin {"new", "gone"}
<1> DEFINE t == [step |-> step, item |-> m, fresh |-> n, copy |-> w]
<1>1. t \in Tapping /\ t.item = m /\ t.fresh = n /\ t.copy = w
  BY DEF Tapping
<1>2. tap' = [tap EXCEPT ![e] = t] /\ choices' = choices + 1 /\ choices < MaxChoices
  BY DEF Begin
<1>3. choices' \in 0 .. MaxChoices
  BY <1>2, NextChoice DEF IInv
<1> HIDE DEF t
<1> QED BY <1>1, <1>2, <1>3 DEF IInv, TypeOK

LEMMA ChooseDone ==
    ASSUME IInv, NEW e \in Effect, NEW turn \in Turned, Choose(e, turn)
    PROVE  /\ UNCHANGED <<enabled, current, core, recovering, row, closed, serverVars,
                          requests, troubles>>
           /\ tap' \in [Effect -> {NoTap} \cup Tapping] /\ base' \in [Mutation -> Nat]
           /\ choices' = choices + 1 /\ choices' \in 0 .. MaxChoices
           /\ \A f \in Effect : f # e => tap'[f] = tap[f]
           /\ tap'[e].item <= choices' /\ tap'[e].fresh <= choices'
           /\ tap'[e].copy.state \notin {"new", "gone"}
           /\ \A m \in Mutation : m <= choices => base'[m] = base[m]
<1>1. choices + 1 \in Mutation /\ choices \in Nat
  BY NextChoice DEF Choose, Begin, IInv
<1>2. turn.desired \in BOOLEAN /\ turn.base \in Nat
  BY Turn DEF IInv
<1>3. UNCHANGED <<enabled, current, core, recovering, row, closed, serverVars, requests, troubles>>
  BY DEF Choose
<1>4. ASSUME NEW m \in Newest(Unsent), UNCHANGED base,
             Begin(e, "put", m, m, [row[m] EXCEPT !.desired = turn.desired, !.state = "pending"])
      PROVE  /\ tap' \in [Effect -> {NoTap} \cup Tapping] /\ base' \in [Mutation -> Nat]
             /\ choices' = choices + 1 /\ choices' \in 0 .. MaxChoices
             /\ \A f \in Effect : f # e => tap'[f] = tap[f]
             /\ tap'[e].item <= choices' /\ tap'[e].fresh <= choices'
             /\ tap'[e].copy.state \notin {"new", "gone"}
             /\ \A n \in Mutation : n <= choices => base'[n] = base[n]
  <2> DEFINE w == [row[m] EXCEPT !.desired = turn.desired, !.state = "pending"]
  <2>1. m \in Mutation /\ m \in Nat /\ row[m] \in Row /\ row[m].state # "new"
    BY Literals DEF Newest, Unsent, IInv, TypeOK
  <2>2. w \in Row /\ w.state = "pending"
    BY <1>2, <2>1, Desired
  <2>3. m <= choices + 1
    BY <1>1, <2>1 DEF IInv, DataInv
  <2>4. Begin(e, "put", m, m, w)
    BY <1>4
  <2> HIDE DEF w
  <2> QED BY <1>4, <2>1, <2>2, <2>3, <2>4, BeginDone DEF IInv, TypeOK
<1>5. ASSUME base' = [base EXCEPT ![choices + 1] = turn.base],
             Begin(e, "put", choices + 1, choices + 1,
                   [NewRow EXCEPT !.desired = turn.desired, !.state = "pending"])
      PROVE  /\ tap' \in [Effect -> {NoTap} \cup Tapping] /\ base' \in [Mutation -> Nat]
             /\ choices' = choices + 1 /\ choices' \in 0 .. MaxChoices
             /\ \A f \in Effect : f # e => tap'[f] = tap[f]
             /\ tap'[e].item <= choices' /\ tap'[e].fresh <= choices'
             /\ tap'[e].copy.state \notin {"new", "gone"}
             /\ \A n \in Mutation : n <= choices => base'[n] = base[n]
  <2> DEFINE w == [NewRow EXCEPT !.desired = turn.desired, !.state = "pending"]
  <2>1. w \in Row /\ w.state = "pending"
    BY <1>2, Rows, Desired
  <2>2. Begin(e, "put", choices + 1, choices + 1, w)
    BY <1>5
  <2>3. base' \in [Mutation -> Nat] /\ \A n \in Mutation : n <= choices => base'[n] = base[n]
    BY <1>1, <1>2, <1>5 DEF IInv, TypeOK
  <2>4. choices + 1 <= choices + 1 /\ "put" \in {"put", "drop", "renew"}
    BY <1>1
  <2> HIDE DEF w
  <2> QED BY <1>1, <2>1, <2>2, <2>3, <2>4, BeginDone
<1> QED BY <1>3, <1>4, <1>5 DEF Choose

LEMMA ResolveDone ==
    ASSUME IInv, NEW e \in Effect, Resolve(e)
    PROVE  /\ UNCHANGED <<enabled, current, core, recovering, row, closed, serverVars,
                          requests, troubles>>
           /\ tap' \in [Effect -> {NoTap} \cup Tapping] /\ base' \in [Mutation -> Nat]
           /\ choices' = choices + 1 /\ choices' \in 0 .. MaxChoices
           /\ \A f \in Effect : f # e => tap'[f] = tap[f]
           /\ tap'[e].item <= choices' /\ tap'[e].fresh <= choices'
           /\ tap'[e].copy.state \notin {"new", "gone"}
           /\ \A m \in Mutation : m <= choices => base'[m] = base[m]
<1>1. choices + 1 \in Mutation /\ choices \in Nat
  BY NextChoice DEF Resolve, Begin, IInv
<1>2. UNCHANGED <<enabled, current, core, recovering, row, closed, serverVars, requests, troubles>>
  BY DEF Resolve
<1>3. PICK m \in Newest(Latest) :
        /\ row[m].state = "conflict"
        /\ \/ Begin(e, "drop", m, m, row[m]) /\ UNCHANGED base
           \/ /\ Begin(e, "renew", m, choices + 1, row[m])
              /\ base' = [base EXCEPT ![choices + 1] = row[m].conflictCurrent]
  BY DEF Resolve
<1>4. m \in Mutation /\ m \in Nat /\ row[m] \in Row /\ row[m].conflictCurrent \in Nat
  BY Literals DEF Newest, Latest, IInv, TypeOK, Row
<1>5. m <= choices + 1
  BY <1>1, <1>3, <1>4 DEF IInv, DataInv
<1>6. base' \in [Mutation -> Nat] /\ \A n \in Mutation : n <= choices => base'[n] = base[n]
  BY <1>1, <1>3, <1>4 DEF IInv, TypeOK
<1> QED BY <1>1, <1>2, <1>3, <1>4, <1>5, <1>6, BeginDone

LEMMA RemoveResolvedDone ==
    ASSUME IInv, NEW e \in Effect, RemoveResolved(e)
    PROVE  /\ UNCHANGED <<enabled, current, core, recovering, base, choices, serverVars,
                          requests, troubles>>
           /\ tap[e].item \in Mutation /\ tap[e].item <= choices
           /\ row' = [row EXCEPT ![tap[e].item] = Gone]
           /\ closed' = closed \cup {tap[e].item}
           /\ tap' \in [Effect -> {NoTap} \cup Tapping]
           /\ \A f \in Effect : f # e => tap'[f] = tap[f]
           /\ tap'[e].step # "none" =>
                /\ tap'[e].item <= choices /\ tap'[e].fresh <= choices
                /\ tap'[e].copy.state \notin {"new", "gone"}
<1> DEFINE w == [NewRow EXCEPT !.desired = tap[e].copy.desired, !.state = "pending"]
           t == [step |-> "put", item |-> tap[e].fresh, fresh |-> tap[e].fresh, copy |-> w]
<1>1. tap[e].step \in {"drop", "renew"}
  BY DEF RemoveResolved
<1>2. tap[e] \in Tapping
  BY <1>1 DEF IInv, TypeOK, NoTap
<1>3. tap[e].item \in Mutation /\ tap[e].fresh \in Mutation /\ tap[e].copy.desired \in BOOLEAN
  BY <1>2 DEF Tapping, Row
<1>4. tap[e].item <= choices /\ tap[e].fresh <= choices
  BY <1>1 DEF IInv, HeldInv
<1>5. w \in Row /\ w.state = "pending"
  BY <1>3, Rows, Desired
<1>6. t \in Tapping /\ t.item = tap[e].fresh /\ t.fresh = tap[e].fresh /\ t.copy = w
  BY <1>3, <1>5 DEF Tapping
<1>7. tap' = [tap EXCEPT ![e] = IF tap[e].step = "drop" THEN NoTap ELSE t]
  BY DEF RemoveResolved
<1>8. /\ UNCHANGED <<enabled, current, core, recovering, base, choices, serverVars,
                     requests, troubles>>
      /\ row' = [row EXCEPT ![tap[e].item] = Gone]
      /\ closed' = closed \cup {tap[e].item}
  BY DEF RemoveResolved
<1>9. NoTap.step = "none"
  BY DEF NoTap
<1> HIDE DEF w, t
<1> QED BY <1>3, <1>4, <1>5, <1>6, <1>7, <1>8, <1>9 DEF IInv, TypeOK

LEMMA PutDone ==
    ASSUME IInv, NEW e \in Effect, Put(e)
    PROVE  /\ UNCHANGED <<enabled, current, recovering, choiceVars, serverVars, requests,
                          troubles>>
           /\ row' \in [Mutation -> Row] /\ tap' \in [Effect -> {NoTap} \cup Tapping]
           /\ core' = Started(e)
           /\ \A f \in Effect : f # e => tap'[f] = tap[f]
           /\ tap'[e].step = "none"
           /\ \A m \in Mutation :
                \/ row'[m] = row[m]
                \/ m <= choices /\ row'[m].state \notin {"new", "gone"}
<1>1. tap[e].step = "put"
  BY DEF Put
<1>2. tap[e] \in Tapping
  BY <1>1 DEF IInv, TypeOK, NoTap
<1>3. tap[e].copy \in Row
  BY <1>2 DEF Tapping
<1>4. tap[e].item <= choices /\ tap[e].copy.state \notin {"new", "gone"}
  BY <1>1 DEF IInv, HeldInv
<1>5. NoTap.step = "none"
  BY DEF NoTap
<1>6. /\ UNCHANGED <<enabled, current, recovering, choiceVars, serverVars, requests, troubles>>
      /\ row' = [row EXCEPT ![tap[e].item] = tap[e].copy]
      /\ tap' = [tap EXCEPT ![e] = NoTap] /\ core' = Started(e)
  BY DEF Put
<1>7. tap[e].item \in Mutation
  BY <1>2 DEF Tapping
<1>8. /\ tap' \in [Effect -> {NoTap} \cup Tapping] /\ tap'[e] = NoTap
      /\ \A f \in Effect : f # e => tap'[f] = tap[f]
  BY <1>6 DEF IInv, TypeOK
<1>9. /\ row' \in [Mutation -> Row] /\ row'[tap[e].item] = tap[e].copy
      /\ \A n \in Mutation : n # tap[e].item => row'[n] = row[n]
  BY <1>3, <1>6, <1>7 DEF IInv, TypeOK
<1> QED BY <1>4, <1>5, <1>6, <1>7, <1>8, <1>9

LEMMA RecoveredType ==
    ASSUME TypeOK
    PROVE  /\ Recovered \in [Mutation -> Row]
           /\ \A m \in Mutation :
                \/ Recovered[m] = row[m]
                \/ row[m].state = "sending" /\ Recovered[m].state = "pending"
<1>1. ASSUME NEW m \in Mutation
      PROVE  /\ Recovered[m] \in Row
             /\ \/ Recovered[m] = row[m]
                \/ row[m].state = "sending" /\ Recovered[m].state = "pending"
  BY RowWritten, Literals DEF TypeOK, Recovered
<1> QED BY <1>1 DEF Recovered

LEMMA ElapseDone ==
    ASSUME TypeOK, NEW m \in Mutation, Elapse(m)
    PROVE  /\ UNCHANGED <<enabled, current, core, recovering, tap, choiceVars, serverVars,
                          requests, troubles>>
           /\ row' \in [Mutation -> Row] /\ row[m].state = "retry_wait"
           /\ \A n \in Mutation :
                row'[n] = row[n] \/ (n = m /\ row'[n].state = "due")
<1> DEFINE w == [row[m] EXCEPT !.state = "due"]
<1>1. w \in Row /\ w.state = "due"
  BY RowWritten, Literals DEF TypeOK
<1>2. row' = [row EXCEPT ![m] = w] /\ row[m].state = "retry_wait"
  BY DEF Elapse
<1>3. UNCHANGED <<enabled, current, core, recovering, tap, choiceVars, serverVars,
                  requests, troubles>>
  BY DEF Elapse
<1> HIDE DEF w
<1>4. /\ row' \in [Mutation -> Row] /\ row'[m] = w
      /\ \A n \in Mutation : n # m => row'[n] = row[n]
  BY <1>1, <1>2 DEF TypeOK
<1> QED BY <1>1, <1>2, <1>3, <1>4

\* Nobody waits for a detached request any more; it asks for the same.
LEMMA DetachedType ==
    ASSUME NEW r \in Request
    PROVE  /\ Detached(r) \in Request /\ Detached(r).core = NoEffect
           /\ Detached(r).item = r.item /\ Detached(r).read = r.read
  BY DEF Detached, Request

LEMMA LoseDone ==
    ASSUME TypeOK, RequestInv, NEW r \in requests, Lose(r)
    PROVE  /\ UNCHANGED <<enabled, current, recovering, tap, row, choiceVars, serverVars>>
           /\ Trouble
           /\ core' \in [Effect -> AtRest \cup AtWork]
           /\ requests' \subseteq (requests \ {r}) \cup {Detached(r)}
           /\ r.core # NoEffect /\ r.core \in Effect
           /\ core[r.core] \in AtWork /\ core'[r.core].phase = "answered"
           /\ core'[r.core].answer = "retry"
           /\ core'[r.core].item = core[r.core].item
           /\ core'[r.core].copy = core[r.core].copy
           /\ \A f \in Effect : f # r.core => core'[f] = core[f]
<1> DEFINE c == [core[r.core] EXCEPT !.phase = "answered", !.answer = "retry"]
<1>1. r.core # NoEffect /\ r.core \in Effect
  BY DEF Lose, TypeOK, Request
<1>2. core[r.core] \in AtWork
  BY <1>1, Working, Literals DEF RequestInv
<1>3. /\ c \in AtWork /\ c.phase = "answered" /\ c.answer = "retry"
      /\ c.item = core[r.core].item /\ c.copy = core[r.core].copy
  BY <1>2, Literals DEF AtWork
<1>4. /\ core' = [core EXCEPT ![r.core] = c]
      /\ requests' \subseteq (requests \ {r}) \cup {Detached(r)}
  BY DEF Lose
<1>5. UNCHANGED <<enabled, current, recovering, tap, row, choiceVars, serverVars>> /\ Trouble
  BY DEF Lose
<1> HIDE DEF c
<1> QED BY <1>1, <1>2, <1>3, <1>4, <1>5 DEF TypeOK

\* A success is about the value the receipt has.
Honest(r, answer, kept) ==
    answer = "success" => kept[r.item].version # 0 /\ kept[r.item].desired = r.desired

LEMMA ByReceiptDone ==
    ASSUME TypeOK, NEW r \in requests, receipt[r.item].version # 0, ByReceipt(r)
    PROVE  \E a \in Answer, v \in Nat : Reply(r, a, v) /\ Honest(r, a, receipt)
<1>1. r.item \in Mutation
  BY DEF TypeOK, Request
<1>2. receipt[r.item].version \in Nat
  BY <1>1 DEF TypeOK
<1>3. CASE receipt[r.item].desired = r.desired
  BY <1>2, <1>3, Literals DEF ByReceipt, Honest
<1>4. CASE receipt[r.item].desired # r.desired
  <2>1. Reply(r, "permanent", 0) /\ Honest(r, "permanent", receipt)
    BY <1>4 DEF ByReceipt, Honest
  <2> QED BY <2>1, Literals
<1> QED BY <1>3, <1>4

LEMMA ReadDone ==
    ASSUME TypeOK, NEW r \in requests, Read(r)
    PROVE  /\ UNCHANGED <<enabled, current, recovering, tap, row, choiceVars, serverVars, troubles>>
           /\ \/ \E a \in Answer, v \in Nat : Reply(r, a, v) /\ Honest(r, a, receipt)
              \/ \E x \in Request :
                    /\ requests' = (requests \ {r}) \cup {x} /\ core' = core
                    /\ x.core = r.core /\ x.item = r.item /\ x.desired = r.desired
                    /\ x.read = base[r.item]
<1>1. UNCHANGED <<enabled, current, recovering, tap, row, choiceVars, serverVars, troubles>>
  BY DEF Read
<1>2. CASE receipt[r.item].version # 0 /\ ByReceipt(r)
  BY <1>1, <1>2, ByReceiptDone
<1>3. CASE Reply(r, "conflict", version)
  <2>1. Honest(r, "conflict", receipt) /\ version \in Nat
    BY DEF Honest, TypeOK
  <2> QED BY <1>1, <1>3, <2>1, Literals
<1>4. CASE /\ base[r.item] = version
           /\ requests' = (requests \ {r}) \cup
                {[r EXCEPT !.read = version, !.same = (value = r.desired)]}
           /\ UNCHANGED core
  <2> DEFINE x == [r EXCEPT !.read = version, !.same = (value = r.desired)]
  <2>1. (value = r.desired) \in BOOLEAN /\ version \in Nat /\ r \in Request
    BY DEF TypeOK
  <2>2. /\ x \in Request /\ x.core = r.core /\ x.item = r.item /\ x.desired = r.desired
        /\ x.read = version
    BY <2>1 DEF Request
  <2> HIDE DEF x
  <2>3. requests' = (requests \ {r}) \cup {x} /\ core' = core
    BY <1>4 DEF x
  <2> QED BY <1>1, <1>4, <2>2, <2>3
<1> QED BY <1>2, <1>3, <1>4 DEF Read

\* The commit answers, and stores at most the receipt of its own key.
LEMMA CommitDone ==
    ASSUME TypeOK, NEW r \in requests, Commit(r)
    PROVE  /\ UNCHANGED <<enabled, current, recovering, tap, row, choiceVars, troubles>>
           /\ foreign' = foreign /\ value' \in BOOLEAN /\ version' \in Nat \ {0}
           /\ receipt' \in [Mutation -> [desired : BOOLEAN, version : Nat]]
           /\ \A m \in Mutation :
                \/ receipt'[m] = receipt[m]
                \/ receipt[m].version = 0 /\ receipt'[m].version # 0
           /\ \E a \in Answer, v \in Nat : Reply(r, a, v) /\ Honest(r, a, receipt')
<1>1. UNCHANGED <<enabled, current, recovering, tap, row, choiceVars, troubles>>
  BY DEF Commit
<1>2. /\ r.item \in Mutation /\ r.desired \in BOOLEAN /\ r.read \in Nat /\ r.read # 0
      /\ version \in Nat \ {0}
  BY DEF TypeOK, Request, Commit
<1>3. CASE Reply(r, "conflict", version) /\ UNCHANGED serverVars
  <2>1. Honest(r, "conflict", receipt') /\ version \in Nat /\ receipt' = receipt
        /\ value' = value /\ version' = version /\ foreign' = foreign
    BY <1>3 DEF Honest, TypeOK, serverVars
  <2> QED BY <1>1, <1>3, <2>1, Literals DEF TypeOK
<1>4. CASE receipt[r.item].version # 0 /\ ByReceipt(r) /\ UNCHANGED serverVars
  <2>1. receipt' = receipt /\ value' = value /\ version' = version /\ foreign' = foreign
    BY <1>4 DEF serverVars
  <2> QED BY <1>1, <1>4, <2>1, ByReceiptDone DEF TypeOK
<1>5. CASE /\ receipt[r.item].version = 0
           /\ value' = IF r.same THEN value ELSE r.desired
           /\ version' = IF r.same THEN version ELSE version + 1
           /\ receipt' = [receipt EXCEPT ![r.item] =
                [desired |-> r.desired, version |-> IF r.same THEN r.read ELSE version + 1]]
           /\ Reply(r, "success", IF r.same THEN r.read ELSE version + 1)
           /\ UNCHANGED foreign
  <2> DEFINE v == IF r.same THEN r.read ELSE version + 1
             k == [desired |-> r.desired, version |-> v]
  <2>1. v \in Nat /\ v # 0
    BY <1>2
  <2> HIDE DEF v
  <2>2. k \in [desired : BOOLEAN, version : Nat] /\ k.desired = r.desired /\ k.version = v
    BY <1>2, <2>1
  <2> HIDE DEF k
  <2>3. receipt' = [receipt EXCEPT ![r.item] = k] /\ Reply(r, "success", v)
    BY <1>5 DEF k, v
  <2>4. /\ receipt' \in [Mutation -> [desired : BOOLEAN, version : Nat]]
        /\ receipt'[r.item] = k
        /\ \A m \in Mutation : m # r.item => receipt'[m] = receipt[m]
    BY <1>2, <2>2, <2>3 DEF TypeOK
  <2>5. Honest(r, "success", receipt')
    BY <2>1, <2>2, <2>4 DEF Honest
  <2>6. value' \in BOOLEAN /\ version' \in Nat \ {0}
    BY <1>2, <1>5 DEF TypeOK
  <2>7. \A m \in Mutation :
            \/ receipt'[m] = receipt[m]
            \/ receipt[m].version = 0 /\ receipt'[m].version # 0
    BY <1>5, <2>1, <2>2, <2>4
  <2> QED BY <1>1, <1>5, <2>1, <2>3, <2>4, <2>5, <2>6, <2>7, Literals
<1> QED BY <1>3, <1>4, <1>5 DEF Commit

\* What the endpoint's steps do to the cores and to the requests: the core that
\* asked is answered, and is told of a success only if the receipt has its value.
LEMMA Served ==
    ASSUME TypeOK, RequestInv, NEW r \in requests, Read(r) \/ Commit(r) \/ Refuse(r)
    PROVE  /\ UNCHANGED <<row, tap, base, choices, closed>>
           /\ \A f \in Effect :
                \/ core'[f] = core[f]
                \/ /\ f = r.core /\ core[f] \in AtWork /\ core'[f] \in AtWork
                   /\ core'[f].item = core[f].item /\ core'[f].copy = core[f].copy
                   /\ requests' = requests \ {r}
                   /\ core'[f].answer = "success" =>
                        /\ receipt'[core[f].item].version # 0
                        /\ receipt'[core[f].item].desired = core[f].copy.desired
           /\ \/ requests' = requests \ {r}
              \/ \E x \in Request :
                    /\ requests' = (requests \ {r}) \cup {x} /\ core' = core
                    /\ x.core = r.core /\ x.item = r.item /\ x.desired = r.desired
                    /\ x.read = base[r.item]
<1>1. UNCHANGED <<row, tap, base, choices, closed>>
  BY ReadDone, CommitDone DEF choiceVars, Refuse
<1>2. ASSUME NEW a \in Answer, NEW v \in Nat, Reply(r, a, v), Honest(r, a, receipt')
      PROVE  /\ requests' = requests \ {r}
             /\ \A f \in Effect :
                \/ core'[f] = core[f]
                \/ /\ f = r.core /\ core[f] \in AtWork /\ core'[f] \in AtWork
                   /\ core'[f].item = core[f].item /\ core'[f].copy = core[f].copy
                   /\ requests' = requests \ {r}
                   /\ core'[f].answer = "success" =>
                        /\ receipt'[core[f].item].version # 0
                        /\ receipt'[core[f].item].desired = core[f].copy.desired
  <2>1. requests' = requests \ {r}
    BY <1>2, Replied
  <2>2. ASSUME NEW f \in Effect
        PROVE  \/ core'[f] = core[f]
               \/ /\ f = r.core /\ core[f] \in AtWork /\ core'[f] \in AtWork
                  /\ core'[f].item = core[f].item /\ core'[f].copy = core[f].copy
                  /\ core'[f].answer = "success" =>
                        /\ receipt'[core[f].item].version # 0
                        /\ receipt'[core[f].item].desired = core[f].copy.desired
    <3>1. CASE f # r.core
      BY <1>2, <3>1, Replied
    <3>2. CASE f = r.core
      <4>1. f # NoEffect
        BY NoEffectAssumption
      <4>2. /\ core[f] \in AtWork /\ core'[f] \in AtWork /\ core'[f].answer = a
            /\ core'[f].item = core[f].item /\ core'[f].copy = core[f].copy
        BY <1>2, <3>2, <4>1, Replied
      <4>3. core[f].item = r.item /\ core[f].copy.desired = r.desired
        BY <3>2, <4>1 DEF RequestInv
      <4> QED BY <1>2, <3>2, <4>2, <4>3 DEF Honest
    <3> QED BY <3>1, <3>2
  <2> QED BY <2>1, <2>2
<1>3. CASE Read(r)
  <2>1. receipt' = receipt
    BY <1>3, ReadDone DEF serverVars
  <2>2. CASE \E a \in Answer, v \in Nat : Reply(r, a, v) /\ Honest(r, a, receipt)
    BY <1>1, <1>2, <2>1, <2>2
  <2>3. CASE \E x \in Request :
                /\ requests' = (requests \ {r}) \cup {x} /\ core' = core
                /\ x.core = r.core /\ x.item = r.item /\ x.desired = r.desired
                /\ x.read = base[r.item]
    BY <1>1, <2>3
  <2> QED BY <1>3, <2>2, <2>3, ReadDone
<1>4. CASE Commit(r)
  BY <1>1, <1>2, <1>4, CommitDone
<1>5. CASE Refuse(r)
  <2>1. Reply(r, "auth", 0) /\ Honest(r, "auth", receipt')
    BY <1>5 DEF Refuse, Honest
  <2> QED BY <1>1, <1>2, <2>1, Literals
<1> QED BY <1>3, <1>4, <1>5

\* A request waits for a core that exists.
LEMMA RequestCores ==
    TypeOK => \A r \in requests : r.item \in Mutation /\ (r.core # NoEffect => r.core \in Effect)
  BY DEF TypeOK, Request

\* RequestInv is only about cores that wait.
LEMMA RequestQuiet ==
    ASSUME TypeOK, RequestInv, UNCHANGED <<requests, base>>,
           \A f \in Effect : core[f].phase = "inflight" => core'[f] = core[f]
    PROVE  RequestInv'
  BY RequestCores DEF RequestInv

LEMMA InitInv == Init => IInv
<1> SUFFICES ASSUME Init PROVE IInv
  OBVIOUS
<1>1. TypeOK
  <2>1. 0 \in 0 .. MaxChoices /\ 0 \in 0 .. MaxTroubles /\ 0 \in 0 .. MaxForeign
    BY MaxChoicesAssumption, MaxTroublesAssumption, MaxForeignAssumption
  <2>2. NoReceipt \in [desired : BOOLEAN, version : Nat]
    BY DEF NoReceipt
  <2>3. core \in [Effect -> AtRest \cup AtWork] /\ tap \in [Effect -> {NoTap} \cup Tapping]
        /\ row \in [Mutation -> Row]
    BY Rows DEF Init
  <2>4. receipt \in [Mutation -> [desired : BOOLEAN, version : Nat]] /\ base \in [Mutation -> Nat]
    BY <2>2 DEF Init
  <2>5. version \in Nat \ {0}
    BY DEF Init
  <2>6. value \in BOOLEAN /\ enabled \in BOOLEAN
    BY Zenon DEF Init
  <2> QED BY <2>1, <2>3, <2>4, <2>5, <2>6 DEF Init, TypeOK
<1>2. HeldInv
  BY Literals DEF Init, HeldInv, Idle, Resting, NoTap
<1>3. DataInv /\ RequestInv /\ SuccessMeansStored /\ RemovedIsDecided
  BY Rows DEF Init, DataInv, RequestInv, SuccessMeansStored, RemovedIsDecided, Idle, Resting
<1> QED BY <1>1, <1>2, <1>3 DEF IInv

\* A step keeps the types.
LEMMA TypeStep ==
    ASSUME IInv, [Next]_vars
    PROVE  TypeOK'
<1> USE Literals, Rows DEF TypeOK, clientVars, choiceVars, serverVars, IInv
<1>1. ASSUME NEW e \in Effect, Mount(e)
      PROVE  TypeOK'
  BY <1>1 DEF Mount
<1>2. CASE Unmount
  BY <1>2, TroubleType DEF Unmount
<1>3. CASE Disable
  BY <1>3, TroubleType DEF Disable
<1>4. CASE Enable
  BY <1>4 DEF Enable
<1>5. CASE Kill
  <2>1. core' \in [Effect -> AtRest \cup AtWork] /\ tap' \in [Effect -> {NoTap} \cup Tapping]
    BY <1>5 DEF Kill
  <2>2. requests' \subseteq Request
    BY <1>5, DetachedType DEF Kill
  <2> QED BY <1>5, <2>1, <2>2, TroubleType DEF Kill
<1>6. CASE SignOut
  BY <1>6, TroubleType DEF SignOut
<1>7. ASSUME NEW e \in Effect, NEW turn \in Turned, Choose(e, turn)
      PROVE  TypeOK'
  BY <1>7, ChooseDone
<1>8. ASSUME NEW e \in Effect, Resolve(e)
      PROVE  TypeOK'
  BY <1>8, ResolveDone
<1>9. ASSUME NEW e \in Effect, RemoveResolved(e)
      PROVE  TypeOK'
  <2>1. row' \in [Mutation -> Row]
    BY <1>9, RemoveResolvedDone, Rows
  <2> QED BY <1>9, <2>1, RemoveResolvedDone
<1>10. ASSUME NEW e \in Effect, Put(e)
      PROVE  TypeOK'
  BY <1>10, PutDone, StartedType
<1>11. ASSUME NEW e \in Effect, Recover(e)
      PROVE  TypeOK'
  <2>1. core' = Started(e) /\ row' = Recovered
    BY <1>11 DEF Recover
  <2>2. core' \in [Effect -> AtRest \cup AtWork] /\ row' \in [Mutation -> Row]
    BY <2>1, StartedType, RecoveredType
  <2> QED BY <1>11, <2>2 DEF Recover
<1>12. ASSUME NEW e \in Effect, Pick(e)
      PROVE  TypeOK'
  BY <1>12, PickDone
<1>13. ASSUME NEW e \in Effect, Rest(e)
      PROVE  TypeOK'
  BY <1>13 DEF Rest
<1>14. ASSUME NEW e \in Effect, Mark(e)
      PROVE  TypeOK'
  BY <1>14, MarkDone
<1>15. ASSUME NEW e \in Effect, Send(e)
      PROVE  TypeOK'
  <2>1. requests' \subseteq Request
    BY <1>15, SendDone
  <2>2. /\ UNCHANGED <<enabled, current, recovering, tap, choiceVars, serverVars, troubles>>
        /\ core' \in [Effect -> AtRest \cup AtWork] /\ row' \in [Mutation -> Row]
    BY <1>15, SendDone
  <2> QED BY <2>1, <2>2
<1>16. ASSUME NEW e \in Effect, Settle(e)
      PROVE  TypeOK'
  BY <1>16, SettleDone
<1>17. ASSUME NEW m \in Mutation, Elapse(m)
      PROVE  TypeOK'
  BY <1>17, ElapseDone
<1>18. ASSUME NEW r \in requests, Read(r)
      PROVE  TypeOK'
  <2>1. core' \in [Effect -> AtRest \cup AtWork] /\ requests' \subseteq Request
    BY <1>18, ReadDone, Replied
  <2> QED BY <1>18, <2>1, ReadDone
<1>19. ASSUME NEW r \in requests, Commit(r)
      PROVE  TypeOK'
  <2>1. core' \in [Effect -> AtRest \cup AtWork] /\ requests' \subseteq Request
    BY <1>19, CommitDone, Replied
  <2> QED BY <1>19, <2>1, CommitDone
<1>20. ASSUME NEW r \in requests, Refuse(r)
      PROVE  TypeOK'
  <2>1. core' \in [Effect -> AtRest \cup AtWork] /\ requests' \subseteq Request
    BY <1>20, Replied DEF Refuse
  <2> QED BY <1>20, <2>1 DEF Refuse
<1>21. ASSUME NEW r \in requests, Lose(r)
      PROVE  TypeOK'
  <2>1. requests' \subseteq Request
    BY <1>21, LoseDone, DetachedType
  <2>2. Trouble /\ core' \in [Effect -> AtRest \cup AtWork]
        /\ UNCHANGED <<enabled, current, recovering, tap, row, choiceVars, serverVars>>
    BY <1>21, LoseDone
  <2> QED BY <2>1, <2>2, TroubleType
<1>22. CASE OtherDevice
  <2>1. foreign' \in 0 .. MaxForeign /\ version' \in Nat \ {0}
    BY <1>22, MaxForeignAssumption DEF OtherDevice
  <2>2. value' \in BOOLEAN
    BY <1>22, Zenon DEF OtherDevice
  <2> QED BY <1>22, <2>1, <2>2 DEF OtherDevice
<1>23. CASE UNCHANGED vars
  BY <1>23 DEF vars
<1> QED
  BY <1>1, <1>2, <1>3, <1>4, <1>5, <1>6, <1>7, <1>8, <1>9, <1>10, <1>11,
     <1>12, <1>13, <1>14, <1>15, <1>16, <1>17, <1>18, <1>19, <1>20, <1>21,
     <1>22, <1>23 DEF Next, Run, Tapped, Serve

\* A step keeps HeldInv.
LEMMA HeldStep ==
    ASSUME IInv, TypeOK', [Next]_vars
    PROVE  HeldInv'
<1> USE Literals, Rows
DEF TypeOK, IInv, clientVars, choiceVars, serverVars, HeldInv, AtRest, AtWork
<1>1. CASE Kill
  <2>1. \A f \in Effect : core'[f] \in AtRest /\ tap'[f].step = "none"
    BY <1>1, Rows DEF Kill, NoTap
  <2> QED BY <2>1
<1>2. ASSUME NEW e \in Effect, NEW turn \in Turned, Choose(e, turn)
      PROVE  HeldInv'
  <2>1. choices \in Nat /\ choices' = choices + 1
    BY <1>2, ChooseDone
  <2>2. \A f \in Effect : core'[f] = core[f] /\ (f # e => tap'[f] = tap[f])
    BY <1>2, ChooseDone
  <2>3. /\ tap'[e].item <= choices' /\ tap'[e].fresh <= choices'
        /\ tap'[e].copy.state \notin {"new", "gone"}
    BY <1>2, ChooseDone
  <2>4. ASSUME NEW f \in Effect, core'[f].phase \in Phase
        PROVE  core'[f].item <= choices' /\ core'[f].copy.state \notin {"new", "gone"}
    <3>1. core[f].phase \in Phase /\ core[f].item \in Nat
      BY <2>2, <2>4, Working
    <3>2. core[f].item <= choices /\ core[f].copy.state \notin {"new", "gone"}
      BY <3>1
    <3> QED BY <2>1, <2>2, <3>1, <3>2
  <2>5. ASSUME NEW f \in Effect, f # e, tap'[f].step # "none"
        PROVE  /\ tap'[f].item <= choices' /\ tap'[f].fresh <= choices'
               /\ tap'[f].copy.state \notin {"new", "gone"}
    <3>1. tap[f] \in Tapping
      BY <2>2, <2>5 DEF NoTap
    <3>2. tap[f].item \in Nat /\ tap[f].fresh \in Nat
      BY <3>1 DEF Tapping
    <3> QED BY <2>1, <2>2, <2>5, <3>2
  <2> QED BY <2>2, <2>3, <2>4, <2>5
<1>3. ASSUME NEW e \in Effect, Resolve(e)
      PROVE  HeldInv'
  <2>1. choices \in Nat /\ choices' = choices + 1
    BY <1>3, ResolveDone
  <2>2. \A f \in Effect : core'[f] = core[f] /\ (f # e => tap'[f] = tap[f])
    BY <1>3, ResolveDone
  <2>3. /\ tap'[e].item <= choices' /\ tap'[e].fresh <= choices'
        /\ tap'[e].copy.state \notin {"new", "gone"}
    BY <1>3, ResolveDone
  <2>4. ASSUME NEW f \in Effect, core'[f].phase \in Phase
        PROVE  core'[f].item <= choices' /\ core'[f].copy.state \notin {"new", "gone"}
    <3>1. core[f].phase \in Phase /\ core[f].item \in Nat
      BY <2>2, <2>4, Working
    <3>2. core[f].item <= choices /\ core[f].copy.state \notin {"new", "gone"}
      BY <3>1
    <3> QED BY <2>1, <2>2, <3>1, <3>2
  <2>5. ASSUME NEW f \in Effect, f # e, tap'[f].step # "none"
        PROVE  /\ tap'[f].item <= choices' /\ tap'[f].fresh <= choices'
               /\ tap'[f].copy.state \notin {"new", "gone"}
    <3>1. tap[f] \in Tapping
      BY <2>2, <2>5 DEF NoTap
    <3>2. tap[f].item \in Nat /\ tap[f].fresh \in Nat
      BY <3>1 DEF Tapping
    <3> QED BY <2>1, <2>2, <2>5, <3>2
  <2> QED BY <2>2, <2>3, <2>4, <2>5
<1>4. ASSUME NEW e \in Effect, RemoveResolved(e)
      PROVE  HeldInv'
  BY <1>4, RemoveResolvedDone
<1>5. ASSUME NEW e \in Effect, Put(e)
      PROVE  HeldInv'
  BY <1>5, PutDone, StartedType
<1>6. ASSUME NEW e \in Effect, Recover(e)
      PROVE  HeldInv'
  BY <1>6, StartedType, RecoveredType DEF Recover
<1>7. ASSUME NEW e \in Effect, Pick(e)
      PROVE  HeldInv'
  <2>1. /\ core'[e].item <= choices
        /\ core'[e].copy.state \notin {"new", "gone"}
    BY <1>7, PickDone DEF Runnable, DataInv
  <2>2. UNCHANGED <<tap, choices>> /\ \A f \in Effect : f # e => core'[f] = core[f]
    BY <1>7, PickDone
  <2> QED BY <2>1, <2>2
<1>8. ASSUME NEW e \in Effect, Rest(e)
      PROVE  HeldInv'
  BY <1>8 DEF Rest
<1>9. ASSUME NEW e \in Effect, Mark(e)
      PROVE  HeldInv'
  BY <1>9, MarkDone
<1>10. ASSUME NEW e \in Effect, Send(e)
      PROVE  HeldInv'
  BY <1>10, SendDone
<1>11. ASSUME NEW e \in Effect, Settle(e)
      PROVE  HeldInv'
  BY <1>11, SettleDone
<1>12. ASSUME NEW r \in requests, Read(r)
      PROVE  HeldInv'
  BY <1>12, Served
<1>13. ASSUME NEW r \in requests, Commit(r)
      PROVE  HeldInv'
  BY <1>13, Served
<1>14. ASSUME NEW r \in requests, Refuse(r)
      PROVE  HeldInv'
  BY <1>14, Served
<1>15. ASSUME NEW r \in requests, Lose(r)
      PROVE  HeldInv'
  BY <1>15, LoseDone, DetachedType
<1>16. CASE UNCHANGED vars
  BY <1>16 DEF vars
<1> QED
  BY <1>1, <1>2, <1>3, <1>4, <1>5, <1>6, <1>7, <1>8, <1>9, <1>10, <1>11,
     <1>12, <1>13, <1>14, <1>15, <1>16
  DEF Next, Run, Tapped, Serve, Mount, Unmount, Disable, Enable, SignOut,
      Elapse, OtherDevice

\* A step keeps DataInv.
LEMMA DataStep ==
    ASSUME IInv, TypeOK', [Next]_vars
    PROVE  DataInv'
<1> USE Literals, Rows
DEF TypeOK, IInv, clientVars, choiceVars, serverVars, HeldInv, DataInv,
    AtRest, AtWork
<1>1. CASE Kill
  BY <1>1, DetachedType DEF Kill
<1>2. CASE SignOut
  <2>1. UNCHANGED <<choices, requests>>
    BY <1>2 DEF SignOut
  <2>2. \A m \in Mutation : row'[m] = row[m] \/ Stored(m)
    BY <1>2 DEF SignOut
  <2> QED BY <2>1, <2>2 DEF Stored
<1>3. ASSUME NEW e \in Effect, NEW turn \in Turned, Choose(e, turn)
      PROVE  DataInv'
  <2>1. choices \in Nat /\ choices' = choices + 1 /\ UNCHANGED <<row, requests>>
    BY <1>3, ChooseDone
  <2>2. \A r \in requests : r.item \in Nat
    BY DEF Request
  <2> QED BY <2>1, <2>2
<1>4. ASSUME NEW e \in Effect, Resolve(e)
      PROVE  DataInv'
  <2>1. choices \in Nat /\ choices' = choices + 1 /\ UNCHANGED <<row, requests>>
    BY <1>4, ResolveDone
  <2>2. \A r \in requests : r.item \in Nat
    BY DEF Request
  <2> QED BY <2>1, <2>2
<1>5. ASSUME NEW e \in Effect, RemoveResolved(e)
      PROVE  DataInv'
  <2>1. UNCHANGED <<choices, requests>> /\ tap[e].item <= choices
    BY <1>5, RemoveResolvedDone
  <2>2. \A m \in Mutation : row'[m] = row[m] \/ m = tap[e].item
    BY <1>5, RemoveResolvedDone
  <2> QED BY <2>1, <2>2
<1>6. ASSUME NEW e \in Effect, Put(e)
      PROVE  DataInv'
  BY <1>6, PutDone, StartedType
<1>7. ASSUME NEW e \in Effect, Recover(e)
      PROVE  DataInv'
  BY <1>7, StartedType, RecoveredType DEF Recover
<1>8. ASSUME NEW e \in Effect, Mark(e)
      PROVE  DataInv'
  BY <1>8, MarkDone
<1>9. ASSUME NEW e \in Effect, Send(e)
      PROVE  DataInv'
  BY <1>9, SendDone
<1>10. ASSUME NEW e \in Effect, Settle(e)
      PROVE  DataInv'
  BY <1>10, SettleDone
<1>11. ASSUME NEW m \in Mutation, Elapse(m)
      PROVE  DataInv'
  BY <1>11, ElapseDone
<1>12. ASSUME NEW r \in requests, Read(r)
      PROVE  DataInv'
  BY <1>12, Served
<1>13. ASSUME NEW r \in requests, Commit(r)
      PROVE  DataInv'
  BY <1>13, Served
<1>14. ASSUME NEW r \in requests, Refuse(r)
      PROVE  DataInv'
  BY <1>14, Served
<1>15. ASSUME NEW r \in requests, Lose(r)
      PROVE  DataInv'
  BY <1>15, LoseDone, DetachedType
<1>16. CASE UNCHANGED vars
  BY <1>16 DEF vars
<1> QED
  BY <1>1, <1>2, <1>3, <1>4, <1>5, <1>6, <1>7, <1>8, <1>9, <1>10, <1>11,
     <1>12, <1>13, <1>14, <1>15, <1>16
  DEF Next, Run, Tapped, Serve, Mount, Unmount, Disable, Enable, Pick,
      Runnable, Rest, OtherDevice

\* A step keeps RequestInv.
LEMMA RequestStep ==
    ASSUME IInv, TypeOK', [Next]_vars
    PROVE  RequestInv'
<1> USE Literals, Rows
DEF TypeOK, IInv, clientVars, choiceVars, serverVars, RequestInv, HeldInv,
    DataInv, AtRest, AtWork
<1>1. CASE Kill
  <2>1. base' = base /\ \A x \in requests' : \E r \in requests : x = Detached(r)
    BY <1>1 DEF Kill
  <2>2. \A x \in requests' : x.core = NoEffect /\ (x.read # 0 => x.read = base'[x.item])
    BY <2>1, DetachedType
  <2> QED BY <2>2
<1>2. ASSUME NEW e \in Effect, NEW turn \in Turned, Choose(e, turn)
      PROVE  RequestInv'
  <2>1. UNCHANGED <<core, requests>> /\ \A m \in Mutation : m <= choices => base'[m] = base[m]
    BY <1>2, ChooseDone
  <2>2. \A r \in requests : r.item \in Mutation
    BY DEF Request
  <2> QED BY <2>1, <2>2
<1>3. ASSUME NEW e \in Effect, Resolve(e)
      PROVE  RequestInv'
  <2>1. UNCHANGED <<core, requests>> /\ \A m \in Mutation : m <= choices => base'[m] = base[m]
    BY <1>3, ResolveDone
  <2>2. \A r \in requests : r.item \in Mutation
    BY DEF Request
  <2> QED BY <2>1, <2>2
<1>4. ASSUME NEW e \in Effect, Put(e)
      PROVE  RequestInv'
  <2>1. UNCHANGED <<requests, base>>
    BY <1>4, PutDone, StartedType
  <2>2. \A f \in Effect : core[f].phase = "inflight" => core'[f] = core[f]
    BY <1>4, PutDone, StartedType, Working
  <2> QED BY <2>1, <2>2, RequestQuiet
<1>5. ASSUME NEW e \in Effect, Recover(e)
      PROVE  RequestInv'
  <2>1. UNCHANGED <<requests, base>> /\ core' = Started(e)
    BY <1>5 DEF Recover
  <2>2. \A f \in Effect : core[f].phase = "inflight" => core'[f] = core[f]
    BY <2>1, StartedType, Working
  <2> QED BY <2>1, <2>2, RequestQuiet
<1>6. ASSUME NEW e \in Effect, Pick(e)
      PROVE  RequestInv'
  <2>1. UNCHANGED <<requests, base>>
    BY <1>6, PickDone
  <2>2. \A f \in Effect : core[f].phase = "inflight" => core'[f] = core[f]
    BY <1>6, PickDone, Working
  <2> QED BY <2>1, <2>2, RequestQuiet
<1>7. ASSUME NEW e \in Effect, Rest(e)
      PROVE  RequestInv'
  <2>1. UNCHANGED <<requests, base>>
    BY <1>7 DEF Rest
  <2>2. \A f \in Effect : core[f].phase = "inflight" => core'[f] = core[f]
    BY <1>7, Rows, Working DEF Rest
  <2> QED BY <2>1, <2>2, RequestQuiet
<1>8. ASSUME NEW e \in Effect, Mark(e)
      PROVE  RequestInv'
  <2>1. UNCHANGED <<requests, base>>
    BY <1>8, MarkDone
  <2>2. \A f \in Effect : core[f].phase = "inflight" => core'[f] = core[f]
    BY <1>8, MarkDone, Working
  <2> QED BY <2>1, <2>2, RequestQuiet
<1>9. ASSUME NEW e \in Effect, Send(e)
      PROVE  RequestInv'
  <2>1. base' = base /\ \A f \in Effect : f # e => core'[f] = core[f]
    BY <1>9, SendDone
  <2>2. \A r \in requests : r.core # e
    BY <1>9, SendDone, NoEffectAssumption
  <2>3. CASE requests' = requests
    BY <2>1, <2>2, <2>3, RequestCores
  <2>4. CASE requests' # requests
    <3>1. PICK r \in Request :
            /\ requests' = requests \cup {r} /\ r.core = e
            /\ r.item = core[e].item /\ r.desired = core[e].copy.desired
            /\ r.read = 0
      BY <1>9, <2>4, SendDone
    <3>2. /\ core'[e].phase = "inflight" /\ core'[e].item = core[e].item
          /\ core'[e].copy = core[e].copy
      BY <1>9, <2>4, SendDone
    <3> QED BY <2>1, <2>2, <3>1, <3>2, RequestCores
  <2> QED BY <2>3, <2>4
<1>10. ASSUME NEW e \in Effect, Settle(e)
      PROVE  RequestInv'
  <2>1. UNCHANGED <<requests, base>>
    BY <1>10, SettleDone
  <2>2. \A f \in Effect : core[f].phase = "inflight" => core'[f] = core[f]
    BY <1>10, SettleDone, Working
  <2> QED BY <2>1, <2>2, RequestQuiet
<1>11. ASSUME NEW r \in requests, Read(r)
      PROVE  RequestInv'
  <2>1. base' = base /\ (Read(r) \/ Commit(r) \/ Refuse(r))
    BY <1>11, Served
  <2>2. \A f \in Effect : f # r.core => core'[f] = core[f]
    BY <2>1, Served
  <2>3. CASE requests' = requests \ {r}
    <3>1. \A x \in requests' : x.core # NoEffect => x.core # r.core
      BY <2>3
    <3> QED BY <2>1, <2>2, <2>3, <3>1, RequestCores
  <2>4. CASE requests' # requests \ {r}
    <3>1. PICK x \in Request :
            /\ requests' = (requests \ {r}) \cup {x} /\ core' = core
            /\ x.core = r.core /\ x.item = r.item /\ x.desired = r.desired
            /\ x.read = base[r.item]
      BY <2>1, <2>4, Served
    <3> QED BY <2>1, <3>1
  <2> QED BY <2>3, <2>4
<1>12. ASSUME NEW r \in requests, Commit(r)
      PROVE  RequestInv'
  <2>1. base' = base /\ (Read(r) \/ Commit(r) \/ Refuse(r))
    BY <1>12, Served
  <2>2. \A f \in Effect : f # r.core => core'[f] = core[f]
    BY <2>1, Served
  <2>3. CASE requests' = requests \ {r}
    <3>1. \A x \in requests' : x.core # NoEffect => x.core # r.core
      BY <2>3
    <3> QED BY <2>1, <2>2, <2>3, <3>1, RequestCores
  <2>4. CASE requests' # requests \ {r}
    <3>1. PICK x \in Request :
            /\ requests' = (requests \ {r}) \cup {x} /\ core' = core
            /\ x.core = r.core /\ x.item = r.item /\ x.desired = r.desired
            /\ x.read = base[r.item]
      BY <2>1, <2>4, Served
    <3> QED BY <2>1, <3>1
  <2> QED BY <2>3, <2>4
<1>13. ASSUME NEW r \in requests, Refuse(r)
      PROVE  RequestInv'
  <2>1. base' = base /\ (Read(r) \/ Commit(r) \/ Refuse(r))
    BY <1>13, Served
  <2>2. \A f \in Effect : f # r.core => core'[f] = core[f]
    BY <2>1, Served
  <2>3. CASE requests' = requests \ {r}
    <3>1. \A x \in requests' : x.core # NoEffect => x.core # r.core
      BY <2>3
    <3> QED BY <2>1, <2>2, <2>3, <3>1, RequestCores
  <2>4. CASE requests' # requests \ {r}
    <3>1. PICK x \in Request :
            /\ requests' = (requests \ {r}) \cup {x} /\ core' = core
            /\ x.core = r.core /\ x.item = r.item /\ x.desired = r.desired
            /\ x.read = base[r.item]
      BY <2>1, <2>4, Served
    <3> QED BY <2>1, <3>1
  <2> QED BY <2>3, <2>4
<1>14. ASSUME NEW r \in requests, Lose(r)
      PROVE  RequestInv'
  <2>1. base' = base /\ \A f \in Effect : f # r.core => core'[f] = core[f]
    BY <1>14, LoseDone
  <2>2. requests' \subseteq (requests \ {r}) \cup {Detached(r)} /\ r.core # NoEffect
    BY <1>14, LoseDone
  <2>3. /\ Detached(r).core = NoEffect /\ Detached(r).item = r.item
        /\ Detached(r).read = r.read
    BY DetachedType
  <2> QED BY <2>1, <2>2, <2>3, RequestCores
<1>15. CASE UNCHANGED vars
  BY <1>15 DEF vars
<1>16. CASE UNCHANGED <<requests, core, base>>
  BY <1>16
<1> HIDE DEF TypeOK, IInv, clientVars, choiceVars, serverVars, HeldInv, DataInv,
       AtRest, AtWork
<1> QED
  BY <1>1, <1>2, <1>3, <1>4, <1>5, <1>6, <1>7, <1>8, <1>9, <1>10, <1>11,
     <1>12, <1>13, <1>14, <1>15, <1>16
  DEF Next, Run, Tapped, Serve, clientVars, choiceVars, serverVars, Mount,
      Unmount, Disable, Enable, SignOut, RemoveResolved, Elapse, OtherDevice

\* A step keeps SuccessMeansStored.
LEMMA SuccessStep ==
    ASSUME IInv, TypeOK', [Next]_vars
    PROVE  SuccessMeansStored'
<1> USE Literals, Rows
DEF TypeOK, IInv, clientVars, choiceVars, serverVars, SuccessMeansStored,
    RequestInv, AtRest, AtWork
<1>1. CASE Kill
  BY <1>1, DetachedType DEF Kill
<1>2. ASSUME NEW e \in Effect, Put(e)
      PROVE  SuccessMeansStored'
  BY <1>2, PutDone, StartedType
<1>3. ASSUME NEW e \in Effect, Recover(e)
      PROVE  SuccessMeansStored'
  BY <1>3, StartedType, RecoveredType DEF Recover
<1>4. ASSUME NEW e \in Effect, Pick(e)
      PROVE  SuccessMeansStored'
  BY <1>4, PickDone
<1>5. ASSUME NEW e \in Effect, Rest(e)
      PROVE  SuccessMeansStored'
  BY <1>5 DEF Rest
<1>6. ASSUME NEW e \in Effect, Mark(e)
      PROVE  SuccessMeansStored'
  BY <1>6, MarkDone
<1>7. ASSUME NEW e \in Effect, Send(e)
      PROVE  SuccessMeansStored'
  BY <1>7, SendDone
<1>8. ASSUME NEW e \in Effect, Settle(e)
      PROVE  SuccessMeansStored'
  BY <1>8, SettleDone
<1>9. ASSUME NEW r \in requests, Read(r)
      PROVE  SuccessMeansStored'
  <2>1. ASSUME NEW f \in Effect, core'[f].answer = "success"
        PROVE  /\ receipt'[core'[f].item].version # 0
               /\ receipt'[core'[f].item].desired = core'[f].copy.desired
    <3>1. CASE core'[f] = core[f]
      <4>1. core[f] \in AtWork /\ core[f].item \in Mutation
        BY <2>1, <3>1, Working
      <4>2. receipt'[core[f].item] = receipt[core[f].item] \/ receipt[core[f].item].version = 0
        BY <1>9, <4>1, ReadDone
      <4> QED BY <2>1, <3>1, <4>2
    <3>2. CASE core'[f] # core[f]
      BY <1>9, <2>1, <3>2, Served
    <3> QED BY <3>1, <3>2
  <2> QED BY <2>1
<1>10. ASSUME NEW r \in requests, Commit(r)
      PROVE  SuccessMeansStored'
  <2>1. ASSUME NEW f \in Effect, core'[f].answer = "success"
        PROVE  /\ receipt'[core'[f].item].version # 0
               /\ receipt'[core'[f].item].desired = core'[f].copy.desired
    <3>1. CASE core'[f] = core[f]
      <4>1. core[f] \in AtWork /\ core[f].item \in Mutation
        BY <2>1, <3>1, Working
      <4>2. receipt'[core[f].item] = receipt[core[f].item] \/ receipt[core[f].item].version = 0
        BY <1>10, <4>1, CommitDone
      <4> QED BY <2>1, <3>1, <4>2
    <3>2. CASE core'[f] # core[f]
      BY <1>10, <2>1, <3>2, Served
    <3> QED BY <3>1, <3>2
  <2> QED BY <2>1
<1>11. ASSUME NEW r \in requests, Refuse(r)
      PROVE  SuccessMeansStored'
  <2>1. ASSUME NEW f \in Effect, core'[f].answer = "success"
        PROVE  /\ receipt'[core'[f].item].version # 0
               /\ receipt'[core'[f].item].desired = core'[f].copy.desired
    <3>1. CASE core'[f] = core[f]
      <4>1. core[f] \in AtWork /\ core[f].item \in Mutation
        BY <2>1, <3>1, Working
      <4>2. receipt'[core[f].item] = receipt[core[f].item] \/ receipt[core[f].item].version = 0
        BY <1>11, <4>1 DEF Refuse
      <4> QED BY <2>1, <3>1, <4>2
    <3>2. CASE core'[f] # core[f]
      BY <1>11, <2>1, <3>2, Served
    <3> QED BY <3>1, <3>2
  <2> QED BY <2>1
<1>12. ASSUME NEW r \in requests, Lose(r)
      PROVE  SuccessMeansStored'
  BY <1>12, LoseDone, DetachedType
<1>13. CASE UNCHANGED vars
  BY <1>13 DEF vars
<1>14. CASE UNCHANGED <<core, receipt>>
  BY <1>14
<1> HIDE DEF TypeOK, IInv, clientVars, choiceVars, serverVars, RequestInv, AtRest,
       AtWork
<1> QED
  BY <1>1, <1>2, <1>3, <1>4, <1>5, <1>6, <1>7, <1>8, <1>9, <1>10, <1>11,
     <1>12, <1>13, <1>14
  DEF Next, Run, Tapped, Serve, clientVars, choiceVars, serverVars, Mount,
      Unmount, Disable, Enable, SignOut, Choose, Resolve, RemoveResolved,
      Elapse, OtherDevice

\* A step keeps RemovedIsDecided.
LEMMA RemovedStep ==
    ASSUME IInv, TypeOK', [Next]_vars
    PROVE  RemovedIsDecided'
<1> USE Literals, Rows
DEF TypeOK, IInv, clientVars, choiceVars, serverVars, RemovedIsDecided,
    SuccessMeansStored, HeldInv, AtRest, AtWork
<1>1. CASE SignOut
  BY <1>1 DEF SignOut
<1>2. ASSUME NEW e \in Effect, RemoveResolved(e)
      PROVE  RemovedIsDecided'
  BY <1>2, RemoveResolvedDone
<1>3. ASSUME NEW e \in Effect, Put(e)
      PROVE  RemovedIsDecided'
  BY <1>3, PutDone, StartedType
<1>4. ASSUME NEW e \in Effect, Recover(e)
      PROVE  RemovedIsDecided'
  BY <1>4, StartedType, RecoveredType DEF Recover
<1>5. ASSUME NEW e \in Effect, Mark(e)
      PROVE  RemovedIsDecided'
  BY <1>5, MarkDone
<1>6. ASSUME NEW e \in Effect, Send(e)
      PROVE  RemovedIsDecided'
  BY <1>6, SendDone
<1>7. ASSUME NEW e \in Effect, Settle(e)
      PROVE  RemovedIsDecided'
  <2>1. UNCHANGED <<receipt, closed>> /\ core[e] \in AtWork
    BY <1>7, SettleDone
  <2>2. ASSUME RowAfter(core[e]).state = "gone"
        PROVE  receipt[core[e].item].version # 0
    BY <2>1, <2>2, RowAfterType
  <2> QED BY <1>7, <2>1, <2>2, SettleDone
<1>8. ASSUME NEW m \in Mutation, Elapse(m)
      PROVE  RemovedIsDecided'
  BY <1>8, ElapseDone
<1>9. ASSUME NEW r \in requests, Commit(r)
      PROVE  RemovedIsDecided'
  BY <1>9, CommitDone, Replied
<1>10. CASE UNCHANGED vars
  BY <1>10 DEF vars
<1> QED
  BY <1>1, <1>2, <1>3, <1>4, <1>5, <1>6, <1>7, <1>8, <1>9, <1>10
  DEF Next, Run, Tapped, Serve, Mount, Unmount, Disable, Enable, Kill,
      Detached, Choose, Begin, Resolve, Pick, Runnable, Rest, Read, ByReceipt,
      Refuse, Lose, OtherDevice

LEMMA InvStep == IInv /\ [Next]_vars => IInv'
<1> SUFFICES ASSUME IInv, [Next]_vars PROVE IInv'
  OBVIOUS
<1>1. TypeOK'
  BY TypeStep
<1> QED
  BY <1>1, HeldStep, DataStep, RequestStep, SuccessStep, RemovedStep DEF IInv

\* The invariant holds in every reachable state.
THEOREM Invariance == Spec => []IInv
  BY InitInv, InvStep, PTL DEF Spec

\* Type correctness of the preference outbox.
THEOREM TypeCorrect == Spec => []TypeOK
  BY Invariance, PTL DEF IInv

\* No choice leaves the outbox undecided, whatever overlaps, crashes or is lost
\* (outboxCore.ts:69-102).
THEOREM RemovedAreDecided == Spec => []RemovedIsDecided
  BY Invariance, PTL DEF IInv

\* A success is about the value that was sent (router.py:85-87, 158-159).
THEOREM SuccessesAreStored == Spec => []SuccessMeansStored
  BY Invariance, PTL DEF IInv

\* A mutation never overwrites a version its user had not seen
\* (router.py:97-113).
THEOREM NothingOverwrittenUnseen == Spec => NoUnseenOverwrite
<1>1. ASSUME IInv, [Next]_vars
      PROVE  [\A m \in Mutation :
                receipt'[m].version # receipt[m].version /\ value' # value
                    => base[m] = version]_vars
  <2>1. ASSUME NEW r \in requests, Commit(r), NEW m \in Mutation,
               receipt'[m].version # receipt[m].version, value' # value
        PROVE  base[m] = version
    BY <1>1, <2>1 DEF Commit, Changes, IInv, TypeOK, RequestInv, Request, serverVars
  <2>2. CASE receipt' = receipt
    BY <2>2
  <2>3. CASE UNCHANGED vars
    BY <2>3 DEF vars
  <2> QED
    BY <1>1, <2>1, <2>2, <2>3
    DEF Next, Run, Tapped, Serve, serverVars, Mount, Unmount, Disable, Enable, Kill,
        SignOut, Choose, Resolve, RemoveResolved, Put, Recover, Pick, Rest, Mark,
        Send, Settle, Elapse, Read, Refuse, Lose, OtherDevice
<1> QED BY <1>1, Invariance, PTL DEF Spec, NoUnseenOverwrite

-----------------------------------------------------------------------------
(* The outbox and its endpoint implement VersionedSwitch: the invariant the   *)
(* mapping needs beside IInv                                                  *)

IsMade(m) == base[m] # 0

\* The server has the value of its version, and nobody a version to come.
ServerInv ==
    /\ value = ValueAt(version)
    /\ \A m \in Mutation : base[m] <= version /\ (m > choices => ~ IsMade(m))

\* Who holds a mutation holds one that was made, and a conflict names a version
\* the server has had.
RowsInv ==
    \A m \in Mutation :
        /\ row[m].state # "new" => IsMade(m)
        /\ row[m].state = "conflict" => row[m].conflictCurrent \in 1 .. version
CoresInv ==
    \A e \in Effect :
        /\ core[e].phase \in Phase =>
                IsMade(core[e].item) /\ core[e].copy.state # "conflict"
        /\ core[e].answer = "conflict" => core[e].current \in 1 .. version
TapsInv ==
    \A e \in Effect :
        /\ tap[e].step # "none" => IsMade(tap[e].item) /\ IsMade(tap[e].fresh)
        /\ tap[e].step = "put" => tap[e].copy.state = "pending"

\* A transaction knows whether its mutation agrees with the version it has read.
AsksInv ==
    \A r \in requests :
        /\ IsMade(r.item)
        /\ r.read # 0 => (r.same <=> (ValueAt(r.read) = r.desired))

SwitchInv == ServerInv /\ RowsInv /\ CoresInv /\ TapsInv /\ AsksInv

LEMMA ValueTurns ==
    ASSUME NEW v \in Nat
    PROVE  /\ ValueAt(v) \in BOOLEAN
           /\ ValueAt(v + 1) = ~ ValueAt(v)
<1>1. (v + 1) % 2 = 0 <=> ~ (v % 2 = 0)
  OBVIOUS
<1>2. ValueAt(v) \in BOOLEAN  BY Zenon DEF ValueAt
<1>3. ValueAt(v + 1) = ~ ValueAt(v)
  BY <1>1, Zenon DEF ValueAt
<1> QED BY <1>2, <1>3

\* The server goes forward, and a mutation that was made keeps its base.
LEMMA Forward ==
    ASSUME IInv, ServerInv, [Next]_vars
    PROVE  /\ version' \in Nat /\ version <= version'
           /\ \A m \in Mutation : IsMade(m) => base'[m] = base[m] /\ IsMade(m)'
<1>0. version \in Nat /\ choices \in Nat /\ \A m \in Mutation : m \in Nat
  BY MaxChoicesAssumption DEF IInv, TypeOK, Mutation
<1>1. ASSUME NEW e \in Effect, NEW turn \in Turned, Choose(e, turn)
      PROVE  version' = version /\ \A m \in Mutation : IsMade(m) => base'[m] = base[m]
  <2>1. version' = version /\ \A m \in Mutation : m <= choices => base'[m] = base[m]
    BY <1>1, ChooseDone DEF serverVars
  <2> QED BY <1>0, <2>1 DEF ServerInv
<1>2. ASSUME NEW e \in Effect, Resolve(e)
      PROVE  version' = version /\ \A m \in Mutation : IsMade(m) => base'[m] = base[m]
  <2>1. version' = version /\ \A m \in Mutation : m <= choices => base'[m] = base[m]
    BY <1>2, ResolveDone DEF serverVars
  <2> QED BY <1>0, <2>1 DEF ServerInv
<1>3. ASSUME NEW r \in requests, Commit(r)
      PROVE  version' \in Nat /\ version <= version' /\ base' = base
  BY <1>0, <1>3 DEF Commit, serverVars, choiceVars
<1>4. ASSUME OtherDevice
      PROVE  version' \in Nat /\ version <= version' /\ base' = base
  BY <1>0, <1>4 DEF OtherDevice, choiceVars
<1>5. \/ version' = version /\ base' = base
      \/ \E e \in Effect : Resolve(e) \/ \E turn \in Turned : Choose(e, turn)
      \/ \E r \in requests : Commit(r)
      \/ OtherDevice
  BY DEF Next, vars, Run, Tapped, Serve, serverVars, choiceVars, Mount, Unmount,
     Disable, Enable, Kill, SignOut, RemoveResolved, Put, Recover, Pick, Rest, Mark,
     Send, Settle, Elapse, Read, Refuse, Lose
<1>6. /\ version' \in Nat /\ version <= version'
      /\ \A m \in Mutation : IsMade(m) => base'[m] = base[m]
  BY <1>0, <1>1, <1>2, <1>3, <1>4, <1>5
<1> QED BY <1>6 DEF IsMade

\* What a tap asks for is made for a version the server has had.
LEMMA TurnHad ==
    ASSUME IInv, ServerInv, RowsInv, NEW turn \in Turned
    PROVE  turn.base \in 1 .. version
<1>1. CASE Latest = {}
  BY <1>1 DEF Turned
<1>2. CASE Latest # {}
  <2>1. PICK m \in Newest(Latest) : turn = [desired |-> ~ row[m].desired, base |-> base[m]]
    BY <1>2 DEF Turned
  <2>2. m \in Mutation /\ row[m].state # "new"
    BY DEF Newest, Latest, Stored
  <2> QED BY <2>1, <2>2 DEF ServerInv, RowsInv, IsMade, IInv, TypeOK
<1> QED BY <1>1, <1>2

LEMMA ServerStep ==
    ASSUME IInv, TypeOK', SwitchInv, [Next]_vars
    PROVE  ServerInv'
<1>0. /\ version \in Nat /\ choices \in Nat /\ version' \in Nat /\ choices' \in Nat
      /\ base \in [Mutation -> Nat] /\ base' \in [Mutation -> Nat]
      /\ Mutation \subseteq Nat
  <2>1. TypeOK  BY DEF IInv
  <2>2. \A k \in 0 .. MaxChoices : k \in Nat  BY MaxChoicesAssumption
  <2>3. version \in Nat /\ choices \in Nat /\ base \in [Mutation -> Nat]
    BY <2>1, <2>2 DEF TypeOK
  <2>4. version' \in Nat /\ choices' \in Nat /\ base' \in [Mutation -> Nat]
    BY <2>2 DEF TypeOK
  <2> QED BY <2>3, <2>4, Literals
<1>1. ASSUME NEW e \in Effect, NEW turn \in Turned, Choose(e, turn)
      PROVE  ServerInv'
  <2>1. /\ UNCHANGED <<value, version>> /\ choices' = choices + 1
        /\ \A m \in Mutation : base'[m] # base[m] =>
                base'[m] = turn.base /\ m = choices + 1
    BY <1>0, <1>1 DEF Choose, Begin, serverVars
  <2>2. turn.base \in 1 .. version
    BY TurnHad DEF SwitchInv
  <2> QED BY <1>0, <2>1, <2>2 DEF SwitchInv, ServerInv, IsMade
<1>2. ASSUME NEW e \in Effect, Resolve(e)
      PROVE  ServerInv'
  <2>1. PICK m \in Newest(Latest) :
            /\ row[m].state = "conflict"
            /\ \/ Begin(e, "drop", m, m, row[m]) /\ UNCHANGED base
               \/ /\ Begin(e, "renew", m, choices + 1, row[m])
                  /\ base' = [base EXCEPT ![choices + 1] = row[m].conflictCurrent]
    BY <1>2 DEF Resolve
  <2>2. row[m].conflictCurrent \in 1 .. version
    BY <2>1 DEF Newest, Latest, SwitchInv, RowsInv
  <2>3. /\ UNCHANGED <<value, version>> /\ choices' = choices + 1
        /\ \A n \in Mutation : base'[n] # base[n] =>
                base'[n] = row[m].conflictCurrent /\ n = choices + 1
    BY <1>0, <1>2, <2>1 DEF Resolve, Begin, serverVars
  <2> QED BY <1>0, <2>2, <2>3 DEF SwitchInv, ServerInv, IsMade
<1>3. ASSUME NEW r \in requests, Commit(r)
      PROVE  ServerInv'
  <2>1. UNCHANGED <<base, choices>>
    BY <1>3 DEF Commit, choiceVars
  <2>2. CASE UNCHANGED <<value, version>>
    BY <2>1, <2>2 DEF SwitchInv, ServerInv, IsMade
  <2>3. CASE ~ r.same /\ Changes(r) /\ value' = r.desired /\ version' = version + 1
    <3>1. version = r.read /\ r.read # 0 /\ r.desired \in BOOLEAN
      BY <1>0, <1>3, <2>3 DEF Changes, Commit, IInv, TypeOK, Request
    <3>2. ~ (ValueAt(version) = r.desired)
      BY <2>3, <3>1 DEF SwitchInv, AsksInv
    <3>3. value' = ValueAt(version')
      BY <1>0, <2>3, <3>1, <3>2, ValueTurns
    <3> QED BY <1>0, <2>1, <2>3, <3>3 DEF SwitchInv, ServerInv, IsMade
  <2> QED BY <1>3, <2>2, <2>3 DEF Commit, serverVars
<1>4. CASE OtherDevice
  <2>1. value' = ~ value /\ version' = version + 1 /\ UNCHANGED <<base, choices>>
    BY <1>4 DEF OtherDevice, choiceVars
  <2>2. value' = ValueAt(version')
    BY <1>0, <2>1, ValueTurns DEF SwitchInv, ServerInv
  <2> QED BY <1>0, <2>1, <2>2 DEF SwitchInv, ServerInv, IsMade
<1>5. CASE UNCHANGED <<value, version, base, choices>>
  BY <1>5 DEF SwitchInv, ServerInv, IsMade
<1>6. \/ UNCHANGED <<value, version, base, choices>>
      \/ \E e \in Effect : Resolve(e) \/ \E turn \in Turned : Choose(e, turn)
      \/ \E r \in requests : Commit(r)
      \/ OtherDevice
  BY DEF Next, vars, Run, Tapped, Serve, serverVars, choiceVars, Mount, Unmount,
     Disable, Enable, Kill, SignOut, RemoveResolved, Put, Recover, Pick, Rest, Mark,
     Send, Settle, Elapse, Read, Refuse, Lose
<1> QED BY <1>1, <1>2, <1>3, <1>4, <1>5, <1>6

\* What a step may write as a row.
Written(m) ==
    \/ row'[m] = row[m]
    \/ row'[m] = Gone /\ IsMade(m)
    \/ IsMade(m) /\ row'[m].state \notin {"new", "conflict"}
    \/ IsMade(m) /\ row'[m].state = "conflict" /\ row'[m].conflictCurrent \in 1 .. version

LEMMA SettledRow ==
    ASSUME NEW c \in AtWork, RowAfter(c).state = "conflict"
    PROVE  c.answer = "conflict" /\ RowAfter(c).conflictCurrent = c.current
<1>1. c.copy \in Row /\ c.current \in Nat /\ c.answer \in Answer
  BY DEF AtWork
<1>2. CASE c.answer = "conflict"
  BY <1>1, <1>2 DEF RowAfter, Row
<1>3. CASE c.answer # "conflict"
  BY <1>1, <1>3, Rows, RowWritten, Literals DEF RowAfter
<1> QED BY <1>2, <1>3

LEMMA RowsStep ==
    ASSUME IInv, SwitchInv, [Next]_vars
    PROVE  RowsInv'
<1> SUFFICES ASSUME NEW m \in Mutation PROVE Written(m)
  <2>1. /\ version' \in Nat /\ version \in Nat /\ version <= version'
        /\ \A n \in Mutation : IsMade(n) => IsMade(n)'
    BY Forward DEF SwitchInv, IInv, TypeOK
  <2> QED BY <2>1, Rows DEF SwitchInv, RowsInv, Written
<1> USE DEF Written
<1>1. CASE SignOut
  BY <1>1 DEF SignOut, Stored, SwitchInv, RowsInv
<1>2. ASSUME NEW e \in Effect, RemoveResolved(e) PROVE Written(m)
  <2>1. row' = [row EXCEPT ![tap[e].item] = Gone] /\ IsMade(tap[e].item)
    BY <1>2 DEF RemoveResolved, SwitchInv, TapsInv
  <2> QED BY <2>1 DEF IInv, TypeOK
<1>3. ASSUME NEW e \in Effect, Put(e) PROVE Written(m)
  <2>1. /\ row' = [row EXCEPT ![tap[e].item] = tap[e].copy]
        /\ IsMade(tap[e].item) /\ tap[e].copy.state = "pending"
    BY <1>3 DEF Put, SwitchInv, TapsInv
  <2> QED BY <2>1 DEF IInv, TypeOK
<1>4. ASSUME NEW e \in Effect, Recover(e) PROVE Written(m)
  BY <1>4, RecoveredType DEF Recover, SwitchInv, RowsInv, IInv
<1>5. ASSUME NEW e \in Effect, Mark(e) PROVE Written(m)
  <2>1. core[e].phase \in Phase
    BY <1>5, Literals DEF Mark
  <2> QED BY <1>5, <2>1, MarkDone DEF SwitchInv, CoresInv, IInv
<1>6. ASSUME NEW e \in Effect, Send(e) PROVE Written(m)
  <2>1. core[e].phase \in Phase
    BY <1>6, Literals DEF Send
  <2>2. core[e].copy.state \notin {"new", "conflict"} /\ IsMade(core[e].item)
    BY <2>1 DEF SwitchInv, CoresInv, IInv, HeldInv
  <2> QED BY <1>6, <2>2, SendDone DEF IInv
<1>7. ASSUME NEW e \in Effect, Settle(e) PROVE Written(m)
  <2>1. core[e].phase \in Phase /\ core[e] \in AtWork
    BY <1>7, Literals, Working DEF Settle, IInv
  <2>2. IsMade(core[e].item) /\ RowAfter(core[e]).state # "new"
    BY <2>1, RowAfterType DEF SwitchInv, CoresInv
  <2>3. RowAfter(core[e]).state = "conflict" =>
            RowAfter(core[e]).conflictCurrent \in 1 .. version
    BY <2>1, SettledRow DEF SwitchInv, CoresInv
  <2> QED BY <1>7, <2>2, <2>3, SettleDone DEF IInv
<1>8. ASSUME NEW n \in Mutation, Elapse(n) PROVE Written(m)
  BY <1>8, ElapseDone DEF IInv, SwitchInv, RowsInv
<1>9. \/ row' = row
      \/ SignOut
      \/ \E e \in Effect : \/ RemoveResolved(e) \/ Put(e) \/ Recover(e) \/ Mark(e)
                           \/ Send(e) \/ Settle(e)
      \/ \E n \in Mutation : Elapse(n)
  BY DEF Next, vars, clientVars, Run, Tapped, Serve, Mount, Unmount, Disable, Enable,
     Kill, Choose, Resolve, Pick, Rest, Read, Commit, Refuse, Lose, OtherDevice
<1> QED BY <1>1, <1>2, <1>3, <1>4, <1>5, <1>6, <1>7, <1>8, <1>9

\* A core takes a row that may be sent, which is no conflict; what it is told of a
\* conflict is the version the endpoint has read.
LEMMA CoresStep ==
    ASSUME IInv, TypeOK', SwitchInv, [Next]_vars
    PROVE  CoresInv'
<1> SUFFICES ASSUME NEW e \in Effect
             PROVE  /\ core'[e].phase \in Phase =>
                            IsMade(core'[e].item) /\ core'[e].copy.state # "conflict"
                    /\ core'[e].answer = "conflict" => core'[e].current \in 1 .. version
  <2>1. /\ version' \in Nat /\ version \in Nat /\ version <= version'
        /\ \A n \in Mutation : IsMade(n) => IsMade(n)'
    BY Forward DEF SwitchInv, IInv, TypeOK
  <2>2. \A e \in Effect : core'[e].phase \in Phase => core'[e].item \in Mutation
    BY Literals DEF TypeOK, AtRest, AtWork
  <2> QED BY <2>1, <2>2 DEF CoresInv, IsMade
<1> DEFINE Kept(f) == core'[f] = core[f] \/ core'[f] \in AtRest
<1>0. /\ core \in [Effect -> AtRest \cup AtWork] /\ TypeOK
      /\ \A c \in AtRest : c.phase \notin Phase /\ c.answer = "none"
  BY Literals DEF IInv, TypeOK, AtRest
<1>k. ASSUME Kept(e)
      PROVE  /\ core'[e].phase \in Phase =>
                     IsMade(core'[e].item) /\ core'[e].copy.state # "conflict"
             /\ core'[e].answer = "conflict" => core'[e].current \in 1 .. version
  BY <1>0, <1>k DEF SwitchInv, CoresInv
<1>1. ASSUME NEW f \in Effect, Put(f) \/ Recover(f)
      PROVE  Kept(e)
  BY <1>0, <1>1, StartedType DEF Put, Recover
<1>2. ASSUME NEW f \in Effect, Pick(f)
      PROVE  /\ core'[e].phase \in Phase =>
                     IsMade(core'[e].item) /\ core'[e].copy.state # "conflict"
             /\ core'[e].answer = "conflict" => core'[e].current \in 1 .. version
  <2>1. CASE f # e  BY <1>0, <1>2, <1>k, <2>1, PickDone
  <2>2. CASE f = e
    BY <1>0, <1>2, <2>2, PickDone DEF Runnable, SwitchInv, RowsInv
  <2> QED BY <2>1, <2>2
<1>3. ASSUME NEW f \in Effect, Mark(f) \/ Send(f)
      PROVE  /\ core'[e].phase \in Phase =>
                     IsMade(core'[e].item) /\ core'[e].copy.state # "conflict"
             /\ core'[e].answer = "conflict" => core'[e].current \in 1 .. version
  <2>1. CASE f # e  BY <1>0, <1>3, <1>k, <2>1, MarkDone, SendDone
  <2>2. CASE f = e
    <3>1. /\ core[e].phase \in Phase /\ core[e] \in AtWork
          /\ core' = [core EXCEPT ![e] = Idle]
             \/ \E p \in {"marked", "inflight"} :
                    core' = [core EXCEPT ![e] = [@ EXCEPT !.phase = p]]
      BY <1>0, <1>3, <2>2, Literals, Working DEF Mark, Send
    <3>2. CASE core' = [core EXCEPT ![e] = Idle]
      BY <1>0, <1>k, <3>2, Rows
    <3>3. ASSUME NEW p \in {"marked", "inflight"},
                 core' = [core EXCEPT ![e] = [@ EXCEPT !.phase = p]]
          PROVE  /\ core'[e].item = core[e].item /\ core'[e].copy = core[e].copy
                 /\ core'[e].answer = core[e].answer /\ core'[e].current = core[e].current
      BY <1>0, <3>1, <3>3 DEF AtWork
    <3> QED BY <3>1, <3>2, <3>3 DEF SwitchInv, CoresInv
  <2> QED BY <2>1, <2>2
<1>4. ASSUME NEW f \in Effect, Settle(f)
      PROVE  Kept(e)
  BY <1>0, <1>4, SettleDone
<1>5. ASSUME NEW f \in Effect, Rest(f)
      PROVE  Kept(e)
  BY <1>0, <1>5, Rows DEF Rest
<1>6. ASSUME NEW r \in requests, NEW a \in Answer, NEW v \in Nat, Reply(r, a, v),
             a = "conflict" => v \in 1 .. version
      PROVE  /\ core'[e].phase \in Phase =>
                     IsMade(core'[e].item) /\ core'[e].copy.state # "conflict"
             /\ core'[e].answer = "conflict" => core'[e].current \in 1 .. version
  <2>1. CASE r.core # e \/ r.core = NoEffect
    BY <1>0, <1>6, <1>k, <2>1, Replied, NoEffectAssumption DEF IInv
  <2>2. CASE r.core = e /\ r.core # NoEffect
    <3>1. /\ core[e] \in AtWork /\ core[e].phase \in Phase
          /\ core'[e].answer = a /\ core'[e].item = core[e].item
          /\ core'[e].copy = core[e].copy
      BY <1>0, <1>6, <2>2, Replied, Working DEF IInv
    <3>2. core'[e].current = v
      BY <1>0, <1>6, <2>2, <3>1 DEF Reply, AtWork
    <3> QED BY <1>6, <3>1, <3>2 DEF SwitchInv, CoresInv
  <2> QED BY <2>1, <2>2
<1>7. ASSUME NEW r \in requests, Read(r) \/ Commit(r) \/ Refuse(r)
      PROVE  \/ core' = core
             \/ \E a \in Answer, v \in Nat :
                    Reply(r, a, v) /\ (a = "conflict" => v \in 1 .. version)
  <2>0. /\ version \in Nat /\ version # 0 /\ r.read \in Nat
        /\ receipt[r.item].version \in Nat /\ 0 \in Nat
        /\ \A a \in {"success", "conflict", "permanent", "auth"} : a \in Answer
    BY <1>0, Literals DEF TypeOK, Request
  <2>1. CASE ByReceipt(r)
    BY <2>0, <2>1 DEF ByReceipt
  <2>2. CASE Reply(r, "conflict", version)
    BY <2>0, <2>2
  <2>3. CASE \E v \in {r.read, version + 1} : Reply(r, "success", v)
    BY <2>0, <2>3
  <2>4. CASE Reply(r, "auth", 0)
    BY <2>0, <2>4
  <2> QED BY <1>7, <2>1, <2>2, <2>3, <2>4 DEF Read, Commit, Refuse
<1>8. ASSUME NEW r \in requests, Lose(r)
      PROVE  /\ core'[e].phase \in Phase =>
                     IsMade(core'[e].item) /\ core'[e].copy.state # "conflict"
             /\ core'[e].answer = "conflict" => core'[e].current \in 1 .. version
  <2>1. CASE r.core # e
    BY <1>0, <1>8, <1>k, <2>1, LoseDone DEF IInv
  <2>2. CASE r.core = e
    <3>1. core[e].phase \in Phase
      BY <1>0, <1>8, <2>2, LoseDone, Working DEF IInv
    <3> QED BY <1>0, <1>8, <2>2, <3>1, LoseDone DEF IInv, SwitchInv, CoresInv
  <2> QED BY <2>1, <2>2
<1>9. CASE Kill
  BY <1>0, <1>9, <1>k, Rows DEF Kill
<1>10. \/ core' = core
       \/ Kill
       \/ \E f \in Effect : \/ Put(f) \/ Recover(f) \/ Pick(f) \/ Mark(f) \/ Send(f)
                            \/ Settle(f) \/ Rest(f)
       \/ \E r \in requests : Read(r) \/ Commit(r) \/ Refuse(r) \/ Lose(r)
  BY DEF Next, vars, clientVars, Run, Tapped, Serve, Mount, Unmount, Disable, Enable,
     SignOut, Choose, Resolve, RemoveResolved, Elapse, OtherDevice
<1> QED BY <1>k, <1>1, <1>2, <1>3, <1>4, <1>5, <1>6, <1>7, <1>8, <1>9, <1>10

\* A tap is made before it is put, and it puts a row that waits to be sent.
LEMMA TapsStep ==
    ASSUME IInv, TypeOK', SwitchInv, [Next]_vars
    PROVE  TapsInv'
<1> DEFINE Fine(t) == /\ t.step # "none" => /\ base'[t.item] # 0 /\ t.item \in Mutation
                                            /\ base'[t.fresh] # 0 /\ t.fresh \in Mutation
                      /\ t.step = "put" => t.copy.state = "pending"
<1>0. /\ TypeOK /\ \A m \in Mutation : IsMade(m) => base'[m] # 0
      /\ choices \in Nat
  BY Forward, MaxChoicesAssumption DEF IInv, TypeOK, SwitchInv, IsMade
<1> SUFFICES ASSUME NEW e \in Effect PROVE Fine(tap'[e])
  BY DEF TapsInv, IsMade
<1>k. ASSUME tap'[e] = tap[e] \/ tap'[e] = NoTap PROVE Fine(tap'[e])
  <2>1. CASE tap'[e].step = "none"
    BY <2>1
  <2>2. CASE tap'[e].step # "none"
    <3>1. tap'[e] = tap[e] /\ tap[e] \in Tapping
      BY <1>0, <1>k, <2>2 DEF TypeOK, NoTap
    <3> QED BY <1>0, <2>2, <3>1 DEF SwitchInv, TapsInv, Tapping
  <2> QED BY <2>1, <2>2
<1>1. ASSUME NEW f \in Effect, NEW turn \in Turned, Choose(f, turn)
      PROVE  Fine(tap'[e])
  <2>1. CASE f # e
    BY <1>1, <1>k, <2>1, ChooseDone
  <2>2. CASE f = e
    <3> DEFINE Puts(m, w) ==
                 /\ tap'[e] = [step |-> "put", item |-> m, fresh |-> m, copy |-> w]
                 /\ w.state = "pending" /\ base'[m] # 0
    <3>1. \E m \in Mutation, w \in Row : Puts(m, w)
      <4>1. ASSUME NEW m \in Newest(Unsent), UNCHANGED base,
                   Begin(f, "put", m, m, [row[m] EXCEPT !.desired = turn.desired,
                                                        !.state = "pending"])
            PROVE  \E n \in Mutation, w \in Row : Puts(n, w)
        <5> DEFINE w == [row[m] EXCEPT !.desired = turn.desired, !.state = "pending"]
        <5>1. m \in Mutation /\ row[m] \in Row /\ row[m].state # "new"
          BY <1>0 DEF Newest, Unsent, TypeOK
        <5>2. base'[m] # 0
          BY <1>0, <5>1 DEF SwitchInv, RowsInv
        <5>3. w \in Row /\ w.state = "pending"
          BY <1>0, <5>1, Turn, Desired
        <5>4. tap'[e] = [step |-> "put", item |-> m, fresh |-> m, copy |-> w]
          BY <1>0, <2>2, <4>1 DEF Begin, TypeOK
        <5> HIDE DEF w
        <5> QED BY <5>1, <5>2, <5>3, <5>4
      <4>2. ASSUME base' = [base EXCEPT ![choices + 1] = turn.base],
                   Begin(f, "put", choices + 1, choices + 1,
                         [NewRow EXCEPT !.desired = turn.desired, !.state = "pending"])
            PROVE  \E n \in Mutation, w \in Row : Puts(n, w)
        <5> DEFINE w == [NewRow EXCEPT !.desired = turn.desired, !.state = "pending"]
        <5>1. choices + 1 \in Mutation
          BY <1>0, <4>2, NextChoice DEF Begin
        <5>2. base'[choices + 1] # 0
          BY <1>0, <4>2, <5>1, TurnHad DEF SwitchInv, TypeOK
        <5>3. w \in Row /\ w.state = "pending"
          BY <1>0, Turn, Desired, Rows
        <5>4. tap'[e] = [step |-> "put", item |-> choices + 1, fresh |-> choices + 1,
                         copy |-> w]
          BY <1>0, <2>2, <4>2 DEF Begin, TypeOK
        <5> HIDE DEF w
        <5> QED BY <5>1, <5>2, <5>3, <5>4
      <4> QED BY <1>1, <4>1, <4>2 DEF Choose
    <3> QED BY <1>0, <3>1 DEF TypeOK
  <2> QED BY <2>1, <2>2
<1>2. ASSUME NEW f \in Effect, Resolve(f)
      PROVE  Fine(tap'[e])
  <2>1. CASE f # e
    BY <1>2, <1>k, <2>1, ResolveDone
  <2>2. CASE f = e
    <3>1. PICK m \in Newest(Latest) :
            /\ row[m].state = "conflict"
            /\ \/ Begin(e, "drop", m, m, row[m]) /\ UNCHANGED base
               \/ /\ Begin(e, "renew", m, choices + 1, row[m])
                  /\ base' = [base EXCEPT ![choices + 1] = row[m].conflictCurrent]
      BY <1>2, <2>2 DEF Resolve
    <3>2. m \in Mutation /\ base'[m] # 0 /\ row[m].conflictCurrent # 0
      BY <1>0, <3>1 DEF Newest, Latest, SwitchInv, RowsInv
    <3>3. CASE Begin(e, "drop", m, m, row[m])
      <4>1. tap'[e] = [step |-> "drop", item |-> m, fresh |-> m, copy |-> row[m]]
        BY <1>0, <3>3 DEF Begin, TypeOK
      <4> QED BY <3>2, <4>1
    <3>4. CASE /\ Begin(e, "renew", m, choices + 1, row[m])
               /\ base' = [base EXCEPT ![choices + 1] = row[m].conflictCurrent]
      <4>1. choices + 1 \in Mutation
        BY <1>0, <3>4, NextChoice DEF Begin
      <4>2. tap'[e] = [step |-> "renew", item |-> m, fresh |-> choices + 1, copy |-> row[m]]
        BY <1>0, <3>4 DEF Begin, TypeOK
      <4>3. base'[choices + 1] # 0
        BY <1>0, <3>2, <3>4, <4>1 DEF TypeOK
      <4> QED BY <3>2, <4>1, <4>2, <4>3
    <3> QED BY <3>1, <3>3, <3>4
  <2> QED BY <2>1, <2>2
<1>3. ASSUME NEW f \in Effect, RemoveResolved(f)
      PROVE  Fine(tap'[e])
  <2>1. CASE f # e \/ tap[f].step = "drop"
    <3>1. tap'[e] = tap[e] \/ tap'[e] = NoTap
      BY <1>0, <1>3, <2>1 DEF RemoveResolved, TypeOK
    <3> QED BY <3>1, <1>k
  <2>2. CASE f = e /\ tap[f].step # "drop"
    <3> DEFINE w == [NewRow EXCEPT !.desired = tap[e].copy.desired, !.state = "pending"]
    <3>1. tap'[e] = [step |-> "put", item |-> tap[e].fresh, fresh |-> tap[e].fresh,
                     copy |-> w]
      BY <1>0, <1>3, <2>2 DEF RemoveResolved, TypeOK
    <3>2. tap[e] \in Tapping /\ IsMade(tap[e].fresh)
      BY <1>0, <1>3, <2>2 DEF RemoveResolved, TypeOK, NoTap, SwitchInv, TapsInv
    <3>3. w.state = "pending"
      BY <3>2, Desired, Rows DEF Tapping, Row
    <3>4. tap[e].fresh \in Mutation /\ base'[tap[e].fresh] # 0
      BY <1>0, <3>2 DEF Tapping
    <3> HIDE DEF w
    <3> QED BY <3>1, <3>3, <3>4
  <2> QED BY <2>1, <2>2
<1>4. ASSUME NEW f \in Effect, Put(f)
      PROVE  Fine(tap'[e])
  <2>1. tap'[e] = tap[e] \/ tap'[e] = NoTap
    BY <1>0, <1>4 DEF Put, TypeOK
  <2> QED BY <2>1, <1>k
<1>5. CASE Kill
  BY <1>5, <1>k DEF Kill
<1>6. CASE tap' = tap
  BY <1>6, <1>k
<1>7. \/ tap' = tap
      \/ Kill
      \/ \E f \in Effect : \/ Resolve(f) \/ RemoveResolved(f) \/ Put(f)
                           \/ \E turn \in Turned : Choose(f, turn)
  BY DEF Next, vars, clientVars, Run, Tapped, Serve, Mount, Unmount, Disable, Enable,
     SignOut, Recover, Pick, Rest, Mark, Send, Settle, Elapse, Read, Commit, Refuse,
     Lose, OtherDevice
<1> QED BY <1>1, <1>2, <1>3, <1>4, <1>5, <1>6, <1>7

\* A core sends what it holds, and a transaction compares the value with the one
\* of the version it has read.
LEMMA AsksStep ==
    ASSUME IInv, TypeOK', SwitchInv, [Next]_vars
    PROVE  AsksInv'
<1> DEFINE Same(x, r) == /\ x.item = r.item /\ x.desired = r.desired
                         /\ x.read = r.read /\ x.same = r.same
           Fine(x) == /\ IsMade(x.item)
                      /\ x.read # 0 => (x.same <=> (ValueAt(x.read) = x.desired))
<1>0. /\ TypeOK /\ \A m \in Mutation : IsMade(m) => base'[m] # 0
      /\ \A x \in requests' : x.item \in Mutation
  BY Forward DEF IInv, TypeOK, SwitchInv, IsMade, Request
<1> SUFFICES ASSUME NEW x \in requests' PROVE Fine(x)
  BY <1>0 DEF AsksInv, IsMade
<1>k. ASSUME NEW r \in requests, Same(x, r) PROVE Fine(x)
  BY <1>k DEF SwitchInv, AsksInv
<1>1. ASSUME NEW e \in Effect, Send(e)
      PROVE  Fine(x)
  <2>1. CASE x \in requests
    BY <1>k, <2>1
  <2>2. CASE x \notin requests
    <3>1. x.item = core[e].item /\ x.read = 0
      BY <1>1, <2>2 DEF Send
    <3>2. core[e].phase \in Phase
      BY <1>1, Literals DEF Send
    <3> QED BY <3>1, <3>2 DEF SwitchInv, CoresInv
  <2> QED BY <2>1, <2>2
<1>2. ASSUME NEW r \in requests, Read(r)
      PROVE  Fine(x)
  <2>1. CASE x \in requests
    BY <1>k, <2>1
  <2>2. CASE x \notin requests
    <3>1. x = [r EXCEPT !.read = version, !.same = (value = r.desired)]
      BY <1>2, <2>2 DEF Read, ByReceipt, Reply
    <3>2. r \in Request
      BY <1>0 DEF TypeOK
    <3>3. /\ x.item = r.item /\ x.desired = r.desired /\ x.read = version
          /\ x.same <=> (value = r.desired)
      BY <3>1, <3>2 DEF Request
    <3> QED BY <3>3 DEF SwitchInv, AsksInv, ServerInv
  <2> QED BY <2>1, <2>2
<1>3. ASSUME NEW r \in requests, Commit(r) \/ Refuse(r)
      PROVE  x \in requests
  BY <1>3 DEF Commit, Refuse, ByReceipt, Reply
<1>4. ASSUME NEW r \in requests, Same(x, Detached(r))
      PROVE  Fine(x)
  <2>1. Same(x, r)
    BY <1>0, <1>4 DEF Detached, TypeOK, Request
  <2> QED BY <2>1, <1>k
<1>5. ASSUME NEW r \in requests, Lose(r)
      PROVE  Fine(x)
  BY <1>5, <1>k, <1>4 DEF Lose
<1>6. CASE Kill
  BY <1>6, <1>4 DEF Kill
<1>7. \/ requests' = requests
      \/ Kill
      \/ \E e \in Effect : Send(e)
      \/ \E r \in requests : Read(r) \/ Commit(r) \/ Refuse(r) \/ Lose(r)
  BY DEF Next, vars, clientVars, Run, Tapped, Serve, Mount, Unmount, Disable, Enable,
     SignOut, Choose, Resolve, RemoveResolved, Put, Recover, Pick, Rest, Mark, Settle,
     Elapse, OtherDevice
<1> QED BY <1>k, <1>1, <1>2, <1>3, <1>5, <1>6, <1>7

LEMMA SwitchInit == Init => SwitchInv
<1> SUFFICES ASSUME Init PROVE SwitchInv
  OBVIOUS
<1>1. value = ValueAt(version)
  <2>1. 1 % 2 # 0
    OBVIOUS
  <2> QED BY <2>1, Zenon DEF Init, ValueAt
<1>2. \A m \in Mutation : base[m] <= version /\ (m > choices => ~ IsMade(m))
  BY DEF Init, IsMade
<1>3. RowsInv
  BY Rows DEF Init, RowsInv
<1>4. CoresInv
  BY Literals DEF Init, CoresInv, Idle, Resting
<1>5. TapsInv /\ AsksInv
  BY DEF Init, TapsInv, AsksInv, NoTap
<1> QED BY <1>1, <1>2, <1>3, <1>4, <1>5 DEF SwitchInv, ServerInv

LEMMA SwitchStep == IInv /\ SwitchInv /\ [Next]_vars => SwitchInv'
<1> SUFFICES ASSUME IInv, SwitchInv, [Next]_vars PROVE SwitchInv'
  OBVIOUS
<1>1. TypeOK'
  BY TypeStep
<1> QED BY <1>1, ServerStep, RowsStep, CoresStep, TapsStep, AsksStep DEF SwitchInv

-----------------------------------------------------------------------------
(* Every step is one of VersionedSwitch, or none *)

\* Both modules mean the same value of a version.
LEMMA SameValues == \A v : Switch!ValueAt(v) = ValueAt(v)
  BY Zenon DEF Switch!ValueAt, ValueAt

\* What the outbox keeps follows the rows.
LEMMA KeptRows ==
    ASSUME NEW m \in Mutation, row' \in [Mutation -> Row],
           \A n \in Mutation : n # m => row'[n] = row[n]
    PROVE  /\ row'[m].state \in {"new", "gone"} => Latest' = Latest \ {m}
           /\ row'[m].state \notin {"new", "gone"} => Latest' = Latest \cup {m}
  BY DEF Latest, Stored

\* A row that is written is kept, one that is removed was stored.
LEMMA RowMaps ==
    ASSUME IInv, SwitchInv, UNCHANGED <<value, version, base, closed, receipt>>,
           NEW m \in Mutation, row' \in [Mutation -> Row],
           \A n \in Mutation : n # m => row'[n] = row[n],
           \/ row'[m] = row[m]
           \/ /\ IsMade(m) /\ row'[m].state # "new"
              /\ row'[m].state = "gone" => receipt[m].version # 0
    PROVE  [Switch!Next]_Switch!vars
<1>1. CASE row'[m] = row[m]
  <2>1. Latest' = Latest
    BY <1>1 DEF Latest, Stored
  <2> QED BY <2>1 DEF Switch!vars
<1>2. CASE IsMade(m) /\ row'[m].state \notin {"new", "gone"}
  <2>1. Latest' = Latest \cup {m}
    BY <1>2, KeptRows
  <2>2. Switch!Keep(m)
    BY <1>2, <2>1 DEF Switch!Keep, Switch!Made, IsMade
  <2> QED BY <2>2 DEF Switch!Next
<1>3. CASE row'[m].state = "gone" /\ receipt[m].version # 0
  <2>1. Latest' = Latest \ {m}
    BY <1>3, KeptRows
  <2>2. Switch!Forget(m)
    BY <1>3, <2>1 DEF Switch!Forget, Switch!Stored
  <2> QED BY <2>2 DEF Switch!Next
<1> QED BY <1>1, <1>2, <1>3

\* A core settles a row that is stored, or keeps it.
LEMMA CoreMaps ==
    ASSUME IInv, SwitchInv, NEW e \in Effect, Mark(e) \/ Send(e) \/ Settle(e)
    PROVE  [Switch!Next]_Switch!vars
<1>0. TypeOK /\ SuccessMeansStored /\ HeldInv
  BY DEF IInv
<1>1. UNCHANGED <<value, version, base, closed, receipt>>
  BY DEF Mark, Send, Settle, serverVars, choiceVars
<1>2. core[e] \in AtWork /\ core[e].item \in Mutation /\ IsMade(core[e].item)
  BY <1>0, Working, Literals DEF Mark, Send, Settle, SwitchInv, CoresInv
<1> DEFINE m == core[e].item
<1>3. /\ row' \in [Mutation -> Row] /\ \A n \in Mutation : n # m => row'[n] = row[n]
      /\ \/ row'[m] = row[m]
         \/ /\ row'[m].state # "new"
            /\ row'[m].state = "gone" => receipt[m].version # 0
  <2>1. CASE Mark(e)
    BY <1>0, <1>2, <2>1, MarkDone
  <2>2. CASE Send(e)
    <3>1. core[e].copy.state \notin {"new", "gone"}
      BY <1>0, <1>2, Working DEF HeldInv
    <3> QED BY <1>0, <1>2, <2>2, <3>1, SendDone
  <2>3. CASE Settle(e)
    <3>1. /\ RowAfter(core[e]).state # "new"
          /\ RowAfter(core[e]).state = "gone" => receipt[m].version # 0
      BY <1>0, <1>2, RowAfterType DEF SuccessMeansStored
    <3> QED BY <1>0, <1>2, <2>3, <3>1, SettleDone
  <2> QED BY <2>1, <2>2, <2>3
<1> QED BY <1>1, <1>2, <1>3, RowMaps

\* A tap makes a mutation of a version the preference has had.
LEMMA MakeMaps ==
    ASSUME IInv, SwitchInv, choices < MaxChoices, NEW v \in 1 .. version,
           base' = [base EXCEPT ![choices + 1] = v],
           UNCHANGED <<value, version, row, closed, receipt>>
    PROVE  [Switch!Next]_Switch!vars
<1>1. choices + 1 \in Mutation /\ choices + 1 > choices
  BY MaxChoicesAssumption DEF IInv, TypeOK, Mutation
<1>2. choices + 1 \notin Switch!Made
  BY <1>1 DEF Switch!Made, SwitchInv, ServerInv, IsMade
<1>3. Latest' = Latest
  BY DEF Latest, Stored
<1>4. Switch!Make(choices + 1)
  BY <1>2, <1>3 DEF Switch!Make
<1> QED BY <1>1, <1>4 DEF Switch!Next

LEMMA TapMaps ==
    ASSUME IInv, SwitchInv, NEW e \in Effect,
           \/ Resolve(e) \/ RemoveResolved(e) \/ Put(e)
           \/ \E turn \in Turned : Choose(e, turn)
    PROVE  [Switch!Next]_Switch!vars
<1>k. ASSUME UNCHANGED <<value, version, base, row, closed, receipt>>
      PROVE  [Switch!Next]_Switch!vars
  BY <1>k DEF Switch!vars, Latest, Stored
<1>1. ASSUME NEW turn \in Turned, Choose(e, turn)
      PROVE  [Switch!Next]_Switch!vars
  <2>1. /\ UNCHANGED <<value, version, row, closed, receipt>> /\ choices < MaxChoices
        /\ base' = base \/ base' = [base EXCEPT ![choices + 1] = turn.base]
    BY <1>1 DEF Choose, Begin, serverVars
  <2>2. turn.base \in 1 .. version
    BY TurnHad DEF SwitchInv
  <2> QED BY <1>k, <2>1, <2>2, MakeMaps
<1>2. CASE Resolve(e)
  <2>1. PICK m \in Newest(Latest) :
            /\ row[m].state = "conflict"
            /\ \/ UNCHANGED base
               \/ base' = [base EXCEPT ![choices + 1] = row[m].conflictCurrent]
    BY <1>2 DEF Resolve
  <2>2. UNCHANGED <<value, version, row, closed, receipt>> /\ choices < MaxChoices
    BY <1>2 DEF Resolve, Begin, serverVars
  <2>3. row[m].conflictCurrent \in 1 .. version
    BY <2>1 DEF Newest, Latest, SwitchInv, RowsInv
  <2> QED BY <1>k, <2>1, <2>2, <2>3, MakeMaps
<1>3. CASE RemoveResolved(e)
  <2> DEFINE m == tap[e].item
  <2>1. /\ m \in Mutation /\ row' = [row EXCEPT ![m] = Gone] /\ closed' = closed \cup {m}
        /\ UNCHANGED <<value, version, base, receipt>>
    BY <1>3, RemoveResolvedDone DEF serverVars
  <2>2. IsMade(m)
    BY <1>3 DEF RemoveResolved, SwitchInv, TapsInv
  <2>3. /\ row' \in [Mutation -> Row] /\ row'[m].state = "gone"
        /\ \A n \in Mutation : n # m => row'[n] = row[n]
    BY <2>1, Rows DEF IInv, TypeOK
  <2>4. Latest' = Latest \ {m}
    BY <2>1, <2>3, KeptRows
  <2>5. Switch!Close({m}) /\ {m} \in SUBSET Mutation
    BY <2>1, <2>2, <2>4 DEF Switch!Close, Switch!Made, IsMade
  <2> QED BY <2>5 DEF Switch!Next
<1>4. CASE Put(e)
  <2> DEFINE m == tap[e].item
  <2>1. tap[e].step = "put" /\ row' = [row EXCEPT ![m] = tap[e].copy]
    BY <1>4 DEF Put
  <2>2. m \in Mutation /\ tap[e].copy \in Row
    BY <2>1 DEF IInv, TypeOK, NoTap, Tapping
  <2>3. IsMade(m) /\ tap[e].copy.state = "pending"
    BY <2>1 DEF SwitchInv, TapsInv
  <2>4. /\ row' \in [Mutation -> Row] /\ row'[m].state = "pending"
        /\ \A n \in Mutation : n # m => row'[n] = row[n]
    BY <2>1, <2>2, <2>3 DEF IInv, TypeOK
  <2>5. UNCHANGED <<value, version, base, closed, receipt>>
    BY <1>4 DEF Put, choiceVars, serverVars
  <2> QED BY <2>2, <2>3, <2>4, <2>5, RowMaps
<1> QED BY <1>1, <1>2, <1>3, <1>4

\* The endpoint changes the version that was read, which is the one the mutation
\* was made for, or finds that the mutation agreed with it.
LEMMA CommitMaps ==
    ASSUME IInv, SwitchInv, NEW r \in requests, Commit(r)
    PROVE  [Switch!Next]_Switch!vars
<1> DEFINE m == r.item
<1>0. /\ m \in Mutation /\ r.desired \in BOOLEAN /\ value \in BOOLEAN /\ version \in Nat
      /\ r.read \in Nat /\ r.same \in BOOLEAN
  BY DEF IInv, TypeOK, Request
<1>1. /\ r.read = base[m] /\ IsMade(m)
      /\ r.same <=> (ValueAt(base[m]) = r.desired)
      /\ UNCHANGED <<row, base, closed>>
  BY DEF Commit, IInv, RequestInv, SwitchInv, AsksInv, choiceVars
<1>2. Latest' = Latest
  BY <1>1 DEF Latest, Stored
<1>3. CASE UNCHANGED serverVars
  BY <1>1, <1>2, <1>3 DEF serverVars, Switch!vars
<1>4. CASE /\ r.same /\ receipt[m].version = 0
           /\ UNCHANGED <<value, version>>
           /\ receipt' = [receipt EXCEPT ![m] = [desired |-> r.desired, version |-> r.read]]
  <2>1. r.desired = Switch!ValueAt(base[m])
    BY <1>1, <1>4, SameValues
  <2>2. Switch!Agree(m)
    BY <1>0, <1>1, <1>2, <1>4, <2>1 DEF Switch!Agree, Switch!Made, Switch!Stored, IsMade
  <2> QED BY <1>0, <2>2 DEF Switch!Next
<1>5. CASE /\ ~ r.same /\ Changes(r) /\ receipt[m].version = 0
           /\ value' = r.desired /\ version' = version + 1
           /\ receipt' = [receipt EXCEPT ![m] =
                  [desired |-> r.desired, version |-> version + 1]]
  <2>1. base[m] = version
    BY <1>1, <1>5 DEF Changes
  <2>2. ~ (value = r.desired)
    BY <1>1, <1>5, <2>1 DEF SwitchInv, ServerInv
  <2>3. r.desired = ~ value
    BY <1>0, <2>2, Zenon
  <2>4. Switch!Change(m)
    BY <1>0, <1>1, <1>2, <1>5, <2>1, <2>3
    DEF Switch!Change, Switch!Made, Switch!Stored, IsMade
  <2> QED BY <1>0, <2>4 DEF Switch!Next
<1> QED BY <1>0, <1>3, <1>4, <1>5 DEF Commit

LEMMA StepMapsSwitch ==
    ASSUME IInv, SwitchInv, [Next]_vars
    PROVE  [Switch!Next]_Switch!vars
<1>1. ASSUME UNCHANGED <<value, version, base, row, closed, receipt>>
      PROVE  [Switch!Next]_Switch!vars
  BY <1>1 DEF Switch!vars, Latest, Stored
<1>2. CASE SignOut
  <2>1. /\ closed' = closed \cup Latest /\ UNCHANGED <<value, version, base, receipt>>
    BY <1>2 DEF SignOut, Latest, serverVars
  <2>2. Latest' = Latest \ Latest
    BY <1>2, Rows DEF SignOut, Latest, Stored
  <2>3. Latest \subseteq Switch!Made /\ Latest \in SUBSET Mutation
    BY DEF Latest, Stored, Switch!Made, SwitchInv, RowsInv, IsMade
  <2>4. Switch!Close(Latest)
    BY <2>1, <2>2, <2>3 DEF Switch!Close
  <2> QED BY <2>3, <2>4 DEF Switch!Next
<1>3. ASSUME NEW e \in Effect, Recover(e)
      PROVE  [Switch!Next]_Switch!vars
  <2>1. row' = Recovered /\ UNCHANGED <<value, version, base, closed, receipt>>
    BY <1>3 DEF Recover, choiceVars, serverVars
  <2>2. Latest' = Latest
    BY <2>1, RecoveredType DEF Latest, Stored, IInv
  <2> QED BY <2>1, <2>2 DEF Switch!vars
<1>4. ASSUME NEW m \in Mutation, Elapse(m)
      PROVE  [Switch!Next]_Switch!vars
  <2>1. UNCHANGED <<value, version, base, closed, receipt>>
    BY <1>4 DEF Elapse, choiceVars, serverVars
  <2>2. /\ row' \in [Mutation -> Row] /\ \A n \in Mutation : n # m => row'[n] = row[n]
        /\ row'[m] = row[m] \/ row'[m].state = "due"
        /\ IsMade(m)
    BY <1>4, ElapseDone DEF IInv, SwitchInv, RowsInv
  <2> QED BY <2>1, <2>2, RowMaps
<1>5. CASE OtherDevice
  <2>1. /\ value' = ~ value /\ version' = version + 1
        /\ UNCHANGED <<base, row, closed, receipt>>
    BY <1>5 DEF OtherDevice, clientVars, choiceVars
  <2>2. Latest' = Latest
    BY <2>1 DEF Latest, Stored
  <2>3. Switch!ElsewhereChanged
    BY <2>1, <2>2 DEF Switch!ElsewhereChanged
  <2> QED BY <2>3 DEF Switch!Next
<1>6. \/ UNCHANGED <<value, version, base, row, closed, receipt>>
      \/ SignOut
      \/ \E e \in Effect : Recover(e)
      \/ \E e \in Effect : Mark(e) \/ Send(e) \/ Settle(e)
      \/ \E e \in Effect : \/ Resolve(e) \/ RemoveResolved(e) \/ Put(e)
                           \/ \E turn \in Turned : Choose(e, turn)
      \/ \E r \in requests : Commit(r)
      \/ \E m \in Mutation : Elapse(m)
      \/ OtherDevice
  BY DEF Next, vars, clientVars, choiceVars, serverVars, Run, Tapped, Serve, Mount,
     Unmount, Disable, Enable, Kill, Pick, Rest, Read, Refuse, Lose
<1> QED BY <1>1, <1>2, <1>3, <1>4, <1>5, <1>6, CoreMaps, TapMaps, CommitMaps

LEMMA InitMapsSwitch == Init => Switch!Init
<1> SUFFICES ASSUME Init PROVE Switch!Init
  OBVIOUS
<1>1. value = Switch!ValueAt(1)
  BY SwitchInit, SameValues DEF Init, SwitchInv, ServerInv
<1>2. Latest = {}
  BY Rows DEF Init, Latest, Stored
<1> QED BY <1>1, <1>2 DEF Init, Switch!Init, NoReceipt

\* The outbox and the endpoint keep what VersionedSwitch states, for every number
\* of choices, effects, troubles and changes elsewhere (outboxCore.ts:69-102,
\* router.py:79-166).
THEOREM SwitchKeepsPromise == Spec => ImplementsSwitch
<1>1. Spec => [](IInv /\ SwitchInv)
  BY InitInv, InvStep, SwitchInit, SwitchStep, PTL DEF Spec
<1>2. IInv /\ SwitchInv /\ [Next]_vars => [Switch!Next]_Switch!vars
  BY StepMapsSwitch
<1> QED BY <1>1, <1>2, InitMapsSwitch, PTL DEF Spec, ImplementsSwitch, Switch!Spec
=============================================================================
