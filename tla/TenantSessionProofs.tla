------------------------- MODULE TenantSessionProofs ------------------------
(***************************************************************************)
(* Proofs about TenantSession, for any number of clients, calls and troubles.*)
(***************************************************************************)
EXTENDS TenantSession, TLAPS

\* What is idle holds nothing; what is under way has a client that is in use.
HeldInv ==
    /\ \A c \in Call : IF call[c].phase = "idle" THEN call[c] = NoCall
                       ELSE call[c].client \in Client
    /\ IF flight.phase = "none" THEN flight = NoFlight ELSE flight.client \in Client

\* What the flight waits for in the queue: one write at most, of its rotated
\* token or of the account it clears.
FlightWrite(w) == w.kind \in {"rotate", "clear"}
Matches(w, f) ==
    /\ w.kind = "rotate" => w.token = f.got /\ f.phase = "committing"
    /\ w.kind = "clear" => f.phase = "clearing"

QueueInv ==
    /\ writing => queue # <<>>
    /\ \A i \in DOMAIN queue : Matches(queue[i], flight)
    /\ \A i, j \in DOMAIN queue : FlightWrite(queue[i]) /\ FlightWrite(queue[j]) => i = j

\* AuthProvider shows the account of the registry, unless it is being removed,
\* and a client in use has a token.
AccountInv ==
    /\ stored # NoToken => account \in {NoToken, stored}
    /\ \A k \in Client : InUse(k) => client[k].token # NoToken

Rotating == flight.phase \in {"rotated", "committing"}

\* Unless a rotated token was lost, the registry and the access token are those
\* of the last rotation, except while that rotation is being committed.
RotationInv ==
    /\ Rotating => flight.got = generation /\ ~ aged
    /\ access <= generation
    /\ ~ Rotating /\ ~ lost =>
            stored \in {NoToken, generation} /\ access \in {NoToken, generation}

\* A call with the current access token is refused for its age or the session.
CallInv ==
    \A c \in Call :
        /\ call[c].used <= generation
        /\ call[c].phase = "refused" /\ call[c].used = generation /\ ended = "no" => aged

\* When the access token is too old, the account shown and every client there
\* is have the current refresh token.
AgedInv ==
    aged /\ ~ lost =>
        /\ account \in {NoToken, generation}
        /\ \A k \in Client : client[k].token \in {NoToken, generation}

\* What the flight shows the server is current.
PostedInv ==
    flight.phase = "posted" /\ ended = "no" /\ ~ lost /\ ~ blind =>
        flight.token = generation

\* The inductive invariant.  ReuseHasACause needs PostedInv, PostedInv needs to
\* know of every refused call that its client is current: AgedInv and CallInv.
IInv ==
    /\ TypeOK
    /\ HeldInv
    /\ QueueInv
    /\ AccountInv
    /\ RotationInv
    /\ CallInv
    /\ AgedInv
    /\ PostedInv
    /\ ReuseHasACause
    /\ PublishedIsStored

-----------------------------------------------------------------------------
(* The invariant is inductive *)

\* The values the actions write belong to their types.
LEMMA Literals ==
    /\ \A p \in {"idle", "sent", "refused", "leading", "waiting"} : p \in CallPhase
    /\ \A p \in {"none", "posted", "rotated", "failed", "committing", "clearing", "removing"} :
            p \in FlightPhase
    /\ NoToken \in Token /\ Token = Nat /\ NoToken = 0
  BY DEF CallPhase, FlightPhase, Token, NoToken

LEMMA Idles ==
    /\ NoCall \in CallRecord /\ NoCall.phase = "idle" /\ NoCall.client = NoClient
    /\ NoCall.used = NoToken
    /\ NoFlight \in FlightRecord /\ NoFlight.phase = "none" /\ NoFlight.client = NoClient
    /\ NoFlight.token = NoToken /\ NoFlight.got = NoToken
    /\ NoClients \in [Client -> ClientRecord]
    /\ \A k \in Client : NoClients[k].token = NoToken
  BY Literals DEF NoCall, NoFlight, NoClients, CallRecord, FlightRecord, ClientRecord

LEMMA TroubleType ==
    ASSUME troubles \in 0 .. MaxTroubles, Trouble
    PROVE  troubles' \in 0 .. MaxTroubles
  BY MaxTroublesAssumption DEF Trouble

LEMMA NewClientType ==
    ASSUME TypeOK, NEW t \in Token
    PROVE  /\ NewClient(t, gate) \in ClientRecord
           /\ NewClient(t, gate).token = t
  BY DEF TypeOK, GateRecord, NewClient, ClientRecord

\* A write that is appended to the queue is its last.
LEMMA Appended ==
    ASSUME TypeOK, NEW w \in Write, queue' = Append(queue, w)
    PROVE  /\ queue' \in Seq(Write) /\ queue' # <<>>
           /\ \A i \in DOMAIN queue' :
                \/ i \in DOMAIN queue /\ queue'[i] = queue[i]
                \/ i = Len(queue) + 1 /\ queue'[i] = w
  BY DEF TypeOK

\* The first write leaves the queue.
LEMMA Popped ==
    ASSUME TypeOK, queue # <<>>, queue' = Tail(queue)
    PROVE  /\ queue' \in Seq(Write)
           /\ Head1 \in Write /\ 1 \in DOMAIN queue
           /\ \A i \in DOMAIN queue' :
                /\ i \in Nat /\ i + 1 \in DOMAIN queue /\ i + 1 # 1
                /\ queue'[i] = queue[i + 1]
  BY DEF TypeOK, Head1

\* The fields of the head of the queue.
LEMMA HeadType ==
    ASSUME TypeOK, queue # <<>>
    PROVE  /\ Head1 \in Write /\ 1 \in DOMAIN queue /\ Head1 = queue[1]
           /\ Head1.token \in Token /\ Head1.epoch \in Nat /\ Head1.revision \in Nat
           /\ Head1.kind \in {"rotate", "clear", "signOut", "descriptor"}
<1>1. Head1 \in Write /\ 1 \in DOMAIN queue /\ Head1 = queue[1]
  BY DEF TypeOK, Head1
<1> QED BY <1>1 DEF Write

\* The queue keeps QueueInv when it loses its head, and holds no other write of
\* the flight behind one.
LEMMA PoppedInv ==
    ASSUME TypeOK, QueueInv, queue # <<>>, queue' = Tail(queue)
    PROVE  /\ \A i, j \in DOMAIN queue' :
                FlightWrite(queue'[i]) /\ FlightWrite(queue'[j]) => i = j
           /\ \A i \in DOMAIN queue' : Matches(queue'[i], flight)
           /\ FlightWrite(Head1) => \A i \in DOMAIN queue' : ~ FlightWrite(queue'[i])
  BY Popped, HeadType DEF QueueInv

LEMMA AppendedInv ==
    ASSUME TypeOK, QueueInv, NEW w \in Write, queue' = Append(queue, w),
           ~ FlightWrite(w)
    PROVE  /\ \A i, j \in DOMAIN queue' :
                FlightWrite(queue'[i]) /\ FlightWrite(queue'[j]) => i = j
           /\ \A i \in DOMAIN queue' : Matches(queue'[i], flight)
  BY Appended DEF QueueInv, Matches, FlightWrite

\* A queue without writes of the flight suits every flight.
LEMMA NoFlightWrite ==
    ASSUME NEW q, \A i \in DOMAIN q : ~ FlightWrite(q[i])
    PROVE  /\ \A i \in DOMAIN q : q[i].kind # "rotate" /\ q[i].kind # "clear"
           /\ \A i \in DOMAIN q : \A f : Matches(q[i], f)
  BY DEF FlightWrite, Matches

\* The queue holds none while the flight does not wait for one.
LEMMA Unqueued ==
    ASSUME TypeOK, flight.phase # "committing", flight.phase # "clearing"
    PROVE  \A i \in DOMAIN queue : ~ FlightWrite(queue[i])
  BY DEF TypeOK, FlightWrite

\* A call that is made again has its client and the token it is given.
LEMMA RepeatedType ==
    ASSUME TypeOK, NEW c \in Call, NEW t \in Token
    PROVE  /\ Repeated(c, t) \in CallRecord
           /\ \/ Repeated(c, t) = NoCall
              \/ /\ Repeated(c, t).phase = "sent" /\ Repeated(c, t).used = t
                 /\ Repeated(c, t).client = call[c].client
<1> DEFINE d == [call[c] EXCEPT !.phase = "sent", !.used = t, !.retried = TRUE]
<1>1. call[c] \in CallRecord
  BY DEF TypeOK
<1>2. d \in CallRecord /\ d.phase = "sent" /\ d.used = t /\ d.client = call[c].client
  BY <1>1, Literals DEF CallRecord
<1>3. Repeated(c, t) = d \/ Repeated(c, t) = NoCall
  BY DEF Repeated
<1> HIDE DEF d
<1> QED BY <1>2, <1>3, Idles

\* When a flight ends in an error, the calls that needed it end.
LEMMA Errored ==
    ASSUME TypeOK, FlightEndsInError
    PROVE  /\ flight' = NoFlight /\ call' \in [Call -> CallRecord]
           /\ \A c \in Call : call'[c].phase \notin {"leading", "waiting"}
           /\ \A c \in Call : call'[c] = call[c] \/ call'[c] = NoCall
<1>1. \A c \in Call : call[c] \in CallRecord
  BY DEF TypeOK
<1>2. flight' = NoFlight
      /\ call' = [c \in Call |-> IF Needs(c) THEN NoCall ELSE call[c]]
  BY DEF FlightEndsInError, AfterError
<1> QED BY <1>1, <1>2, Idles DEF Needs

LEMMA Succeeded ==
    ASSUME TypeOK, NEW t \in Token, call' = AfterSuccess(t)
    PROVE  /\ call' \in [Call -> CallRecord]
           /\ \A c \in Call : call'[c].phase \notin {"leading", "waiting"}
           /\ \A c \in Call :
                \/ call'[c] = call[c] \/ call'[c] = NoCall
                \/ /\ call'[c].phase = "sent" /\ call'[c].used = t
                   /\ call[c].phase # "idle" /\ call'[c].client = call[c].client
<1>1. ASSUME NEW c \in Call
      PROVE  /\ call'[c] \in CallRecord /\ call'[c].phase \notin {"leading", "waiting"}
             /\ \/ call'[c] = call[c] \/ call'[c] = NoCall
                \/ /\ call'[c].phase = "sent" /\ call'[c].used = t
                   /\ call[c].phase # "idle" /\ call'[c].client = call[c].client
  <2>1. call'[c] = IF Needs(c) THEN Repeated(c, t) ELSE call[c]
    BY DEF AfterSuccess
  <2>2. call[c] \in CallRecord
    BY DEF TypeOK
  <2>3. CASE Needs(c)
    <3>1. call[c].phase # "idle"
      BY <2>3 DEF Needs
    <3> QED BY <2>1, <2>3, <3>1, RepeatedType, Idles
  <2>4. CASE ~ Needs(c)
    BY <2>1, <2>2, <2>4 DEF Needs
  <2> QED BY <2>3, <2>4
<1>2. call' = [c \in Call |-> IF Needs(c) THEN Repeated(c, t) ELSE call[c]]
  BY DEF AfterSuccess
<1>3. call' \in [Call -> CallRecord]
  BY <1>1, <1>2
<1> QED BY <1>1, <1>3

\* The flight goes on to its next phase.
LEMMA FlightPhased ==
    ASSUME TypeOK, NEW p \in FlightPhase, NEW g \in Token
    PROVE  /\ LET f == [flight EXCEPT !.phase = p] IN
                /\ f \in FlightRecord /\ f.phase = p /\ f.client = flight.client
                /\ f.token = flight.token /\ f.got = flight.got
           /\ LET f == [flight EXCEPT !.phase = p, !.got = g] IN
                /\ f \in FlightRecord /\ f.phase = p /\ f.client = flight.client
                /\ f.token = flight.token /\ f.got = g
<1>1. flight \in FlightRecord
  BY DEF TypeOK
<1> QED BY <1>1 DEF FlightRecord

\* When its promise is rejected, the calls that wait for it end.
LEMMA Failed ==
    ASSUME TypeOK, FlightFails
    PROVE  /\ flight' \in FlightRecord /\ flight'.client = flight.client
           /\ flight'.phase = "failed"
           /\ call' \in [Call -> CallRecord]
           /\ \A c \in Call : call'[c] = call[c] \/ call'[c] = NoCall
<1>1. flight.got \in Token
  BY DEF TypeOK, FlightRecord
<1>2. /\ flight' \in FlightRecord /\ flight'.client = flight.client
      /\ flight'.phase = "failed"
  BY <1>1, FlightPhased, Literals DEF FlightFails
<1>3. call' = [c \in Call |-> IF call[c].phase = "waiting" THEN NoCall ELSE call[c]]
  BY DEF FlightFails
<1>4. \A c \in Call : call[c] \in CallRecord
  BY DEF TypeOK
<1> QED BY <1>2, <1>3, <1>4, Idles

LEMMA RenderDone ==
    ASSUME TypeOK, NEW k \in Client, Render(k)
    PROVE  /\ UNCHANGED <<serverVars, running, registryVars, access, account, gateVars,
                          call, flight, historyVars>>
           /\ troubles' \in 0 .. MaxTroubles
           /\ client' \in [Client -> ClientRecord] /\ client'[k].token = account
           /\ \A l \in Client : l # k => client'[l] = client[l]
           /\ shown' = k /\ account # NoToken /\ ~ InUse(k)
<1>1. client' = [client EXCEPT ![k] = NewClient(account, gate)]
  BY DEF Render
<1>2. NewClient(account, gate) \in ClientRecord /\ NewClient(account, gate).token = account
  BY NewClientType DEF TypeOK
<1>3. /\ client' \in [Client -> ClientRecord] /\ client'[k].token = account
      /\ \A l \in Client : l # k => client'[l] = client[l]
  BY <1>1, <1>2 DEF TypeOK
<1>4. troubles' \in 0 .. MaxTroubles
  BY TroubleType DEF Render, TypeOK
<1>5. /\ UNCHANGED <<serverVars, running, registryVars, access, account, gateVars,
                     call, flight, historyVars>>
      /\ shown' = k /\ account # NoToken /\ ~ InUse(k)
  BY DEF Render, Unused
<1> QED BY <1>3, <1>4, <1>5

LEMMA BeginDone ==
    ASSUME TypeOK, NEW c \in Call, Begin(c)
    PROVE  /\ UNCHANGED <<serverVars, running, registryVars, access, account, gateVars,
                          flight, client, shown, historyVars, troubles>>
           /\ call' \in [Call -> CallRecord] /\ call[c] = NoCall
           /\ call'[c].phase = "sent" /\ call'[c].used = access
           /\ call'[c].client \in Client /\ client[call'[c].client].token # NoToken
           /\ \A d \in Call : d # c => call'[d] = call[d]
<1> DEFINE n(k) == [phase |-> "sent", client |-> k, used |-> access, retried |-> FALSE]
<1>1. PICK k \in Client : client[k].token # NoToken /\ call' = [call EXCEPT ![c] = n(k)]
  BY DEF Begin
<1>2. /\ UNCHANGED <<serverVars, running, registryVars, access, account, gateVars,
                     flight, client, shown, historyVars, troubles>>
      /\ call[c] = NoCall
  BY DEF Begin
<1>3. n(k) \in CallRecord /\ n(k).phase = "sent" /\ n(k).client = k /\ n(k).used = access
  BY Literals DEF CallRecord, TypeOK
<1> HIDE DEF n
<1>4. /\ call' \in [Call -> CallRecord] /\ call'[c] = n(k)
      /\ \A d \in Call : d # c => call'[d] = call[d]
  BY <1>1, <1>3 DEF TypeOK
<1> QED BY <1>1, <1>2, <1>3, <1>4

LEMMA ServeDone ==
    ASSUME TypeOK, NEW c \in Call, Serve(c)
    PROVE  /\ UNCHANGED <<serverVars, running, registryVars, access, account, gateVars,
                          flight, client, shown, historyVars, troubles>>
           /\ call' \in [Call -> CallRecord] /\ call[c].phase = "sent"
           /\ \A d \in Call : d # c => call'[d] = call[d]
           /\ \/ call'[c] = NoCall
              \/ /\ call'[c].phase = "refused" /\ call'[c].client = call[c].client
                 /\ call'[c].used = call[c].used /\ ~ Valid(call[c].used)
<1> DEFINE n == [call[c] EXCEPT !.phase = "refused"]
           m == IF Valid(call[c].used) THEN NoCall ELSE n
<1>1. n \in CallRecord /\ n.phase = "refused" /\ n.client = call[c].client /\ n.used = call[c].used
  BY Literals DEF TypeOK, CallRecord
<1>2. /\ UNCHANGED <<serverVars, running, registryVars, access, account, gateVars,
                     flight, client, shown, historyVars, troubles>>
      /\ call[c].phase = "sent" /\ call' = [call EXCEPT ![c] = m]
  BY DEF Serve
<1> HIDE DEF n
<1>3. m \in CallRecord /\ (m = NoCall \/ (m = n /\ ~ Valid(call[c].used)))
  BY <1>1, Idles
<1> HIDE DEF m
<1>4. /\ call' \in [Call -> CallRecord] /\ call'[c] = m
      /\ \A d \in Call : d # c => call'[d] = call[d]
  BY <1>2, <1>3 DEF TypeOK
<1> QED BY <1>1, <1>2, <1>3, <1>4

LEMMA CallFailsDone ==
    ASSUME TypeOK, NEW c \in Call, CallFails(c)
    PROVE  /\ UNCHANGED <<serverVars, running, registryVars, access, account, gateVars,
                          flight, client, shown, historyVars>>
           /\ troubles' \in 0 .. MaxTroubles
           /\ call' \in [Call -> CallRecord] /\ call'[c] = NoCall
           /\ \A d \in Call : d # c => call'[d] = call[d]
<1>1. troubles' \in 0 .. MaxTroubles
  BY TroubleType DEF CallFails, TypeOK
<1>2. /\ call' \in [Call -> CallRecord] /\ call'[c] = NoCall
      /\ \A d \in Call : d # c => call'[d] = call[d]
  BY Idles DEF CallFails, TypeOK
<1>3. UNCHANGED <<serverVars, running, registryVars, access, account, gateVars,
                  flight, client, shown, historyVars>>
  BY DEF CallFails
<1> QED BY <1>1, <1>2, <1>3

LEMMA PostedType ==
    ASSUME TypeOK, HeldInv, NEW c \in Call, call[c].phase = "refused"
    PROVE  /\ Posted(c) \in FlightRecord /\ Posted(c) # NoFlight
           /\ call[c].client \in Client
           /\ \/ Posted(c) = flight /\ flight # NoFlight
              \/ /\ flight = NoFlight /\ Posted(c).phase = "posted"
                 /\ Posted(c).client = call[c].client
                 /\ Posted(c).token = client[call[c].client].token
<1> DEFINE f == [phase |-> "posted", client |-> call[c].client,
                 token |-> client[call[c].client].token, got |-> NoToken]
<1>1. call[c].client \in Client
  BY DEF HeldInv
<1>2. client[call[c].client].token \in Token
  BY <1>1 DEF TypeOK, ClientRecord
<1>3. f \in FlightRecord /\ f.phase = "posted" /\ f.client = call[c].client
      /\ f.token = client[call[c].client].token
  BY <1>1, <1>2, Literals DEF FlightRecord
<1>4. Posted(c) = IF flight # NoFlight THEN flight ELSE f
  BY DEF Posted
<1> HIDE DEF f
<1>5. flight \in FlightRecord
  BY DEF TypeOK
<1> QED BY <1>1, <1>3, <1>4, <1>5, Idles

LEMMA RefusedDone ==
    ASSUME TypeOK, HeldInv, NEW c \in Call, Refused(c)
    PROVE  /\ UNCHANGED <<serverVars, running, registryVars, access, account, gateVars,
                          client, shown, lost, signedOut, troubles>>
           /\ call[c].phase = "refused" /\ call[c].client \in Client
           /\ call' \in [Call -> CallRecord] /\ flight' \in FlightRecord
           /\ \A d \in Call : d # c => call'[d] = call[d]
           /\ \/ UNCHANGED <<flight, blind>> /\ call'[c] = NoCall
              \/ /\ UNCHANGED <<flight, blind>> /\ call'[c].phase = "sent"
                 /\ call'[c].client = call[c].client /\ call'[c].used = access
              \/ /\ call'[c].phase \in {"leading", "waiting"}
                 /\ call'[c].client = call[c].client
                 /\ call'[c].used = call[c].used
                 /\ ~ LateRefusal(c) /\ flight' # NoFlight
                 /\ blind' = (blind \/ (flight = NoFlight /\ Blind(c)))
                 /\ \/ flight' = flight
                    \/ /\ flight = NoFlight /\ flight'.phase = "posted"
                       /\ flight'.client = call[c].client
                       /\ flight'.token = client[call[c].client].token
<1> DEFINE p == IF flight = NoFlight THEN "leading" ELSE "waiting"
           w == [call[c] EXCEPT !.phase = p]
           n == Repeated(c, access)
<1>1. /\ UNCHANGED <<serverVars, running, registryVars, access, account, gateVars,
                     client, shown, lost, signedOut, troubles>>
      /\ call[c].phase = "refused"
  BY DEF Refused
<1>8. p \in {"leading", "waiting"}
  OBVIOUS
<1> HIDE DEF p
<1>2. /\ w \in CallRecord /\ w.phase \in {"leading", "waiting"}
      /\ w.client = call[c].client /\ w.used = call[c].used
  BY <1>8, Literals DEF TypeOK, CallRecord
<1>3. /\ n \in CallRecord
      /\ n = NoCall \/ (n.phase = "sent" /\ n.used = access /\ n.client = call[c].client)
  BY RepeatedType DEF TypeOK
<1>4. \/ call' = [call EXCEPT ![c] = NoCall] /\ UNCHANGED <<flight, blind>>
      \/ call' = [call EXCEPT ![c] = n] /\ UNCHANGED <<flight, blind>>
      \/ /\ call' = [call EXCEPT ![c] = w] /\ flight' = Posted(c)
         /\ blind' = (blind \/ (flight = NoFlight /\ Blind(c))) /\ ~ LateRefusal(c)
  BY DEF Refused, p
<1> HIDE DEF w, n
<1>5. CASE call' = [call EXCEPT ![c] = NoCall] /\ UNCHANGED <<flight, blind>>
  <2>1. /\ call' \in [Call -> CallRecord] /\ call'[c] = NoCall
        /\ \A d \in Call : d # c => call'[d] = call[d]
    BY <1>5, Idles DEF TypeOK
  <2>2. flight' \in FlightRecord
    BY <1>5 DEF TypeOK
  <2> QED BY <1>1, <1>5, <2>1, <2>2, PostedType
<1>6. CASE call' = [call EXCEPT ![c] = n] /\ UNCHANGED <<flight, blind>>
  <2>1. /\ call' \in [Call -> CallRecord] /\ call'[c] = n
        /\ \A d \in Call : d # c => call'[d] = call[d]
    BY <1>3, <1>6 DEF TypeOK
  <2>2. flight' \in FlightRecord
    BY <1>6 DEF TypeOK
  <2> QED BY <1>1, <1>3, <1>6, <2>1, <2>2, PostedType
<1>7. CASE /\ call' = [call EXCEPT ![c] = w] /\ flight' = Posted(c)
           /\ blind' = (blind \/ (flight = NoFlight /\ Blind(c))) /\ ~ LateRefusal(c)
  <2>1. /\ call' \in [Call -> CallRecord] /\ call'[c] = w
        /\ \A d \in Call : d # c => call'[d] = call[d]
    BY <1>2, <1>7 DEF TypeOK
  <2> QED BY <1>1, <1>2, <1>7, <2>1, PostedType
<1> QED BY <1>4, <1>5, <1>6, <1>7

\* What the server's side of a refresh does.
LEMMA RotationDone ==
    ASSUME TypeOK, Rotation
    PROVE  /\ generation' \in Nat \ {0} /\ aged' \in BOOLEAN
           /\ ended' \in {"no", "reuse", "revoked"}
           /\ ended # "no" => ended' = ended
           /\ \/ /\ Rotates /\ generation' = generation + 1 /\ aged' = FALSE
                 /\ ended' = ended
              \/ /\ ~ Rotates /\ generation' = generation /\ aged' = aged
           /\ ended' # ended => ended = "no" /\ flight.token = generation - 1
<1>1. generation \in Nat /\ generation # 0 /\ generation # generation - 1
  BY DEF TypeOK
<1>2. aged' \in BOOLEAN
  BY Zenon DEF Rotation, TypeOK
<1>3. CASE Rotates
  <2>1. ~ Reused
    BY <1>1, <1>3 DEF Rotates, Reused
  <2>2. ended' = ended /\ generation' = generation + 1 /\ aged' = FALSE
    BY <1>3, <2>1 DEF Rotation
  <2> QED BY <1>1, <1>2, <1>3, <2>2 DEF TypeOK
<1>4. CASE ~ Rotates
  <2>1. generation' = generation /\ aged' = aged
    BY <1>4 DEF Rotation
  <2>2. ended' = IF Reused /\ ended = "no" THEN "reuse" ELSE ended
    BY DEF Rotation
  <2> QED BY <1>1, <1>2, <1>4, <2>1, <2>2 DEF TypeOK, Reused
<1> QED BY <1>3, <1>4

LEMMA RefreshDone ==
    ASSUME TypeOK, Refresh
    PROVE  /\ UNCHANGED <<running, registryVars, access, account, gateVars,
                          client, shown, historyVars, troubles>>
           /\ flight.phase = "posted" /\ Rotation
           /\ flight' \in FlightRecord /\ flight'.client = flight.client
           /\ call' \in [Call -> CallRecord]
           /\ \A c \in Call : call'[c] = call[c] \/ call'[c] = NoCall
           /\ \/ Rotates /\ flight'.phase = "rotated" /\ flight'.got = generation'
              \/ ~ Rotates /\ flight'.phase = "failed"
<1> DEFINE f == [flight EXCEPT !.phase = "rotated", !.got = generation + 1]
<1>1. generation + 1 \in Token /\ flight \in FlightRecord
  BY DEF TypeOK, Token
<1>2. /\ f \in FlightRecord /\ f.phase = "rotated" /\ f.client = flight.client
      /\ f.got = generation + 1
  BY <1>1, Literals DEF FlightRecord
<1>3. /\ UNCHANGED <<running, registryVars, access, account, gateVars,
                     client, shown, historyVars, troubles>>
      /\ flight.phase = "posted" /\ Rotation
      /\ (Rotates /\ flight' = f /\ call' = call) \/ (~ Rotates /\ FlightFails)
  BY DEF Refresh
<1>4. Rotates => generation' = generation + 1
  BY <1>3 DEF Rotation
<1> HIDE DEF f
<1>6. CASE Rotates /\ flight' = f /\ call' = call
  <2>1. call' \in [Call -> CallRecord]
    BY <1>6 DEF TypeOK
  <2> QED BY <1>2, <1>3, <1>4, <1>6, <2>1
<1>7. CASE ~ Rotates /\ FlightFails
  BY <1>3, <1>7, Failed
<1> QED BY <1>3, <1>6, <1>7

LEMMA RefreshFailsDone ==
    ASSUME TypeOK, RefreshFails
    PROVE  /\ UNCHANGED <<running, registryVars, access, account, gateVars,
                          client, shown, blind, signedOut>>
           /\ troubles' \in 0 .. MaxTroubles /\ lost' \in BOOLEAN
           /\ flight.phase = "posted"
           /\ flight' \in FlightRecord /\ flight'.client = flight.client
           /\ flight'.phase = "failed"
           /\ call' \in [Call -> CallRecord]
           /\ \A c \in Call : call'[c] = call[c] \/ call'[c] = NoCall
           /\ \/ UNCHANGED <<serverVars, lost>>
              \/ Rotation /\ lost' = (lost \/ Rotates)
<1>3. /\ UNCHANGED <<running, registryVars, access, account, gateVars,
                     client, shown, blind, signedOut>>
      /\ flight.phase = "posted" /\ FlightFails
  BY DEF RefreshFails
<1>4. UNCHANGED <<serverVars, lost>> \/ (Rotation /\ lost' = (lost \/ Rotates))
  BY DEF RefreshFails
<1>5. troubles' \in 0 .. MaxTroubles
  BY TroubleType DEF RefreshFails, TypeOK
<1>6. lost' \in BOOLEAN
  <2>1. CASE lost' = (lost \/ Rotates)
    BY <2>1, Zenon
  <2>2. CASE UNCHANGED <<serverVars, lost>>
    BY <2>2 DEF TypeOK
  <2> QED BY <1>4, <2>1, <2>2
<1> QED BY <1>3, <1>4, <1>5, <1>6, Failed

LEMMA CommitDone ==
    ASSUME TypeOK, QueueInv, Commit
    PROVE  /\ UNCHANGED <<serverVars, running, stored, writing, leaving, access, account,
                          gateVars, client, shown, blind, signedOut, troubles>>
           /\ flight.phase = "rotated"
           /\ call' \in [Call -> CallRecord] /\ flight' \in FlightRecord
           /\ queue' \in Seq(Write) /\ lost' \in BOOLEAN
           /\ \/ /\ flight'.phase = "committing" /\ flight'.client = flight.client
                 /\ flight'.got = flight.got /\ UNCHANGED <<call, lost>>
                 /\ queue' # <<>>
                 /\ \A i \in DOMAIN queue' :
                        FlightWrite(queue'[i]) => i = Len(queue) + 1
                 /\ \A i \in DOMAIN queue' : Matches(queue'[i], flight')
              \/ FlightEndsInError /\ lost' = TRUE /\ queue' = queue
<1> DEFINE w == [kind |-> "rotate", token |-> flight.got, epoch |-> gate.epoch, revision |-> 0]
           f == [flight EXCEPT !.phase = "committing"]
<1>1. flight.got \in Token /\ gate.epoch \in Nat
  BY DEF TypeOK, FlightRecord, GateRecord
<1>2. /\ f \in FlightRecord /\ f.phase = "committing" /\ f.client = flight.client
      /\ f.got = flight.got
  BY <1>1, FlightPhased, Literals
<1>3. w \in Write /\ w.kind = "rotate" /\ w.token = flight.got
  BY <1>1 DEF Write
<1>4. /\ UNCHANGED <<serverVars, running, stored, writing, leaving, access, account,
                     gateVars, client, shown, blind, signedOut, troubles>>
      /\ flight.phase = "rotated"
  BY DEF Commit
<1>5. \/ queue' = Append(queue, w) /\ flight' = f /\ UNCHANGED <<call, lost>>
      \/ FlightEndsInError /\ lost' = TRUE /\ queue' = queue
  BY DEF Commit
<1> HIDE DEF w, f
<1>6. CASE queue' = Append(queue, w) /\ flight' = f /\ UNCHANGED <<call, lost>>
  <2>1. \A i \in DOMAIN queue : ~ FlightWrite(queue[i])
    BY <1>4, Unqueued
  <2>2. \A i \in DOMAIN queue' : FlightWrite(queue'[i]) => i = Len(queue) + 1
    BY <1>3, <1>6, <2>1, Appended
  <2>5. Matches(w, flight')
    BY <1>2, <1>3, <1>6 DEF Matches
  <2>6. \A i \in DOMAIN queue' : Matches(queue'[i], flight')
    BY <1>3, <1>6, <2>1, <2>5, Appended DEF FlightWrite, Matches
  <2>3. queue' \in Seq(Write) /\ queue' # <<>>
    BY <1>3, <1>6, Appended
  <2>4. call' \in [Call -> CallRecord] /\ lost' \in BOOLEAN
    BY <1>6 DEF TypeOK
  <2> QED BY <1>2, <1>4, <1>6, <2>2, <2>3, <2>4, <2>6
<1>7. CASE FlightEndsInError /\ lost' = TRUE /\ queue' = queue
  <2>1. queue' \in Seq(Write)
    BY <1>7 DEF TypeOK
  <2> QED BY <1>4, <1>7, <2>1, Errored, Idles
<1> QED BY <1>5, <1>6, <1>7

LEMMA ClearDone ==
    ASSUME TypeOK, QueueInv, Clear
    PROVE  /\ UNCHANGED <<serverVars, running, stored, writing, leaving, account, gateVars,
                          client, shown, historyVars, troubles>>
           /\ flight.phase = "failed" /\ access' = NoToken
           /\ call' \in [Call -> CallRecord] /\ flight' \in FlightRecord
           /\ queue' \in Seq(Write) /\ (queue # <<>> => queue' # <<>>)
           /\ \/ /\ flight'.phase = "clearing" /\ flight'.client = flight.client
                 /\ UNCHANGED call
                 /\ \A i \in DOMAIN queue' :
                        FlightWrite(queue'[i]) => i = Len(queue) + 1
                 /\ \A i \in DOMAIN queue' : Matches(queue'[i], flight')
              \/ FlightEndsInError /\ \A i \in DOMAIN queue' : ~ FlightWrite(queue'[i])
<1> DEFINE w == [kind |-> "clear", token |-> NoToken, epoch |-> 0, revision |-> 0]
           f == [flight EXCEPT !.phase = "clearing"]
<1>1. flight.got \in Token
  BY DEF TypeOK, FlightRecord
<1>2. f \in FlightRecord /\ f.phase = "clearing" /\ f.client = flight.client
  BY <1>1, FlightPhased, Literals
<1>3. w \in Write /\ w.kind = "clear"
  BY Literals DEF Write
<1>4. /\ UNCHANGED <<serverVars, running, stored, writing, leaving, account, gateVars,
                     client, shown, historyVars, troubles>>
      /\ flight.phase = "failed" /\ access' = NoToken
  BY DEF Clear
<1>5. \/ queue' = Append(queue, w) /\ flight' = f /\ UNCHANGED call
      \/ FlightEndsInError /\ queue' = queue
  BY DEF Clear
<1>8. \A i \in DOMAIN queue : ~ FlightWrite(queue[i])
  BY <1>4, Unqueued
<1> HIDE DEF w, f
<1>6. CASE queue' = Append(queue, w) /\ flight' = f /\ UNCHANGED call
  <2>1. \A i \in DOMAIN queue' : FlightWrite(queue'[i]) => i = Len(queue) + 1
    BY <1>3, <1>6, <1>8, Appended
  <2>2. queue' \in Seq(Write) /\ queue' # <<>>
    BY <1>3, <1>6, Appended
  <2>3. call' \in [Call -> CallRecord]
    BY <1>6 DEF TypeOK
  <2>4. Matches(w, flight')
    BY <1>2, <1>3, <1>6 DEF Matches
  <2>5. \A i \in DOMAIN queue' : Matches(queue'[i], flight')
    BY <1>3, <1>6, <1>8, <2>4, Appended DEF FlightWrite, Matches
  <2> QED BY <1>2, <1>4, <1>6, <2>1, <2>2, <2>3, <2>5
<1>7. CASE FlightEndsInError /\ queue' = queue
  <2>1. queue' \in Seq(Write)
    BY <1>7 DEF TypeOK
  <2> QED BY <1>4, <1>7, <1>8, <2>1, Errored, Idles
<1> QED BY <1>5, <1>6, <1>7

LEMMA WriteStartsDone ==
    ASSUME TypeOK, QueueInv, WriteStarts
    PROVE  /\ UNCHANGED <<serverVars, running, stored, leaving, access, account, gateVars,
                          client, shown, blind, signedOut, troubles>>
           /\ queue # <<>>
           /\ \/ writing' = TRUE /\ UNCHANGED <<queue, flight, call, lost>>
              \/ /\ Head1.kind = "rotate" /\ queue' = Tail(queue) /\ FlightEndsInError
                 /\ lost' = TRUE /\ writing' = FALSE
<1>1. writing = FALSE
  BY DEF WriteStarts, TypeOK
<1> QED BY <1>1 DEF WriteStarts

LEMMA SaveFailsDone ==
    ASSUME TypeOK, QueueInv, SaveFails
    PROVE  /\ UNCHANGED <<serverVars, running, stored, leaving, access, account, gate,
                          client, shown, blind, signedOut>>
           /\ queue # <<>> /\ queue' = Tail(queue) /\ writing' = FALSE
           /\ troubles' \in 0 .. MaxTroubles /\ lost' \in BOOLEAN
           /\ resolving' \in {"no", "asked", "writing"}
           /\ \/ FlightWrite(Head1) /\ FlightEndsInError
              \/ ~ FlightWrite(Head1) /\ UNCHANGED <<flight, call>>
           /\ flight.phase = "committing" /\ FlightWrite(Head1) => lost'
           /\ lost => lost'
<1>1. troubles' \in 0 .. MaxTroubles
  BY TroubleType DEF SaveFails, TypeOK
<1>2. lost' = (lost \/ Head1.kind = "rotate")
  BY DEF SaveFails
<1>3. lost' \in BOOLEAN
  BY <1>2, Zenon
<1>4. queue # <<>> /\ Head1 = queue[1] /\ 1 \in DOMAIN queue
  BY HeadType DEF SaveFails, QueueInv
<1>5. flight.phase = "committing" /\ FlightWrite(Head1) => Head1.kind = "rotate"
  BY <1>4 DEF TypeOK, FlightWrite
<1>6. /\ UNCHANGED <<serverVars, running, stored, leaving, access, account, gate,
                     client, shown, blind, signedOut>>
      /\ queue' = Tail(queue) /\ writing' = FALSE
      /\ resolving' \in {resolving, "asked"}
      /\ \/ FlightWrite(Head1) /\ FlightEndsInError
         \/ ~ FlightWrite(Head1) /\ UNCHANGED <<flight, call>>
  BY DEF SaveFails, FlightWrite
<1>7. resolving' \in {"no", "asked", "writing"}
  BY <1>6 DEF TypeOK
<1> QED BY <1>1, <1>2, <1>3, <1>4, <1>5, <1>6, <1>7

LEMMA RotationSavedDone ==
    ASSUME TypeOK, HeldInv, QueueInv, RotationSaved
    PROVE  /\ UNCHANGED <<serverVars, running, leaving, gateVars, shown, historyVars, troubles>>
           /\ queue # <<>> /\ queue' = Tail(queue) /\ writing' = FALSE
           /\ Head1.kind = "rotate" /\ flight.phase = "committing"
           /\ flight.client \in Client
           /\ stored' = IF stored = NoToken THEN NoToken ELSE flight.got
           /\ AccountFollows
           /\ access' = flight.got /\ flight.got \in Token
           /\ client' \in [Client -> ClientRecord]
           /\ client'[flight.client].token = flight.got
           /\ \A k \in Client : k # flight.client => client'[k] = client[k]
           /\ flight' = NoFlight /\ call' = AfterSuccess(flight.got)
<1> DEFINE n == [client[flight.client] EXCEPT !.token = Head1.token]
<1>1. queue # <<>> /\ Head1.kind = "rotate"
  BY DEF RotationSaved, QueueInv
<1>2. Head1.token = flight.got /\ flight.phase = "committing" /\ flight.got \in Token
  BY <1>1, HeadType DEF QueueInv, Matches, TypeOK
<1>3. flight.client \in Client
  BY <1>2 DEF HeldInv
<1>4. n \in ClientRecord /\ n.token = flight.got
  BY <1>2, <1>3 DEF TypeOK, ClientRecord
<1>5. client' = [client EXCEPT ![flight.client] = n]
  BY DEF RotationSaved
<1>6. /\ UNCHANGED <<serverVars, running, leaving, gateVars, shown, historyVars, troubles>>
      /\ queue' = Tail(queue) /\ writing' = FALSE
      /\ stored' = IF stored = NoToken THEN NoToken ELSE flight.got
      /\ AccountFollows
      /\ access' = flight.got
      /\ flight' = NoFlight /\ call' = AfterSuccess(flight.got)
  BY <1>2 DEF RotationSaved
<1> HIDE DEF n
<1>7. /\ client' \in [Client -> ClientRecord] /\ client'[flight.client] = n
      /\ \A k \in Client : k # flight.client => client'[k] = client[k]
  BY <1>3, <1>4, <1>5 DEF TypeOK
<1> QED BY <1>1, <1>2, <1>3, <1>4, <1>6, <1>7

LEMMA RemovalSavedDone ==
    ASSUME TypeOK, QueueInv, RemovalSaved
    PROVE  /\ UNCHANGED <<serverVars, running, account, gateVars, call, client, shown,
                          historyVars, troubles>>
           /\ queue # <<>> /\ queue' = Tail(queue) /\ writing' = FALSE
           /\ leaving' \in BOOLEAN
           /\ stored' = NoToken /\ access' = NoToken
           /\ flight' \in FlightRecord /\ flight'.client = flight.client
           /\ \/ /\ FlightWrite(Head1)
                 /\ flight.phase = "clearing" /\ flight'.phase = "removing"
              \/ ~ FlightWrite(Head1) /\ flight' = flight
<1>1. flight.got \in Token
  BY DEF TypeOK, FlightRecord
<1>2. queue # <<>> /\ Head1 = queue[1] /\ 1 \in DOMAIN queue
  BY HeadType DEF RemovalSaved, QueueInv
<1>3. CASE Head1.kind = "clear"
  <2>1. FlightWrite(Head1) /\ flight.phase = "clearing"
    BY <1>2, <1>3 DEF TypeOK, FlightWrite
  <2>2. flight' = [flight EXCEPT !.phase = "removing"] /\ UNCHANGED leaving
    BY <1>3 DEF RemovalSaved
  <2>3. /\ flight' \in FlightRecord /\ flight'.client = flight.client
        /\ flight'.phase = "removing"
    BY <1>1, <2>2, FlightPhased, Literals
  <2>4. leaving' \in BOOLEAN
    BY <2>2 DEF TypeOK
  <2> QED BY <1>2, <2>1, <2>3, <2>4 DEF RemovalSaved
<1>4. CASE Head1.kind = "signOut"
  <2>1. ~ FlightWrite(Head1) /\ UNCHANGED flight /\ leaving' = TRUE
    BY <1>4 DEF RemovalSaved, FlightWrite
  <2>2. flight' \in FlightRecord
    BY <2>1 DEF TypeOK
  <2> QED BY <1>2, <2>1, <2>2 DEF RemovalSaved
<1> QED BY <1>3, <1>4 DEF RemovalSaved

LEMMA LocalDataRemovedDone ==
    ASSUME TypeOK, LocalDataRemoved
    PROVE  /\ UNCHANGED <<serverVars, running, stored, queue, writing, access, gateVars,
                          client, historyVars, troubles>>
           /\ leaving' \in BOOLEAN
           /\ account' = NoToken /\ shown' = NoClient
           /\ \/ flight.phase = "removing" /\ FlightEndsInError
              \/ UNCHANGED <<flight, call>>
  BY Zenon DEF LocalDataRemoved, TypeOK

LEMMA DescriptorSavedDone ==
    ASSUME TypeOK, QueueInv, DescriptorSaved
    PROVE  /\ UNCHANGED <<serverVars, running, leaving, access, callVars, shown,
                          historyVars, troubles>>
           /\ queue # <<>> /\ queue' = Tail(queue) /\ writing' = FALSE
           /\ Head1.kind = "descriptor" /\ ~ FlightWrite(Head1)
           /\ stored' = stored /\ resolving' = "no" /\ gate' \in GateRecord
           /\ AccountFollows
<1> DEFINE g == [gate EXCEPT !.open = TRUE, !.revision = Head1.revision]
<1>1. queue # <<>>
  BY DEF DescriptorSaved, QueueInv
<1>2. Head1.revision \in Nat
  BY <1>1, HeadType
<1>3. g \in GateRecord /\ gate \in GateRecord
  BY <1>2 DEF TypeOK, GateRecord
<1>4. gate' = g \/ gate' = gate
  BY DEF DescriptorSaved
<1>5. /\ UNCHANGED <<serverVars, running, leaving, access, callVars, shown,
                     historyVars, troubles>>
      /\ queue' = Tail(queue) /\ writing' = FALSE /\ Head1.kind = "descriptor"
      /\ stored' = stored /\ resolving' = "no"
      /\ AccountFollows
  BY DEF DescriptorSaved, DescriptorToken
<1> HIDE DEF g
<1> QED BY <1>1, <1>3, <1>4, <1>5 DEF FlightWrite

LEMMA CloseDone ==
    ASSUME TypeOK, Close
    PROVE  /\ UNCHANGED <<serverVars, running, registryVars, access, account, callVars,
                          historyVars>>
           /\ gate' \in GateRecord /\ shown' = NoClient
           /\ resolving' \in {"no", "asked", "writing"}
           /\ troubles' \in 0 .. MaxTroubles
<1> DEFINE g == [gate EXCEPT !.open = FALSE, !.epoch = gate.epoch + 1]
<1>1. gate \in GateRecord /\ gate.epoch + 1 \in Nat
  BY DEF TypeOK, GateRecord
<1>4. g \in GateRecord
  BY <1>1 DEF GateRecord
<1>2. troubles' \in 0 .. MaxTroubles
  BY TroubleType DEF Close, TypeOK
<1>3. gate' = g
  BY DEF Close
<1> HIDE DEF g
<1> QED BY <1>2, <1>3, <1>4 DEF Close

LEMMA ResolveDone ==
    ASSUME TypeOK, QueueInv, NEW revision \in {gate.revision, gate.revision + 1},
           Resolve(revision)
    PROVE  /\ UNCHANGED <<serverVars, running, stored, writing, leaving, access, account, gate,
                          callVars, shown, historyVars, troubles>>
           /\ resolving' = "writing"
           /\ queue' \in Seq(Write) /\ queue' # <<>>
           /\ \A i, j \in DOMAIN queue' :
                FlightWrite(queue'[i]) /\ FlightWrite(queue'[j]) => i = j
           /\ \A i \in DOMAIN queue' : Matches(queue'[i], flight)
<1> DEFINE w == [kind |-> "descriptor", token |-> stored, epoch |-> gate.epoch,
                 revision |-> revision]
<1>1. w \in Write /\ ~ FlightWrite(w)
  BY DEF TypeOK, GateRecord, Write, FlightWrite
<1>2. queue' = Append(queue, w)
  BY DEF Resolve
<1> HIDE DEF w
<1>3. /\ UNCHANGED <<serverVars, running, stored, writing, leaving, access, account, gate,
                     callVars, shown, historyVars, troubles>>
      /\ resolving' = "writing"
  BY DEF Resolve
<1> QED BY <1>1, <1>2, <1>3, Appended, AppendedInv

LEMMA SignOutDone ==
    ASSUME TypeOK, QueueInv, SignOut
    PROVE  /\ UNCHANGED <<generation, aged, running, stored, writing, leaving, access, account,
                          gateVars, callVars, shown, lost, blind, troubles>>
           /\ signedOut' = TRUE
           /\ ended' = ended \/ ended' = "revoked"
           /\ ended # "no" => ended' = ended
           /\ queue' \in Seq(Write) /\ queue' # <<>>
           /\ \A i, j \in DOMAIN queue' :
                FlightWrite(queue'[i]) /\ FlightWrite(queue'[j]) => i = j
           /\ \A i \in DOMAIN queue' : Matches(queue'[i], flight)
<1> DEFINE w == [kind |-> "signOut", token |-> NoToken, epoch |-> 0, revision |-> 0]
<1>1. w \in Write /\ ~ FlightWrite(w)
  BY Literals DEF Write, FlightWrite
<1>2. queue' = Append(queue, w)
  BY DEF SignOut
<1> HIDE DEF w
<1>3. /\ UNCHANGED <<generation, aged, running, stored, writing, leaving, access, account,
                     gateVars, callVars, shown, lost, blind, troubles>>
      /\ signedOut' = TRUE
      /\ ended' = ended \/ ended' = "revoked"
      /\ ended # "no" => ended' = ended
  BY DEF SignOut
<1> QED BY <1>1, <1>2, <1>3, Appended, AppendedInv

\* A crash leaves the server after or before a refresh that was posted.
LEMMA KillDone ==
    ASSUME TypeOK, QueueInv, Kill
    PROVE  /\ UNCHANGED <<blind, signedOut>> /\ client' = NoClients /\ leaving' = FALSE
           /\ troubles' \in 0 .. MaxTroubles /\ running' = FALSE
           /\ access' = NoToken /\ account' = NoToken /\ shown' = NoClient
           /\ call' = [c \in Call |-> NoCall] /\ flight' = NoFlight
           /\ queue' = <<>> /\ writing' = FALSE /\ resolving' = "no"
           /\ gate' \in GateRecord /\ stored' \in Token
           /\ lost' \in BOOLEAN /\ lost' = (lost \/ stored' # generation')
           /\ UNCHANGED serverVars \/ (flight.phase = "posted" /\ Rotation)
<1> DEFINE g == [gate EXCEPT !.open = FALSE, !.epoch = gate.epoch + 1]
           s == IF ~ writing \/ Head1.kind = "descriptor" \/ stored = NoToken
                THEN stored ELSE Head1.token
<1>9. gate \in GateRecord /\ gate.epoch + 1 \in Nat
  BY DEF TypeOK, GateRecord
<1>1. g \in GateRecord
  BY <1>9 DEF GateRecord
<1>2. s \in Token
  BY HeadType DEF TypeOK, QueueInv
<1>3. troubles' \in 0 .. MaxTroubles
  BY TroubleType DEF Kill, TypeOK
<1>4. gate' = g /\ stored' \in {stored, s} /\ lost' = (lost \/ stored' # generation')
  BY DEF Kill
<1> HIDE DEF g, s
<1>5. gate' \in GateRecord /\ stored' \in Token
  BY <1>1, <1>2, <1>4 DEF TypeOK
<1>6. lost' \in BOOLEAN
  BY <1>4, Zenon
<1>7. UNCHANGED serverVars \/ (flight.phase = "posted" /\ Rotation)
  BY DEF Kill
<1>8. /\ UNCHANGED <<blind, signedOut>> /\ client' = NoClients /\ leaving' = FALSE
      /\ running' = FALSE
      /\ access' = NoToken /\ account' = NoToken /\ shown' = NoClient
      /\ call' = [c \in Call |-> NoCall] /\ flight' = NoFlight
      /\ queue' = <<>> /\ writing' = FALSE /\ resolving' = "no"
  BY DEF Kill
<1> QED BY <1>3, <1>4, <1>5, <1>6, <1>7, <1>8

LEMMA LaunchDone ==
    ASSUME TypeOK, NEW k \in Client, NEW c \in Call, Launch(k, c)
    PROVE  /\ UNCHANGED <<serverVars, registryVars, access, account, resolving, flight,
                          shown, historyVars, troubles>>
           /\ stored # NoToken /\ ~ InUse(k) /\ running' = TRUE
           /\ gate' \in GateRecord
           /\ client' \in [Client -> ClientRecord] /\ client'[k].token = stored
           /\ \A l \in Client : l # k => client'[l] = client[l]
           /\ call' \in [Call -> CallRecord]
           /\ call'[c].phase = "sent" /\ call'[c].client = k /\ call'[c].used = NoToken
           /\ \A d \in Call : d # c => call'[d] = call[d]
<1> DEFINE g == [gate EXCEPT !.open = TRUE]
           n == [phase |-> "sent", client |-> k, used |-> NoToken, retried |-> FALSE]
<1>1. g \in GateRecord
  BY DEF TypeOK, GateRecord
<1>2. n \in CallRecord /\ n.phase = "sent" /\ n.client = k /\ n.used = NoToken
  BY Literals DEF CallRecord
<1>3. NewClient(stored, gate) \in ClientRecord /\ NewClient(stored, gate).token = stored
  BY NewClientType DEF TypeOK
<1>4. /\ UNCHANGED <<serverVars, registryVars, access, account, resolving, flight,
                     shown, historyVars, troubles>>
      /\ stored # NoToken /\ ~ InUse(k) /\ running' = TRUE
      /\ gate' = g /\ client' = [client EXCEPT ![k] = NewClient(stored, gate)]
      /\ call' = [call EXCEPT ![c] = n]
  BY DEF Launch, Unused
<1> HIDE DEF g, n
<1>5. /\ client' \in [Client -> ClientRecord] /\ client'[k].token = stored
      /\ \A l \in Client : l # k => client'[l] = client[l]
  BY <1>3, <1>4 DEF TypeOK
<1>6. /\ call' \in [Call -> CallRecord] /\ call'[c] = n
      /\ \A d \in Call : d # c => call'[d] = call[d]
  BY <1>2, <1>4 DEF TypeOK
<1> QED BY <1>1, <1>2, <1>4, <1>5, <1>6

\* A step keeps the types.
LEMMA TypeStep ==
    ASSUME IInv, [Next]_vars
    PROVE  TypeOK'
<1> USE Literals, Idles
DEF TypeOK, IInv, serverVars, registryVars, gateVars, callVars, historyVars
<1>1. ASSUME NEW k \in Client, Render(k)
      PROVE  TypeOK'
  BY <1>1, RenderDone
<1>2. ASSUME NEW k \in Client, NEW c \in Call, Launch(k, c)
      PROVE  TypeOK'
  <2>0. IInv /\ TypeOK
    <3> HIDE DEF TypeOK
    <3> QED BY DEF IInv
  <2>1. UNCHANGED <<serverVars, registryVars, access, account, resolving, flight,
                    shown, historyVars, troubles>>
    <3> HIDE DEF TypeOK, IInv
    <3> QED BY <1>2, <2>0, LaunchDone
  <2>2. /\ running' = TRUE /\ gate' \in GateRecord
        /\ client' \in [Client -> ClientRecord] /\ call' \in [Call -> CallRecord]
    <3> HIDE DEF TypeOK, IInv
    <3> QED BY <1>2, <2>0, LaunchDone
  <2>3. call'[c].phase = "sent" /\ \A d \in Call : d # c => call'[d] = call[d]
    <3> HIDE DEF TypeOK, IInv
    <3> QED BY <1>2, <2>0, LaunchDone
  <2>4. \A d \in Call : call'[d].phase \in {"leading", "waiting"} => flight' # NoFlight
    BY <2>1, <2>3
  <2> QED BY <2>1, <2>2, <2>4
<1>3. ASSUME NEW c \in Call, Begin(c)
      PROVE  TypeOK'
  BY <1>3, BeginDone
<1>4. ASSUME NEW c \in Call, Serve(c)
      PROVE  TypeOK'
  BY <1>4, ServeDone
<1>5. ASSUME NEW c \in Call, CallFails(c)
      PROVE  TypeOK'
  BY <1>5, CallFailsDone
<1>6. ASSUME NEW c \in Call, Refused(c)
      PROVE  TypeOK'
  <2>1. UNCHANGED <<serverVars, running, registryVars, access, account, gateVars,
                    client, shown, lost, signedOut, troubles>>
    BY <1>6, RefusedDone
  <2>2. call' \in [Call -> CallRecord] /\ flight' \in FlightRecord
    BY <1>6, RefusedDone
  <2>3. blind' \in BOOLEAN
    BY <1>6, Zenon DEF Refused
  <2>4. \A d \in Call : call'[d].phase \in {"leading", "waiting"} => flight' # NoFlight
    BY <1>6, RefusedDone
  <2>5. flight # NoFlight => flight' = flight
    BY <1>6, RefusedDone
  <2>6. \A i \in DOMAIN queue' :
            /\ queue'[i].kind = "rotate" => flight'.phase = "committing"
            /\ queue'[i].kind = "clear" => flight'.phase = "clearing"
    BY <2>1, <2>5
  <2> QED BY <2>1, <2>2, <2>3, <2>4, <2>5, <2>6
<1>7. ASSUME NEW revision \in {gate.revision, gate.revision + 1}, Resolve(revision)
      PROVE  TypeOK'
  BY <1>7, ResolveDone DEF Matches
<1>8. CASE Refresh
  <2>1. /\ UNCHANGED <<running, registryVars, access, account, gateVars,
                      client, shown, historyVars, troubles>>
        /\ flight.phase = "posted" /\ flight' \in FlightRecord /\ flight'.phase # "none"
        /\ call' \in [Call -> CallRecord]
    BY <1>8, RefreshDone
  <2>2. /\ generation' \in Nat \ {0} /\ aged' \in BOOLEAN
        /\ ended' \in {"no", "reuse", "revoked"}
    BY <1>8, RefreshDone, RotationDone
  <2> QED BY <2>1, <2>2
<1>9. CASE RefreshFails
  <2>1. /\ UNCHANGED <<running, registryVars, access, account, gateVars,
                      client, shown, blind, signedOut>>
        /\ troubles' \in 0 .. MaxTroubles /\ lost' \in BOOLEAN
        /\ flight.phase = "posted" /\ flight' \in FlightRecord /\ flight'.phase # "none"
        /\ call' \in [Call -> CallRecord]
    BY <1>9, RefreshFailsDone
  <2>2. /\ generation' \in Nat \ {0} /\ aged' \in BOOLEAN
        /\ ended' \in {"no", "reuse", "revoked"}
    BY <1>9, RefreshFailsDone, RotationDone
  <2> QED BY <2>1, <2>2
<1>10. CASE Commit
  <2>1. /\ UNCHANGED <<serverVars, running, stored, writing, leaving, access, account,
                       gateVars, client, shown, blind, signedOut, troubles>>
        /\ flight.phase = "rotated" /\ call' \in [Call -> CallRecord]
        /\ flight' \in FlightRecord /\ queue' \in Seq(Write) /\ lost' \in BOOLEAN
    BY <1>10, CommitDone
  <2>2. CASE /\ flight'.phase = "committing" /\ UNCHANGED call
             /\ \A i \in DOMAIN queue' : Matches(queue'[i], flight')
    BY <2>1, <2>2 DEF Matches
  <2>3. CASE FlightEndsInError /\ queue' = queue
    <3>1. \A i \in DOMAIN queue : ~ FlightWrite(queue[i])
      BY <2>1, Unqueued
    <3>2. flight' = NoFlight /\ \A c \in Call : call'[c].phase \notin {"leading", "waiting"}
      BY <2>3, Errored
    <3> QED BY <2>1, <2>3, <3>1, <3>2, NoFlightWrite
  <2>4. \/ /\ flight'.phase = "committing" /\ UNCHANGED call
           /\ \A i \in DOMAIN queue' : Matches(queue'[i], flight')
        \/ FlightEndsInError /\ queue' = queue
    BY <1>10, CommitDone
  <2> QED BY <2>2, <2>3, <2>4
<1>11. CASE Clear
  BY <1>11, ClearDone, Errored, NoFlightWrite DEF Matches
<1>12. CASE WriteStarts
  <2>1. CASE writing' = TRUE /\ UNCHANGED <<queue, flight, call, lost>>
    BY <1>12, <2>1, WriteStartsDone
  <2>2. CASE /\ Head1.kind = "rotate" /\ queue' = Tail(queue) /\ FlightEndsInError
             /\ lost' = TRUE /\ writing' = FALSE
    <3>1. queue # <<>> /\ FlightWrite(Head1)
      BY <1>12, <2>2, WriteStartsDone DEF FlightWrite
    <3>2. queue' \in Seq(Write) /\ \A i \in DOMAIN queue' : ~ FlightWrite(queue'[i])
      BY <2>2, <3>1, Popped, PoppedInv
    <3>3. /\ flight' = NoFlight /\ call' \in [Call -> CallRecord]
          /\ \A c \in Call : call'[c].phase \notin {"leading", "waiting"}
      BY <2>2, Errored
    <3> QED BY <1>12, <2>2, <3>2, <3>3, WriteStartsDone, NoFlightWrite
  <2> QED BY <1>12, <2>1, <2>2, WriteStartsDone
<1>13. CASE SaveFails
  <2>1. queue' \in Seq(Write) /\ \A i \in DOMAIN queue' : Matches(queue'[i], flight)
    BY <1>13, SaveFailsDone, Popped, PoppedInv
  <2>2. /\ UNCHANGED <<serverVars, running, stored, leaving, access, account, gate,
                       client, shown, blind, signedOut>>
        /\ lost' \in BOOLEAN /\ writing' = FALSE /\ troubles' \in 0 .. MaxTroubles
        /\ resolving' \in {"no", "asked", "writing"}
    BY <1>13, SaveFailsDone
  <2>3. CASE FlightWrite(Head1) /\ FlightEndsInError
    <3>1. \A i \in DOMAIN queue' : ~ FlightWrite(queue'[i])
      BY <1>13, <2>3, SaveFailsDone, PoppedInv
    <3>2. /\ flight' = NoFlight /\ call' \in [Call -> CallRecord]
          /\ \A c \in Call : call'[c].phase \notin {"leading", "waiting"}
      BY <2>3, Errored
    <3> QED BY <2>1, <2>2, <3>1, <3>2, NoFlightWrite
  <2>4. CASE UNCHANGED <<flight, call>>
    BY <2>1, <2>2, <2>4 DEF Matches
  <2> QED BY <1>13, <2>3, <2>4, SaveFailsDone
<1>14. CASE RotationSaved
  <2>1. queue' \in Seq(Write) /\ \A i \in DOMAIN queue' : ~ FlightWrite(queue'[i])
    BY <1>14, RotationSavedDone, Popped, PoppedInv DEF FlightWrite
  <2>2. /\ call' \in [Call -> CallRecord]
        /\ \A c \in Call : call'[c].phase \notin {"leading", "waiting"}
    BY <1>14, RotationSavedDone, Succeeded
  <2>3. stored' \in Token /\ account' \in Token /\ access' \in Token
    BY <1>14, RotationSavedDone DEF AccountFollows
  <2>4. /\ UNCHANGED <<serverVars, running, leaving, gateVars, shown, historyVars, troubles>>
        /\ writing' = FALSE /\ client' \in [Client -> ClientRecord] /\ flight' = NoFlight
    BY <1>14, RotationSavedDone
  <2> QED BY <2>1, <2>2, <2>3, <2>4, NoFlightWrite
<1>15. CASE RemovalSaved
  <2>1. queue' \in Seq(Write) /\ \A i \in DOMAIN queue' : Matches(queue'[i], flight)
    BY <1>15, RemovalSavedDone, Popped, PoppedInv
  <2>2. /\ UNCHANGED <<serverVars, running, account, gateVars, call, client, shown,
                       historyVars, troubles>>
        /\ writing' = FALSE /\ stored' = NoToken /\ access' = NoToken
        /\ leaving' \in BOOLEAN /\ flight' \in FlightRecord
    BY <1>15, RemovalSavedDone
  <2>3. CASE /\ FlightWrite(Head1)
             /\ flight.phase = "clearing" /\ flight'.phase = "removing"
    <3>1. \A i \in DOMAIN queue' : ~ FlightWrite(queue'[i])
      BY <1>15, <2>3, RemovalSavedDone, PoppedInv
    <3>2. flight' # NoFlight
      BY <2>3
    <3> QED BY <2>1, <2>2, <3>1, <3>2, NoFlightWrite
  <2>4. CASE flight' = flight
    BY <2>1, <2>2, <2>4 DEF Matches
  <2> QED BY <1>15, <2>3, <2>4, RemovalSavedDone
<1>25. CASE LocalDataRemoved
  <2>1. /\ UNCHANGED <<serverVars, running, stored, queue, writing, access, gateVars,
                       client, historyVars, troubles>>
        /\ leaving' \in BOOLEAN /\ account' = NoToken /\ shown' = NoClient
    BY <1>25, LocalDataRemovedDone
  <2>2. CASE flight.phase = "removing" /\ FlightEndsInError
    <3>1. /\ flight' = NoFlight /\ call' \in [Call -> CallRecord]
          /\ \A c \in Call : call'[c].phase \notin {"leading", "waiting"}
      BY <2>2, Errored
    <3> QED BY <2>1, <2>2, <3>1
  <2>3. CASE UNCHANGED <<flight, call>>
    BY <2>1, <2>3
  <2> QED BY <1>25, <2>2, <2>3, LocalDataRemovedDone
<1>16. CASE DescriptorSaved
  <2>1. queue' \in Seq(Write) /\ \A i \in DOMAIN queue' : Matches(queue'[i], flight)
    BY <1>16, DescriptorSavedDone, Popped, PoppedInv
  <2>2. /\ UNCHANGED <<serverVars, running, leaving, access, callVars, shown,
                       historyVars, troubles>>
        /\ writing' = FALSE /\ stored' = stored /\ resolving' = "no" /\ gate' \in GateRecord
        /\ account' \in Token
    BY <1>16, DescriptorSavedDone DEF AccountFollows
  <2>3. \A i \in DOMAIN queue' :
            /\ queue'[i].kind = "rotate" => flight.phase = "committing"
            /\ queue'[i].kind = "clear" => flight.phase = "clearing"
    BY <2>1 DEF Matches
  <2> QED BY <2>1, <2>2, <2>3
<1>17. CASE Close
  BY <1>17, CloseDone
<1>18. CASE SignOut
  <2>1. /\ UNCHANGED <<generation, aged, running, stored, writing, leaving, access, account,
                       gateVars, callVars, shown, lost, blind, troubles>>
        /\ signedOut' \in BOOLEAN /\ ended' \in {"no", "reuse", "revoked"}
        /\ queue' \in Seq(Write) /\ \A i \in DOMAIN queue' : Matches(queue'[i], flight)
    BY <1>18, SignOutDone
  <2>2. \A i \in DOMAIN queue' :
            /\ queue'[i].kind = "rotate" => flight.phase = "committing"
            /\ queue'[i].kind = "clear" => flight.phase = "clearing"
    BY <2>1 DEF Matches
  <2> QED BY <2>1, <2>2
<1>19. CASE EndSession
  BY <1>19, TroubleType DEF EndSession
<1>20. CASE Age
  <2>1. client' = [NoClients EXCEPT ![shown] = client[shown]] /\ shown \in Client
    BY <1>20 DEF Age, UpToDate
  <2>2. client' \in [Client -> ClientRecord]
    BY <2>1
  <2> QED BY <1>20, <2>2, TroubleType DEF Age
<1>21. CASE Kill
  <2>1. /\ generation' \in Nat \ {0} /\ aged' \in BOOLEAN
        /\ ended' \in {"no", "reuse", "revoked"}
    BY <1>21, KillDone, RotationDone
  <2>2. call' \in [Call -> CallRecord] /\ \A c \in Call : call'[c].phase \notin {"leading", "waiting"}
    BY <1>21, KillDone
  <2>3. queue' \in Seq(Write) /\ DOMAIN queue' = {}
    <3>1. queue' = <<>>
      BY <1>21, KillDone
    <3> QED BY <3>1
  <2>4. /\ UNCHANGED <<blind, signedOut>> /\ client' = NoClients /\ leaving' = FALSE
        /\ troubles' \in 0 .. MaxTroubles
        /\ running' = FALSE /\ access' \in Token /\ account' \in Token
        /\ shown' = NoClient /\ flight' = NoFlight /\ writing' = FALSE
        /\ resolving' = "no"
        /\ gate' \in GateRecord /\ stored' \in Token /\ lost' \in BOOLEAN
    BY <1>21, KillDone
  <2>5. client' \in [Client -> ClientRecord] /\ shown' \in Client \cup {NoClient}
        /\ flight' \in FlightRecord /\ blind' \in BOOLEAN /\ signedOut' \in BOOLEAN
    BY <2>4
  <2> QED BY <2>1, <2>2, <2>3, <2>4, <2>5
<1>22. CASE LaunchBlocked
  BY <1>22, TroubleType DEF LaunchBlocked
<1>23. CASE Restored
  BY <1>23 DEF Restored
<1>24. CASE UNCHANGED vars
  BY <1>24 DEF vars
<1> QED
  BY <1>1, <1>2, <1>3, <1>4, <1>5, <1>6, <1>7, <1>8, <1>9, <1>10, <1>11,
     <1>12, <1>13, <1>14, <1>15, <1>16, <1>17, <1>18, <1>19, <1>20, <1>21,
     <1>22, <1>23, <1>24, <1>25 DEF Next, CallStep, FlightStep, WriteStep

\* A step keeps HeldInv.
LEMMA HeldStep ==
    ASSUME IInv, TypeOK', [Next]_vars
    PROVE  HeldInv'
<1> USE Literals, Idles
DEF TypeOK, IInv, serverVars, registryVars, gateVars, callVars, historyVars,
    HeldInv
<1>1. ASSUME NEW k \in Client, NEW c \in Call, Launch(k, c)
      PROVE  HeldInv'
  <2>1. flight' = flight /\ call'[c].phase = "sent" /\ call'[c].client \in Client
    <3> HIDE DEF TypeOK
    <3> QED BY <1>1, LaunchDone
  <2>2. \A d \in Call : d # c => call'[d] = call[d]
    <3> HIDE DEF TypeOK
    <3> QED BY <1>1, LaunchDone
  <2> QED BY <2>1, <2>2
<1>2. ASSUME NEW c \in Call, Begin(c)
      PROVE  HeldInv'
  BY <1>2, BeginDone
<1>3. ASSUME NEW c \in Call, Serve(c)
      PROVE  HeldInv'
  BY <1>3, ServeDone
<1>4. ASSUME NEW c \in Call, CallFails(c)
      PROVE  HeldInv'
  BY <1>4, CallFailsDone
<1>5. ASSUME NEW c \in Call, Refused(c)
      PROVE  HeldInv'
  BY <1>5, RefusedDone
<1>6. CASE Refresh
  BY <1>6, RefreshDone
<1>7. CASE RefreshFails
  BY <1>7, RefreshFailsDone
<1>8. CASE Commit
  BY <1>8, CommitDone, Errored
<1>9. CASE Clear
  BY <1>9, ClearDone, Errored
<1>10. CASE WriteStarts
  BY <1>10, WriteStartsDone, Errored
<1>11. CASE SaveFails
  BY <1>11, SaveFailsDone, Errored
<1>12. CASE RotationSaved
  <2>1. flight' = NoFlight /\ call' = AfterSuccess(flight.got) /\ flight.got \in Token
    BY <1>12, RotationSavedDone
  <2>2. \A c \in Call :
            \/ call'[c] = call[c] \/ call'[c] = NoCall
            \/ /\ call'[c].phase = "sent" /\ call[c].phase # "idle"
               /\ call'[c].client = call[c].client
    BY <2>1, Succeeded
  <2> QED BY <2>1, <2>2
<1>13. CASE RemovalSaved
  BY <1>13, RemovalSavedDone
<1>17. CASE LocalDataRemoved
  BY <1>17, LocalDataRemovedDone, Errored
<1>14. CASE Kill
  BY <1>14, KillDone, RotationDone
<1>15. CASE UNCHANGED vars
  BY <1>15 DEF vars
<1>16. CASE UNCHANGED <<call, flight>>
  BY <1>16
<1> HIDE DEF TypeOK, IInv, serverVars, registryVars, gateVars, callVars, historyVars
<1> QED
  BY <1>1, <1>2, <1>3, <1>4, <1>5, <1>6, <1>7, <1>8, <1>9, <1>10, <1>11,
     <1>12, <1>13, <1>14, <1>15, <1>16, <1>17
  DEF Next, CallStep, FlightStep, WriteStep, serverVars, registryVars,
      gateVars, callVars, historyVars, Render, Resolve, DescriptorSaved,
      Close, SignOut, EndSession, Age, LaunchBlocked, Restored

\* A step keeps QueueInv.
LEMMA QueueStep ==
    ASSUME IInv, TypeOK', [Next]_vars
    PROVE  QueueInv'
<1> USE Literals, Idles
DEF TypeOK, IInv, serverVars, registryVars, gateVars, callVars, historyVars,
    QueueInv, Matches
<1>1. ASSUME NEW c \in Call, Refused(c)
      PROVE  QueueInv'
  BY <1>1, RefusedDone
<1>2. ASSUME NEW revision \in {gate.revision, gate.revision + 1}, Resolve(revision)
      PROVE  QueueInv'
  BY <1>2, ResolveDone
<1>3. CASE Refresh
  BY <1>3, RefreshDone, Unqueued, NoFlightWrite
<1>4. CASE RefreshFails
  BY <1>4, RefreshFailsDone, Unqueued, NoFlightWrite
<1>5. CASE Commit
  BY <1>5, CommitDone, Errored, Unqueued, NoFlightWrite
<1>6. CASE Clear
  BY <1>6, ClearDone, Errored, NoFlightWrite
<1>7. CASE WriteStarts
  <2>1. CASE writing' = TRUE /\ UNCHANGED <<queue, flight, call, lost>>
    BY <1>7, <2>1, WriteStartsDone
  <2>2. CASE /\ Head1.kind = "rotate" /\ queue' = Tail(queue) /\ FlightEndsInError
             /\ lost' = TRUE /\ writing' = FALSE
    <3>1. queue # <<>> /\ FlightWrite(Head1)
      BY <1>7, <2>2, WriteStartsDone DEF FlightWrite
    <3>2. \A i \in DOMAIN queue' : ~ FlightWrite(queue'[i])
      BY <2>2, <3>1, PoppedInv
    <3> QED BY <2>2, <3>2, NoFlightWrite
  <2> QED BY <1>7, <2>1, <2>2, WriteStartsDone
<1>8. CASE SaveFails
  <2>1. /\ \A i, j \in DOMAIN queue' :
                FlightWrite(queue'[i]) /\ FlightWrite(queue'[j]) => i = j
        /\ \A i \in DOMAIN queue' : Matches(queue'[i], flight)
        /\ FlightWrite(Head1) => \A i \in DOMAIN queue' : ~ FlightWrite(queue'[i])
    BY <1>8, SaveFailsDone, PoppedInv
  <2>2. writing' = FALSE /\ (FlightWrite(Head1) \/ flight' = flight)
    BY <1>8, SaveFailsDone
  <2> HIDE DEF Matches
  <2> QED BY <2>1, <2>2, NoFlightWrite
<1>9. CASE RotationSaved
  <2>1. queue # <<>> /\ queue' = Tail(queue) /\ FlightWrite(Head1) /\ writing' = FALSE
    BY <1>9, RotationSavedDone DEF FlightWrite
  <2>2. \A i \in DOMAIN queue' : ~ FlightWrite(queue'[i])
    BY <2>1, PoppedInv
  <2> QED BY <2>1, <2>2, NoFlightWrite
<1>10. CASE RemovalSaved
  <2>1. /\ \A i, j \in DOMAIN queue' :
                FlightWrite(queue'[i]) /\ FlightWrite(queue'[j]) => i = j
        /\ \A i \in DOMAIN queue' : Matches(queue'[i], flight)
        /\ FlightWrite(Head1) => \A i \in DOMAIN queue' : ~ FlightWrite(queue'[i])
    BY <1>10, RemovalSavedDone, PoppedInv
  <2>2. writing' = FALSE /\ (FlightWrite(Head1) \/ flight' = flight)
    BY <1>10, RemovalSavedDone
  <2> HIDE DEF Matches
  <2> QED BY <2>1, <2>2, NoFlightWrite
<1>16. CASE LocalDataRemoved
  <2>1. UNCHANGED <<queue, writing>>
    BY <1>16, LocalDataRemovedDone
  <2>2. CASE flight.phase = "removing"
    <3>1. \A i \in DOMAIN queue' : ~ FlightWrite(queue'[i])
      BY <2>1, <2>2, Unqueued
    <3> QED BY <2>1, <3>1, NoFlightWrite
  <2>3. CASE UNCHANGED <<flight, call>>
    BY <2>1, <2>3
  <2> QED BY <1>16, <2>2, <2>3, LocalDataRemovedDone
<1>11. CASE DescriptorSaved
  <2>1. /\ \A i, j \in DOMAIN queue' :
                FlightWrite(queue'[i]) /\ FlightWrite(queue'[j]) => i = j
        /\ \A i \in DOMAIN queue' : Matches(queue'[i], flight)
    BY <1>11, DescriptorSavedDone, PoppedInv
  <2>2. writing' = FALSE /\ flight' = flight
    BY <1>11, DescriptorSavedDone
  <2> HIDE DEF Matches
  <2> QED BY <2>1, <2>2
<1>12. CASE SignOut
  BY <1>12, SignOutDone
<1>13. CASE Kill
  <2>1. queue' = <<>> /\ writing' = FALSE
    BY <1>13, KillDone
  <2> QED BY <2>1
<1>14. CASE UNCHANGED vars
  BY <1>14 DEF vars
<1>15. CASE UNCHANGED <<writing, queue, flight>>
  BY <1>15
<1> HIDE DEF Matches, TypeOK, IInv, serverVars, registryVars, gateVars, callVars, historyVars
<1> QED
  BY <1>1, <1>2, <1>3, <1>4, <1>5, <1>6, <1>7, <1>8, <1>9, <1>10, <1>11,
     <1>12, <1>13, <1>14, <1>15, <1>16
  DEF Next, CallStep, FlightStep, WriteStep, serverVars, registryVars,
      gateVars, callVars, historyVars, Render, Launch, Begin, Serve,
      CallFails, Close, EndSession, Age, LaunchBlocked, Restored

\* A step keeps AccountInv.
LEMMA AccountStep ==
    ASSUME IInv, TypeOK', [Next]_vars
    PROVE  AccountInv'
<1> USE Literals, Idles, NoClientAssumption
DEF TypeOK, IInv, serverVars, registryVars, gateVars, callVars, historyVars,
    AccountInv, InUse, HeldInv
<1>1. ASSUME NEW k \in Client, Render(k)
      PROVE  AccountInv'
  BY <1>1, RenderDone
<1>2. ASSUME NEW k \in Client, NEW c \in Call, Launch(k, c)
      PROVE  AccountInv'
  <2>0. IInv /\ TypeOK
    <3> HIDE DEF TypeOK, AccountInv, InUse, HeldInv
    <3> QED BY DEF IInv
  <2>1. /\ UNCHANGED <<stored, account, shown, flight>> /\ client'[k].token = stored
        /\ stored # NoToken /\ call'[c].client = k
    <3> HIDE DEF TypeOK, IInv, AccountInv, InUse, HeldInv
    <3> QED BY <1>2, <2>0, LaunchDone
  <2>2. /\ \A l \in Client : l # k => client'[l] = client[l]
        /\ \A d \in Call : d # c => call'[d] = call[d]
    <3> HIDE DEF TypeOK, IInv, AccountInv, InUse, HeldInv
    <3> QED BY <1>2, <2>0, LaunchDone
  <2>3. ASSUME NEW l \in Client, InUse(l)'
        PROVE  client'[l].token # NoToken
    <3>1. l = k \/ InUse(l)
      BY <2>1, <2>2, <2>3
    <3> HIDE DEF InUse
    <3> QED BY <2>1, <2>2, <3>1
  <2>4. stored' # NoToken => account' \in {NoToken, stored'}
    BY <2>1
  <2> QED BY <2>3, <2>4
<1>3. ASSUME NEW c \in Call, Begin(c)
      PROVE  AccountInv'
  BY <1>3, BeginDone
<1>4. ASSUME NEW c \in Call, Serve(c)
      PROVE  AccountInv'
  BY <1>4, ServeDone
<1>5. ASSUME NEW c \in Call, CallFails(c)
      PROVE  AccountInv'
  BY <1>5, CallFailsDone
<1>6. ASSUME NEW c \in Call, Refused(c)
      PROVE  AccountInv'
  BY <1>6, RefusedDone
<1>7. CASE Refresh
  BY <1>7, RefreshDone
<1>8. CASE RefreshFails
  BY <1>8, RefreshFailsDone
<1>9. CASE Commit
  BY <1>9, CommitDone, Errored
<1>10. CASE Clear
  BY <1>10, ClearDone, Errored
<1>11. CASE WriteStarts
  <2>1. UNCHANGED <<account, stored, client, shown>>
    BY <1>11, WriteStartsDone
  <2>2. CASE UNCHANGED <<flight, call>>
    BY <2>1, <2>2
  <2>3. CASE FlightEndsInError
    BY <2>1, <2>3, Errored
  <2> QED BY <1>11, <2>2, <2>3, WriteStartsDone
<1>12. CASE SaveFails
  BY <1>12, SaveFailsDone, Errored
<1>13. CASE RotationSaved
  <2>1. /\ shown' = shown /\ flight' = NoFlight /\ flight.client \in Client
        /\ flight.got \in Token /\ call' = AfterSuccess(flight.got)
        /\ stored' # NoToken => account' \in {NoToken, stored'}
    BY <1>13, RotationSavedDone DEF AccountFollows
  <2>2. client'[flight.client].token = flight.got /\ flight.got = generation
        /\ \A k \in Client : k # flight.client => client'[k] = client[k]
    BY <1>13, RotationSavedDone DEF RotationInv, Rotating
  <2>3. \A c \in Call :
            \/ call'[c] = call[c] \/ call'[c] = NoCall
            \/ call'[c].client = call[c].client
    BY <2>1, Succeeded
  <2>4. \A k \in Client : InUse(k)' => InUse(k)
    BY <2>1, <2>3
  <2> HIDE DEF InUse
  <2> QED BY <2>1, <2>2, <2>4
<1>14. CASE RemovalSaved
  BY <1>14, RemovalSavedDone
<1>22. CASE LocalDataRemoved
  BY <1>22, LocalDataRemovedDone, Errored
<1>23. CASE Age
  BY <1>23 DEF Age, UpToDate
<1>15. CASE DescriptorSaved
  BY <1>15, DescriptorSavedDone DEF AccountFollows
<1>16. CASE Close
  BY <1>16, CloseDone
<1>17. CASE Kill
  <2>1. /\ account' = NoToken /\ shown' = NoClient /\ flight' = NoFlight
        /\ \A c \in Call : call'[c] = NoCall
    BY <1>17, KillDone
  <2> QED BY <2>1
<1>18. CASE LaunchBlocked
  BY <1>18 DEF LaunchBlocked
<1>19. CASE Restored
  BY <1>19 DEF Restored
<1>20. CASE UNCHANGED vars
  BY <1>20 DEF vars
<1>21. CASE UNCHANGED <<account, stored, client, shown, call, flight>>
  BY <1>21
<1> HIDE DEF TypeOK, IInv, serverVars, registryVars, gateVars, callVars,
       historyVars, InUse, HeldInv
<1> QED
  BY <1>1, <1>2, <1>3, <1>4, <1>5, <1>6, <1>7, <1>8, <1>9, <1>10, <1>11,
     <1>12, <1>13, <1>14, <1>15, <1>16, <1>17, <1>18, <1>19, <1>20, <1>21, <1>22, <1>23
  DEF Next, CallStep, FlightStep, WriteStep, serverVars, registryVars,
      gateVars, callVars, historyVars, Resolve, SignOut, EndSession

\* A step keeps RotationInv.
LEMMA RotationStep ==
    ASSUME IInv, TypeOK', [Next]_vars
    PROVE  RotationInv'
<1> USE Literals, Idles
DEF TypeOK, IInv, serverVars, registryVars, gateVars, callVars, historyVars,
    RotationInv, Rotating
<1>1. ASSUME NEW c \in Call, Refused(c)
      PROVE  RotationInv'
  BY <1>1, RefusedDone
<1>2. CASE Refresh
  <2>1. UNCHANGED <<access, stored, lost>> /\ flight.phase = "posted" /\ Rotation
    BY <1>2, RefreshDone
  <2>2. CASE Rotates
    <3>1. generation' = generation + 1 /\ aged' = FALSE
      BY <2>1, <2>2, RotationDone
    <3>2. flight'.phase = "rotated" /\ flight'.got = generation'
      BY <1>2, <2>2, RefreshDone
    <3> QED BY <2>1, <3>1, <3>2
  <2>3. CASE ~ Rotates
    <3>1. generation' = generation /\ flight'.phase = "failed"
      BY <1>2, <2>1, <2>3, RotationDone, RefreshDone
    <3> QED BY <2>1, <3>1
  <2> QED BY <2>2, <2>3
<1>3. CASE RefreshFails
  <2>1. UNCHANGED <<access, stored>> /\ flight.phase = "posted" /\ flight'.phase = "failed"
    BY <1>3, RefreshFailsDone
  <2>2. CASE UNCHANGED <<serverVars, lost>>
    BY <2>1, <2>2
  <2>3. CASE Rotation /\ lost' = (lost \/ Rotates)
    <3>1. CASE Rotates
      <4>1. generation' = generation + 1 /\ lost'
        BY <2>3, <3>1, RotationDone
      <4> QED BY <2>1, <4>1
    <3>2. CASE ~ Rotates
      <4>1. generation' = generation /\ lost' = lost
        BY <2>3, <3>2, RotationDone
      <4> QED BY <2>1, <4>1
    <3> QED BY <3>1, <3>2
  <2> QED BY <1>3, <2>2, <2>3, RefreshFailsDone
<1>4. CASE Commit
  BY <1>4, CommitDone, Errored
<1>5. CASE Clear
  BY <1>5, ClearDone, Errored
<1>6. CASE WriteStarts
  BY <1>6, WriteStartsDone, Errored
<1>7. CASE SaveFails
  <2>1. UNCHANGED <<serverVars, stored, access>> /\ (lost => lost')
    BY <1>7, SaveFailsDone
  <2>2. CASE UNCHANGED <<flight, call>>
    BY <2>1, <2>2
  <2>3. CASE FlightWrite(Head1) /\ FlightEndsInError
    <3>1. flight'.phase = "none" /\ (flight.phase = "committing" => lost')
      BY <1>7, <2>3, Errored, SaveFailsDone
    <3>2. flight.phase \in {"committing", "clearing"}
      BY <1>7, <2>3, SaveFailsDone, Unqueued, HeadType
    <3> QED BY <2>1, <3>1, <3>2
  <2> QED BY <1>7, <2>2, <2>3, SaveFailsDone
<1>8. CASE RotationSaved
  <2>1. UNCHANGED <<generation, lost>> /\ flight.phase = "committing" /\ flight'.phase = "none"
    BY <1>8, RotationSavedDone
  <2>2. access' = flight.got /\ stored' \in {NoToken, flight.got}
    BY <1>8, RotationSavedDone
  <2>3. flight.got = generation
    BY <2>1
  <2> QED BY <2>1, <2>2, <2>3
<1>9. CASE RemovalSaved
  <2>1. UNCHANGED <<serverVars, lost>> /\ stored' = NoToken /\ access' = NoToken
    BY <1>9, RemovalSavedDone
  <2>2. flight' = flight \/ (flight.phase = "clearing" /\ flight'.phase = "removing")
    BY <1>9, RemovalSavedDone
  <2> QED BY <2>1, <2>2
<1>15. CASE LocalDataRemoved
  <2>1. UNCHANGED <<serverVars, stored, access, lost>>
    BY <1>15, LocalDataRemovedDone
  <2>2. flight' = flight \/ (flight.phase = "removing" /\ flight'.phase = "none")
    BY <1>15, LocalDataRemovedDone, Errored
  <2> QED BY <2>1, <2>2
<1>10. CASE DescriptorSaved
  BY <1>10, DescriptorSavedDone
<1>11. CASE Age
  BY <1>11 DEF Age
<1>12. CASE Kill
  <2>1. flight'.phase = "none" /\ access' = NoToken /\ lost' = (lost \/ stored' # generation')
    BY <1>12, KillDone
  <2>2. generation' \in Nat
    BY DEF TypeOK
  <2>3. ~ lost' => stored' = generation'
    BY <2>1
  <2>4. ~ Rotating' /\ access' <= generation'
    BY <2>1, <2>2
  <2>5. access' \in {NoToken, generation'} /\ (~ lost' => stored' \in {NoToken, generation'})
    BY <2>1, <2>3
  <2> HIDE DEF Rotating
  <2> QED BY <2>4, <2>5 DEF Rotating
<1>13. CASE UNCHANGED vars
  BY <1>13 DEF vars
<1>14. CASE UNCHANGED <<flight, generation, aged, access, lost, stored>>
  BY <1>14
<1> HIDE DEF TypeOK, IInv, serverVars, registryVars, gateVars, callVars,
       historyVars, Rotating
<1> QED
  BY <1>1, <1>2, <1>3, <1>4, <1>5, <1>6, <1>7, <1>8, <1>9, <1>10, <1>11,
     <1>12, <1>13, <1>14, <1>15
  DEF Next, CallStep, FlightStep, WriteStep, serverVars, registryVars,
      gateVars, callVars, historyVars, Render, Launch, Begin, Serve,
      CallFails, Resolve, Close, SignOut, EndSession, LaunchBlocked, Restored

\* A refresh at the server leaves each call as it was or ends it; a rotation makes
\* every token older than the current one.
LEMMA CallsAfterRefresh ==
    ASSUME CallInv, generation \in Nat, \A c \in Call : call[c].used \in Nat,
           \A c \in Call : call'[c] = call[c] \/ call'[c] = NoCall,
           \/ generation' = generation + 1
           \/ generation' = generation /\ aged' = aged,
           ended' = "no" => ended = "no"
    PROVE  CallInv'
<1> SUFFICES ASSUME NEW c \in Call
             PROVE  /\ call'[c].used <= generation'
                    /\ call'[c].phase = "refused" /\ call'[c].used = generation' /\ ended' = "no"
                          => aged'
  BY DEF CallInv
<1>1. generation' \in Nat /\ generation <= generation'
  OBVIOUS
<1>2. CASE call'[c] = NoCall
  BY <1>1, <1>2, Idles, Literals
<1>3. CASE call'[c] = call[c]
  <2>1. call[c].used \in Nat /\ call[c].used <= generation
    BY DEF CallInv
  <2>2. call[c].phase = "refused" /\ call[c].used = generation /\ ended = "no" => aged
    BY DEF CallInv
  <2>3. CASE generation' = generation + 1
    BY <1>3, <2>1, <2>3
  <2>4. CASE generation' = generation /\ aged' = aged
    BY <1>3, <2>1, <2>2, <2>4
  <2> QED BY <2>3, <2>4
<1> QED BY <1>2, <1>3

\* A step keeps CallInv.
LEMMA CallsStep ==
    ASSUME IInv, TypeOK', [Next]_vars
    PROVE  CallInv'
<1> USE Literals, Idles
DEF TypeOK, IInv, serverVars, registryVars, gateVars, callVars, historyVars,
    CallInv
<1>1. ASSUME NEW k \in Client, NEW c \in Call, Launch(k, c)
      PROVE  CallInv'
  <2>1. UNCHANGED <<generation, ended, aged>> /\ \A d \in Call : d # c => call'[d] = call[d]
    <3> HIDE DEF TypeOK
    <3> QED BY <1>1, LaunchDone
  <2>2. call'[c].phase = "sent" /\ call'[c].used = NoToken
    <3> HIDE DEF TypeOK
    <3> QED BY <1>1, LaunchDone
  <2> QED BY <2>1, <2>2
<1>2. ASSUME NEW c \in Call, Begin(c)
      PROVE  CallInv'
  <2>1. UNCHANGED <<generation, ended, aged>> /\ \A d \in Call : d # c => call'[d] = call[d]
    BY <1>2, BeginDone
  <2>2. call'[c].phase = "sent" /\ call'[c].used = access
    BY <1>2, BeginDone
  <2>3. access <= generation
    BY DEF RotationInv
  <2> QED BY <2>1, <2>2, <2>3
<1>3. ASSUME NEW c \in Call, Serve(c)
      PROVE  CallInv'
  <2>1. UNCHANGED <<generation, ended, aged>> /\ \A d \in Call : d # c => call'[d] = call[d]
    BY <1>3, ServeDone
  <2>2. \/ call'[c] = NoCall
        \/ call'[c].used = call[c].used /\ ~ Valid(call[c].used)
    BY <1>3, ServeDone
  <2>3. CASE call'[c] = NoCall
    BY <2>1, <2>3
  <2>4. CASE call'[c].used = call[c].used /\ ~ Valid(call[c].used)
    <3>1. call'[c].used <= generation
      BY <2>4
    <3>2. call[c].used = generation /\ ended = "no" => aged
      BY <2>4, Zenon DEF Valid
    <3>3. call'[c].used = generation' /\ ended' = "no" => aged'
      BY <2>1, <2>4, <3>2
    <3> QED BY <2>1, <3>1, <3>3
  <2> QED BY <2>2, <2>3, <2>4
<1>4. ASSUME NEW c \in Call, CallFails(c)
      PROVE  CallInv'
  BY <1>4, CallFailsDone
<1>5. ASSUME NEW c \in Call, Refused(c)
      PROVE  CallInv'
  <2>1. UNCHANGED <<generation, ended, aged>> /\ \A d \in Call : d # c => call'[d] = call[d]
    BY <1>5, RefusedDone
  <2>2. \/ call'[c] = NoCall
        \/ call'[c].phase = "sent" /\ call'[c].used = access
        \/ call'[c].phase # "refused" /\ call'[c].used = call[c].used
    BY <1>5, RefusedDone
  <2>3. access <= generation
    BY DEF RotationInv
  <2> QED BY <2>1, <2>2, <2>3
<1>6. CASE Refresh
  <2>1. \A c \in Call : call'[c] = call[c] \/ call'[c] = NoCall
    BY <1>6, RefreshDone
  <2>2. \/ generation' = generation + 1
        \/ generation' = generation /\ aged' = aged
    BY <1>6, RefreshDone, RotationDone
  <2>3. ended' = "no" => ended = "no"
    BY <1>6, RefreshDone, RotationDone
  <2>4. CallInv /\ generation \in Nat /\ \A c \in Call : call[c].used \in Nat
    BY DEF CallRecord, Token
  <2> HIDE DEF CallInv
  <2> QED BY <2>1, <2>2, <2>3, <2>4, CallsAfterRefresh
<1>7. CASE RefreshFails
  <2>1. \A c \in Call : call'[c] = call[c] \/ call'[c] = NoCall
    BY <1>7, RefreshFailsDone
  <2>2. \/ generation' = generation + 1
        \/ generation' = generation /\ aged' = aged
    BY <1>7, RefreshFailsDone, RotationDone
  <2>3. ended' = "no" => ended = "no"
    BY <1>7, RefreshFailsDone, RotationDone
  <2>4. CallInv /\ generation \in Nat /\ \A c \in Call : call[c].used \in Nat
    BY DEF CallRecord, Token
  <2> HIDE DEF CallInv
  <2> QED BY <2>1, <2>2, <2>3, <2>4, CallsAfterRefresh
<1>8. CASE Commit
  <2>1. UNCHANGED serverVars
    BY <1>8, CommitDone
  <2>2. \A c \in Call : call'[c] = call[c] \/ call'[c] = NoCall
    BY <1>8, CommitDone, Errored
  <2> QED BY <2>1, <2>2
<1>9. CASE Clear
  <2>1. UNCHANGED serverVars
    BY <1>9, ClearDone
  <2>2. \A c \in Call : call'[c] = call[c] \/ call'[c] = NoCall
    BY <1>9, ClearDone, Errored
  <2> QED BY <2>1, <2>2
<1>10. CASE WriteStarts
  <2>1. UNCHANGED serverVars
    BY <1>10, WriteStartsDone
  <2>2. \A c \in Call : call'[c] = call[c] \/ call'[c] = NoCall
    BY <1>10, WriteStartsDone, Errored
  <2> QED BY <2>1, <2>2
<1>11. CASE SaveFails
  <2>1. UNCHANGED serverVars
    BY <1>11, SaveFailsDone
  <2>2. \A c \in Call : call'[c] = call[c] \/ call'[c] = NoCall
    BY <1>11, SaveFailsDone, Errored
  <2> QED BY <2>1, <2>2
<1>12. CASE RotationSaved
  <2>1. UNCHANGED serverVars /\ call' = AfterSuccess(flight.got) /\ flight.got \in Token
    BY <1>12, RotationSavedDone
  <2>2. flight.got = generation
    BY <1>12, RotationSavedDone DEF RotationInv, Rotating
  <2>3. \A c \in Call :
            \/ call'[c] = call[c] \/ call'[c] = NoCall
            \/ call'[c].phase = "sent" /\ call'[c].used = flight.got
    BY <2>1, Succeeded
  <2> QED BY <2>1, <2>2, <2>3
<1>13. CASE RemovalSaved
  <2>1. UNCHANGED serverVars
    BY <1>13, RemovalSavedDone
  <2>2. call' = call
    BY <1>13, RemovalSavedDone
  <2> QED BY <2>1, <2>2
<1>20. CASE LocalDataRemoved
  <2>1. UNCHANGED serverVars
    BY <1>20, LocalDataRemovedDone
  <2>2. \A c \in Call : call'[c] = call[c] \/ call'[c] = NoCall
    BY <1>20, LocalDataRemovedDone, Errored
  <2> QED BY <2>1, <2>2
<1>14. CASE SignOut
  BY <1>14, SignOutDone
<1>15. CASE EndSession
  BY <1>15 DEF EndSession
<1>16. CASE Age
  BY <1>16 DEF Age
<1>17. CASE Kill
  <2>1. \A c \in Call : call'[c] = NoCall
    BY <1>17, KillDone
  <2> QED BY <2>1
<1>18. CASE UNCHANGED vars
  BY <1>18 DEF vars
<1>19. CASE UNCHANGED <<call, generation, ended, aged>>
  BY <1>19
<1> HIDE DEF TypeOK, IInv, serverVars, registryVars, gateVars, callVars, historyVars
<1> QED
  BY <1>1, <1>2, <1>3, <1>4, <1>5, <1>6, <1>7, <1>8, <1>9, <1>10, <1>11,
     <1>12, <1>13, <1>14, <1>15, <1>16, <1>17, <1>18, <1>19, <1>20
  DEF Next, CallStep, FlightStep, WriteStep, serverVars, registryVars,
      gateVars, callVars, historyVars, Render, Resolve, DescriptorSaved,
      Close, LaunchBlocked, Restored

\* A step keeps AgedInv.
LEMMA AgedStep ==
    ASSUME IInv, TypeOK', [Next]_vars
    PROVE  AgedInv'
<1> USE Literals, Idles
DEF TypeOK, IInv, serverVars, registryVars, gateVars, callVars, historyVars,
    AgedInv
<1>1. ASSUME NEW k \in Client, Render(k)
      PROVE  AgedInv'
  BY <1>1, RenderDone
<1>2. ASSUME NEW k \in Client, NEW c \in Call, Launch(k, c)
      PROVE  AgedInv'
  <2>1. UNCHANGED <<serverVars, lost, account>> /\ client'[k].token = stored /\ stored # NoToken
    <3> HIDE DEF TypeOK
    <3> QED BY <1>2, LaunchDone
  <2>2. \A l \in Client : l # k => client'[l] = client[l]
    <3> HIDE DEF TypeOK
    <3> QED BY <1>2, LaunchDone
  <2>3. aged /\ ~ lost => stored = generation
    BY <2>1 DEF RotationInv
  <2> QED BY <2>1, <2>2, <2>3
<1>3. CASE Refresh
  BY <1>3, RefreshDone, RotationDone
<1>4. CASE RefreshFails
  <2>1. UNCHANGED <<account, client>> /\ (lost => lost')
    BY <1>4, RefreshFailsDone
  <2>2. aged' => aged /\ generation' = generation
    BY <1>4, RefreshFailsDone, RotationDone
  <2> QED BY <2>1, <2>2
<1>5. CASE Commit
  BY <1>5, CommitDone
<1>6. CASE WriteStarts
  BY <1>6, WriteStartsDone
<1>7. CASE SaveFails
  BY <1>7, SaveFailsDone
<1>8. CASE RotationSaved
  <2>1. aged' = aged /\ flight.phase = "committing"
    BY <1>8, RotationSavedDone
  <2> QED BY <2>1 DEF RotationInv, Rotating
<1>9. CASE LocalDataRemoved
  BY <1>9, LocalDataRemovedDone
<1>10. CASE DescriptorSaved
  <2>1. UNCHANGED <<serverVars, lost, client>> /\ account' \in {account, stored}
    BY <1>10, DescriptorSavedDone DEF AccountFollows
  <2>2. aged /\ ~ lost => stored \in {NoToken, generation}
    BY DEF RotationInv
  <2> QED BY <2>1, <2>2
<1>11. CASE Age
  <2>1. /\ UNCHANGED <<generation, lost, account>> /\ flight = NoFlight
        /\ stored # NoToken /\ shown \in Client /\ client[shown] = NewClient(account, gate)
        /\ client' = [NoClients EXCEPT ![shown] = client[shown]]
    BY <1>11 DEF Age, UpToDate
  <2>2. client[shown].token = account
    BY <2>1, NewClientType
  <2>3. ~ lost => account \in {NoToken, generation}
    BY <2>1 DEF AccountInv, RotationInv, Rotating
  <2>4. \A k \in Client : client'[k].token \in {NoToken, account}
    BY <2>1, <2>2
  <2> QED BY <2>1, <2>3, <2>4
<1>12. CASE Kill
  BY <1>12, KillDone
<1>13. CASE LaunchBlocked \/ Restored
  <2>1. /\ UNCHANGED <<serverVars, lost>> /\ account' = stored
        /\ client' \in {client, NoClients}
    BY <1>13 DEF LaunchBlocked, Restored
  <2>2. aged /\ ~ lost => stored \in {NoToken, generation}
    BY DEF RotationInv
  <2> QED BY <2>1, <2>2
<1>14. CASE UNCHANGED vars
  BY <1>14 DEF vars
<1>15. CASE UNCHANGED <<aged, lost, account, client, generation>>
  BY <1>15
<1> HIDE DEF TypeOK, IInv, serverVars, registryVars, gateVars, callVars, historyVars
<1> QED
  BY <1>1, <1>2, <1>3, <1>4, <1>5, <1>6, <1>7, <1>8, <1>9, <1>10, <1>11,
     <1>12, <1>13, <1>14, <1>15
  DEF Next, CallStep, FlightStep, WriteStep, serverVars, registryVars,
      gateVars, callVars, historyVars, Begin, Serve, CallFails, Refused, Clear,
      RemovalSaved, Close, Resolve, SignOut, EndSession

\* A step keeps PostedInv.
LEMMA PostedStep ==
    ASSUME IInv, TypeOK', [Next]_vars
    PROVE  PostedInv'
<1> USE Literals, Idles
DEF TypeOK, IInv, serverVars, registryVars, gateVars, callVars, historyVars,
    PostedInv
<1>1. ASSUME NEW c \in Call, Refused(c)
      PROVE  PostedInv'
  <2>1. UNCHANGED <<serverVars, lost>> /\ call[c].phase = "refused" /\ call[c].client \in Client
    BY <1>1, RefusedDone
  <2>2. CASE flight' = flight /\ (blind => blind')
    BY <2>1, <2>2
  <2>3. CASE /\ ~ LateRefusal(c) /\ blind' = (blind \/ (flight = NoFlight /\ Blind(c)))
             /\ flight = NoFlight /\ flight'.phase = "posted"
             /\ flight'.token = client[call[c].client].token
    <3>1. client[call[c].client].token # NoToken
      BY <2>1 DEF AccountInv, InUse
    <3>2. ~ lost => stored \in {NoToken, generation} /\ access \in {NoToken, generation}
      BY <2>3 DEF RotationInv, Rotating
    <3>3. CASE client[call[c].client].token = stored
      BY <2>1, <2>3, <3>1, <3>2, <3>3
    <3>4. CASE Blind(c)
      BY <2>3, <3>4
    <3>5. CASE /\ ~ Blind(c) /\ client[call[c].client].token # stored
      <4>1. access # NoToken /\ access = call[c].used
        BY <2>3, <3>5 DEF Blind, LateRefusal
      <4>2. ~ lost /\ ended = "no" => aged
        BY <2>1, <3>2, <4>1 DEF CallInv
      <4>3. ~ lost /\ ended = "no" => client[call[c].client].token = generation
        BY <2>1, <3>1, <4>2 DEF AgedInv
      <4> QED BY <2>1, <2>3, <4>3
    <3> QED BY <3>3, <3>4, <3>5
  <2> QED BY <1>1, <2>2, <2>3, RefusedDone
<1>2. CASE Refresh
  BY <1>2, RefreshDone, RotationDone
<1>3. CASE RefreshFails
  BY <1>3, RefreshFailsDone, RotationDone
<1>4. CASE Commit
  BY <1>4, CommitDone, Errored
<1>5. CASE Clear
  BY <1>5, ClearDone, Errored
<1>6. CASE WriteStarts
  BY <1>6, WriteStartsDone, Errored
<1>7. CASE SaveFails
  BY <1>7, SaveFailsDone, Errored
<1>8. CASE RotationSaved
  BY <1>8, RotationSavedDone, Succeeded
<1>9. CASE RemovalSaved
  BY <1>9, RemovalSavedDone
<1>15. CASE LocalDataRemoved
  BY <1>15, LocalDataRemovedDone, Errored
<1>10. CASE SignOut
  BY <1>10, SignOutDone
<1>11. CASE EndSession
  BY <1>11 DEF EndSession
<1>12. CASE Kill
  BY <1>12, KillDone, RotationDone
<1>13. CASE UNCHANGED vars
  BY <1>13 DEF vars
<1>14. CASE UNCHANGED <<flight, ended, lost, blind, generation>>
  BY <1>14
<1> HIDE DEF TypeOK, IInv, serverVars, registryVars, gateVars, callVars, historyVars
<1> QED
  BY <1>1, <1>2, <1>3, <1>4, <1>5, <1>6, <1>7, <1>8, <1>9, <1>10, <1>11,
     <1>12, <1>13, <1>14, <1>15
  DEF Next, CallStep, FlightStep, WriteStep, serverVars, registryVars,
      gateVars, callVars, historyVars, Render, Launch, Begin, Serve,
      CallFails, Resolve, DescriptorSaved, Close, Age, LaunchBlocked, Restored

\* A step keeps ReuseHasACause.
LEMMA ReuseStep ==
    ASSUME IInv, TypeOK', [Next]_vars
    PROVE  ReuseHasACause'
<1> USE Literals, Idles
DEF TypeOK, IInv, serverVars, registryVars, gateVars, callVars, historyVars,
    ReuseHasACause
<1>1. ASSUME NEW c \in Call, Refused(c)
      PROVE  ReuseHasACause'
  BY <1>1, RefusedDone
<1>2. CASE Refresh
  <2>1. flight.phase = "posted" /\ UNCHANGED blind
    BY <1>2, RefreshDone
  <2>2. lost => lost'
    BY <1>2, RefreshDone
  <2>3. generation \in Nat /\ generation # generation - 1
    BY DEF TypeOK
  <2>4. ended' = ended \/ (ended = "no" /\ flight.token = generation - 1)
    BY <1>2, RefreshDone, RotationDone
  <2>5. flight.token = generation - 1 /\ ended = "no" => lost \/ blind
    BY <2>1, <2>3 DEF PostedInv
  <2> QED BY <2>1, <2>2, <2>4, <2>5
<1>3. CASE RefreshFails
  <2>1. flight.phase = "posted" /\ UNCHANGED blind
    BY <1>3, RefreshFailsDone
  <2>2. lost => lost'
    BY <1>3, RefreshFailsDone
  <2>3. generation \in Nat /\ generation # generation - 1
    BY DEF TypeOK
  <2>4. ended' = ended \/ (ended = "no" /\ flight.token = generation - 1)
    BY <1>3, RefreshFailsDone, RotationDone
  <2>5. flight.token = generation - 1 /\ ended = "no" => lost \/ blind
    BY <2>1, <2>3 DEF PostedInv
  <2> QED BY <2>1, <2>2, <2>4, <2>5
<1>4. CASE Commit
  BY <1>4, CommitDone, Errored
<1>5. CASE WriteStarts
  BY <1>5, WriteStartsDone, Errored
<1>6. CASE SaveFails
  BY <1>6, SaveFailsDone, Errored
<1>7. CASE SignOut
  BY <1>7, SignOutDone
<1>8. CASE EndSession
  BY <1>8 DEF EndSession
<1>9. CASE Kill
  <2>1. UNCHANGED blind /\ (lost => lost')
    BY <1>9, KillDone
  <2>2. CASE UNCHANGED serverVars
    BY <2>1, <2>2
  <2>3. CASE flight.phase = "posted" /\ Rotation
    <3>1. generation \in Nat /\ generation # generation - 1
      BY DEF TypeOK
    <3>2. ended' = ended \/ (ended = "no" /\ flight.token = generation - 1)
      BY <2>3, RotationDone
    <3>3. flight.token = generation - 1 /\ ended = "no" => lost \/ blind
      BY <2>3, <3>1 DEF PostedInv
    <3> QED BY <2>1, <3>2, <3>3
  <2> QED BY <1>9, <2>2, <2>3, KillDone
<1>10. CASE UNCHANGED vars
  BY <1>10 DEF vars
<1>11. CASE UNCHANGED <<ended, lost, blind>>
  BY <1>11
<1> HIDE DEF TypeOK, IInv, serverVars, registryVars, gateVars, callVars, historyVars
<1> QED
  BY <1>1, <1>2, <1>3, <1>4, <1>5, <1>6, <1>7, <1>8, <1>9, <1>10, <1>11
  DEF Next, CallStep, FlightStep, WriteStep, serverVars, registryVars,
      gateVars, callVars, historyVars, Render, Launch, Begin, Serve,
      CallFails, Resolve, Clear, RotationSaved, RemovalSaved, DescriptorSaved,
      LocalDataRemoved, Close, Age, LaunchBlocked, Restored

\* A step keeps PublishedIsStored.
LEMMA PublishedStep ==
    ASSUME IInv, TypeOK', [Next]_vars
    PROVE  PublishedIsStored'
<1> USE Literals, Idles
DEF TypeOK, IInv, serverVars, registryVars, gateVars, callVars, historyVars,
    PublishedIsStored
<1>1. CASE Clear
  BY <1>1, ClearDone, Errored
<1>2. CASE RotationSaved
  <2>1. access' = flight.got /\ stored' \in {NoToken, flight.got} /\ flight.got \in Nat
    BY <1>2, RotationSavedDone
  <2> QED BY <2>1
<1>3. CASE RemovalSaved
  BY <1>3, RemovalSavedDone, Errored
<1>4. CASE DescriptorSaved
  BY <1>4, DescriptorSavedDone
<1>5. CASE Kill
  BY <1>5, KillDone, RotationDone
<1>6. CASE UNCHANGED vars
  BY <1>6 DEF vars
<1>7. CASE UNCHANGED <<access, stored>>
  BY <1>7
<1> HIDE DEF TypeOK, IInv, serverVars, registryVars, gateVars, callVars, historyVars
<1> QED
  BY <1>1, <1>2, <1>3, <1>4, <1>5, <1>6, <1>7
  DEF Next, CallStep, FlightStep, WriteStep, serverVars, registryVars,
      gateVars, callVars, historyVars, Render, Launch, Begin, Serve,
      CallFails, Refused, Resolve, Refresh, RefreshFails, Commit, WriteStarts,
      SaveFails, LocalDataRemoved, Close, SignOut, EndSession, Age, LaunchBlocked, Restored

LEMMA InitInv == Init => IInv
<1> SUFFICES ASSUME Init PROVE IInv
  OBVIOUS
<1> USE DEF Init
<1>1. call \in [Call -> CallRecord] /\ flight \in FlightRecord
  BY Idles
<1>2. client \in [Client -> ClientRecord] /\ gate \in GateRecord /\ queue \in Seq(Write)
  BY Literals, Idles DEF GateRecord
<1>3. 0 \in 0 .. MaxTroubles
  BY MaxTroublesAssumption
<1>4. /\ running \in BOOLEAN /\ aged \in BOOLEAN /\ writing \in BOOLEAN
      /\ leaving \in BOOLEAN /\ lost \in BOOLEAN /\ blind \in BOOLEAN /\ signedOut \in BOOLEAN
  BY Zenon
<1>5. generation \in Nat \ {0} /\ stored \in Token /\ access \in Token /\ account \in Token
  BY Literals
<1>6. TypeOK
  BY <1>1, <1>2, <1>3, <1>4, <1>5, Idles DEF TypeOK
<1>7. HeldInv /\ QueueInv /\ AccountInv
  BY Idles, NoClientAssumption DEF HeldInv, QueueInv, AccountInv, InUse
<1>8. RotationInv /\ CallInv /\ AgedInv /\ PostedInv
  BY Idles, Literals DEF RotationInv, Rotating, CallInv, AgedInv, PostedInv
<1>9. ReuseHasACause /\ PublishedIsStored
  BY DEF ReuseHasACause, PublishedIsStored
<1> QED BY <1>6, <1>7, <1>8, <1>9 DEF IInv

LEMMA InvStep == IInv /\ [Next]_vars => IInv'
<1> SUFFICES ASSUME IInv, [Next]_vars PROVE IInv'
  OBVIOUS
<1>1. TypeOK'
  BY TypeStep
<1> QED
  BY <1>1, HeldStep, QueueStep, AccountStep, RotationStep, CallsStep, AgedStep,
     PostedStep, ReuseStep, PublishedStep DEF IInv

\* The invariant holds in every reachable state.
THEOREM Invariance == Spec => []IInv
  BY InitInv, InvStep, PTL DEF Spec

\* Type correctness of the session, its calls, its flight and its registry.
THEOREM TypeCorrect == Spec => []TypeOK
  BY Invariance, PTL DEF IInv

\* The session is taken for stolen only after a rotated token was lost or a call
\* was refused that had no access token to be told late by (service.py:63-68,
\* api-client/src/index.ts:247).
THEOREM ReuseIsExplained == Spec => []ReuseHasACause
  BY Invariance, PTL DEF IInv

\* A restart never goes back behind a published access token (api.test.ts:15).
THEOREM PublishedAreStored == Spec => []PublishedIsStored
  BY Invariance, PTL DEF IInv

=============================================================================
