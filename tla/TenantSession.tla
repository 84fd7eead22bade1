--------------------------- MODULE TenantSession ----------------------------
(***************************************************************************)
(* The session of a school account on a device: perum-mobile/src/auth       *)
(* (AuthProvider, createAccountClient, the traffic gate), the refresh       *)
(* flights of packages/api-client and the rotation of refresh tokens by     *)
(* perum-tenant/app/modules/auth/service.py.                                *)
(*                                                                         *)
(* The server knows the current refresh token and the one before it; to be  *)
(* shown the older one again ends the session.  The device keeps the token  *)
(* in a registry behind a queue of writes.  Each render of AuthProvider     *)
(* makes a new client with a copy of the token of its own, so calls of old  *)
(* and new clients overlap; they share one refresh flight and one access    *)
(* token.  A descriptor that expires closes the traffic gate for a while:   *)
(* no call starts, and no rotated token is committed.                       *)
(*                                                                         *)
(* A token is the number of the rotation that issued it.                    *)
(***************************************************************************)
EXTENDS Integers, Sequences

CONSTANTS
    Client,         \* clients of overlapping renders
    Call,           \* calls under way at the same time
    NoClient,
    MaxTroubles     \* bound on losses, restarts, expiries, extra renders

ASSUME NoClientAssumption == NoClient \notin Client
ASSUME MaxTroublesAssumption == MaxTroubles \in Nat

VARIABLES
    generation, \* the server: the current refresh token
    ended,      \* why the session ended: "no", "reuse", "revoked"
    aged,       \* the access token of this generation is past its lifetime
    running,    \* the process is alive
    stored,     \* the account's token in the registry, NoToken without one
    access,     \* accessTokens: the access token in memory
    account,    \* the account state of AuthProvider: its token
    gate,       \* the traffic gate: epoch, open, revision of the descriptor
    resolving,  \* refreshAccountDescriptor: "no", "asked", "writing"
    client,     \* client -> its token, the epoch and revision of its lease
    shown,      \* the apiClient of the last render
    call,       \* call -> where it is
    flight,     \* the refresh flight of the account
    queue,      \* writeQueue: writes of the registry not done
    writing,    \* the updater of its head has run, saveRegistry is under way
    lost,       \* history: a rotated token never reached the registry
    leaving,    \* removeAccount of signOut has still local data to remove
    blind,      \* history: see Blind
    signedOut,  \* history: the user signed out
    troubles

serverVars == <<generation, ended, aged>>
registryVars == <<stored, queue, writing, leaving>>
gateVars == <<gate, resolving>>
callVars == <<call, flight, client>>
historyVars == <<lost, blind, signedOut>>
vars == <<serverVars, running, registryVars, access, account, gateVars,
          callVars, shown, historyVars, troubles>>

NoToken == 0
Token == Nat

CallPhase == {"idle", "sent", "refused", "leading", "waiting"}
FlightPhase == {"none", "posted", "rotated", "failed", "committing", "clearing", "removing"}
CallRecord == [phase : CallPhase, client : Client \cup {NoClient}, used : Token,
               retried : BOOLEAN]
FlightRecord == [phase : FlightPhase, client : Client \cup {NoClient}, token : Token,
                 got : Token]
ClientRecord == [token : Token, epoch : Nat, revision : Nat]
GateRecord == [epoch : Nat, open : BOOLEAN, revision : Nat]
NoCall == [phase |-> "idle", client |-> NoClient, used |-> NoToken, retried |-> FALSE]
NoFlight == [phase |-> "none", client |-> NoClient, token |-> NoToken, got |-> NoToken]
Write == [kind : {"rotate", "clear", "signOut", "descriptor"}, token : Token, epoch : Nat,
          revision : Nat]

TypeOK ==
    /\ generation \in Nat \ {0}
    /\ ended \in {"no", "reuse", "revoked"}
    /\ aged \in BOOLEAN
    /\ running \in BOOLEAN
    /\ stored \in Token
    /\ access \in Token
    /\ account \in Token
    /\ gate \in GateRecord
    /\ resolving \in {"no", "asked", "writing"}
    /\ client \in [Client -> ClientRecord]
    /\ shown \in Client \cup {NoClient}
    /\ call \in [Call -> CallRecord]
    /\ flight \in FlightRecord
    /\ queue \in Seq(Write)
    /\ writing \in BOOLEAN
    /\ leaving \in BOOLEAN
    /\ lost \in BOOLEAN
    /\ blind \in BOOLEAN
    /\ signedOut \in BOOLEAN
    /\ troubles \in 0 .. MaxTroubles
    /\ \A c \in Call : call[c].phase \in {"leading", "waiting"} => flight # NoFlight
    /\ \A i \in DOMAIN queue :
            /\ queue[i].kind = "rotate" => flight.phase = "committing"
            /\ queue[i].kind = "clear" => flight.phase = "clearing"

NoClients == [k \in Client |-> [token |-> NoToken, epoch |-> 0, revision |-> 0]]

\* Signed in earlier; the process is not running.
Init ==
    /\ generation = 1 /\ ended = "no" /\ aged = FALSE
    /\ running = FALSE
    /\ stored = 1 /\ access = NoToken /\ account = NoToken
    /\ gate = [epoch |-> 0, open |-> FALSE, revision |-> 0]
    /\ resolving = "no"
    /\ client = NoClients
    /\ shown = NoClient
    /\ call = [c \in Call |-> NoCall]
    /\ flight = NoFlight
    /\ queue = <<>> /\ writing = FALSE /\ leaving = FALSE
    /\ lost = FALSE /\ blind = FALSE /\ signedOut = FALSE
    /\ troubles = 0

Trouble == troubles < MaxTroubles /\ troubles' = troubles + 1

-----------------------------------------------------------------------------
(* Renders and clients *)

InUse(k) == k = shown \/ flight.client = k \/ \E c \in Call : call[c].client = k
Unused(k) == ~ InUse(k) /\ k = CHOOSE l \in Client : ~ InUse(l)

\* createAccountClient: a copy of the token, and a lease of the gate.
NewClient(token, g) == [token |-> token, epoch |-> g.epoch, revision |-> g.revision]

\* The client of the last render is what a render would make now.
UpToDate == shown # NoClient /\ client[shown] = NewClient(account, gate)

\* AuthProvider makes a client with every render while the gate is open.
Render(k) ==
    /\ running /\ account # NoToken /\ gate.open
    /\ Unused(k)
    /\ \/ ~ UpToDate /\ UNCHANGED troubles
       \/ UpToDate /\ Trouble
    /\ client' = [client EXCEPT ![k] = NewClient(account, gate)]
    /\ shown' = k
    /\ UNCHANGED <<serverVars, running, registryVars, access, account, gateVars, call, flight, historyVars>>

\* assertLease of a client, asked when a call starts and when it is repeated.
LeaseHolds(k) == gate.open /\ client[k].epoch = gate.epoch

\* The lease that is taken when a rotated token is committed or the account is
\* cleared: the gate is open for the client's account and descriptor.
GateAdmits(k) == gate.open /\ client[k].revision = gate.revision

-----------------------------------------------------------------------------
(* Calls *)

\* The access token is of the current rotation and not too old.
Valid(used) == used = generation /\ ended = "no" /\ ~ aged

\* Screens call with the client of the last render, callbacks they left behind
\* with that of an earlier one.  restore() makes one call only, that of Launch.
Begin(c) ==
    /\ call[c] = NoCall
    /\ account # NoToken
    /\ \E k \in Client :
        /\ client[k].token # NoToken /\ LeaseHolds(k)
        /\ call' = [call EXCEPT ![c] = [phase |-> "sent", client |-> k, used |-> access,
                                        retried |-> FALSE]]
    /\ UNCHANGED <<serverVars, running, registryVars, access, account, gateVars,
                   flight, client, shown, historyVars, troubles>>

\* The server answers, with 401 to an access token that is not valid.
Serve(c) ==
    /\ call[c].phase = "sent"
    /\ call' = [call EXCEPT ![c] =
                IF Valid(@.used) THEN NoCall ELSE [@ EXCEPT !.phase = "refused"]]
    /\ UNCHANGED <<serverVars, running, registryVars, access, account, gateVars,
                   flight, client, shown, historyVars, troubles>>

CallFails(c) ==
    /\ call[c].phase = "sent"
    /\ Trouble
    /\ call' = [call EXCEPT ![c] = NoCall]
    /\ UNCHANGED <<serverVars, running, registryVars, access, account, gateVars,
                   flight, client, shown, historyVars>>

\* The request is made again, once, if the lease of its client still holds.
Repeated(c, token) ==
    IF LeaseHolds(call[c].client)
    THEN [call[c] EXCEPT !.phase = "sent", !.used = token, !.retried = TRUE]
    ELSE NoCall

\* MUTANT of LateRefusal: every 401 asks for a refresh
LateRefusalNever(c) == FALSE

\* A 401 to a token that was rotated meanwhile needs no refresh.
LateRefusal(c) ==
    /\ call[c].used # NoToken /\ access # NoToken
    /\ access # call[c].used

\* There are no two access tokens to tell a late 401 by, and its client has an
\* old copy of the refresh token.
Blind(c) ==
    /\ call[c].used = NoToken \/ access = NoToken
    /\ client[call[c].client].token # stored

\* MUTANT of Posted: a client refreshes on its own while a flight is under way
PostedEach(c) ==
    [phase |-> "posted", client |-> call[c].client, token |-> client[call[c].client].token,
     got |-> NoToken]

\* One flight for all clients of the account: its call leads it, the next wait.
Posted(c) ==
    IF flight # NoFlight THEN flight
    ELSE [phase |-> "posted", client |-> call[c].client,
          token |-> client[call[c].client].token, got |-> NoToken]

\* The promise of the flight is rejected; it stays in refreshFlights until the
\* call that leads it has cleared the account.
Rejected == flight.phase \in {"failed", "clearing", "removing"}

Refused(c) ==
    /\ call[c].phase = "refused"
    /\ \/ /\ call[c].retried \/ (~ LateRefusal(c) /\ Rejected)
          /\ call' = [call EXCEPT ![c] = NoCall]
          /\ UNCHANGED <<flight, blind>>
       \/ /\ ~ call[c].retried /\ LateRefusal(c)
          /\ call' = [call EXCEPT ![c] = Repeated(c, access)]
          /\ UNCHANGED <<flight, blind>>
       \/ /\ ~ call[c].retried /\ ~ LateRefusal(c) /\ ~ Rejected
          /\ call' = [call EXCEPT ![c].phase =
                        IF flight = NoFlight THEN "leading" ELSE "waiting"]
          /\ flight' = Posted(c)
          /\ blind' = (blind \/ (flight = NoFlight /\ Blind(c)))
    /\ UNCHANGED <<serverVars, running, registryVars, access, account, gateVars,
                   client, shown, lost, signedOut, troubles>>

-----------------------------------------------------------------------------
(* The refresh flight *)

\* rotate_refresh: what the server does with the token it is shown.
Rotates == flight.token = generation /\ ended = "no"
Reused == flight.token = generation - 1

Rotation ==
    /\ generation' = IF Rotates THEN generation + 1 ELSE generation
    /\ aged' = IF Rotates THEN FALSE ELSE aged
    /\ ended' = IF Reused /\ ended = "no" THEN "reuse" ELSE ended

\* The promise is rejected: the calls that wait end, not the one that leads.
FlightFails ==
    /\ flight' = [flight EXCEPT !.phase = "failed"]
    /\ call' = [c \in Call |-> IF call[c].phase = "waiting" THEN NoCall ELSE call[c]]

Refresh ==
    /\ flight.phase = "posted"
    /\ Rotation
    /\ \/ /\ Rotates
          /\ flight' = [flight EXCEPT !.phase = "rotated", !.got = generation + 1]
          /\ UNCHANGED call
       \/ ~ Rotates /\ FlightFails
    /\ UNCHANGED <<running, registryVars, access, account, gateVars,
                   client, shown, historyVars, troubles>>

\* A broken connection, 429 or 5xx; or an answer that does not come back.
RefreshFails ==
    /\ flight.phase = "posted"
    /\ Trouble
    /\ \/ UNCHANGED <<serverVars, lost>>
       \/ Rotation /\ lost' = (lost \/ Rotates)
    /\ FlightFails
    /\ UNCHANGED <<running, registryVars, access, account, gateVars,
                   client, shown, blind, signedOut>>

\* The calls that need the flight are repeated, or end with its error.
Needs(c) == call[c].phase \in {"leading", "waiting"}

AfterSuccess(token) == [c \in Call |-> IF Needs(c) THEN Repeated(c, token) ELSE call[c]]

\* MUTANT of AfterError: the calls that wait are not told
AfterErrorForgets == [c \in Call |-> IF call[c].phase = "leading" THEN NoCall ELSE call[c]]

AfterError == [c \in Call |-> IF Needs(c) THEN NoCall ELSE call[c]]

FlightEndsInError == flight' = NoFlight /\ call' = AfterError

\* setTokens, up to the queue of writes.  A SessionCommitError clears nothing;
\* the rotated token is forgotten.
Commit ==
    /\ flight.phase = "rotated"
    /\ \/ /\ GateAdmits(flight.client)
          /\ queue' = Append(queue, [kind |-> "rotate", token |-> flight.got,
                                     epoch |-> gate.epoch, revision |-> 0])
          /\ flight' = [flight EXCEPT !.phase = "committing"]
          /\ UNCHANGED <<call, lost>>
       \/ /\ ~ GateAdmits(flight.client)
          /\ FlightEndsInError
          /\ lost' = TRUE
          /\ UNCHANGED queue
    /\ UNCHANGED <<serverVars, running, stored, writing, leaving, access, account, gateVars,
                   client, shown, blind, signedOut, troubles>>

\* Any other failure drops the access token and clears the account, network
\* failures included, unless the gate is closed.
Clear ==
    /\ flight.phase = "failed"
    /\ access' = NoToken
    /\ \/ /\ GateAdmits(flight.client)
          /\ queue' = Append(queue, [kind |-> "clear", token |-> NoToken,
                                     epoch |-> 0, revision |-> 0])
          /\ flight' = [flight EXCEPT !.phase = "clearing"]
          /\ UNCHANGED call
       \/ /\ ~ GateAdmits(flight.client)
          /\ FlightEndsInError
          /\ UNCHANGED queue
    /\ UNCHANGED <<serverVars, running, stored, writing, leaving, account, gateVars,
                   client, shown, historyVars, troubles>>

-----------------------------------------------------------------------------
(* The registry *)

Head1 == queue[1]

\* The updater of the first write runs; a rotation asks its lease again.
WriteStarts ==
    /\ queue # <<>> /\ ~ writing
    /\ \/ /\ Head1.kind = "rotate" => gate.open /\ gate.epoch = Head1.epoch
          /\ writing' = TRUE
          /\ UNCHANGED <<queue, flight, call, lost>>
       \/ /\ Head1.kind = "rotate" /\ ~ (gate.open /\ gate.epoch = Head1.epoch)
          /\ queue' = Tail(queue)
          /\ FlightEndsInError
          /\ lost' = TRUE
          /\ UNCHANGED writing
    /\ UNCHANGED <<serverVars, running, stored, leaving, access, account, gateVars,
                   client, shown, blind, signedOut, troubles>>

\* SecureStore refuses the write.  A rotated token is lost; an account that was
\* to be removed stays; a descriptor is asked for again, the gate still closed.
SaveFails ==
    /\ writing
    /\ Trouble
    /\ queue' = Tail(queue) /\ writing' = FALSE
    /\ lost' = (lost \/ Head1.kind = "rotate")
    /\ IF Head1.kind \in {"rotate", "clear"} THEN FlightEndsInError
       ELSE UNCHANGED <<flight, call>>
    /\ resolving' = IF Head1.kind = "descriptor" THEN "asked" ELSE resolving
    /\ UNCHANGED <<serverVars, running, stored, leaving, access, account, gate,
                   client, shown, blind, signedOut>>

\* The account state follows the registry while the account is selected in it.
AccountFollows == account' = IF account = NoToken \/ stored = NoToken THEN account ELSE stored'

\* A rotated token is stored with the account, if it is still there; then the
\* client and the access token follow, and the calls that waited.
RotationSaved ==
    /\ writing /\ Head1.kind = "rotate"
    /\ queue' = Tail(queue) /\ writing' = FALSE
    /\ stored' = IF stored = NoToken THEN NoToken ELSE Head1.token
    /\ AccountFollows
    /\ access' = Head1.token
    /\ client' = [client EXCEPT ![flight.client].token = Head1.token]
    /\ flight' = NoFlight
    /\ call' = AfterSuccess(Head1.token)
    /\ UNCHANGED <<serverVars, running, leaving, gateVars, shown, historyVars, troubles>>

\* removeAccount: the registry is without the account, and the access token is
\* dropped; the account is still shown while its local data are removed.
RemovalSaved ==
    /\ writing /\ Head1.kind \in {"clear", "signOut"}
    /\ queue' = Tail(queue) /\ writing' = FALSE
    /\ stored' = NoToken /\ access' = NoToken
    /\ \/ /\ Head1.kind = "clear"
          /\ flight' = [flight EXCEPT !.phase = "removing"]
          /\ UNCHANGED leaving
       \/ /\ Head1.kind = "signOut"
          /\ leaving' = TRUE
          /\ UNCHANGED flight
    /\ UNCHANGED <<serverVars, running, account, gateVars, call, client, shown,
                   historyVars, troubles>>

\* Its local data are gone, its outboxes too: it is no longer shown.
LocalDataRemoved ==
    /\ \/ /\ flight.phase = "removing"
          /\ FlightEndsInError
          /\ UNCHANGED leaving
       \/ /\ leaving
          /\ leaving' = FALSE
          /\ UNCHANGED <<flight, call>>
    /\ account' = NoToken
    /\ shown' = NoClient
    /\ UNCHANGED <<serverVars, running, stored, queue, writing, access, gateVars,
                   client, historyVars, troubles>>

\* MUTANT of DescriptorToken: the account is written back as it was read
DescriptorTokenRead == Head1.token

\* The account of an accepted descriptor is a copy; its token is not written.
DescriptorToken == stored

\* An accepted descriptor; the gate opens unless it was closed once more.
DescriptorSaved ==
    /\ writing /\ Head1.kind = "descriptor"
    /\ queue' = Tail(queue) /\ writing' = FALSE
    /\ resolving' = "no"
    /\ gate' = IF gate.epoch = Head1.epoch
               THEN [gate EXCEPT !.open = TRUE, !.revision = Head1.revision] ELSE gate
    /\ stored' = IF stored = NoToken THEN NoToken ELSE DescriptorToken
    /\ AccountFollows
    /\ UNCHANGED <<serverVars, running, leaving, access, callVars, shown, historyVars, troubles>>

-----------------------------------------------------------------------------
(* The descriptor *)

\* The descriptor expired, or the application is back after it did.  An account
\* that is being removed is not in the registry: its descriptor is not asked for.
Close ==
    /\ running /\ account # NoToken /\ resolving = "no"
    /\ Trouble
    /\ gate' = [gate EXCEPT !.open = FALSE, !.epoch = @ + 1]
    /\ shown' = NoClient
    /\ resolving' = IF stored = NoToken THEN "no" ELSE "asked"
    /\ UNCHANGED <<serverVars, running, registryVars, access, account, callVars, historyVars>>

\* A descriptor is accepted, the same or a new revision; a failure is tried
\* again after a minute with the gate still closed.
Resolve(revision) ==
    /\ resolving = "asked"
    /\ revision \in {gate.revision, gate.revision + 1}
    /\ resolving' = "writing"
    /\ queue' = Append(queue, [kind |-> "descriptor", token |-> stored,
                               epoch |-> gate.epoch, revision |-> revision])
    /\ UNCHANGED <<serverVars, running, stored, writing, leaving, access, account, gate,
                   callVars, shown, historyVars, troubles>>

-----------------------------------------------------------------------------
(* The user, the process and the server *)

\* The logout call reaches the server or not; then the account is removed.
SignOut ==
    /\ running /\ account # NoToken /\ ~ signedOut
    /\ signedOut' = TRUE
    /\ ended' \in {ended, IF ended = "no" THEN "revoked" ELSE ended}
    /\ queue' = Append(queue, [kind |-> "signOut", token |-> NoToken,
                               epoch |-> 0, revision |-> 0])
    /\ UNCHANGED <<generation, aged, running, stored, writing, leaving, access, account,
                   gateVars, callVars, shown, lost, blind, troubles>>

\* The server's session is revoked or expires.
EndSession ==
    /\ ended = "no"
    /\ Trouble
    /\ ended' = "revoked"
    /\ UNCHANGED <<generation, aged, running, registryVars, access, account,
                   gateVars, callVars, shown, historyVars>>

\* An access token lives for a week: no call is older, nor a render, a callback
\* or the removal of an account.
Age ==
    /\ ~ aged /\ running /\ UpToDate /\ stored # NoToken
    /\ flight = NoFlight /\ \A c \in Call : call[c] = NoCall
    /\ Trouble
    /\ aged' = TRUE
    /\ client' = [NoClients EXCEPT ![shown] = client[shown]]
    /\ UNCHANGED <<generation, ended, running, registryVars, access, account,
                   gateVars, call, flight, shown, historyVars>>

\* The process dies.  A refresh on its way is served or not, a write under way
\* is done or not.
Kill ==
    /\ running
    /\ Trouble
    /\ running' = FALSE
    /\ access' = NoToken /\ account' = NoToken
    /\ shown' = NoClient
    /\ call' = [c \in Call |-> NoCall]
    /\ flight' = NoFlight
    /\ client' = NoClients
    /\ queue' = <<>> /\ writing' = FALSE /\ leaving' = FALSE
    /\ gate' = [gate EXCEPT !.open = FALSE, !.epoch = @ + 1]
    /\ resolving' = "no"
    /\ IF flight.phase = "posted" THEN Rotation \/ UNCHANGED serverVars
       ELSE UNCHANGED serverVars
    /\ stored' \in {stored, IF ~ writing \/ Head1.kind = "descriptor" \/ stored = NoToken
                            THEN stored ELSE Head1.token}
    /\ lost' = (lost \/ stored' # generation')
    /\ UNCHANGED <<blind, signedOut>>

\* restore(): the gate opens for a descriptor that is valid, or may be used a
\* while longer, and /user/me is called with a client of the stored token.
Launch(k, c) ==
    /\ ~ running /\ stored # NoToken
    /\ Unused(k)
    /\ running' = TRUE
    /\ gate' = [gate EXCEPT !.open = TRUE]
    /\ client' = [client EXCEPT ![k] = NewClient(stored, gate)]
    /\ call' = [call EXCEPT ![c] = [phase |-> "sent", client |-> k, used |-> NoToken,
                                    retried |-> FALSE]]
    /\ UNCHANGED <<serverVars, registryVars, access, account, resolving, flight,
                   shown, historyVars, troubles>>

\* The descriptor must be resolved first: the gate stays closed.
LaunchBlocked ==
    /\ ~ running /\ stored # NoToken
    /\ Trouble
    /\ running' = TRUE
    /\ account' = stored
    /\ resolving' = "asked"
    /\ UNCHANGED <<serverVars, registryVars, access, gate, callVars, shown, historyVars>>

\* /user/me has ended, one way or the other: the account is shown, and the
\* client of restore() is forgotten.
Restored ==
    /\ running /\ account = NoToken /\ stored # NoToken /\ shown = NoClient
    /\ flight = NoFlight /\ \A c \in Call : call[c] = NoCall
    /\ account' = stored
    /\ client' = NoClients
    /\ UNCHANGED <<serverVars, running, registryVars, access, gateVars, call, flight,
                   shown, historyVars, troubles>>

-----------------------------------------------------------------------------

CallStep(c) == Serve(c) \/ CallFails(c) \/ Refused(c)
FlightStep == Refresh \/ RefreshFails \/ Commit \/ Clear
WriteStep == WriteStarts \/ SaveFails \/ RotationSaved \/ RemovalSaved \/ DescriptorSaved

Next ==
    \/ \E k \in Client : Render(k) \/ \E c \in Call : Launch(k, c)
    \/ \E c \in Call : Begin(c) \/ CallStep(c)
    \/ \E revision \in {gate.revision, gate.revision + 1} : Resolve(revision)
    \/ FlightStep \/ WriteStep \/ LocalDataRemoved
    \/ Close \/ SignOut \/ EndSession \/ Age \/ Kill \/ LaunchBlocked \/ Restored

Spec == Init /\ [][Next]_vars

\* Requests are answered or fail, a write of the registry ends, and so does the
\* removal of an account's local data, which waits for the disk alone.
Fairness ==
    /\ \A c \in Call : WF_vars(CallStep(c))
    /\ WF_vars(FlightStep) /\ WF_vars(WriteStep) /\ WF_vars(LocalDataRemoved)

FairSpec == Spec /\ Fairness

-----------------------------------------------------------------------------
(* Properties *)

\* The session is taken for stolen (service.py:63-68) only when a rotated token was
\* really lost (its answer, its commit while the gate was closed, its write, or the
\* process), or through a call that was sent without an access token, or whose 401
\* comes when it was dropped: index.ts:247 takes such a 401 for one that needs a
\* refresh.  However calls, renders, the gate and the registry overlap, nothing
\* else shows the server a token twice.
ReuseHasACause == ended = "reuse" => lost \/ blind

\* An access token is published only after the refresh token of its rotation is
\* in the registry (api.test.ts:15), so a restart does not go back behind it.
PublishedIsStored == access # NoToken /\ stored # NoToken => access <= stored

\* Every call ends, those that wait for the flight of another client too.
EveryCallEnds == \A c \in Call : call[c] # NoCall ~> call[c] = NoCall

=============================================================================
