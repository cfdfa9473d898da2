------------------------------ MODULE Session ------------------------------
(***************************************************************************)
(* The anonymous session of the phone: the persisted auth store, the       *)
(* bootstrap at start, the two ways to refresh tokens (the bootstrap and   *)
(* the interceptor of api/client.ts, which know nothing of each other) and *)
(* what a change of the session resets.  One JavaScript thread; handlers   *)
(* interleave at their awaits.                                             *)
(*                                                                         *)
(* A pair of tokens is known by its account and the epoch it was issued    *)
(* in: its access token is good in that epoch only, its refresh token as   *)
(* long as the account exists.                                             *)
(***************************************************************************)
EXTENDS Naturals, FiniteSets

CONSTANTS Requests,      \* requests of apiClient: they pass its interceptor
          Safe,          \* those it may repeat after a 429 (GET, HEAD)
          MaxAttempts,   \* DEFAULT_RETRY_ATTEMPTS
          MaxPurges, MaxEpochs, MaxKills       \* model bounds

ASSUME RequestAssumption == Safe \subseteq Requests /\ IsFiniteSet(Requests)
ASSUME BoundAssumption   == {MaxAttempts, MaxPurges, MaxEpochs, MaxKills} \subseteq Nat

VARIABLES
    account,   \* the account the server has for this device
    epoch,     \* access tokens of earlier epochs have expired
    disk,      \* the session the auth store has persisted
    session,   \* the session it holds
    status,    \* bootstrapStatus
    hydrated,  \* stores that are rehydrated
    client,    \* the pair in the module variables of api/client.ts
    boot,      \* which answer bootstrapAnonymousAuth awaits
    call,      \* [Callers -> call], requests to /auth in flight
    at, carried, retried, again,     \* per request: stage, token, _retry, _retryCount
    rounds,    \* refreshes the interceptor began since it last had none
    scoped,    \* whose downloads and purchases the stores show
    saved,     \* the same, as read from disk at start
    late,      \* a reset came before those stores were rehydrated
    crossed,   \* the account was purged while a call to /auth was in flight
    kills

serverVars  == <<account, epoch>>
storeVars   == <<disk, session, status, hydrated>>
requestVars == <<at, carried, retried, again>>
scopedVars  == <<scoped, saved, late>>
vars == <<serverVars, storeVars, client, boot, call, requestVars, rounds, scopedVars, crossed, kills>>

Nobody    == 0
Accounts  == 1..(MaxPurges + 1)
NoToken   == [who |-> Nobody, epoch |-> 0]
Tokens    == [who : Accounts, epoch : 0..MaxEpochs]
NoSession == [user |-> Nobody, pair |-> NoToken]
Sessions  == [user : Accounts \cup {Nobody}, pair : Tokens \cup {NoToken}]

Stores   == {"settings", "auth", "scoped"}
Callers  == {"boot", "client"}
NoCall   == [at |-> "idle", with |-> NoToken, got |-> NoToken]
Calls    == [at : {"idle", "asked", "answered"}, with : Tokens \cup {NoToken},
             got : Tokens \cup {NoToken}]
Stages   == {"new", "sent", "held", "backoff", "ok", "failed"}

Init ==
    /\ account = 1 /\ epoch = 0
    /\ disk \in {NoSession, [user |-> 1, pair |-> [who |-> 1, epoch |-> 0]]}
    /\ session = NoSession /\ status = "idle" /\ hydrated = {}
    /\ client = NoToken /\ boot = "off" /\ call = [c \in Callers |-> NoCall]
    /\ at = [r \in Requests |-> "new"] /\ carried = [r \in Requests |-> NoToken]
    /\ retried = {} /\ again = [r \in Requests |-> 0] /\ rounds = 0
    /\ scoped = Nobody /\ saved = disk.user /\ late = FALSE
    /\ crossed = FALSE /\ kills = 0

Valid(t) == t # NoToken /\ t.epoch = epoch

-----------------------------------------------------------------------------
(***************************************************************************)
(* The store.  Its subscriber (authBoundaryReset) runs within set(): when  *)
(* the token goes or the user changes it resets what belongs to the user.  *)
(***************************************************************************)

Boundary(s) ==
    \/ session.pair # NoToken /\ s.pair = NoToken
    \/ Nobody \notin {session.user, s.user} /\ s.user # session.user

SetStore(s) ==
    /\ session' = s /\ disk' = s
    /\ IF Boundary(s)
       THEN scoped' = Nobody /\ late' = (late \/ "scoped" \notin hydrated)
       ELSE UNCHANGED <<scoped, late>>
    /\ UNCHANGED saved

SetSession(u, t) == SetStore([user |-> u, pair |-> t])
ClearSession     == SetStore(NoSession)

\* Rehydration replaces what the store holds, also what it got since start.
Hydrate(s) ==
    /\ s \in Stores \ hydrated
    /\ hydrated' = hydrated \cup {s}
    /\ session' = IF s = "auth" THEN disk ELSE session
    /\ IF s = "scoped" THEN scoped' = saved /\ saved' = Nobody ELSE UNCHANGED <<scoped, saved>>
    /\ UNCHANGED <<serverVars, disk, status, client, boot, call, requestVars, rounds, late, crossed, kills>>

\* A download or a purchase of the user who is signed in.
Acquire ==
    /\ "scoped" \in hydrated /\ session.user # Nobody
    /\ scoped' = session.user
    /\ UNCHANGED <<serverVars, storeVars, client, boot, call, requestVars, rounds, saved, late, crossed, kills>>

-----------------------------------------------------------------------------
(***************************************************************************)
(* Calls to /auth, and what their callers do with the answer.              *)
(***************************************************************************)
Ask(c, t) == call' = [call EXCEPT ![c] = [at |-> "asked", with |-> t, got |-> NoToken]]

Issued     == [who |-> account, epoch |-> epoch]

\* RefreshTokens asks for the account to exist, DeviceAuth creates one.
ServeAuth(c) ==
    /\ call[c].at = "asked"
    /\ call' = [call EXCEPT ![c].at = "answered", ![c].got =
                  IF call[c].with.who = account \/ (c = "boot" /\ boot = "device")
                  THEN Issued ELSE NoToken]
    /\ UNCHANGED <<serverVars, storeVars, client, boot, requestVars, rounds, scopedVars, crossed, kills>>

\* No network, a timeout, or an error status.
AuthFails(c) ==
    /\ call[c].at = "asked"
    /\ call' = [call EXCEPT ![c].at = "answered"]
    /\ UNCHANGED <<serverVars, storeVars, client, boot, requestVars, rounds, scopedVars, crossed, kills>>

\* Mutant: the user of the moment is not looked at.
AdoptBlindly(t) == IF t # NoToken
                   THEN SetSession(session.user, t) /\ client' = t
                   ELSE ClearSession /\ client' = NoToken

\* refreshAuthSession after its await: the new pair goes to whoever is signed
\* in by now, and any failure signs out.
Adopt(t) == IF t # NoToken /\ session.user # Nobody
            THEN SetSession(session.user, t) /\ client' = t
            ELSE ClearSession /\ client' = NoToken

Adopted(t) == t # NoToken /\ session.user # Nobody

\* The effect of the root layout: once, when both stores are rehydrated.
Bootstrap ==
    /\ {"settings", "auth"} \subseteq hydrated /\ status = "idle"
    /\ client' = session.pair /\ status' = "loading"
    /\ boot' = IF session.pair # NoToken THEN "refresh" ELSE "device"
    /\ Ask("boot", session.pair)
    /\ UNCHANGED <<serverVars, disk, session, hydrated, requestVars, rounds, scopedVars, crossed, kills>>

BootRefreshed ==
    /\ boot = "refresh" /\ call["boot"].at = "answered"
    /\ LET t == call["boot"].got
       IN  /\ Adopt(t)
           /\ IF Adopted(t)
              THEN status' = "ready" /\ boot' = "off" /\ call' = [call EXCEPT !["boot"] = NoCall]
              ELSE UNCHANGED status /\ boot' = "device" /\ Ask("boot", NoToken)
    /\ UNCHANGED <<serverVars, hydrated, requestVars, rounds, crossed, kills>>

\* authenticateDevice, and the catch of the bootstrap.
BootAuthenticated ==
    /\ boot = "device" /\ call["boot"].at = "answered"
    /\ LET t == call["boot"].got
       IN  IF t # NoToken
           THEN SetSession(t.who, t) /\ client' = t /\ status' = "ready"
           ELSE ClearSession /\ client' = NoToken /\ status' = "error"
    /\ boot' = "off" /\ call' = [call EXCEPT !["boot"] = NoCall]
    /\ UNCHANGED <<serverVars, hydrated, requestVars, rounds, crossed, kills>>

-----------------------------------------------------------------------------
(***************************************************************************)
(* Requests of apiClient and its interceptors.  In the app the replay of   *)
(* the offline queue makes them; the generated client accepts every status *)
(* (validateStatus) and so never comes here.                               *)
(***************************************************************************)
Goto(r, stage) == at' = [at EXCEPT ![r] = stage]

\* Its caller has the answer, and nobody the request.
Finish(r, stage) == /\ Goto(r, stage)
                    /\ carried' = [carried EXCEPT ![r] = NoToken] /\ again' = [again EXCEPT ![r] = 0]

\* sendQueuedRequest throws without a token; the request interceptor puts the
\* current one on, at a retry too.
Send(r) ==
    /\ at[r] \in {"new", "backoff"}
    /\ IF at[r] = "new" /\ client = NoToken
       THEN Goto(r, "failed") /\ UNCHANGED carried
       ELSE /\ Goto(r, "sent")
            /\ carried' = [carried EXCEPT ![r] = IF client = NoToken THEN @ ELSE client]
    /\ UNCHANGED <<serverVars, storeVars, client, boot, call, retried, again, rounds, scopedVars, crossed, kills>>

\* Success, or an error the client does not react to.
Settle(r) ==
    /\ at[r] = "sent"
    /\ Finish(r, "failed") \/ (Valid(carried[r]) /\ Finish(r, "ok"))
    /\ UNCHANGED <<serverVars, storeVars, client, boot, call, retried, rounds,
                   scopedVars, crossed, kills>>

\* Mutant: every 401 starts a refresh.
StartOrJoinEach == Ask("client", client) /\ rounds' = rounds + 1

StartOrJoin == IF call["client"].at = "idle"
               THEN Ask("client", client) /\ rounds' = rounds + 1
               ELSE UNCHANGED <<call, rounds>>
MayRefresh(r) == r \notin retried /\ client # NoToken

\* 401: one refresh for all who get it meanwhile.
Unauthorized(r) ==
    /\ at[r] = "sent" /\ ~Valid(carried[r])
    /\ IF MayRefresh(r)
       THEN Goto(r, "held") /\ retried' = retried \cup {r} /\ StartOrJoin /\ UNCHANGED <<carried, again>>
       ELSE Finish(r, "failed") /\ UNCHANGED <<retried, call, rounds>>
    /\ UNCHANGED <<serverVars, storeVars, client, boot, scopedVars, crossed, kills>>

MayRepeat(r) == r \in Safe \ retried /\ again[r] < MaxAttempts

\* 429: a safe request is repeated after a pause, never after a refresh.
TooManyRequests(r) ==
    /\ at[r] = "sent"
    /\ IF MayRepeat(r)
       THEN Goto(r, "backoff") /\ again' = [again EXCEPT ![r] = @ + 1] /\ UNCHANGED carried
       ELSE Finish(r, "failed")
    /\ UNCHANGED <<serverVars, storeVars, client, boot, call, retried, rounds, scopedVars, crossed, kills>>

\* Mutant: those that joined are forgotten.
ReleaseFirst(stage, t) ==
    \E q \in Requests : /\ at[q] = "held" /\ Goto(q, stage)
                        /\ carried' = [carried EXCEPT ![q] = t]
ReleaseAll(stage, t) ==
    /\ at' = [r \in Requests |-> IF at[r] = "held" THEN stage ELSE at[r]]
    /\ carried' = [r \in Requests |-> IF at[r] = "held" THEN t ELSE carried[r]]

\* The refresh of the interceptor ends: processQueue, and every request that
\* waited is sent again with the new token or rejected with its 401.
ClientRefreshed ==
    /\ call["client"].at = "answered"
    /\ LET t == call["client"].got
       IN  /\ Adopt(t)
           /\ status' = IF Adopted(t) THEN "ready" ELSE status
           /\ IF Adopted(t) THEN ReleaseAll("sent", t) ELSE ReleaseAll("failed", NoToken)
    /\ call' = [call EXCEPT !["client"] = NoCall] /\ rounds' = 0
    /\ UNCHANGED <<serverVars, hydrated, boot, retried, again, crossed, kills>>

-----------------------------------------------------------------------------
\* Access tokens expire; an account whose grace period is over is deleted; the
\* process dies.
Expire ==
    /\ epoch < MaxEpochs /\ epoch' = epoch + 1
    /\ UNCHANGED <<account, storeVars, client, boot, call, requestVars, rounds, scopedVars, crossed, kills>>

Purge ==
    /\ account <= MaxPurges /\ account' = account + 1
    /\ crossed' = (crossed \/ \E c \in Callers : call[c].at # "idle")
    /\ UNCHANGED <<epoch, storeVars, client, boot, call, requestVars, rounds, scopedVars, kills>>

Kill ==
    /\ kills < MaxKills /\ kills' = kills + 1
    /\ session' = NoSession /\ status' = "idle" /\ hydrated' = {}
    /\ client' = NoToken /\ boot' = "off" /\ call' = [c \in Callers |-> NoCall]
    /\ at' = [r \in Requests |-> IF at[r] \in {"new", "ok"} THEN at[r] ELSE "failed"]
    /\ carried' = [r \in Requests |-> NoToken] /\ retried' = {}
    /\ again' = [r \in Requests |-> 0]
    /\ scoped' = Nobody
    /\ saved' = IF late \/ "scoped" \in hydrated THEN scoped ELSE saved
    /\ rounds' = 0
    /\ UNCHANGED <<serverVars, disk, late, crossed>>

Answer(r) == Settle(r) \/ Unauthorized(r) \/ TooManyRequests(r)
Resume    == BootRefreshed \/ BootAuthenticated \/ ClientRefreshed

Step == \/ \E s \in Stores : Hydrate(s)
        \/ Acquire \/ Bootstrap \/ Resume
        \/ \E c \in Callers : ServeAuth(c) \/ AuthFails(c)
        \/ \E r \in Requests : Send(r) \/ Answer(r)
        \/ Expire \/ Purge

Next == Step \/ Kill
Spec == Init /\ [][Next]_vars

\* AsyncStorage answers, calls end (each has a timeout), timers fire and effects
\* run, unless the process dies; none of it waits for another forever.
Progress == \/ \E s \in Stores : Hydrate(s)
            \/ Bootstrap \/ Resume
            \/ \E c \in Callers : ServeAuth(c) \/ AuthFails(c)
            \/ \E r \in Requests : Answer(r) \/ (at[r] = "backoff" /\ Send(r))

FairSpec == Spec /\ WF_vars(Progress)

-----------------------------------------------------------------------------
TypeOK ==
    /\ account \in Accounts /\ epoch \in 0..MaxEpochs /\ kills \in 0..MaxKills
    /\ disk \in Sessions /\ session \in Sessions
    /\ status \in {"idle", "loading", "ready", "error"} /\ hydrated \subseteq Stores
    /\ client \in Tokens \cup {NoToken}
    /\ boot \in {"off", "refresh", "device"} /\ call \in [Callers -> Calls]
    /\ at \in [Requests -> Stages] /\ carried \in [Requests -> Tokens \cup {NoToken}]
    /\ retried \subseteq Requests /\ again \in [Requests -> 0..MaxAttempts]
    /\ rounds \in Nat
    /\ {scoped, saved} \subseteq Accounts \cup {Nobody}
    /\ {late, crossed} \subseteq BOOLEAN

\* The tokens of the store are those of its user, although a refresh gives its
\* answer to whoever is signed in when it comes: a signed-out store stays
\* signed out, and the client never speaks for another user.
SessionIsOneUser ==
    ~crossed =>
        /\ session.pair.who = session.user
        /\ session.user # Nobody => client.who \in {Nobody, session.user}

\* Downloads and purchases on the screen belong to whoever is signed in.
ScopedToUser ==
    ~late /\ "scoped" \in hydrated /\ session.user # Nobody => scoped \in {Nobody, session.user}

\* Store, client and screen belong to one user: both of the above.
OneUser == TypeOK /\ SessionIsOneUser /\ ScopedToUser

\* Every request of the client ends, with one refresh for all that are held.
Gate == INSTANCE RefreshGate WITH
          stage <- [r \in Requests |->
                      CASE at[r] \in {"ok", "failed"} -> "settled"
                        [] at[r] = "backoff" -> "sent"
                        [] OTHER -> at[r]],
          refreshing <- call["client"].at # "idle"
ImplementsGate == Gate!Spec

\* The start screen shows no spinner, and no request that was made is under way.
Settled == /\ hydrated = Stores => status \in {"ready", "error"}
           /\ \A r \in Requests : at[r] \in {"new", "ok", "failed"}
=============================================================================
