--------------------------- MODULE SessionProofs ---------------------------
(***************************************************************************)
(* Proofs about the session of the phone and its push registration: for    *)
(* any number of requests, purges, expiries, deaths and taps, what the     *)
(* phone holds belongs to one user, one refresh serves all requests that   *)
(* wait for it, and phone and server agree on who gets the pushes.         *)
(***************************************************************************)
EXTENDS PushRegistration, TLAPS

-----------------------------------------------------------------------------
(***************************************************************************)
(* Types.                                                                  *)
(***************************************************************************)
\* The bounds are natural numbers and the requests that may be repeated are requests.
LEMMA Bounds == /\ MaxAttempts \in Nat /\ MaxPurges \in Nat /\ MaxEpochs \in Nat /\ MaxKills \in Nat
                /\ Safe \subseteq Requests
  BY RequestAssumption, BoundAssumption

\* A token has an owner exactly if it is one; the account of the device is no nobody.
LEMMA Owners == /\ \A t \in Tokens \cup {NoToken} : (t = NoToken) <=> (t.who = Nobody)
                /\ \A t \in Tokens \cup {NoToken} : t.who \in Accounts \cup {Nobody}
                /\ Nobody \notin Accounts
  BY Bounds DEF Tokens, NoToken, Accounts, Nobody

\* What the server issues is a token.
LEMMA IssuedType == TypeOK => Issued \in Tokens
  BY Bounds DEF TypeOK, Issued, Tokens

\* An idle call is a call, and so is one that asks.
LEMMA CallTypes == /\ NoCall \in Calls
                   /\ \A t \in Tokens \cup {NoToken} : [at |-> "asked", with |-> t, got |-> NoToken] \in Calls
  BY DEF NoCall, Calls

\* The initial state is well typed.
LEMMA TypeInit == Init => TypeOK
<1> SUFFICES ASSUME Init PROVE TypeOK OBVIOUS
<1> USE Bounds
<1>1. [user |-> 1, pair |-> [who |-> 1, epoch |-> 0]] \in Sessions /\ NoSession \in Sessions
  BY DEF Sessions, NoSession, Tokens, Accounts
<1>2. disk \in Sessions /\ session \in Sessions /\ saved \in Accounts \cup {Nobody}
  BY <1>1 DEF Init, Sessions
<1>3. call \in [Callers -> Calls]
  BY CallTypes DEF Init
<1>4. account \in Accounts /\ epoch \in 0..MaxEpochs /\ kills \in 0..MaxKills
  BY DEF Init, Accounts
<1>5. /\ at \in [Requests -> Stages] /\ carried \in [Requests -> Tokens \cup {NoToken}]
      /\ again \in [Requests -> 0..MaxAttempts]
  BY DEF Init, Stages
<1> QED BY <1>2, <1>3, <1>4, <1>5 DEF Init, TypeOK

\* Setting the store to a session keeps its types.
LEMMA SetStoreType ==
  ASSUME TypeOK, NEW s \in Sessions, SetStore(s)
  PROVE  /\ session' \in Sessions /\ disk' \in Sessions /\ late' \in BOOLEAN
         /\ scoped' \in Accounts \cup {Nobody} /\ saved' \in Accounts \cup {Nobody}
  BY DEF SetStore, TypeOK, Nobody

\* So does what becomes of the answer to a refresh.
LEMMA AdoptType ==
  ASSUME TypeOK, NEW t \in Tokens \cup {NoToken}, Adopt(t)
  PROVE  /\ session' \in Sessions /\ disk' \in Sessions /\ late' \in BOOLEAN
         /\ scoped' \in Accounts \cup {Nobody} /\ saved' \in Accounts \cup {Nobody}
         /\ client' \in Tokens \cup {NoToken}
<1>1. NoSession \in Sessions /\ [user |-> session.user, pair |-> t] \in Sessions
  BY DEF TypeOK, Sessions, NoSession
<1>2. client' \in Tokens \cup {NoToken}
  BY DEF Adopt
<1>3. CASE t # NoToken /\ session.user # Nobody
  BY <1>1, <1>2, <1>3, SetStoreType DEF Adopt, SetSession
<1>4. CASE ~(t # NoToken /\ session.user # Nobody)
  BY <1>1, <1>2, <1>4, SetStoreType DEF Adopt, ClearSession
<1> QED BY <1>3, <1>4

\* Every step keeps the types.
LEMMA TypeStep == TypeOK /\ [Next]_vars => TypeOK'
<1> SUFFICES ASSUME TypeOK, [Next]_vars PROVE TypeOK' OBVIOUS
<1> USE Bounds DEF serverVars, storeVars, requestVars, scopedVars
<1>1. CASE UNCHANGED vars
  BY <1>1 DEF vars, TypeOK
<1>2. ASSUME NEW s \in Stores, Hydrate(s) PROVE TypeOK'
  BY <1>2 DEF Hydrate, TypeOK
<1>3. CASE Acquire
  BY <1>3 DEF Acquire, TypeOK, Sessions
<1>4. CASE Bootstrap
  <2>1. session.pair \in Tokens \cup {NoToken}
    BY DEF TypeOK, Sessions
  <2>2. call' \in [Callers -> Calls]
    BY <1>4, <2>1, CallTypes DEF Bootstrap, Ask, TypeOK
  <2> QED BY <1>4, <2>1, <2>2 DEF Bootstrap, TypeOK
<1>5. CASE BootRefreshed
  <2>1. call["boot"].got \in Tokens \cup {NoToken}
    BY DEF TypeOK, Calls, Callers
  <2>2. call' \in [Callers -> Calls]
    BY <1>5, CallTypes DEF BootRefreshed, Ask, TypeOK
  <2>3. Adopt(call["boot"].got)
    BY <1>5 DEF BootRefreshed
  <2> QED BY <1>5, <2>1, <2>2, <2>3, AdoptType DEF BootRefreshed, TypeOK
<1>6. CASE BootAuthenticated
  <2>1. call["boot"].got \in Tokens \cup {NoToken}
    BY DEF TypeOK, Calls, Callers
  <2>2. call' \in [Callers -> Calls]
    BY <1>6, CallTypes DEF BootAuthenticated, TypeOK
  <2>3. [user |-> call["boot"].got.who, pair |-> call["boot"].got] \in Sessions /\ NoSession \in Sessions
    BY <2>1, Owners DEF Sessions, NoSession
  <2>4. /\ session' \in Sessions /\ disk' \in Sessions /\ late' \in BOOLEAN
        /\ scoped' \in Accounts \cup {Nobody} /\ saved' \in Accounts \cup {Nobody}
    BY <1>6, <2>3, SetStoreType DEF BootAuthenticated, SetSession, ClearSession
  <2> QED BY <1>6, <2>1, <2>2, <2>4 DEF BootAuthenticated, TypeOK
<1>7. CASE ClientRefreshed
  <2>1. call["client"].got \in Tokens \cup {NoToken}
    BY DEF TypeOK, Calls, Callers
  <2>2. call' \in [Callers -> Calls]
    BY <1>7, CallTypes DEF ClientRefreshed, TypeOK
  <2>3. at' \in [Requests -> Stages] /\ carried' \in [Requests -> Tokens \cup {NoToken}]
    BY <1>7, <2>1 DEF ClientRefreshed, ReleaseAll, TypeOK, Stages
  <2>4. Adopt(call["client"].got)
    BY <1>7 DEF ClientRefreshed
  <2> QED BY <1>7, <2>1, <2>2, <2>3, <2>4, AdoptType DEF ClientRefreshed, TypeOK
<1>8. ASSUME NEW c \in Callers, ServeAuth(c) \/ AuthFails(c) PROVE TypeOK'
  <2>1. call' \in [Callers -> Calls]
    BY <1>8, IssuedType DEF ServeAuth, AuthFails, TypeOK, Calls
  <2> QED BY <1>8, <2>1 DEF ServeAuth, AuthFails, TypeOK
<1>9. ASSUME NEW r \in Requests, Send(r) \/ Answer(r) PROVE TypeOK'
  <2>1. CASE Send(r)
    BY <2>1 DEF Send, Goto, TypeOK, Stages
  <2>2. CASE Settle(r)
    BY <2>2 DEF Settle, Finish, Goto, TypeOK, Stages
  <2>3. CASE Unauthorized(r)
    <3>1. call' \in [Callers -> Calls]
      BY <2>3, CallTypes DEF Unauthorized, StartOrJoin, Ask, TypeOK
    <3>2. rounds' \in Nat /\ retried' \subseteq Requests
      BY <2>3 DEF Unauthorized, StartOrJoin, TypeOK
    <3>3. /\ at' \in [Requests -> Stages] /\ carried' \in [Requests -> Tokens \cup {NoToken}]
          /\ again' \in [Requests -> 0..MaxAttempts]
      BY <2>3 DEF Unauthorized, Finish, Goto, TypeOK, Stages
    <3> QED BY <2>3, <3>1, <3>2, <3>3 DEF Unauthorized, TypeOK
  <2>4. CASE TooManyRequests(r)
    <3>1. again' \in [Requests -> 0..MaxAttempts]
      BY <2>4 DEF TooManyRequests, MayRepeat, Finish, TypeOK
    <3> QED BY <2>4, <3>1 DEF TooManyRequests, Finish, Goto, TypeOK, Stages
  <2> QED BY <1>9, <2>1, <2>2, <2>3, <2>4 DEF Answer
<1>10. CASE Expire
  BY <1>10 DEF Expire, TypeOK
<1>11. CASE Purge
  BY <1>11 DEF Purge, TypeOK, Accounts
<1>12. CASE Kill
  <2>1. call' \in [Callers -> Calls] /\ NoSession \in Sessions
    BY <1>12, CallTypes DEF Kill, Sessions, NoSession
  <2>2. at' \in [Requests -> Stages] /\ carried' \in [Requests -> Tokens \cup {NoToken}]
    BY <1>12 DEF Kill, TypeOK, Stages
  <2> QED BY <1>12, <2>1, <2>2 DEF Kill, TypeOK, Nobody
<1> QED BY <1>1, <1>2, <1>3, <1>4, <1>5, <1>6, <1>7, <1>8, <1>9, <1>10, <1>11, <1>12
       DEF Next, Step, Resume

\* Store, client, calls, requests and screen keep their types.
THEOREM TypeCorrect == Spec => []TypeOK
  BY TypeInit, TypeStep, PTL DEF Spec

-----------------------------------------------------------------------------
(***************************************************************************)
(* One user.                                                               *)
(***************************************************************************)
\* Before the store is rehydrated nothing has begun; from then on it is what is on
\* disk.  A call that is idle is about nothing.
Phases ==
    /\ "auth" \notin hydrated => status = "idle" /\ session = NoSession
    /\ "auth" \in hydrated => session = disk
    /\ status = "idle" => client = NoToken /\ \A c \in Callers : call[c].at = "idle"
    /\ disk.pair = NoToken <=> disk.user = Nobody
    /\ \A c \in Callers : /\ call[c].at = "idle" => call[c] = NoCall
                          /\ call[c].at # "answered" => call[c].got = NoToken

\* The bootstrap and the call it awaits; it signs in a device only once nobody is.
Booting ==
    /\ boot = "off" <=> call["boot"].at = "idle"
    /\ boot = "device" => session.user = Nobody /\ call["boot"].with = NoToken
    /\ boot = "refresh" => call["boot"].with # NoToken
    /\ call["client"].at # "idle" => call["client"].with # NoToken

\* Whoever is signed in while an answer is on its way is the one it is for: the owner
\* of the pair that was sent, or the account the server has for the device.
Owner ==
    ~crossed =>
        /\ disk.pair.who = disk.user
        /\ session.user # Nobody => client.who \in {Nobody, session.user}
        /\ \A c \in Callers : call[c].with # NoToken =>
              session.user \in {Nobody, call[c].with.who, account}
        /\ \A c \in Callers : call[c].got # NoToken =>
              call[c].got.who = account /\ session.user \in {Nobody, account}

\* What the screen shows, or will show when it is rehydrated, is the stored user's.
Scope == ~late => (IF "scoped" \in hydrated THEN scoped ELSE saved) \in {Nobody, disk.user}

SessionInv == TypeOK /\ Phases /\ Booting /\ Owner /\ Scope

\* At first nobody is signed in and nothing has begun.
LEMMA SessionInit == Init => SessionInv
<1> SUFFICES ASSUME Init PROVE SessionInv OBVIOUS
<1>1. Phases
  BY DEF Init, Phases, NoSession, NoToken, Nobody, NoCall
<1>2. Booting
  BY DEF Init, Booting, NoCall, Callers
<1>3. Owner
  BY DEF Init, Owner, NoSession, NoToken, Nobody, NoCall, Callers
<1>4. Scope
  BY DEF Init, Scope
<1> QED BY <1>1, <1>2, <1>3, <1>4, TypeInit DEF SessionInv

\* A session that is set is on disk, and either the screen is the user's or a reset
\* came too early.
LEMMA SetStoreScope ==
  ASSUME SessionInv, "auth" \in hydrated, UNCHANGED hydrated, NEW s \in Sessions, SetStore(s),
         s = NoSession \/ (s.pair # NoToken /\ s.user # Nobody)
  PROVE  session' = s /\ disk' = s /\ Scope'
<1>1. session = disk
  BY DEF SessionInv, Phases
<1>2. CASE Boundary(s)
  BY <1>1, <1>2 DEF SetStore, Scope
<1>3. CASE ~Boundary(s)
  BY <1>1, <1>3 DEF SetStore, Scope, SessionInv, Boundary, Phases, NoSession, NoToken, Nobody
<1> QED BY <1>2, <1>3 DEF SetStore

\* An answer to a refresh gives the user of the moment new tokens, or signs him out.
LEMMA AdoptSets ==
  ASSUME SessionInv, "auth" \in hydrated, UNCHANGED hydrated,
         NEW t \in Tokens \cup {NoToken}, Adopt(t)
  PROVE  /\ disk' = session' /\ Scope'
         /\ Adopted(t) => session' = [user |-> session.user, pair |-> t] /\ client' = t
         /\ ~Adopted(t) => session' = NoSession /\ client' = NoToken
<1>1. NoSession \in Sessions /\ [user |-> session.user, pair |-> t] \in Sessions
  BY DEF SessionInv, TypeOK, Sessions, NoSession
<1>2. CASE Adopted(t)
  BY <1>1, <1>2, SetStoreScope DEF Adopt, Adopted, SetSession
<1>3. CASE ~Adopted(t)
  BY <1>1, <1>3, SetStoreScope DEF Adopt, Adopted, ClearSession
<1> QED BY <1>2, <1>3

\* Once a call is on its way the store has been rehydrated.
LEMMA Hydrated == SessionInv /\ (\E c \in Callers : call[c].at # "idle") => "auth" \in hydrated
  BY DEF SessionInv, Phases

\* A call that is idle is about nothing, and while the launch is, all calls are.
LEMMA IdleCalls == SessionInv => /\ \A c \in Callers : call[c].at = "idle" => call[c] = NoCall
                                 /\ status = "idle" => \A c \in Callers : call[c] = NoCall
<1> SUFFICES ASSUME SessionInv
             PROVE  /\ \A c \in Callers : call[c].at = "idle" => call[c] = NoCall
                    /\ status = "idle" => \A c \in Callers : call[c] = NoCall
  OBVIOUS
<1>1. ASSUME NEW c \in Callers, call[c].at = "idle" PROVE call[c] = NoCall
  BY <1>1 DEF SessionInv, Phases
<1>2. status = "idle" => \A c \in Callers : call[c].at = "idle"
  BY DEF SessionInv, Phases
<1> QED BY <1>1, <1>2

\* Every step keeps the session with its user.
LEMMA SessionStep == SessionInv /\ [Next]_vars => SessionInv'
<1> SUFFICES ASSUME SessionInv, [Next]_vars PROVE SessionInv' OBVIOUS
<1>0. TypeOK /\ TypeOK'
  BY TypeStep DEF SessionInv
<1> USE Bounds DEF serverVars, storeVars, requestVars, scopedVars
<1>1. CASE UNCHANGED vars
  BY <1>1, <1>0 DEF vars, SessionInv, Phases, Booting, Owner, Scope
<1>2. ASSUME NEW s \in Stores, Hydrate(s) PROVE SessionInv'
  <2>1. Phases'
    BY <1>2 DEF Hydrate, SessionInv, Phases, Stores
  <2>2. Booting' /\ Owner'
    <3>1. CASE s = "auth"
      <4>0. "auth" \notin hydrated /\ status = "idle"
        BY <1>2, <3>1 DEF Hydrate, SessionInv, Phases
      <4>1. client = NoToken /\ \A c \in Callers : call[c] = NoCall
        BY <4>0, IdleCalls DEF SessionInv, Phases
      <4>2. Booting'
        BY <1>2, <3>1, <4>1 DEF Hydrate, SessionInv, Booting, Callers, NoCall
      <4>3. Owner'
        BY <1>2, <3>1, <4>1 DEF Hydrate, SessionInv, Owner, NoCall, NoToken, Nobody
      <4> QED BY <4>2, <4>3
    <3>2. CASE s # "auth"
      BY <1>2, <3>2 DEF Hydrate, SessionInv, Booting, Owner
    <3> QED BY <3>1, <3>2
  <2>3. Scope'
    BY <1>2 DEF Hydrate, SessionInv, Scope
  <2> QED BY <1>0, <2>1, <2>2, <2>3 DEF SessionInv
<1>3. CASE Acquire
  <2>1. Phases' /\ Booting' /\ Owner'
    BY <1>3 DEF Acquire, SessionInv, Phases, Booting, Owner
  <2>2. session.user = disk.user
    BY <1>3 DEF Acquire, SessionInv, Phases, NoSession
  <2>3. Scope'
    BY <1>3, <2>2 DEF Acquire, Scope
  <2> QED BY <1>0, <2>1, <2>3 DEF SessionInv
<1>4. CASE Bootstrap
  <2>0. call \in [Callers -> Calls] /\ \A c \in Callers : call[c] = NoCall
    BY <1>0, <1>4, IdleCalls DEF Bootstrap, TypeOK
  <2>1. \A c \in Callers : call'[c] = IF c = "boot" THEN [at |-> "asked", with |-> session.pair, got |-> NoToken]
                                                    ELSE NoCall
    BY <1>4, <2>0 DEF Bootstrap, Ask, Callers
  <2>2. session = disk /\ (session.pair = NoToken <=> session.user = Nobody)
    BY <1>4 DEF Bootstrap, SessionInv, Phases
  <2>5. Phases'
    BY <1>4, <2>1 DEF Bootstrap, SessionInv, Phases, NoCall
  <2>6. Booting'
    BY <1>4, <2>1, <2>2 DEF Bootstrap, Booting, Callers, NoCall
  <2>3. Owner'
    BY <1>4, <2>1 DEF Bootstrap, SessionInv, Phases, Owner, Callers, NoCall
  <2>4. Scope'
    BY <1>4 DEF Bootstrap, SessionInv, Scope
  <2> QED BY <1>0, <2>3, <2>4, <2>5, <2>6 DEF SessionInv
<1>5. CASE BootRefreshed
  <2> DEFINE t == call["boot"].got
  <2>1. t \in Tokens \cup {NoToken} /\ "auth" \in hydrated /\ UNCHANGED hydrated /\ Adopt(t)
    BY <1>5, <1>0, Hydrated DEF BootRefreshed, TypeOK, Calls, Callers
  <2>2. /\ disk' = session' /\ Scope'
        /\ Adopted(t) => session' = [user |-> session.user, pair |-> t] /\ client' = t
        /\ ~Adopted(t) => session' = NoSession /\ client' = NoToken
    BY <2>1, AdoptSets
  <2>3. call' = [call EXCEPT !["boot"] = IF Adopted(t) THEN NoCall
                                         ELSE [at |-> "asked", with |-> NoToken, got |-> NoToken]]
    BY <1>5 DEF BootRefreshed, Ask
  <2>4. Phases' /\ Booting'
    BY <1>5, <1>0, <2>1, <2>2, <2>3
       DEF BootRefreshed, SessionInv, Phases, Booting, Callers, NoCall, TypeOK, Adopted, NoSession
  <2>5. Owner'
    BY <1>5, <1>0, <2>1, <2>2, <2>3
       DEF BootRefreshed, SessionInv, Owner, Callers, NoCall, TypeOK, Adopted, NoSession, NoToken, Nobody
  <2> QED BY <1>0, <2>2, <2>4, <2>5 DEF SessionInv
<1>6. CASE BootAuthenticated
  <2> DEFINE t == call["boot"].got
             s == IF t # NoToken THEN [user |-> t.who, pair |-> t] ELSE NoSession
  <2>1. t \in Tokens \cup {NoToken} /\ "auth" \in hydrated /\ UNCHANGED hydrated
    BY <1>6, <1>0, Hydrated DEF BootAuthenticated, TypeOK, Calls, Callers
  <2>2. s \in Sessions /\ (s = NoSession \/ (s.pair # NoToken /\ s.user # Nobody))
    BY <2>1, Owners DEF Sessions, NoSession
  <2>3. SetStore(s) /\ client' = s.pair
    BY <1>6 DEF BootAuthenticated, SetSession, ClearSession, NoSession
  <2>4. session' = s /\ disk' = s /\ Scope'
    BY <2>1, <2>2, <2>3, SetStoreScope
  <2>5. Phases' /\ Booting'
    BY <1>6, <1>0, <2>1, <2>2, <2>4
       DEF BootAuthenticated, SessionInv, Phases, Booting, Callers, NoCall, TypeOK, NoSession
  <2>6. Owner'
    BY <1>6, <1>0, <2>1, <2>3, <2>4
       DEF BootAuthenticated, SessionInv, Owner, Callers, NoCall, TypeOK, NoSession, NoToken, Nobody
  <2> QED BY <1>0, <2>4, <2>5, <2>6 DEF SessionInv
<1>7. CASE ClientRefreshed
  <2> DEFINE t == call["client"].got
  <2>1. t \in Tokens \cup {NoToken} /\ "auth" \in hydrated /\ UNCHANGED hydrated /\ Adopt(t)
    BY <1>7, <1>0, Hydrated DEF ClientRefreshed, TypeOK, Calls, Callers
  <2>2. /\ disk' = session' /\ Scope'
        /\ Adopted(t) => session' = [user |-> session.user, pair |-> t] /\ client' = t
        /\ ~Adopted(t) => session' = NoSession /\ client' = NoToken
    BY <2>1, AdoptSets
  <2>3. status' = (IF Adopted(t) THEN "ready" ELSE status) /\ status # "idle"
    BY <1>7 DEF ClientRefreshed, SessionInv, Phases, Callers
  <2>4. Phases' /\ Booting'
    BY <1>7, <1>0, <2>1, <2>2, <2>3
       DEF ClientRefreshed, SessionInv, Phases, Booting, Callers, NoCall, TypeOK, Adopted, NoSession
  <2>5. Owner'
    BY <1>7, <1>0, <2>1, <2>2
       DEF ClientRefreshed, SessionInv, Owner, Callers, NoCall, TypeOK, Adopted, NoSession, NoToken, Nobody
  <2> QED BY <1>0, <2>2, <2>4, <2>5 DEF SessionInv
<1>8. ASSUME NEW c \in Callers, ServeAuth(c) \/ AuthFails(c) PROVE SessionInv'
  <2>1. PICK got \in {NoToken, Issued} :
           /\ call' = [call EXCEPT ![c].at = "answered", ![c].got = got]
           /\ call[c].at = "asked"
           /\ got # NoToken => call[c].with.who = account \/ (c = "boot" /\ boot = "device")
    BY <1>8, <1>0 DEF ServeAuth, AuthFails, SessionInv, Phases, TypeOK, Calls
  <2>2. UNCHANGED <<serverVars, storeVars, client, boot, requestVars, rounds, scopedVars, crossed, kills>>
    BY <1>8 DEF ServeAuth, AuthFails
  <2>3. Phases' /\ Booting' /\ Scope'
    BY <1>0, <2>1, <2>2 DEF SessionInv, Phases, Booting, Scope, TypeOK, Calls, Callers
  <2>4. Owner'
    BY <1>0, <2>1, <2>2 DEF SessionInv, Owner, Booting, TypeOK, Calls, Issued, Accounts, NoToken, Nobody
  <2> QED BY <1>0, <2>3, <2>4 DEF SessionInv
<1>9. ASSUME NEW r \in Requests, Send(r) \/ Answer(r) PROVE SessionInv'
  <2>1. UNCHANGED <<serverVars, storeVars, client, boot, scopedVars, crossed, kills>>
    BY <1>9 DEF Send, Answer, Settle, Unauthorized, TooManyRequests
  <2>2. CASE UNCHANGED call
    BY <1>0, <2>1, <2>2 DEF SessionInv, Phases, Booting, Owner, Scope
  <2>3. CASE ~UNCHANGED call
    <3>1. /\ call["client"].at = "idle" /\ client # NoToken
          /\ call' = [call EXCEPT !["client"] = [at |-> "asked", with |-> client, got |-> NoToken]]
      BY <1>9, <2>3 DEF Send, Answer, Settle, Unauthorized, TooManyRequests, StartOrJoin, MayRefresh, Ask
    <3>2. Phases' /\ Booting' /\ Scope'
      BY <1>0, <2>1, <3>1 DEF SessionInv, Phases, Booting, Scope, TypeOK, Callers, NoCall
    <3>3. Owner'
      BY <1>0, <2>1, <3>1, Owners DEF SessionInv, Owner, TypeOK, Callers, NoCall
    <3> QED BY <1>0, <3>2, <3>3 DEF SessionInv
  <2> QED BY <2>2, <2>3
<1>10. CASE Expire
  BY <1>0, <1>10 DEF Expire, SessionInv, Phases, Booting, Owner, Scope
<1>11. CASE Purge
  <2>1. Phases' /\ Booting' /\ Scope'
    BY <1>11 DEF Purge, SessionInv, Phases, Booting, Scope
  <2>0. crossed \in BOOLEAN /\ crossed' = (crossed \/ \E c \in Callers : call[c].at # "idle")
    BY <1>11, <1>0 DEF Purge, TypeOK
  <2>2. ~crossed' => \A c \in Callers : call[c] = NoCall
    BY <2>0, IdleCalls
  <2>3. ~crossed' => ~crossed
    BY <2>0
  <2>4. Owner'
    BY <1>11, <2>2, <2>3 DEF Purge, SessionInv, Owner, NoCall
  <2> QED BY <1>0, <2>1, <2>4 DEF SessionInv
<1>12. CASE Kill
  <2>1. \A c \in Callers : call'[c] = NoCall
    BY <1>12 DEF Kill
  <2>2. Phases' /\ Booting'
    BY <1>12, <2>1 DEF Kill, SessionInv, Phases, Booting, Callers, NoCall
  <2>3. Owner'
    BY <1>12, <2>1 DEF Kill, SessionInv, Owner, NoCall, NoSession, NoToken
  <2>4. Scope'
    BY <1>12 DEF Kill, SessionInv, Scope
  <2> QED BY <1>0, <2>2, <2>3, <2>4 DEF SessionInv
<1> QED BY <1>1, <1>2, <1>3, <1>4, <1>5, <1>6, <1>7, <1>8, <1>9, <1>10, <1>11, <1>12
       DEF Next, Step, Resume

\* The invariant says of whom the tokens and the screen are.
LEMMA InvOneUser == SessionInv => OneUser
<1> SUFFICES ASSUME SessionInv PROVE OneUser OBVIOUS
<1>1. session = NoSession \/ session = disk
  BY DEF SessionInv, Phases
<1>2. SessionIsOneUser
  BY <1>1 DEF SessionInv, Owner, SessionIsOneUser, NoSession, NoToken, Nobody
<1>3. ScopedToUser
  BY <1>1 DEF SessionInv, Scope, ScopedToUser, NoSession
<1> QED BY <1>2, <1>3 DEF SessionInv, OneUser

\* However often tokens expire, accounts are purged, answers fail or come late and the
\* process dies: the tokens of the store are its user's, the client speaks for nobody
\* else, and what the screen shows is his.
THEOREM SessionOfOneUser == Spec => []OneUser
<1>1. Spec => []SessionInv
  BY SessionInit, SessionStep, PTL DEF Spec
<1> QED BY <1>1, InvOneUser, PTL

-----------------------------------------------------------------------------
(***************************************************************************)
(* The gate for requests whose token has expired.                          *)
(***************************************************************************)
\* One refresh is counted exactly while one is in flight.
OneRound == rounds = IF call["client"].at = "idle" THEN 0 ELSE 1

\* What the gate sees of a request that is at a.
Seen(a) == IF a \in {"ok", "failed"} THEN "settled" ELSE IF a = "backoff" THEN "sent" ELSE a

\* The mapping of the refinement, request by request.
View == [r \in Requests |-> Seen(at[r])]

\* It is the one that ImplementsGate uses.
LEMMA ViewOfGate ==
  View = [r \in Requests |-> CASE at[r] \in {"ok", "failed"} -> "settled"
                               [] at[r] = "backoff" -> "sent"
                               [] OTHER -> at[r]]
  BY DEF View, Seen

\* And it is so after a step.
LEMMA ViewOfGateNext ==
  View' = [r \in Requests |-> CASE at'[r] \in {"ok", "failed"} -> "settled"
                                [] at'[r] = "backoff" -> "sent"
                                [] OTHER -> at'[r]]
  BY DEF View, Seen

\* The gate is closed and nothing is counted at first.
LEMMA GateInit == Init => Gate!Init /\ OneRound
  BY DEF Init, Gate!Init, OneRound, NoCall, Callers

\* Where no request seems to move and no refresh begins or ends, the gate does nothing.
LEMMA GateStutters ==
  ASSUME View' = View, UNCHANGED <<retried, rounds>>,
         (call'["client"].at = "idle") <=> (call["client"].at = "idle")
  PROVE  UNCHANGED Gate!vars
  BY ViewOfGate, ViewOfGateNext DEF Gate!vars

\* A request that is sent or settled.
LEMMA GateMoves ==
  ASSUME TypeOK, NEW r \in Requests, NEW a \in {"sent", "ok", "failed", "backoff"},
         at[r] \in {"new", "sent", "backoff"}, at' = [at EXCEPT ![r] = a],
         UNCHANGED <<call, retried, rounds>>
  PROVE  Gate!Send(r) \/ Gate!Settle(r)
<1>1. View' = [View EXCEPT ![r] = Seen(a)] /\ View[r] \in {"new", "sent"}
  BY DEF TypeOK, View, Seen
<1>2. CASE a \in {"sent", "backoff"}
  BY <1>1, <1>2, ViewOfGate, ViewOfGateNext DEF Gate!Send, Seen
<1>3. CASE a \in {"ok", "failed"}
  BY <1>1, <1>3, ViewOfGate, ViewOfGateNext DEF Gate!Settle, Seen
<1> QED BY <1>2, <1>3

\* A request that is answered 401 joins the refresh, or begins it.
LEMMA GateHolds ==
  ASSUME TypeOK, OneRound, NEW r \in Requests, Unauthorized(r), MayRefresh(r)
  PROVE  Gate!Hold(r) /\ OneRound'
<1>1. View' = [View EXCEPT ![r] = "held"] /\ View[r] = "sent"
  BY DEF Unauthorized, Goto, TypeOK, View, Seen
<1>2. /\ r \notin retried /\ retried' = retried \cup {r}
      /\ call'["client"].at # "idle"
      /\ rounds' = IF call["client"].at # "idle" THEN rounds ELSE 1
  BY DEF Unauthorized, MayRefresh, StartOrJoin, Ask, OneRound, TypeOK, Callers
<1>3. Gate!Hold(r)
  BY <1>1, <1>2, ViewOfGate, ViewOfGateNext DEF Gate!Hold
<1>4. OneRound'
  BY <1>2 DEF OneRound
<1> QED BY <1>3, <1>4

\* The refresh ends for all that wait.
LEMMA GateReleases ==
  ASSUME TypeOK, OneRound, ClientRefreshed
  PROVE  (\E outcome \in {"sent", "settled"} : Gate!Release(outcome)) /\ OneRound'
<1> DEFINE ok == Adopted(call["client"].got)
           end == IF ok THEN "sent" ELSE "settled"
<1>1. at' = [r \in Requests |-> IF at[r] = "held" THEN IF ok THEN "sent" ELSE "failed" ELSE at[r]]
  BY DEF ClientRefreshed, ReleaseAll
<1>2. View' = [r \in Requests |-> IF r \in {q \in Requests : View[q] = "held"} THEN end ELSE View[r]]
  BY <1>1 DEF TypeOK, Stages, View, Seen
<1>3. /\ call["client"].at # "idle" /\ call'["client"].at = "idle"
      /\ rounds' = 0 /\ UNCHANGED retried
  BY DEF ClientRefreshed, TypeOK, Callers, NoCall
<1>4. \E outcome \in {"sent", "settled"} : Gate!Release(outcome)
  <2>1. CASE ok
    <3>1. Gate!Release("sent")
      BY <2>1, <1>2, <1>3, ViewOfGate, ViewOfGateNext DEF Gate!Release, Gate!Held
    <3> QED BY <3>1
  <2>2. CASE ~ok
    <3>1. Gate!Release("settled")
      BY <2>2, <1>2, <1>3, ViewOfGate, ViewOfGateNext DEF Gate!Release, Gate!Held
    <3> QED BY <3>1
  <2> QED BY <2>1, <2>2
<1>5. OneRound'
  BY <1>3 DEF OneRound
<1> QED BY <1>4, <1>5

\* With the process everything is abandoned.
LEMMA GateAbandoned ==
  ASSUME TypeOK, Kill
  PROVE  Gate!Abandon /\ OneRound'
<1>1. View' \in [Requests -> {"new", "settled"}]
  BY DEF Kill, View, Seen
<1>2. retried' = {} /\ call'["client"].at = "idle" /\ rounds' = 0
  BY DEF Kill, Callers, NoCall
<1> QED BY <1>1, <1>2, ViewOfGateNext DEF Gate!Abandon, OneRound

\* Every step of the session is a step of the gate or none of its business.
LEMMA GateStep == TypeOK /\ OneRound /\ [Next]_vars => [Gate!Next]_Gate!vars /\ OneRound'
<1> SUFFICES ASSUME TypeOK, OneRound, [Next]_vars PROVE [Gate!Next]_Gate!vars /\ OneRound' OBVIOUS
<1> USE DEF serverVars, storeVars, requestVars, scopedVars
<1>1. CASE UNCHANGED <<at, retried, rounds>> /\ (call'["client"].at = "idle") = (call["client"].at = "idle")
  <2>1. View' = View
    BY <1>1 DEF View, Seen
  <2> QED BY <1>1, <2>1, GateStutters DEF OneRound
<1>2. ASSUME NEW r \in Requests, Send(r) \/ Answer(r) PROVE [Gate!Next]_Gate!vars /\ OneRound'
  <2>1. CASE Unauthorized(r) /\ MayRefresh(r)
    BY <2>1, GateHolds DEF Gate!Next
  <2>2. CASE ~(Unauthorized(r) /\ MayRefresh(r))
    <3>1. UNCHANGED <<call, retried, rounds>> /\ at[r] \in {"new", "sent", "backoff"}
      BY <1>2, <2>2 DEF Send, Answer, Settle, Unauthorized, TooManyRequests
    <3>2. PICK a \in {"sent", "ok", "failed", "backoff"} : at' = [at EXCEPT ![r] = a]
      BY <1>2, <2>2 DEF Send, Answer, Settle, Unauthorized, TooManyRequests, Finish, Goto
    <3> QED BY <3>1, <3>2, GateMoves DEF Gate!Next, OneRound
  <2> QED BY <2>1, <2>2
<1>3. CASE ClientRefreshed
  BY <1>3, GateReleases DEF Gate!Next
<1>4. CASE Kill
  BY <1>4, GateAbandoned DEF Gate!Next
<1>5. ASSUME NEW c \in Callers, ServeAuth(c) \/ AuthFails(c) PROVE [Gate!Next]_Gate!vars /\ OneRound'
  <2>1. UNCHANGED <<at, retried, rounds>>
    BY <1>5 DEF ServeAuth, AuthFails
  <2>2. (call'["client"].at = "idle") = (call["client"].at = "idle")
    <3>1. call \in [Callers -> Calls] /\ call[c].at = "asked"
      BY <1>5 DEF ServeAuth, AuthFails, TypeOK
    <3>2. call'[c].at = "answered" /\ \A d \in Callers \ {c} : call'[d] = call[d]
      BY <1>5, <3>1 DEF ServeAuth, AuthFails, Calls
    <3> QED BY <3>1, <3>2 DEF Callers
  <2> QED BY <2>1, <2>2, <1>1
<1>6. CASE Bootstrap \/ BootRefreshed \/ BootAuthenticated
  <2>1. UNCHANGED <<at, retried, rounds>>
    BY <1>6 DEF Bootstrap, BootRefreshed, BootAuthenticated
  <2>2. call'["client"] = call["client"]
    BY <1>6 DEF Bootstrap, BootRefreshed, BootAuthenticated, Ask, TypeOK, Callers
  <2> QED BY <2>1, <2>2, <1>1
<1>7. CASE Acquire \/ Expire \/ Purge \/ UNCHANGED vars \/ \E s \in Stores : Hydrate(s)
  <2>1. UNCHANGED <<at, retried, rounds, call>>
    BY <1>7 DEF Acquire, Expire, Purge, vars, Hydrate
  <2> QED BY <2>1, <1>1
<1> QED BY <1>2, <1>3, <1>4, <1>5, <1>6, <1>7 DEF Next, Step, Resume

\* The interceptors keep what the gate promises: one refresh for all requests that
\* were answered 401 meanwhile, whose end reaches every one of them, and none twice.
THEOREM GateKept == Spec => ImplementsGate
<1>1. Spec => [](TypeOK /\ OneRound)
  BY TypeInit, TypeStep, GateInit, GateStep, PTL DEF Spec
<1> QED BY <1>1, GateInit, GateStep, PTL DEF Spec, ImplementsGate, Gate!Spec

-----------------------------------------------------------------------------
(***************************************************************************)
(* The registration for pushes.                                            *)
(***************************************************************************)
\* Where an operation carries the user it registers; where reconcile has seen, or is
\* undoing, a registration of somebody else.
ForUser == {"permission", "post", "posted"}
Mending == op["reconcile"].at \in {"due"} \cup Unregistering

\* The bootstrap and what the screens know of it.
Bootstrapping ==
    /\ boot # "off" => status \in {"loading", "ready"}
    /\ status = "loading" => boot # "off"
    /\ status = "error" => session.user = Nobody
    /\ ~crossed /\ boot # "off" /\ status = "ready" => session.user \in {Nobody, account}

\* What each operation may be at, and that nothing but a reset runs before the screens do.
Shapes ==
    /\ token <=> holder # Nobody
    /\ op["reset"].at \in {"idle"} \cup Unregistering /\ op["reset"].user = Nobody
    /\ op["toggle"].at \in {"idle", "user"} \cup ForUser
    /\ \A o \in Ops : /\ op[o].at \in {"idle", "due", "user"} => op[o].user = Nobody
                      /\ op[o].at \in ForUser => op[o].user # Nobody
    /\ status \in {"idle", "loading"} => op["reconcile"] = NoOp /\ op["toggle"] = NoOp
    /\ op["toggle"] # NoOp => holder = Nobody \/ ~Mending

\* Whom an operation registers is the user who is signed in, or was to the end, and no
\* operation finds the phone registered for another.
Users ==
    ~crossed => \A o \in Ops : op[o].at \in ForUser =>
        /\ session.user \in {Nobody, op[o].user}
        /\ boot # "off" => op[o].user = account
        /\ holder \in {Nobody, op[o].user}
        /\ \A p \in Ops : op[p].at \in ForUser => op[p].user = op[o].user

\* Once the bootstrap is over a registration is that of the user who is signed in, is
\* being undone, or nobody else will be signed in.
Holder ==
    ~crossed /\ holder # Nobody /\ status \in {"ready", "error"} =>
        \/ holder = session.user \/ Mending
        \/ session.user = Nobody /\ (boot = "off" \/ holder = account)

\* One call at a time tells the server about the token, and what it was told last is
\* what the phone believes.
Row ==
    ~raced =>
        /\ \A o, p \in Ops : op[o].at \in Registering \cup Unregistering
                             /\ op[p].at \in Registering \cup Unregistering => o = p
        /\ \A o \in Ops : op[o].at = "posted" => row = op[o].user
        /\ ~crossed /\ holder # Nobody => row = holder \/ \E o \in Ops : op[o].at = "deleted"

RegistrationInv ==
    SessionInv /\ PushTypeOK /\ Bootstrapping /\ Shapes /\ Users /\ Holder /\ Row

\* What a step of the session may do to whoever is signed in: nothing, read the store,
\* renew the tokens, sign out, or sign the device in.
Kept      == session' = session
Read      == status = "idle" /\ status' = "idle" /\ session = NoSession /\ UNCHANGED boot
Renewed   == session'.user = session.user /\ session.user # Nobody /\ session'.pair # NoToken
SignedOut == session' = NoSession
SignedIn  == /\ boot = "device" /\ boot' = "off" /\ session.user = Nobody /\ status' = "ready"
             /\ session'.user # Nobody /\ (~crossed => session'.user = account)

\* And to the bootstrap.
Course ==
    /\ status' = "ready" => status \in {"loading", "ready"}
    /\ status' = "error" => status = "error" \/ (session' = NoSession /\ boot' = "off")
    /\ boot' # "off" => boot # "off" \/ (status = "idle" /\ status' = "loading")
    /\ status' \in {"idle", "loading"} => status \in {"idle", "loading"}
    /\ ~crossed' => ~crossed /\ (account' = account \/ (boot = "off" /\ boot' = "off"))

\* Every step of the session but the death of the process takes that course.
LEMMA SessionMoves ==
  ASSUME SessionInv, Bootstrapping, Step
  PROVE  /\ Kept \/ Read \/ Renewed \/ SignedOut \/ SignedIn
         /\ Course /\ Bootstrapping'
<1> DEFINE Goal == /\ Kept \/ Read \/ Renewed \/ SignedOut \/ SignedIn
                   /\ Course /\ Bootstrapping'
<1>0. TypeOK /\ crossed \in BOOLEAN
  BY DEF SessionInv, TypeOK
<1> USE DEF serverVars, storeVars, requestVars, scopedVars
<1>1. CASE UNCHANGED <<session, status, boot, account, crossed>>
  BY <1>1 DEF Kept, Course, Bootstrapping
<1>2. ASSUME NEW s \in Stores, Hydrate(s) PROVE Goal
  <2>1. CASE s = "auth"
    <3>1. status = "idle" /\ session = NoSession /\ boot = "off"
      <4>1. "auth" \notin hydrated
        BY <1>2, <2>1 DEF Hydrate
      <4>2. status = "idle" /\ session = NoSession
        BY <4>1 DEF SessionInv, Phases
      <4>3. call["boot"].at = "idle"
        BY <4>2 DEF SessionInv, Phases, Callers
      <4> QED BY <4>2, <4>3 DEF SessionInv, Booting
    <3> QED BY <1>2, <3>1 DEF Hydrate, Read, Course, Bootstrapping
  <2>2. CASE s # "auth"
    BY <1>2, <2>2, <1>1 DEF Hydrate
  <2> QED BY <2>1, <2>2
<1>3. CASE Bootstrap
  BY <1>3 DEF Bootstrap, Kept, Course, Bootstrapping
<1>4. CASE BootRefreshed
  <2> DEFINE t == call["boot"].got
  <2>1. /\ t \in Tokens \cup {NoToken} /\ "auth" \in hydrated /\ UNCHANGED <<hydrated, account, crossed>>
        /\ Adopt(t) /\ boot # "off"
    BY <1>4, <1>0, Hydrated DEF BootRefreshed, TypeOK, Calls, Callers
  <2>2. /\ Adopted(t) => session' = [user |-> session.user, pair |-> t]
        /\ ~Adopted(t) => session' = NoSession
    BY <2>1, AdoptSets
  <2>3. /\ Adopted(t) => status' = "ready" /\ boot' = "off" /\ session.user # Nobody /\ t # NoToken
        /\ ~Adopted(t) => status' = status /\ boot' = "device"
    BY <1>4 DEF BootRefreshed, Adopted
  <2>4. CASE Adopted(t)
    BY <2>1, <2>2, <2>3, <2>4 DEF Renewed, Course, Bootstrapping
  <2>5. CASE ~Adopted(t)
    BY <2>1, <2>2, <2>3, <2>5 DEF SignedOut, Course, Bootstrapping, NoSession
  <2> QED BY <2>4, <2>5
<1>5. CASE BootAuthenticated
  <2> DEFINE t == call["boot"].got
             s == IF t # NoToken THEN [user |-> t.who, pair |-> t] ELSE NoSession
  <2>1. /\ t \in Tokens \cup {NoToken} /\ "auth" \in hydrated /\ UNCHANGED <<hydrated, account, crossed>>
        /\ boot = "device" /\ boot' = "off" /\ status \in {"loading", "ready"}
    BY <1>5, <1>0, Hydrated DEF BootAuthenticated, TypeOK, Calls, Callers, Bootstrapping
  <2>2. session' = s /\ (IF t # NoToken THEN status' = "ready" ELSE status' = "error")
    BY <1>5 DEF BootAuthenticated, SetSession, ClearSession, SetStore
  <2>3. session.user = Nobody /\ (~crossed /\ t # NoToken => t.who = account)
    BY <2>1 DEF SessionInv, Booting, Owner, Callers
  <2>4. CASE t # NoToken
    <3>1. t.who # Nobody
      BY <2>1, <2>4, Owners
    <3> QED BY <2>1, <2>2, <2>3, <2>4, <3>1 DEF SignedIn, Course, Bootstrapping
  <2>5. CASE t = NoToken
    BY <2>1, <2>2, <2>5 DEF SignedOut, Course, Bootstrapping, NoSession
  <2> QED BY <2>4, <2>5
<1>6. CASE ClientRefreshed
  <2> DEFINE t == call["client"].got
  <2>1. /\ t \in Tokens \cup {NoToken} /\ "auth" \in hydrated /\ UNCHANGED <<hydrated, account, crossed, boot>>
        /\ Adopt(t) /\ status # "idle"
    BY <1>6, <1>0, Hydrated DEF ClientRefreshed, TypeOK, Calls, Callers, SessionInv, Phases
  <2>2. /\ Adopted(t) => session' = [user |-> session.user, pair |-> t] /\ session.user # Nobody
                         /\ status' = "ready" /\ t # NoToken
        /\ ~Adopted(t) => session' = NoSession /\ status' = status
    BY <1>6, <2>1, AdoptSets DEF ClientRefreshed, Adopted
  <2>3. ~crossed /\ t # NoToken => session.user \in {Nobody, account}
    BY DEF SessionInv, Owner, Callers
  <2>4. CASE Adopted(t)
    BY <1>0, <2>1, <2>2, <2>3, <2>4 DEF Renewed, Course, Bootstrapping, TypeOK
  <2>5. CASE ~Adopted(t)
    BY <2>1, <2>2, <2>5 DEF SignedOut, Course, Bootstrapping, NoSession
  <2> QED BY <2>4, <2>5
<1>7. CASE Purge
  <2>1. crossed' = (crossed \/ \E c \in Callers : call[c].at # "idle") /\ UNCHANGED <<session, status, boot>>
    BY <1>7 DEF Purge
  <2>2. ~crossed' => ~crossed /\ call["boot"].at = "idle"
    BY <2>1, <1>0 DEF Callers
  <2>3. ~crossed' => boot = "off"
    BY <2>2 DEF SessionInv, Booting
  <2> QED BY <2>1, <2>2, <2>3 DEF Kept, Course, Bootstrapping
<1>8. CASE \/ Acquire \/ Expire \/ \E c \in Callers : ServeAuth(c) \/ AuthFails(c)
           \/ \E r \in Requests : Send(r) \/ Answer(r)
  BY <1>8, <1>1 DEF Acquire, Expire, ServeAuth, AuthFails, Send, Answer, Settle, Unauthorized, TooManyRequests
<1> QED BY <1>2, <1>3, <1>4, <1>5, <1>6, <1>7, <1>8 DEF Step, Resume

\* At first nobody is signed in, and a stored registration is that of the stored user.
LEMMA PushInitial == Init /\ PushInit => RegistrationInv
<1> SUFFICES ASSUME Init, PushInit PROVE RegistrationInv OBVIOUS
<1>1. SessionInv
  BY SessionInit
<1>2. TypeOK /\ \A o \in Ops : op[o] = NoOp
  BY <1>1 DEF SessionInv, PushInit
<1>3. disk.user \in Accounts \cup {Nobody}
  BY <1>2 DEF TypeOK, Sessions
<1>4. PushTypeOK
  BY <1>2, <1>3 DEF PushTypeOK, PushInit, NoOp, OpStages, Ops
<1>5. Bootstrapping /\ Holder
  BY DEF Init, Bootstrapping, Holder
<1>6. Shapes /\ Users /\ Row
  BY <1>2 DEF PushInit, Init, Shapes, Users, Row, Ops, NoOp, ForUser, Registering, Unregistering
<1> QED BY <1>1, <1>4, <1>5, <1>6 DEF RegistrationInv

\* An operation that changes its stage keeps its user.
LEMMA StageOf == \A r \in [at : OpStages, user : Accounts \cup {Nobody}], a \in OpStages :
                   [r EXCEPT !.at = a] = [at |-> a, user |-> r.user]
  OBVIOUS

\* What a step of the session means for the operations: reconcile becomes due when the
\* launch is over, and who signs out forgets the registration and asks to undo it.
LEMMA DuringOps ==
  ASSUME RegistrationInv, During(Step)
  PROVE  /\ op'["toggle"] = op["toggle"]
         /\ op'["reconcile"] = IF status' = "ready" /\ status # "ready"
                               THEN [at |-> "due", user |-> Nobody] ELSE op["reconcile"]
         /\ status' = "ready" /\ status # "ready" => op["reconcile"] = NoOp
         /\ \/ op'["reset"] = op["reset"]
            \/ op["reset"] = NoOp /\ op'["reset"] = [at |-> "delete", user |-> Nobody]
         /\ op' \in [Ops -> [at : OpStages, user : Accounts \cup {Nobody}]]
         /\ \/ token' = FALSE /\ holder' = Nobody
            \/ UNCHANGED <<token, holder>> /\ (session' = NoSession => session.user = Nobody)
<1>1. op \in [Ops -> [at : OpStages, user : Accounts \cup {Nobody}]]
  BY DEF RegistrationInv, PushTypeOK
<1>2. Course
  BY SessionMoves DEF RegistrationInv, During
<1>3. status' = "ready" /\ status # "ready" => op["reconcile"] = NoOp
  BY <1>2 DEF RegistrationInv, Shapes, Course
<1>4. Due = IF status' = "ready" /\ status # "ready"
            THEN [op EXCEPT !["reconcile"] = [at |-> "due", user |-> Nobody]] ELSE op
  <2>1. [op["reconcile"] EXCEPT !.at = "due"] = [at |-> "due", user |-> op["reconcile"].user]
    BY <1>1, StageOf DEF Ops, OpStages
  <2>2. status' = "ready" /\ status # "ready" => op["reconcile"].user = Nobody
    BY <1>3 DEF NoOp
  <2> QED BY <2>1, <2>2 DEF Due
<1>5. Due \in [Ops -> [at : OpStages, user : Accounts \cup {Nobody}]] /\ Due["reset"] = op["reset"]
  BY <1>1, <1>4 DEF Ops, OpStages
<1>6. CASE session' # session /\ Boundary(session')
  <2>1. op["reset"] = NoOp /\ Forget
    BY <1>6 DEF During
  <2>2. op' = IF current THEN [Due EXCEPT !["reset"] = [at |-> "delete", user |-> Nobody]] ELSE Due
    <3>1. Due["reset"] = [at |-> "idle", user |-> Nobody]
      BY <1>5, <2>1 DEF NoOp
    <3>2. Due["reset"] \in [at : OpStages, user : Accounts \cup {Nobody}] /\ "delete" \in OpStages
      BY <1>5 DEF Ops, OpStages
    <3>3. [Due["reset"] EXCEPT !.at = "delete"] = [at |-> "delete", user |-> Due["reset"].user]
      BY <3>2, StageOf, Zenon
    <3>4. Due["reset"].user = Nobody
      BY <3>1
    <3> QED BY <1>6, <3>3, <3>4, Zenon DEF During
  <2> QED BY <1>1, <1>3, <1>4, <1>5, <2>1, <2>2 DEF Ops, OpStages, Forget
<1>7. CASE ~(session' # session /\ Boundary(session'))
  <2>1. op' = Due /\ UNCHANGED <<token, holder>>
    BY <1>7 DEF During, storedVars
  <2>2. session' = NoSession => session.user = Nobody
    BY <1>7 DEF Boundary, NoSession, RegistrationInv, SessionInv, Phases
  <2> QED BY <1>1, <1>3, <1>4, <1>5, <2>1, <2>2 DEF Ops
<1> QED BY <1>6, <1>7

\* A step of the session keeps the registration in order.
LEMMA DuringKeeps == RegistrationInv /\ During(Step) => Shapes' /\ Users' /\ Holder' /\ Row'
<1> SUFFICES ASSUME RegistrationInv, During(Step) PROVE Shapes' /\ Users' /\ Holder' /\ Row'
  OBVIOUS
<1>1. /\ Kept \/ Read \/ Renewed \/ SignedOut \/ SignedIn
      /\ Course
  BY SessionMoves DEF RegistrationInv, During
<1>2. /\ op'["toggle"] = op["toggle"]
      /\ op'["reconcile"] = IF status' = "ready" /\ status # "ready"
                            THEN [at |-> "due", user |-> Nobody] ELSE op["reconcile"]
      /\ status' = "ready" /\ status # "ready" => op["reconcile"] = NoOp
      /\ \/ op'["reset"] = op["reset"]
         \/ op["reset"] = NoOp /\ op'["reset"] = [at |-> "delete", user |-> Nobody]
      /\ op' \in [Ops -> [at : OpStages, user : Accounts \cup {Nobody}]]
      /\ \/ token' = FALSE /\ holder' = Nobody
         \/ UNCHANGED <<token, holder>> /\ (session' = NoSession => session.user = Nobody)
  BY DuringOps
<1>3. UNCHANGED <<wanted, current, row, toggles>>
  BY DEF During
<1>4. status \in {"idle", "loading", "ready", "error"} /\ status' \in {"idle", "loading", "ready", "error"}
  BY TypeStep DEF RegistrationInv, PushTypeOK, During, Next, TypeOK
\* An operation that names a user, calls, or is answered, was there before; or a sign-out
\* began its DELETE.
<1>5. \A o \in Ops : /\ op'[o].at \in ForUser => op'[o] = op[o]
                     /\ op'[o].at = "posted" => op'[o] = op[o]
                     /\ op[o].at = "deleted" => op'[o] = op[o]
  BY <1>2 DEF Ops, ForUser, NoOp
<1>6. Shapes'
  <2>1. /\ token' <=> holder' # Nobody
        /\ op'["reset"].at \in {"idle"} \cup Unregistering /\ op'["reset"].user = Nobody
        /\ op'["toggle"].at \in {"idle", "user"} \cup ForUser
    BY <1>2 DEF RegistrationInv, Shapes, Unregistering
  <2>2. \A o \in Ops : /\ op'[o].at \in {"idle", "due", "user"} => op'[o].user = Nobody
                       /\ op'[o].at \in ForUser => op'[o].user # Nobody
    <3>1. \A o \in Ops : /\ op[o].at \in {"idle", "due", "user"} => op[o].user = Nobody
                         /\ op[o].at \in ForUser => op[o].user # Nobody
      BY DEF RegistrationInv, Shapes
    <3> QED BY <1>2, <3>1 DEF Ops, ForUser
  <2>3. status' \in {"idle", "loading"} => op'["reconcile"] = NoOp /\ op'["toggle"] = NoOp
    BY <1>1, <1>2 DEF RegistrationInv, Shapes, Course
  <2>4. op'["toggle"] # NoOp => op'["reconcile"] = op["reconcile"]
    BY <1>1, <1>2, <1>4 DEF RegistrationInv, Shapes, Course
  <2>5. op'["toggle"] # NoOp => holder' = Nobody \/ ~Mending'
    BY <1>2, <2>4 DEF RegistrationInv, Shapes, Mending
  <2> QED BY <2>1, <2>2, <2>3, <2>5 DEF Shapes
<1>7. Users'
  <2> SUFFICES ASSUME ~crossed', NEW o \in Ops, op'[o].at \in ForUser
               PROVE  /\ session'.user \in {Nobody, op'[o].user}
                      /\ boot' # "off" => op'[o].user = account'
                      /\ holder' \in {Nobody, op'[o].user}
                      /\ \A p \in Ops : op'[p].at \in ForUser => op'[p].user = op'[o].user
    BY DEF Users
  <2>1. op'[o] = op[o] /\ ~crossed /\ op[o].at \in ForUser
    BY <1>1, <1>5 DEF Course
  <2>2. status # "idle"
    BY <2>1 DEF RegistrationInv, Shapes, Ops, NoOp, ForUser, Unregistering
  <2>3. /\ session.user \in {Nobody, op[o].user}
        /\ boot # "off" => op[o].user = account
        /\ holder \in {Nobody, op[o].user}
        /\ \A p \in Ops : op[p].at \in ForUser => op[p].user = op[o].user
    BY <2>1 DEF RegistrationInv, Users
  <2>4. session'.user \in {Nobody, op[o].user}
    BY <1>1, <2>1, <2>2, <2>3 DEF Kept, Read, Renewed, SignedOut, SignedIn, NoSession
  <2>5. boot' # "off" => op[o].user = account'
    BY <1>1, <2>2, <2>3 DEF Course
  <2>6. holder' \in {Nobody, op[o].user}
    BY <1>2, <2>3
  <2>7. \A p \in Ops : op'[p].at \in ForUser => op'[p].user = op[o].user
    BY <1>5, <2>3
  <2> QED BY <2>1, <2>4, <2>5, <2>6, <2>7
<1>8. Holder'
  <2> SUFFICES ASSUME ~crossed', holder' # Nobody, status' \in {"ready", "error"}
               PROVE  \/ holder' = session'.user \/ Mending'
                      \/ session'.user = Nobody /\ (boot' = "off" \/ holder' = account')
    BY DEF Holder
  <2>1. ~crossed /\ holder' = holder /\ (session' = NoSession => session.user = Nobody)
    BY <1>1, <1>2 DEF Course
  <2>2. CASE status \notin {"ready", "error"}
    <3>1. CASE status' = "ready"
      BY <1>2, <2>2, <3>1 DEF Mending
    <3>2. CASE status' = "error"
      BY <1>1, <2>2, <3>2 DEF Course, NoSession
    <3> QED BY <3>1, <3>2
  <2>3. CASE status \in {"ready", "error"}
    <3>1. \/ holder = session.user \/ Mending
          \/ session.user = Nobody /\ (boot = "off" \/ holder = account)
      BY <2>1, <2>3 DEF RegistrationInv, Holder
    <3>2. CASE Mending
      BY <1>2, <3>2 DEF Mending
    <3>3. CASE holder = session.user
      BY <1>1, <2>1, <2>3, <3>3 DEF Kept, Read, Renewed, SignedOut, SignedIn
    <3>4. CASE session.user = Nobody /\ (boot = "off" \/ holder = account)
      <4>1. boot' # "off" => boot # "off" /\ account' = account
        BY <1>1, <2>3 DEF Course
      <4> QED BY <1>1, <2>1, <2>3, <3>4, <4>1 DEF Kept, Read, Renewed, SignedOut, SignedIn, NoSession
    <3> QED BY <3>1, <3>2, <3>3, <3>4
  <2> QED BY <2>2, <2>3
<1>9. Row'
  <2> SUFFICES ASSUME ~raced' PROVE Row' BY DEF Row
  <2>1. /\ ~raced
        /\ \A o, p \in Ops : op'[o].at \in Registering \cup Unregistering
                             /\ op'[p].at \in Registering \cup Unregistering => o = p
    BY DEF During, NoteRace, Calling
  <2>2. \A o \in Ops : op'[o].at = "posted" => row' = op'[o].user
    BY <1>3, <1>5, <2>1 DEF RegistrationInv, Row
  <2>3. ~crossed' /\ holder' # Nobody => row' = holder' \/ \E o \in Ops : op'[o].at = "deleted"
    <3> SUFFICES ASSUME ~crossed', holder' # Nobody
                 PROVE  row' = holder' \/ \E o \in Ops : op'[o].at = "deleted"
      OBVIOUS
    <3>1. ~crossed /\ holder' = holder /\ row' = row
      BY <1>1, <1>2, <1>3 DEF Course
    <3>2. row = holder \/ \E o \in Ops : op[o].at = "deleted"
      BY <2>1, <3>1 DEF RegistrationInv, Row
    <3> QED BY <1>5, <3>1, <3>2
  <2> QED BY <2>1, <2>2, <2>3 DEF Row
<1> QED BY <1>6, <1>7, <1>8, <1>9

\* An operation that goes to a stage or ends leaves the others alone.
LEMMA OpMoves ==
  ASSUME PushTypeOK, NEW o \in Ops, NEW a \in OpStages, OpTo(o, a)
  PROVE  /\ op' = [op EXCEPT ![o] = [at |-> a, user |-> op[o].user]]
         /\ op' \in [Ops -> [at : OpStages, user : Accounts \cup {Nobody}]]
<1>1. op \in [Ops -> [at : OpStages, user : Accounts \cup {Nobody}]]
  BY DEF PushTypeOK
<1>2. op[o] \in [at : OpStages, user : Accounts \cup {Nobody}]
  BY <1>1
<1>3. [op[o] EXCEPT !.at = a] = [at |-> a, user |-> op[o].user]
  BY <1>2, StageOf, Zenon
<1>4. op' = [op EXCEPT ![o] = [at |-> a, user |-> op[o].user]]
  BY <1>3, Zenon DEF OpTo
<1>5. [at |-> a, user |-> op[o].user] \in [at : OpStages, user : Accounts \cup {Nobody}]
  BY <1>2
<1> QED BY <1>1, <1>4, <1>5

\* So does one that is given a new stage and user, or ends.
LEMMA OpSet ==
  ASSUME PushTypeOK, NEW o \in Ops, NEW a \in OpStages, NEW u \in Accounts \cup {Nobody},
         op' = [op EXCEPT ![o] = [at |-> a, user |-> u]]
  PROVE  /\ op' \in [Ops -> [at : OpStages, user : Accounts \cup {Nobody}]]
         /\ op'[o] = [at |-> a, user |-> u]
         /\ \A p \in Ops \ {o} : op'[p] = op[p]
  BY DEF PushTypeOK

\* Every step keeps the types of the registration.
LEMMA PushTypeStep == RegistrationInv /\ [PushNext]_allVars => PushTypeOK'
<1> SUFFICES ASSUME RegistrationInv, [PushNext]_allVars PROVE PushTypeOK' OBVIOUS
<1> DEFINE OpType == op' \in [Ops -> [at : OpStages, user : Accounts \cup {Nobody}]]
<1>0. /\ PushTypeOK /\ {wanted, token, current, raced} \subseteq BOOLEAN
      /\ {holder, row} \subseteq Accounts \cup {Nobody}
  BY DEF RegistrationInv, PushTypeOK
<1>1. TypeOK'
  <2>1. [Next]_vars
    BY DEF PushNext, During, Death, Next, Reconcile, ToggleOn, ToggleOff, Operate, GetUser, GetToken,
           ServePush, Registered, RegisterFails, Unregistered, allVars
  <2> QED BY <2>1, TypeStep DEF RegistrationInv, PushTypeOK
<1>2. CASE UNCHANGED allVars
  BY <1>0, <1>1, <1>2 DEF allVars, pushVars, storedVars, PushTypeOK
<1>3. CASE During(Step)
  <2>1. OpType /\ token' \in BOOLEAN /\ holder' \in Accounts \cup {Nobody}
    BY <1>0, <1>3, DuringOps DEF PushTypeOK
  <2>2. raced' \in BOOLEAN /\ UNCHANGED <<wanted, current, row>>
    BY <1>0, <1>3 DEF During, NoteRace
  <2> QED BY <1>0, <1>1, <2>1, <2>2 DEF PushTypeOK
<1>4. CASE Death
  BY <1>0, <1>1, <1>4 DEF Death, PushTypeOK, NoOp, OpStages, storedVars
<1>5. ASSUME NEW o \in Ops, NEW a \in OpStages, OpTo(o, a) \/ End(o) PROVE OpType
  BY <1>0, <1>5, OpMoves, OpSet DEF End, NoOp, OpStages
<1>6. /\ session.user \in Accounts \cup {Nobody}
      /\ \A o \in Ops : op[o].user \in Accounts \cup {Nobody}
      /\ Ops = {"reset", "reconcile", "toggle"}
  BY <1>0 DEF PushTypeOK, TypeOK, Sessions, Ops
<1>7. CASE Reconcile
  <2>1. OpType
    <3>1. CASE op' = [op EXCEPT !["reconcile"] = [at |-> "delete", user |-> session.user]]
      BY <1>0, <1>6, <3>1, OpSet DEF OpStages
    <3>2. CASE OpTo("reconcile", "delete") \/ OpTo("reconcile", "user") \/ End("reconcile")
      BY <1>5, <1>6, <3>2 DEF OpStages
    <3> QED BY <1>7, <3>1, <3>2 DEF Reconcile
  <2>2. raced' \in BOOLEAN /\ current' \in BOOLEAN /\ UNCHANGED <<wanted, token, holder, row>>
    BY <1>0, <1>7 DEF Reconcile, NoteRace, storedVars
  <2> QED BY <1>0, <1>1, <2>1, <2>2 DEF PushTypeOK
<1>8. CASE ToggleOn \/ ToggleOff
  <2>1. OpType
    BY <1>0, <1>5, <1>6, <1>8 DEF ToggleOn, ToggleOff, OpStages, PushTypeOK
  <2> QED BY <1>0, <1>1, <1>8, <2>1 DEF ToggleOn, ToggleOff, PushTypeOK, storedVars
<1>9. ASSUME NEW o \in Ops, Operate(o) PROVE PushTypeOK'
  <2>1. OpType
    <3>1. CASE GetUser(o) \/ Unregistered(o)
      BY <1>0, <1>5, <1>6, <3>1, OpSet DEF GetUser, Unregistered, OpStages
    <3>2. CASE GetToken(o) \/ ServePush(o) \/ Registered(o) \/ RegisterFails(o)
      BY <1>5, <3>2 DEF GetToken, ServePush, Registered, RegisterFails, OpStages
    <3> QED BY <1>9, <3>1, <3>2 DEF Operate
  <2>2. {wanted', token', current', raced'} \subseteq BOOLEAN /\ {holder', row'} \subseteq Accounts \cup {Nobody}
    <3>1. CASE GetUser(o) \/ GetToken(o) \/ RegisterFails(o) \/ Unregistered(o)
      BY <1>0, <3>1 DEF GetUser, GetToken, RegisterFails, Unregistered, Forget, NoteRace, storedVars, Nobody
    <3>2. CASE ServePush(o) \/ Registered(o)
      BY <1>0, <1>6, <3>2 DEF ServePush, Registered, Remember, storedVars
    <3> QED BY <1>9, <3>1, <3>2 DEF Operate
  <2> QED BY <1>1, <2>1, <2>2 DEF PushTypeOK
<1> QED BY <1>2, <1>3, <1>4, <1>7, <1>8, <1>9 DEF PushNext

\* The death of the process ends every operation; it forgets no registration, and if an
\* unregistration was on its way nobody knows what became of it.
LEMMA DeathKeeps == RegistrationInv /\ Death => Bootstrapping' /\ Shapes' /\ Users' /\ Holder' /\ Row'
<1> SUFFICES ASSUME RegistrationInv, Death
             PROVE  Bootstrapping' /\ Shapes' /\ Users' /\ Holder' /\ Row'
  OBVIOUS
<1>1. /\ \A o \in Ops : op'[o] = NoOp
      /\ status' = "idle" /\ boot' = "off"
      /\ UNCHANGED <<token, holder, row, crossed>>
      /\ raced' = (raced \/ \E o \in Ops : op[o].at \in Unregistering)
  BY DEF Death, Kill, storedVars
<1>2. Bootstrapping' /\ Holder'
  BY <1>1 DEF Bootstrapping, Holder
<1>3. Shapes' /\ Users'
  BY <1>1 DEF RegistrationInv, Shapes, Users, Ops, NoOp, ForUser, Unregistering
<1>4. Row'
  <2> SUFFICES ASSUME ~raced' PROVE Row' BY DEF Row
  <2>1. ~raced /\ \A o \in Ops : op[o].at \notin Unregistering
    <3>1. raced \in BOOLEAN
      BY DEF RegistrationInv, PushTypeOK
    <3> QED BY <1>1, <3>1
  <2>2. ~crossed /\ holder # Nobody => row = holder
    BY <2>1 DEF RegistrationInv, Row, Unregistering
  <2> QED BY <1>1, <2>2 DEF Row, NoOp, Registering, Unregistering
<1> QED BY <1>2, <1>3, <1>4

\* reconcile() keeps the registration in order: what it leaves alone is the signed-in
\* user's, what is not it begins to undo.
LEMMA ReconcileKeeps == RegistrationInv /\ Reconcile => Shapes' /\ Users' /\ Holder' /\ Row'
<1> SUFFICES ASSUME RegistrationInv, Reconcile PROVE Shapes' /\ Users' /\ Holder' /\ Row'
  OBVIOUS
<1>0. PushTypeOK /\ PushTypeOK' /\ Shapes /\ Users /\ Holder /\ Row
  BY PushTypeStep DEF RegistrationInv, PushNext
<1>1. /\ op["reconcile"].at = "due" /\ op["reconcile"].user = Nobody
      /\ status \notin {"idle", "loading"} /\ (token <=> holder # Nobody)
      /\ op["toggle"] # NoOp => holder = Nobody
  BY <1>0 DEF Reconcile, Shapes, Mending, Ops, NoOp
<1>2. UNCHANGED <<session, status, boot, account, crossed, token, holder, row>>
  BY DEF Reconcile, vars, serverVars, storeVars, storedVars
<1>3. /\ op'["reset"] = op["reset"] /\ op'["toggle"] = op["toggle"]
      /\ \/ op'["reconcile"].at = "delete"
         \/ op'["reconcile"] = NoOp /\ holder \in {Nobody, session.user}
         \/ op'["reconcile"] = [at |-> "user", user |-> Nobody] /\ holder = Nobody
  <2>1. op \in [Ops -> [at : OpStages, user : Accounts \cup {Nobody}]] /\ "reconcile" \in Ops
    BY <1>0 DEF PushTypeOK, Ops
  <2>2. CASE op' = [op EXCEPT !["reconcile"] = [at |-> "delete", user |-> session.user]]
    BY <2>1, <2>2 DEF Ops
  <2>3. CASE OpTo("reconcile", "delete")
    <3>1. op' = [op EXCEPT !["reconcile"] = [at |-> "delete", user |-> op["reconcile"].user]]
      BY <1>0, <2>1, <2>3, OpMoves DEF OpStages
    <3> QED BY <2>1, <3>1 DEF Ops
  <2>4. CASE OpTo("reconcile", "user") /\ holder = Nobody
    <3>1. op' = [op EXCEPT !["reconcile"] = [at |-> "user", user |-> op["reconcile"].user]]
      BY <1>0, <2>1, <2>4, OpMoves DEF OpStages
    <3> QED BY <1>1, <2>1, <2>4, <3>1 DEF Ops
  <2>5. CASE End("reconcile") /\ holder \in {Nobody, session.user}
    BY <2>1, <2>5 DEF Ops, End
  <2> QED BY <1>1, <2>2, <2>3, <2>4, <2>5 DEF Reconcile
<1>4. Shapes'
  BY <1>0, <1>1, <1>2, <1>3 DEF Shapes, Mending, Ops, NoOp, ForUser, Unregistering
<1>5. Users'
  <2>1. \A o \in Ops : op'[o].at \in ForUser => op'[o] = op[o]
    BY <1>3 DEF Ops, ForUser, NoOp
  <2> QED BY <1>0, <1>2, <2>1 DEF Users
<1>6. Holder'
  BY <1>0, <1>2, <1>3 DEF Holder, Mending, Unregistering
<1>7. Row'
  <2> SUFFICES ASSUME ~raced' PROVE Row' BY DEF Row
  <2>1. /\ ~raced
        /\ \A o, p \in Ops : op'[o].at \in Registering \cup Unregistering
                             /\ op'[p].at \in Registering \cup Unregistering => o = p
    BY DEF Reconcile, NoteRace, Calling
  <2>2. \A o \in Ops : /\ op'[o].at = "posted" => op'[o] = op[o]
                       /\ op[o].at = "deleted" => op'[o] = op[o]
    BY <1>1, <1>3 DEF Ops, NoOp
  <2> QED BY <1>0, <1>2, <2>1, <2>2 DEF Row
<1> QED BY <1>4, <1>5, <1>6, <1>7

\* So do the switches.
LEMMA ToggleKeeps == RegistrationInv /\ (ToggleOn \/ ToggleOff) => Shapes' /\ Users' /\ Holder' /\ Row'
<1> SUFFICES ASSUME RegistrationInv, ToggleOn \/ ToggleOff PROVE Shapes' /\ Users' /\ Holder' /\ Row'
  OBVIOUS
<1>0. PushTypeOK /\ Shapes /\ Users /\ Holder /\ Row
  BY DEF RegistrationInv
<1>1. UNCHANGED <<session, status, boot, account, crossed, token, holder, row, raced>>
  BY DEF ToggleOn, ToggleOff, vars, serverVars, storeVars, storedVars
<1>2. CASE op' = op
  BY <1>0, <1>1, <1>2 DEF Shapes, Users, Holder, Row, Mending
<1>3. CASE op' # op
  <2>1. /\ status \in {"ready", "error"} /\ op["toggle"] = NoOp /\ holder = Nobody
        /\ OpTo("toggle", "user")
    BY <1>0, <1>3 DEF ToggleOn, ToggleOff, Tap, Shapes
  <2>2. op' = [op EXCEPT !["toggle"] = [at |-> "user", user |-> op["toggle"].user]]
    BY <1>0, <2>1, OpMoves DEF Ops, OpStages
  <2>3. /\ op'["toggle"] = [at |-> "user", user |-> Nobody]
        /\ op'["reset"] = op["reset"] /\ op'["reconcile"] = op["reconcile"]
    BY <1>0, <2>1, <2>2 DEF PushTypeOK, Ops, NoOp
  <2>4. Shapes'
    BY <1>0, <1>1, <2>1, <2>3 DEF Shapes, Ops, NoOp, ForUser
  <2>5. Users' /\ Holder'
    BY <1>0, <1>1, <2>1, <2>3 DEF Users, Holder, Ops, ForUser
  <2>6. Row'
    BY <1>0, <1>1, <2>1, <2>3 DEF Row, Ops, Registering, Unregistering
  <2> QED BY <2>4, <2>5, <2>6
<1> QED BY <1>2, <1>3

\* getAuthenticatedUserId keeps the registration in order: the user it names is the one who
\* is signed in, and nobody else is registered.
LEMMA GetUserKeeps ==
  ASSUME RegistrationInv, NEW o \in Ops, GetUser(o)
  PROVE  Shapes' /\ Users' /\ Holder' /\ Row'
<1>0. PushTypeOK /\ Shapes /\ Users /\ Holder /\ Row /\ Bootstrapping
  BY DEF RegistrationInv
<1>1. UNCHANGED <<session, status, boot, account, crossed, token, holder, row, raced>>
  BY DEF GetUser, vars, serverVars, storeVars, storedVars
<1>2. /\ op \in [Ops -> [at : OpStages, user : Accounts \cup {Nobody}]]
      /\ op[o].at = "user" /\ o \in {"reconcile", "toggle"}
      /\ status \notin {"idle", "loading"}
  BY <1>0 DEF PushTypeOK, GetUser, Shapes, Ops, NoOp, Unregistering
<1>3. \A p \in Ops \ {o} : op'[p] = op[p]
  BY <1>2 DEF GetUser, End
<1>4. \/ op'[o] = NoOp
      \/ /\ op'[o] = [at |-> "permission", user |-> session.user]
         /\ status = "ready" /\ session.user # Nobody
  BY <1>2 DEF GetUser, End
<1>5. Shapes'
  <2>1. op["toggle"] = NoOp => op'["toggle"] = NoOp
    BY <1>2, <1>3, <1>4 DEF Ops, NoOp
  <2>2. Mending' <=> Mending
    BY <1>2, <1>3, <1>4 DEF Mending, Ops, NoOp, Unregistering
  <2>3. op'["reset"] = op["reset"] /\ op'["toggle"].at \in {"idle", "user"} \cup ForUser
    BY <1>0, <1>2, <1>3, <1>4 DEF Shapes, Ops, NoOp, ForUser
  <2>4. \A p \in Ops : /\ op'[p].at \in {"idle", "due", "user"} => op'[p].user = Nobody
                       /\ op'[p].at \in ForUser => op'[p].user # Nobody
    BY <1>0, <1>3, <1>4 DEF Shapes, NoOp, ForUser
  <2> QED BY <1>0, <1>1, <1>2, <2>1, <2>2, <2>3, <2>4 DEF Shapes
<1>6. Users'
  <2>1. CASE op'[o] = NoOp
    BY <1>0, <1>1, <1>3, <2>1 DEF Users, NoOp, ForUser
  <2>2. CASE op'[o] # NoOp
    <3> SUFFICES ASSUME ~crossed PROVE Users' BY <1>1 DEF Users
    <3>1. session.user # Nobody /\ status = "ready" /\ op'[o] = [at |-> "permission", user |-> session.user]
      BY <1>4, <2>2
    <3>2. boot # "off" => session.user = account
      BY <1>0, <3>1 DEF Bootstrapping
    <3>3. holder \in {Nobody, session.user}
      <4>1. Mending => op["toggle"] # NoOp
        BY <1>2 DEF Mending, NoOp, Unregistering
      <4> QED BY <1>0, <3>1, <4>1 DEF Holder, Shapes
    <3>4. \A p \in Ops : op'[p].at \in ForUser => op'[p].user = session.user
      BY <1>0, <1>3, <3>1 DEF Users
    <3> QED BY <1>1, <3>1, <3>2, <3>3, <3>4 DEF Users
  <2> QED BY <2>1, <2>2
<1>7. Holder'
  BY <1>0, <1>1, <1>2, <1>3, <1>4 DEF Holder, Mending, Ops, NoOp, Unregistering
<1>8. Row'
  BY <1>0, <1>1, <1>2, <1>3, <1>4 DEF Row, NoOp, Registering, Unregistering
<1> QED BY <1>5, <1>6, <1>7, <1>8

\* So does the answer to the question for the device's token.
LEMMA GetTokenKeeps ==
  ASSUME RegistrationInv, NEW o \in Ops, GetToken(o)
  PROVE  Shapes' /\ Users' /\ Holder' /\ Row'
<1>0. PushTypeOK /\ Shapes /\ Users /\ Holder /\ Row
  BY DEF RegistrationInv
<1>1. UNCHANGED <<session, status, boot, account, crossed, token, holder, row>>
  BY DEF GetToken, vars, serverVars, storeVars, storedVars
<1>2. /\ op \in [Ops -> [at : OpStages, user : Accounts \cup {Nobody}]]
      /\ op[o].at = "permission" /\ o # "reset" /\ op[o].user # Nobody
  BY <1>0 DEF PushTypeOK, GetToken, Shapes, Unregistering, ForUser
<1>3. \A p \in Ops \ {o} : op'[p] = op[p]
  <2>1. CASE OpTo(o, "post")
    BY <1>0, <1>2, <2>1, OpMoves DEF OpStages
  <2>2. CASE End(o)
    BY <1>2, <2>2 DEF End
  <2> QED BY <2>1, <2>2 DEF GetToken
<1>4. op'[o] = NoOp \/ op'[o] = [at |-> "post", user |-> op[o].user]
  <2>1. CASE OpTo(o, "post")
    BY <1>0, <1>2, <2>1, OpMoves DEF OpStages
  <2>2. CASE End(o)
    BY <1>2, <2>2 DEF End
  <2> QED BY <2>1, <2>2 DEF GetToken
<1>5. Shapes'
  <2>1. \A p \in Ops : op[p] = NoOp => op'[p] = NoOp
    BY <1>2, <1>3, <1>4 DEF NoOp
  <2>2. Mending' <=> Mending
    BY <1>2, <1>3, <1>4 DEF Mending, Ops, NoOp, Unregistering
  <2>3. op'["reset"] = op["reset"] /\ op'["toggle"].at \in {"idle", "user"} \cup ForUser
    BY <1>0, <1>2, <1>3, <1>4 DEF Shapes, Ops, NoOp, ForUser
  <2>4. \A p \in Ops : /\ op'[p].at \in {"idle", "due", "user"} => op'[p].user = Nobody
                       /\ op'[p].at \in ForUser => op'[p].user # Nobody
    BY <1>0, <1>2, <1>3, <1>4 DEF Shapes, NoOp, ForUser
  <2> QED BY <1>0, <1>1, <2>1, <2>2, <2>3, <2>4 DEF Shapes, Ops
<1>6. Users'
  <2>1. \A p \in Ops : op'[p].at \in ForUser => op[p].at \in ForUser /\ op'[p].user = op[p].user
    BY <1>2, <1>3, <1>4 DEF ForUser, NoOp
  <2> QED BY <1>0, <1>1, <2>1 DEF Users
<1>7. Holder'
  BY <1>0, <1>1, <1>2, <1>3, <1>4 DEF Holder, Mending, Ops, NoOp, Unregistering
<1>8. Row'
  <2> SUFFICES ASSUME ~raced' PROVE Row' BY DEF Row
  <2>1. /\ ~raced
        /\ \A p, q \in Ops : op'[p].at \in Registering \cup Unregistering
                             /\ op'[q].at \in Registering \cup Unregistering => p = q
    BY DEF GetToken, NoteRace, Calling
  <2>2. \A p \in Ops : /\ op'[p].at = "posted" => op'[p] = op[p]
                       /\ op[p].at = "deleted" => op'[p] = op[p]
    BY <1>2, <1>3, <1>4 DEF NoOp
  <2> QED BY <1>0, <1>1, <2>1, <2>2 DEF Row
<1> QED BY <1>5, <1>6, <1>7, <1>8

\* So does the server: of one call at a time it makes of the row what the phone asks for.
LEMMA ServeKeeps ==
  ASSUME RegistrationInv, NEW o \in Ops, ServePush(o)
  PROVE  Shapes' /\ Users' /\ Holder' /\ Row'
<1>0. PushTypeOK /\ Shapes /\ Users /\ Holder /\ Row
  BY DEF RegistrationInv
<1>1. UNCHANGED <<session, status, boot, account, crossed, token, holder, raced>>
  BY DEF ServePush, vars, serverVars, storeVars, storedVars
<1>2. op \in [Ops -> [at : OpStages, user : Accounts \cup {Nobody}]]
  BY <1>0 DEF PushTypeOK
<1>3. CASE op[o].at = "post"
  <2>1. row' = op[o].user /\ OpTo(o, "posted")
    BY <1>3 DEF ServePush
  <2>2. op' = [op EXCEPT ![o] = [at |-> "posted", user |-> op[o].user]]
    BY <1>0, <2>1, OpMoves DEF OpStages
  <2>3. op'[o] = [at |-> "posted", user |-> op[o].user] /\ \A p \in Ops \ {o} : op'[p] = op[p]
    BY <1>2, <2>2
  <2>4. \A p \in Ops : /\ op'[p].at \in ForUser <=> op[p].at \in ForUser
                       /\ op'[p].user = op[p].user
                       /\ op'[p] = NoOp <=> op[p] = NoOp
    BY <1>3, <2>3 DEF ForUser, Unregistering, NoOp
  <2>5. Shapes'
    <3>1. o # "reset"
      BY <1>0, <1>3 DEF Shapes, Unregistering
    <3>2. op'["reset"] = op["reset"] /\ op'["toggle"].at \in {"idle", "user"} \cup ForUser
      BY <1>0, <2>3, <3>1 DEF Shapes, Ops, ForUser
    <3>3. Mending' <=> Mending
      BY <1>3, <2>3 DEF Mending, Ops, Unregistering
    <3>4. \A p \in Ops : /\ op'[p].at \in {"idle", "due", "user"} => op'[p].user = Nobody
                         /\ op'[p].at \in ForUser => op'[p].user # Nobody
      BY <1>0, <1>3, <2>3 DEF Shapes, ForUser
    <3> QED BY <1>0, <1>1, <2>4, <3>2, <3>3, <3>4 DEF Shapes, Ops
  <2>6. Users' /\ Holder'
    BY <1>0, <1>1, <1>3, <2>3, <2>4 DEF Users, Holder, Mending, Ops, Unregistering
  <2>7. Row'
    <3> SUFFICES ASSUME ~raced PROVE Row' BY <1>1 DEF Row
    <3>1. \A p \in Ops : op[p].at \in Registering \cup Unregistering => p = o
      BY <1>0, <1>3 DEF Row, Registering
    <3>2. \A p \in Ops : op'[p].at \in Registering \cup Unregistering => p = o
      BY <2>3, <3>1
    <3>3. ~crossed /\ holder # Nobody => row' = holder
      BY <1>0, <1>3, <2>1 DEF Users, ForUser
    <3>4. \A p \in Ops : op'[p].at = "posted" => row' = op'[p].user
      BY <2>1, <2>3, <3>2 DEF Registering
    <3> QED BY <1>1, <3>2, <3>3, <3>4 DEF Row
  <2> QED BY <2>5, <2>6, <2>7
<1>4. CASE op[o].at = "delete"
  <2>1. row' = Nobody /\ OpTo(o, "deleted")
    BY <1>4 DEF ServePush
  <2>2. op' = [op EXCEPT ![o] = [at |-> "deleted", user |-> op[o].user]]
    BY <1>0, <2>1, OpMoves DEF OpStages
  <2>3. op'[o] = [at |-> "deleted", user |-> op[o].user] /\ \A p \in Ops \ {o} : op'[p] = op[p]
    BY <1>2, <2>2
  <2>4. \A p \in Ops : /\ op'[p].at \in ForUser <=> op[p].at \in ForUser
                       /\ op'[p].user = op[p].user
                       /\ op'[p].at \in Unregistering <=> op[p].at \in Unregistering
                       /\ op'[p] = NoOp <=> op[p] = NoOp
    BY <1>4, <2>3 DEF ForUser, Unregistering, NoOp
  <2>5. Shapes'
    <3>1. op'["reset"].at \in {"idle"} \cup Unregistering /\ op'["toggle"].at \in {"idle", "user"} \cup ForUser
      BY <1>0, <1>4, <2>3 DEF Shapes, Ops, ForUser, Unregistering
    <3>2. Mending' <=> Mending
      BY <1>4, <2>3 DEF Mending, Ops, Unregistering
    <3>3. \A p \in Ops : /\ op'[p].at \in {"idle", "due", "user"} => op'[p].user = Nobody
                         /\ op'[p].at \in ForUser => op'[p].user # Nobody
      BY <1>0, <2>3, <2>4 DEF Shapes
    <3> QED BY <1>0, <1>1, <2>4, <3>1, <3>2, <3>3 DEF Shapes, Ops
  <2>6. Users' /\ Holder'
    BY <1>0, <1>1, <1>4, <2>3, <2>4 DEF Users, Holder, Mending, Ops, Unregistering
  <2>7. Row'
    <3> SUFFICES ASSUME ~raced PROVE Row' BY <1>1 DEF Row
    <3>1. \A p \in Ops : op[p].at \in Registering \cup Unregistering => p = o
      BY <1>0, <1>4 DEF Row, Unregistering
    <3>2. \A p \in Ops : op'[p].at \in Registering \cup Unregistering => p = o
      BY <2>3, <3>1
    <3> QED BY <2>3, <3>2 DEF Row, Registering
  <2> QED BY <2>5, <2>6, <2>7
<1> QED BY <1>3, <1>4 DEF ServePush

\* So does an answer to the POST: of the operations that register all register one user.
LEMMA RegisteredKeeps ==
  ASSUME RegistrationInv, NEW o \in Ops, Registered(o)
  PROVE  Shapes' /\ Users' /\ Holder' /\ Row'
<1>0. PushTypeOK /\ Shapes /\ Users /\ Holder /\ Row
  BY DEF RegistrationInv
<1>1. /\ UNCHANGED <<session, status, boot, account, crossed, row, raced>>
      /\ token' = TRUE /\ holder' = op[o].user
  BY DEF Registered, Remember, vars, serverVars, storeVars
<1>2. /\ op \in [Ops -> [at : OpStages, user : Accounts \cup {Nobody}]]
      /\ op[o].at = "posted" /\ o \in {"reconcile", "toggle"} /\ op[o].user # Nobody
  BY <1>0 DEF PushTypeOK, Registered, Shapes, Ops, ForUser, Unregistering
<1>3. op'[o] = NoOp /\ \A p \in Ops \ {o} : op'[p] = op[p]
  BY <1>2 DEF Registered, End
<1>4. Shapes'
  <2>1. op'["toggle"] # NoOp => ~Mending'
    BY <1>2, <1>3 DEF Mending, Ops, NoOp, Unregistering
  <2>2. \A p \in Ops : /\ op'[p].at \in {"idle", "due", "user"} => op'[p].user = Nobody
                       /\ op'[p].at \in ForUser => op'[p].user # Nobody
    BY <1>0, <1>3 DEF Shapes, NoOp, ForUser
  <2>3. op'["reset"] = op["reset"] /\ op'["toggle"].at \in {"idle", "user"} \cup ForUser
    BY <1>0, <1>2, <1>3 DEF Shapes, Ops, NoOp
  <2>4. status' \in {"idle", "loading"} => op'["reconcile"] = NoOp /\ op'["toggle"] = NoOp
    BY <1>0, <1>1, <1>3 DEF Shapes, Ops
  <2> QED BY <1>0, <1>1, <1>2, <2>1, <2>2, <2>3, <2>4 DEF Shapes
<1>5. Users'
  <2>1. \A p \in Ops : op'[p].at \in ForUser => op'[p] = op[p]
    BY <1>3 DEF NoOp, ForUser
  <2>2. ~crossed => \A p \in Ops : op'[p].at \in ForUser => op'[p].user = op[o].user
    BY <1>0, <1>2, <2>1 DEF Users, ForUser
  <2> QED BY <1>0, <1>1, <2>1, <2>2 DEF Users
<1>6. Holder'
  BY <1>0, <1>1, <1>2 DEF Users, Holder, ForUser
<1>7. Row'
  <2>1. ~raced => row = op[o].user
    BY <1>0, <1>2 DEF Row
  <2> QED BY <1>0, <1>1, <1>3, <2>1 DEF Row, NoOp, Registering, Unregistering
<1> QED BY <1>4, <1>5, <1>6, <1>7

\* So does a POST whose answer never comes.
LEMMA FailsKeeps ==
  ASSUME RegistrationInv, NEW o \in Ops, RegisterFails(o)
  PROVE  Shapes' /\ Users' /\ Holder' /\ Row'
<1>0. PushTypeOK /\ Shapes /\ Users /\ Holder /\ Row
  BY DEF RegistrationInv
<1>1. UNCHANGED <<session, status, boot, account, crossed, token, holder, row, raced>>
  BY DEF RegisterFails, vars, serverVars, storeVars, storedVars
<1>2. /\ op \in [Ops -> [at : OpStages, user : Accounts \cup {Nobody}]]
      /\ op[o].at \in Registering /\ o \in {"reconcile", "toggle"}
  BY <1>0 DEF PushTypeOK, RegisterFails, Shapes, Ops, Registering, Unregistering
<1>3. op'[o] = NoOp /\ \A p \in Ops \ {o} : op'[p] = op[p]
  BY <1>2 DEF RegisterFails, End
<1>4. Mending' <=> Mending
  BY <1>2, <1>3 DEF Mending, Ops, NoOp, Registering, Unregistering
<1>5. Shapes'
  <2>1. \A p \in Ops : op[p] = NoOp => op'[p] = NoOp
    BY <1>3
  <2>2. \A p \in Ops : /\ op'[p].at \in {"idle", "due", "user"} => op'[p].user = Nobody
                       /\ op'[p].at \in ForUser => op'[p].user # Nobody
    BY <1>0, <1>3 DEF Shapes, NoOp, ForUser
  <2>3. op'["reset"] = op["reset"] /\ op'["toggle"].at \in {"idle", "user"} \cup ForUser
    BY <1>0, <1>2, <1>3 DEF Shapes, Ops, NoOp
  <2> QED BY <1>0, <1>1, <1>4, <2>1, <2>2, <2>3 DEF Shapes, Ops
<1>6. Users'
  <2>1. \A p \in Ops : op'[p].at \in ForUser => op'[p] = op[p]
    BY <1>3 DEF NoOp, ForUser
  <2> QED BY <1>0, <1>1, <2>1 DEF Users
<1>7. Holder'
  BY <1>0, <1>1, <1>4 DEF Holder
<1>8. Row'
  <2>1. \A p \in Ops : /\ op'[p].at \in Registering \cup Unregistering => op'[p] = op[p]
                       /\ op[p].at = "deleted" => op'[p] = op[p]
    BY <1>2, <1>3 DEF NoOp, Registering, Unregistering
  <2> QED BY <1>0, <1>1, <2>1 DEF Row, Registering
<1> QED BY <1>5, <1>6, <1>7, <1>8

\* So does the end of an unregistration, after which nothing is registered.
LEMMA UnregisteredKeeps ==
  ASSUME RegistrationInv, NEW o \in Ops, Unregistered(o)
  PROVE  Shapes' /\ Users' /\ Holder' /\ Row'
<1>0. PushTypeOK /\ Shapes /\ Users /\ Holder /\ Row
  BY DEF RegistrationInv
<1>1. /\ UNCHANGED <<session, status, boot, account, crossed, row, raced>>
      /\ token' = FALSE /\ holder' = Nobody
  BY DEF Unregistered, Forget, vars, serverVars, storeVars
<1>2. /\ op \in [Ops -> [at : OpStages, user : Accounts \cup {Nobody}]]
      /\ op[o].at \in Unregistering /\ o \in {"reconcile", "reset"}
      /\ o = "reset" => op[o].user = Nobody
  BY <1>0 DEF PushTypeOK, Unregistered, Shapes, Ops, ForUser, Unregistering
<1>3. /\ op'[o] = NoOp \/ (o = "reconcile" /\ op'[o] = [at |-> "user", user |-> Nobody])
      /\ \A p \in Ops \ {o} : op'[p] = op[p]
  BY <1>2 DEF Unregistered, End
<1>4. Shapes'
  <2>1. \A p \in Ops : op[p] = NoOp => op'[p] = NoOp
    <3>1. op[o] # NoOp
      BY <1>2 DEF NoOp, Unregistering
    <3> QED BY <1>3, <3>1
  <2>2. \A p \in Ops : /\ op'[p].at \in {"idle", "due", "user"} => op'[p].user = Nobody
                       /\ op'[p].at \in ForUser => op'[p].user # Nobody
    BY <1>0, <1>3 DEF Shapes, NoOp, ForUser
  <2>3. /\ op'["reset"].at \in {"idle"} \cup Unregistering /\ op'["reset"].user = Nobody
        /\ op'["toggle"] = op["toggle"]
    BY <1>0, <1>2, <1>3 DEF Shapes, Ops, NoOp
  <2> QED BY <1>0, <1>1, <2>1, <2>2, <2>3 DEF Shapes, Ops
<1>5. \A p \in Ops : op'[p].at \in ForUser \cup Registering \cup Unregistering => op'[p] = op[p]
  BY <1>3 DEF NoOp, ForUser, Registering, Unregistering
<1>6. Users'
  BY <1>0, <1>1, <1>5 DEF Users
<1>7. Holder' /\ Row'
  BY <1>0, <1>1, <1>5 DEF Holder, Row, Registering
<1> QED BY <1>4, <1>6, <1>7

\* Every step keeps the registration in order.
LEMMA PushStep == RegistrationInv /\ [PushNext]_allVars => RegistrationInv'
<1> SUFFICES ASSUME RegistrationInv, [PushNext]_allVars PROVE RegistrationInv' OBVIOUS
<1>1. [Next]_vars
  BY DEF PushNext, During, Death, Next, Reconcile, ToggleOn, ToggleOff, Operate, GetUser, GetToken,
         ServePush, Registered, RegisterFails, Unregistered, allVars
<1>2. SessionInv' /\ PushTypeOK'
  BY <1>1, SessionStep, PushTypeStep DEF RegistrationInv
<1>3. CASE UNCHANGED allVars
  BY <1>2, <1>3 DEF RegistrationInv, allVars, vars, pushVars, storedVars, serverVars, storeVars,
                    Bootstrapping, Shapes, Users, Holder, Row, Mending
<1>4. CASE During(Step)
  <2>1. Bootstrapping'
    BY <1>4, SessionMoves DEF RegistrationInv, During
  <2> QED BY <1>2, <1>4, <2>1, DuringKeeps DEF RegistrationInv
<1>5. CASE Death
  BY <1>2, <1>5, DeathKeeps DEF RegistrationInv
<1>6. CASE Reconcile \/ ToggleOn \/ ToggleOff \/ \E o \in Ops : Operate(o)
  <2>1. UNCHANGED <<boot, status, session, account, crossed>>
    BY <1>6 DEF Reconcile, ToggleOn, ToggleOff, Operate, GetUser, GetToken, ServePush, Registered,
                RegisterFails, Unregistered, vars, serverVars, storeVars
  <2>2. Bootstrapping'
    BY <2>1 DEF RegistrationInv, Bootstrapping
  <2>3. Shapes' /\ Users' /\ Holder' /\ Row'
    BY <1>6, ReconcileKeeps, ToggleKeeps, GetUserKeeps, GetTokenKeeps, ServeKeeps, RegisteredKeeps,
       FailsKeeps, UnregisteredKeeps DEF Operate
  <2> QED BY <1>2, <2>2, <2>3 DEF RegistrationInv
<1> QED BY <1>3, <1>4, <1>5, <1>6 DEF PushNext

\* When nothing is on its way phone, server and session agree.
LEMMA InvRegistration == RegistrationInv => RegistrationSound
<1> SUFFICES ASSUME RegistrationInv PROVE RegistrationSound OBVIOUS
<1>1. Quiet => ~Mending /\ \A o \in Ops : op[o].at # "deleted"
  BY DEF Quiet, Mending, NoOp, Unregistering, Ops
<1>2. BeliefTrue
  BY <1>1 DEF RegistrationInv, Row, BeliefTrue
<1>3. HolderSignedIn
  BY <1>1 DEF RegistrationInv, Holder, HolderSignedIn
<1> QED BY <1>2, <1>3 DEF RegistrationInv, RegistrationSound

\* The registration does to the session what the session does by itself.
THEOREM PushIsSession == PushSpec => Spec
<1>1. [PushNext]_allVars => [Next]_vars
  BY DEF PushNext, During, Death, Next, Reconcile, ToggleOn, ToggleOff, Operate, GetUser, GetToken,
         ServePush, Registered, RegisterFails, Unregistered, allVars
<1> QED BY <1>1, PTL DEF PushSpec, Spec

\* Whatever overlaps, fails or dies: a phone that believes itself registered is, unless
\* two calls raced, and once the launch is over only for the user who is signed in.
THEOREM PhoneAndServerAgree == PushSpec => []RegistrationSound
<1>1. PushSpec => []RegistrationInv
  BY PushInitial, PushStep, PTL DEF PushSpec
<1> QED BY <1>1, InvRegistration, PTL

=============================================================================
