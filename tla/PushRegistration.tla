-------------------------- MODULE PushRegistration --------------------------
(***************************************************************************)
(* The push registration of the phone (NotificationManager) on top of the  *)
(* session: it is reconciled when the bootstrap is ready, undone when the  *)
(* session's boundary is crossed, and made by the switches in the settings.*)
(* The three operations interleave at their awaits; the server knows the   *)
(* one push token of the device and the user it is active for.             *)
(***************************************************************************)
EXTENDS Session

CONSTANT MaxToggles     \* model bound

VARIABLES
    toggles,    \* taps on the switches
    wanted,     \* a kind of notification is switched on
    token,      \* pushToken of the settings store is set
    holder,     \* its registeredPushUserId
    current,    \* currentToken of the manager is set
    row,        \* the user the server's device_tokens row is active for
    op,         \* [Ops -> operation in flight]
    raced       \* two changes of the server's row overlapped, or the process
                \* died during an unregistration

storedVars == <<token, holder>>
pushVars   == <<wanted, storedVars, current, row, op, raced, toggles>>
allVars    == <<vars, pushVars>>

Ops     == {"reset", "reconcile", "toggle"}
NoOp    == [at |-> "idle", user |-> Nobody]
OpStages == {"idle", "due", "user", "permission", "post", "posted", "rebind", "delete", "deleted"}

PushInit ==
    /\ wanted = TRUE
    /\ \/ token = FALSE /\ holder = Nobody /\ row = Nobody
       \/ disk.user # Nobody /\ token = TRUE /\ holder = disk.user /\ row = disk.user
    /\ current = FALSE /\ op = [o \in Ops |-> NoOp] /\ raced = FALSE /\ toggles = 0

Registering   == {"post", "posted"}
Unregistering == {"delete", "deleted"}
OpTo(o, stage) == op' = [op EXCEPT ![o].at = stage]
End(o)         == op' = [op EXCEPT ![o] = NoOp]

\* Mark the overlap of two calls for the one push token.
Calling(o) == op'[o].at \in Registering \cup Unregistering
NoteRace == raced' = (raced \/ \E o, p \in Ops : o # p /\ Calling(o) /\ Calling(p))

Quiet == \A o \in Ops : op[o] = NoOp

-----------------------------------------------------------------------------
(***************************************************************************)
(* What a step of the session does to the registration.                    *)
(***************************************************************************)
\* The effect of the root layout on "ready", due once.
Due == IF status' = "ready" /\ status # "ready"
       THEN [op EXCEPT !["reconcile"].at = "due"] ELSE op

\* Mutant: the stored registration outlives the session.
ForgetNothing == UNCHANGED storedVars
Forget == token' = FALSE /\ holder' = Nobody

\* resetUserScopedStores forgets the registration first: unregister() is left
\* with the manager's token, which a new process does not have yet.
During(step) ==
    /\ step
    /\ IF session' # session /\ Boundary(session')
       THEN /\ Forget
            /\ op["reset"] = NoOp     \* bound: one such DELETE at a time
            /\ op' = IF current THEN [Due EXCEPT !["reset"].at = "delete"] ELSE Due
       ELSE op' = Due /\ UNCHANGED storedVars
    /\ NoteRace
    /\ UNCHANGED <<wanted, current, row, toggles>>

Death ==
    /\ Kill
    /\ current' = FALSE /\ op' = [o \in Ops |-> NoOp]
    /\ raced' = (raced \/ \E o \in Ops : op[o].at \in Unregistering)
    /\ UNCHANGED <<wanted, storedVars, row, toggles>>

-----------------------------------------------------------------------------
\* reconcile(): nothing to do, undo, undo and redo, or do.
Reconcile ==
    /\ op["reconcile"].at = "due"
    /\ LET user == session.user
       IN  CASE user = Nobody \/ ~wanted ->
                  IF token THEN OpTo("reconcile", "delete") /\ UNCHANGED current
                  ELSE End("reconcile") /\ UNCHANGED current
             [] token /\ holder # Nobody /\ holder # user ->
                  op' = [op EXCEPT !["reconcile"] = [at |-> "delete", user |-> user]]
                  /\ UNCHANGED current
             [] token /\ holder = user -> End("reconcile") /\ current' = TRUE
             [] OTHER -> OpTo("reconcile", "user") /\ UNCHANGED current
    /\ NoteRace
    /\ UNCHANGED <<vars, wanted, storedVars, row, toggles>>

\* The switches: on registers first unless a token is stored, off only switches.
Tap == /\ status \in {"ready", "error"}
       /\ toggles < MaxToggles /\ toggles' = toggles + 1

ToggleOn ==
    /\ Tap /\ op["toggle"] = NoOp
    /\ IF token THEN wanted' = TRUE /\ UNCHANGED op
       ELSE OpTo("toggle", "user") /\ UNCHANGED wanted
    /\ UNCHANGED <<vars, storedVars, current, row, raced>>

ToggleOff ==
    /\ Tap /\ wanted' = FALSE
    /\ UNCHANGED <<vars, storedVars, current, row, op, raced>>

\* getAuthenticatedUserId: waits for the bootstrap or five seconds.
GetUser(o) ==
    /\ op[o].at = "user"
    /\ IF status = "ready" /\ session.user # Nobody
       THEN op' = [op EXCEPT ![o] = [at |-> "permission", user |-> session.user]]
       ELSE End(o)
    /\ UNCHANGED <<vars, wanted, storedVars, current, row, raced, toggles>>

\* requestPermissions and getExpoPushTokenAsync: either may say no.
GetToken(o) ==
    /\ op[o].at = "permission"
    /\ OpTo(o, "post") \/ End(o)
    /\ NoteRace
    /\ UNCHANGED <<vars, wanted, storedVars, current, row, toggles>>

\* Upsert and Deactivate on the server, in the order the requests arrive.
ServePush(o) ==
    \/ /\ op[o].at = "post" /\ row' = op[o].user /\ OpTo(o, "posted")
       /\ UNCHANGED <<vars, wanted, storedVars, current, raced, toggles>>
    \/ /\ op[o].at = "delete" /\ row' = Nobody /\ OpTo(o, "deleted")
       /\ UNCHANGED <<vars, wanted, storedVars, current, raced, toggles>>

Remember(o) == token' = TRUE /\ holder' = op[o].user /\ current' = TRUE

Registered(o) ==
    /\ op[o].at = "posted"
    /\ Remember(o)
    /\ wanted' = (wanted \/ o = "toggle") /\ End(o)
    /\ UNCHANGED <<vars, row, raced, toggles>>

\* The POST fails, or only its answer is lost.
RegisterFails(o) ==
    /\ op[o].at \in Registering /\ End(o)
    /\ UNCHANGED <<vars, wanted, storedVars, current, row, raced, toggles>>

\* "Best effort": whatever became of the DELETE, the phone forgets.  Of two
\* steps in reconcile the second one registers the user of the moment.
Unregistered(o) ==
    /\ op[o].at \in Unregistering
    /\ current' = FALSE /\ Forget
    /\ IF op[o].user # Nobody THEN op' = [op EXCEPT ![o] = [at |-> "user", user |-> Nobody]]
       ELSE End(o)
    /\ UNCHANGED <<vars, wanted, row, raced, toggles>>

Operate(o) == \/ GetUser(o) \/ GetToken(o) \/ ServePush(o) \/ Registered(o)
              \/ RegisterFails(o) \/ Unregistered(o)

PushNext == \/ During(Step) \/ Death
            \/ Reconcile \/ ToggleOn \/ ToggleOff
            \/ \E o \in Ops : Operate(o)

PushSpec == Init /\ PushInit /\ [][PushNext]_allVars

\* As for the session; the answers of the operations come, too.
Registration == During(Progress) \/ Reconcile \/ \E o \in Ops : Operate(o)
PushFairSpec == PushSpec /\ WF_allVars(Registration)

-----------------------------------------------------------------------------
PushTypeOK ==
    /\ TypeOK
    /\ {wanted, token, current, raced} \subseteq BOOLEAN
    /\ {holder, row} \subseteq Accounts \cup {Nobody}
    /\ op \in [Ops -> [at : OpStages, user : Accounts \cup {Nobody}]]

\* What the phone believes to be registered, the server has: a user who sees the
\* switch on gets pushes.
BeliefTrue == ~raced /\ ~crossed /\ Quiet /\ holder # Nobody => row = holder

\* Once the bootstrap is over the phone is registered for nobody but the user who is
\* signed in, although an answer may have come after its user had left.
HolderSignedIn ==
    ~crossed /\ Quiet /\ status = "ready" /\ {holder, session.user} \cap {Nobody} = {}
        => holder = session.user

\* Phone, server and session agree on who gets the pushes: both of the above.
RegistrationSound == PushTypeOK /\ BeliefTrue /\ HolderSignedIn

\* Whatever fails, expires or is purged, the start screen leaves its spinner, every
\* request that was made comes to an end, and so does whatever the phone does about
\* its registration, although a user may never be signed in: unless the process dies,
\* again and again nothing at all is waited for.
PhoneSettles == []<>(Settled /\ Quiet)
=============================================================================
