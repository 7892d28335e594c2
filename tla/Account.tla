------------------------------ MODULE Account ------------------------------
(***************************************************************************)
(* The account of this installation (client/account.hpp): the sign-in      *)
(* flow, the token operations that share one mutex, sign-out, the files    *)
(* that survive the process (the session and the device key of             *)
(* shared/account_store.hpp) and the pending Install Dev Tools of          *)
(* shared/account_roles.hpp.                                               *)
(*                                                                         *)
(* Threads: one per sign-in flow, "confirm" (confirm_now, one at a time by *)
(* g_refreshing), "api" (a relayed call; an Admin has one outstanding),    *)
(* the sign-out and the bridge call that records an Install Dev Tools.     *)
(* token_mutex is `token`; the state lock st().m makes each action below   *)
(* one step.  Authorization i at the service is the one that sign-in i     *)
(* obtained; its refresh tokens are numbered by rotation.                  *)
(***************************************************************************)
EXTENDS Naturals, FiniteSets

CONSTANTS
    Accounts,     \* the people who may sign in
    None,         \* nobody
    Nobody,       \* the owner of an intent recorded while the account changed
    MaxSignIns,   \* sign-in attempts
    MaxKeys,      \* device keys ever made
    MaxExpiries,  \* lapses of an access token
    MaxOuts,      \* sign-outs a person asks for
    MaxMarks,     \* Install Dev Tools clicks
    MaxFaults     \* unanswered calls, revocations elsewhere, restarts

ASSUME AccountAssumption ==
    /\ {None, Nobody} \cap Accounts = {} /\ None # Nobody /\ IsFiniteSet(Accounts)
    /\ {MaxSignIns, MaxKeys, MaxExpiries, MaxOuts, MaxMarks, MaxFaults} \subseteq Nat
    /\ None \notin {"flow", "confirm", "api"}

SignIns == 1 .. MaxSignIns
Threads == {"confirm", "api"}
NoSession == [auth |-> 0, serial |-> 0, snap |-> None]
NoAccess  == [auth |-> 0, fresh |-> FALSE]

VARIABLES
    phase, flowId,               \* Phase, flow_id
    fl,                          \* the sign-in flows
    signedIn, session, access,   \* State: signed_in, session, access_token
    saved, keyFile, keys,        \* account.dat, account_device.cred, keys made
    intent,                      \* account_roles.json: the pending enrollment
    th, out, mark,               \* token operations, sign-out, the marking call
    token,                       \* who holds token_mutex
    svc,                         \* the service's device authorizations
    spent, excuse,               \* history: refresh tokens presented; answers lost
    reached,                     \* history: <<asked for, enrolled>>
    expiries, outs, marks, faults

memory  == <<phase, flowId, fl>>
account == <<signedIn, session, access, saved, keyFile, intent>>
history == <<spent, excuse, reached>>
budgets == <<expiries, outs, marks, faults>>
vars == <<memory, account, keys, th, out, mark, token, svc, history, budgets>>

FlowSteps == {"none", "start", "wait", "lock", "coded", "enroll", "me", "ended"}
OpSteps   == {"idle", "key", "lock", "token", "refresh", "refreshed", "send", "sent"}
Session   == [auth : 0 .. MaxSignIns, serial : Nat, snap : Accounts \cup {None}]
Access    == [auth : 0 .. MaxSignIns, fresh : BOOLEAN]
SignIn    == [pc : FlowSteps, key : 0 .. MaxKeys, who : Accounts \cup {None}, ok : BOOLEAN]
Intent    == [state : {"none", "unbound", "bound"}, owner : Accounts \cup {None, Nobody}]
Operation == [pc : OpSteps, op : {"enroll", "me", "call"}, key : 0 .. MaxKeys,
              at : 0 .. MaxSignIns, rt : Session, retried : BOOLEAN,
              answer : {"none", "ok", "refused", "silent"}]
SignOut   == [pc : {"idle", "key", "lock", "forget"}, key : 0 .. MaxKeys, rt : Session]
Mark      == [pc : {"idle", "write"}, bound : BOOLEAN, owner : Accounts \cup {None}]
Grant     == [who : Accounts \cup {None}, key : 0 .. MaxKeys, serial : Nat, alive : BOOLEAN]

TypeOK ==
    /\ phase \in {"idle", "browser", "exchanging"}
    /\ flowId \in 0 .. MaxSignIns /\ fl \in [SignIns -> SignIn]
    /\ signedIn \in BOOLEAN /\ session \in Session /\ saved \in Session /\ access \in Access
    /\ keyFile \in 0 .. MaxKeys /\ keys \in 0 .. MaxKeys
    /\ intent \in Intent
    /\ th \in [Threads -> Operation] /\ out \in SignOut /\ mark \in Mark
    /\ token \in {None, "flow"} \cup Threads
    /\ svc \in [SignIns -> Grant]

\* The authorization is in `a`'s refresh token family and proven by key k.
Honours(a, k) == a # 0 /\ svc[a].alive /\ svc[a].key = k
Fault == faults < MaxFaults /\ faults' = faults + 1 /\ UNCHANGED <<expiries, outs, marks>>
Calm == UNCHANGED budgets

NoFlow == [pc |-> "none", key |-> 0, who |-> None, ok |-> FALSE]
IdleOp == [pc |-> "idle", op |-> "call", key |-> 0, at |-> 0, rt |-> NoSession,
           retried |-> FALSE, answer |-> "none"]
IdleOut == [pc |-> "idle", key |-> 0, rt |-> NoSession]
IdleMark == [pc |-> "idle", bound |-> FALSE, owner |-> None]

Init ==
    /\ phase = "idle" /\ flowId = 0
    /\ fl = [i \in SignIns |-> NoFlow]
    /\ signedIn = FALSE /\ session = NoSession /\ access = NoAccess
    /\ saved = NoSession /\ keyFile = 0 /\ keys = 0
    /\ intent = [state |-> "none", owner |-> None]
    /\ th = [t \in Threads |-> IdleOp] /\ out = IdleOut /\ mark = IdleMark
    /\ token = None
    /\ svc = [i \in SignIns |-> [who |-> None, key |-> 0, serial |-> 0, alive |-> FALSE]]
    /\ spent = {} /\ excuse = FALSE /\ reached = {}
    /\ expiries = 0 /\ outs = 0 /\ marks = 0 /\ faults = 0

-----------------------------------------------------------------------------
(* The files and the local sign-out.                                       *)

\* Load the device key, making one when the file is gone.
device_key(k) ==
    IF keyFile # 0 THEN k = keyFile /\ UNCHANGED <<keyFile, keys>>
    ELSE /\ keys < MaxKeys /\ k = keys + 1
         /\ keys' = keys + 1 /\ keyFile' = keys + 1

\* A faulty remove_device_key: the next person signs in with the same key.
KeyKept == UNCHANGED keyFile

remove_device_key == keyFile' = 0

\* A faulty drop_bound_intent: it stays for whoever signs in next.
IntentStays == UNCHANGED intent

\* An undelivered intent made while signed in belonged to that account.
drop_bound_intent ==
    intent' = IF intent.state = "bound" THEN [state |-> "none", owner |-> None] ELSE intent

sign_out_locally ==
    /\ signedIn' = FALSE /\ session' = NoSession /\ access' = NoAccess
    /\ saved' = NoSession /\ remove_device_key /\ drop_bound_intent

\* The rotated token is persisted first, whatever became of the session.
apply_tokens(a, n) ==
    /\ session' = [session EXCEPT !.auth = a, !.serial = n]
    /\ saved' = session'
    /\ access' = [auth |-> a, fresh |-> TRUE]

\* /me names the account; the snapshot is written over the session file.
apply_me(a) ==
    /\ session' = [session EXCEPT !.snap = svc[a].who]
    /\ saved' = session'

-----------------------------------------------------------------------------
(* Signing in.                                                             *)

\* The Admin offers it of an installation that is signed out.
start_sign_in ==
    /\ ~signedIn /\ phase = "idle" /\ flowId < MaxSignIns
    /\ phase' = "browser" /\ flowId' = flowId + 1
    /\ fl' = [fl EXCEPT ![flowId + 1].pc = "start"]
    /\ UNCHANGED <<account, keys, th, out, mark, token, svc, history>> /\ Calm

\* finish_flow: only the newest flow reports its end.
finish_flow(i) ==
    /\ fl' = [fl EXCEPT ![i] = [NoFlow EXCEPT !.pc = "ended"]]
    /\ phase' = IF flowId = i THEN "idle" ELSE phase

\* The flow's thread starts with the device key of the authorization.
FlowKey(i) ==
    /\ fl[i].pc = "start"
    /\ \E k \in 1 .. MaxKeys :
         device_key(k) /\ fl' = [fl EXCEPT ![i].pc = "wait", ![i].key = k]
    /\ UNCHANGED <<phase, flowId, signedIn, session, access, saved, intent,
                   th, out, mark, token, svc, history>> /\ Calm

\* The request is pushed, its page opened, and someone consents there.
FlowCallback(i) ==
    /\ fl[i].pc = "wait"
    /\ \E a \in Accounts : fl' = [fl EXCEPT ![i].pc = "lock", ![i].who = a]
    /\ phase' = IF flowId = i THEN "exchanging" ELSE phase
    /\ UNCHANGED <<flowId, account, keys, th, out, mark, token, svc, history>> /\ Calm

\* The pushed request failed, or wait_callback was denied, cancelled or out
\* of its ten minutes.
FlowStops(i) ==
    /\ fl[i].pc = "wait" /\ finish_flow(i)
    /\ UNCHANGED <<flowId, account, keys, th, out, mark, token, svc, history>> /\ Calm

\* Under token_mutex the code is redeemed, whether or not the answer comes.
FlowCode(i) ==
    /\ fl[i].pc = "lock" /\ token = None /\ token' = "flow"
    /\ LET grant == [svc EXCEPT ![i] = [who |-> fl[i].who, key |-> fl[i].key,
                                        serial |-> 0, alive |-> TRUE]]
       IN  \/ svc' = grant /\ fl' = [fl EXCEPT ![i].pc = "coded", ![i].ok = TRUE]
              /\ UNCHANGED excuse /\ Calm
           \/ svc' = grant /\ fl' = [fl EXCEPT ![i].pc = "coded"] /\ excuse' = TRUE /\ Fault
           \/ UNCHANGED <<svc, excuse>> /\ fl' = [fl EXCEPT ![i].pc = "coded"] /\ Fault
    /\ UNCHANGED <<phase, flowId, account, keys, th, out, mark, spent, reached>>

\* A faulty FlowCoded: an exchange that failed leaves its phase.
FlowCodedStuck(i) ==
    /\ fl[i].pc = "coded"
    /\ IF fl[i].ok
         THEN /\ session' = [auth |-> i, serial |-> 0, snap |-> None] /\ saved' = session'
              /\ access' = [auth |-> i, fresh |-> TRUE]
              /\ fl' = [fl EXCEPT ![i].pc = "enroll"]
              /\ UNCHANGED token
         ELSE /\ token' = None /\ fl' = [fl EXCEPT ![i] = [NoFlow EXCEPT !.pc = "ended"]]
              /\ UNCHANGED <<session, saved, access>>
    /\ UNCHANGED <<phase, flowId, signedIn, keyFile, intent, keys, th, out, mark,
                   svc, history>> /\ Calm

FlowCoded(i) ==
    /\ fl[i].pc = "coded"
    /\ IF fl[i].ok
         THEN /\ session' = [auth |-> i, serial |-> 0, snap |-> None] /\ saved' = session'
              /\ access' = [auth |-> i, fresh |-> TRUE]
              /\ fl' = [fl EXCEPT ![i].pc = "enroll"]
              /\ UNCHANGED <<phase, token>>
         ELSE /\ phase' = "idle" /\ token' = None
              /\ fl' = [fl EXCEPT ![i] = [NoFlow EXCEPT !.pc = "ended"]]
              /\ UNCHANGED <<session, saved, access>>
    /\ UNCHANGED <<flowId, signedIn, keyFile, intent, keys, th, out, mark, svc,
                   history>> /\ Calm

\* An intent made signed out belongs to the account it reaches.
Owner(a) == IF intent.owner = None THEN a ELSE intent.owner
Clears == intent' = [state |-> "none", owner |-> None]

\* deliver_enrollment_locked with the token just received.  A refused token
\* ends it here: the refresh it asks for needs an account signed in.
FlowEnroll(i) ==
    /\ fl[i].pc = "enroll"
    /\ fl' = [fl EXCEPT ![i].pc = "me"]
    /\ IF intent.state = "none" \/ ~Honours(access.auth, fl[i].key)
         THEN UNCHANGED <<intent, reached>> /\ Calm
         ELSE \/ Clears /\ reached' = reached \cup {<<Owner(fl[i].who), fl[i].who>>} /\ Calm
              \/ Fault /\ UNCHANGED <<intent, reached>>
    /\ UNCHANGED <<phase, flowId, signedIn, session, access, saved, keyFile, keys,
                   th, out, mark, token, svc, spent, excuse>>

\* /me answers or not: signed in either way; the account-changed callback
\* follows outside the lock.
FlowDone(i) ==
    /\ fl[i].pc = "me"
    /\ \/ Calm /\ IF Honours(i, fl[i].key) THEN apply_me(i) ELSE UNCHANGED <<session, saved>>
       \/ Fault /\ UNCHANGED <<session, saved>>
    /\ signedIn' = TRUE /\ phase' = "idle" /\ token' = None
    /\ fl' = [fl EXCEPT ![i] = [NoFlow EXCEPT !.pc = "ended"]]
    /\ UNCHANGED <<flowId, access, keyFile, intent, keys, th, out, mark, svc, history>>

-----------------------------------------------------------------------------
(* The token operations: confirm_now and a relayed call.                   *)

Op(t, r) == th' = [th EXCEPT ![t] = r]

\* The next request of the thread, or the end of it and of its lock.
NextOp(t) ==
    IF th[t].op = "enroll"
      THEN Op(t, [IdleOp EXCEPT !.op = "me", !.pc = "token", !.key = th[t].key])
           /\ token' = t
      ELSE Op(t, IdleOp) /\ token' = None

Begin(t) ==
    /\ th[t].pc = "idle" /\ signedIn
    /\ Op(t, [IdleOp EXCEPT !.pc = "key", !.op = IF t = "confirm" THEN "enroll" ELSE "call"])
    /\ UNCHANGED <<memory, account, keys, out, mark, token, svc, history>> /\ Calm

LoadsKey(t) ==
    /\ th[t].pc = "key"
    /\ \E k \in 1 .. MaxKeys : device_key(k) /\ Op(t, [th[t] EXCEPT !.pc = "lock", !.key = k])
    /\ UNCHANGED <<memory, signedIn, session, access, saved, intent, out, mark, token, svc,
                   history>> /\ Calm

\* access_token_locked: a usable token, or the refresh token to present.
Token(t) ==
    IF ~signedIn \/ (th[t].op = "enroll" /\ intent.state = "none") THEN NextOp(t)
    ELSE /\ token' = t
         /\ IF access.auth # 0 /\ access.fresh
              THEN Op(t, [th[t] EXCEPT !.pc = "send", !.at = access.auth])
              ELSE Op(t, [th[t] EXCEPT !.pc = "refresh", !.rt = session])

\* A faulty Locks: token operations of different threads overlap.
LocksNothing(t) ==
    /\ th[t].pc = "lock" /\ Token(t)
    /\ UNCHANGED <<memory, account, keys, out, mark, svc, history>> /\ Calm

\* The thread takes token_mutex and goes on to its first request.
Locks(t) ==
    /\ th[t].pc = "lock" /\ token = None /\ Token(t)
    /\ UNCHANGED <<memory, account, keys, out, mark, svc, history>> /\ Calm

access_token_locked(t) ==
    /\ th[t].pc = "token" /\ Token(t)
    /\ UNCHANGED <<memory, account, keys, out, mark, svc, history>> /\ Calm

\* The service rotates the family of a current token and ends the
\* authorization of one presented again.
Refreshes(t) ==
    /\ th[t].pc = "refresh"
    /\ LET a == th[t].rt.auth n == th[t].rt.serial
           good == Honours(a, th[t].key) /\ svc[a].serial = n
           rotated == [svc EXCEPT ![a].serial = n + 1]
           stolen == [svc EXCEPT ![a].alive = @ /\ svc[a].serial = n]
       IN  \/ /\ Op(t, [th[t] EXCEPT !.pc = "refreshed", !.answer = "silent"]) /\ Fault
              /\ \/ UNCHANGED <<svc, spent, excuse>>
                 \/ good /\ svc' = rotated /\ spent' = spent \cup {<<a, n>>} /\ excuse' = TRUE
           \/ /\ good /\ svc' = rotated /\ spent' = spent \cup {<<a, n>>} /\ Calm
              /\ Op(t, [th[t] EXCEPT !.pc = "refreshed", !.answer = "ok"]) /\ UNCHANGED excuse
           \/ /\ ~good /\ svc' = (IF a = 0 THEN svc ELSE stolen) /\ Calm
              /\ Op(t, [th[t] EXCEPT !.pc = "refreshed", !.answer = "refused"])
              /\ UNCHANGED <<spent, excuse>>
    /\ UNCHANGED <<memory, account, keys, out, mark, token, reached>>

\* A faulty refresh_locked: an unanswered refresh signs the person out.
RefreshGivesUp(t) ==
    /\ th[t].pc = "refreshed"
    /\ IF th[t].answer = "ok"
         THEN /\ apply_tokens(th[t].rt.auth, th[t].rt.serial + 1)
              /\ Op(t, [th[t] EXCEPT !.pc = "send", !.at = th[t].rt.auth, !.rt = NoSession,
                                     !.answer = "none"])
              /\ UNCHANGED <<signedIn, keyFile, intent, token>>
         ELSE sign_out_locally /\ NextOp(t)
    /\ UNCHANGED <<memory, keys, out, mark, svc, history>> /\ Calm

\* refresh_locked after the call: rotated, signed out, or kept for later.
refresh_locked(t) ==
    /\ th[t].pc = "refreshed"
    /\ \/ /\ th[t].answer = "ok" /\ apply_tokens(th[t].rt.auth, th[t].rt.serial + 1)
          /\ Op(t, [th[t] EXCEPT !.pc = "send", !.at = th[t].rt.auth, !.rt = NoSession,
                                 !.answer = "none"])
          /\ UNCHANGED <<signedIn, keyFile, intent, token>>
       \/ th[t].answer = "refused" /\ sign_out_locally /\ NextOp(t)
       \/ th[t].answer = "silent" /\ NextOp(t) /\ UNCHANGED account
    /\ UNCHANGED <<memory, keys, out, mark, svc, history>> /\ Calm

\* One request under the access token.
Sends(t) ==
    /\ th[t].pc = "send"
    /\ LET good == Honours(th[t].at, th[t].key)
       IN  \/ /\ good /\ Calm
              /\ Op(t, [th[t] EXCEPT !.pc = "sent", !.answer = "ok"])
              /\ reached' = IF th[t].op = "enroll"
                              THEN reached \cup {<<Owner(svc[th[t].at].who), svc[th[t].at].who>>}
                              ELSE reached
           \/ ~good /\ Op(t, [th[t] EXCEPT !.pc = "sent", !.answer = "refused"])
              /\ Calm /\ UNCHANGED reached
           \/ Op(t, [th[t] EXCEPT !.pc = "sent", !.answer = "silent"])
              /\ Fault /\ UNCHANGED reached
    /\ UNCHANGED <<memory, account, keys, out, mark, token, svc, spent, excuse>>

\* A 401 is retried once after a refresh; an answer is applied.
Sent(t) ==
    /\ th[t].pc = "sent"
    /\ IF th[t].answer = "refused" /\ ~th[t].retried /\ signedIn
         THEN /\ Op(t, [th[t] EXCEPT !.pc = "refresh", !.rt = session, !.retried = TRUE,
                                     !.at = 0, !.answer = "none"])
              /\ UNCHANGED <<session, saved, intent, token>>
         ELSE /\ NextOp(t)
              /\ IF th[t].answer = "ok" /\ th[t].op = "me"
                   THEN apply_me(th[t].at) ELSE UNCHANGED <<session, saved>>
              /\ IF th[t].answer = "ok" /\ th[t].op = "enroll" THEN Clears ELSE UNCHANGED intent
    /\ UNCHANGED <<memory, signedIn, access, keyFile, keys, out, mark, svc, history>> /\ Calm

-----------------------------------------------------------------------------
(* Signing out, and Install Dev Tools.                                     *)

\* sign_out, under the state lock: whose refresh token is to be revoked.
sign_out ==
    /\ out.pc = "idle" /\ signedIn /\ outs < MaxOuts
    /\ outs' = outs + 1 /\ UNCHANGED <<expiries, marks, faults>>
    /\ out' = [out EXCEPT !.pc = "key", !.rt = session]
    /\ UNCHANGED <<memory, account, keys, th, mark, token, svc, history>>

OutKey ==
    /\ out.pc = "key"
    /\ \E k \in 1 .. MaxKeys : device_key(k) /\ out' = [out EXCEPT !.pc = "lock", !.key = k]
    /\ UNCHANGED <<memory, signedIn, session, access, saved, intent, th, mark, token, svc,
                   history>> /\ Calm

\* Under token_mutex, best effort: the service ends the authorization, or
\* never hears of it.
OutRevokes ==
    /\ out.pc = "lock" /\ token = None /\ out' = [out EXCEPT !.pc = "forget"]
    /\ \/ /\ svc' = IF out.rt.auth # 0 /\ Honours(out.rt.auth, out.key)
                      THEN [svc EXCEPT ![out.rt.auth].alive = FALSE] ELSE svc
          /\ Calm
       \/ UNCHANGED svc /\ Fault
    /\ UNCHANGED <<memory, account, keys, th, mark, token, history>>

\* ... and is forgotten here whatever the network says.
OutForgets ==
    /\ out.pc = "forget" /\ sign_out_locally /\ out' = IdleOut
    /\ UNCHANGED <<memory, keys, th, mark, token, svc, history>> /\ Calm

Who == IF session.auth = 0 THEN None ELSE svc[session.auth].who

\* mark_developer_intent reads whether an account is signed in ...
mark_developer_intent ==
    /\ mark.pc = "idle" /\ marks < MaxMarks
    /\ marks' = marks + 1 /\ UNCHANGED <<expiries, outs, faults>>
    /\ mark' = [pc |-> "write", bound |-> signedIn,
                owner |-> IF signedIn THEN Who ELSE None]
    /\ UNCHANGED <<memory, account, keys, th, out, token, svc, history>>

\* The account changed since it was read.
MarkRaces == mark.bound # signedIn \/ (signedIn /\ Who # mark.owner)

\* ... and writes the record under the record's own lock.
MarkWrites ==
    /\ mark.pc = "write" /\ mark' = IdleMark
    /\ intent' = [state |-> IF mark.bound THEN "bound" ELSE "unbound",
                  owner |-> IF MarkRaces THEN Nobody ELSE mark.owner]
    /\ UNCHANGED <<memory, signedIn, session, access, saved, keyFile, keys, th, out, token, svc,
                   history>> /\ Calm

-----------------------------------------------------------------------------
(* Time, the service and the process.                                      *)

Expires ==
    /\ access.fresh /\ expiries < MaxExpiries
    /\ expiries' = expiries + 1 /\ UNCHANGED <<outs, marks, faults>>
    /\ access' = [access EXCEPT !.fresh = FALSE]
    /\ UNCHANGED <<memory, signedIn, session, saved, keyFile, intent, keys, th, out, mark,
                   token, svc, history>>

\* The person, or the service, ends an authorization elsewhere.
RevokedElsewhere ==
    /\ Fault /\ \E i \in SignIns : svc[i].alive /\ svc' = [svc EXCEPT ![i].alive = FALSE]
    /\ UNCHANGED <<memory, account, keys, th, out, mark, token, history>>

\* The process dies and starts again: ensure_loaded_locked reads the file.
Restart ==
    /\ Fault /\ phase' = "idle" /\ UNCHANGED flowId
    /\ fl' = [i \in SignIns |-> IF i <= flowId THEN [NoFlow EXCEPT !.pc = "ended"] ELSE fl[i]]
    /\ signedIn' = (saved.auth # 0) /\ session' = IF saved.auth # 0 THEN saved ELSE NoSession
    /\ access' = NoAccess /\ th' = [t \in Threads |-> IdleOp]
    /\ out' = IdleOut /\ mark' = IdleMark /\ token' = None
    /\ excuse' = \/ excuse
                 \/ \E t \in Threads : th[t].pc = "refreshed" /\ th[t].answer = "ok"
                 \/ \E i \in SignIns : fl[i].pc = "coded" /\ fl[i].ok
    /\ UNCHANGED <<saved, keyFile, intent, keys, svc, spent, reached>>

FlowRuns(i) == FlowKey(i) \/ FlowCallback(i) \/ FlowStops(i)
               \/ FlowCoded(i) \/ FlowEnroll(i) \/ FlowDone(i)
OpRuns(t) == LoadsKey(t) \/ Locks(t) \/ access_token_locked(t) \/ Refreshes(t) \/ refresh_locked(t)
             \/ Sends(t) \/ Sent(t)

Next ==
    \/ start_sign_in
    \/ \E i \in SignIns : FlowRuns(i) \/ FlowCode(i)
    \/ \E t \in Threads : Begin(t) \/ OpRuns(t)
    \/ sign_out \/ OutKey \/ OutRevokes \/ OutForgets
    \/ mark_developer_intent \/ MarkWrites
    \/ Expires \/ RevokedElsewhere \/ Restart

Spec == Init /\ [][Next]_vars

\* A started flow and a started token operation go on, and the mutex is
\* granted to a flow that keeps asking for it; nothing else is assumed.
FairSpec ==
    /\ Spec
    /\ WF_vars(\E i \in SignIns : FlowRuns(i)) /\ SF_vars(\E i \in SignIns : FlowCode(i))
    /\ \A t \in Threads : WF_vars(OpRuns(t))

-----------------------------------------------------------------------------
(* Properties.                                                             *)

\* "Two refreshes racing would present one refresh token twice, which the
\* service treats as theft" (token_mutex): a token the service has rotated
\* is never presented again, unless the answer that rotated it was lost.
NeverTwice ==
    \A t \in Threads : th[t].pc = "refresh" =>
        excuse \/ <<th[t].rt.auth, th[t].rt.serial>> \notin spent

\* "Two people who sign in on this computer one after the other never share
\* a key" (account_store.hpp), unless the answer to an exchange was lost:
\* then this Client does not know that the first authorization exists.
KeyPerPerson ==
    \A i, j \in SignIns :
        svc[i].key # 0 /\ svc[i].key = svc[j].key /\ svc[i].who # svc[j].who => excuse

\* A sign-in ends, whatever the browser, the service and the other token
\* operations do: the phase the Admin shows returns to idle.
SignInEnds == phase # "idle" ~> phase = "idle"

\* "Network failure is NOT a sign-out": the installation is signed out by
\* the person, or because the service ended the authorization (or because a
\* thread still held the device key of the session before this one).
NetworkKeepsSignIn ==
    [][signedIn /\ session.auth # 0 /\ ~signedIn' =>
         \/ out.pc = "forget" \/ excuse
         \/ \E t \in Threads : th[t].answer = "refused" /\ ~Honours(session.auth, th[t].key)]_vars

\* account_roles.hpp: an Install Dev Tools made signed in "can never reach a
\* different account", through any sign-out, sign-in and failed delivery.
\* (Not one recorded while the account changes under it: MarkRaces.)
IntentReachesItsAccount == \A e \in reached : e[1] \in {e[2], Nobody}
=============================================================================
