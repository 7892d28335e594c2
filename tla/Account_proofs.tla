---------------------------- MODULE Account_proofs ----------------------------
(***************************************************************************)
(* Proofs about Account, for any number of people, of sign-ins, of device  *)
(* keys, of lapsed tokens, of sign-outs and of faults.                     *)
(***************************************************************************)
EXTENDS Account, TLAPS

USE AccountAssumption

-----------------------------------------------------------------------------
(* Types.                                                                  *)

LEMMA ResetTypes ==
  /\ NoSession \in Session /\ NoAccess \in Access /\ NoFlow \in SignIn /\ IdleOp \in Operation
  /\ IdleOut \in SignOut /\ IdleMark \in Mark
  /\ [state |-> "none", owner |-> None] \in Intent
<1>1. NoSession \in Session /\ NoAccess \in Access
  BY DEF NoSession, Session, NoAccess, Access
<1>2. NoFlow \in SignIn
  BY DEF NoFlow, SignIn, FlowSteps
<1>3. IdleOp \in Operation
  BY <1>1 DEF IdleOp, Operation, OpSteps
<1>4. IdleOut \in SignOut /\ IdleMark \in Mark
  BY <1>1 DEF IdleOut, SignOut, IdleMark, Mark
<1>5. [state |-> "none", owner |-> None] \in Intent
  BY DEF Intent
<1> QED
  BY <1>1, <1>2, <1>3, <1>4, <1>5

\* A flow, an operation and a session keep their form when a field is set.
LEMMA SignInFields ==
  ASSUME NEW f \in SignIn, NEW p \in FlowSteps
  PROVE  /\ [f EXCEPT !.pc = p] \in SignIn
         /\ \A k \in 0 .. MaxKeys : [f EXCEPT !.pc = p, !.key = k] \in SignIn
         /\ \A w \in Accounts \cup {None} : [f EXCEPT !.pc = p, !.who = w] \in SignIn
         /\ [f EXCEPT !.pc = p, !.ok = TRUE] \in SignIn
BY DEF SignIn

LEMMA EndedType == [NoFlow EXCEPT !.pc = "ended"] \in SignIn
<1>1. "ended" \in FlowSteps
  BY DEF FlowSteps
<1> QED
  BY <1>1, ResetTypes, SignInFields

LEMMA OperationFields ==
  ASSUME NEW r \in Operation, NEW p \in OpSteps
  PROVE  /\ \A k \in 0 .. MaxKeys : [r EXCEPT !.pc = p, !.key = k] \in Operation
         /\ \A a \in 0 .. MaxSignIns : [r EXCEPT !.pc = p, !.at = a] \in Operation
         /\ \A s \in Session : [r EXCEPT !.pc = p, !.rt = s] \in Operation
         /\ \A w \in {"none", "ok", "refused", "silent"} : [r EXCEPT !.pc = p, !.answer = w] \in Operation
         /\ \A a \in 0 .. MaxSignIns, s \in Session :
               /\ [r EXCEPT !.pc = p, !.at = a, !.rt = s, !.answer = "none"] \in Operation
               /\ [r EXCEPT !.pc = p, !.rt = s, !.retried = TRUE, !.at = a, !.answer = "none"] \in Operation
BY DEF Operation

\* What a request that begins anew holds.
LEMMA IdleForm ==
  /\ IdleOp.pc = "idle"
  /\ \A o : [IdleOp EXCEPT !.pc = "key", !.op = o].pc = "key"
  /\ \A k : [IdleOp EXCEPT !.op = "me", !.pc = "token", !.key = k].pc = "token"
<1>1. IdleOp \in Operation
  BY ResetTypes
<1>2. IdleOp.pc = "idle"
  BY DEF IdleOp
<1> QED
  BY <1>1, <1>2 DEF Operation

LEMMA SessionFields ==
  ASSUME NEW s \in Session
  PROVE  /\ \A a \in 0 .. MaxSignIns, n \in Nat : [s EXCEPT !.auth = a, !.serial = n] \in Session
         /\ \A w \in Accounts \cup {None} : [s EXCEPT !.snap = w] \in Session
BY DEF Session

\* The device key that is loaded, or made.
LEMMA KeyTypes ==
  ASSUME keyFile \in 0 .. MaxKeys, keys \in 0 .. MaxKeys, NEW k \in 1 .. MaxKeys, device_key(k)
  PROVE  keyFile' \in 0 .. MaxKeys /\ keys' \in 0 .. MaxKeys
BY DEF device_key

LEMMA SignOutTypes ==
  ASSUME intent \in Intent, sign_out_locally
  PROVE  /\ signedIn' \in BOOLEAN /\ session' \in Session /\ access' \in Access
         /\ saved' \in Session /\ keyFile' \in 0 .. MaxKeys /\ intent' \in Intent
<1>1. signedIn' \in BOOLEAN /\ keyFile' \in 0 .. MaxKeys
  <2>1. signedIn' = FALSE /\ keyFile' = 0
    BY DEF sign_out_locally, remove_device_key
  <2>2. 0 \in 0 .. MaxKeys
    OBVIOUS
  <2> QED
    BY <2>1, <2>2
<1>2. session' \in Session /\ access' \in Access /\ saved' \in Session
  BY ResetTypes DEF sign_out_locally
<1>3. intent' \in Intent
  BY ResetTypes DEF sign_out_locally, drop_bound_intent
<1> QED
  BY <1>1, <1>2, <1>3

LEMMA OpTypes ==
  ASSUME th \in [Threads -> Operation], NEW t \in Threads, NEW r \in Operation, Op(t, r)
  PROVE  th' \in [Threads -> Operation]
BY DEF Op

LEMMA NextTypes ==
  ASSUME th \in [Threads -> Operation], NEW t \in Threads, NextOp(t)
  PROVE  th' \in [Threads -> Operation] /\ token' \in {None, "flow"} \cup Threads
<1>1. [IdleOp EXCEPT !.op = "me", !.pc = "token", !.key = th[t].key] \in Operation
  BY ResetTypes DEF Operation, OpSteps
<1> QED
  BY <1>1, ResetTypes, OpTypes DEF NextOp

LEMMA TokenTypes ==
  ASSUME TypeOK, NEW t \in Threads, Token(t)
  PROVE  th' \in [Threads -> Operation] /\ token' \in {None, "flow"} \cup Threads
<1>1. th \in [Threads -> Operation] /\ th[t] \in Operation
  BY DEF TypeOK
<1>2. [th[t] EXCEPT !.pc = "send", !.at = access.auth] \in Operation
  BY <1>1 DEF Operation, OpSteps, TypeOK, Access
<1>3. [th[t] EXCEPT !.pc = "refresh", !.rt = session] \in Operation
  BY <1>1 DEF Operation, OpSteps, TypeOK
<1> QED
  BY <1>1, <1>2, <1>3, OpTypes, NextTypes DEF Token

\* A request goes out under the authorization of a sign-in.
AtGranted == \A t \in Threads :
    /\ th[t].pc \in {"send", "sent"} => th[t].at # 0
    /\ th[t].pc = "refreshed" /\ th[t].answer = "ok" => th[t].rt.auth # 0

LEMMA TypeInit == Init => TypeOK
<1> SUFFICES ASSUME Init PROVE TypeOK
  OBVIOUS
<1>1. phase \in {"idle", "browser", "exchanging"} /\ flowId \in 0 .. MaxSignIns
  BY DEF Init
<1>2. fl \in [SignIns -> SignIn] /\ th \in [Threads -> Operation] /\ out \in SignOut /\ mark \in Mark
  BY ResetTypes DEF Init
<1>3. session \in Session /\ saved \in Session /\ access \in Access /\ intent \in Intent
  BY ResetTypes DEF Init
<1>4. signedIn = FALSE /\ keyFile \in 0 .. MaxKeys /\ keys \in 0 .. MaxKeys
  BY DEF Init
<1>5. [who |-> None, key |-> 0, serial |-> 0, alive |-> FALSE] \in Grant
  BY DEF Grant
<1>6. svc \in [SignIns -> Grant] /\ token \in {None, "flow"} \cup Threads
  BY <1>5 DEF Init
<1> QED
  BY <1>1, <1>2, <1>3, <1>4, <1>6 DEF TypeOK

\* The sign-in flows.
LEMMA TypeFlows ==
  ASSUME TypeOK, NEW i \in SignIns, FlowRuns(i) \/ FlowCode(i)
  PROVE  TypeOK'
<1> USE DEF TypeOK, memory, account, history
<1>1. /\ fl[i] \in SignIn /\ [fl EXCEPT ![i] = [NoFlow EXCEPT !.pc = "ended"]] \in [SignIns -> SignIn]
  BY EndedType
<1>a. {"wait", "lock", "coded", "enroll", "me"} \subseteq FlowSteps
  BY DEF FlowSteps
<1>2. CASE FlowKey(i)
  <2>1. PICK k \in 1 .. MaxKeys : device_key(k) /\ fl' = [fl EXCEPT ![i].pc = "wait", ![i].key = k]
    BY <1>2 DEF FlowKey
  <2>2. fl' = [fl EXCEPT ![i] = [fl[i] EXCEPT !.pc = "wait", !.key = k]]
    BY <2>1
  <2>5. k \in 0 .. MaxKeys
    OBVIOUS
  <2>4. fl' \in [SignIns -> SignIn]
    BY <1>1, <1>a, <2>2, <2>5, SignInFields
  <2>3. keyFile' \in 0 .. MaxKeys /\ keys' \in 0 .. MaxKeys
    BY <2>1, KeyTypes
  <2> QED
    BY <1>2, <2>3, <2>4 DEF FlowKey
<1>3. CASE FlowCallback(i)
  <2>1. PICK a \in Accounts : fl' = [fl EXCEPT ![i].pc = "lock", ![i].who = a]
    BY <1>3 DEF FlowCallback
  <2>2. fl' = [fl EXCEPT ![i] = [fl[i] EXCEPT !.pc = "lock", !.who = a]]
    BY <2>1
  <2>3. fl' \in [SignIns -> SignIn]
    BY <1>1, <1>a, <2>2, SignInFields
  <2>4. phase' \in {"idle", "browser", "exchanging"}
    BY <1>3 DEF FlowCallback
  <2> QED
    BY <1>3, <2>3, <2>4 DEF FlowCallback
<1>4. CASE FlowStops(i)
  <2>1. fl' \in [SignIns -> SignIn] /\ phase' \in {"idle", "browser", "exchanging"}
    BY <1>1, <1>4 DEF FlowStops, finish_flow
  <2> QED
    BY <1>4, <2>1 DEF FlowStops
<1>5. CASE FlowCode(i)
  <2>1. \/ fl' = [fl EXCEPT ![i] = [fl[i] EXCEPT !.pc = "coded", !.ok = TRUE]]
        \/ fl' = [fl EXCEPT ![i] = [fl[i] EXCEPT !.pc = "coded"]]
    BY <1>5 DEF FlowCode
  <2>4. fl' \in [SignIns -> SignIn]
    <3>1. [fl[i] EXCEPT !.pc = "coded", !.ok = TRUE] \in SignIn /\ [fl[i] EXCEPT !.pc = "coded"] \in SignIn
      BY <1>1, <1>a, SignInFields
    <3> QED
      BY <1>1, <2>1, <3>1
  <2>2. [who |-> fl[i].who, key |-> fl[i].key, serial |-> 0, alive |-> TRUE] \in Grant
    BY <1>1 DEF Grant, SignIn
  <2>3. svc' \in [SignIns -> Grant]
    BY <1>5, <2>2 DEF FlowCode
  <2> QED
    BY <1>5, <2>3, <2>4 DEF FlowCode
<1>6. CASE FlowCoded(i)
  <2>1. [auth |-> i, serial |-> 0, snap |-> None] \in Session /\ [auth |-> i, fresh |-> TRUE] \in Access
    BY DEF Session, Access, SignIns
  <2>2. [fl EXCEPT ![i].pc = "enroll"] \in [SignIns -> SignIn]
    BY <1>1, <1>a, SignInFields
  <2>3. fl' \in [SignIns -> SignIn] /\ session' \in Session /\ saved' \in Session /\ access' \in Access
    BY <1>1, <1>6, <2>1, <2>2 DEF FlowCoded
  <2> QED
    BY <1>6, <2>3 DEF FlowCoded
<1>7. CASE FlowEnroll(i)
  <2>1. fl' \in [SignIns -> SignIn] /\ intent' \in Intent
    BY <1>1, <1>a, <1>7, ResetTypes, SignInFields DEF FlowEnroll, Clears
  <2> QED
    BY <1>7, <2>1 DEF FlowEnroll
<1>8. CASE FlowDone(i)
  <2>1. [session EXCEPT !.snap = svc[i].who] \in Session
    BY DEF Session, Grant
  <2>2. session' \in Session /\ saved' \in Session /\ fl' \in [SignIns -> SignIn]
    BY <1>1, <1>8, <2>1 DEF FlowDone, apply_me
  <2> QED
    BY <1>8, <2>2 DEF FlowDone
<1> QED
  BY <1>2, <1>3, <1>4, <1>5, <1>6, <1>7, <1>8 DEF FlowRuns

\* The token operations.
LEMMA TypeOps ==
  ASSUME TypeOK, AtGranted, NEW t \in Threads, Begin(t) \/ OpRuns(t)
  PROVE  TypeOK'
<1> USE DEF TypeOK, memory, account, history
<1>1. th[t] \in Operation /\ th[t].rt \in Session /\ th[t].rt.auth \in 0 .. MaxSignIns
      /\ th[t].rt.serial + 1 \in Nat /\ th[t].at \in 0 .. MaxSignIns
  BY DEF Operation, Session
<1>a. {"lock", "refresh", "refreshed", "send", "sent"} \subseteq OpSteps
  BY DEF OpSteps
<1>2. CASE Begin(t)
  <2>1. [IdleOp EXCEPT !.pc = "key", !.op = IF t = "confirm" THEN "enroll" ELSE "call"] \in Operation
    BY ResetTypes DEF Operation, OpSteps
  <2> QED
    BY <1>2, <2>1, OpTypes DEF Begin
<1>3. CASE LoadsKey(t)
  <2>1. PICK k \in 1 .. MaxKeys : device_key(k) /\ Op(t, [th[t] EXCEPT !.pc = "lock", !.key = k])
    BY <1>3 DEF LoadsKey
  <2>4. k \in 0 .. MaxKeys
    OBVIOUS
  <2>2. [th[t] EXCEPT !.pc = "lock", !.key = k] \in Operation
    BY <2>4, <1>1, <1>a, <2>1, OperationFields
  <2>3. th' \in [Threads -> Operation] /\ keyFile' \in 0 .. MaxKeys /\ keys' \in 0 .. MaxKeys
    BY <2>1, <2>2, KeyTypes, OpTypes
  <2> QED
    BY <1>3, <2>3 DEF LoadsKey
<1>4. CASE Locks(t) \/ access_token_locked(t)
  BY <1>4, TokenTypes DEF Locks, access_token_locked
<1>5. CASE Refreshes(t)
  <2>1. \A w \in {"ok", "silent", "refused"} :
          [th[t] EXCEPT !.pc = "refreshed", !.answer = w] \in Operation
    BY <1>1, <1>a, OperationFields
  <2>2. th' \in [Threads -> Operation]
    BY <1>5, <2>1, OpTypes DEF Refreshes
  <2>3. ASSUME th[t].rt.auth # 0
        PROVE  /\ [svc EXCEPT ![th[t].rt.auth].serial = th[t].rt.serial + 1] \in [SignIns -> Grant]
               /\ [svc EXCEPT ![th[t].rt.auth].alive = svc[th[t].rt.auth].alive /\ svc[th[t].rt.auth].serial = th[t].rt.serial]
                    \in [SignIns -> Grant]
    <3>1. th[t].rt.auth \in SignIns /\ th[t].rt.serial + 1 \in Nat
      BY <1>1, <2>3 DEF SignIns
    <3>2. svc[th[t].rt.auth] \in Grant
      BY <3>1
    <3>3. [svc[th[t].rt.auth] EXCEPT !.serial = th[t].rt.serial + 1] \in Grant
      BY <3>1, <3>2 DEF Grant
    <3>4. [svc[th[t].rt.auth] EXCEPT !.alive = svc[th[t].rt.auth].alive /\ svc[th[t].rt.auth].serial = th[t].rt.serial] \in Grant
      BY <3>1, <3>2 DEF Grant
    <3> QED
      BY <3>1, <3>3, <3>4
  <2>4. svc' \in [SignIns -> Grant]
    BY <1>5, <2>3 DEF Refreshes, Honours
  <2> QED
    BY <1>5, <2>2, <2>4 DEF Refreshes
<1>6. CASE refresh_locked(t)
  <2>1. CASE th[t].answer = "ok"
    <3>1. [session EXCEPT !.auth = th[t].rt.auth, !.serial = th[t].rt.serial + 1] \in Session
      BY <1>1, SessionFields
    <3>2. [auth |-> th[t].rt.auth, fresh |-> TRUE] \in Access
      BY <1>1 DEF Access
    <3>3. [th[t] EXCEPT !.pc = "send", !.at = th[t].rt.auth, !.rt = NoSession, !.answer = "none"] \in Operation
      BY <1>1, <1>a, ResetTypes, OperationFields
    <3>4. apply_tokens(th[t].rt.auth, th[t].rt.serial + 1)
          /\ Op(t, [th[t] EXCEPT !.pc = "send", !.at = th[t].rt.auth, !.rt = NoSession, !.answer = "none"])
          /\ UNCHANGED <<signedIn, keyFile, intent, token>>
      BY <1>6, <2>1 DEF refresh_locked
    <3>5. th' \in [Threads -> Operation] /\ session' \in Session /\ saved' \in Session /\ access' \in Access
      BY <3>1, <3>2, <3>3, <3>4, OpTypes DEF apply_tokens
    <3> QED
      BY <1>6, <3>4, <3>5 DEF refresh_locked
  <2>2. CASE sign_out_locally /\ NextOp(t)
    BY <1>6, <2>2, SignOutTypes, NextTypes DEF refresh_locked
  <2>3. CASE NextOp(t) /\ UNCHANGED account
    BY <1>6, <2>3, NextTypes DEF refresh_locked
  <2> QED
    BY <1>6, <2>1, <2>2, <2>3 DEF refresh_locked
<1>7. CASE Sends(t)
  <2>1. \A w \in {"ok", "silent", "refused"} : [th[t] EXCEPT !.pc = "sent", !.answer = w] \in Operation
    BY <1>1, <1>a, OperationFields
  <2> QED
    BY <1>7, <2>1, OpTypes DEF Sends
<1>8. CASE Sent(t)
  <2>1. [th[t] EXCEPT !.pc = "refresh", !.rt = session, !.retried = TRUE, !.at = 0, !.answer = "none"] \in Operation
    <3>1. 0 \in 0 .. MaxSignIns
      OBVIOUS
    <3> QED
      BY <1>1, <1>a, <3>1, OperationFields
  <2>2. th' \in [Threads -> Operation] /\ token' \in {None, "flow"} \cup Threads
    BY <1>8, <2>1, OpTypes, NextTypes DEF Sent
  <2>3. intent' \in Intent
    BY <1>8, ResetTypes DEF Sent, Clears
  <2>4. session' \in Session /\ saved' \in Session
    <3>1. svc[th[t].at].who \in Accounts \cup {None}
      <4>1. th[t].at \in SignIns
        BY <1>1, <1>8 DEF AtGranted, Sent, SignIns
      <4>2. svc[th[t].at] \in Grant
        BY <4>1
      <4> QED
        BY <4>2 DEF Grant
    <3>2. [session EXCEPT !.snap = svc[th[t].at].who] \in Session
      BY <3>1, SessionFields
    <3> QED
      BY <1>8, <3>2 DEF Sent, apply_me
  <2> QED
    BY <1>8, <2>2, <2>3, <2>4 DEF Sent
<1> QED
  BY <1>2, <1>3, <1>4, <1>5, <1>6, <1>7, <1>8 DEF OpRuns

\* Signing out, Install Dev Tools, time and the process.
LEMMA TypeRest ==
  ASSUME TypeOK,
         \/ start_sign_in \/ sign_out \/ OutKey \/ OutRevokes \/ OutForgets
         \/ mark_developer_intent \/ MarkWrites \/ Expires \/ RevokedElsewhere \/ Restart
  PROVE  TypeOK'
<1> USE DEF TypeOK, memory, account, history
<1>1. CASE start_sign_in
  <2>1. flowId + 1 \in 0 .. MaxSignIns /\ flowId' = flowId + 1 /\ phase' = "browser"
    BY <1>1 DEF start_sign_in
  <2>2. fl' = [fl EXCEPT ![flowId + 1] = [fl[flowId + 1] EXCEPT !.pc = "start"]]
    BY <1>1 DEF start_sign_in
  <2>3. flowId + 1 \in SignIns /\ "start" \in FlowSteps
    BY <2>1 DEF SignIns, FlowSteps
  <2>4. [fl[flowId + 1] EXCEPT !.pc = "start"] \in SignIn
    BY <2>3, SignInFields
  <2>5. fl' \in [SignIns -> SignIn]
    BY <2>2, <2>4
  <2> QED
    BY <1>1, <2>1, <2>5 DEF start_sign_in
<1>2. CASE sign_out
  <2>1. out' \in SignOut
    BY <1>2 DEF sign_out, SignOut
  <2> QED
    BY <1>2, <2>1 DEF sign_out
<1>3. CASE OutKey
  <2>1. PICK k \in 1 .. MaxKeys : device_key(k) /\ out' = [out EXCEPT !.pc = "lock", !.key = k]
    BY <1>3 DEF OutKey
  <2>4. k \in 0 .. MaxKeys
    OBVIOUS
  <2>2. out' \in SignOut
    BY <2>1, <2>4 DEF SignOut
  <2>3. keyFile' \in 0 .. MaxKeys /\ keys' \in 0 .. MaxKeys
    BY <2>1, KeyTypes
  <2> QED
    BY <1>3, <2>2, <2>3 DEF OutKey
<1>4. CASE OutRevokes
  <2>1. out' \in SignOut
    BY <1>4 DEF OutRevokes, SignOut
  <2>2. ASSUME NEW a \in SignIns PROVE [svc EXCEPT ![a].alive = FALSE] \in [SignIns -> Grant]
    BY <2>2 DEF Grant
  <2>3. out.rt.auth # 0 => out.rt.auth \in SignIns
    BY DEF SignOut, Session, SignIns
  <2>4. svc' \in [SignIns -> Grant]
    BY <1>4, <2>2, <2>3 DEF OutRevokes
  <2> QED
    BY <1>4, <2>1, <2>4 DEF OutRevokes
<1>5. CASE OutForgets
  BY <1>5, SignOutTypes, ResetTypes DEF OutForgets
<1>6. CASE mark_developer_intent
  <2>1. Who \in Accounts \cup {None}
    <3>1. session.auth # 0 => session.auth \in SignIns
      BY DEF Session, SignIns
    <3> QED
      BY <3>1 DEF Who, Grant
  <2>2. mark' \in Mark
    BY <1>6, <2>1 DEF mark_developer_intent, Mark
  <2> QED
    BY <1>6, <2>2 DEF mark_developer_intent
<1>7. CASE MarkWrites
  <2>1. intent' \in Intent
    BY <1>7 DEF MarkWrites, Intent, Mark
  <2> QED
    BY <1>7, <2>1, ResetTypes DEF MarkWrites
<1>8. CASE Expires
  BY <1>8 DEF Expires, Access
<1>9. CASE RevokedElsewhere
  <2>1. svc' \in [SignIns -> Grant]
    BY <1>9 DEF RevokedElsewhere, Grant
  <2> QED
    BY <1>9, <2>1 DEF RevokedElsewhere
<1>10. CASE Restart
  <2>1. phase' \in {"idle", "browser", "exchanging"} /\ flowId' \in 0 .. MaxSignIns
    BY <1>10 DEF Restart
  <2>2. fl' \in [SignIns -> SignIn]
    BY <1>10, EndedType DEF Restart
  <2>3. session' \in Session /\ saved' \in Session /\ access' \in Access
    BY <1>10, ResetTypes DEF Restart
  <2>4. signedIn' \in BOOLEAN
    BY <1>10 DEF Restart
  <2>5. th' \in [Threads -> Operation] /\ out' \in SignOut /\ mark' \in Mark
    BY <1>10, ResetTypes DEF Restart
  <2> QED
    BY <1>10, <2>1, <2>2, <2>3, <2>4, <2>5 DEF Restart
<1> QED
  BY <1>1, <1>2, <1>3, <1>4, <1>5, <1>6, <1>7, <1>8, <1>9, <1>10

LEMMA TypeStep == TypeOK /\ AtGranted /\ [Next]_vars => TypeOK'
<1> SUFFICES ASSUME TypeOK, AtGranted, [Next]_vars PROVE TypeOK'
  OBVIOUS
<1>1. CASE UNCHANGED vars
  BY <1>1 DEF vars, memory, account, history, TypeOK
<1> QED
  BY <1>1, TypeFlows, TypeOps, TypeRest DEF Next

-----------------------------------------------------------------------------
(* Who holds what: the flow, the mutex and what its holder works from.     *)

Active(i) == fl[i].pc \notin {"none", "ended"}
InLock(t) == th[t].pc \in {"token", "refresh", "refreshed", "send", "sent"}

\* The answer to a refresh that rotated, not yet applied.
Applying(t) == th[t].pc = "refreshed" /\ th[t].answer = "ok"

\* One sign-in at a time, the newest, and of an installation signed out.
OneFlow == \A i \in SignIns :
    /\ Active(i) => i = flowId /\ phase # "idle" /\ ~signedIn
    /\ i > flowId => fl[i].pc = "none"

Mutex ==
    /\ \A t \in Threads : InLock(t) => token = t
    /\ \A i \in SignIns : fl[i].pc \in {"coded", "enroll", "me"} => token = "flow"

\* The file is the session in memory, and the access token is of that session;
\* a thread works for the session it began with, or for one that is gone.
SavedIsSession  == saved.auth = session.auth /\ (session.auth # 0 => saved = session)
AccessIsSession == access.auth \in {0, session.auth}
HeldIsSession   == \A t \in Threads :
    /\ th[t].pc \in {"refresh", "refreshed"} => session.auth \in {0, th[t].rt.auth}
    /\ th[t].pc \in {"send", "sent"} => session.auth \in {0, th[t].at}

HolderInv ==
    /\ TypeOK /\ AtGranted /\ OneFlow /\ Mutex
    /\ SavedIsSession /\ AccessIsSession /\ HeldIsSession

HolderParts == AtGranted /\ OneFlow /\ Mutex /\ SavedIsSession /\ AccessIsSession /\ HeldIsSession

LEMMA HolderInit == Init => HolderInv
<1> SUFFICES ASSUME Init PROVE HolderInv
  OBVIOUS
<1>1. TypeOK
  BY TypeInit
<1>2. /\ \A t \in Threads : th[t].pc = "idle"
      /\ \A i \in SignIns : fl[i].pc = "none"
  BY DEF Init, IdleOp, NoFlow
<1>3. session = NoSession /\ saved = NoSession /\ access.auth = 0
  BY DEF Init, NoAccess
<1> QED
  BY <1>1, <1>2, <1>3 DEF HolderInv, AtGranted, OneFlow, Active, Mutex, InLock, SavedIsSession,
     AccessIsSession, HeldIsSession, NoSession

LEMMA HolderFlows ==
  ASSUME HolderInv, NEW i \in SignIns, FlowRuns(i) \/ FlowCode(i)
  PROVE  HolderParts'
<1> USE DEF memory, account, history
<1>1. TypeOK /\ fl \in [SignIns -> SignIn]
  BY DEF HolderInv, TypeOK
<1>2. th' = th
  BY DEF FlowRuns, FlowKey, FlowCallback, FlowStops, FlowCode, FlowCoded, FlowEnroll, FlowDone
<1>3. AtGranted'
  BY <1>2 DEF HolderInv, AtGranted
<1>4. Active(i) /\ i = flowId /\ ~signedIn /\ flowId' = flowId /\ phase # "idle"
  BY DEF FlowRuns, FlowKey, FlowCallback, FlowStops, FlowCode, FlowCoded, FlowEnroll, FlowDone, Active,
     HolderInv, OneFlow
<1>5. \A j \in SignIns \ {i} : ~Active(j)
  BY <1>4 DEF HolderInv, OneFlow
<1>6. \A j \in SignIns \ {i} : fl'[j] = fl[j]
  BY <1>1 DEF FlowRuns, FlowKey, FlowCallback, FlowStops, FlowCode, FlowCoded, FlowEnroll, FlowDone,
     finish_flow
<1>7. \/ fl'[i].pc = "ended"
      \/ fl'[i].pc \in {"wait", "lock", "coded", "enroll", "me"} /\ phase' # "idle" /\ signedIn' = signedIn
  BY <1>1, <1>4 DEF FlowRuns, FlowKey, FlowCallback, FlowStops, FlowCode, FlowCoded, FlowEnroll, FlowDone,
     finish_flow, NoFlow, SignIn
<1>8. OneFlow'
  <2>1. ASSUME NEW j \in SignIns \ {i} PROVE ~Active(j)' /\ (j > flowId' => fl'[j].pc = "none")
    BY <1>4, <1>5, <1>6, <2>1 DEF Active, HolderInv, OneFlow
  <2>2. Active(i)' => i = flowId' /\ phase' # "idle" /\ ~signedIn'
    BY <1>4, <1>7 DEF Active
  <2>3. ~(i > flowId')
    BY <1>4 DEF SignIns
  <2> QED
    BY <2>1, <2>2, <2>3 DEF OneFlow
<1>9. Mutex'
  <2>1. fl'[i].pc \in {"coded", "enroll", "me"} => token' = "flow"
    BY <1>1 DEF FlowRuns, FlowKey, FlowCallback, FlowStops, FlowCode, FlowCoded, FlowEnroll, FlowDone,
       finish_flow, NoFlow, SignIn, HolderInv, Mutex
  <2>2. \A j \in SignIns \ {i} : fl'[j].pc \notin {"coded", "enroll", "me"}
    BY <1>5, <1>6 DEF Active
  <2>3. ASSUME NEW t \in Threads, InLock(t) PROVE token' = t
    <3>1. token = t /\ token # None /\ token # "flow"
      BY <2>3 DEF HolderInv, Mutex, Threads
    <3>2. token' = token
      BY <3>1 DEF FlowRuns, FlowKey, FlowCallback, FlowStops, FlowCode, FlowCoded, FlowEnroll, FlowDone,
         HolderInv, Mutex
    <3> QED
      BY <3>1, <3>2
  <2> QED
    BY <1>2, <2>1, <2>2, <2>3 DEF Mutex, InLock
<1>10. session' = session \/ fl[i].pc \in {"coded", "me"}
  BY DEF FlowRuns, FlowKey, FlowCallback, FlowStops, FlowCode, FlowCoded, FlowEnroll, FlowDone
<1>11. SavedIsSession'
  BY <1>1 DEF FlowRuns, FlowKey, FlowCallback, FlowStops, FlowCode, FlowCoded, FlowEnroll, FlowDone,
     HolderInv, SavedIsSession, apply_me
<1>12. AccessIsSession'
  BY <1>1 DEF FlowRuns, FlowKey, FlowCallback, FlowStops, FlowCode, FlowCoded, FlowEnroll, FlowDone,
     HolderInv, AccessIsSession, apply_me, TypeOK, Session
<1>13. HeldIsSession'
  <2>1. CASE session' = session
    BY <1>2, <2>1 DEF HolderInv, HeldIsSession
  <2>2. CASE fl[i].pc \in {"coded", "me"}
    <3>1. \A t \in Threads : ~InLock(t)
      BY <2>2 DEF HolderInv, Mutex, Threads
    <3> QED
      BY <1>2, <3>1 DEF HeldIsSession, InLock
  <2> QED
    BY <1>10, <2>1, <2>2
<1> QED
  BY <1>3, <1>8, <1>9, <1>11, <1>12, <1>13 DEF HolderParts

\* What a token operation's step does to the threads and to the mutex.
LEMMA OpShape ==
  ASSUME TypeOK, Mutex, NEW t \in Threads, Begin(t) \/ OpRuns(t)
  PROVE  /\ UNCHANGED memory
         /\ \A u \in Threads \ {t} : th'[u] = th[u]
         /\ InLock(t) \/ (th[t].pc = "lock" /\ token = None) \/ token' = token
         /\ InLock(t)' => token' = t
<1>1. th \in [Threads -> Operation] /\ th[t] \in Operation
  BY DEF TypeOK
<1>2. UNCHANGED memory
  BY DEF OpRuns, Begin, LoadsKey, Locks, access_token_locked, Refreshes, refresh_locked, Sends, Sent
<1>3. ASSUME NEW r, Op(t, r)
      PROVE  th'[t] = r /\ \A u \in Threads \ {t} : th'[u] = th[u]
  BY <1>1, <1>3 DEF Op
<1>4. ASSUME NextOp(t)
      PROVE  /\ \A u \in Threads \ {t} : th'[u] = th[u]
             /\ InLock(t)' => token' = t
  BY <1>3, <1>4 DEF NextOp, InLock, IdleOp
<1>5. ASSUME Token(t)
      PROVE  /\ \A u \in Threads \ {t} : th'[u] = th[u]
             /\ InLock(t)' => token' = t
  BY <1>3, <1>4, <1>5 DEF Token
<1>6. \A u \in Threads \ {t} : th'[u] = th[u]
  BY <1>3, <1>4, <1>5 DEF OpRuns, Begin, LoadsKey, Locks, access_token_locked, Refreshes, refresh_locked,
     Sends, Sent
<1>7. InLock(t) \/ (th[t].pc = "lock" /\ token = None) \/ token' = token
  BY DEF OpRuns, Begin, LoadsKey, Locks, access_token_locked, Refreshes, refresh_locked, Sends, Sent, InLock
<1>8. InLock(t)' => token' = t
  <2>1. CASE Begin(t)
    <3>1. PICK o \in {"enroll", "call"} : Op(t, [IdleOp EXCEPT !.pc = "key", !.op = o])
      BY <2>1 DEF Begin
    <3>2. th'[t] = [IdleOp EXCEPT !.pc = "key", !.op = o]
      BY <1>3, <3>1
    <3>3. th'[t].pc = "key"
      BY <3>2, IdleForm
    <3> QED
      BY <3>3 DEF InLock
  <2>2. CASE LoadsKey(t)
    <3>1. PICK k \in 1 .. MaxKeys : Op(t, [th[t] EXCEPT !.pc = "lock", !.key = k])
      BY <2>2 DEF LoadsKey
    <3>2. th'[t] = [th[t] EXCEPT !.pc = "lock", !.key = k]
      BY <1>3, <3>1
    <3>3. th'[t].pc = "lock"
      BY <1>1, <3>2 DEF Operation
    <3> QED
      BY <3>3 DEF InLock
  <2>3. CASE Locks(t) \/ access_token_locked(t)
    BY <1>5, <2>3 DEF Locks, access_token_locked
  <2>4. CASE Refreshes(t) \/ Sends(t)
    BY <2>4 DEF Refreshes, Sends, Mutex, InLock
  <2>5. CASE refresh_locked(t)
    BY <1>4, <2>5 DEF refresh_locked, Mutex, InLock
  <2>6. CASE Sent(t)
    BY <1>4, <2>6 DEF Sent, Mutex, InLock
  <2> QED
    BY <2>1, <2>2, <2>3, <2>4, <2>5, <2>6 DEF OpRuns
<1> QED
  BY <1>2, <1>6, <1>7, <1>8

\* While a thread is outside its lock, or not the one that steps, it is not in it.
LEMMA OthersOutside ==
  ASSUME Mutex, NEW t \in Threads, InLock(t) \/ token = None
  PROVE  \A u \in Threads \ {t} : ~InLock(u)
BY DEF Mutex, Threads

LEMMA HolderOps ==
  ASSUME HolderInv, NEW t \in Threads, Begin(t) \/ OpRuns(t)
  PROVE  HolderParts'
<1>1. /\ TypeOK /\ Mutex /\ th \in [Threads -> Operation] /\ th[t] \in Operation
      /\ th[t].rt \in Session /\ session \in Session
  BY DEF HolderInv, TypeOK, Operation
<1>2. /\ UNCHANGED memory
      /\ \A u \in Threads \ {t} : th'[u] = th[u]
      /\ InLock(t) \/ (th[t].pc = "lock" /\ token = None) \/ token' = token
      /\ InLock(t)' => token' = t
  BY <1>1, OpShape
<1>3. ASSUME NEW r, Op(t, r)
      PROVE  th'[t] = r
  BY <1>1, <1>3 DEF Op
<1>4. ASSUME NextOp(t)
      PROVE  th'[t].pc \in {"idle", "token"}
  <2>1. \/ Op(t, [IdleOp EXCEPT !.op = "me", !.pc = "token", !.key = th[t].key])
        \/ Op(t, IdleOp)
    BY <1>4 DEF NextOp
  <2>2. \/ th'[t] = [IdleOp EXCEPT !.op = "me", !.pc = "token", !.key = th[t].key]
        \/ th'[t] = IdleOp
    BY <1>3, <2>1
  <2>3. [IdleOp EXCEPT !.op = "me", !.pc = "token", !.key = th[t].key].pc = "token" /\ IdleOp.pc = "idle"
    BY IdleForm
  <2> QED
    BY <2>2, <2>3
<1>5. signedIn' = signedIn \/ signedIn' = FALSE
  BY DEF OpRuns, Begin, LoadsKey, Locks, access_token_locked, Refreshes, refresh_locked, Sends, Sent,
     account, sign_out_locally
<1>6. OneFlow'
  BY <1>2, <1>5 DEF HolderInv, OneFlow, Active, memory
<1>7. Mutex'
  <2>1. ASSUME NEW u \in Threads, InLock(u)' PROVE token' = u
    <3>1. CASE u = t
      BY <1>2, <2>1, <3>1
    <3>2. CASE u # t
      <4>1. token = u
        BY <1>1, <1>2, <2>1, <3>2 DEF InLock, Mutex
      <4>2. ~InLock(t) /\ token # None
        BY <1>1, <3>2, <4>1 DEF Mutex, Threads
      <4> QED
        BY <1>2, <4>1, <4>2
    <3> QED
      BY <3>1, <3>2
  <2>2. ASSUME NEW i \in SignIns, fl'[i].pc \in {"coded", "enroll", "me"} PROVE token' = "flow"
    <3>1. token = "flow"
      BY <1>1, <1>2, <2>2 DEF Mutex, memory
    <3> QED
      BY <1>1, <1>2, <3>1 DEF Mutex, Threads
  <2> QED
    BY <2>1, <2>2 DEF Mutex
<1>8. UNCHANGED <<session, saved, access>> \/ refresh_locked(t) \/ Sent(t)
  BY DEF OpRuns, Begin, LoadsKey, Locks, access_token_locked, Refreshes, Sends, account
<1>9. SavedIsSession' /\ AccessIsSession'
  <2>1. CASE UNCHANGED <<session, saved, access>>
    BY <2>1 DEF HolderInv, SavedIsSession, AccessIsSession
  <2>2. CASE refresh_locked(t)
    <3>1. CASE apply_tokens(th[t].rt.auth, th[t].rt.serial + 1)
      BY <1>1, <3>1 DEF apply_tokens, Session, SavedIsSession, AccessIsSession
    <3>2. CASE sign_out_locally
      BY <3>2 DEF sign_out_locally, NoSession, NoAccess, SavedIsSession, AccessIsSession
    <3>3. CASE UNCHANGED account
      BY <3>3 DEF account, HolderInv, SavedIsSession, AccessIsSession
    <3> QED
      BY <2>2, <3>1, <3>2, <3>3 DEF refresh_locked
  <2>3. CASE Sent(t)
    <3>1. (session' = session /\ saved' = saved) \/ (session'.auth = session.auth /\ saved' = session')
      BY <1>1, <2>3 DEF Sent, apply_me, Session
    <3> QED
      BY <2>3, <3>1 DEF Sent, HolderInv, SavedIsSession, AccessIsSession
  <2> QED
    BY <1>8, <2>1, <2>2, <2>3
<1>10. session'.auth = session.auth \/ InLock(t)
  BY <1>8 DEF refresh_locked, Sent, InLock
<1>11. ASSUME NEW u \in Threads \ {t}
       PROVE  /\ th'[u].pc \in {"refresh", "refreshed"} => session'.auth \in {0, th'[u].rt.auth}
              /\ th'[u].pc \in {"send", "sent"} => session'.auth \in {0, th'[u].at}
  <2>1. CASE InLock(t)
    BY <1>1, <1>2, <2>1, OthersOutside DEF InLock
  <2>2. CASE session'.auth = session.auth
    BY <1>2, <2>2 DEF HolderInv, HeldIsSession
  <2> QED
    BY <1>10, <2>1, <2>2
<1>12. /\ th'[t].pc \in {"refresh", "refreshed"} => session'.auth \in {0, th'[t].rt.auth}
       /\ th'[t].pc \in {"send", "sent"} => session'.auth \in {0, th'[t].at}
       /\ th'[t].pc \in {"send", "sent"} => th'[t].at # 0
       /\ Applying(t)' => th'[t].rt.auth # 0
  <2>0. ASSUME Token(t), UNCHANGED account
        PROVE  /\ th'[t].pc \in {"refresh", "refreshed"} => session'.auth \in {0, th'[t].rt.auth}
               /\ th'[t].pc \in {"send", "sent"} => session'.auth \in {0, th'[t].at}
               /\ th'[t].pc \in {"send", "sent"} => th'[t].at # 0
               /\ Applying(t)' => th'[t].rt.auth # 0
    <3>1. CASE NextOp(t)
      BY <1>4, <3>1 DEF Applying
    <3>2. CASE Op(t, [th[t] EXCEPT !.pc = "send", !.at = access.auth]) /\ access.auth # 0
      BY <1>1, <1>3, <2>0, <3>2 DEF HolderInv, AccessIsSession, account, Operation, Applying
    <3>3. CASE Op(t, [th[t] EXCEPT !.pc = "refresh", !.rt = session])
      BY <1>1, <1>3, <2>0, <3>3 DEF account, Operation, Applying
    <3> QED
      BY <2>0, <3>1, <3>2, <3>3 DEF Token
  <2>1. CASE Begin(t)
    BY <1>3, <2>1 DEF Begin, IdleOp, Applying
  <2>2. CASE LoadsKey(t)
    BY <1>1, <1>3, <2>2 DEF LoadsKey, Operation, Applying
  <2>3. CASE Locks(t) \/ access_token_locked(t)
    BY <2>0, <2>3 DEF Locks, access_token_locked
  <2>4. CASE Refreshes(t)
    <3>1. UNCHANGED account /\ th[t].pc = "refresh"
      BY <2>4 DEF Refreshes
    <3>2. PICK w \in {"silent", "ok", "refused"} : Op(t, [th[t] EXCEPT !.pc = "refreshed", !.answer = w])
                    /\ (w = "ok" => Honours(th[t].rt.auth, th[t].key))
      BY <2>4 DEF Refreshes
    <3> QED
      BY <1>1, <1>3, <3>1, <3>2 DEF HolderInv, HeldIsSession, account, Operation, Applying, Honours
  <2>5. CASE refresh_locked(t)
    <3>1. CASE NextOp(t)
      BY <1>4, <3>1 DEF Applying
    <3>2. CASE /\ th[t].answer = "ok" /\ apply_tokens(th[t].rt.auth, th[t].rt.serial + 1)
               /\ Op(t, [th[t] EXCEPT !.pc = "send", !.at = th[t].rt.auth, !.rt = NoSession, !.answer = "none"])
      <4>1. th'[t].pc = "send" /\ th'[t].at = th[t].rt.auth
        BY <1>1, <1>3, <3>2 DEF Operation
      <4>2. session'.auth = th[t].rt.auth
        BY <1>1, <3>2 DEF apply_tokens, Session
      <4>3. th[t].rt.auth # 0
        BY <2>5, <3>2 DEF refresh_locked, HolderInv, AtGranted
      <4> QED
        BY <4>1, <4>2, <4>3 DEF Applying
    <3> QED
      BY <2>5, <3>1, <3>2 DEF refresh_locked
  <2>6. CASE Sends(t)
    <3>1. UNCHANGED account /\ th[t].pc = "send"
      BY <2>6 DEF Sends
    <3>2. PICK w \in {"silent", "ok", "refused"} : Op(t, [th[t] EXCEPT !.pc = "sent", !.answer = w])
      BY <2>6 DEF Sends
    <3> QED
      BY <1>1, <1>3, <3>1, <3>2 DEF HolderInv, HeldIsSession, AtGranted, account, Operation, Applying
  <2>7. CASE Sent(t)
    <3>1. CASE NextOp(t)
      BY <1>4, <3>1 DEF Applying
    <3>2. CASE Op(t, [th[t] EXCEPT !.pc = "refresh", !.rt = session, !.retried = TRUE, !.at = 0, !.answer = "none"])
               /\ UNCHANGED session
      BY <1>1, <1>3, <3>2 DEF Operation, Applying
    <3> QED
      BY <2>7, <3>1, <3>2 DEF Sent
  <2> QED
    BY <2>1, <2>2, <2>3, <2>4, <2>5, <2>6, <2>7 DEF OpRuns
<1>13. HeldIsSession' /\ AtGranted'
  BY <1>2, <1>11, <1>12 DEF HeldIsSession, AtGranted, Applying, HolderInv
<1> QED
  BY <1>6, <1>7, <1>9, <1>13 DEF HolderParts

LEMMA HolderRest ==
  ASSUME HolderInv,
         \/ start_sign_in \/ sign_out \/ OutKey \/ OutRevokes \/ OutForgets
         \/ mark_developer_intent \/ MarkWrites \/ Expires \/ RevokedElsewhere \/ Restart
  PROVE  HolderParts'
<1> USE DEF memory, account
<1>1. TypeOK /\ fl \in [SignIns -> SignIn]
  BY DEF HolderInv, TypeOK
<1>2. CASE start_sign_in
  <2>1. th' = th /\ token' = token /\ UNCHANGED account
    BY <1>2 DEF start_sign_in
  <2>2. \A i \in SignIns : ~Active(i)
    BY <1>2 DEF start_sign_in, HolderInv, OneFlow
  <2>3. \A i \in SignIns : i # flowId + 1 => fl'[i] = fl[i]
    BY <1>1, <1>2 DEF start_sign_in
  <2>4. flowId + 1 \in SignIns => fl'[flowId + 1].pc = "start"
    BY <1>1, <1>2 DEF start_sign_in, SignIn
  <2>5. OneFlow'
    BY <1>1, <1>2, <2>2, <2>3, <2>4 DEF start_sign_in, OneFlow, Active, HolderInv, TypeOK, SignIns
  <2>6. Mutex'
    BY <2>1, <2>2, <2>3, <2>4 DEF Mutex, InLock, Active, HolderInv
  <2> QED
    BY <2>1, <2>5, <2>6 DEF HolderParts, HolderInv, AtGranted, SavedIsSession, AccessIsSession, HeldIsSession
<1>3. CASE sign_out \/ OutKey \/ OutRevokes \/ mark_developer_intent \/ MarkWrites \/ RevokedElsewhere
  <2>1. UNCHANGED <<memory, th, token, signedIn, session, access, saved>>
    BY <1>3 DEF sign_out, OutKey, OutRevokes, mark_developer_intent, MarkWrites, RevokedElsewhere
  <2> QED
    BY <2>1 DEF HolderParts, HolderInv, AtGranted, OneFlow, Active, Mutex, InLock, SavedIsSession,
       AccessIsSession, HeldIsSession
<1>4. CASE OutForgets
  <2>1. /\ UNCHANGED <<memory, th, token>> /\ signedIn' = FALSE
        /\ session' = NoSession /\ saved' = NoSession /\ access' = NoAccess
    BY <1>4 DEF OutForgets, sign_out_locally
  <2>2. session'.auth = 0 /\ saved'.auth = 0 /\ access'.auth = 0
    BY <2>1 DEF NoSession, NoAccess
  <2> QED
    BY <2>1, <2>2 DEF HolderParts, HolderInv, AtGranted, OneFlow, Active, Mutex, InLock, SavedIsSession,
       AccessIsSession, HeldIsSession
<1>5. CASE Expires
  <2>1. UNCHANGED <<memory, th, token, signedIn, session, saved>> /\ access'.auth = access.auth
    BY <1>1, <1>5 DEF Expires, TypeOK, Access
  <2> QED
    BY <2>1 DEF HolderParts, HolderInv, AtGranted, OneFlow, Active, Mutex, InLock, SavedIsSession,
       AccessIsSession, HeldIsSession
<1>6. CASE Restart
  <2>1. \A t \in Threads : th'[t].pc = "idle"
    BY <1>6 DEF Restart, IdleOp
  <2>2. \A i \in SignIns : (fl'[i].pc = "ended" /\ i <= flowId) \/ fl'[i].pc = "none"
    BY <1>6 DEF Restart, NoFlow, HolderInv, OneFlow, TypeOK, SignIns
  <2>3. access'.auth = 0 /\ flowId' = flowId
    BY <1>6 DEF Restart, NoAccess
  <2>4. SavedIsSession'
    BY <1>6 DEF Restart, SavedIsSession, NoSession
  <2>5. OneFlow' /\ Mutex'
    BY <2>1, <2>2, <2>3, <1>1 DEF OneFlow, Active, Mutex, InLock, TypeOK, SignIns
  <2> QED
    BY <2>1, <2>3, <2>4, <2>5 DEF HolderParts, AtGranted, AccessIsSession, HeldIsSession
<1> QED
  BY <1>2, <1>3, <1>4, <1>5, <1>6

LEMMA HolderStep == HolderInv /\ [Next]_vars => HolderInv'
<1> SUFFICES ASSUME HolderInv, [Next]_vars PROVE HolderParts'
  BY TypeStep DEF HolderInv, HolderParts
<1>1. CASE UNCHANGED vars
  BY <1>1 DEF vars, memory, account, HolderParts, HolderInv, AtGranted, OneFlow, Active, Mutex, InLock,
     SavedIsSession, AccessIsSession, HeldIsSession
<1> QED
  BY <1>1, HolderFlows, HolderOps, HolderRest DEF Next

-----------------------------------------------------------------------------
(* What each step does to the service's authorizations.                    *)

\* An authorization is made when a code is redeemed, for the key and the
\* person of its flow, and is only ever ended after that.
GrantsKept ==
    /\ \A i \in SignIns : /\ svc'[i].key = svc[i].key /\ svc'[i].who = svc[i].who
                          /\ svc'[i].alive => svc[i].alive
    /\ excuse => excuse'

LEMMA FlowGrants ==
  ASSUME NEW i \in SignIns, FlowRuns(i)
  PROVE  svc' = svc /\ excuse' = excuse /\ spent' = spent
BY DEF FlowRuns, FlowKey, FlowCallback, FlowStops, FlowCoded, FlowEnroll, FlowDone, history

LEMMA CodeGrants ==
  ASSUME TypeOK, NEW i \in SignIns, FlowCode(i)
  PROVE  /\ fl[i].pc = "lock" /\ token = None
         /\ \A j \in SignIns \ {i} : svc'[j] = svc[j] /\ fl'[j] = fl[j]
         /\ fl'[i].pc = "coded" /\ fl'[i].key = fl[i].key
         /\ \/ svc'[i] = svc[i] /\ excuse' = excuse
            \/ /\ svc'[i] = [who |-> fl[i].who, key |-> fl[i].key, serial |-> 0, alive |-> TRUE]
               /\ excuse' = TRUE \/ (fl'[i].ok /\ excuse' = excuse)
         /\ UNCHANGED <<phase, flowId, account, keys, th, out, mark, spent, reached>>
<1>1. fl \in [SignIns -> SignIn] /\ fl[i] \in SignIn /\ svc \in [SignIns -> Grant]
  BY DEF TypeOK
<1>2. fl[i].pc = "lock" /\ token = None
      /\ UNCHANGED <<phase, flowId, account, keys, th, out, mark, spent, reached>>
  BY DEF FlowCode
<1> DEFINE r == [who |-> fl[i].who, key |-> fl[i].key, serial |-> 0, alive |-> TRUE]
<1>3. \/ svc' = [svc EXCEPT ![i] = r]
         /\ fl' = [fl EXCEPT ![i] = [fl[i] EXCEPT !.pc = "coded", !.ok = TRUE]] /\ excuse' = excuse
      \/ svc' = [svc EXCEPT ![i] = r]
         /\ fl' = [fl EXCEPT ![i] = [fl[i] EXCEPT !.pc = "coded"]] /\ excuse' = TRUE
      \/ svc' = svc /\ excuse' = excuse
         /\ fl' = [fl EXCEPT ![i] = [fl[i] EXCEPT !.pc = "coded"]]
  BY DEF FlowCode
<1>4. \A j \in SignIns \ {i} : svc'[j] = svc[j] /\ fl'[j] = fl[j]
  BY <1>1, <1>3
<1>5. \/ fl'[i] = [fl[i] EXCEPT !.pc = "coded", !.ok = TRUE] \/ fl'[i] = [fl[i] EXCEPT !.pc = "coded"]
  BY <1>1, <1>3
<1>6. fl'[i].pc = "coded" /\ fl'[i].key = fl[i].key
  BY <1>1, <1>5 DEF SignIn
<1>7. \/ svc'[i] = svc[i] /\ excuse' = excuse
      \/ svc'[i] = r /\ excuse' = TRUE
      \/ svc'[i] = r /\ excuse' = excuse /\ fl'[i] = [fl[i] EXCEPT !.pc = "coded", !.ok = TRUE]
  BY <1>1, <1>3
<1>8. fl'[i] = [fl[i] EXCEPT !.pc = "coded", !.ok = TRUE] => fl'[i].ok
  BY <1>1 DEF SignIn
<1> HIDE DEF r
<1>9. \/ svc'[i] = svc[i] /\ excuse' = excuse
      \/ svc'[i] = r /\ (excuse' = TRUE \/ (fl'[i].ok /\ excuse' = excuse))
  BY <1>7, <1>8
<1> QED
  BY <1>2, <1>4, <1>6, <1>9 DEF r

\* A refresh rotates the family it presents, or ends it when it is refused.
LEMMA RefreshGrants ==
  ASSUME TypeOK, NEW t \in Threads, Refreshes(t)
  PROVE  /\ GrantsKept
         /\ \A i \in SignIns \ {th[t].rt.auth} : svc'[i].serial = svc[i].serial
         /\ \/ svc' = svc /\ spent' = spent /\ th'[t].answer = "silent"
            \/ /\ Honours(th[t].rt.auth, th[t].key) /\ svc[th[t].rt.auth].serial = th[t].rt.serial
               /\ svc'[th[t].rt.auth].serial = th[t].rt.serial + 1
               /\ spent' = spent \cup {<<th[t].rt.auth, th[t].rt.serial>>}
               /\ (th'[t].answer = "silent" /\ excuse') \/ th'[t].answer = "ok"
            \/ /\ \A i \in SignIns : svc'[i].serial = svc[i].serial
               /\ spent' = spent /\ th'[t].answer = "refused"
               /\ th[t].rt.auth # 0 => ~svc'[th[t].rt.auth].alive \/ svc'[th[t].rt.auth].key # th[t].key
         /\ th'[t].pc = "refreshed" /\ th'[t].rt = th[t].rt /\ th'[t].key = th[t].key
<1> DEFINE a == th[t].rt.auth
           n == th[t].rt.serial
<1>1. /\ svc \in [SignIns -> Grant] /\ th \in [Threads -> Operation] /\ th[t] \in Operation
      /\ a \in 0 .. MaxSignIns /\ n \in Nat
  BY DEF TypeOK, Operation, Session
<1>2. a # 0 => a \in SignIns
  BY <1>1 DEF SignIns
<1>3. PICK w \in {"silent", "ok", "refused"} : th' = [th EXCEPT ![t] = [th[t] EXCEPT !.pc = "refreshed", !.answer = w]]
        /\ \/ w = "silent" /\ svc' = svc /\ spent' = spent /\ excuse' = excuse
           \/ /\ Honours(a, th[t].key) /\ svc[a].serial = n
              /\ svc' = [svc EXCEPT ![a].serial = n + 1]
              /\ spent' = spent \cup {<<a, n>>}
              /\ (w = "silent" /\ excuse' = TRUE) \/ (w = "ok" /\ excuse' = excuse)
           \/ /\ w = "refused" /\ spent' = spent /\ excuse' = excuse
              /\ ~(Honours(a, th[t].key) /\ svc[a].serial = n)
              /\ svc' = (IF a = 0 THEN svc
                         ELSE [svc EXCEPT ![a].alive = svc[a].alive /\ svc[a].serial = n])
  BY DEF Refreshes, Op
<1>4. th'[t] = [th[t] EXCEPT !.pc = "refreshed", !.answer = w]
  BY <1>1, <1>3
<1>5. th'[t].pc = "refreshed" /\ th'[t].rt = th[t].rt /\ th'[t].key = th[t].key /\ th'[t].answer = w
  BY <1>1, <1>4 DEF Operation
<1> HIDE DEF a, n
<1>6. CASE w = "silent" /\ svc' = svc /\ spent' = spent /\ excuse' = excuse
  BY <1>5, <1>6 DEF GrantsKept, a, n
<1>7. CASE /\ Honours(a, th[t].key) /\ svc[a].serial = n
           /\ svc' = [svc EXCEPT ![a].serial = n + 1]
           /\ spent' = spent \cup {<<a, n>>}
           /\ (w = "silent" /\ excuse' = TRUE) \/ (w = "ok" /\ excuse' = excuse)
  <2>1. a \in SignIns
    BY <1>2, <1>7 DEF Honours
  <2>2. svc'[a] = [svc[a] EXCEPT !.serial = n + 1] /\ svc[a] \in Grant
        /\ \A i \in SignIns \ {a} : svc'[i] = svc[i]
    BY <1>1, <1>7, <2>1
  <2>3. svc'[a].serial = n + 1 /\ svc'[a].key = svc[a].key /\ svc'[a].who = svc[a].who
        /\ svc'[a].alive = svc[a].alive
    BY <2>2 DEF Grant
  <2>4. GrantsKept
    BY <1>7, <2>2, <2>3 DEF GrantsKept
  <2> QED
    BY <1>5, <1>7, <2>2, <2>3, <2>4 DEF a, n
<1>8. CASE /\ w = "refused" /\ spent' = spent /\ excuse' = excuse
           /\ ~(Honours(a, th[t].key) /\ svc[a].serial = n)
           /\ svc' = (IF a = 0 THEN svc ELSE [svc EXCEPT ![a].alive = svc[a].alive /\ svc[a].serial = n])
  <2>1. CASE a = 0
    BY <1>5, <1>8, <2>1 DEF GrantsKept, a, n
  <2>2. CASE a # 0
    <3>1. svc'[a] = [svc[a] EXCEPT !.alive = svc[a].alive /\ svc[a].serial = n] /\ svc[a] \in Grant
          /\ \A i \in SignIns \ {a} : svc'[i] = svc[i]
      BY <1>1, <1>2, <1>8, <2>2
    <3>2. svc'[a].serial = svc[a].serial /\ svc'[a].key = svc[a].key /\ svc'[a].who = svc[a].who
          /\ (svc'[a].alive <=> (svc[a].alive /\ svc[a].serial = n))
      BY <3>1 DEF Grant
    <3>3. ~svc'[a].alive \/ svc'[a].key # th[t].key
      BY <1>8, <2>2, <3>2 DEF Honours
    <3>4. GrantsKept
      BY <1>8, <3>1, <3>2 DEF GrantsKept
    <3>5. \A i \in SignIns : svc'[i].serial = svc[i].serial
      BY <3>1, <3>2
    <3> QED
      BY <1>5, <1>8, <3>3, <3>4, <3>5 DEF a, n
  <2> QED
    BY <2>1, <2>2
<1> QED
  BY <1>3, <1>6, <1>7, <1>8

LEMMA OpGrants ==
  ASSUME TypeOK, NEW t \in Threads, Begin(t) \/ OpRuns(t)
  PROVE  /\ GrantsKept
         /\ ~Refreshes(t) => svc' = svc /\ spent' = spent /\ excuse' = excuse
<1>1. CASE Refreshes(t)
  BY <1>1, RefreshGrants
<1>2. CASE ~Refreshes(t)
  <2>1. svc' = svc /\ spent' = spent /\ excuse' = excuse
    BY <1>2 DEF OpRuns, Begin, LoadsKey, Locks, access_token_locked, refresh_locked, Sends, Sent, history
  <2> QED
    BY <1>2, <2>1 DEF GrantsKept
<1> QED
  BY <1>1, <1>2

LEMMA RestGrants ==
  ASSUME TypeOK,
         \/ start_sign_in \/ sign_out \/ OutKey \/ OutRevokes \/ OutForgets
         \/ mark_developer_intent \/ MarkWrites \/ Expires \/ RevokedElsewhere \/ Restart
  PROVE  /\ GrantsKept /\ spent' = spent
         /\ \A i \in SignIns : svc'[i].serial = svc[i].serial
<1>1. CASE OutRevokes \/ RevokedElsewhere
  <2>1. svc' = svc \/ \E i \in SignIns : svc' = [svc EXCEPT ![i].alive = FALSE]
    <3>2. out.rt.auth # 0 => out.rt.auth \in SignIns
      BY DEF TypeOK, SignOut, Session, SignIns
    <3> QED
      BY <1>1, <3>2 DEF OutRevokes, RevokedElsewhere, Honours
  <2> QED
    BY <1>1, <2>1 DEF TypeOK, Grant, GrantsKept, OutRevokes, RevokedElsewhere, history
<1>2. CASE \/ start_sign_in \/ sign_out \/ OutKey \/ OutForgets
           \/ mark_developer_intent \/ MarkWrites \/ Expires \/ Restart
  <2>1. svc' = svc /\ spent' = spent
    BY <1>2 DEF start_sign_in, sign_out, OutKey, OutForgets, mark_developer_intent, MarkWrites, Expires,
       Restart, history
  <2>2. CASE Restart
    <3>1. excuse => excuse'
      BY <2>2 DEF Restart
    <3> QED
      BY <2>1, <3>1 DEF GrantsKept
  <2>3. CASE ~Restart
    <3>1. excuse' = excuse
      BY <1>2, <2>3 DEF start_sign_in, sign_out, OutKey, OutForgets, mark_developer_intent, MarkWrites,
         Expires, history
    <3> QED
      BY <2>1, <3>1 DEF GrantsKept
  <2> QED
    BY <2>2, <2>3
<1> QED
  BY <1>1, <1>2

-----------------------------------------------------------------------------
(* Device keys.                                                            *)

\* The authorization of a sign-in that has not redeemed its code.
Ungranted == \A i \in SignIns :
    /\ fl[i].pc \in {"none", "start", "wait", "lock"} => svc[i].key = 0 /\ ~svc[i].alive
    /\ fl[i].pc \in {"none", "start", "wait", "lock", "coded"} => svc[i].serial = 0

KeysMade == keyFile <= keys /\ \A i \in SignIns : svc[i].key <= keys /\ fl[i].key <= keys

\* The key a sign-in goes out with is nobody else's.
ChosenKey == \A i \in SignIns : fl[i].pc \in {"wait", "lock"} =>
    fl[i].key # 0 /\ \A j \in SignIns : svc[j].key = fl[i].key => excuse

\* The key on disk proves an authorization only while that sign-in is this
\* installation's own.
KeyInUse == \A i \in SignIns : svc[i].key # 0 /\ svc[i].key = keyFile =>
    \/ excuse
    \/ fl[i].pc = "coded" /\ fl[i].ok
    \/ saved.auth = i /\ (signedIn \/ fl[i].pc \in {"enroll", "me"})

KeysApart == \A i, j \in SignIns : svc[i].key # 0 /\ svc[i].key = svc[j].key => i = j \/ excuse

KeyInv == Ungranted /\ KeysMade /\ ChosenKey /\ KeyInUse /\ KeysApart

LEMMA KeysInit == Init => KeyInv
<1> SUFFICES ASSUME Init PROVE KeyInv
  OBVIOUS
<1>1. \A i \in SignIns : svc[i].key = 0 /\ svc[i].serial = 0 /\ svc[i].alive = FALSE /\ fl[i].pc = "none"
  BY DEF Init, NoFlow
<1>2. keyFile = 0 /\ keys = 0 /\ \A i \in SignIns : fl[i].key = 0
  BY DEF Init, NoFlow
<1> QED
  BY <1>1, <1>2 DEF KeyInv, Ungranted, KeysMade, ChosenKey, KeyInUse, KeysApart

\* The key that is loaded is the one on disk, or one that nobody has.
LEMMA LoadedKey ==
  ASSUME TypeOK, KeysMade, NEW k \in 1 .. MaxKeys, device_key(k)
  PROVE  /\ keyFile' = k /\ keyFile' <= keys' /\ keys <= keys'
         /\ keyFile' = keyFile \/ \A i \in SignIns : svc[i].key < k
<1>1. keyFile \in Nat /\ keys \in Nat /\ svc \in [SignIns -> Grant]
  BY DEF TypeOK
<1>2. \A i \in SignIns : svc[i].key \in Nat
  BY <1>1 DEF Grant
<1> QED
  BY <1>1, <1>2 DEF device_key, KeysMade

\* A step that leaves the flows alone, and the authorizations, keeps it all.
LEMMA KeysQuiet ==
  ASSUME TypeOK, KeyInv, GrantsKept, fl' = fl,
         \A i \in SignIns : svc'[i].serial = svc[i].serial
                            \/ fl[i].pc \notin {"none", "start", "wait", "lock", "coded"},
         keyFile' <= keys', keys <= keys', keys' \in Nat,
         \/ keyFile' \in {0, keyFile} \/ \A i \in SignIns : svc[i].key < keyFile',
         keyFile' # 0 => /\ saved'.auth = saved.auth \/ saved.auth = 0
                         /\ signedIn => signedIn'
  PROVE  KeyInv'
<1>1. keyFile \in Nat /\ keys \in Nat /\ \A i \in SignIns : svc[i].key \in Nat /\ fl[i].key \in Nat
  BY DEF TypeOK, Grant, SignIn
<1>2. \A i \in SignIns : svc'[i].key = svc[i].key /\ (svc'[i].alive => svc[i].alive)
  BY DEF GrantsKept
<1>3. excuse => excuse'
  BY DEF GrantsKept
<1>4. Ungranted'
  BY <1>2 DEF KeyInv, Ungranted
<1>5. KeysMade'
  BY <1>1, <1>2 DEF KeyInv, KeysMade
<1>6. ChosenKey'
  BY <1>2, <1>3 DEF KeyInv, ChosenKey
<1>7. KeyInUse'
  <2> SUFFICES ASSUME NEW i \in SignIns, svc[i].key # 0, svc[i].key = keyFile', ~excuse
               PROVE  \/ fl[i].pc = "coded" /\ fl[i].ok
                      \/ saved'.auth = i /\ (signedIn' \/ fl[i].pc \in {"enroll", "me"})
    BY <1>2, <1>3 DEF KeyInUse
  <2>1. keyFile' = keyFile /\ keyFile' # 0
    BY <1>1
  <2>2. \/ fl[i].pc = "coded" /\ fl[i].ok
        \/ saved.auth = i /\ (signedIn \/ fl[i].pc \in {"enroll", "me"})
    BY <2>1 DEF KeyInv, KeyInUse
  <2>3. i # 0
    BY DEF SignIns
  <2> QED
    BY <2>1, <2>2, <2>3
<1>8. KeysApart'
  BY <1>2, <1>3 DEF KeyInv, KeysApart
<1> QED
  BY <1>4, <1>5, <1>6, <1>7, <1>8 DEF KeyInv

LEMMA KeysOps ==
  ASSUME HolderInv, KeyInv, NEW t \in Threads, Begin(t) \/ OpRuns(t)
  PROVE  KeyInv'
<1> USE DEF account, memory
<1>1. TypeOK /\ Mutex /\ SavedIsSession /\ HeldIsSession /\ TypeOK' /\ KeysMade
  BY TypeStep DEF HolderInv, Next, KeyInv
<1>2. keyFile \in Nat /\ keys \in Nat /\ keys' \in Nat
  BY <1>1 DEF TypeOK
<1>3. fl' = fl
  BY <1>1, OpShape
<1>4. GrantsKept
  BY <1>1, OpGrants
<1>5. ASSUME NEW i \in SignIns, fl[i].pc \in {"none", "start", "wait", "lock", "coded"}
      PROVE  svc'[i].serial = svc[i].serial
  <2>1. CASE ~Refreshes(t)
    BY <1>1, <2>1, OpGrants
  <2>2. CASE Refreshes(t)
    <3>1. token = t
      BY <1>1, <2>2 DEF Refreshes, Mutex, InLock
    <3>2. fl[i].pc # "coded"
      BY <1>1, <3>1 DEF Mutex, Threads
    <3>3. ~svc[i].alive
      BY <1>5, <3>2 DEF KeyInv, Ungranted
    <3> QED
      BY <1>1, <2>2, <3>3, RefreshGrants DEF Honours
  <2> QED
    BY <2>1, <2>2
<1>6. CASE LoadsKey(t)
  <2>1. PICK k \in 1 .. MaxKeys : device_key(k)
    BY <1>6 DEF LoadsKey
  <2>2. /\ keyFile' <= keys' /\ keys <= keys'
        /\ keyFile' = keyFile \/ \A i \in SignIns : svc[i].key < keyFile'
    BY <1>1, <2>1, LoadedKey
  <2>3. saved' = saved /\ signedIn' = signedIn
    BY <1>6 DEF LoadsKey
  <2> QED
    BY <1>1, <1>2, <1>3, <1>4, <1>5, <2>2, <2>3, KeysQuiet
<1>7. CASE ~LoadsKey(t)
  <2>1. keys' = keys /\ keyFile' \in {0, keyFile} /\ (signedIn' = signedIn \/ keyFile' = 0)
    BY <1>7 DEF OpRuns, Begin, Locks, access_token_locked, Refreshes, refresh_locked, Sends, Sent,
       sign_out_locally, remove_device_key
  <2>2. saved'.auth = saved.auth \/ saved.auth = 0 \/ keyFile' = 0
    <3>1. CASE refresh_locked(t)
      <4>1. CASE apply_tokens(th[t].rt.auth, th[t].rt.serial + 1)
        <5>1. saved'.auth = th[t].rt.auth
          BY <1>1, <4>1 DEF apply_tokens, TypeOK, Session
        <5>2. session.auth \in {0, th[t].rt.auth}
          BY <1>1, <3>1 DEF refresh_locked, HeldIsSession
        <5> QED
          BY <1>1, <5>1, <5>2 DEF SavedIsSession
      <4>2. CASE sign_out_locally
        BY <4>2 DEF sign_out_locally, remove_device_key
      <4>3. CASE UNCHANGED account
        BY <4>3
      <4> QED
        BY <3>1, <4>1, <4>2, <4>3 DEF refresh_locked
    <3>2. CASE Sent(t)
      BY <1>1, <3>2 DEF Sent, apply_me, SavedIsSession, TypeOK, Session
    <3>3. CASE ~refresh_locked(t) /\ ~Sent(t)
      BY <1>7, <3>3 DEF OpRuns, Begin, Locks, access_token_locked, Refreshes, Sends
    <3> QED
      BY <3>1, <3>2, <3>3
  <2>3. keyFile' <= keys'
    BY <1>2, <2>1 DEF KeyInv, KeysMade
  <2> QED
    BY <1>1, <1>2, <1>3, <1>4, <1>5, <2>1, <2>2, <2>3, KeysQuiet
<1> QED
  BY <1>6, <1>7

LEMMA KeysRest ==
  ASSUME HolderInv, KeyInv,
         \/ start_sign_in \/ sign_out \/ OutKey \/ OutRevokes \/ OutForgets
         \/ mark_developer_intent \/ MarkWrites \/ Expires \/ RevokedElsewhere \/ Restart
  PROVE  KeyInv'
<1> USE DEF account, memory
<1>1. /\ TypeOK /\ SavedIsSession /\ TypeOK' /\ KeysMade /\ OneFlow
      /\ fl \in [SignIns -> SignIn] /\ svc \in [SignIns -> Grant]
  BY TypeStep DEF HolderInv, Next, KeyInv, TypeOK
<1>2. keyFile \in Nat /\ keys \in Nat /\ keys' \in Nat /\ flowId \in Nat /\ keyFile <= keys
  BY <1>1 DEF TypeOK, KeysMade
<1>3. GrantsKept /\ \A i \in SignIns : svc'[i].serial = svc[i].serial
  BY <1>1, RestGrants
<1>4. CASE start_sign_in
  <2>1. UNCHANGED <<account, keys, svc, history>>
    BY <1>4 DEF start_sign_in
  <2>2. fl' = [fl EXCEPT ![flowId + 1] = [fl[flowId + 1] EXCEPT !.pc = "start"]] /\ flowId < MaxSignIns
    BY <1>4 DEF start_sign_in
  <2>3. flowId + 1 \in SignIns /\ fl[flowId + 1].pc = "none"
    BY <1>1, <1>2, <2>2 DEF SignIns, OneFlow
  <2>4. \A i \in SignIns : fl'[i] = fl[i] \/ (fl[i].pc = "none" /\ fl'[i].pc = "start" /\ fl'[i].key = fl[i].key)
    BY <1>1, <2>2, <2>3 DEF SignIn
  <2>5. Ungranted' /\ KeysMade' /\ ChosenKey' /\ KeyInUse' /\ KeysApart'
    BY <2>1, <2>4 DEF KeyInv, Ungranted, KeysMade, ChosenKey, KeyInUse, KeysApart, history
  <2> QED
    BY <2>5 DEF KeyInv
<1>5. CASE Restart
  <2>1. UNCHANGED <<saved, keyFile, keys, svc>> /\ (signedIn' <=> saved.auth # 0)
    BY <1>5 DEF Restart
  <2>2. \A i \in SignIns : \/ fl'[i] = fl[i] /\ fl[i].pc = "none"
                           \/ fl'[i].pc = "ended" /\ fl'[i].key = 0
    BY <1>1, <1>2, <1>5 DEF Restart, NoFlow, OneFlow, SignIns
  <2>3. (excuse => excuse') /\ \A i \in SignIns : fl[i].pc = "coded" /\ fl[i].ok => excuse'
    BY <1>5 DEF Restart
  <2>4. Ungranted'
    BY <2>1, <2>2 DEF KeyInv, Ungranted
  <2>5. KeysMade'
    BY <1>2, <2>1, <2>2 DEF KeyInv, KeysMade
  <2>6. ChosenKey'
    BY <2>2 DEF ChosenKey
  <2>7. KeyInUse'
    <3> SUFFICES ASSUME NEW i \in SignIns, svc[i].key # 0, svc[i].key = keyFile, ~excuse'
                 PROVE  saved.auth = i /\ signedIn'
      BY <2>1 DEF KeyInUse
    <3>1. saved.auth = i
      BY <2>3 DEF KeyInv, KeyInUse
    <3> QED
      BY <2>1, <3>1 DEF SignIns
  <2>8. KeysApart'
    BY <2>1, <2>3 DEF KeyInv, KeysApart
  <2> QED
    BY <2>4, <2>5, <2>6, <2>7, <2>8 DEF KeyInv
<1>6. CASE OutKey
  <2>1. PICK k \in 1 .. MaxKeys : device_key(k)
    BY <1>6 DEF OutKey
  <2>2. /\ keyFile' <= keys' /\ keys <= keys'
        /\ keyFile' = keyFile \/ \A i \in SignIns : svc[i].key < keyFile'
    BY <1>1, <2>1, LoadedKey
  <2>3. saved' = saved /\ signedIn' = signedIn /\ fl' = fl
    BY <1>6 DEF OutKey
  <2> QED
    BY <1>1, <1>2, <1>3, <2>2, <2>3, KeysQuiet
<1>7. CASE OutForgets
  <2>1. keyFile' = 0 /\ keys' = keys /\ fl' = fl
    BY <1>7 DEF OutForgets, sign_out_locally, remove_device_key
  <2> QED
    BY <1>1, <1>2, <1>3, <2>1, KeysQuiet
<1>8. CASE \/ sign_out \/ OutRevokes \/ mark_developer_intent \/ MarkWrites \/ Expires \/ RevokedElsewhere
  <2>1. UNCHANGED <<fl, keys, keyFile, saved, signedIn>>
    BY <1>8 DEF sign_out, OutRevokes, mark_developer_intent, MarkWrites, Expires, RevokedElsewhere
  <2> QED
    BY <1>1, <1>2, <1>3, <2>1, KeysQuiet
<1> QED
  BY <1>4, <1>5, <1>6, <1>7, <1>8

\* The sign-in flows: the one that runs is the only one, and of an
\* installation that is signed out.
LEMMA KeysFlows ==
  ASSUME HolderInv, KeyInv, NEW i \in SignIns, FlowRuns(i)
  PROVE  KeyInv'
<1> USE DEF account, memory
<1>1. /\ TypeOK /\ SavedIsSession /\ KeysMade /\ OneFlow
      /\ fl \in [SignIns -> SignIn] /\ svc \in [SignIns -> Grant]
  BY DEF HolderInv, KeyInv, TypeOK
<1>2. svc' = svc /\ excuse' = excuse
  BY FlowGrants
<1>3. Active(i) /\ ~signedIn
  BY <1>1 DEF FlowRuns, FlowKey, FlowCallback, FlowStops, FlowCoded, FlowEnroll, FlowDone, Active, OneFlow
<1>4. \A j \in SignIns \ {i} : ~Active(j)
  BY <1>1, <1>3 DEF OneFlow
<1>5. \A j \in SignIns \ {i} : fl'[j] = fl[j]
  BY <1>1 DEF FlowRuns, FlowKey, FlowCallback, FlowStops, FlowCoded, FlowEnroll, FlowDone, finish_flow
<1>6. \A j \in SignIns \ {i} : svc[j].key # 0 /\ svc[j].key = keyFile => excuse
  BY <1>3, <1>4 DEF Active, KeyInv, KeyInUse
<1>7. fl'[i].pc \in {"none", "start", "wait", "lock", "coded"} => fl[i].pc \in {"start", "wait"}
  BY <1>1 DEF FlowRuns, FlowKey, FlowCallback, FlowStops, FlowCoded, FlowEnroll, FlowDone, finish_flow,
     NoFlow, SignIn
<1>8. Ungranted'
  <2>1. fl'[i].pc \in {"none", "start", "wait", "lock", "coded"} => svc[i].key = 0 /\ ~svc[i].alive /\ svc[i].serial = 0
    BY <1>7 DEF KeyInv, Ungranted
  <2> QED
    BY <1>2, <1>5, <2>1 DEF KeyInv, Ungranted
<1>9. KeysApart'
  BY <1>2 DEF KeyInv, KeysApart
<1>10. CASE FlowKey(i)
  <2>1. PICK k \in 1 .. MaxKeys : device_key(k) /\ fl' = [fl EXCEPT ![i].pc = "wait", ![i].key = k]
    BY <1>10 DEF FlowKey
  <2>2. /\ keyFile' = k /\ keyFile' <= keys' /\ keys <= keys'
        /\ keyFile' = keyFile \/ \A j \in SignIns : svc[j].key < k
    BY <1>1, <2>1, LoadedKey
  <2>3. fl' = [fl EXCEPT ![i] = [fl[i] EXCEPT !.pc = "wait", !.key = k]] /\ saved' = saved /\ signedIn' = signedIn
    BY <1>10, <2>1 DEF FlowKey
  <2>4. fl'[i].pc = "wait" /\ fl'[i].key = k /\ svc[i].key = 0
    <3>1. fl'[i] = [fl[i] EXCEPT !.pc = "wait", !.key = k]
      BY <1>1, <2>3
    <3>2. fl'[i].pc = "wait" /\ fl'[i].key = k
      BY <1>1, <3>1 DEF SignIn
    <3>3. svc[i].key = 0
      BY <1>10 DEF KeyInv, Ungranted, FlowKey
    <3> QED
      BY <3>2, <3>3
  <2>5. \A j \in SignIns : svc[j].key = k => excuse
    <3> SUFFICES ASSUME NEW j \in SignIns, svc[j].key = k PROVE excuse
      OBVIOUS
    <3>1. keyFile' = keyFile /\ k # 0
      BY <2>2
    <3>2. j # i
      BY <2>4, <3>1
    <3> QED
      BY <1>6, <2>2, <3>1, <3>2
  <2>6. ChosenKey'
    BY <1>2, <1>4, <1>5, <2>4, <2>5 DEF ChosenKey, Active
  <2>7. KeysMade'
    <3>1. \A j \in SignIns : svc[j].key \in Nat /\ fl[j].key \in Nat
      BY <1>1 DEF Grant, SignIn
    <3>2. keys \in Nat /\ keys' \in Nat /\ k <= keys'
      BY <1>1, <2>1, <2>2 DEF TypeOK, device_key
    <3> QED
      BY <1>1, <1>2, <1>5, <2>2, <2>4, <3>1, <3>2 DEF KeysMade
  <2>8. KeyInUse'
    BY <1>2, <2>2, <2>5 DEF KeyInUse
  <2> QED
    BY <1>8, <1>9, <2>6, <2>7, <2>8 DEF KeyInv
<1>11. CASE ~FlowKey(i)
  <2>1. keyFile' = keyFile /\ keys' = keys
    BY <1>11 DEF FlowRuns, FlowCallback, FlowStops, FlowCoded, FlowEnroll, FlowDone
  <2>2. fl'[i].key \in {0, fl[i].key} /\ (fl'[i].pc \in {"wait", "lock"} => fl[i].pc = "wait" /\ fl'[i].key = fl[i].key)
    BY <1>1, <1>11 DEF FlowRuns, FlowCallback, FlowStops, FlowCoded, FlowEnroll, FlowDone, finish_flow,
       NoFlow, SignIn
  <2>3. KeysMade'
    BY <1>1, <1>2, <1>5, <2>1, <2>2 DEF KeysMade, TypeOK
  <2>4. ChosenKey'
    BY <1>2, <1>5, <2>2 DEF KeyInv, ChosenKey
  <2>5. svc[i].key # 0 /\ svc[i].key = keyFile =>
          excuse \/ (saved'.auth = i /\ (signedIn' \/ fl'[i].pc \in {"enroll", "me"}))
    <3> SUFFICES ASSUME svc[i].key # 0, svc[i].key = keyFile, ~excuse
                 PROVE  saved'.auth = i /\ (signedIn' \/ fl'[i].pc \in {"enroll", "me"})
      OBVIOUS
    <3>1. (fl[i].pc = "coded" /\ fl[i].ok) \/ (saved.auth = i /\ fl[i].pc \in {"enroll", "me"})
      BY <1>3 DEF KeyInv, KeyInUse
    <3>2. CASE FlowCoded(i)
      <4>1. fl[i].ok /\ saved'.auth = i /\ fl' = [fl EXCEPT ![i] = [fl[i] EXCEPT !.pc = "enroll"]]
        BY <3>1, <3>2 DEF FlowCoded
      <4> QED
        BY <1>1, <4>1 DEF SignIn
    <3>3. CASE FlowEnroll(i)
      <4>1. saved' = saved /\ fl' = [fl EXCEPT ![i] = [fl[i] EXCEPT !.pc = "me"]]
        BY <3>3 DEF FlowEnroll
      <4> QED
        BY <1>1, <3>1, <3>3, <4>1 DEF SignIn, FlowEnroll
    <3>4. CASE FlowDone(i)
      <4>1. saved' = saved \/ saved' = [session EXCEPT !.snap = svc[i].who]
        BY <3>4 DEF FlowDone, apply_me
      <4>2. saved'.auth = saved.auth
        BY <1>1, <4>1 DEF SavedIsSession, TypeOK, Session
      <4> QED
        BY <3>1, <3>4, <4>2 DEF FlowDone
    <3>5. ~FlowCallback(i) /\ ~FlowStops(i)
      BY <3>1 DEF FlowCallback, FlowStops
    <3> QED
      BY <1>11, <3>2, <3>3, <3>4, <3>5 DEF FlowRuns
  <2>6. KeyInUse'
    BY <1>2, <1>6, <2>1, <2>5 DEF KeyInUse
  <2> QED
    BY <1>8, <1>9, <2>3, <2>4, <2>6 DEF KeyInv
<1> QED
  BY <1>10, <1>11

\* The code is redeemed: the service now knows the key of this sign-in.
LEMMA KeysCode ==
  ASSUME HolderInv, KeyInv, NEW i \in SignIns, FlowCode(i)
  PROVE  KeyInv'
<1>1. TypeOK /\ OneFlow /\ fl[i] \in SignIn /\ svc \in [SignIns -> Grant]
  BY DEF HolderInv, TypeOK
<1>2. /\ fl[i].pc = "lock" /\ token = None
      /\ \A j \in SignIns \ {i} : svc'[j] = svc[j] /\ fl'[j] = fl[j]
      /\ fl'[i].pc = "coded" /\ fl'[i].key = fl[i].key
      /\ \/ svc'[i] = svc[i] /\ excuse' = excuse
         \/ /\ svc'[i] = [who |-> fl[i].who, key |-> fl[i].key, serial |-> 0, alive |-> TRUE]
            /\ excuse' = TRUE \/ (fl'[i].ok /\ excuse' = excuse)
      /\ UNCHANGED <<phase, flowId, account, keys, th, out, mark, spent, reached>>
  BY <1>1, CodeGrants
<1>3. svc[i].key = 0 /\ svc[i].serial = 0 /\ fl[i].key # 0 /\ \A j \in SignIns : svc[j].key = fl[i].key => excuse
  BY <1>2 DEF KeyInv, Ungranted, ChosenKey
<1>4. (excuse => excuse') /\ svc'[i].serial = 0
  BY <1>2, <1>3
<1>5. svc'[i].key = 0 \/ (svc'[i].key = fl[i].key /\ (excuse' \/ fl'[i].ok))
  BY <1>2, <1>3
<1>6. saved' = saved /\ signedIn' = signedIn /\ keyFile' = keyFile /\ keys' = keys
  BY <1>2 DEF account
<1>7. \A j \in SignIns \ {i} : fl[j].pc \in {"none", "ended"}
  BY <1>1, <1>2 DEF OneFlow, Active
<1>8. Ungranted'
  BY <1>2, <1>4 DEF KeyInv, Ungranted
<1>9. KeysMade'
  <2>1. keys \in Nat
    BY <1>1 DEF TypeOK
  <2>2. svc'[i].key <= keys
    BY <1>5, <2>1 DEF KeyInv, KeysMade
  <2> QED
    BY <1>2, <1>6, <2>2 DEF KeyInv, KeysMade
<1>10. ChosenKey'
  BY <1>2, <1>7 DEF ChosenKey
<1>11. KeyInUse'
  BY <1>2, <1>4, <1>5, <1>6 DEF KeyInv, KeyInUse
<1>12. KeysApart'
  BY <1>2, <1>3, <1>4, <1>5 DEF KeyInv, KeysApart
<1> QED
  BY <1>8, <1>9, <1>10, <1>11, <1>12 DEF KeyInv

LEMMA KeysStep == HolderInv /\ KeyInv /\ [Next]_vars => KeyInv'
<1> SUFFICES ASSUME HolderInv, KeyInv, [Next]_vars PROVE KeyInv'
  OBVIOUS
<1>1. CASE UNCHANGED vars
  BY <1>1 DEF vars, memory, account, history, KeyInv, Ungranted, KeysMade, ChosenKey, KeyInUse, KeysApart
<1> QED
  BY <1>1, KeysFlows, KeysCode, KeysOps, KeysRest DEF Next

-----------------------------------------------------------------------------
(* Refresh tokens.                                                         *)

\* A token that was rotated is behind the service's; the one held is not,
\* unless an answer is still to be applied or was lost.
SpentIsOld == \A a \in 0 .. MaxSignIns, n \in Nat :
    <<a, n>> \in spent => a # 0 /\ n < svc[a].serial

Current == session.auth # 0 =>
    excuse \/ session.serial >= svc[session.auth].serial \/ \E t \in Threads : Applying(t)

Presented == \A t \in Threads : th[t].rt.auth # 0 =>
    /\ th[t].pc = "refresh" => excuse \/ th[t].rt.serial >= svc[th[t].rt.auth].serial
    /\ Applying(t) => excuse \/ th[t].rt.serial + 1 >= svc[th[t].rt.auth].serial

\* A refusal is of an authorization that the service does not honour.
Refused == \A t \in Threads :
    th[t].pc = "refreshed" /\ th[t].answer = "refused" => ~Honours(th[t].rt.auth, th[t].key)

SerialInv == SpentIsOld /\ Current /\ Presented /\ Refused

LEMMA SerialsInit == Init => SerialInv
<1> SUFFICES ASSUME Init PROVE SerialInv
  OBVIOUS
<1>1. session.auth = 0 /\ spent = {} /\ \A t \in Threads : th[t].pc = "idle"
  BY DEF Init, NoSession, IdleOp
<1> QED
  BY <1>1 DEF SerialInv, SpentIsOld, Current, Presented, Refused, Applying

\* A step that presents nothing and rotates nothing.
LEMMA SerialsQuiet ==
  ASSUME SerialInv, GrantsKept, spent' = spent, th' = th,
         \/ session'.auth = 0
         \/ session'.auth = session.auth /\ session'.serial = session.serial
         \/ session'.auth \in SignIns /\ session'.serial >= svc[session'.auth].serial,
         \A i \in SignIns : svc'[i].serial = svc[i].serial,
         TypeOK
  PROVE  SerialInv'
<1>1. session.auth # 0 => session.auth \in SignIns
  BY DEF TypeOK, Session, SignIns
<1>2. \A t \in Threads : th[t].rt.auth # 0 => th[t].rt.auth \in SignIns
  BY DEF TypeOK, Operation, Session, SignIns
<1>3. (excuse => excuse') /\ \A i \in SignIns : svc'[i].key = svc[i].key /\ (svc'[i].alive => svc[i].alive)
  BY DEF GrantsKept
<1>4. SpentIsOld'
  <2>1. \A a \in 0 .. MaxSignIns : a # 0 => a \in SignIns
    BY DEF SignIns
  <2> QED
    BY <2>1 DEF SerialInv, SpentIsOld
<1>5. Current'
  BY <1>1, <1>3 DEF SerialInv, Current, Applying
<1>6. Presented'
  BY <1>2, <1>3 DEF SerialInv, Presented, Applying
<1>7. Refused'
  BY <1>2, <1>3 DEF SerialInv, Refused, Honours
<1> QED
  BY <1>4, <1>5, <1>6, <1>7 DEF SerialInv

LEMMA SerialsFlows ==
  ASSUME HolderInv, KeyInv, SerialInv, NEW i \in SignIns, FlowRuns(i)
  PROVE  SerialInv'
<1>1. TypeOK
  BY DEF HolderInv
<1>2. svc' = svc /\ excuse' = excuse /\ spent' = spent
  BY FlowGrants
<1>3. th' = th
  BY DEF FlowRuns, FlowKey, FlowCallback, FlowStops, FlowCoded, FlowEnroll, FlowDone
<1>4. CASE FlowCoded(i)
  <2>1. svc[i].serial = 0
    BY <1>4 DEF FlowCoded, KeyInv, Ungranted
  <2>2. session' = session \/ session' = [auth |-> i, serial |-> 0, snap |-> None]
    BY <1>4 DEF FlowCoded
  <2>3. \/ session'.auth = session.auth /\ session'.serial = session.serial
        \/ session'.auth \in SignIns /\ session'.serial >= svc[session'.auth].serial
    BY <2>1, <2>2
  <2> QED
    BY <1>1, <1>2, <1>3, <2>3, SerialsQuiet DEF GrantsKept
<1>5. CASE FlowDone(i)
  <2>1. session' = session \/ session' = [session EXCEPT !.snap = svc[i].who]
    BY <1>5 DEF FlowDone, apply_me
  <2>2. session'.auth = session.auth /\ session'.serial = session.serial
    BY <1>1, <2>1 DEF TypeOK, Session
  <2> QED
    BY <1>1, <1>2, <1>3, <2>2, SerialsQuiet DEF GrantsKept
<1>6. CASE ~FlowCoded(i) /\ ~FlowDone(i)
  <2>1. session' = session
    BY <1>6 DEF FlowRuns, FlowKey, FlowCallback, FlowStops, FlowEnroll, account
  <2> QED
    BY <1>1, <1>2, <1>3, <2>1, SerialsQuiet DEF GrantsKept
<1> QED
  BY <1>4, <1>5, <1>6

\* No thread is in its lock while a flow redeems its code.
LEMMA SerialsCode ==
  ASSUME HolderInv, KeyInv, SerialInv, NEW i \in SignIns, FlowCode(i)
  PROVE  SerialInv'
<1>1. TypeOK /\ Mutex
  BY DEF HolderInv
<1>2. /\ fl[i].pc = "lock" /\ token = None
      /\ \A j \in SignIns \ {i} : svc'[j] = svc[j]
      /\ svc'[i] = svc[i] \/ svc'[i] = [who |-> fl[i].who, key |-> fl[i].key, serial |-> 0, alive |-> TRUE]
      /\ excuse => excuse'
      /\ th' = th /\ spent' = spent /\ session' = session
  BY <1>1, CodeGrants DEF account
<1>3. \A j \in SignIns : svc'[j].serial = svc[j].serial
  BY <1>2 DEF KeyInv, Ungranted
<1>4. \A t \in Threads : ~InLock(t)
  BY <1>1, <1>2 DEF Mutex, Threads
<1>5. SpentIsOld'
  BY <1>2, <1>3 DEF SerialInv, SpentIsOld, SignIns
<1>6. Current'
  BY <1>1, <1>2, <1>3 DEF SerialInv, Current, Applying, TypeOK, Session, SignIns
<1>7. Presented' /\ Refused'
  BY <1>2, <1>4 DEF Presented, Refused, Applying, InLock
<1> QED
  BY <1>5, <1>6, <1>7 DEF SerialInv

LEMMA SerialsRest ==
  ASSUME HolderInv, SerialInv,
         \/ start_sign_in \/ sign_out \/ OutKey \/ OutRevokes \/ OutForgets
         \/ mark_developer_intent \/ MarkWrites \/ Expires \/ RevokedElsewhere \/ Restart
  PROVE  SerialInv'
<1>1. TypeOK /\ SavedIsSession
  BY DEF HolderInv
<1>2. GrantsKept /\ spent' = spent /\ \A i \in SignIns : svc'[i].serial = svc[i].serial
  BY <1>1, RestGrants
<1>3. CASE Restart
  <2>1. session' = (IF saved.auth # 0 THEN saved ELSE NoSession)
    BY <1>3 DEF Restart
  <2>2. session'.auth # 0 => session' = session
    BY <1>1, <2>1 DEF SavedIsSession, NoSession
  <2>3. \A t \in Threads : th'[t].pc = "idle"
    BY <1>3 DEF Restart, IdleOp
  <2>4. \A t \in Threads : Applying(t) => excuse'
    BY <1>3 DEF Restart, Applying
  <2>5. SpentIsOld'
    BY <1>2 DEF SerialInv, SpentIsOld, SignIns
  <2>6. Current'
    BY <1>1, <1>2, <2>2, <2>4 DEF SerialInv, Current, GrantsKept, TypeOK, Session, SignIns
  <2>7. Presented' /\ Refused'
    BY <2>3 DEF Presented, Refused, Applying
  <2> QED
    BY <2>5, <2>6, <2>7 DEF SerialInv
<1>4. CASE OutForgets
  <2>1. session'.auth = 0 /\ th' = th
    BY <1>4 DEF OutForgets, sign_out_locally, NoSession
  <2> QED
    BY <1>1, <1>2, <2>1, SerialsQuiet
<1>5. CASE \/ start_sign_in \/ sign_out \/ OutKey \/ OutRevokes
           \/ mark_developer_intent \/ MarkWrites \/ Expires \/ RevokedElsewhere
  <2>1. session' = session /\ th' = th
    BY <1>5 DEF start_sign_in, sign_out, OutKey, OutRevokes, mark_developer_intent, MarkWrites, Expires,
       RevokedElsewhere, account
  <2> QED
    BY <1>1, <1>2, <2>1, SerialsQuiet
<1> QED
  BY <1>3, <1>4, <1>5

\* The token rotated is spent, and is held as long as its answer is awaited.
LEMMA SerialsRefresh ==
  ASSUME HolderInv, SerialInv, NEW t \in Threads, Refreshes(t)
  PROVE  SerialInv'
<1> DEFINE a == th[t].rt.auth
           n == th[t].rt.serial
<1>1. TypeOK /\ Mutex
  BY DEF HolderInv
<1>2. /\ a \in 0 .. MaxSignIns /\ n \in Nat /\ (a # 0 => a \in SignIns)
      /\ \A i \in SignIns : svc[i].serial \in Nat
      /\ session.auth # 0 => session.auth \in SignIns /\ session.serial \in Nat
  <2>1. th[t].rt \in Session /\ session \in Session /\ svc \in [SignIns -> Grant]
    BY <1>1 DEF TypeOK, Operation
  <2>2. a \in 0 .. MaxSignIns /\ n \in Nat /\ session.auth \in 0 .. MaxSignIns /\ session.serial \in Nat
    BY <2>1 DEF Session
  <2>3. \A i \in SignIns : svc[i].serial \in Nat
    BY <2>1 DEF Grant
  <2> QED
    BY <2>2, <2>3 DEF SignIns
<1>3. th[t].pc = "refresh" /\ session' = session /\ \A u \in Threads \ {t} : th'[u] = th[u]
  BY <1>1 DEF Refreshes, account, Op, TypeOK
<1>4. \A u \in Threads \ {t} : ~InLock(u) /\ ~InLock(u)'
  BY <1>1, <1>3, OthersOutside DEF InLock
<1>5. \A u \in Threads : ~Applying(u)
  BY <1>3, <1>4 DEF Applying, InLock
<1>6. th'[t].pc = "refreshed" /\ th'[t].rt = th[t].rt /\ th'[t].key = th[t].key /\ GrantsKept
  BY <1>1, RefreshGrants
<1>7. \A u \in Threads \ {t} : th'[u].pc \notin {"refresh", "refreshed"}
  BY <1>4 DEF InLock
<1>8. CASE (\A i \in SignIns : svc'[i].serial = svc[i].serial) /\ spent' = spent
           /\ th'[t].answer \in {"silent", "refused"}
           /\ (th'[t].answer = "refused" => ~Honours(a, th[t].key)')
  <2>1. SpentIsOld'
    BY <1>8 DEF SerialInv, SpentIsOld, SignIns
  <2>2. Current'
    BY <1>2, <1>3, <1>5, <1>6, <1>8 DEF SerialInv, Current, GrantsKept
  <2>3. Presented'
    BY <1>6, <1>7, <1>8 DEF Presented, Applying
  <2>4. Refused'
    BY <1>6, <1>7, <1>8 DEF Refused, Honours
  <2> QED
    BY <2>1, <2>2, <2>3, <2>4 DEF SerialInv
<1>9. CASE /\ Honours(a, th[t].key) /\ svc[a].serial = n
           /\ svc'[a].serial = n + 1 /\ \A i \in SignIns \ {a} : svc'[i].serial = svc[i].serial
           /\ spent' = spent \cup {<<a, n>>}
           /\ (th'[t].answer = "silent" /\ excuse') \/ th'[t].answer = "ok"
  <2>1. a \in SignIns
    BY <1>2, <1>9 DEF Honours
  <2>2. SpentIsOld'
    <3> SUFFICES ASSUME NEW b \in 0 .. MaxSignIns, NEW m \in Nat, <<b, m>> \in spent'
                 PROVE  b # 0 /\ m < svc'[b].serial
      BY DEF SpentIsOld
    <3>1. CASE b = a /\ m = n
      BY <1>2, <1>9, <2>1, <3>1 DEF SignIns
    <3>2. CASE <<b, m>> \in spent
      <4>1. b # 0 /\ m < svc[b].serial
        BY <3>2 DEF SerialInv, SpentIsOld
      <4> QED
        BY <1>2, <1>9, <4>1 DEF SignIns
    <3> QED
      BY <1>9, <3>1, <3>2
  <2>3. Applying(t)' \/ (excuse' /\ ~Applying(t)')
    BY <1>6, <1>9 DEF Applying
  <2>4. Current'
    BY <2>3 DEF Current
  <2>5. Presented'
    <3>1. th'[t].rt.serial + 1 >= svc'[th'[t].rt.auth].serial
      BY <1>2, <1>6, <1>9
    <3> QED
      BY <1>6, <1>7, <3>1 DEF Presented, Applying
  <2>6. Refused'
    BY <1>6, <1>7, <1>9 DEF Refused
  <2> QED
    BY <2>2, <2>4, <2>5, <2>6 DEF SerialInv
<1>10. \/ (\A i \in SignIns : svc'[i].serial = svc[i].serial) /\ spent' = spent /\ th'[t].answer = "silent"
       \/ /\ Honours(a, th[t].key) /\ svc[a].serial = n
          /\ svc'[a].serial = n + 1 /\ \A i \in SignIns \ {a} : svc'[i].serial = svc[i].serial
          /\ spent' = spent \cup {<<a, n>>}
          /\ (th'[t].answer = "silent" /\ excuse') \/ th'[t].answer = "ok"
       \/ /\ (\A i \in SignIns : svc'[i].serial = svc[i].serial) /\ spent' = spent
          /\ th'[t].answer = "refused" /\ ~Honours(a, th[t].key)'
  BY <1>1, <1>6, RefreshGrants DEF Honours
<1> HIDE DEF a, n
<1> QED
  BY <1>8, <1>9, <1>10

\* Whatever token a thread goes out with next, it is that of the session.
LEMMA SerialsOther ==
  ASSUME HolderInv, SerialInv, NEW t \in Threads, Begin(t) \/ OpRuns(t), ~Refreshes(t)
  PROVE  SerialInv'
<1> USE DEF account
<1>1. /\ TypeOK /\ Mutex /\ AtGranted /\ HeldIsSession
      /\ th \in [Threads -> Operation] /\ th[t] \in Operation
      /\ th[t].rt \in Session /\ session \in Session
  BY DEF HolderInv, TypeOK, Operation
<1>2. svc' = svc /\ spent' = spent /\ excuse' = excuse
  BY <1>1, OpGrants
<1>3. \A u \in Threads \ {t} : th'[u] = th[u]
  BY <1>1, OpShape
<1>4. ASSUME NEW r, Op(t, r)
      PROVE  th'[t] = r
  BY <1>1, <1>4 DEF Op
<1>5. ASSUME NextOp(t)
      PROVE  th'[t].pc \notin {"refresh", "refreshed"}
  <2>1. \/ Op(t, [IdleOp EXCEPT !.op = "me", !.pc = "token", !.key = th[t].key])
        \/ Op(t, IdleOp)
    BY <1>5 DEF NextOp
  <2>2. \/ th'[t] = [IdleOp EXCEPT !.op = "me", !.pc = "token", !.key = th[t].key]
        \/ th'[t] = IdleOp
    BY <1>4, <2>1
  <2> QED
    BY <2>2, IdleForm
<1>6. (InLock(t) \/ token = None) /\ th[t].pc # "refreshed" => \A u \in Threads : ~Applying(u)
  BY <1>1, OthersOutside DEF Applying, InLock
<1>7. ASSUME Token(t), InLock(t) \/ token = None, th[t].pc # "refreshed"
      PROVE  \/ th'[t].pc \notin {"refresh", "refreshed"}
             \/ th'[t].pc = "refresh" /\ th'[t].rt = session
  <2>1. CASE NextOp(t)
    BY <1>5, <2>1
  <2>2. CASE Op(t, [th[t] EXCEPT !.pc = "send", !.at = access.auth])
    <3>1. th'[t] = [th[t] EXCEPT !.pc = "send", !.at = access.auth]
      BY <1>4, <2>2
    <3> QED
      BY <1>1, <3>1 DEF Operation
  <2>3. CASE Op(t, [th[t] EXCEPT !.pc = "refresh", !.rt = session])
    <3>1. th'[t] = [th[t] EXCEPT !.pc = "refresh", !.rt = session]
      BY <1>4, <2>3
    <3> QED
      BY <1>1, <3>1 DEF Operation
  <2> QED
    BY <1>7, <2>1, <2>2, <2>3 DEF Token
<1>8. \/ th'[t].pc \notin {"refresh", "refreshed"}
      \/ /\ th'[t].pc = "refresh" /\ th'[t].rt = session /\ session' = session
         /\ \A u \in Threads : ~Applying(u)
  <2>1. CASE Begin(t)
    <3>1. PICK o \in {"enroll", "call"} : Op(t, [IdleOp EXCEPT !.pc = "key", !.op = o])
      BY <2>1 DEF Begin
    <3>2. th'[t] = [IdleOp EXCEPT !.pc = "key", !.op = o]
      BY <1>4, <3>1
    <3> QED
      BY <3>2, IdleForm
  <2>2. CASE LoadsKey(t)
    <3>1. PICK k \in 1 .. MaxKeys : Op(t, [th[t] EXCEPT !.pc = "lock", !.key = k])
      BY <2>2 DEF LoadsKey
    <3>2. th'[t] = [th[t] EXCEPT !.pc = "lock", !.key = k]
      BY <1>4, <3>1
    <3> QED
      BY <1>1, <3>2 DEF Operation
  <2>3. CASE Locks(t) \/ access_token_locked(t)
    <3>1. Token(t) /\ (InLock(t) \/ token = None) /\ th[t].pc # "refreshed" /\ session' = session
      BY <2>3 DEF Locks, access_token_locked, InLock
    <3> QED
      BY <1>6, <1>7, <3>1
  <2>4. CASE refresh_locked(t)
    <3>1. CASE Op(t, [th[t] EXCEPT !.pc = "send", !.at = th[t].rt.auth, !.rt = NoSession, !.answer = "none"])
      <4>1. th'[t] = [th[t] EXCEPT !.pc = "send", !.at = th[t].rt.auth, !.rt = NoSession, !.answer = "none"]
        BY <1>4, <3>1
      <4> QED
        BY <1>1, <4>1 DEF Operation
    <3> QED
      BY <1>5, <2>4, <3>1 DEF refresh_locked
  <2>5. CASE Sends(t)
    <3>1. PICK w \in {"silent", "ok", "refused"} : Op(t, [th[t] EXCEPT !.pc = "sent", !.answer = w])
      BY <2>5 DEF Sends
    <3>2. th'[t] = [th[t] EXCEPT !.pc = "sent", !.answer = w]
      BY <1>4, <3>1
    <3> QED
      BY <1>1, <3>2 DEF Operation
  <2>6. CASE Sent(t)
    <3>1. CASE Op(t, [th[t] EXCEPT !.pc = "refresh", !.rt = session, !.retried = TRUE, !.at = 0, !.answer = "none"])
               /\ session' = session
      <4>1. th'[t] = [th[t] EXCEPT !.pc = "refresh", !.rt = session, !.retried = TRUE, !.at = 0, !.answer = "none"]
        BY <1>4, <3>1
      <4>2. th'[t].pc = "refresh" /\ th'[t].rt = session
        BY <1>1, <4>1 DEF Operation
      <4> QED
        BY <1>6, <2>6, <3>1, <4>2 DEF Sent, InLock
    <3> QED
      BY <1>5, <2>6, <3>1 DEF Sent
  <2> QED
    BY <2>1, <2>2, <2>3, <2>4, <2>5, <2>6 DEF OpRuns
<1>9. SpentIsOld'
  BY <1>2 DEF SerialInv, SpentIsOld
<1>10. Presented' /\ Refused'
  <2>1. th'[t].pc = "refresh" /\ th'[t].rt.auth # 0 => excuse' \/ th'[t].rt.serial >= svc'[th'[t].rt.auth].serial
    BY <1>2, <1>8 DEF SerialInv, Current
  <2>2. th'[t].pc # "refreshed"
    BY <1>8
  <2> QED
    BY <1>2, <1>3, <2>1, <2>2 DEF SerialInv, Presented, Refused, Applying, Honours
<1>11. Current'
  <2>1. CASE session'.auth = session.auth /\ session'.serial = session.serial /\ ~Applying(t)
    <3>1. \A u \in Threads : Applying(u) => Applying(u)'
      BY <1>3, <2>1 DEF Applying
    <3> QED
      BY <1>2, <2>1, <3>1 DEF SerialInv, Current
  <2>2. CASE refresh_locked(t)
    <3>1. CASE th[t].answer = "ok" /\ apply_tokens(th[t].rt.auth, th[t].rt.serial + 1)
      <4>1. session'.auth = th[t].rt.auth /\ session'.serial = th[t].rt.serial + 1
        BY <1>1, <3>1 DEF apply_tokens, Session
      <4>2. Applying(t)
        BY <2>2, <3>1 DEF refresh_locked, Applying
      <4> QED
        BY <1>2, <4>1, <4>2 DEF SerialInv, Presented, Current
    <3>2. CASE sign_out_locally
      BY <3>2 DEF sign_out_locally, NoSession, Current
    <3>3. CASE th[t].answer = "silent" /\ session' = session
      BY <2>1, <3>3 DEF Applying
    <3> QED
      BY <2>2, <3>1, <3>2, <3>3 DEF refresh_locked
  <2>3. CASE ~refresh_locked(t)
    <3>1. th[t].pc # "refreshed"
      BY <2>3 DEF OpRuns, Begin, LoadsKey, Locks, access_token_locked, Refreshes, Sends, Sent
    <3>2. session' = session \/ \E w : session' = [session EXCEPT !.snap = w]
      BY <2>3 DEF OpRuns, Begin, LoadsKey, Locks, access_token_locked, Refreshes, Sends, Sent, apply_me
    <3>3. session'.auth = session.auth /\ session'.serial = session.serial
      BY <1>1, <3>2 DEF Session
    <3> QED
      BY <2>1, <3>1, <3>3 DEF Applying
  <2> QED
    BY <2>2, <2>3
<1> QED
  BY <1>9, <1>10, <1>11 DEF SerialInv

LEMMA SerialsStep == HolderInv /\ KeyInv /\ SerialInv /\ [Next]_vars => SerialInv'
<1> SUFFICES ASSUME HolderInv, KeyInv, SerialInv, [Next]_vars PROVE SerialInv'
  OBVIOUS
<1>1. CASE UNCHANGED vars
  BY <1>1 DEF vars, memory, account, history, SerialInv, SpentIsOld, Current, Presented, Refused, Applying,
     Honours
<1> QED
  BY <1>1, SerialsFlows, SerialsCode, SerialsRefresh, SerialsOther, SerialsRest DEF Next

-----------------------------------------------------------------------------
(* Install Dev Tools.                                                      *)

\* An intent that names a person is of the account signed in.
IntentOwned == intent.owner \in Accounts =>
    intent.state = "bound" /\ signedIn /\ session.auth # 0 /\ svc[session.auth].who = intent.owner

MarkForm == ~mark.bound => mark.owner = None

IntentInv == IntentOwned /\ MarkForm /\ IntentReachesItsAccount

LEMMA IntentInit == Init => IntentInv
<1> SUFFICES ASSUME Init PROVE IntentInv
  OBVIOUS
<1>1. intent.owner = None /\ mark.owner = None /\ reached = {}
  BY DEF Init, IdleMark
<1> QED
  BY <1>1 DEF IntentInv, IntentOwned, MarkForm, IntentReachesItsAccount

LEMMA IntentFlows ==
  ASSUME HolderInv, IntentInv, NEW i \in SignIns, FlowRuns(i) \/ FlowCode(i)
  PROVE  IntentInv'
<1>1. TypeOK /\ OneFlow
  BY DEF HolderInv
<1>2. ~signedIn
  BY <1>1 DEF FlowRuns, FlowKey, FlowCallback, FlowStops, FlowCode, FlowCoded, FlowEnroll, FlowDone, Active,
     OneFlow
<1>3. intent.owner \in {None, Nobody}
  BY <1>1, <1>2 DEF IntentInv, IntentOwned, TypeOK, Intent
<1>4. intent' = intent \/ intent' = [state |-> "none", owner |-> None]
  BY DEF FlowRuns, FlowKey, FlowCallback, FlowStops, FlowCode, FlowCoded, FlowEnroll, FlowDone, Clears, account
<1>5. IntentOwned'
  BY <1>3, <1>4 DEF IntentOwned
<1>6. MarkForm'
  BY DEF FlowRuns, FlowKey, FlowCallback, FlowStops, FlowCode, FlowCoded, FlowEnroll, FlowDone, IntentInv,
     MarkForm
<1>7. reached' = reached \/ reached' = reached \cup {<<Owner(fl[i].who), fl[i].who>>}
  BY DEF FlowRuns, FlowKey, FlowCallback, FlowStops, FlowCode, FlowCoded, FlowEnroll, FlowDone, history
<1>8. Owner(fl[i].who) \in {fl[i].who, Nobody}
  BY <1>3 DEF Owner
<1>9. IntentReachesItsAccount'
  BY <1>7, <1>8 DEF IntentInv, IntentReachesItsAccount
<1> QED
  BY <1>5, <1>6, <1>9 DEF IntentInv

LEMMA IntentOps ==
  ASSUME HolderInv, IntentInv, NEW t \in Threads, Begin(t) \/ OpRuns(t)
  PROVE  IntentInv'
<1> USE DEF account
<1>1. /\ TypeOK /\ HeldIsSession /\ AtGranted /\ session \in Session /\ th[t] \in Operation
      /\ (session.auth # 0 => session.auth \in SignIns)
  BY DEF HolderInv, TypeOK, Session, SignIns
<1>2. \A i \in SignIns : svc'[i].who = svc[i].who
  BY <1>1, OpGrants DEF GrantsKept
<1>3. MarkForm'
  BY DEF OpRuns, Begin, LoadsKey, Locks, access_token_locked, Refreshes, refresh_locked, Sends, Sent,
     IntentInv, MarkForm
<1>4. IntentOwned'
  <2>1. CASE intent' = intent /\ signedIn' = signedIn /\ session'.auth = session.auth
    BY <1>1, <1>2, <2>1 DEF IntentInv, IntentOwned
  <2>2. CASE refresh_locked(t)
    <3>1. CASE apply_tokens(th[t].rt.auth, th[t].rt.serial + 1) /\ UNCHANGED <<signedIn, intent>>
      <4>1. session'.auth = th[t].rt.auth
        BY <1>1, <3>1 DEF apply_tokens, Session
      <4>2. session.auth \in {0, th[t].rt.auth}
        BY <1>1, <2>2 DEF refresh_locked, HeldIsSession
      <4> QED
        BY <1>1, <1>2, <3>1, <4>1, <4>2 DEF IntentInv, IntentOwned
    <3>2. CASE sign_out_locally
      <4>1. intent' = (IF intent.state = "bound" THEN [state |-> "none", owner |-> None] ELSE intent)
        BY <3>2 DEF sign_out_locally, drop_bound_intent
      <4> QED
        BY <4>1 DEF IntentInv, IntentOwned
    <3>3. CASE UNCHANGED account
      BY <2>1, <3>3
    <3> QED
      BY <2>2, <3>1, <3>2, <3>3 DEF refresh_locked
  <2>3. CASE Sent(t)
    <3>1. session' = session \/ session' = [session EXCEPT !.snap = svc[th[t].at].who]
      BY <2>3 DEF Sent, apply_me
    <3>2. session'.auth = session.auth
      BY <1>1, <3>1 DEF Session
    <3>3. signedIn' = signedIn /\ (intent' = intent \/ intent' = [state |-> "none", owner |-> None])
      BY <2>3 DEF Sent, Clears
    <3>4. CASE intent' = intent
      BY <2>1, <3>2, <3>3, <3>4
    <3>5. CASE intent' = [state |-> "none", owner |-> None]
      BY <3>5 DEF IntentOwned
    <3> QED
      BY <3>3, <3>4, <3>5
  <2>4. CASE ~refresh_locked(t) /\ ~Sent(t)
    <3>1. intent' = intent /\ signedIn' = signedIn /\ session' = session
      BY <2>4 DEF OpRuns, Begin, LoadsKey, Locks, access_token_locked, Refreshes, Sends
    <3> QED
      BY <2>1, <3>1
  <2> QED
    BY <2>2, <2>3, <2>4
<1>5. IntentReachesItsAccount'
  <2>1. CASE Sends(t)
    <3>1. reached' = reached \/ reached' = reached \cup {<<Owner(svc[th[t].at].who), svc[th[t].at].who>>}
      BY <2>1 DEF Sends
    <3>2. session.auth \in {0, th[t].at}
      BY <1>1, <2>1 DEF Sends, HeldIsSession
    <3>3. Owner(svc[th[t].at].who) \in {svc[th[t].at].who, Nobody}
      BY <1>1, <3>2 DEF Owner, IntentInv, IntentOwned, TypeOK, Intent
    <3> QED
      BY <3>1, <3>3 DEF IntentInv, IntentReachesItsAccount
  <2>2. CASE ~Sends(t)
    BY <2>2 DEF OpRuns, Begin, LoadsKey, Locks, access_token_locked, Refreshes, refresh_locked, Sent, history,
       IntentInv, IntentReachesItsAccount
  <2> QED
    BY <2>1, <2>2
<1> QED
  BY <1>3, <1>4, <1>5 DEF IntentInv

LEMMA IntentRest ==
  ASSUME HolderInv, IntentInv,
         \/ start_sign_in \/ sign_out \/ OutKey \/ OutRevokes \/ OutForgets
         \/ mark_developer_intent \/ MarkWrites \/ Expires \/ RevokedElsewhere \/ Restart
  PROVE  IntentInv'
<1> USE DEF account, history
<1>1. TypeOK /\ SavedIsSession /\ (session.auth # 0 => session.auth \in SignIns)
  BY DEF HolderInv, TypeOK, Session, SignIns
<1>2. \A i \in SignIns : svc'[i].who = svc[i].who
  BY <1>1, RestGrants DEF GrantsKept
<1>3. reached' = reached
  BY DEF start_sign_in, sign_out, OutKey, OutRevokes, OutForgets, mark_developer_intent, MarkWrites, Expires,
     RevokedElsewhere, Restart
<1>4. IntentReachesItsAccount'
  BY <1>3 DEF IntentInv, IntentReachesItsAccount
<1>5. CASE Restart
  <2>1. session'.auth = session.auth /\ (signedIn' <=> session.auth # 0) /\ intent' = intent
    BY <1>1, <1>5 DEF Restart, SavedIsSession, NoSession
  <2>2. mark'.owner = None
    BY <1>5 DEF Restart, IdleMark
  <2>3. IntentOwned' /\ MarkForm'
    BY <1>1, <1>2, <2>1, <2>2 DEF IntentInv, IntentOwned, MarkForm
  <2> QED
    BY <1>4, <2>3 DEF IntentInv
<1>6. CASE OutForgets
  <2>1. intent' = (IF intent.state = "bound" THEN [state |-> "none", owner |-> None] ELSE intent)
        /\ mark' = mark
    BY <1>6 DEF OutForgets, sign_out_locally, drop_bound_intent
  <2>2. IntentOwned' /\ MarkForm'
    BY <2>1 DEF IntentInv, IntentOwned, MarkForm
  <2> QED
    BY <1>4, <2>2 DEF IntentInv
<1>7. CASE MarkWrites
  <2>1. /\ mark' = IdleMark /\ signedIn' = signedIn /\ session' = session
        /\ intent' = [state |-> IF mark.bound THEN "bound" ELSE "unbound",
                      owner |-> IF MarkRaces THEN Nobody ELSE mark.owner]
    BY <1>7 DEF MarkWrites
  <2>2. intent'.owner \in Accounts => ~MarkRaces /\ mark.owner = intent'.owner /\ mark.owner # None
    BY <2>1
  <2>3. intent'.owner \in Accounts => mark.bound /\ signedIn /\ Who = intent'.owner
    BY <1>1, <2>2 DEF MarkRaces, IntentInv, MarkForm, TypeOK, Mark
  <2>4. IntentOwned'
    <3> SUFFICES ASSUME intent'.owner \in Accounts
                 PROVE  intent'.state = "bound" /\ signedIn /\ session.auth # 0
                        /\ svc'[session.auth].who = intent'.owner
      BY <2>1 DEF IntentOwned
    <3>1. mark.bound /\ signedIn /\ Who = intent'.owner /\ Who # None
      BY <2>3
    <3>2. session.auth # 0 /\ svc[session.auth].who = intent'.owner
      BY <3>1 DEF Who
    <3> QED
      BY <1>1, <1>2, <2>1, <3>1, <3>2
  <2>5. MarkForm'
    BY <2>1 DEF MarkForm, IdleMark
  <2> QED
    BY <1>4, <2>4, <2>5 DEF IntentInv
<1>8. CASE \/ start_sign_in \/ sign_out \/ OutKey \/ OutRevokes
           \/ mark_developer_intent \/ Expires \/ RevokedElsewhere
  <2>1. intent' = intent /\ session' = session /\ signedIn' = signedIn
    BY <1>8 DEF start_sign_in, sign_out, OutKey, OutRevokes, mark_developer_intent, Expires, RevokedElsewhere
  <2>2. mark' = mark \/ mark' = [pc |-> "write", bound |-> signedIn, owner |-> IF signedIn THEN Who ELSE None]
    BY <1>8 DEF start_sign_in, sign_out, OutKey, OutRevokes, mark_developer_intent, Expires, RevokedElsewhere
  <2>3. IntentOwned' /\ MarkForm'
    BY <1>1, <1>2, <2>1, <2>2 DEF IntentInv, IntentOwned, MarkForm
  <2> QED
    BY <1>4, <2>3 DEF IntentInv
<1> QED
  BY <1>5, <1>6, <1>7, <1>8

LEMMA IntentStep == HolderInv /\ IntentInv /\ [Next]_vars => IntentInv'
<1> SUFFICES ASSUME HolderInv, IntentInv, [Next]_vars PROVE IntentInv'
  OBVIOUS
<1>1. CASE UNCHANGED vars
  BY <1>1 DEF vars, memory, account, history, IntentInv, IntentOwned, MarkForm, IntentReachesItsAccount
<1> QED
  BY <1>1, IntentFlows, IntentOps, IntentRest DEF Next

-----------------------------------------------------------------------------
(* The theorems.                                                           *)

AccountInv == HolderInv /\ KeyInv /\ SerialInv /\ IntentInv

LEMMA Always == Spec => []AccountInv
<1>1. Init => AccountInv
  BY HolderInit, KeysInit, SerialsInit, IntentInit DEF AccountInv
<1>2. AccountInv /\ [Next]_vars => AccountInv'
  BY HolderStep, KeysStep, SerialsStep, IntentStep DEF AccountInv
<1> QED
  BY <1>1, <1>2, PTL DEF Spec

\* Every variable keeps its type, through any run of sign-ins, token
\* operations, sign-outs and restarts.
THEOREM TypeCorrect == Spec => []TypeOK
<1>1. AccountInv => TypeOK
  BY DEF AccountInv, HolderInv
<1> QED
  BY <1>1, Always, PTL

\* token_mutex: a refresh token that the service has rotated is never
\* presented again, unless the answer that rotated it was lost.
THEOREM PresentedOnce == Spec => []NeverTwice
<1>1. AccountInv => NeverTwice
  <2> SUFFICES ASSUME AccountInv, NEW t \in Threads, th[t].pc = "refresh",
                      <<th[t].rt.auth, th[t].rt.serial>> \in spent
               PROVE  excuse
    BY DEF NeverTwice
  <2>1. th[t].rt \in Session /\ svc \in [SignIns -> Grant]
    BY DEF AccountInv, HolderInv, TypeOK, Operation
  <2>2. th[t].rt.auth \in 0 .. MaxSignIns /\ th[t].rt.serial \in Nat
    BY <2>1 DEF Session
  <2>3. th[t].rt.auth # 0 /\ th[t].rt.serial < svc[th[t].rt.auth].serial
    BY <2>2 DEF AccountInv, SerialInv, SpentIsOld
  <2>4. svc[th[t].rt.auth].serial \in Nat
    BY <2>1, <2>2, <2>3 DEF SignIns, Grant
  <2>5. excuse \/ th[t].rt.serial >= svc[th[t].rt.auth].serial
    BY <2>3 DEF AccountInv, SerialInv, Presented
  <2> QED
    BY <2>2, <2>3, <2>4, <2>5
<1> QED
  BY <1>1, Always, PTL

\* Two people who sign in here one after the other never share a device
\* key, unless the answer to an exchange was lost.
THEOREM KeysOfTheirOwn == Spec => []KeyPerPerson
<1>1. AccountInv => KeyPerPerson
  BY DEF AccountInv, KeyInv, KeysApart, KeyPerPerson
<1> QED
  BY <1>1, Always, PTL

\* An Install Dev Tools made signed in never reaches a different account.
THEOREM IntentGoesHome == Spec => []IntentReachesItsAccount
<1>1. AccountInv => IntentReachesItsAccount
  BY DEF AccountInv, IntentInv
<1> QED
  BY <1>1, Always, PTL

\* No step but the person's sign-out, and no answer but a refusal of the
\* authorization that is really gone, signs the installation out.
THEOREM FailureIsNoSignOut == Spec => NetworkKeepsSignIn
<1>1. ASSUME AccountInv, [Next]_vars, signedIn, session.auth # 0, ~signedIn'
      PROVE  \/ out.pc = "forget" \/ excuse
             \/ \E t \in Threads : th[t].answer = "refused" /\ ~Honours(session.auth, th[t].key)
  <2>1. TypeOK /\ OneFlow /\ SavedIsSession /\ HeldIsSession
    BY <1>1 DEF AccountInv, HolderInv
  <2>2. CASE UNCHANGED vars
    BY <1>1, <2>2 DEF vars, account
  <2>3. ASSUME NEW i \in SignIns, FlowRuns(i) \/ FlowCode(i) PROVE FALSE
    BY <1>1, <2>1, <2>3 DEF FlowRuns, FlowKey, FlowCallback, FlowStops, FlowCode, FlowCoded, FlowEnroll,
       FlowDone, Active, OneFlow
  <2>4. ASSUME NEW t \in Threads, Begin(t) \/ OpRuns(t)
        PROVE  th[t].answer = "refused" /\ ~Honours(session.auth, th[t].key)
    <3>1. refresh_locked(t) /\ th[t].answer = "refused"
      BY <1>1, <2>4 DEF OpRuns, Begin, LoadsKey, Locks, access_token_locked, Refreshes, refresh_locked, Sends,
         Sent, account
    <3>2. th[t].pc = "refreshed" /\ session.auth = th[t].rt.auth
      BY <1>1, <2>1, <3>1 DEF refresh_locked, HeldIsSession
    <3> QED
      BY <1>1, <3>1, <3>2 DEF AccountInv, SerialInv, Refused
  <2>5. CASE OutForgets
    BY <2>5 DEF OutForgets
  <2>6. CASE Restart
    BY <1>1, <2>1, <2>6 DEF Restart, SavedIsSession
  <2>7. CASE \/ start_sign_in \/ sign_out \/ OutKey \/ OutRevokes
             \/ mark_developer_intent \/ MarkWrites \/ Expires \/ RevokedElsewhere
    BY <1>1, <2>7 DEF start_sign_in, sign_out, OutKey, OutRevokes, mark_developer_intent, MarkWrites, Expires,
       RevokedElsewhere, account
  <2> QED
    BY <1>1, <2>2, <2>3, <2>4, <2>5, <2>6, <2>7 DEF Next
<1>2. AccountInv /\ [Next]_vars =>
        [signedIn /\ session.auth # 0 /\ ~signedIn' =>
           \/ out.pc = "forget" \/ excuse
           \/ \E t \in Threads : th[t].answer = "refused" /\ ~Honours(session.auth, th[t].key)]_vars
  BY <1>1
<1> QED
  BY <1>2, Always, PTL DEF Spec, NetworkKeepsSignIn
=============================================================================
