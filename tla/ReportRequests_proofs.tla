------------------------ MODULE ReportRequests_proofs ------------------------
(***************************************************************************)
(* Proofs about ReportRequests, for any number of sessions, of requests    *)
(* of each kind, and of kills, lost answers and failed writes, at any      *)
(* point between two reads of the evidence thread.                         *)
(***************************************************************************)
EXTENDS ReportRequests, TLAPS

USE NoSessionAssumption, ReviewsAssumption, FaultsAssumption, RequestsAssumption

-----------------------------------------------------------------------------
(* The sessions beside the requests.                                       *)

\* What says that a session was received, a receipt or the saved progress,
\* says it of a session the service holds.
SaidIsHeld == receipts \cup received \subseteq held

\* What a step leaves of the sessions: the disk and the Client well formed,
\* nothing said that is not held, nothing held that is let go.
SessionsGoOn == TypeOK' /\ SaidIsHeld' /\ held \subseteq held'

LEMMA SessionInit == Init => TypeOK /\ SaidIsHeld
<1> SUFFICES ASSUME Init PROVE TypeOK /\ SaidIsHeld
  OBVIOUS
<1>1. /\ open \in Sessions \cup {NoSession} /\ ledger \subseteq Sessions /\ incoming \subseteq Sessions
      /\ outbox \subseteq Sessions /\ receipts \subseteq Sessions /\ received \subseteq Sessions
      /\ held \subseteq Sessions /\ SaidIsHeld
  BY DEF Init, SaidIsHeld
<1>2. receiving \in BOOLEAN /\ hold \in BOOLEAN /\ playing \in BOOLEAN /\ recovering \in BOOLEAN
  BY DEF Init
<1>3. up = FALSE /\ seen = FALSE /\ due = FALSE /\ recent = FALSE /\ run = "none"
  BY DEF Init
<1>4. faults \in 0 .. MaxFaults
  BY DEF Init
<1> QED
  BY <1>1, <1>2, <1>3, <1>4 DEF TypeOK

\* Faults are taken from the budget.
LEMMA FaultBound ==
  ASSUME faults \in 0 .. MaxFaults, Fault
  PROVE  faults' \in 0 .. MaxFaults
BY DEF Fault

LEMMA WrapperTypes ==
  ASSUME TypeOK, SaidIsHeld, WrapperStep
  PROVE  SessionsGoOn
<1> USE DEF TypeOK, SaidIsHeld, SessionsGoOn, records, evidence, wrapper, checks, client, Busy, Pending
<1>1. CASE Launch
  BY <1>1 DEF Launch
<1>2. CASE RecordSession
  BY <1>2 DEF RecordSession
<1>3. CASE DropCheckpoint
  BY <1>3 DEF DropCheckpoint
<1>4. CASE Exit
  BY <1>4 DEF Exit
<1>5. CASE Die
  BY <1>5, FaultBound DEF Die
<1>6. ASSUME NEW s \in Sessions, OpenSession(s) PROVE SessionsGoOn
  BY <1>6 DEF OpenSession
<1>7. ASSUME NEW s \in Sessions, Stage(s) PROVE SessionsGoOn
  BY <1>7 DEF Stage
<1>8. ASSUME NEW s \in Sessions, Publish(s) PROVE SessionsGoOn
  BY <1>8 DEF Publish
<1> QED
  BY <1>1, <1>2, <1>3, <1>4, <1>5, <1>6, <1>7, <1>8 DEF WrapperStep, WrapperRuns

LEMMA ClientTypes ==
  ASSUME TypeOK, SaidIsHeld, ClientStep \/ ClientStarts \/ ClientCrashes
  PROVE  SessionsGoOn
<1> USE DEF TypeOK, SaidIsHeld, SessionsGoOn, records, evidence, wrapper, checks, client
<1>1. CASE SeeRunning
  BY <1>1 DEF SeeRunning
<1>2. CASE SeeStopped
  BY <1>2 DEF SeeStopped
<1>3. CASE Look
  BY <1>3 DEF Look
<1>4. CASE StartRecovery
  BY <1>4, FaultBound DEF StartRecovery
<1>5. CASE WaitEnds
  BY <1>5 DEF WaitEnds
<1>6. CASE FiveMinutesPass \/ Review \/ StopForSecurity
  BY <1>6 DEF FiveMinutesPass, Review, StopForSecurity
<1>7. CASE ClientStarts
  BY <1>7 DEF ClientStarts
<1>8. CASE ClientCrashes
  BY <1>8, FaultBound DEF ClientCrashes
<1> QED
  BY <1>1, <1>2, <1>3, <1>4, <1>5, <1>6, <1>7, <1>8 DEF ClientStep, RecoveryStep

LEMMA DeliveryTypes ==
  ASSUME TypeOK, SaidIsHeld, Delivery \/ ReadProgress
  PROVE  SessionsGoOn
<1> USE DEF TypeOK, SaidIsHeld, SessionsGoOn, records, wrapper, checks, client
<1>1. ASSUME NEW s \in Sessions, Arrive(s) PROVE SessionsGoOn
  BY <1>1 DEF Arrive
<1>2. ASSUME NEW s \in Sessions, Acknowledge(s) PROVE SessionsGoOn
  BY <1>2 DEF Acknowledge, StoreProgress
<1>3. CASE ReadProgress
  BY <1>3 DEF ReadProgress, StoreProgress
<1> QED
  BY <1>1, <1>2, <1>3 DEF Delivery

\* The thread's own steps: a fault taken, a progress document stored.
LEMMA ThreadSessions ==
  ASSUME TypeOK, SaidIsHeld, UNCHANGED sessions, MayStoreProgress,
         faults' = faults \/ Fault
  PROVE  SessionsGoOn
<1>1. faults' \in 0 .. MaxFaults
  BY FaultBound DEF TypeOK
<1>2. received' \subseteq Sessions /\ receiving' \in BOOLEAN /\ received' \subseteq held
  BY DEF MayStoreProgress, StoreProgress, progress, TypeOK, SaidIsHeld
<1> QED
  BY <1>1, <1>2 DEF TypeOK, SaidIsHeld, SessionsGoOn, sessions, records, wrapper, checks, client

LEMMA SessionsStay ==
  ASSUME TypeOK, SaidIsHeld, UNCHANGED sessionVars
  PROVE  SessionsGoOn
BY DEF TypeOK, SaidIsHeld, SessionsGoOn, sessionVars, records, evidence, wrapper, checks, client

-----------------------------------------------------------------------------
(* The requests.                                                           *)

\* A pass looks only at requests that are in their files: what it took in
\* hand it has ticked off, and nothing else removes a file it has to look at.
ItemsAsked == \A k \in items : request[k] # 0
HeldInHand == at \in InHand => kind \notin items

\* From the answer on, the service's record stands behind the request in
\* hand; from the receipt on, the receipt does.
RecordedInHand ==
    /\ at = "receipt" => kind \in recorded
    /\ at \in {"drop", "ack"} => answered[kind] # 0

RequestInv ==
    /\ ReportTypeOK /\ SaidIsHeld
    /\ ItemsAsked /\ HeldInHand /\ RecordedInHand
    /\ NamedAreHeld /\ DoneIsRecorded

\* What RequestInv says beyond the types of the sessions.
RequestParts ==
    /\ FilesOK /\ ThreadOK
    /\ recorded \subseteq Kinds /\ removal \in BOOLEAN /\ account \in {"mine", "other", "none"}
    /\ ItemsAsked /\ HeldInHand /\ RecordedInHand
    /\ NamedAreHeld /\ DoneIsRecorded

LEMMA RequestInit == ReportInit => RequestInv
<1> SUFFICES ASSUME ReportInit PROVE RequestInv
  OBVIOUS
<1>1. TypeOK /\ SaidIsHeld /\ up = FALSE
  BY SessionInit DEF ReportInit, Init
<1>2. FilesOK
  BY DEF ReportInit, FilesOK, Fresh
<1>3. ThreadOK
  <2>1. at = "down" /\ items = {} /\ kind = "none" /\ id = 0 /\ found = {} /\ at \notin InHand
    BY DEF ReportInit, InHand, Reading
  <2>2. force = FALSE /\ forceFlag = FALSE /\ wake = FALSE /\ alarm = FALSE
    BY DEF ReportInit
  <2> QED
    BY <1>1, <2>1, <2>2 DEF ThreadOK
<1>4. recorded \subseteq Kinds /\ removal = FALSE /\ account \in {"mine", "other", "none"}
  BY DEF ReportInit
<1>5. ItemsAsked /\ HeldInHand /\ RecordedInHand /\ NamedAreHeld
  BY DEF ReportInit, ItemsAsked, HeldInHand, RecordedInHand, NamedAreHeld, InHand, Reading
<1>6. DoneIsRecorded
  BY <1>4 DEF ReportInit, DoneIsRecorded
<1> QED
  BY <1>1, <1>2, <1>3, <1>4, <1>5, <1>6 DEF RequestInv, ReportTypeOK

\* A step around the thread: the sessions go on, the request in hand stays.
LEMMA RequestsStay ==
  ASSUME RequestInv, UNCHANGED <<request, kept, answered, written, recorded, removal>>,
         UNCHANGED <<at, items, kind, id, found>>,
         force' \in BOOLEAN, forceFlag' \in BOOLEAN, wake' \in BOOLEAN, alarm' \in BOOLEAN,
         account' \in {"mine", "other", "none"}, up' = up, held \subseteq held'
  PROVE  RequestParts'
<1>1. FilesOK'
  BY DEF RequestInv, ReportTypeOK, FilesOK
<1>2. ThreadOK'
  BY DEF RequestInv, ReportTypeOK, ThreadOK
<1>3. (ItemsAsked /\ HeldInHand /\ RecordedInHand)'
  BY DEF RequestInv, ItemsAsked, HeldInHand, RecordedInHand
<1>4. (NamedAreHeld /\ DoneIsRecorded)'
  BY DEF RequestInv, NamedAreHeld, DoneIsRecorded
<1> QED
  BY <1>1, <1>2, <1>3, <1>4 DEF RequestParts, RequestInv, ReportTypeOK

LEMMA RequestStays ==
  ASSUME RequestInv, UNCHANGED requestVars, up' = up, held \subseteq held'
  PROVE  RequestParts'
BY RequestsStay DEF requestVars, others, thread, inHand, signals, RequestInv, ReportTypeOK, ThreadOK

\* The writers, the account, the packages, the sessions and the Client's life.
LEMMA RequestAround ==
  ASSUME RequestInv,
         Starts \/ WrapperGoes \/ RecoveryGoes \/ Around \/ (Delivery /\ Delivers)
  PROVE  SessionsGoOn /\ RequestParts'
<1>1. TypeOK /\ SaidIsHeld /\ FilesOK /\ ThreadOK
  BY DEF RequestInv, ReportTypeOK
<1>2. ASSUME SessionsGoOn, UNCHANGED up, UNCHANGED requestVars
      PROVE  SessionsGoOn /\ RequestParts'
  BY <1>2, RequestStays DEF SessionsGoOn
<1>3. ASSUME SessionsGoOn, UNCHANGED up, Woken
      PROVE  SessionsGoOn /\ RequestParts'
  BY <1>1, <1>3, RequestsStay DEF SessionsGoOn, Woken, others, inHand, ThreadOK, RequestInv, ReportTypeOK, TypeOK
<1>4. CASE Starts
  <2>1. SessionsGoOn
    BY <1>1, <1>4, ClientTypes DEF Starts
  <2>2. at = "down" /\ at' = "deliver" /\ at \notin InHand /\ at' \notin InHand /\ up' = TRUE
    BY <1>1, <1>4 DEF Starts, ClientStarts, ThreadOK, InHand, Reading
  <2>3. FilesOK'
    BY <1>1, <1>4 DEF Starts, FilesOK, others
  <2>4. ThreadOK'
    BY <1>1, <1>4, <2>2 DEF Starts, ThreadOK, inHand
  <2>5. (ItemsAsked /\ HeldInHand /\ RecordedInHand)'
    BY <1>4, <2>2 DEF Starts, ItemsAsked, HeldInHand, RecordedInHand, RequestInv
  <2>6. (NamedAreHeld /\ DoneIsRecorded)'
    BY <1>4, <2>2 DEF Starts, NamedAreHeld, DoneIsRecorded, RequestInv, others
  <2>7. (recorded \subseteq Kinds /\ removal \in BOOLEAN /\ account \in {"mine", "other", "none"})'
    BY <1>4 DEF Starts, others, RequestInv, ReportTypeOK
  <2> QED
    BY <2>1, <2>3, <2>4, <2>5, <2>6, <2>7 DEF RequestParts
<1>5. CASE Crashes
  <2>1. SessionsGoOn
    BY <1>1, <1>5, ClientTypes DEF Crashes
  <2>2. at' = "down" /\ at' \notin InHand /\ up' = FALSE
    BY <1>5 DEF Crashes, ClientCrashes, InHand, Reading
  <2>3. FilesOK'
    BY <1>1, <1>5 DEF Crashes, FilesOK, others
  <2>4. ThreadOK'
    <3>1. force' = FALSE /\ forceFlag' = FALSE /\ wake' = FALSE /\ alarm' = FALSE
      BY <1>5 DEF Crashes
    <3>2. items' = {} /\ kind' = "none" /\ id' = 0 /\ found' = {}
      BY <1>5 DEF Crashes
    <3> QED
      BY <2>2, <3>1, <3>2 DEF ThreadOK
  <2>5. (ItemsAsked /\ HeldInHand /\ RecordedInHand)'
    BY <1>5, <2>2 DEF Crashes, ItemsAsked, HeldInHand, RecordedInHand
  <2>6. (NamedAreHeld /\ DoneIsRecorded)'
    BY <1>5, <2>2 DEF Crashes, NamedAreHeld, DoneIsRecorded, RequestInv, others
  <2>7. (recorded \subseteq Kinds /\ removal \in BOOLEAN /\ account \in {"mine", "other", "none"})'
    BY <1>5 DEF Crashes, others, RequestInv, ReportTypeOK
  <2> QED
    BY <2>1, <2>3, <2>4, <2>5, <2>6, <2>7 DEF RequestParts
<1>6. CASE WrapperGoes
  <2>1. CASE (RecordSession \/ DropCheckpoint \/ Exit \/ \E s \in Sessions : Stage(s)) /\ UNCHANGED requestVars
    <3>1. SessionsGoOn
      BY <1>1, <2>1, WrapperTypes DEF WrapperStep, WrapperRuns
    <3>2. UNCHANGED up
      BY <2>1 DEF RecordSession, DropCheckpoint, Exit, Stage, client
    <3> QED
      BY <1>2, <2>1, <3>1, <3>2
  <2>2. ASSUME NEW s \in Sessions, Publish(s) /\ Woken PROVE SessionsGoOn /\ RequestParts'
    <3>1. SessionsGoOn
      BY <1>1, <2>2, WrapperTypes DEF WrapperStep, WrapperRuns
    <3>2. UNCHANGED up
      BY <2>2 DEF Publish, client
    <3> QED
      BY <1>3, <2>2, <3>1, <3>2
  <2> QED
    BY <1>6, <2>1, <2>2 DEF WrapperGoes
<1>7. CASE RecoveryGoes
  <2>1. SessionsGoOn
    BY <1>1, <1>7, ClientTypes DEF RecoveryGoes, RecoveryRuns, ClientStep, RecoveryStep
  <2>2. UNCHANGED up
    BY <1>7 DEF RecoveryGoes, RecoveryRuns, SeeRunning, SeeStopped, Look, WaitEnds, StartRecovery
  <2> QED
    BY <1>2, <1>3, <1>7, <2>1, <2>2 DEF RecoveryGoes, RecoveryRuns
<1>8. CASE (Launch \/ Die \/ \E s \in Sessions : OpenSession(s)) /\ UNCHANGED requestVars
  <2>1. SessionsGoOn
    BY <1>1, <1>8, WrapperTypes DEF WrapperStep
  <2>2. UNCHANGED up
    BY <1>8 DEF Launch, Die, OpenSession, client
  <2> QED
    BY <1>2, <1>8, <2>1, <2>2
<1>9. CASE (FiveMinutesPass \/ Review \/ StopForSecurity \/ ReadProgress) /\ UNCHANGED requestVars
  <2>1. SessionsGoOn
    BY <1>1, <1>9, ClientTypes, DeliveryTypes DEF ClientStep
  <2>2. UNCHANGED up
    BY <1>9 DEF FiveMinutesPass, Review, StopForSecurity, ReadProgress, client
  <2> QED
    BY <1>2, <1>9, <2>1, <2>2
<1>10. CASE Delivery /\ Delivers
  <2>1. SessionsGoOn
    BY <1>1, <1>10, DeliveryTypes
  <2>2. UNCHANGED up
    BY <1>10 DEF Delivery, Arrive, Acknowledge, client
  <2> QED
    BY <1>2, <1>10, <2>1, <2>2 DEF Delivers
<1>11. CASE ChangeAccount
  <2>1. SessionsGoOn /\ up' = up /\ account' \in {"mine", "other", "none"}
    BY <1>1, <1>11, SessionsStay DEF ChangeAccount, sessionVars, client
  <2>2. force' \in BOOLEAN /\ forceFlag' = TRUE /\ wake' = TRUE /\ alarm' \in BOOLEAN
    BY <1>1, <1>11 DEF ChangeAccount, ThreadOK
  <2> QED
    BY <1>11, <2>1, <2>2, RequestsStay DEF ChangeAccount, inHand, SessionsGoOn
<1>12. ASSUME NEW k \in Kinds, WriteRequest(k) PROVE SessionsGoOn /\ RequestParts'
  <2>1. SessionsGoOn /\ up' = up /\ held' = held
    BY <1>1, <1>12, SessionsStay DEF WriteRequest, sessionVars, client, evidence
  <2>2. /\ written' = [written EXCEPT ![k] = written[k] + 1]
        /\ request' = [request EXCEPT ![k] = written[k] + 1]
        /\ written[k] < MaxRequests[k]
    BY <1>1, <1>12 DEF WriteRequest, FilesOK
  <2>3. FilesOK'
    <3>1. written' \in [Kinds -> Nat] /\ request' \in [Kinds -> Nat]
      BY <1>1, <2>2 DEF FilesOK
    <3>2. kept' = kept /\ answered' = answered
      BY <1>12 DEF WriteRequest
    <3>3. ASSUME NEW j \in Kinds
          PROVE  /\ written'[j] <= MaxRequests[j]
                 /\ {request'[j], answered'[j], kept'[j].id} \subseteq 0 .. written'[j]
      BY <1>1, <2>2, <3>2 DEF FilesOK
    <3> QED
      BY <1>1, <3>1, <3>2, <3>3 DEF FilesOK
  <2>4. ThreadOK'
    <3>1. at \in InHand => id \in 1 .. written'[kind]
      BY <1>1, <2>2 DEF ThreadOK, FilesOK
    <3>2. UNCHANGED <<at, items, kind, id, found, force, forceFlag, alarm>> /\ wake' \in BOOLEAN
      BY <1>1, <1>12 DEF WriteRequest, inHand, TypeOK
    <3> QED
      BY <1>1, <2>1, <3>1, <3>2 DEF ThreadOK
  <2>5. (ItemsAsked /\ HeldInHand /\ RecordedInHand)'
    BY <1>1, <1>12, <2>2 DEF WriteRequest, inHand, ItemsAsked, HeldInHand, RecordedInHand, RequestInv,
       FilesOK, ThreadOK
  <2>6. (NamedAreHeld /\ DoneIsRecorded)'
    BY <1>12, <2>1 DEF WriteRequest, inHand, NamedAreHeld, DoneIsRecorded, RequestInv
  <2>7. (recorded \subseteq Kinds /\ removal \in BOOLEAN /\ account \in {"mine", "other", "none"})'
    BY <1>12 DEF WriteRequest, RequestInv, ReportTypeOK
  <2> QED
    BY <2>1, <2>3, <2>4, <2>5, <2>6, <2>7 DEF RequestParts
<1>13. ASSUME NEW k \in Kinds, Elapse(k) PROVE SessionsGoOn /\ RequestParts'
  <2>1. SessionsGoOn /\ up' = up /\ held' = held
    BY <1>1, <1>13, SessionsStay DEF Elapse, sessionVars, client, evidence
  <2>2. FilesOK'
    BY <1>1, <1>13 DEF Elapse, FilesOK, others
  <2>3. ThreadOK'
    BY <1>1, <1>13, <2>1 DEF Elapse, ThreadOK, others, thread, inHand, signals
  <2>4. (ItemsAsked /\ HeldInHand /\ RecordedInHand /\ NamedAreHeld /\ DoneIsRecorded)'
    BY <1>13, <2>1 DEF Elapse, others, thread, inHand, signals, ItemsAsked, HeldInHand, RecordedInHand,
       NamedAreHeld, DoneIsRecorded, RequestInv
  <2>5. (recorded \subseteq Kinds /\ removal \in BOOLEAN /\ account \in {"mine", "other", "none"})'
    BY <1>13 DEF Elapse, others, RequestInv, ReportTypeOK
  <2> QED
    BY <2>1, <2>2, <2>3, <2>4, <2>5 DEF RequestParts
<1> QED
  BY <1>4, <1>5, <1>6, <1>7, <1>8, <1>9, <1>10, <1>11, <1>12, <1>13 DEF Around

-----------------------------------------------------------------------------
(* The pass: what it looks at, what it reads, what it is answered.         *)

\* The request in hand is put back: nothing but its delivery state changes,
\* and whatever the service recorded stands.
LEMMA KeptBack ==
  ASSUME RequestInv, at \in InHand, NEW s \in [id : Nat, due : BOOLEAN, refused : BOOLEAN],
         s.id = id, Keep(s), recorded \subseteq recorded', recorded' \subseteq Kinds,
         UNCHANGED <<written, removal, account>>, alarm' \in BOOLEAN
  PROVE  RequestParts'
<1>1. FilesOK /\ ThreadOK /\ kind \in Kinds /\ id \in 1 .. written[kind]
  BY DEF RequestInv, ReportTypeOK, ThreadOK
<1>2. at' = "next" /\ at' \notin InHand /\ at # "down" /\ at' # "down"
  BY DEF Keep, InHand, Reading
<1>3. FilesOK'
  <2>1. kept' = [kept EXCEPT ![kind] = s] /\ UNCHANGED <<written, request, answered>>
    BY DEF Keep
  <2> QED
    BY <1>1, <2>1 DEF FilesOK
<1>4. ThreadOK'
  BY <1>1, <1>2 DEF Keep, ThreadOK, sessions, client, signals
<1>5. (ItemsAsked /\ HeldInHand /\ RecordedInHand /\ NamedAreHeld)'
  BY <1>2 DEF Keep, ItemsAsked, HeldInHand, RecordedInHand, NamedAreHeld, RequestInv
<1>6. DoneIsRecorded'
  BY DEF Keep, DoneIsRecorded, RequestInv
<1> QED
  BY <1>3, <1>4, <1>5, <1>6 DEF RequestParts, RequestInv, ReportTypeOK

\* The file of a request that is ticked off may go, and no other.
LEMMA TickedOff ==
  ASSUME RequestInv, NEW k \in Kinds, Choose(k), UNCHANGED <<kept, at, inHand>>, alarm' \in BOOLEAN,
         request' = request \/ request' = [request EXCEPT ![k] = 0]
  PROVE  RequestParts'
<1>1. FilesOK /\ ThreadOK /\ at = "next" /\ at \notin InHand
  BY DEF RequestInv, ReportTypeOK, Choose, InHand, Reading
<1>2. FilesOK'
  BY <1>1 DEF Choose, FilesOK, others
<1>3. ThreadOK'
  BY <1>1 DEF Choose, ThreadOK, others, inHand, sessions, client, signals
<1>4. ItemsAsked'
  BY <1>1 DEF Choose, ItemsAsked, RequestInv, FilesOK, ThreadOK
<1>5. (HeldInHand /\ RecordedInHand /\ NamedAreHeld /\ DoneIsRecorded)'
  BY <1>1 DEF Choose, HeldInHand, RecordedInHand, NamedAreHeld, DoneIsRecorded, RequestInv, others
<1>6. (recorded \subseteq Kinds /\ removal \in BOOLEAN /\ account \in {"mine", "other", "none"})'
  BY DEF Choose, others, RequestInv, ReportTypeOK
<1> QED
  BY <1>2, <1>3, <1>4, <1>5, <1>6 DEF RequestParts

LEMMA RequestLooks ==
  ASSUME RequestInv, NEW k \in Kinds,
         AlreadyAnswered(k) \/ StaysRefused(k) \/ NotDue(k) \/ WaitForAccount(k) \/ Take(k)
  PROVE  SessionsGoOn /\ RequestParts'
<1>1. TypeOK /\ SaidIsHeld /\ FilesOK /\ ThreadOK
  BY DEF RequestInv, ReportTypeOK
<1>2. SessionsGoOn
  <2>1. UNCHANGED <<sessions, progress>> /\ (faults' = faults \/ Fault)
    BY DEF AlreadyAnswered, StaysRefused, NotDue, WaitForAccount, Take, Choose
  <2> QED
    BY <1>1, <2>1, ThreadSessions DEF MayStoreProgress
<1>3. CASE AlreadyAnswered(k) \/ StaysRefused(k)
  BY <1>1, <1>2, <1>3, TickedOff DEF AlreadyAnswered, StaysRefused, ThreadOK
<1>4. CASE NotDue(k) \/ WaitForAccount(k)
  BY <1>2, <1>4, TickedOff DEF NotDue, WaitForAccount
<1>5. CASE Take(k)
  <2>1. Choose(k) /\ kind' = k /\ id' = request[k] /\ found' = {} /\ at' \in {"post", "ledger"}
        /\ (at' = "post" => k = "early") /\ UNCHANGED <<request, kept, alarm>>
    BY <1>5 DEF Take
  <2>2. at' \in InHand /\ at' # "down" /\ at = "next" /\ k \in items
    BY <2>1 DEF InHand, Reading, Choose
  <2>3. FilesOK'
    BY <1>1, <2>1 DEF Choose, FilesOK, others
  <2>4. ThreadOK'
    <3>1. id' \in 1 .. written'[kind']
      BY <1>1, <2>1, <2>2 DEF Choose, RequestInv, ItemsAsked, FilesOK, others
    <3>2. items' \subseteq Kinds /\ up' = up /\ up = TRUE
      BY <1>1, <2>1, <2>2 DEF Choose, ThreadOK, sessions, client
    <3>3. force' \in BOOLEAN /\ forceFlag' \in BOOLEAN /\ wake' \in BOOLEAN /\ alarm' \in BOOLEAN
      BY <1>1, <2>1 DEF Choose, ThreadOK, signals
    <3> QED
      BY <2>1, <2>2, <3>1, <3>2, <3>3 DEF ThreadOK
  <2>5. (ItemsAsked /\ HeldInHand /\ RecordedInHand)'
    BY <2>1 DEF Choose, RequestInv, ItemsAsked, HeldInHand, RecordedInHand
  <2>6. (NamedAreHeld /\ DoneIsRecorded)'
    BY <2>1 DEF Choose, RequestInv, NamedAreHeld, DoneIsRecorded, others
  <2>7. (recorded \subseteq Kinds /\ removal \in BOOLEAN /\ account \in {"mine", "other", "none"})'
    BY <2>1 DEF Choose, others, RequestInv, ReportTypeOK
  <2> QED
    BY <1>2, <2>3, <2>4, <2>5, <2>6, <2>7 DEF RequestParts
<1> QED
  BY <1>3, <1>4, <1>5

\* The request in hand goes on to the next place with the files as they are.
LEMMA GoesOn ==
  ASSUME RequestInv, at \in InHand, at' \in InHand,
         UNCHANGED <<request, kept, answered, written, removal, account, items, kind, id, signals, alarm, up>>,
         found' \subseteq Sessions, recorded \subseteq recorded', recorded' \subseteq Kinds, held \subseteq held',
         at' = "receipt" => kind \in recorded',
         at' \in {"drop", "ack"} => answered[kind] # 0,
         at' = "post" /\ kind = "report" => found' \subseteq held'
  PROVE  RequestParts'
<1>1. FilesOK /\ ThreadOK /\ kind \in Kinds /\ id \in 1 .. written[kind]
  BY DEF RequestInv, ReportTypeOK, ThreadOK
<1>2. FilesOK'
  BY <1>1 DEF FilesOK
<1>3. at # "down" /\ at' # "down"
  BY DEF InHand, Reading
<1>4. ThreadOK'
  BY <1>1, <1>3 DEF ThreadOK, signals
<1>5. (ItemsAsked /\ HeldInHand /\ RecordedInHand /\ NamedAreHeld)'
  BY DEF ItemsAsked, HeldInHand, RecordedInHand, NamedAreHeld, RequestInv
<1>6. DoneIsRecorded'
  BY DEF DoneIsRecorded, RequestInv
<1> QED
  BY <1>2, <1>4, <1>5, <1>6 DEF RequestParts, RequestInv, ReportTypeOK

\* A report goes to its post when what it names has a receipt here or the
\* service's word, and either says that the service holds it.
LEMMA RequestReads ==
  ASSUME RequestInv, Reads
  PROVE  SessionsGoOn /\ RequestParts'
<1>1. TypeOK /\ SaidIsHeld /\ FilesOK /\ ThreadOK
  BY DEF RequestInv, ReportTypeOK
<1>2. CASE ReadLedger \/ ScanPackages \/ ScanIncoming \/ NoneOpen \/ AllAcknowledged
  <2>1. UNCHANGED sessionVars /\ UNCHANGED <<request, kept, answered, others, items, kind, id, signals, alarm>>
    BY <1>2 DEF ReadLedger, ScanPackages, ScanIncoming, NoneOpen, AllAcknowledged, Read
  <2>2. SessionsGoOn /\ UNCHANGED <<held, up, receipts, received>>
    BY <1>1, <2>1, SessionsStay DEF sessionVars, evidence, client
  <2>3. at \in Reading /\ at' \in Reading \cup {"post"} /\ at \in InHand /\ at' \in InHand
        /\ at' \notin {"receipt", "drop", "ack"}
    BY <1>2 DEF ReadLedger, ScanPackages, ScanIncoming, NoneOpen, AllAcknowledged, Read, Reading, InHand
  <2>4. found' \subseteq Sessions
    BY <1>1, <1>2 DEF ReadLedger, ScanPackages, ScanIncoming, NoneOpen, AllAcknowledged, Read, ThreadOK, TypeOK
  <2>5. at' = "post" => found' \subseteq held'
    <3>1. CASE AllAcknowledged
      BY <1>1, <2>2, <3>1 DEF AllAcknowledged, Complete, SaidIsHeld
    <3>2. CASE ReadLedger \/ ScanPackages \/ ScanIncoming \/ NoneOpen
      BY <3>2 DEF ReadLedger, ScanPackages, ScanIncoming, NoneOpen, Read
    <3> QED
      BY <1>2, <3>1, <3>2
  <2> QED
    BY <2>1, <2>2, <2>3, <2>4, <2>5, GoesOn DEF others, RequestInv, ReportTypeOK
<1>3. CASE HoldReport
  <2>1. LookAgain /\ at \in InHand /\ UNCHANGED <<faults, progress, others>>
    BY <1>3 DEF HoldReport, InHand, Reading
  <2>2. SessionsGoOn
    BY <1>1, <2>1, ThreadSessions DEF LookAgain, Keep, MayStoreProgress
  <2>3. id \in Nat
    BY <1>1, <2>1 DEF ThreadOK, FilesOK
  <2> QED
    BY <2>1, <2>2, <2>3, KeptBack DEF LookAgain, others, RequestInv, ReportTypeOK
<1> QED
  BY <1>2, <1>3 DEF Reads

LEMMA RequestAnswers ==
  ASSUME RequestInv, Answers
  PROVE  SessionsGoOn /\ RequestParts'
<1>1. TypeOK /\ SaidIsHeld /\ FilesOK /\ ThreadOK
  BY DEF RequestInv, ReportTypeOK
<1>2. at = "post" /\ at \in InHand /\ kind \in Kinds /\ id \in Nat
  BY <1>1 DEF Answers, Accepted, NotYet, Unanswered, Refused, InHand, Reading, ThreadOK, FilesOK
<1>3. CASE Accepted
  <2>1. UNCHANGED sessions /\ MayStoreProgress /\ UNCHANGED faults /\ at' = "receipt" /\ at' \in InHand
        /\ recorded' = recorded \cup {kind} /\ UNCHANGED inHand
        /\ UNCHANGED <<request, kept, answered, written, removal, account, items, signals, alarm>>
    BY <1>3 DEF Accepted, InHand
  <2>2. SessionsGoOn /\ up' = up
    BY <1>1, <2>1, ThreadSessions DEF sessions, client
  <2>3. found' \subseteq Sessions /\ kind' = kind /\ id' = id
    BY <1>1, <2>1 DEF inHand, ThreadOK
  <2> QED
    BY <1>2, <2>1, <2>2, <2>3, GoesOn DEF SessionsGoOn, RequestInv, ReportTypeOK
<1>4. CASE NotYet
  <2>1. SessionsGoOn
    BY <1>1, <1>4, ThreadSessions DEF NotYet, LookAgain, Keep
  <2> QED
    BY <1>2, <1>4, <2>1, KeptBack DEF NotYet, LookAgain, others, RequestInv, ReportTypeOK
<1>5. CASE Unanswered
  <2>1. SessionsGoOn
    BY <1>1, <1>5, ThreadSessions DEF Unanswered, LookAgain, Keep, MayStoreProgress
  <2>2. recorded \subseteq recorded' /\ recorded' \subseteq Kinds
    BY <1>2, <1>5 DEF Unanswered, RequestInv, ReportTypeOK
  <2> QED
    BY <1>2, <1>5, <2>1, <2>2, KeptBack DEF Unanswered, LookAgain
<1>6. CASE Refused
  <2>1. SessionsGoOn
    BY <1>1, <1>6, ThreadSessions DEF Refused, Keep
  <2>2. alarm' \in BOOLEAN
    BY <1>1, <1>6 DEF Refused, ThreadOK
  <2> QED
    BY <1>2, <1>6, <2>1, <2>2, KeptBack DEF Refused, others, RequestInv, ReportTypeOK
<1> QED
  BY <1>3, <1>4, <1>5, <1>6 DEF Answers

LEMMA RequestSettles ==
  ASSUME RequestInv, Settles
  PROVE  SessionsGoOn /\ RequestParts'
<1>1. TypeOK /\ SaidIsHeld /\ FilesOK /\ ThreadOK
  BY DEF RequestInv, ReportTypeOK
<1>2. at \in {"receipt", "drop", "ack"} /\ at \in InHand /\ kind \in Kinds /\ id \in 1 .. written[kind]
      /\ id \in Nat /\ up = TRUE
  <2>1. at \in {"receipt", "drop", "ack"}
    BY DEF Settles, WriteReceipt, ReceiptNotWritten, Drop, Acknowledged
  <2>2. at \in InHand /\ at # "down"
    BY <2>1 DEF InHand
  <2>3. kind \in Kinds /\ id \in 1 .. written[kind] /\ up = TRUE
    BY <1>1, <2>2 DEF ThreadOK
  <2> QED
    BY <1>1, <2>1, <2>2, <2>3 DEF FilesOK
<1>3. CASE WriteReceipt
  <2>1. at = "receipt" /\ at' = "drop" /\ at' \in InHand /\ answered' = [answered EXCEPT ![kind] = id]
        /\ UNCHANGED sessionVars
        /\ UNCHANGED <<request, kept, others, items, inHand, signals, alarm>>
    BY <1>3 DEF WriteReceipt, InHand
  <2>2. SessionsGoOn /\ up' = up
    BY <1>1, <2>1, SessionsStay DEF sessionVars, client
  <2>3. FilesOK'
    BY <1>1, <1>2, <2>1 DEF FilesOK, others
  <2>4. ThreadOK'
    BY <1>1, <1>2, <2>1, <2>2 DEF ThreadOK, inHand, signals, others
  <2>5. (ItemsAsked /\ HeldInHand)'
    BY <1>2, <2>1 DEF ItemsAsked, HeldInHand, RequestInv, inHand
  <2>6. (RecordedInHand /\ NamedAreHeld)'
    BY <1>1, <1>2, <2>1 DEF RecordedInHand, NamedAreHeld, inHand, FilesOK
  <2>7. DoneIsRecorded'
    BY <1>1, <1>2, <2>1 DEF DoneIsRecorded, RecordedInHand, RequestInv, others, FilesOK
  <2> QED
    BY <2>1, <2>2, <2>3, <2>4, <2>5, <2>6, <2>7 DEF RequestParts, RequestInv, ReportTypeOK, others
<1>4. CASE ReceiptNotWritten
  <2>1. SessionsGoOn
    BY <1>1, <1>4, ThreadSessions DEF ReceiptNotWritten, LookAgain, Keep, MayStoreProgress
  <2> QED
    BY <1>2, <1>4, <2>1, KeptBack DEF ReceiptNotWritten, LookAgain, others, RequestInv, ReportTypeOK
<1>5. CASE Drop
  <2>1. at = "drop" /\ at' = "ack" /\ at' \in InHand /\ request' = [request EXCEPT ![kind] = 0]
        /\ kept' = [kept EXCEPT ![kind] = Fresh(0)] /\ UNCHANGED sessionVars
        /\ UNCHANGED <<answered, others, items, inHand, signals, alarm>>
    BY <1>5 DEF Drop, InHand
  <2>2. SessionsGoOn /\ up' = up
    BY <1>1, <2>1, SessionsStay DEF sessionVars, client
  <2>3. FilesOK'
    BY <1>1, <1>2, <2>1 DEF FilesOK, Fresh, others
  <2>4. ThreadOK'
    BY <1>1, <1>2, <2>1, <2>2 DEF ThreadOK, inHand, signals, others
  <2>5. (ItemsAsked /\ HeldInHand)'
    BY <1>1, <1>2, <2>1 DEF ItemsAsked, HeldInHand, RequestInv, inHand, FilesOK, ThreadOK
  <2>6. (RecordedInHand /\ NamedAreHeld)'
    BY <1>2, <2>1 DEF RecordedInHand, NamedAreHeld, inHand, RequestInv
  <2>7. DoneIsRecorded'
    BY <2>1 DEF DoneIsRecorded, RequestInv, others
  <2> QED
    BY <2>1, <2>2, <2>3, <2>4, <2>5, <2>6, <2>7 DEF RequestParts, RequestInv, ReportTypeOK, others
<1>6. CASE Acknowledged
  <2>1. at = "ack" /\ at' = "next" /\ at' \notin InHand /\ kind' = "none" /\ id' = 0 /\ found' = {}
        /\ UNCHANGED <<sessions, progress, request, kept, answered, written, recorded, account, items, signals, alarm>>
    BY <1>6 DEF Acknowledged, InHand, Reading
  <2>2. SessionsGoOn /\ up' = up
    BY <1>1, <1>6, <2>1, ThreadSessions DEF Acknowledged, MayStoreProgress, sessions, client
  <2>3. FilesOK'
    BY <1>1, <2>1 DEF FilesOK
  <2>4. ThreadOK'
    BY <1>1, <1>2, <2>1, <2>2 DEF ThreadOK, signals
  <2>5. (ItemsAsked /\ HeldInHand /\ RecordedInHand /\ NamedAreHeld)'
    BY <2>1 DEF ItemsAsked, HeldInHand, RecordedInHand, NamedAreHeld, RequestInv
  <2>6. removal' \in BOOLEAN /\ (removal' => removal \/ kind = "report")
    BY <1>6 DEF Acknowledged, RequestInv, ReportTypeOK
  <2>7. DoneIsRecorded'
    BY <2>1, <2>6 DEF DoneIsRecorded, RecordedInHand, RequestInv
  <2> QED
    BY <2>1, <2>2, <2>3, <2>4, <2>5, <2>6, <2>7 DEF RequestParts, RequestInv, ReportTypeOK
<1> QED
  BY <1>3, <1>4, <1>5, <1>6 DEF Settles

\* The ends of a delivery and of a pass, and the wake-up.
LEMMA RequestPasses ==
  ASSUME RequestInv, EndDelivery \/ EndPass \/ WakeUp
  PROVE  SessionsGoOn /\ RequestParts'
<1>1. TypeOK /\ SaidIsHeld /\ FilesOK /\ ThreadOK
  BY DEF RequestInv, ReportTypeOK
<1>2. /\ at \in {"deliver", "next", "wait"} /\ at' \in {"deliver", "next", "wait"}
      /\ at \notin InHand /\ at' \notin InHand /\ up = TRUE
  BY <1>1 DEF EndDelivery, EndPass, WakeUp, InHand, Reading, ThreadOK
<1>3. SessionsGoOn /\ up' = up
  <2>1. UNCHANGED <<sessions, progress>> /\ (faults' = faults \/ Fault)
    BY DEF EndDelivery, EndPass, WakeUp, sessionVars, sessions, progress, evidence
  <2> QED
    BY <1>1, <2>1, ThreadSessions DEF MayStoreProgress, sessions, client
<1>4. UNCHANGED <<request, kept, answered, others, inHand>>
  BY DEF EndDelivery, EndPass, WakeUp
<1>5. items' \subseteq Kinds /\ ItemsAsked'
  BY <1>1, <1>4 DEF EndDelivery, EndPass, WakeUp, ItemsAsked, RequestInv, ThreadOK
<1>6. force' \in BOOLEAN /\ forceFlag' \in BOOLEAN /\ wake' \in BOOLEAN /\ alarm' \in BOOLEAN
  BY <1>1 DEF EndDelivery, EndPass, WakeUp, ThreadOK, signals
<1>7. FilesOK'
  BY <1>1, <1>4 DEF FilesOK, others
<1>8. ThreadOK'
  BY <1>1, <1>2, <1>3, <1>4, <1>5, <1>6 DEF ThreadOK, inHand
<1>9. (HeldInHand /\ RecordedInHand /\ NamedAreHeld /\ DoneIsRecorded)'
  BY <1>2, <1>4 DEF HeldInHand, RecordedInHand, NamedAreHeld, DoneIsRecorded, RequestInv, others
<1>10. (recorded \subseteq Kinds /\ removal \in BOOLEAN /\ account \in {"mine", "other", "none"})'
  BY <1>4 DEF others, RequestInv, ReportTypeOK
<1> QED
  BY <1>3, <1>5, <1>7, <1>8, <1>9, <1>10 DEF RequestParts

LEMMA RequestStep == RequestInv /\ [ReportNext]_reportVars => RequestInv'
<1> SUFFICES ASSUME RequestInv, [ReportNext]_reportVars PROVE SessionsGoOn /\ RequestParts'
  BY DEF SessionsGoOn, RequestParts, RequestInv, ReportTypeOK
<1>1. CASE UNCHANGED reportVars
  BY <1>1, SessionsStay, RequestStays DEF reportVars, RequestInv, ReportTypeOK, sessionVars, client, SessionsGoOn
<1>2. CASE ThreadStep
  BY <1>2, RequestLooks, RequestReads, RequestAnswers, RequestSettles, RequestPasses DEF ThreadStep, Looks
<1> QED
  BY <1>1, <1>2, RequestAround DEF ReportNext

\* The requests, the sessions and the thread keep their form.
THEOREM TypeCorrect == ReportSpec => []ReportTypeOK
<1>1. RequestInv => ReportTypeOK
  BY DEF RequestInv
<1> QED
  BY <1>1, RequestInit, RequestStep, PTL DEF ReportSpec

\* A report that goes out names only sessions that the service holds whole.
THEOREM NothingNamedTooEarly == ReportSpec => []NamedAreHeld
<1>1. RequestInv => NamedAreHeld
  BY DEF RequestInv
<1> QED
  BY <1>1, RequestInit, RequestStep, PTL DEF ReportSpec

\* A receipt, and the game's removal after a report, follow the service's record.
THEOREM NothingDoneUnanswered == ReportSpec => []DoneIsRecorded
<1>1. RequestInv => DoneIsRecorded
  BY DEF RequestInv
<1> QED
  BY <1>1, RequestInit, RequestStep, PTL DEF ReportSpec

\* A request's file goes only under a receipt: a step that empties it is the
\* look at one already answered, or the drop that follows the receipt.
THEOREM RequestsOutlive == ReportSpec => RequestKept
<1>1. ASSUME RequestInv, [ReportNext]_reportVars
      PROVE  \A k \in Kinds : request[k] # 0 /\ request'[k] = 0 => answered'[k] # 0
  <2> SUFFICES ASSUME NEW k \in Kinds, request[k] # 0, request'[k] = 0 PROVE answered'[k] # 0
    OBVIOUS
  <2>1. FilesOK
    BY <1>1 DEF RequestInv, ReportTypeOK
  <2>2. request' # request
    OBVIOUS
  <2>3. ASSUME NEW j \in Kinds, AlreadyAnswered(j) PROVE answered'[k] # 0
    BY <2>1, <2>3 DEF AlreadyAnswered, Choose, FilesOK
  <2>4. CASE Drop
    BY <1>1, <2>1, <2>4 DEF Drop, FilesOK, RequestInv, RecordedInHand
  <2>5. ASSUME NEW j \in Kinds, WriteRequest(j) PROVE FALSE
    BY <2>1, <2>5 DEF WriteRequest, FilesOK
  <2>6. CASE ThreadStep
    <3>1. ASSUME NEW j \in Kinds, StaysRefused(j) \/ NotDue(j) \/ WaitForAccount(j) \/ Take(j) PROVE FALSE
      BY <2>2, <3>1 DEF StaysRefused, NotDue, WaitForAccount, Take
    <3>2. ~(Reads \/ Answers)
      BY <2>2 DEF Reads, ReadLedger, ScanPackages, ScanIncoming, NoneOpen, AllAcknowledged, Read, HoldReport,
         LookAgain, Keep, Answers, Accepted, NotYet, Unanswered, Refused
    <3>3. ~(WriteReceipt \/ ReceiptNotWritten \/ Acknowledged \/ EndDelivery \/ EndPass \/ WakeUp)
      BY <2>2 DEF WriteReceipt, ReceiptNotWritten, LookAgain, Keep, Acknowledged, EndDelivery, EndPass, WakeUp
    <3> QED
      BY <2>3, <2>4, <2>6, <3>1, <3>2, <3>3 DEF ThreadStep, Looks, Settles
  <2>7. ~(UNCHANGED reportVars \/ Starts \/ WrapperGoes \/ RecoveryGoes \/ (Delivery /\ Delivers))
    BY <2>2 DEF reportVars, requestVars, Starts, WrapperGoes, RecoveryGoes, RecoveryRuns, Woken, Delivers
  <2>8. CASE Around
    BY <2>2, <2>5, <2>8 DEF Around, Elapse, ChangeAccount, Crashes, requestVars
  <2> QED
    BY <1>1, <2>6, <2>7, <2>8 DEF ReportNext
<1> QED
  BY <1>1, RequestInit, RequestStep, PTL DEF ReportSpec, RequestKept
=============================================================================
