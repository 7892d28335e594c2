---------------------------- MODULE ReportRequests ----------------------------
(***************************************************************************)
(* The two requests of one assignment, the early completion and the        *)
(* report, from the file that hands them over to the service's answer      *)
(* written as a receipt (run_requests, shared/evidence_queue.hpp), and the *)
(* local completeness that holds a report until every session this         *)
(* computer finalized is acknowledged (local_completeness).                *)
(*                                                                         *)
(* The sessions are SessionRecovery's: the wrapper and the recovery go on  *)
(* between any two reads of the evidence thread.  A request is a number,   *)
(* 0 for none; its delivery state keeps what decides whether it is posted. *)
(***************************************************************************)
EXTENDS SessionRecovery

CONSTANT MaxRequests   \* MaxRequests[k]: bound on the requests of kind k

Kinds == {"early", "report"}

ASSUME RequestsAssumption == MaxRequests \in [Kinds -> Nat]

VARIABLES
  \* the disk
  request,    \* request[k]: the request in the file
  kept,       \* kept[k]: its delivery state
  answered,   \* answered[k]: the request the receipt names
  \* the writers, the service, the installed game, the account
  written,    \* written[k]: the requests of kind k written so far
  recorded,   \* the kinds the service holds a record of
  removal,    \* the game's removal has begun
  account,    \* who is signed in: the evaluator (mine), another, nobody
  \* the evidence thread
  at,         \* where it is
  items,      \* the kinds this pass has still to look at
  kind, id,   \* the request in hand
  found,      \* the sessions finalized here, as far as read
  force, forceFlag, wake,   \* as in EvidenceDelivery
  alarm       \* the pass left something to look at again

progress    == <<received, receiving>>
sessions    == <<records, outbox, receipts, held, hold, wrapper, client>>
others      == <<written, recorded, removal, account>>
inHand      == <<kind, id, found>>
signals     == <<force, forceFlag, wake>>
thread      == <<at, items, inHand, signals, alarm>>
requestVars == <<request, kept, answered, others, thread>>
reportVars  == <<sessionVars, requestVars>>

Fresh(i) == [id |-> i, due |-> TRUE, refused |-> FALSE]

\* The state counts only for the request it was written for.
KeptFor(k) == IF kept[k].id = request[k] THEN kept[k] ELSE Fresh(request[k])

Reading == {"ledger", "packages", "incoming", "checkpoint", "progress"}
InHand  == Reading \cup {"post", "receipt", "drop", "ack"}

FilesOK ==
  /\ written \in [Kinds -> Nat]
  /\ request \in [Kinds -> Nat] /\ answered \in [Kinds -> Nat]
  /\ kept \in [Kinds -> [id : Nat, due : BOOLEAN, refused : BOOLEAN]]
  /\ \A k \in Kinds : /\ written[k] <= MaxRequests[k]
                      /\ {request[k], answered[k], kept[k].id} \subseteq 0 .. written[k]

ThreadOK ==
  /\ at \in {"down", "deliver", "next", "wait"} \cup InHand
  /\ up = (at # "down")
  /\ items \subseteq Kinds
  /\ IF at \in InHand THEN kind \in Kinds /\ id \in 1 .. written[kind]
     ELSE kind = "none" /\ id = 0
  /\ found \subseteq Sessions
  /\ force \in BOOLEAN /\ forceFlag \in BOOLEAN
  /\ wake \in BOOLEAN /\ alarm \in BOOLEAN

ReportTypeOK ==
  /\ TypeOK /\ FilesOK /\ ThreadOK
  /\ recorded \subseteq Kinds /\ removal \in BOOLEAN
  /\ account \in {"mine", "other", "none"}

ReportInit ==
  /\ Init
  /\ request = [k \in Kinds |-> 0] /\ answered = [k \in Kinds |-> 0]
  /\ kept = [k \in Kinds |-> Fresh(0)]
  /\ written = [k \in Kinds |-> 0]
  /\ recorded = {} /\ removal = FALSE
  /\ account \in {"mine", "other", "none"}
  /\ at = "down" /\ items = {} /\ kind = "none" /\ id = 0 /\ found = {}
  /\ force = FALSE /\ forceFlag = FALSE /\ wake = FALSE /\ alarm = FALSE

-----------------------------------------------------------------------------
(* What goes on around the thread.                                         *)

\* The wrapper's early completion (hand_off_early: not once it is recorded),
\* or the Admin's report: one atomic write that replaces what was there.
WriteRequest(k) ==
  /\ written[k] < MaxRequests[k]
  /\ k = "early" => answered["early"] = 0
  /\ written' = [written EXCEPT ![k] = @ + 1]
  /\ request' = [request EXCEPT ![k] = written'[k]]
  /\ wake' = up
  /\ UNCHANGED <<sessionVars, kept, answered, recorded, removal, account, at,
                 items, inHand, force, forceFlag, alarm>>

ChangeAccount ==
  /\ up
  /\ \E a \in {"mine", "other", "none"} \ {account} : account' = a
  /\ forceFlag' = TRUE /\ wake' = TRUE
  /\ UNCHANGED <<sessionVars, request, kept, answered, written, recorded, removal,
                 at, items, inHand, force, alarm>>

\* A package is published, or a recovery is over: the event is set (it exists
\* only while the Client holds it open).
Woken == wake' = up /\ UNCHANGED <<request, kept, answered, others, at, items,
                                   inHand, force, forceFlag, alarm>>

\* run_pass(), while the thread is in it.
Delivers == at = "deliver" /\ account = "mine" /\ UNCHANGED requestVars

\* serve(): the thread's first pass is forced.
Starts ==
  /\ ClientStarts
  /\ at' = "deliver" /\ force' = TRUE
  /\ UNCHANGED <<request, kept, answered, others, items, inHand, forceFlag, wake,
                 alarm>>

\* A faulty Crashes: the request in hand outlives the process.
CrashesMidRequest ==
  /\ ClientCrashes
  /\ at' = "down" /\ items' = {}
  /\ force' = FALSE /\ forceFlag' = FALSE /\ wake' = FALSE /\ alarm' = FALSE
  /\ UNCHANGED <<request, kept, answered, others, inHand>>

Crashes ==
  /\ ClientCrashes
  /\ at' = "down" /\ items' = {} /\ kind' = "none" /\ id' = 0 /\ found' = {}
  /\ force' = FALSE /\ forceFlag' = FALSE /\ wake' = FALSE /\ alarm' = FALSE
  /\ UNCHANGED <<request, kept, answered, others>>

-----------------------------------------------------------------------------
(* run_requests(): the early completion before the report.                 *)

\* The packages went, or wait for the account, or came after the pass listed
\* them, or the delivery failed.
EndDelivery ==
  /\ at = "deliver"
  /\ \/ (outbox = {} \/ account # "mine" \/ wake) /\ UNCHANGED faults
     \/ outbox # {} /\ Fault
  /\ at' = "next"
  /\ items' = {k \in Kinds : request[k] # 0}
  /\ alarm' = (outbox # {})
  /\ UNCHANGED <<sessions, progress, request, kept, answered, others, inHand,
                 signals>>

Choose(k) ==
  /\ at = "next" /\ k \in items
  /\ k = "report" => "early" \notin items
  /\ items' = items \ {k}
  /\ UNCHANGED <<sessions, progress, answered, others, signals>>

\* The receipt is the fact: the request only goes.
AlreadyAnswered(k) ==
  /\ Choose(k) /\ answered[k] # 0
  /\ request' = [request EXCEPT ![k] = 0]
  /\ UNCHANGED <<faults, kept, at, inHand, alarm>>

StaysRefused(k) ==
  /\ Choose(k) /\ answered[k] = 0 /\ KeptFor(k).refused
  /\ UNCHANGED <<faults, request, kept, at, inHand, alarm>>

MayGo(k) == answered[k] = 0 /\ ~KeptFor(k).refused /\ (force \/ KeptFor(k).due)

\* A faulty NotDue: the pass asks for no look when it falls due.
NotDueQuietly(k) ==
  /\ Choose(k) /\ answered[k] = 0 /\ ~KeptFor(k).refused /\ ~MayGo(k)
  /\ UNCHANGED <<faults, request, kept, at, inHand, alarm>>

NotDue(k) ==
  /\ Choose(k) /\ answered[k] = 0 /\ ~KeptFor(k).refused /\ ~MayGo(k)
  /\ alarm' = TRUE
  /\ UNCHANGED <<faults, request, kept, at, inHand>>

\* Signed out, or another account signed in: no attempt, no ladder step.
WaitForAccount(k) ==
  /\ Choose(k) /\ MayGo(k) /\ account # "mine"
  /\ alarm' = TRUE
  /\ UNCHANGED <<faults, request, kept, at, inHand>>

\* The evaluator is signed in, or the ownership read got no answer.
Take(k) ==
  /\ Choose(k) /\ MayGo(k)
  /\ \/ account = "mine" /\ UNCHANGED faults
     \/ account = "other" /\ Fault
  /\ kind' = k /\ id' = request[k] /\ found' = {}
  /\ at' = IF k = "early" THEN "post" ELSE "ledger"
  /\ UNCHANGED <<request, kept, alarm>>

\* finalized_here() and local_completeness(): one read of the disk after
\* another.
Read(here, next) ==
  /\ at = here /\ at' = next
  /\ UNCHANGED <<sessionVars, request, kept, answered, others, items, kind, id,
                 signals, alarm>>

ReadLedger   == Read("ledger", "packages") /\ found' = ledger
ScanPackages == Read("packages", "incoming") /\ found' = found \cup outbox \cup receipts
ScanIncoming ==   \* those whose package.json is written
  /\ Read("incoming", "checkpoint")
  /\ \E ready \in SUBSET incoming : found' = found \cup ready
NoneOpen     == Read("checkpoint", "progress") /\ open = NoSession /\ UNCHANGED found

\* A faulty Complete: a package in the outbox counts as acknowledged.
CompleteOnceSent ==
  /\ found \subseteq receipts \cup received \cup outbox
  /\ ~receiving

\* writing_unlock(): a receipt here or the service's word for every session,
\* and none that the service is still receiving.
Complete ==
  /\ found \subseteq receipts \cup received
  /\ ~receiving

AllAcknowledged == Read("progress", "post") /\ Complete /\ UNCHANGED found

\* The request in hand waits on its delivery state: on the ladder, for this
\* computer's sessions, or refused.
Keep(s) ==
  /\ kept' = [kept EXCEPT ![kind] = s]
  /\ at' = "next" /\ kind' = "none" /\ id' = 0 /\ found' = {}
  /\ UNCHANGED <<sessions, request, answered, items, signals>>

LookAgain == Keep([id |-> id, due |-> FALSE, refused |-> FALSE]) /\ alarm' = TRUE

\* Held, looked at again in 30 seconds.
HoldReport ==
  /\ \/ at = "checkpoint" /\ open # NoSession
     \/ at = "progress" /\ ~Complete
  /\ LookAgain
  /\ UNCHANGED <<faults, progress, others>>

-----------------------------------------------------------------------------
(* The answer.                                                             *)

\* What the service asks of a request before it records it.
Acceptable ==
  IF kind = "early" THEN held # {} ELSE found \subseteq held

\* An answer may carry the assignment's progress.
MayStoreProgress == StoreProgress(outbox \ held) \/ UNCHANGED progress

\* Recorded now, or the record that stands.
Accepted ==
  /\ at = "post" /\ account = "mine"
  /\ kind \in recorded \/ Acceptable
  /\ recorded' = recorded \cup {kind}
  /\ at' = "receipt"
  /\ MayStoreProgress
  /\ UNCHANGED <<sessions, faults, request, kept, answered, written, removal, account,
                 items, inHand, signals, alarm>>

\* session_required, evidence_pending; or there was nobody to send as.
NotYet ==
  /\ at = "post"
  /\ \/ account = "mine" /\ kind \notin recorded /\ ~Acceptable
     \/ account = "none"
  /\ LookAgain
  /\ MayStoreProgress
  /\ UNCHANGED <<faults, others>>

\* A faulty Unanswered: no answer counts as the record that stands.
UnansweredStands ==
  /\ at = "post" /\ Fault
  /\ at' = "receipt"
  /\ UNCHANGED <<sessions, progress, request, kept, answered, others, items, inHand, signals,
                 alarm>>

\* No answer, or a transient one.  The record may be there all the same.
Unanswered ==
  /\ at = "post" /\ Fault
  /\ \/ UNCHANGED recorded
     \/ account = "mine" /\ Acceptable /\ recorded' = recorded \cup {kind}
  /\ LookAgain
  /\ UNCHANGED <<progress, written, removal, account>>

\* Not eligible, malformed, or not this account's: kept as refused.
Refused ==
  /\ at = "post" /\ account # "none"
  /\ account = "mine" => kind \notin recorded
  /\ Keep([id |-> id, due |-> TRUE, refused |-> TRUE])
  /\ MayStoreProgress
  /\ UNCHANGED <<faults, others, alarm>>

WriteReceipt ==
  /\ at = "receipt"
  /\ answered' = [answered EXCEPT ![kind] = id]
  /\ at' = "drop"
  /\ UNCHANGED <<sessionVars, request, kept, others, items, inHand, signals, alarm>>

\* A faulty ReceiptNotWritten: the request goes all the same.
ReceiptIgnored ==
  /\ at = "receipt" /\ Fault
  /\ at' = "drop"
  /\ UNCHANGED <<sessions, progress, request, kept, answered, others, items, inHand, signals,
                 alarm>>

ReceiptNotWritten ==
  /\ at = "receipt" /\ Fault
  /\ LookAgain
  /\ UNCHANGED <<progress, others>>

\* The request file goes (whichever request is in it now), and its state.
Drop ==
  /\ at = "drop"
  /\ request' = [request EXCEPT ![kind] = 0]
  /\ kept' = [kept EXCEPT ![kind] = Fresh(0)]
  /\ at' = "ack"
  /\ UNCHANGED <<sessionVars, answered, others, items, inHand, signals, alarm>>

\* on_ack: an acknowledged report begins the game's removal.
Acknowledged ==
  /\ at = "ack"
  /\ \/ removal' = (removal \/ kind = "report") /\ UNCHANGED faults
     \/ kind = "report" /\ Fault /\ UNCHANGED removal
  /\ at' = "next" /\ kind' = "none" /\ id' = 0 /\ found' = {}
  /\ UNCHANGED <<sessions, progress, request, kept, answered, written, recorded,
                 account, items, signals, alarm>>

-----------------------------------------------------------------------------
EndPass ==
  /\ at = "next" /\ items = {}
  /\ at' = "wait" /\ force' = FALSE
  /\ UNCHANGED <<sessionVars, request, kept, answered, others, items, inHand,
                 forceFlag, wake, alarm>>

WakeUp ==
  /\ at = "wait" /\ (wake \/ alarm)
  /\ at' = "deliver"
  /\ wake' = FALSE /\ alarm' = FALSE
  /\ force' = forceFlag /\ forceFlag' = FALSE
  /\ UNCHANGED <<sessionVars, request, kept, answered, others, items, inHand>>

Elapse(k) ==
  /\ ~kept[k].due
  /\ kept' = [kept EXCEPT ![k].due = TRUE]
  /\ UNCHANGED <<sessionVars, request, answered, others, thread>>

-----------------------------------------------------------------------------
Looks == \E k \in Kinds : \/ AlreadyAnswered(k) \/ StaysRefused(k) \/ NotDue(k)
                          \/ WaitForAccount(k) \/ Take(k)

Reads == \/ ReadLedger \/ ScanPackages \/ ScanIncoming \/ NoneOpen
         \/ AllAcknowledged \/ HoldReport

Answers == Accepted \/ NotYet \/ Unanswered \/ Refused

Settles == WriteReceipt \/ ReceiptNotWritten \/ Drop \/ Acknowledged

ThreadStep == EndDelivery \/ Looks \/ Reads \/ Answers \/ Settles \/ EndPass \/ WakeUp

\* on_done: a recovery that ended, or could not be started, wakes the thread.
RecoveryRuns ==
  \/ WaitEnds /\ Woken
  \/ StartRecovery /\ IF run' = "none" THEN Woken ELSE UNCHANGED requestVars

RecoveryGoes ==
  \/ (SeeRunning \/ SeeStopped) /\ UNCHANGED requestVars
  \/ Look /\ UNCHANGED requestVars
  \/ RecoveryRuns

Around ==
  \/ \E k \in Kinds : WriteRequest(k) \/ Elapse(k)
  \/ ChangeAccount \/ Crashes
  \/ (Launch \/ Die \/ \E s \in Sessions : OpenSession(s)) /\ UNCHANGED requestVars
  \/ (FiveMinutesPass \/ Review \/ StopForSecurity \/ ReadProgress)
       /\ UNCHANGED requestVars

WrapperGoes ==
  \/ (RecordSession \/ DropCheckpoint \/ Exit \/ \E s \in Sessions : Stage(s))
       /\ UNCHANGED requestVars
  \/ \E s \in Sessions : Publish(s) /\ Woken

ReportNext ==
  \/ ThreadStep \/ Starts \/ WrapperGoes \/ RecoveryGoes \/ Around
  \/ Delivery /\ Delivers

ReportSpec == ReportInit /\ [][ReportNext]_reportVars

\* As in SessionRecovery and EvidenceDelivery: wrappers, the Client's threads
\* and its timers run, and the Client is started again.
ReportFairSpec ==
  /\ ReportSpec
  /\ WF_reportVars(ThreadStep) /\ WF_reportVars(Delivery /\ Delivers)
  /\ WF_reportVars(Starts) /\ WF_reportVars(WrapperGoes)
  /\ WF_reportVars((SeeRunning \/ SeeStopped) /\ UNCHANGED requestVars)
  /\ WF_reportVars(Look /\ UNCHANGED requestVars)
  /\ WF_reportVars(RecoveryRuns)
  /\ \A k \in Kinds : WF_reportVars(Elapse(k))

-----------------------------------------------------------------------------
(* Properties.                                                             *)

\* A report goes out naming only sessions the service holds whole, whatever was
\* delivered, opened or killed while the check read the disk.
NamedAreHeld == at = "post" /\ kind = "report" => found \subseteq held

\* "nothing is reported done without the service's answer" (evaluation_
\* evidence.hpp:882): a receipt, and the game's removal, follow a record.
DoneIsRecorded ==
  /\ \A k \in Kinds : answered[k] # 0 => k \in recorded
  /\ removal => answered["report"] # 0

\* A request file goes only under a receipt, through crashes and failed writes.
RequestKept ==
  [][\A k \in Kinds : request[k] # 0 /\ request'[k] = 0 => answered'[k] # 0]_reportVars

\* With the evaluator signed in for good, and no handoff dead while staging, a
\* report is accepted or refused in the end: held for this computer's sessions
\* it is looked at again, and the recovery finishes the sessions.
EventuallyAnswered ==
  <>[](account = "mine" /\ incoming = {})
    => [](request["report"] # 0
            => <>(request["report"] = 0 \/ KeptFor("report").refused))
=============================================================================
