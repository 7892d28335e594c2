--------------------------- MODULE EvidenceDelivery ---------------------------
(***************************************************************************)
(* The delivery of evaluation evidence: the wrapper's handoff of a session *)
(* package (virule_core evaluation_evidence.hpp), the Client's evidence    *)
(* thread and its pass over the outbox (shared/evidence_queue.hpp), the    *)
(* account that is signed in (client/evidence_owner.hpp), and the service  *)
(* as the Client sees it.                                                  *)
(*                                                                         *)
(* Three processes interleave: the wrapper, the evidence thread and the    *)
(* account.  A step of a process is one look at, or one change of, what    *)
(* the others can see: a file-system operation, a service call, the wake   *)
(* event.  Every crash, unanswered call and damaged file spends one unit   *)
(* of the MaxFaults budget.                                                *)
(*                                                                         *)
(* Data is abstracted to what the properties tell apart: a capture is a    *)
(* model value, the time of the next attempt is "due" or "not due", and    *)
(* the consecutive failures saturate at the ladder's last step, where the  *)
(* delay stops growing.                                                    *)
(***************************************************************************)
EXTENDS Naturals

CONSTANTS
  Packages,      \* package ids; one package per finished session
  Captures,      \* the frames a session recorded
  Head,          \* package.json, itself the first file of every package
  Accounts,      \* accounts that may sign in on this computer
  NoAccount,     \* nobody is signed in
  EvaluatorOf,   \* EvaluatorOf[p]: the account whose evidence p is
  LadderSteps,   \* the number of steps of the retry ladder
  MaxFaults,     \* bound on crashes, lost answers, damage and failed writes
  NoPackage      \* no package is being worked on

ASSUME EvaluatorAssumption == EvaluatorOf \in [Packages -> Accounts]
ASSUME NoAccountAssumption == NoAccount \notin Accounts
ASSUME HeadAssumption == Head \notin Captures
ASSUME LadderAssumption == LadderSteps \in Nat \ {0}
ASSUME FaultsAssumption == MaxFaults \in Nat
ASSUME NoPackageAssumption == NoPackage \notin Packages

Files == Captures \cup {Head}

\* ---- the delivery state of one package, delivery\<id>.json

Reasons == {"", "signed_out", "other_account", "offline", "refused"}

State == [state    : {"waiting", "sending"},
          reason   : Reasons,
          failures : 0 .. LadderSteps,
          due      : BOOLEAN,
          damaged  : BOOLEAN,
          acked    : SUBSET Files]

\* What load_state() answers when there is no such file.
FreshState == [state |-> "waiting", reason |-> "", failures |-> 0,
               due |-> TRUE, damaged |-> FALSE, acked |-> {}]

VARIABLES
  \* the disk
  source,      \* source[p]: frames still in the session's captures folder
  incoming,    \* incoming[p]: frames already moved into .incoming\<p>
  staging,     \* packages whose .incoming directory exists
  outbox,      \* packages whose outbox directory exists
  listed,      \* listed[p]: the frames outbox\<p>\package.json lists
  older,       \* <<p, q>>: p's directory was created before q's
  receipts,    \* packages with a receipt
  covered,     \* covered[p]: the files p's receipt covers
  delivery,    \* delivery[p]: the saved State (FreshState: no file)
  broken,      \* broken[p]: files of outbox\<p> that do not verify now
  \* the wrapper
  hand,        \* the handoff in progress
  \* the account and the service
  account,     \* the signed-in account
  changed,     \* the account changed and its callback has not run yet
  held,        \* held[p]: the files of p the service holds
  \* the evidence thread
  phase,       \* where the thread is
  force,       \* this pass ignores next_attempt
  forceFlag,   \* forced_pass_flag()
  wake,        \* the auto-reset event VIRULE.Evidence.Wake
  alarm,       \* the pass left something to look at again
  todo,        \* outbox packages this pass has still to look at
  cur,         \* the package being delivered or cleaned
  st,          \* its State in memory
  before,      \* the files acknowledged before this attempt
  registered,  \* package.json was answered in this attempt
  \* the environment's budget
  faults

frames  == <<source, incoming, staging, listed, older>>   \* only the wrapper's
settled == <<receipts, covered>>
disk    == <<frames, outbox, settled, delivery, broken>>
session == <<account, changed>>
signals == <<force, forceFlag, wake>>
attempt == <<cur, st, before, registered>>
thread  == <<phase, signals, alarm, todo, attempt>>
vars    == <<disk, hand, session, held, thread, faults>>

Listed(p) == listed[p] \cup {Head}

\* No handoff in progress.
Idle == [step |-> "idle", pkg |-> NoPackage]

Phases == {"down", "head", "pick", "offer", "receipt", "remove", "forget",
           "wait"}

\* The phases in which one package is being worked on.
Working == {"offer", "receipt", "remove", "forget"}

TypeOK ==
  /\ source \in [Packages -> SUBSET Captures]
  /\ incoming \in [Packages -> SUBSET Captures]
  /\ staging \subseteq Packages
  /\ outbox \subseteq Packages
  /\ listed \in [Packages -> SUBSET Captures]
  /\ older \subseteq Packages \X Packages
  /\ receipts \subseteq Packages
  /\ covered \in [Packages -> SUBSET Files]
  /\ delivery \in [Packages -> State]
  /\ broken \in [Packages -> SUBSET Files]
  /\ hand \in {Idle} \cup [step : {"outbox", "stage", "signal"}, pkg : Packages]
  /\ account \in Accounts \cup {NoAccount}
  /\ changed \in BOOLEAN
  /\ held \in [Packages -> SUBSET Files]
  /\ phase \in Phases
  /\ force \in BOOLEAN /\ forceFlag \in BOOLEAN
  /\ wake \in BOOLEAN /\ alarm \in BOOLEAN
  /\ todo \subseteq Packages
  /\ cur \in IF phase \in Working THEN Packages ELSE {NoPackage}
  /\ st \in State
  /\ before \subseteq Files
  /\ registered \in BOOLEAN
  /\ faults \in 0 .. MaxFaults

Init ==
  /\ source = [p \in Packages |-> Captures]
  /\ incoming = [p \in Packages |-> {}]
  /\ staging = {} /\ outbox = {}
  /\ listed = [p \in Packages |-> {}]
  /\ older = {}
  /\ receipts = {} /\ covered = [p \in Packages |-> {}]
  /\ delivery = [p \in Packages |-> FreshState]
  /\ broken = [p \in Packages |-> {}]
  /\ hand = Idle
  /\ account \in Accounts \cup {NoAccount}
  /\ changed = FALSE
  /\ held = [p \in Packages |-> {}]
  /\ phase = "down"
  /\ force = FALSE /\ forceFlag = FALSE /\ wake = FALSE /\ alarm = FALSE
  /\ todo = {} /\ cur = NoPackage /\ st = FreshState
  /\ before = {} /\ registered = FALSE
  /\ faults = 0

Fault == faults < MaxFaults /\ faults' = faults + 1

-----------------------------------------------------------------------------
(* The wrapper: handoff() of one package at a time.  It may be asked for   *)
(* the same package again at any time (the wrapper's own recovery).        *)

CheckReceipt(p) ==
  /\ hand = Idle
  /\ p \notin receipts
  /\ hand' = [step |-> "outbox", pkg |-> p]
  /\ UNCHANGED <<disk, session, held, thread, faults>>

\* A faulty CheckOutbox: an interrupted handoff is started afresh.
CheckOutboxAfresh ==
  LET p == hand.pkg IN
  /\ hand.step = "outbox" /\ p \notin outbox
  /\ hand' = [hand EXCEPT !.step = "stage"]
  /\ staging' = staging \cup {p}
  /\ incoming' = [incoming EXCEPT ![p] = {}]
  /\ UNCHANGED <<source, outbox, listed, older, settled, delivery, broken,
                 session, held, thread, faults>>

\* AlreadyHandedOff, or .incoming\<p> is created (unless a handoff that died
\* left it there).
CheckOutbox ==
  LET p == hand.pkg IN
  /\ hand.step = "outbox"
  /\ \/ /\ p \in outbox
        /\ hand' = Idle
        /\ UNCHANGED disk
     \/ /\ p \notin outbox
        /\ hand' = [hand EXCEPT !.step = "stage"]
        /\ staging' = staging \cup {p}
        /\ older' = IF p \in staging THEN older
                    ELSE {o \in older : p \notin {o[1], o[2]}}
                         \cup ((Packages \ {p}) \X {p})
        /\ UNCHANGED <<source, incoming, outbox, listed, settled, delivery,
                       broken>>
  /\ UNCHANGED <<session, held, thread, faults>>

StageFrame ==
  LET p == hand.pkg IN
  /\ hand.step = "stage"
  /\ \E c \in source[p] :
       /\ source' = [source EXCEPT ![p] = @ \ {c}]
       /\ incoming' = [incoming EXCEPT ![p] = @ \cup {c}]
  /\ UNCHANGED <<staging, outbox, listed, older, settled, delivery, broken,
                 hand, session, held, thread, faults>>

\* package.json lists the frames that are there; a frame that could not be
\* moved is a gap in it.  Then the one rename.
Publish ==
  LET p == hand.pkg IN
  /\ hand.step = "stage"
  /\ \/ source[p] = {} /\ UNCHANGED faults
     \/ source[p] # {} /\ Fault
  /\ listed' = [listed EXCEPT ![p] = incoming[p]]
  /\ incoming' = [incoming EXCEPT ![p] = {}]
  /\ staging' = staging \ {p}
  /\ outbox' = outbox \cup {p}
  /\ broken' = [broken EXCEPT ![p] = {}]
  /\ hand' = [hand EXCEPT !.step = "signal"]
  /\ UNCHANGED <<source, older, settled, delivery, session, held, thread>>

\* The event exists only while the Client holds it open: a signal with no
\* Client is gone with the wrapper's handle.
SignalWake ==
  /\ hand.step = "signal"
  /\ hand' = Idle
  /\ wake' = (phase # "down")
  /\ UNCHANGED <<disk, session, held, phase, force, forceFlag, alarm, todo,
                 attempt, faults>>

WrapperDies ==
  /\ hand # Idle
  /\ Fault
  /\ hand' = Idle
  /\ UNCHANGED <<disk, session, held, thread>>

-----------------------------------------------------------------------------
(* The evidence thread: run_driver() and run_pass().                       *)

EndOfTurn ==
  /\ phase' = "pick" /\ cur' = NoPackage /\ st' = FreshState
  /\ before' = {} /\ registered' = FALSE

\* A faulty Start: the first pass is like any other.
StartUnforced ==
  /\ phase = "down"
  /\ phase' = "head"
  /\ UNCHANGED <<disk, hand, session, held, signals, alarm, todo, attempt, faults>>

\* serve() starts the thread, whose first pass is forced.
Start ==
  /\ phase = "down"
  /\ phase' = "head" /\ force' = TRUE
  /\ UNCHANGED <<disk, hand, session, held, forceFlag, wake, alarm, todo,
                 attempt, faults>>

Crash ==
  /\ phase # "down"
  /\ Fault
  /\ phase' = "down"
  /\ force' = FALSE /\ forceFlag' = FALSE /\ wake' = FALSE /\ alarm' = FALSE
  /\ changed' = FALSE /\ todo' = {} /\ cur' = NoPackage /\ st' = FreshState
  /\ before' = {} /\ registered' = FALSE
  /\ UNCHANGED <<disk, hand, account, held>>

BeginPass ==
  /\ phase = "head"
  /\ phase' = "pick"
  /\ force' = (force \/ forceFlag) /\ forceFlag' = FALSE
  /\ todo' = outbox /\ alarm' = FALSE
  /\ UNCHANGED <<disk, hand, session, held, wake, attempt, faults>>

\* Oldest package first.
Turn(p) ==
  /\ phase = "pick" /\ p \in todo
  /\ \A q \in todo : <<q, p>> \notin older
  /\ todo' = todo \ {p}
  /\ UNCHANGED <<hand, session, held, signals>>

\* The receipt is the fact: only the payload's removal is left.
FoundReceipt(p) ==
  /\ Turn(p) /\ p \in receipts
  /\ phase' = "remove" /\ cur' = p
  /\ UNCHANGED <<disk, alarm, st, before, registered, faults>>

NotDue(p) ==
  /\ Turn(p) /\ p \notin receipts
  /\ ~force /\ ~delivery[p].due
  /\ alarm' = TRUE
  /\ UNCHANGED <<disk, phase, attempt, faults>>

LooksAt(p) == Turn(p) /\ p \notin receipts /\ (force \/ delivery[p].due)

Whole(p) == broken[p] \cap Listed(p) = {}

\* The ladder's step after one more failure; the faulty one runs off its end.
NextFailureUnclamped(n) == n + 1
NextFailure(n) == IF n < LadderSteps THEN n + 1 ELSE n

\* Kept, never deleted, checked again on the ladder.
KeepDamaged(p) ==
  /\ LooksAt(p) /\ ~Whole(p)
  /\ delivery' = [delivery EXCEPT ![p] =
       [delivery[p] EXCEPT !.state = "waiting", !.reason = "",
                            !.failures = NextFailure(@), !.due = FALSE,
                            !.damaged = TRUE]]
  /\ alarm' = TRUE
  /\ UNCHANGED <<frames, outbox, settled, broken, phase, attempt, faults>>

\* Signed out, or another account signed in: no attempt, no failure.  (The
\* code leaves the file alone when nothing in it would change.)
WaitForAccount(p) ==
  /\ LooksAt(p) /\ Whole(p)
  /\ account # EvaluatorOf[p]
  /\ delivery' = [delivery EXCEPT ![p] =
       [delivery[p] EXCEPT !.state = "waiting",
          !.reason = IF account = NoAccount THEN "signed_out"
                     ELSE "other_account",
          !.due = TRUE, !.damaged = FALSE]]
  /\ alarm' = TRUE
  /\ UNCHANGED <<frames, outbox, settled, broken, phase, attempt, faults>>

\* The attempt is saved as it starts.  Another account's package goes too
\* when its owner could not be decided (the ticket read got no answer).
StartAttempt(p) ==
  /\ LooksAt(p) /\ Whole(p)
  /\ \/ account = EvaluatorOf[p] /\ UNCHANGED faults
     \/ account \notin {EvaluatorOf[p], NoAccount} /\ Fault
  /\ LET s == [delivery[p] EXCEPT !.state = "sending", !.reason = "",
                                   !.damaged = FALSE,
                                   !.acked = @ \cap Listed(p)]
     IN /\ st' = s /\ before' = s.acked
        /\ delivery' = [delivery EXCEPT ![p] = s]
  /\ phase' = "offer" /\ cur' = p /\ registered' = FALSE
  /\ UNCHANGED <<frames, outbox, settled, broken, alarm>>

\* A faulty Save: the failed package asks for no later look.
SaveQuietly(s) ==
  /\ delivery' = [delivery EXCEPT ![cur] = s]
  /\ EndOfTurn
  /\ UNCHANGED <<frames, outbox, settled, broken, hand, session, signals, alarm,
                 todo>>

\* The end of an attempt without a receipt.
Save(s) ==
  /\ delivery' = [delivery EXCEPT ![cur] = s]
  /\ alarm' = TRUE
  /\ EndOfTurn
  /\ UNCHANGED <<frames, outbox, settled, broken, hand, session, signals,
                 todo>>

AttemptFails(why) ==
  Save([st EXCEPT !.state = "waiting", !.reason = why, !.due = FALSE,
                  !.failures = IF st.acked # before THEN 1
                               ELSE NextFailure(@)])

\* deliver() found nobody signed in: a wait, never a failure.
Unavailable ==
  /\ phase = "offer" /\ ~registered /\ account = NoAccount
  /\ Save([st EXCEPT !.state = "waiting", !.reason = "signed_out",
                     !.due = TRUE])
  /\ UNCHANGED <<held, faults>>

\* package.json always, then each file not acknowledged yet.
NextFile(f) ==
  IF registered THEN f \in Listed(cur) \ (st.acked \cup {Head}) ELSE f = Head

Offer(f) == phase = "offer" /\ NextFile(f)

\* The service stores a file offered under the evaluator's own account that
\* matches its hash, answers all it holds, and completes when that is all.
Acknowledged(f) ==
  /\ Offer(f)
  /\ account = EvaluatorOf[cur] /\ f \notin broken[cur]
  /\ held' = [held EXCEPT ![cur] = @ \cup {f}]
  /\ st' = [st EXCEPT !.acked = @ \cup (held'[cur] \cap Listed(cur))]
  /\ delivery' = [delivery EXCEPT ![cur] = st']
  /\ registered' = TRUE
  /\ \/ /\ Listed(cur) \subseteq held'[cur]
        /\ phase' = "receipt" /\ UNCHANGED faults
     \/ /\ ~(Listed(cur) \subseteq held'[cur])
        /\ UNCHANGED <<phase, faults>>
     \/ /\ Listed(cur) \subseteq held'[cur]   \* not said to be complete yet
        /\ Fault /\ UNCHANGED phase
  /\ UNCHANGED <<frames, outbox, settled, broken, hand, session, signals,
                 alarm, todo, cur, before>>

\* A faulty Unanswered: the file counts as acknowledged.
UnansweredCounts(f) ==
  /\ Offer(f)
  /\ Fault
  /\ Save([st EXCEPT !.state = "waiting", !.due = FALSE, !.acked = @ \cup {f}])
  /\ UNCHANGED held

\* No answer, or a transient one.  The file may be stored all the same.
Unanswered(f) ==
  /\ Offer(f)
  /\ Fault
  /\ \/ UNCHANGED held
     \/ /\ account = EvaluatorOf[cur] /\ f \notin broken[cur]
        /\ held' = [held EXCEPT ![cur] = @ \cup {f}]
  /\ \E why \in {"offline", ""} : AttemptFails(why)

\* The account is read again for every call (transfer_headers): signed out
\* there is no call, and another account is refused.
NotAuthorized(f) ==
  /\ Offer(f)
  /\ account # EvaluatorOf[cur]
  /\ AttemptFails(IF account = NoAccount THEN "offline" ELSE "refused")
  /\ UNCHANGED <<held, faults>>

\* The file cannot be read any more, or the service refuses its hash.
Unreadable(f) ==
  /\ Offer(f)
  /\ f \in broken[cur]
  /\ \E why \in {"", "refused"} : AttemptFails(why)
  /\ UNCHANGED <<held, faults>>

\* Every file was answered and none of the answers was complete.
PartialAnswer ==
  /\ phase = "offer" /\ registered
  /\ Listed(cur) \subseteq st.acked
  /\ AttemptFails("")
  /\ UNCHANGED <<held, faults>>

\* acknowledge(): the receipt, durably ...
WriteReceipt ==
  /\ phase = "receipt"
  /\ receipts' = receipts \cup {cur}
  /\ covered' = [covered EXCEPT ![cur] = Listed(cur)]
  /\ phase' = "remove"
  /\ UNCHANGED <<frames, outbox, delivery, broken, hand, session, held,
                 signals, alarm, todo, attempt, faults>>

\* A faulty ReceiptNotWritten: the payload goes all the same.
ReceiptIgnored ==
  /\ phase = "receipt"
  /\ Fault
  /\ phase' = "remove"
  /\ UNCHANGED <<disk, hand, session, held, signals, alarm, todo, attempt>>

ReceiptNotWritten ==
  /\ phase = "receipt"
  /\ Fault
  /\ AttemptFails("")
  /\ UNCHANGED held

\* ... then the payload; remove_all() may stop halfway ...
RemovePayload ==
  /\ phase = "remove"
  /\ \/ /\ outbox' = outbox \ {cur}
        /\ broken' = [broken EXCEPT ![cur] = {}]
        /\ UNCHANGED faults
     \/ /\ Fault
        /\ broken' = [broken EXCEPT ![cur] = Listed(cur)]
        /\ UNCHANGED outbox
  /\ phase' = "forget"
  /\ UNCHANGED <<frames, settled, delivery, hand, session, held, signals,
                 alarm, todo, attempt>>

\* ... then the delivery state.
Forget ==
  /\ phase = "forget"
  /\ delivery' = [delivery EXCEPT ![cur] = FreshState]
  /\ EndOfTurn
  /\ UNCHANGED <<frames, outbox, settled, broken, hand, session, held, signals,
                 alarm, todo, faults>>

\* Delivery state whose package left the outbox is stale.
EndPass ==
  /\ phase = "pick" /\ todo = {}
  /\ delivery' = [p \in Packages |-> IF p \in outbox THEN delivery[p]
                                     ELSE FreshState]
  /\ phase' = "wait" /\ force' = FALSE
  /\ UNCHANGED <<frames, outbox, settled, broken, hand, session, held,
                 forceFlag, wake, alarm, todo, attempt, faults>>

WakeUp ==
  /\ phase = "wait" /\ wake
  /\ phase' = "head" /\ wake' = FALSE
  /\ UNCHANGED <<disk, hand, session, held, force, forceFlag, alarm, todo,
                 attempt, faults>>

\* The wait is finite only when the pass left something to look at again.
Timeout ==
  /\ phase = "wait" /\ alarm
  /\ phase' = "head"
  /\ UNCHANGED <<disk, hand, session, held, signals, alarm, todo, attempt,
                 faults>>

-----------------------------------------------------------------------------
(* The account and the environment.                                        *)

\* A sign-in or a sign-out: the Client's own, so only while it runs.
ChangeAccount ==
  /\ phase # "down"
  /\ \E a \in (Accounts \cup {NoAccount}) \ {account} : account' = a
  /\ changed' = TRUE
  /\ UNCHANGED <<disk, hand, held, thread, faults>>

\* g_on_account_changed: the flag, then the event. A sign-in calls it after the
\* account's lock is released, a sign-out under it.
NotifyDelivery ==
  /\ changed
  /\ changed' = FALSE /\ forceFlag' = TRUE /\ wake' = TRUE
  /\ UNCHANGED <<disk, hand, account, held, phase, force, alarm, todo, attempt,
                 faults>>

\* next_attempt_utc passes.
Elapse(p) ==
  /\ p # cur /\ ~delivery[p].due
  /\ delivery' = [delivery EXCEPT ![p].due = TRUE]
  /\ UNCHANGED <<frames, outbox, settled, broken, hand, session, held, thread,
                 faults>>

Break(p) ==
  /\ p \in outbox
  /\ Fault
  /\ \E f \in Listed(p) : broken' = [broken EXCEPT ![p] = @ \cup {f}]
  /\ UNCHANGED <<frames, outbox, settled, delivery, hand, session, held,
                 thread>>

\* It was a transient read failure.
Heal(p) ==
  /\ broken[p] # {}
  /\ broken' = [broken EXCEPT ![p] = {}]
  /\ UNCHANGED <<frames, outbox, settled, delivery, hand, session, held,
                 thread, faults>>

-----------------------------------------------------------------------------
Wrapper ==
  \/ \E p \in Packages : CheckReceipt(p)
  \/ CheckOutbox \/ StageFrame \/ Publish \/ SignalWake \/ WrapperDies

Pass ==
  \/ \E p \in Packages : \/ FoundReceipt(p) \/ NotDue(p) \/ KeepDamaged(p)
                         \/ WaitForAccount(p) \/ StartAttempt(p)
  \/ Unavailable \/ PartialAnswer
  \/ \E f \in Files : \/ Acknowledged(f) \/ Unanswered(f) \/ NotAuthorized(f)
                      \/ Unreadable(f)
  \/ WriteReceipt \/ ReceiptNotWritten \/ RemovePayload \/ Forget \/ EndPass

Thread == Start \/ BeginPass \/ Pass \/ WakeUp \/ Timeout

Environment ==
  \/ Crash \/ ChangeAccount \/ NotifyDelivery
  \/ \E p \in Packages : Elapse(p) \/ Break(p) \/ Heal(p)

Next == Wrapper \/ Thread \/ Environment

Spec == Init /\ [][Next]_vars

\* The Client is started again (VIRULE Service, the next sign-in), its thread
\* runs, its timers and the account callback fire, and a wrapper that renamed
\* a package and lives signals the event.
Fairness ==
  /\ WF_vars(Thread) /\ WF_vars(NotifyDelivery) /\ WF_vars(SignalWake)
  /\ \A p \in Packages : WF_vars(Elapse(p))

FairSpec == Spec /\ Fairness

-----------------------------------------------------------------------------
(* Properties.                                                             *)

\* The saved acknowledgments never run ahead of the service: a file the
\* Client will not offer again is a file the service holds, whatever answer
\* was lost and whenever the Client died (run_pass, on_acked).
AckedIsHeld ==
  /\ \A p \in Packages : delivery[p].acked \subseteq held[p]
  /\ phase \in {"offer", "receipt"} => st.acked \subseteq held[cur]

\* A frame is somewhere on this computer until the package has its receipt:
\* in the captures folder, in .incoming or in the package, through any number
\* of interrupted handoffs (stage, publish).
FramesKept ==
  \A p \in Packages : p \notin receipts =>
    source[p] \cup incoming[p] \cup (IF p \in outbox THEN listed[p] ELSE {})
      = Captures

\* A package's directory is in .incoming or in the outbox, never in both: the
\* rename in publish() has one target, and the Client never meets a package
\* the wrapper still writes to.
OneDirectory == staging \cap outbox = {}

\* When the thread rests, no package it knows of is still reported as being
\* sent: the restart's forced pass rewrites what a killed attempt left.
NoStaleSending ==
  phase = "wait" =>
    \A p \in outbox \ receipts : delivery[p].state = "waiting"

\* The thread's bookkeeping within a pass.  The package it works on, and those
\* it has still to look at, are in the outbox; while it offers one, nobody else
\* settles it; it removes a payload only under a receipt.
OneAtATime ==
  /\ todo \subseteq outbox /\ cur \notin todo
  /\ phase \in {"offer", "receipt"} => cur \in outbox \ receipts
  /\ phase \in {"remove", "forget"} => cur \in receipts

\* A receipt is about to be written only for a package the service holds whole,
\* and a handoff is staged in a directory that is there.
Earned == phase = "receipt" => Listed(cur) \subseteq held[cur]
Staged == hand.step = "stage" => hand.pkg \in staging

\* The inductive invariant.
IInv ==
  /\ TypeOK /\ OneAtATime /\ Earned /\ Staged /\ OneDirectory
  /\ AckedIsHeld /\ FramesKept

\* Where an attempt may stand as being sent: it is the one being made, or the
\* Client is down, or the forced pass of the restart has still to look at it.
MayBeSending(p) ==
  /\ p \in outbox
  /\ \/ p = cur
     \/ phase = "down"
     \/ phase # "wait" /\ force /\ (phase = "head" \/ p \in todo)

\* The strengthening of NoStaleSending that every step keeps, next to IInv.
Resumed ==
  \A p \in Packages \ receipts :
    delivery[p].state = "sending" => MayBeSending(p)

\* What the hand-over promises (EvidenceCustody): custody only moves wrapper,
\* Client, service; the service takes it holding every listed file; nothing
\* is sent before the handoff or after the receipt; nothing undelivered is
\* ever removed.
custodyBar ==
  [p \in Packages |-> IF p \in receipts THEN "service"
                     ELSE IF p \in outbox THEN "client" ELSE "wrapper"]

manifestBar ==
  [p \in Packages |-> IF p \in receipts THEN covered[p]
                     ELSE IF p \in outbox THEN Listed(p) ELSE {}]

Custody == INSTANCE EvidenceCustody
             WITH custody <- custodyBar, manifest <- manifestBar

CustodySpec == Custody!Spec

\* The thread has been told of package p, or will find it by itself.
Told(p) ==
  /\ p \in outbox
  /\ wake \/ phase \in {"down", "head"} \/ p \in todo \/ delivery[p] # FreshState

\* Retry never gives up: once its evaluator stays signed in and its files
\* read back, every package the thread was told of gets its receipt.
EventuallyDelivered ==
  \A p \in Packages :
    <>[](account = EvaluatorOf[p] /\ broken[p] = {})
      => []( Told(p) => <>(p \in receipts) )
=============================================================================
