---------------------------- MODULE SessionRecovery ----------------------------
(***************************************************************************)
(* One assignment's play sessions on this computer: the wrapper that       *)
(* records them (its checkpoint, its ledger, the handoff), the launcher    *)
(* that starts the game and sees its last process exit                     *)
(* (client/launcher.hpp), and the Client's session recovery, which runs    *)
(* the wrapper's own recovery for a session a crash left without a package *)
(* (client/evaluation_recovery.hpp).                                       *)
(*                                                                         *)
(* The wrapper is not part of this repository: its steps are the ones the  *)
(* Client's code relies on.  The delivery of a package is two steps here   *)
(* (EvidenceDelivery has them all).                                        *)
(***************************************************************************)
EXTENDS Naturals

CONSTANTS
  Sessions,    \* the play sessions; a session's package has the session's id
  NoSession,   \* no session is open
  Reviews,     \* whether the service may hold the game for a security review
  MaxFaults    \* bound on kills, failed starts and Client crashes

ASSUME NoSessionAssumption == NoSession \notin Sessions
ASSUME ReviewsAssumption == Reviews \in BOOLEAN
ASSUME FaultsAssumption == MaxFaults \in Nat

VARIABLES
  \* the disk
  open,        \* the session of open_session.json
  ledger,      \* the sessions of ledger.json
  incoming,    \* sessions with a directory in evidence\.incoming
  outbox,      \* ... in evidence\outbox
  receipts,    \* ... with a receipt
  received,    \* the received[] ids of the saved progress document
  receiving,   \* it says that the service is still receiving a session
  hold,        \* the security_hold mark
  \* the wrapper's processes
  playing,     \* the game is up
  recovering,  \* the wrapper runs in its recovery-only mode
  \* the service
  held,        \* the sessions it holds whole
  \* the Client
  up,          \* the Client serves
  seen,        \* the monitor's last look found the game running
  due,         \* a recovery check was asked for and has not looked yet
  run,         \* the recovery that was decided: none, start, wait
  recent,      \* one was decided in the last five minutes
  faults

records  == <<open, ledger, incoming>>
evidence == <<outbox, receipts, received, receiving, held>>
wrapper  == <<playing, recovering>>
checks   == <<due, run, recent>>
client   == <<up, seen, checks>>
sessionVars == <<records, evidence, hold, wrapper, client, faults>>

TypeOK ==
  /\ open \in Sessions \cup {NoSession}
  /\ ledger \subseteq Sessions
  /\ incoming \subseteq Sessions /\ outbox \subseteq Sessions
  /\ receipts \subseteq Sessions /\ received \subseteq Sessions
  /\ held \subseteq Sessions /\ receiving \in BOOLEAN
  /\ hold \in BOOLEAN
  /\ playing \in BOOLEAN /\ recovering \in BOOLEAN
  /\ up \in BOOLEAN
  \* The Client's memory is gone with its process.
  /\ IF up THEN /\ seen \in BOOLEAN /\ due \in BOOLEAN /\ recent \in BOOLEAN
                /\ run \in {"none", "start", "wait"}
     ELSE seen = FALSE /\ due = FALSE /\ recent = FALSE /\ run = "none"
  /\ faults \in 0 .. MaxFaults

Init ==
  /\ open = NoSession /\ ledger = {} /\ incoming = {}
  /\ outbox = {} /\ receipts = {} /\ received = {} /\ held = {}
  /\ receiving = FALSE
  /\ hold = FALSE
  /\ playing = FALSE /\ recovering = FALSE
  /\ up = FALSE /\ seen = FALSE
  /\ due = FALSE /\ run = "none" /\ recent = FALSE
  /\ faults = 0

Fault == faults < MaxFaults /\ faults' = faults + 1

\* busy_scanned(): a process of the game, adopted or not.
Busy == playing \/ recovering

-----------------------------------------------------------------------------
(* The wrapper.  One that starts finishes what a dead one left before it   *)
(* opens a session; the recovery-only mode does that and ends.  While the  *)
(* game itself is up, a recovery process leaves its session alone.         *)

Pending == {s \in ledger : s \notin outbox \cup receipts}

\* A faulty Launch: the mark is not looked at.
LaunchHeld ==
  /\ up /\ ~Busy
  /\ playing' = TRUE
  /\ UNCHANGED <<records, evidence, hold, recovering, client, faults>>

\* The launcher's launch(): refused while held or while anything of it runs.
Launch ==
  /\ up /\ ~hold /\ ~Busy
  /\ playing' = TRUE
  /\ UNCHANGED <<records, evidence, hold, recovering, client, faults>>

\* The panel precedes the session by more than the monitor's interval.
OpenSession(s) ==
  /\ playing /\ (up => seen)
  /\ open = NoSession /\ s \notin ledger /\ Pending = {}
  /\ open' = s
  /\ UNCHANGED <<ledger, incoming, evidence, hold, wrapper, client, faults>>

RecordSession ==
  /\ Busy
  /\ open # NoSession /\ open \notin ledger
  /\ ledger' = ledger \cup {open}
  /\ UNCHANGED <<open, incoming, evidence, hold, wrapper, client, faults>>

DropCheckpoint ==
  /\ Busy /\ open \in ledger
  /\ open' = NoSession
  /\ UNCHANGED <<ledger, incoming, evidence, hold, wrapper, client, faults>>

Stage(s) ==
  /\ Busy /\ s \in Pending /\ s \notin incoming /\ s # open
  /\ incoming' = incoming \cup {s}
  /\ UNCHANGED <<open, ledger, evidence, hold, wrapper, client, faults>>

Publish(s) ==
  /\ Busy /\ s \in incoming
  /\ incoming' = incoming \ {s} /\ outbox' = outbox \cup {s}
  /\ UNCHANGED <<open, ledger, receipts, received, receiving, held, hold, wrapper,
                 client, faults>>

Exit ==
  /\ Busy /\ open = NoSession /\ Pending = {}
  /\ playing' = FALSE /\ recovering' = FALSE
  /\ UNCHANGED <<records, evidence, hold, client, faults>>

\* Killed, crashed, or the computer restarted.
Die ==
  /\ Busy /\ Fault
  /\ playing' = FALSE /\ recovering' = FALSE
  /\ UNCHANGED <<records, evidence, hold, client>>

-----------------------------------------------------------------------------
(* The service, and the evidence thread in outline.                        *)

Arrive(s) ==
  /\ up /\ s \in outbox \ held
  /\ held' = held \cup {s}
  /\ UNCHANGED <<records, outbox, receipts, received, receiving, hold, wrapper,
                 client, faults>>

\* What the service says of the assignment: all it holds, and whether another
\* of this computer's packages is on its way to it.
StoreProgress(underway) ==
  /\ received' = held
  /\ receiving' \in {FALSE, underway # {}}

\* The receipt and the payload's removal; the answer's progress with them.
Acknowledge(s) ==
  /\ up /\ s \in outbox \cap held
  /\ receipts' = receipts \cup {s} /\ outbox' = outbox \ {s}
  /\ StoreProgress(outbox \ held)
  /\ UNCHANGED <<records, held, hold, wrapper, client, faults>>

\* Any other answer that carries the assignment's progress.
ReadProgress ==
  /\ up
  /\ StoreProgress(outbox \ held)
  /\ UNCHANGED <<records, outbox, receipts, held, hold, wrapper, client, faults>>

\* A review is placed or released, and the answer to a runtime report says so.
Review ==
  /\ Reviews /\ up
  /\ hold' = ~hold
  /\ UNCHANGED <<records, evidence, wrapper, client, faults>>

\* stop_for_security(): closed, and terminated after the grace.
StopForSecurity ==
  /\ up /\ hold /\ playing
  /\ playing' = FALSE
  /\ UNCHANGED <<records, evidence, hold, recovering, client, faults>>

-----------------------------------------------------------------------------
(* The Client: the monitor and the recovery.                               *)

\* check_all(), after the launcher's first scan.
ClientStarts ==
  /\ ~up
  /\ up' = TRUE /\ due' = TRUE
  /\ UNCHANGED <<records, evidence, hold, wrapper, seen, run, recent, faults>>

\* The Client's own death.  A recovery process it started lives on.
ClientCrashes ==
  /\ up /\ Fault
  /\ up' = FALSE /\ seen' = FALSE
  /\ due' = FALSE /\ run' = "none" /\ recent' = FALSE
  /\ UNCHANGED <<records, evidence, hold, wrapper>>

SeeRunning ==
  /\ up /\ Busy /\ ~seen
  /\ seen' = TRUE
  /\ UNCHANGED <<records, evidence, hold, wrapper, up, checks, faults>>

\* A faulty SeeStopped: the last exit asks for no recovery check.
SeeStoppedOnly ==
  /\ up /\ ~Busy /\ seen
  /\ seen' = FALSE
  /\ UNCHANGED <<records, evidence, hold, wrapper, up, checks, faults>>

\* The last process exited: on_stopped().
SeeStopped ==
  /\ up /\ ~Busy /\ seen
  /\ seen' = FALSE /\ due' = TRUE
  /\ UNCHANGED <<records, evidence, hold, wrapper, up, run, recent, faults>>

NeedsRecovery ==
  \/ open # NoSession
  \/ \E s \in ledger : s \notin outbox \cup incoming \cup receipts \cup received

\* evaluate(): whatever it answers, the check is spent.
Look ==
  /\ up /\ due
  /\ due' = FALSE
  /\ \/ /\ NeedsRecovery /\ ~hold /\ ~Busy /\ run = "none" /\ ~recent
        /\ run' = "start" /\ recent' = TRUE
     \/ /\ ~NeedsRecovery \/ hold \/ Busy \/ run # "none" \/ recent
        /\ UNCHANGED <<run, recent>>
  /\ UNCHANGED <<records, evidence, hold, wrapper, up, seen, faults>>

\* CreateProcess, which may fail.  Nothing is looked at again.
StartRecovery ==
  /\ up /\ run = "start"
  /\ \/ run' = "wait" /\ recovering' = TRUE /\ UNCHANGED faults
     \/ run' = "none" /\ Fault /\ UNCHANGED recovering
  /\ UNCHANGED <<records, evidence, hold, playing, up, seen, due, recent>>

\* It exited, or 120 s passed.
WaitEnds ==
  /\ up /\ run = "wait"
  /\ run' = "none"
  /\ UNCHANGED <<records, evidence, hold, wrapper, up, seen, due, recent,
                 faults>>

FiveMinutesPass ==
  /\ up /\ recent
  /\ recent' = FALSE
  /\ UNCHANGED <<records, evidence, hold, wrapper, up, seen, due, run, faults>>

-----------------------------------------------------------------------------
WrapperRuns ==
  \/ RecordSession \/ DropCheckpoint \/ Exit
  \/ \E s \in Sessions : Stage(s) \/ Publish(s)

WrapperStep == Launch \/ WrapperRuns \/ Die \/ \E s \in Sessions : OpenSession(s)

RecoveryStep == SeeRunning \/ SeeStopped \/ Look \/ StartRecovery \/ WaitEnds

ClientStep == RecoveryStep \/ FiveMinutesPass \/ Review \/ StopForSecurity

Delivery == \E s \in Sessions : Arrive(s) \/ Acknowledge(s)

Next ==
  \/ WrapperStep \/ ClientStep \/ Delivery \/ ReadProgress
  \/ ClientStarts \/ ClientCrashes

Spec == Init /\ [][Next]_sessionVars

\* A wrapper that runs ends its session and hands it over; the Client is
\* started again and its threads run.  Nobody has to play, to review, or to
\* read the progress.
FairSpec ==
  /\ Spec
  /\ WF_sessionVars(WrapperRuns) /\ WF_sessionVars(Delivery)
  /\ WF_sessionVars(ClientStarts)
  /\ WF_sessionVars(SeeRunning \/ SeeStopped) /\ WF_sessionVars(Look)
  /\ WF_sessionVars(StartRecovery) /\ WF_sessionVars(WaitEnds)
  /\ WF_sessionVars(StopForSecurity)

-----------------------------------------------------------------------------
(* Properties.                                                             *)

\* While no review holds the game, a session that began is delivered in the
\* end, whatever was killed in between: its checkpoint or its ledger entry is
\* found by the recovery.  The one exception is a handoff that died while
\* staging, which needs_recovery() leaves to the wrapper's next start.
EventuallyDelivered ==
  []~hold =>
    \A s \in Sessions : (s = open \/ s \in ledger) ~> (s \in receipts \cup incoming)

\* Under a review that stays, the game is closed and not played again.
ReviewEndsPlay == <>[]hold => <>[]~playing
=============================================================================
