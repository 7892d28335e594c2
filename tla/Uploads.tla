------------------------------ MODULE Uploads ------------------------------
(***************************************************************************)
(* One upload job of Build for Evaluation (client/transfers.hpp): the      *)
(* Admin host builds the package and hands the job over; the transfer      *)
(* driver verifies the exact package itself, seals a record of what it     *)
(* verified (client/upload_verification.hpp), opens or resumes the upload  *)
(* session, sends the parts the service does not hold and completes it.    *)
(*                                                                         *)
(* The driver is one thread.  It writes the job record between its steps   *)
(* and may die between any two of them; the package on disk may be touched *)
(* or altered under it; the service may lose an answer, a part or the      *)
(* whole session.  Bytes are abstracted to a version: part n of version v  *)
(* is v.                                                                   *)
(***************************************************************************)
EXTENDS Naturals, FiniteSets

CONSTANTS
    NumParts,    \* parts of the package
    MaxFaults,   \* answers that do not come, sessions and parts lost
    MaxUpsets,   \* deaths of the driver and of the host, changes of the package
    None         \* no sealed record

ASSUME UploadsAssumption ==
    /\ NumParts \in Nat \ {0} /\ MaxFaults \in Nat /\ MaxUpsets \in Nat
    /\ None \notin [bytes : Nat, mtime : Nat]

VARIABLES
    job,         \* job.json: state, session, parts acknowledged, digest, due
    pkg,         \* the package file: bytes (a version) and write time
    rec,         \* the sealed verification record, or None
    incident,    \* the sealed incident of the job
    svc,         \* the service's session of this build
    hosted,      \* the parts of the hosted build once registered
    eligible,    \* a purchased evaluation of the game is still owed
    newer,       \* a newer upload job of the game exists
    hostAlive,   \* the process that owns the host's stage
    pc, mem,     \* the driver: its place and its copies
    wake, timed, \* its wake event, and whether its wait ends by itself
    release,     \* controls().release_held
    cleared,     \* history: the versions this Client scanned clean
    faults, upsets

svcVars  == <<svc, hosted, eligible, newer>>
hostVars == <<hostAlive, pkg>>
drvVars  == <<pc, mem, timed>>
budgets  == <<faults, upsets>>
vars == <<job, pkg, rec, incident, svc, hosted, eligible, newer, hostAlive,
          pc, mem, wake, timed, release, cleared, faults, upsets>>

Parts == 1 .. NumParts
NoParts == [n \in Parts |-> 0]
HostStages   == {"building", "packaging"}
ClientStages == {"packaged", "verifying", "uploading", "registering", "held"}
Settled      == {"done", "failed", "held"}
is_terminal(j) == j.state \in {"done", "failed"}

Held == {n \in Parts : svc.parts[n] # 0}     \* the parts the service lists

Idle == {"wait", "pass", "report", "job"}
Late == {"seal", "gate", "open", "readback", "send", "complete"}

Job  == [state : HostStages \cup ClientStages \cup {"done", "failed"},
         session : Nat, parts : SUBSET Parts, sha : 0 .. 2,
         claim : BOOLEAN, due : BOOLEAN]
File == [bytes : 1 .. 2, mtime : Nat]
Copy == [bytes : 0 .. 2, mtime : Nat, n : Nat]
Svc  == [id : Nat, state : {"none", "open", "expired", "verified"},
         parts : [Parts -> 0 .. 2]]

Shape ==
    /\ job \in Job /\ pkg \in File /\ rec \in File \cup {None} /\ mem \in Copy
    /\ svc \in Svc /\ hosted \in [Parts -> 0 .. 2]
    /\ pc \in Idle \cup {"digest", "scan"} \cup Late

Flags ==
    /\ incident \in {"none", "kept", "examined", "reported"}
    /\ eligible \in BOOLEAN /\ newer \in BOOLEAN /\ hostAlive \in BOOLEAN
    /\ wake \in BOOLEAN /\ timed \in BOOLEAN /\ release \in BOOLEAN
    /\ cleared \subseteq 1 .. 2 /\ faults \in Nat /\ upsets \in Nat

TypeOK == Shape /\ Flags

Init ==
    /\ job = [state |-> "building", session |-> 0, parts |-> {}, sha |-> 0,
              claim |-> FALSE, due |-> TRUE]
    /\ pkg = [bytes |-> 1, mtime |-> 0] /\ rec = None /\ incident = "none"
    /\ svc = [id |-> 0, state |-> "none", parts |-> NoParts] /\ hosted = NoParts
    /\ eligible \in BOOLEAN /\ newer = FALSE /\ hostAlive = TRUE
    /\ pc = "pass" /\ mem = [bytes |-> 0, mtime |-> 0, n |-> 1]
    /\ wake = FALSE /\ timed = FALSE /\ release = FALSE
    /\ cleared = {} /\ faults = 0 /\ upsets = 0

Fault == faults < MaxFaults /\ faults' = faults + 1 /\ UNCHANGED upsets
Upset == upsets < MaxUpsets /\ upsets' = upsets + 1 /\ UNCHANGED faults
Calm  == UNCHANGED budgets

-----------------------------------------------------------------------------
(* The Admin host and what stands outside the Client.                      *)

\* The host moves the job through its own stages and hands it over.
HostBuilds ==
    /\ hostAlive /\ job.state \in HostStages
    /\ IF job.state = "building"
         THEN job' = [job EXCEPT !.state = "packaging"] /\ UNCHANGED wake
         ELSE /\ job' = [job EXCEPT !.state = "packaged", !.sha = pkg.bytes]
              /\ wake' = TRUE
    /\ UNCHANGED <<rec, incident, svcVars, hostVars, drvVars, release, cleared, budgets>>

\* The antivirus stopped the host's precheck or build: the job says so.
HostStopped ==
    /\ hostAlive /\ job.state \in HostStages
    /\ job' = [job EXCEPT !.state = "failed", !.claim = TRUE]
    /\ wake' = TRUE
    /\ UNCHANGED <<rec, incident, svcVars, hostVars, drvVars, release, cleared, budgets>>

HostDies ==
    /\ hostAlive /\ job.state \in HostStages /\ Upset
    /\ hostAlive' = FALSE
    /\ UNCHANGED <<job, pkg, rec, incident, svcVars, drvVars, wake, release, cleared>>

\* The package file is touched (its write time) or altered (its bytes too).
PackageMoves ==
    /\ job.state \in ClientStages /\ Upset
    /\ \E b \in 1 .. 2 : pkg' = [bytes |-> b, mtime |-> pkg.mtime + 1]
    /\ UNCHANGED <<job, rec, incident, svcVars, hostAlive, drvVars, wake, release, cleared>>

\* The developer's evaluations change; the Client's view of them wakes it.
EvaluationsChange ==
    /\ eligible' = ~eligible
    /\ IF eligible THEN UNCHANGED <<wake, release>> ELSE wake' = TRUE /\ release' = TRUE
    /\ UNCHANGED <<job, rec, incident, svc, hosted, newer, hostVars, drvVars, cleared, budgets>>

\* A new Build for Evaluation starts only beside a held job.
NewerBuild ==
    /\ job.state = "held" /\ ~newer /\ newer' = TRUE /\ wake' = TRUE
    /\ UNCHANGED <<job, rec, incident, svc, hosted, eligible, hostVars, drvVars,
                   release, cleared, budgets>>

\* The service forgets the session, its storage upload expires, or a part
\* it acknowledged is lost.
ServiceLoses ==
    /\ svc.state = "open" /\ Fault
    /\ \/ svc' = [svc EXCEPT !.state = "none", !.parts = NoParts]
       \/ svc' = [svc EXCEPT !.state = "expired", !.parts = NoParts]
       \/ \E n \in Held : svc' = [svc EXCEPT !.parts[n] = 0]
    /\ UNCHANGED <<job, rec, incident, hosted, eligible, newer, hostVars, drvVars,
                   wake, release, cleared>>

\* The Client dies and its next start begins with a forced pass.
Crash ==
    /\ Upset /\ pc # "wait"
    /\ pc' = "pass" /\ mem' = [bytes |-> 0, mtime |-> 0, n |-> 1]
    /\ wake' = FALSE /\ timed' = FALSE /\ release' = FALSE
    /\ UNCHANGED <<job, rec, incident, svcVars, hostVars, cleared>>

-----------------------------------------------------------------------------
(* How the driver leaves a job (save, defer, fail, hold).                  *)

\* The pass ends; the wait is timed only for a job with a later attempt.
Leave(j) ==
    /\ job' = j /\ pc' = "wait"
    /\ timed' = (~is_terminal(j) /\ (~j.due \/ j.state \in HostStages))
Defer(j) == Leave([j EXCEPT !.due = FALSE])
Fail     == Leave([job EXCEPT !.state = "failed"])
Hold     == Leave([job EXCEPT !.state = "held", !.due = FALSE])
\* A faulty Reopen: the session the service does not know is kept.
ReopenTheSame == Leave([job EXCEPT !.parts = {}])

\* The service does not know the session: opened again from the record.
Reopen   == Leave([job EXCEPT !.state = "packaged", !.session = 0, !.parts = {}])
GoOn(j, next) == job' = j /\ pc' = next /\ UNCHANGED timed

\* The session this job names, at the service.
Known == job.session = svc.id /\ svc.state # "none"

\* upload_verification.hpp vouches: the record is of the file as it stands.
vouches == rec # None /\ rec.mtime = pkg.mtime

ServiceOnly == UNCHANGED <<pkg, rec, incident, eligible, newer, hostAlive, wake, release, cleared>>

-----------------------------------------------------------------------------
(* The driver's pass (run_driver, run_pass).                               *)

\* The wait ends: woken, or at the time of the next attempt.
Woken ==
    /\ pc = "wait" /\ wake
    /\ pc' = "pass" /\ wake' = FALSE
    /\ UNCHANGED <<job, rec, incident, svcVars, hostVars, mem, timed, release, cleared, budgets>>

TimerFires ==
    /\ pc = "wait" /\ timed /\ (job.due \/ job.state \in HostStages)
    /\ pc' = "pass"
    /\ UNCHANGED <<job, rec, incident, svcVars, hostVars, mem, wake, timed, release, cleared, budgets>>

\* The job's next attempt comes due, whatever the driver does meanwhile.
TimePasses ==
    /\ ~job.due /\ job' = [job EXCEPT !.due = TRUE]
    /\ UNCHANGED <<rec, incident, svcVars, hostVars, drvVars, wake, release, cleared, budgets>>

\* A detection the host claims is established by this Client, once.
establish_host_detection ==
    /\ pc = "pass" /\ pc' = "report"
    /\ IF job.state = "failed" /\ job.claim /\ incident = "none"
         THEN incident' \in {"kept", "examined"}
         ELSE UNCHANGED incident
    /\ UNCHANGED <<job, rec, svcVars, hostVars, mem, wake, timed, release, cleared, budgets>>

\* An incident of this Client goes to the service until it is answered.
report_incident ==
    /\ pc = "report" /\ pc' = "job"
    /\ IF incident = "kept"
         THEN \/ incident' = "reported" /\ Calm
              \/ UNCHANGED incident /\ Fault
         ELSE UNCHANGED incident /\ Calm
    /\ UNCHANGED <<job, rec, svcVars, hostVars, mem, wake, timed, release, cleared>>

\* The pass passes over a job it cannot move now; a stalled host is started.
PassOver ==
    /\ pc = "job"
    /\ \/ is_terminal(job) \/ job.state \in HostStages
       \/ ~job.due /\ ~(release /\ job.state = "held")
    /\ hostAlive' = (hostAlive \/ job.state \in HostStages)
    /\ Leave(job) /\ release' = FALSE
    /\ UNCHANGED <<pkg, rec, incident, svcVars, mem, wake, cleared, budgets>>

Runnable ==
    /\ pc = "job" /\ job.state \in ClientStages
    /\ job.due \/ (release /\ job.state = "held")

\* A held job whose game has a newer build is retired.
Retire ==
    /\ Runnable /\ job.state = "held" /\ newer
    /\ Fail /\ release' = FALSE
    /\ UNCHANGED <<rec, incident, svcVars, hostVars, mem, wake, cleared, budgets>>

\* Where run_upload goes on once the record vouches for the package.
Route == IF job.state \in {"packaged", "held"} \/ job.session = 0 THEN "open"
         ELSE CASE job.state = "uploading"   -> "readback"
                [] job.state = "registering" -> "complete"
                [] OTHER                     -> "wait"

Gate ==
    /\ Runnable /\ ~(job.state = "held" /\ newer) /\ vouches
    /\ mem' = [bytes |-> rec.bytes, mtime |-> rec.mtime, n |-> 1]
    /\ LET j == [job EXCEPT !.due = TRUE]
       IN IF Route = "wait" THEN Leave(j) ELSE GoOn(j, Route)
    /\ release' = FALSE
    /\ UNCHANGED <<rec, incident, svcVars, hostVars, wake, cleared, budgets>>

-----------------------------------------------------------------------------
(* The Client's own verification (verify_package).                         *)

\* No record vouches: the state is saved, the record goes, the file's
\* identity is taken.
BeginVerify ==
    /\ Runnable /\ ~(job.state = "held" /\ newer) /\ ~vouches
    /\ GoOn([job EXCEPT !.state = "verifying", !.due = TRUE], "digest")
    /\ rec' = None /\ release' = FALSE
    /\ mem' = [mem EXCEPT !.mtime = pkg.mtime]
    /\ UNCHANGED <<incident, svcVars, hostVars, wake, cleared, budgets>>

\* The digest of the file read now must be the one the host packaged.
Digest ==
    /\ pc = "digest"
    /\ IF job.sha \notin {0, pkg.bytes}
         THEN Fail /\ UNCHANGED mem
         ELSE GoOn(job, "scan") /\ mem' = [mem EXCEPT !.bytes = pkg.bytes]
    /\ UNCHANGED <<rec, incident, svcVars, hostVars, wake, release, cleared, budgets>>

\* Clean, and the file still the one that was read: the record is sealed.
ScanClean ==
    /\ pc = "scan"
    /\ IF pkg.mtime # mem.mtime
         THEN Fail /\ UNCHANGED <<rec, cleared>>
         ELSE /\ GoOn(job, "seal")
              /\ rec' = [bytes |-> mem.bytes, mtime |-> mem.mtime]
              /\ cleared' = cleared \cup {pkg.bytes}
    /\ UNCHANGED <<incident, svcVars, hostVars, mem, wake, release, budgets>>

\* A detection is this Client's own incident; any other outcome is only
\* the end of the job.
ScanRefuses ==
    /\ pc = "scan" /\ incident' \in {incident, "kept"} /\ Fail
    /\ UNCHANGED <<rec, svcVars, hostVars, mem, wake, release, cleared, budgets>>

\* The sealed record stands; the job carries this Client's figures.
SaveVerified ==
    /\ pc = "seal"
    /\ GoOn([job EXCEPT !.state = "packaged", !.sha = mem.bytes], "gate")
    /\ UNCHANGED <<rec, incident, svcVars, hostVars, mem, wake, release, cleared, budgets>>

GateAgain ==
    /\ pc = "gate"
    /\ IF vouches THEN GoOn(job, "open") /\ mem' = [mem EXCEPT !.n = 1]
                  ELSE Fail /\ UNCHANGED mem
    /\ UNCHANGED <<rec, incident, svcVars, hostVars, wake, release, cleared, budgets>>

-----------------------------------------------------------------------------
(* The session (open_session, send_parts, complete_session).               *)

\* The service answers the session it has for this build, or a new one.
open_session ==
    /\ pc = "open" /\ Calm /\ UNCHANGED <<mem, hosted>>
    /\ LET s == IF svc.state # "none" THEN svc
                ELSE [id |-> svc.id + 1, state |-> "open", parts |-> NoParts]
           taken == [job EXCEPT !.session = s.id, !.parts = {n \in Parts : s.parts[n] # 0},
                                !.state = IF s.state = "verified" THEN "registering" ELSE "uploading"]
       IN IF eligible
            THEN /\ svc' = s
                 /\ GoOn(taken, IF s.state = "verified" THEN "complete" ELSE "readback")
            ELSE UNCHANGED svc /\ Hold
    /\ ServiceOnly

\* The session is read back: the service's list decides what is sent.
ReadBack ==
    /\ pc = "readback" /\ Calm /\ UNCHANGED <<svc, hosted>>
    /\ CASE ~Known -> Reopen /\ UNCHANGED mem
         [] Known /\ svc.state = "verified" ->
              GoOn([job EXCEPT !.state = "registering"], "complete") /\ UNCHANGED mem
         [] OTHER -> /\ GoOn([job EXCEPT !.parts = Held], "send")
                     /\ mem' = [mem EXCEPT !.n = 1]
    /\ ServiceOnly

\* A part the job lists is passed over; after the last one, registering.
NextPart ==
    /\ pc = "send" /\ Calm /\ UNCHANGED <<svc, hosted>>
    /\ \/ /\ mem.n \in job.parts
          /\ mem' = [mem EXCEPT !.n = mem.n + 1] /\ GoOn(job, "send")
       \/ /\ mem.n > NumParts /\ UNCHANGED mem
          /\ GoOn([job EXCEPT !.state = "registering"], "complete")
    /\ ServiceOnly

SendsPart == pc = "send" /\ mem.n \in Parts \ job.parts

\* The bytes read are not the part that was verified: the upload stops.
PartChanged ==
    /\ SendsPart /\ pkg.bytes # mem.bytes
    /\ rec' = None /\ Fail
    /\ UNCHANGED <<incident, svcVars, hostVars, mem, wake, release, cleared, budgets>>

\* A faulty PutPart: the part is sent as it is read, never compared.
PutPartUnchecked ==
    /\ SendsPart /\ Known /\ svc.state = "open" /\ Calm
    /\ svc' = [svc EXCEPT !.parts[mem.n] = pkg.bytes]
    /\ mem' = [mem EXCEPT !.n = mem.n + 1]
    /\ GoOn([job EXCEPT !.parts = Held \cup {mem.n}], "send")
    /\ UNCHANGED hosted /\ ServiceOnly

\* The part is stored; its acknowledgment may be lost on the way.
PutPart ==
    /\ SendsPart /\ pkg.bytes = mem.bytes /\ Known /\ svc.state = "open"
    /\ svc' = [svc EXCEPT !.parts[mem.n] = pkg.bytes]
    /\ \/ /\ Calm /\ mem' = [mem EXCEPT !.n = mem.n + 1]
          /\ GoOn([job EXCEPT !.parts = Held \cup {mem.n}], "send")
       \/ Fault /\ Defer(job) /\ UNCHANGED mem
    /\ UNCHANGED hosted /\ ServiceOnly

\* 409 conflict (verified already), 404 (unknown), 410 (renewed, every part
\* again).
PartRefused ==
    /\ SendsPart /\ pkg.bytes = mem.bytes /\ Calm /\ UNCHANGED hosted
    /\ CASE ~Known -> Reopen /\ UNCHANGED <<svc, mem>>
         [] Known /\ svc.state = "verified" ->
              GoOn([job EXCEPT !.state = "registering"], "complete") /\ UNCHANGED <<svc, mem>>
         [] Known /\ svc.state = "expired" ->
              /\ svc' = [svc EXCEPT !.state = "open"] /\ mem' = [mem EXCEPT !.n = 1]
              /\ GoOn([job EXCEPT !.parts = {}], "send")
         [] OTHER -> FALSE
    /\ ServiceOnly

\* A faulty complete_session: any answer ends the job as done.
CompleteOnAnyAnswer ==
    /\ pc = "complete" /\ Calm
    /\ Leave([job EXCEPT !.state = "done"])
    /\ UNCHANGED <<svc, hosted, mem>> /\ ServiceOnly

\* The service registers the hosted build, reads back an incomplete one, or
\* no longer knows the session; its answer may be lost.
complete_session ==
    /\ pc = "complete" /\ UNCHANGED mem
    /\ CASE ~Known \/ svc.state = "expired" -> Reopen /\ Calm /\ UNCHANGED <<svc, hosted>>
         [] Known /\ svc.state = "open" /\ Held # Parts ->
              /\ Leave([job EXCEPT !.parts = Held, !.state = "uploading"])
              /\ Calm /\ UNCHANGED <<svc, hosted>>
         [] Known /\ svc.state = "open" /\ Held = Parts /\ ~eligible ->
              Hold /\ Calm /\ UNCHANGED <<svc, hosted>>
         [] OTHER ->
              /\ svc' = [svc EXCEPT !.state = "verified"] /\ hosted' = svc.parts
              /\ \/ Calm /\ Leave([job EXCEPT !.state = "done"])
                 \/ Fault /\ Defer(job)
    /\ ServiceOnly

\* No answer at all: the ladder.  A refusal the service will always give
\* (400, 403, 404, another 409) ends the job.
CallFails ==
    /\ pc \in {"open", "readback", "complete"} \/ (SendsPart /\ pkg.bytes = mem.bytes)
    /\ Fault
    /\ \/ Defer(job)
       \/ pc # "readback" /\ Fail
    /\ UNCHANGED <<svc, hosted, mem>> /\ ServiceOnly

-----------------------------------------------------------------------------
DriverStep ==
    \/ establish_host_detection \/ report_incident \/ PassOver \/ Retire \/ Gate
    \/ BeginVerify \/ Digest \/ ScanClean \/ ScanRefuses \/ SaveVerified \/ GateAgain
    \/ open_session \/ ReadBack \/ NextPart \/ PartChanged \/ PutPart \/ PartRefused
    \/ complete_session \/ CallFails

Outside ==
    \/ HostBuilds \/ HostStopped \/ HostDies \/ PackageMoves \/ EvaluationsChange
    \/ NewerBuild \/ ServiceLoses \/ Crash

Next == Outside \/ DriverStep \/ Woken \/ TimerFires \/ TimePasses

Spec == Init /\ [][Next]_vars

\* The driver's thread, its wake event and its timer; the host finishes a
\* stage it is alive for.  Nothing outside is owed.
FairSpec == Spec /\ WF_vars(DriverStep) /\ WF_vars(Woken) /\ WF_vars(TimerFires)
                 /\ WF_vars(TimePasses) /\ WF_vars(HostBuilds \/ HostStopped)

-----------------------------------------------------------------------------
(* Properties.                                                             *)

\* NO CLIENT VERIFICATION, NO UPLOAD: whatever the order of touches,
\* alterations, deaths, renewals and reopened sessions, every part the
\* service holds, and every part of the hosted build, is of one version that
\* this Client itself scanned clean.
OnlyVerifiedIsHeld ==
    \E v \in cleared \cup {0} :
        \A n \in Parts : svc.parts[n] \in {0, v} /\ hosted[n] \in {0, v}

\* A JOB IS DONE ONLY ONCE THE HOSTED BUILD IS WHOLE, and its record's
\* digest is the one of what is hosted: lost parts, lost answers and
\* sessions found verified included.
DoneIsWhole ==
    job.state = "done" => \A n \in Parts : hosted[n] = job.sha /\ job.sha \in cleared

\* THE RECORD IS OF BYTES THAT WERE SCANNED, never only of bytes that were
\* read: the file's identity is compared around the scan.
SealedIsScanned == rec # None => rec.bytes \in cleared

\* "everything else backs off and never gives up" (transfers.hpp header): a
\* job in a Client stage always has an attempt ahead while the driver waits.
NeverGivesUp == pc = "wait" /\ job.state \in ClientStages => wake \/ timed

\* A renewed verification keeps the session; a death between its record and
\* its session leaves a job that no branch of run_upload takes.
Stranded == job.state = "verifying" /\ job.session # 0 /\ rec # None

\* AN UPLOAD SETTLES (done, failed, or held by the service) as long as the
\* driver keeps making passes: no death between two saves, change of the
\* package or lost answer strands it in a stage no pass moves (but Stranded).
UploadSettles ==
    ([]<>(pc = "pass")) => ([]<>(job.state \in Settled \cup HostStages \/ Stranded))
=============================================================================
