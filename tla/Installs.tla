------------------------------ MODULE Installs ------------------------------
(***************************************************************************)
(* The install job of one assignment (client/transfers.hpp run_install),   *)
(* its update to a newer revision and its removal, beside everything else  *)
(* that moves the same job and the same folder: the bridge's control, the  *)
(* acknowledged report, the cleanup of an ended assignment                 *)
(* (client/assignment_cleanup.hpp), the launcher (client/launcher.hpp) and *)
(* the game itself, which writes its saves into the folder.                *)
(*                                                                         *)
(* The driver works on its own copy of the job (mem) and writes it whole;  *)
(* the others read, change and write the file between its steps.  A folder *)
(* is its revision and the version of the saves in it (0: none).           *)
(***************************************************************************)
EXTENDS Naturals, FiniteSets

CONSTANTS
    MaxSaves,    \* times the game writes its saves
    MaxFaults,   \* answers, ranges, renames and removals that fail
    MaxCrashes,  \* deaths of the Client
    MaxAsks      \* pauses, resumes, retries and updates asked for

ASSUME InstallsAssumption ==
    {MaxSaves, MaxFaults, MaxCrashes, MaxAsks} \subseteq Nat

VARIABLES
    job,         \* job.json
    mem,         \* the driver's copy
    pc,          \* the driver's place
    temp,        \* the downloaded package: revision, ranges, intact
    staging, dst, old,   \* the three folders
    vrec,        \* the verified content record
    pausedAsk, verifyAsk,        \* controls().paused, controls().verify
    reverify,    \* the durable request of a cleared revision, 0: none
    ended,       \* the mark of an ended assignment
    cpc,         \* the cleanup's place
    lpc, running,        \* the launcher's place; the game runs
    required,    \* the service's revision
    svcHold,     \* the service holds the game
    scanned,     \* history: the revisions scanned clean
    saves,       \* history: the last saves the game wrote
    completed,   \* history: completions the service acknowledged
    acked,       \* the report of the assignment was acknowledged
    faults, crashes, asks

folders == <<staging, dst, old>>
asksOf  == <<pausedAsk, verifyAsk, reverify>>
play    == <<lpc, running>>
service == <<required, svcHold, completed>>
history == <<scanned, saves>>
vars == <<job, mem, pc, temp, staging, dst, old, vrec, pausedAsk, verifyAsk, reverify,
          ended, cpc, lpc, running, required, svcHold, scanned, saves, completed,
          acked, faults, crashes, asks>>

Revisions == 1 .. 2
Nothing == [rev |-> 0, saves |-> 0]
NoTemp  == [rev |-> 0, have |-> 0, intact |-> TRUE]
Ranges  == 2
is_terminal(j) == j.state \in {"failed", "installed", "removed"}
Folder == [rev : 0 .. 2, saves : 0 .. MaxSaves]
States == {"queued", "paused", "downloading", "verifying", "extracting", "scanning",
           "installed", "failed", "removing", "removed"}
Job == [state : States, rev : Revisions, inst : 0 .. 2, scan : 0 .. 2,
        held : BOOLEAN, due : BOOLEAN]
Package == [rev : 0 .. 2, have : 0 .. Ranges, intact : BOOLEAN]
Places == {"wait", "drop", "pass", "verify", "auth", "range", "stopped", "pausing",
           "hash", "stage", "scan", "carry", "chain", "aside", "place", "record", "report"}

TypeOK ==
    /\ job \in Job /\ mem \in Job /\ pc \in Places /\ temp \in Package
    /\ staging \in Folder /\ dst \in Folder /\ old \in Folder /\ vrec \in Folder
    /\ pausedAsk \in BOOLEAN /\ verifyAsk \in BOOLEAN /\ reverify \in 0 .. 2
    /\ ended \in BOOLEAN /\ acked \in BOOLEAN /\ running \in BOOLEAN /\ svcHold \in BOOLEAN
    /\ cpc \in {"idle", "close", "remove", "write"} /\ lpc \in {"idle", "checked"}
    /\ required \in Revisions /\ completed \subseteq Revisions
    /\ scanned \subseteq Revisions
    /\ saves \in 0 .. MaxSaves
    /\ faults \in 0 .. MaxFaults /\ crashes \in 0 .. MaxCrashes /\ asks \in 0 .. MaxAsks

Init ==
    /\ job = [state |-> "queued", rev |-> 1, inst |-> 0, scan |-> 0, held |-> FALSE, due |-> TRUE]
    /\ mem = job /\ pc = "wait" /\ temp = NoTemp
    /\ staging = Nothing /\ dst = Nothing /\ old = Nothing /\ vrec = Nothing
    /\ pausedAsk = FALSE /\ verifyAsk = TRUE /\ reverify = 0 /\ ended = FALSE
    /\ cpc = "idle" /\ lpc = "idle" /\ running = FALSE
    /\ required = 1 /\ svcHold = FALSE /\ acked = FALSE /\ completed = {}
    /\ scanned = {} /\ saves = 0
    /\ faults = 0 /\ crashes = 0 /\ asks = 0

Fault == faults < MaxFaults /\ faults' = faults + 1
Calm  == UNCHANGED faults
busy  == running                     \* launcher.hpp busy
paused == pausedAsk \/ mem.state = "paused"

-----------------------------------------------------------------------------
(* The bridge, the Admin, the report and the service.                      *)

Others == UNCHANGED <<mem, pc, temp, folders, vrec, cpc, play, history, faults, crashes>>
Asks   == asks < MaxAsks /\ asks' = asks + 1

\* control: the request is remembered, and written at once into a job that
\* nothing is running for.
Pause ==
    /\ Asks /\ pausedAsk' = TRUE
    /\ job' = IF job.state \in {"queued", "downloading"} THEN [job EXCEPT !.state = "paused"] ELSE job
    /\ UNCHANGED <<verifyAsk, reverify, ended, service, acked>> /\ Others

Resume ==
    /\ Asks /\ pausedAsk' = FALSE
    /\ job' = IF job.state = "paused" THEN [job EXCEPT !.state = "downloading"] ELSE job
    /\ UNCHANGED <<verifyAsk, reverify, ended, service, acked>> /\ Others

Retry ==
    /\ Asks /\ pausedAsk' = FALSE /\ job.state = "failed" /\ ~job.held
    /\ job' = [job EXCEPT !.state = "queued", !.due = TRUE]
    /\ UNCHANGED <<verifyAsk, reverify, ended, service, acked>> /\ Others

\* The developer delivers a newer revision; the Admin moves the job on to it.
NewRevision ==
    /\ required = 1 /\ required' = 2
    /\ UNCHANGED <<job, asksOf, ended, svcHold, completed, acked, asks>> /\ Others

Update ==
    /\ Asks /\ job.state = "installed" /\ job.rev # required
    /\ job' = [job EXCEPT !.state = "queued", !.rev = required, !.due = TRUE]
    /\ UNCHANGED <<asksOf, ended, service, acked>> /\ Others

\* A review holds the game at the service, and a person clears it.
ServiceHolds ==
    /\ svcHold' = ~svcHold
    /\ UNCHANGED <<job, asksOf, ended, required, completed, acked, asks>> /\ Others

\* begin_removal: the report was acknowledged, once.
begin_removal ==
    /\ ~acked /\ acked' = TRUE /\ completed # {}
    /\ job' = IF job.state \in {"removed", "removing"} THEN job
              ELSE [job EXCEPT !.state = "removing", !.due = TRUE]
    /\ UNCHANGED <<asksOf, ended, service, asks>> /\ Others

\* on_resumed: the refused revision was cleared; the request is durable.
request_reverification ==
    /\ job.held /\ reverify = 0 /\ Asks /\ reverify' = job.rev
    /\ UNCHANGED <<job, pausedAsk, verifyAsk, ended, service, acked>> /\ Others

\* mark, mark_security_end: the revoke, never taken back.
mark ==
    /\ ~ended /\ ended' = TRUE
    /\ UNCHANGED <<job, asksOf, service, acked, asks>> /\ Others

-----------------------------------------------------------------------------
(* The launcher and the game.                                              *)

Players == UNCHANGED <<mem, pc, temp, staging, old, vrec, pausedAsk, reverify, ended, cpc,
                       service, scanned, completed, acked, faults, crashes, asks>>

\* verified_content.hpp verified_now: the folder is exactly as recorded.
verified_now == dst.rev # 0 /\ vrec.rev = job.inst /\ dst.saves \in {0, vrec.saves}

\* before_play, outside the launcher's lock: what this computer already
\* refuses is left to launchable; else the service's word, then the folder
\* against its record; one not vouched for is asked to be verified.
before_play ==
    /\ lpc = "idle"
    /\ LET later == running \/ ended \/ job.state # "installed"
       IN \/ later /\ lpc' = "checked" /\ UNCHANGED verifyAsk
          \/ /\ ~later /\ ~svcHold
             /\ IF job.held \/ reverify # 0 \/ job.scan # job.inst \/ verified_now
                  THEN lpc' = "checked" /\ UNCHANGED verifyAsk
                  ELSE verifyAsk' = TRUE /\ UNCHANGED lpc
    /\ UNCHANGED <<job, dst, running, saves>> /\ Players

\* A faulty launchable: the job may be in any state.
LaunchableInAnyState ==
    ~ended /\ ~job.held /\ reverify = 0 /\ job.scan = job.inst /\ job.inst # 0 /\ dst.rev # 0

launchable ==
    /\ ~ended /\ job.state = "installed" /\ ~job.held /\ reverify = 0
    /\ job.scan = job.inst /\ job.inst # 0 /\ dst.rev # 0

\* launch, under the lock that busy() takes: refused, or started.
launch ==
    /\ lpc = "checked" /\ lpc' = "idle"
    /\ running' = (running \/ launchable)
    /\ UNCHANGED <<job, dst, verifyAsk, saves>> /\ Players

GameSaves ==
    /\ running /\ saves < MaxSaves /\ dst.rev # 0
    /\ saves' = saves + 1 /\ dst' = [dst EXCEPT !.saves = saves + 1]
    /\ UNCHANGED <<job, verifyAsk, play>> /\ Players

\* Its last process exits: what it wrote is verified next.
GameExits ==
    /\ running /\ running' = FALSE /\ verifyAsk' = TRUE
    /\ UNCHANGED <<job, dst, lpc, saves>> /\ Players

-----------------------------------------------------------------------------
(* The cleanup of an ended assignment (run, run_security_end), every cycle.*)

Cleans == UNCHANGED <<mem, pc, staging, old, vrec, pausedAsk, verifyAsk, reverify, ended, lpc,
                      service, history, completed, acked, crashes, asks>>

CleanBegins ==
    /\ cpc = "idle" /\ ended /\ job.state # "removed" /\ cpc' = "close"
    /\ UNCHANGED <<job, temp, dst, running>> /\ Cleans /\ Calm

\* terminate: every process of the game; one may not close yet.
CleanCloses ==
    /\ cpc = "close"
    /\ \/ running' = FALSE /\ cpc' = "remove" /\ Calm
       \/ running /\ UNCHANGED running /\ cpc' = "idle" /\ Fault
    /\ UNCHANGED <<job, temp, dst>> /\ Cleans

CleanRemoves ==
    /\ cpc = "remove"
    /\ \/ dst' = Nothing /\ temp' = NoTemp /\ cpc' = "write" /\ Calm
       \/ dst # Nothing /\ UNCHANGED <<dst, temp>> /\ cpc' = "idle" /\ Fault
    /\ UNCHANGED <<job, running>> /\ Cleans

\* Written from the job's current record, which may have moved meanwhile.
CleanWrites ==
    /\ cpc = "write" /\ cpc' = "idle"
    /\ job' = [job EXCEPT !.state = "removed"]
    /\ UNCHANGED <<temp, dst, running>> /\ Cleans /\ Calm

-----------------------------------------------------------------------------
(* The driver: a pass over the job.                                        *)

Driver == UNCHANGED <<pausedAsk, reverify, ended, cpc, play, required, svcHold, saves,
                      acked, crashes, asks>>
Same   == UNCHANGED <<temp, folders, vrec, verifyAsk, scanned, completed>>

save(j)   == mem' = j /\ job' = j
Leave(j)  == save(j) /\ pc' = "wait"
Defer     == Leave([mem EXCEPT !.due = FALSE])
Fail(j)   == Leave([j EXCEPT !.state = "failed"])
GoTo(p)   == pc' = p /\ UNCHANGED <<mem, job>>
GoOn(j, p) == save(j) /\ pc' = p

\* A faulty set_aside_refusal: only an installed revision is set aside.
SetAsideInstalledOnly(j, r) ==
    IF r # j.inst THEN j ELSE [j EXCEPT !.held = FALSE, !.scan = 0]

\* set_aside_refusal: the cleared revision is verified again from the start.
set_aside_refusal(j, r) ==
    IF (j.held /\ j.rev # r) \/ (~j.held /\ r \notin {j.inst, j.rev}) THEN j
    ELSE [j EXCEPT !.held = FALSE, !.scan = 0,
                   !.state = IF j.held /\ j.state = "failed" THEN "queued" ELSE @, !.due = TRUE]

\* The request is applied to the job first and only then removed.
ApplyReverify ==
    /\ pc = "wait" /\ reverify # 0 /\ pc' = "drop"
    /\ job' = set_aside_refusal(job, reverify)
    /\ vrec' = IF job' = job THEN vrec ELSE Nothing
    /\ UNCHANGED <<mem, temp, folders, verifyAsk, scanned, completed>> /\ Driver /\ Calm

DropReverify ==
    /\ pc = "drop" /\ reverify' = 0 /\ verifyAsk' = TRUE /\ pc' = "wait"
    /\ UNCHANGED <<job, mem, temp, folders, vrec, scanned, completed, pausedAsk, ended, cpc,
                   play, required, svcHold, saves, acked, crashes, asks, faults>>

\* The job is read: the driver's copy until it is written again.
ReadJob ==
    /\ pc = "wait" /\ reverify = 0
    /\ mem' = job /\ pc' = "pass"
    /\ UNCHANGED job /\ Same /\ Driver /\ Calm

TimePasses ==
    /\ ~job.due /\ job' = [job EXCEPT !.due = TRUE]
    /\ UNCHANGED <<mem, pc>> /\ Same /\ Driver /\ Calm

PassOver ==
    /\ pc = "pass" /\ GoTo("wait")
    /\ \/ mem.state \in {"failed", "removed"}
       \/ mem.state = "installed" /\ (mem.held \/ busy \/ ~verifyAsk)
       \/ ~is_terminal(mem) /\ ~mem.due
    /\ Same /\ Driver /\ Calm

Runnable == pc = "pass" /\ ~is_terminal(mem) /\ mem.due

\* An ended assignment installs nothing again.
RemoveInstead ==
    /\ Runnable /\ mem.state # "removing" /\ ended
    /\ Leave([mem EXCEPT !.state = "removing"])
    /\ Same /\ Driver /\ Calm

\* Paused by the live request or by the record.
StayPaused ==
    /\ Runnable /\ mem.state # "removing" /\ ~ended /\ paused
    /\ IF mem.state \in {"queued", "downloading"}
         THEN Leave([mem EXCEPT !.state = "paused"]) ELSE GoTo("wait")
    /\ Same /\ Driver /\ Calm

RunInstall ==
    /\ Runnable /\ mem.state # "removing" /\ ~ended /\ ~paused
    /\ GoTo(CASE mem.state \in {"queued", "downloading"}     -> "auth"
              [] mem.state = "verifying"                     -> "hash"
              [] mem.state \in {"extracting", "scanning"}    -> "stage")
    /\ Same /\ Driver /\ Calm

\* A faulty run_removal: nobody asks whether the game runs.
RemovalUnasked ==
    /\ Runnable /\ mem.state = "removing"
    /\ dst' = Nothing /\ temp' = NoTemp /\ Leave([mem EXCEPT !.state = "removed"])
    /\ UNCHANGED <<staging, old, vrec, verifyAsk, scanned, completed>> /\ Driver /\ Calm

\* run_removal: never while the game runs, only its own folder.
run_removal ==
    /\ Runnable /\ mem.state = "removing"
    /\ \/ busy /\ Defer /\ Calm /\ UNCHANGED <<temp, dst>>
       \/ ~busy /\ Fault /\ Defer /\ UNCHANGED <<temp, dst>>
       \/ /\ ~busy /\ Calm /\ dst' = Nothing /\ temp' = NoTemp
          /\ Leave([mem EXCEPT !.state = "removed"])
    /\ UNCHANGED <<staging, old, vrec, verifyAsk, scanned, completed>> /\ Driver

-----------------------------------------------------------------------------
(* The installed content, verified again (verify_installed).               *)

VerifyBegins ==
    /\ pc = "pass" /\ mem.state = "installed" /\ ~mem.held /\ ~busy /\ verifyAsk
    /\ verifyAsk' = FALSE /\ GoTo("verify")
    /\ UNCHANGED <<temp, folders, vrec, scanned, completed>> /\ Driver /\ Calm

\* Clean takes the folder into the record, a detection holds the revision
\* here; a scan the game's start cancelled leaves it unverified.
VerifyEnds ==
    /\ pc = "verify" /\ Calm
    /\ \/ /\ ~busy /\ dst.rev # 0 /\ vrec' = [rev |-> mem.inst, saves |-> dst.saves]
          /\ scanned' = scanned \cup {dst.rev}
          /\ Leave([mem EXCEPT !.scan = mem.inst])
       \/ UNCHANGED <<vrec, scanned>> /\ Leave([mem EXCEPT !.held = TRUE])
       \/ UNCHANGED <<vrec, scanned>> /\ Leave(mem)
    /\ UNCHANGED <<temp, folders, verifyAsk, completed>> /\ Driver

-----------------------------------------------------------------------------
(* The download.                                                           *)

\* The authorization names the revision; a partial file of another is not kept.
Authorize ==
    /\ pc = "auth" /\ ~svcHold
    /\ IF mem.held /\ mem.rev = required
         THEN Fail(mem) /\ UNCHANGED temp
         ELSE /\ GoOn([mem EXCEPT !.rev = required, !.state = "downloading"], "range")
              /\ temp' = IF mem.rev = required /\ temp.rev = required THEN temp
                         ELSE [NoTemp EXCEPT !.rev = required]
    /\ UNCHANGED <<folders, vrec, verifyAsk, scanned, completed>> /\ Driver /\ Calm

\* A held game is a final answer; no answer is the ladder.
NotAuthorized ==
    /\ pc = "auth"
    /\ \/ svcHold /\ Fail(mem) /\ Calm
       \/ Defer /\ Fault
    /\ Same /\ Driver

\* A faulty Range: asks for one range more than the package has.
RangePastTheEnd ==
    /\ pc = "range" /\ ~pausedAsk
    /\ temp' = [temp EXCEPT !.rev = mem.rev, !.have = @ + 1] /\ GoOn(mem, "range")
    /\ UNCHANGED <<folders, vrec, verifyAsk, scanned, completed>> /\ Driver /\ Calm

\* One range appended; after the last, the package is verified.
Range ==
    /\ pc = "range" /\ temp.have < Ranges /\ ~pausedAsk
    /\ \/ /\ Calm /\ temp' = [temp EXCEPT !.rev = mem.rev, !.have = @ + 1] /\ GoOn(mem, "range")
       \/ /\ Fault /\ temp' = [temp EXCEPT !.rev = mem.rev, !.have = @ + 1, !.intact = FALSE]
          /\ GoOn(mem, "range")
       \/ /\ Fault /\ UNCHANGED temp
          /\ \E d \in BOOLEAN : GoOn([mem EXCEPT !.due = d], "stopped")
    /\ UNCHANGED <<folders, vrec, verifyAsk, scanned, completed>> /\ Driver

RangePaused ==
    /\ pc = "range" /\ temp.have < Ranges /\ pausedAsk /\ GoTo("stopped")
    /\ Same /\ Driver /\ Calm

\* The request is read once more before the pause is written.
Stopped ==
    /\ pc = "stopped" /\ GoTo(IF pausedAsk THEN "pausing" ELSE "wait")
    /\ Same /\ Driver /\ Calm

WritePaused ==
    /\ pc = "pausing" /\ Leave([mem EXCEPT !.state = "paused"])
    /\ Same /\ Driver /\ Calm

Downloaded ==
    /\ pc = "range" /\ temp.have = Ranges
    /\ GoOn([mem EXCEPT !.state = "verifying"], "hash")
    /\ Same /\ Driver /\ Calm

\* The antivirus acted on the package, or took a file of it.
Refused == Fail([mem EXCEPT !.held = TRUE])

\* The whole package's digest, before anything is extracted.
Hash ==
    /\ pc = "hash" /\ Calm
    /\ \/ temp.have = Ranges /\ temp.intact /\ UNCHANGED temp
          /\ GoOn([mem EXCEPT !.state = "extracting"], "stage")
       \/ ~(temp.have = Ranges /\ temp.intact) /\ temp' = NoTemp /\ Fail(mem)
       \/ temp' = NoTemp /\ Refused
    /\ UNCHANGED <<folders, vrec, verifyAsk, scanned, completed>> /\ Driver

-----------------------------------------------------------------------------
(* Extraction, scan and placement.                                         *)

updating == dst.rev # 0

\* extract_zip into the emptied staging folder: whole only from a whole package.
extract_zip == temp.have = Ranges /\ staging' = [rev |-> temp.rev, saves |-> 0]

\* Never while it runs: an update waits.  Else the package is extracted, or
\* the antivirus took a file of it on the way, or a file cannot be written.
Stage ==
    /\ pc = "stage"
    /\ \/ updating /\ busy /\ Defer /\ Calm /\ UNCHANGED <<temp, staging>>
       \/ /\ ~(updating /\ busy)
          /\ \/ extract_zip /\ GoOn([mem EXCEPT !.state = "scanning"], "scan") /\ Calm /\ UNCHANGED temp
             \/ Refused /\ Calm /\ temp' = NoTemp /\ staging' = Nothing
             \/ /\ Fault \/ (Calm /\ temp.have # Ranges)
                /\ Fail(mem) /\ staging' = Nothing /\ UNCHANGED temp
    /\ UNCHANGED <<dst, old, vrec, verifyAsk, scanned, completed>> /\ Driver

\* Clean goes on; a detection holds the revision here and takes the package;
\* anything else ends the job.
Scan ==
    /\ pc = "scan" /\ Calm
    /\ \/ /\ GoOn(mem, "carry") /\ UNCHANGED <<temp, staging>>
          /\ scanned' = scanned \cup {staging.rev}
       \/ Refused /\ temp' = NoTemp /\ staging' = Nothing /\ UNCHANGED scanned
       \/ Fail(mem) /\ staging' = Nothing /\ UNCHANGED <<temp, scanned>>
    /\ UNCHANGED <<dst, old, vrec, verifyAsk, completed>> /\ Driver

\* carry_over: the game's own files come along; then it must not run.
Carry ==
    /\ pc = "carry"
    /\ \/ ~updating /\ GoTo("chain") /\ UNCHANGED staging /\ Calm
       \/ updating /\ busy /\ staging' = Nothing /\ Defer /\ Calm
       \/ updating /\ ~busy /\ staging' = [staging EXCEPT !.saves = dst.saves] /\ GoTo("chain") /\ Calm
       \/ updating /\ staging' = Nothing /\ Defer /\ Fault
    /\ UNCHANGED <<temp, dst, old, vrec, verifyAsk, scanned, completed>> /\ Driver

\* ensure_launch_chain: the service's current word before anything is placed.
LaunchChain ==
    /\ pc = "chain"
    /\ \/ ~svcHold /\ GoTo(IF updating THEN "aside" ELSE "place") /\ UNCHANGED <<temp, staging>> /\ Calm
       \/ svcHold /\ Fail(mem) /\ temp' = NoTemp /\ staging' = Nothing /\ Calm
       \/ Fault /\ Defer /\ staging' = Nothing /\ UNCHANGED temp
    /\ UNCHANGED <<dst, old, vrec, verifyAsk, scanned, completed>> /\ Driver

\* The previous folder steps aside; in use, it stays.
StepAside ==
    /\ pc = "aside"
    /\ \/ ~running /\ old' = dst /\ dst' = Nothing /\ GoTo("place") /\ UNCHANGED staging /\ Calm
       \/ old' = Nothing /\ staging' = Nothing /\ Defer /\ UNCHANGED dst
          /\ (IF running THEN Calm ELSE Fault)
    /\ UNCHANGED <<temp, vrec, verifyAsk, scanned, completed>> /\ Driver

\* A faulty Place: the previous folder is not put back.
PlaceNoWayBack ==
    /\ pc = "place"
    /\ \/ dst' = staging /\ staging' = Nothing /\ GoTo("record") /\ UNCHANGED old /\ Calm
       \/ Fault /\ staging' = Nothing /\ Defer /\ UNCHANGED <<dst, old>>
    /\ UNCHANGED <<temp, vrec, verifyAsk, scanned, completed>> /\ Driver

\* The new one moves in; if it cannot, the previous one is put back.
Place ==
    /\ pc = "place"
    /\ \/ dst' = staging /\ staging' = Nothing /\ GoTo("record") /\ UNCHANGED old /\ Calm
       \/ /\ Fault /\ staging' = Nothing /\ dst' = old /\ old' = Nothing
          /\ IF old.rev # 0 THEN Defer ELSE Fail(mem)
    /\ UNCHANGED <<temp, vrec, verifyAsk, scanned, completed>> /\ Driver

\* The record of what was placed: the delivered files, and of the carried
\* ones only what the previous record vouched for.
Record ==
    /\ pc = "record" /\ GoTo("report") /\ old' = Nothing
    /\ vrec' = [rev |-> mem.rev, saves |-> IF dst.saves = vrec.saves THEN dst.saves ELSE 0]
    /\ UNCHANGED <<temp, staging, dst, verifyAsk, scanned, completed>> /\ Driver /\ Calm

\* A faulty Report: installed whatever the service answered.
ReportOnAnyAnswer ==
    /\ pc = "report" /\ Leave([mem EXCEPT !.state = "installed", !.inst = mem.rev, !.scan = mem.rev])
    /\ temp' = NoTemp
    /\ \/ completed' = completed \cup {mem.rev} /\ Calm
       \/ UNCHANGED completed /\ Fault
    /\ UNCHANGED <<folders, vrec, verifyAsk, scanned>> /\ Driver

\* The completion: installed only once the service acknowledged it.  A held
\* game is final; a package the service never streamed, or a download it
\* closed, is asked for again; no answer leaves the stage as it is.
Report ==
    /\ pc = "report"
    /\ \/ /\ ~svcHold /\ completed' = completed \cup {mem.rev} /\ temp' = NoTemp /\ Calm
          /\ Leave([mem EXCEPT !.state = "installed", !.inst = mem.rev, !.scan = mem.rev])
       \/ svcHold /\ Fail(mem) /\ temp' = NoTemp /\ UNCHANGED completed /\ Calm
       \/ Fault /\ UNCHANGED completed
          /\ \/ temp' = NoTemp /\ Leave([mem EXCEPT !.state = "queued"])
             \/ UNCHANGED temp /\ Leave([mem EXCEPT !.state = "queued"])
             \/ UNCHANGED temp /\ Defer
    /\ UNCHANGED <<folders, vrec, verifyAsk, scanned>> /\ Driver

-----------------------------------------------------------------------------
\* The Client dies; the next one reads the job and looks at the content.
Crash ==
    /\ crashes < MaxCrashes /\ crashes' = crashes + 1
    /\ pc' = "wait" /\ cpc' = "idle" /\ lpc' = "idle"
    /\ pausedAsk' = FALSE /\ verifyAsk' = TRUE
    /\ UNCHANGED <<job, mem, temp, folders, vrec, reverify, ended, running, service, history,
                   acked, faults, asks>>

DriverStep ==
    \/ ApplyReverify \/ DropReverify \/ ReadJob \/ PassOver \/ RemoveInstead \/ StayPaused
    \/ RunInstall \/ run_removal \/ VerifyBegins \/ VerifyEnds \/ Authorize \/ NotAuthorized
    \/ Range \/ RangePaused \/ Stopped \/ WritePaused \/ Downloaded \/ Hash \/ Stage \/ Scan
    \/ Carry \/ LaunchChain \/ StepAside \/ Place \/ Record \/ Report

Cleanup == CleanBegins \/ CleanCloses \/ CleanRemoves \/ CleanWrites

Asked == \/ Pause \/ Resume \/ Retry \/ NewRevision \/ Update \/ ServiceHolds \/ begin_removal
         \/ request_reverification \/ mark

Game == before_play \/ launch \/ GameSaves \/ GameExits

Next == Asked \/ Game \/ Cleanup \/ DriverStep \/ TimePasses \/ Crash

Spec == Init /\ [][Next]_vars

-----------------------------------------------------------------------------
(* Properties.                                                             *)

\* PLAY IS OF WHAT WAS VERIFIED: whatever was updated, removed or set aside
\* between the checks before Play and the start, a launch starts the revision
\* the job names, scanned clean here and acknowledged by the service.
PlayIsVerified ==
    [][~running /\ running' =>
         dst.rev = job.inst /\ dst.rev \in scanned \cap completed]_vars

\* NEVER WHILE IT RUNS: no update, removal or cleanup changes the folder
\* under a running game, whatever was launched between its check and its
\* rename.
NeverWhileRunning == [][running /\ running' => dst'.rev = dst.rev]_vars

\* INSTALLED MEANS PLACED AND ACKNOWLEDGED, between passes, whatever stale
\* copy was written last.
InstalledIsPlaced ==
    job.state = "installed" /\ pc = "wait" /\ ~ended =>
        dst.rev = job.inst /\ job.inst \in completed

\* THE WAY BACK: while no death cuts the swap, a failed or deferred update
\* leaves the previous game with its saves, and a finished one carries them.
UpdateKeepsGame ==
    crashes = 0 /\ pc = "wait" /\ ~ended /\ ~acked /\ job.inst # 0 =>
        dst.rev # 0 /\ dst.saves = saves

\* A CLEARED REVISION IS NOT LOST: the durable request goes only once no
\* refusal of that revision stands in the job, deaths in between included.
ClearedIsSetAside ==
    [][reverify # 0 /\ reverify' = 0 => ~(job.held /\ job.rev = reverify)]_vars
=============================================================================
