---------------------------- MODULE Installs_proofs ----------------------------
(***************************************************************************)
(* Proofs about Installs, for any number of saves, faults, deaths and      *)
(* requests.                                                               *)
(***************************************************************************)
EXTENDS Installs, TLAPS

USE InstallsAssumption

-----------------------------------------------------------------------------
(* Types.                                                                  *)

\* A job keeps its form, and its other fields, when some are written.
LEMMA JobFields ==
  ASSUME NEW j \in Job
  PROVE  /\ \A s \in States :
              /\ [j EXCEPT !.state = s] \in Job
              /\ [j EXCEPT !.state = s, !.due = TRUE] \in Job
              /\ \A r \in Revisions : /\ [j EXCEPT !.rev = r, !.state = s] \in Job
                                      /\ [j EXCEPT !.state = s, !.rev = r, !.due = TRUE] \in Job
              /\ [j EXCEPT !.state = s, !.inst = j.rev, !.scan = j.rev] \in Job
         /\ \A b \in BOOLEAN : [j EXCEPT !.due = b] \in Job /\ [j EXCEPT !.held = b] \in Job
         /\ [j EXCEPT !.scan = j.inst] \in Job
<1>1. j.rev \in 0 .. 2 /\ j.inst \in 0 .. 2
  BY DEF Job, Revisions
<1>2. ASSUME NEW s \in States
      PROVE  /\ [j EXCEPT !.state = s] \in Job
             /\ [j EXCEPT !.state = s, !.due = TRUE] \in Job
             /\ \A r \in Revisions : /\ [j EXCEPT !.rev = r, !.state = s] \in Job
                                     /\ [j EXCEPT !.state = s, !.rev = r, !.due = TRUE] \in Job
  BY DEF Job
<1>3. ASSUME NEW s \in States
      PROVE  [j EXCEPT !.state = s, !.inst = j.rev, !.scan = j.rev] \in Job
  BY <1>1 DEF Job
<1>4. \A b \in BOOLEAN : [j EXCEPT !.due = b] \in Job /\ [j EXCEPT !.held = b] \in Job
  BY DEF Job
<1>5. [j EXCEPT !.scan = j.inst] \in Job
  BY <1>1 DEF Job
<1> QED
  BY <1>2, <1>3, <1>4, <1>5

LEMMA SetAsideForm ==
  ASSUME NEW j \in Job, NEW r
  PROVE  /\ set_aside_refusal(j, r) \in Job
         /\ set_aside_refusal(j, r).state \in {j.state, "queued"}
         /\ set_aside_refusal(j, r).rev = j.rev /\ set_aside_refusal(j, r).inst = j.inst
         /\ set_aside_refusal(j, r).held => j.held /\ j.rev # r
<1>1. CASE set_aside_refusal(j, r) = j /\ ((j.held /\ j.rev # r) \/ ~j.held)
  BY <1>1
<1>2. CASE ~((j.held /\ j.rev # r) \/ (~j.held /\ r \notin {j.inst, j.rev}))
  <2> DEFINE s == IF j.held /\ j.state = "failed" THEN "queued" ELSE j.state
  <2>1. s \in States /\ s \in {j.state, "queued"} /\ 0 \in 0 .. 2
    BY DEF States, Job
  <2>2. set_aside_refusal(j, r) = [j EXCEPT !.held = FALSE, !.scan = 0, !.state = s, !.due = TRUE]
    BY <1>2 DEF set_aside_refusal
  <2> HIDE DEF s
  <2>3. set_aside_refusal(j, r) \in Job /\ set_aside_refusal(j, r).state = s
        /\ set_aside_refusal(j, r).rev = j.rev /\ set_aside_refusal(j, r).inst = j.inst
        /\ set_aside_refusal(j, r).held = FALSE
    BY <2>1, <2>2 DEF Job
  <2> QED
    BY <2>1, <2>3
<1> QED
  BY <1>1, <1>2 DEF set_aside_refusal

LEMMA FolderTypes == Nothing \in Folder /\ NoTemp \in Package
BY DEF Nothing, Folder, NoTemp, Package, Ranges

LEMMA TypeInit == Init => TypeOK
<1> SUFFICES ASSUME Init PROVE TypeOK
  OBVIOUS
<1>1. job \in Job /\ mem \in Job
  BY DEF Init, Job, States, Revisions
<1>2. temp \in Package /\ staging \in Folder /\ dst \in Folder /\ old \in Folder /\ vrec \in Folder
  BY FolderTypes DEF Init
<1>3. pc \in Places /\ cpc = "idle" /\ lpc = "idle"
  BY DEF Init, Places
<1>4. required \in Revisions /\ completed \subseteq Revisions /\ scanned \subseteq Revisions
  BY DEF Init, Revisions
<1>5. reverify \in 0 .. 2 /\ saves \in 0 .. MaxSaves /\ faults \in 0 .. MaxFaults
      /\ crashes \in 0 .. MaxCrashes /\ asks \in 0 .. MaxAsks
  BY DEF Init
<1>6. pausedAsk \in BOOLEAN /\ verifyAsk \in BOOLEAN /\ ended \in BOOLEAN /\ acked \in BOOLEAN
      /\ running \in BOOLEAN /\ svcHold \in BOOLEAN
  BY DEF Init
<1> QED
  BY <1>1, <1>2, <1>3, <1>4, <1>5, <1>6 DEF TypeOK

\* What is asked of the job from outside, and the clock.
LEMMA TypeAsked ==
  ASSUME TypeOK, Asked \/ TimePasses
  PROVE  TypeOK'
<1> USE DEF Others, asksOf, service, folders, play, history
<1>1. job \in Job /\ required \in Revisions /\ asks \in 0 .. MaxAsks
  BY DEF TypeOK
<1>2. job' \in Job
  <2>1. \A s \in States : [job EXCEPT !.state = s] \in Job /\ [job EXCEPT !.state = s, !.due = TRUE] \in Job
        /\ [job EXCEPT !.state = s, !.rev = required, !.due = TRUE] \in Job
        /\ [job EXCEPT !.due = TRUE] \in Job
    BY <1>1, JobFields
  <2> QED
    BY <1>1, <2>1 DEF Asked, Pause, Resume, Retry, NewRevision, Update, ServiceHolds, begin_removal,
       request_reverification, mark, TimePasses, States
<1>3. asks' \in 0 .. MaxAsks
  BY <1>1 DEF Asked, Pause, Resume, Retry, NewRevision, Update, ServiceHolds, begin_removal,
     request_reverification, mark, TimePasses, Asks, Driver
<1>4. reverify' \in 0 .. 2
  BY <1>1 DEF TypeOK, Job, Revisions, Asked, Pause, Resume, Retry, NewRevision, Update, ServiceHolds,
     begin_removal, request_reverification, mark, TimePasses, Driver
<1>5. required' \in Revisions
  BY <1>1 DEF Revisions, Asked, Pause, Resume, Retry, NewRevision, Update, ServiceHolds, begin_removal,
     request_reverification, mark, TimePasses, Driver
<1>6. UNCHANGED <<mem, pc, temp, staging, dst, old, vrec, verifyAsk, completed, cpc, lpc, running, scanned,
                  saves, faults, crashes>>
  BY DEF Asked, Pause, Resume, Retry, NewRevision, Update, ServiceHolds, begin_removal,
     request_reverification, mark, TimePasses, Driver, Same, Calm
<1>7. pausedAsk' \in BOOLEAN /\ ended' \in BOOLEAN /\ acked' \in BOOLEAN /\ svcHold' \in BOOLEAN
  BY DEF TypeOK, Asked, Pause, Resume, Retry, NewRevision, Update, ServiceHolds, begin_removal,
     request_reverification, mark, TimePasses, Driver
<1> QED
  BY <1>2, <1>3, <1>4, <1>5, <1>6, <1>7 DEF TypeOK

\* The game, its launcher, the cleanup and a death.
LEMMA TypeGame ==
  ASSUME TypeOK, Game \/ Cleanup \/ Crash
  PROVE  TypeOK'
<1> USE DEF Players, Cleans, asksOf, service, folders, play, history
<1>1. dst \in Folder /\ saves \in 0 .. MaxSaves /\ crashes \in 0 .. MaxCrashes /\ faults \in 0 .. MaxFaults
  BY DEF TypeOK
<1>2. dst' \in Folder /\ saves' \in 0 .. MaxSaves
  <2>1. CASE GameSaves
    <3>1. saves + 1 \in 0 .. MaxSaves
      BY <1>1, <2>1 DEF GameSaves
    <3> QED
      BY <1>1, <2>1, <3>1 DEF GameSaves, Folder
  <2>2. CASE ~GameSaves
    BY <1>1, <2>2, FolderTypes DEF Game, before_play, launch, GameExits, Cleanup, CleanBegins, CleanCloses,
       CleanRemoves, CleanWrites, Crash
  <2> QED
    BY <2>1, <2>2
<1>3. job' \in Job
  BY JobFields DEF TypeOK, States, Game, before_play, launch, GameSaves, GameExits, Cleanup, CleanBegins,
     CleanCloses, CleanRemoves, CleanWrites, Crash
<1>4. crashes' \in 0 .. MaxCrashes /\ faults' \in 0 .. MaxFaults
  BY <1>1 DEF Game, before_play, launch, GameSaves, GameExits, Cleanup, CleanBegins, CleanCloses,
     CleanRemoves, CleanWrites, Crash, Fault, Calm
<1>5. temp' \in Package /\ pc' \in Places
  BY FolderTypes DEF TypeOK, Places, Game, before_play, launch, GameSaves, GameExits, Cleanup, CleanBegins,
     CleanCloses, CleanRemoves, CleanWrites, Crash
<1>6. pausedAsk' \in BOOLEAN /\ verifyAsk' \in BOOLEAN /\ running' \in BOOLEAN
  BY DEF TypeOK, Game, before_play, launch, GameSaves, GameExits, Cleanup, CleanBegins, CleanCloses,
     CleanRemoves, CleanWrites, Crash
<1>7. cpc' \in {"idle", "close", "remove", "write"} /\ lpc' \in {"idle", "checked"}
  BY DEF TypeOK, Game, before_play, launch, GameSaves, GameExits, Cleanup, CleanBegins, CleanCloses,
     CleanRemoves, CleanWrites, Crash
<1>8. UNCHANGED <<mem, staging, old, vrec, reverify, ended, acked, svcHold, required, completed, scanned, asks>>
  BY DEF Game, before_play, launch, GameSaves, GameExits, Cleanup, CleanBegins, CleanCloses,
     CleanRemoves, CleanWrites, Crash
<1> QED
  BY <1>2, <1>3, <1>4, <1>5, <1>6, <1>7, <1>8 DEF TypeOK

-----------------------------------------------------------------------------
(* The inductive invariant.                                                *)

\* The driver works from its own copy of the job.
InPass  == pc \notin {"wait", "drop"}
Working == {"verifying", "extracting", "scanning"}

\* What the copy says at each place of a pass.
MemAt ==
    /\ pc = "verify" => mem.state = "installed" /\ ~mem.held
    /\ pc \in {"auth", "range", "stopped", "pausing"} => mem.state \in {"queued", "downloading"}
    /\ pc = "hash" => mem.state = "verifying"
    /\ pc = "stage" => mem.state \in {"extracting", "scanning"}
    /\ pc \in {"scan", "carry", "chain", "aside", "place", "record", "report"} => mem.state = "scanning"

\* How far the file may have moved from the copy.
Behind == InPass =>
    /\ job.state \in {"installed"} \cup Working => job.state = mem.state
    /\ job.held = mem.held /\ job.inst = mem.inst
    /\ mem.state # "installed" => job.rev = mem.rev
    /\ reverify # 0 => job.held

\* A request for a cleared revision is never of one the job has yet to reach.
Revs ==
    /\ reverify <= job.rev /\ job.rev <= required /\ (InPass => mem.rev <= required)
    /\ pc = "drop" => reverify # 0 /\ ~(job.held /\ job.rev = reverify)

\* A whole package is of the revision being installed.
TempOf(j) == j.state \in Working /\ temp.have = Ranges => temp.rev = j.rev
TempIs ==
    /\ TempOf(job) /\ (InPass => TempOf(mem))
    /\ pc = "range" => temp.rev = mem.rev \/ temp.have = 0

StagedIs ==
    /\ pc \in {"scan", "carry", "chain", "aside", "place"} => staging.rev = mem.rev
    /\ pc \in {"carry", "chain", "aside", "place"} => staging.rev \in scanned

PlacedOf(j) == j.state = "installed" =>
    dst.rev = j.inst /\ j.inst \in completed /\ dst.rev \in scanned
PlacedIs == ~ended =>
    /\ PlacedOf(job) /\ (InPass => PlacedOf(mem))
    /\ pc \in {"record", "report"} => dst.rev = mem.rev /\ dst.rev \in scanned

\* The cleanup closes the game of an ended assignment; nothing is renamed
\* under a game that runs.
Closed ==
    /\ cpc # "idle" => ended
    /\ cpc = "remove" => ~running
    /\ running => dst.rev # 0
    /\ pc = "place" => ~running

NeverPlayed == job.inst = 0 => saves = 0 /\ ~running

Stays == ~ended /\ ~acked =>
    /\ job.state \notin {"removing", "removed"}
    /\ InPass => mem.state \notin {"removing", "removed"}

\* Where the saves are, in a swap that no death cut.
Kept == crashes = 0 /\ ~ended /\ ~acked =>
    /\ pc \notin {"place", "record"} => old = Nothing
    /\ pc \in {"scan", "carry"} => staging.saves = 0
    /\ pc \in {"chain", "aside", "place"} => staging.saves = saves /\ ~running
    /\ pc # "place" => (job.inst # 0 => dst.rev # 0) /\ (dst.rev # 0 => dst.saves = saves)
    /\ pc = "place" => (job.inst # 0 => old.rev # 0) /\ (old.rev # 0 => old.saves = saves)

InstallInv ==
    /\ TypeOK /\ MemAt /\ Behind /\ Revs /\ TempIs /\ StagedIs
    /\ PlacedIs /\ Closed /\ NeverPlayed /\ Stays /\ Kept

InstallParts ==
    MemAt /\ Behind /\ Revs /\ TempIs /\ StagedIs /\ PlacedIs /\ Closed /\ NeverPlayed /\ Stays /\ Kept

LEMMA InvInit == Init => InstallInv
<1> SUFFICES ASSUME Init PROVE InstallInv
  OBVIOUS
<1>1. TypeOK
  BY TypeInit
<1>2. /\ job.state = "queued" /\ job.rev = 1 /\ job.inst = 0 /\ job.held = FALSE /\ pc = "wait"
      /\ reverify = 0 /\ required = 1 /\ cpc = "idle" /\ running = FALSE /\ saves = 0
      /\ old = Nothing /\ dst = Nothing
  BY DEF Init
<1>3. dst.rev = 0
  BY <1>2 DEF Nothing
<1> QED
  BY <1>1, <1>2, <1>3 DEF InstallInv, InPass, MemAt, Behind, Revs, TempIs, TempOf, Working, StagedIs, PlacedIs,
     PlacedOf, Closed, NeverPlayed, Stays, Kept

\* Requests, the service and the clock: the file moves, the copy does not.
LEMMA AskedForm ==
  ASSUME InstallInv, Asked \/ TimePasses
  PROVE  /\ UNCHANGED <<mem, pc, temp, staging, dst, old, cpc, running, scanned, saves, completed, crashes>>
         /\ job' \in Job /\ job'.held = job.held /\ job'.inst = job.inst
         /\ job'.state \in {"installed"} \cup Working => job'.state = job.state
         /\ \/ job'.rev = job.rev
            \/ job'.rev = required /\ job.rev # required /\ job.state = "installed" /\ reverify' = reverify
         /\ \/ reverify' = reverify
            \/ reverify = 0 /\ job.held /\ reverify' = job.rev
         /\ required <= required'
         /\ ended => ended'
         /\ acked => acked'
         /\ ~acked' => (job'.state \in {"removing", "removed"} => job.state \in {"removing", "removed"})
<1> USE DEF Others, asksOf, service, folders, play, history
<1>1. TypeOK /\ job \in Job /\ required \in Revisions
  BY DEF InstallInv, TypeOK
<1>2. TypeOK'
  BY <1>1, TypeAsked
<1>3. UNCHANGED <<mem, pc, temp, staging, dst, old, cpc, running, scanned, saves, completed, crashes>>
  BY DEF Asked, Pause, Resume, Retry, NewRevision, Update, ServiceHolds, begin_removal,
     request_reverification, mark, TimePasses, Driver, Same
<1>4. (ended => ended') /\ (acked => acked') /\ required <= required'
  BY <1>1 DEF Revisions, Asked, Pause, Resume, Retry, NewRevision, Update, ServiceHolds, begin_removal,
     request_reverification, mark, TimePasses, Driver
<1>5. CASE Update
  <2>1. /\ job' = [job EXCEPT !.state = "queued", !.rev = required, !.due = TRUE]
        /\ reverify' = reverify /\ job.state = "installed" /\ job.rev # required
    BY <1>5 DEF Update
  <2>2. job'.held = job.held /\ job'.inst = job.inst /\ job'.state = "queued" /\ job'.rev = required
    BY <1>1, <2>1 DEF Job
  <2> QED
    BY <1>2, <1>3, <1>4, <2>1, <2>2 DEF TypeOK, Working
<1>6. CASE ~Update
  <2>1. \/ job' = job \/ job' = [job EXCEPT !.state = "paused"] \/ job' = [job EXCEPT !.due = TRUE]
        \/ job' = [job EXCEPT !.state = "downloading"] \/ job' = [job EXCEPT !.state = "queued", !.due = TRUE]
        \/ job' = [job EXCEPT !.state = "removing", !.due = TRUE] /\ acked'
    BY <1>6 DEF Asked, Pause, Resume, Retry, NewRevision, ServiceHolds, begin_removal,
       request_reverification, mark, TimePasses
  <2>2. /\ job'.held = job.held /\ job'.inst = job.inst /\ job'.rev = job.rev
        /\ job'.state \in {job.state, "paused", "downloading", "queued"} \/ (job'.state = "removing" /\ acked')
    BY <1>1, <2>1 DEF Job
  <2>3. reverify' = reverify \/ (reverify = 0 /\ job.held /\ reverify' = job.rev)
    BY <1>6 DEF Asked, Pause, Resume, Retry, NewRevision, ServiceHolds, begin_removal,
       request_reverification, mark, TimePasses, Driver
  <2> QED
    BY <1>2, <1>3, <1>4, <2>2, <2>3 DEF TypeOK, Working
<1> QED
  BY <1>5, <1>6

LEMMA InvAsked ==
  ASSUME InstallInv, Asked \/ TimePasses
  PROVE  InstallParts'
<1>1. /\ UNCHANGED <<mem, pc, temp, staging, dst, old, cpc, running, scanned, saves, completed, crashes>>
      /\ job'.held = job.held /\ job'.inst = job.inst
      /\ job'.state \in {"installed"} \cup Working => job'.state = job.state
      /\ \/ job'.rev = job.rev
         \/ job'.rev = required /\ job.rev # required /\ job.state = "installed" /\ reverify' = reverify
      /\ \/ reverify' = reverify
         \/ reverify = 0 /\ job.held /\ reverify' = job.rev
      /\ required <= required' /\ (ended => ended') /\ (acked => acked')
      /\ ~acked' => (job'.state \in {"removing", "removed"} => job.state \in {"removing", "removed"})
  BY AskedForm
<1>2. /\ reverify \in 0 .. 2 /\ reverify' \in 0 .. 2 /\ job.rev \in Revisions /\ job'.rev \in Revisions
      /\ required \in Revisions /\ required' \in Revisions /\ mem.rev \in Revisions
  BY TypeAsked DEF InstallInv, TypeOK, Job
<1>3. MemAt'
  BY <1>1 DEF InstallInv, MemAt
<1>4. Behind'
  BY <1>1 DEF InstallInv, Behind, InPass, Working
<1>5. Revs'
  BY <1>1, <1>2 DEF InstallInv, Revs, Revisions, InPass
<1>6. TempIs'
  BY <1>1 DEF InstallInv, TempIs, TempOf, Working, InPass
<1>7. StagedIs'
  BY <1>1 DEF InstallInv, StagedIs
<1>8. PlacedIs'
  BY <1>1 DEF InstallInv, PlacedIs, PlacedOf, InPass
<1>9. Closed' /\ NeverPlayed'
  BY <1>1 DEF InstallInv, Closed, NeverPlayed
<1>10. Stays'
  BY <1>1 DEF InstallInv, Stays, InPass
<1>11. Kept'
  BY <1>1 DEF InstallInv, Kept
<1> QED
  BY <1>3, <1>4, <1>5, <1>6, <1>7, <1>8, <1>9, <1>10, <1>11 DEF InstallParts

\* The game and its launcher.
LEMMA InvGame ==
  ASSUME InstallInv, Game
  PROVE  InstallParts'
<1> USE DEF Players, service, play
<1>1. TypeOK /\ dst \in Folder /\ saves \in Nat
  BY DEF InstallInv, TypeOK
<1>2. /\ UNCHANGED <<job, mem, pc, temp, staging, old, reverify, ended, cpc, required, scanned, completed,
                     acked, crashes>>
      /\ dst'.rev = dst.rev
  BY <1>1 DEF Game, before_play, launch, GameSaves, GameExits, Folder
<1>3. MemAt' /\ Behind' /\ Revs' /\ TempIs' /\ StagedIs' /\ PlacedIs' /\ Stays'
  BY <1>2 DEF InstallInv, MemAt, Behind, Revs, TempIs, TempOf, StagedIs, PlacedIs, PlacedOf, Stays, InPass
<1>4. CASE GameSaves
  <2>1. running /\ running' = running /\ saves' = saves + 1 /\ dst'.saves = saves'
    BY <1>1, <1>4 DEF GameSaves, Folder
  <2>2. job.inst # 0
    BY <2>1 DEF InstallInv, NeverPlayed
  <2>3. Closed' /\ NeverPlayed'
    BY <1>2, <2>1, <2>2 DEF InstallInv, Closed, NeverPlayed
  <2>4. Kept'
    BY <1>2, <2>1 DEF InstallInv, Kept, Closed
  <2> QED
    BY <1>3, <2>3, <2>4 DEF InstallParts
<1>5. CASE launch
  <2>1. (running' <=> (running \/ launchable)) /\ dst' = dst /\ saves' = saves
    BY <1>5 DEF launch
  <2>2. launchable => ~ended /\ job.state = "installed" /\ job.inst # 0 /\ dst.rev # 0
    BY DEF launchable
  <2>3. pc \in {"chain", "aside", "place"} => job.state # "installed"
    BY DEF InstallInv, MemAt, Behind, InPass, Working
  <2>4. Closed' /\ NeverPlayed'
    BY <1>2, <2>1, <2>2, <2>3 DEF InstallInv, Closed, NeverPlayed
  <2>5. Kept'
    BY <1>2, <2>1, <2>2, <2>3 DEF InstallInv, Kept
  <2> QED
    BY <1>3, <2>4, <2>5 DEF InstallParts
<1>6. CASE before_play \/ GameExits
  <2>1. dst' = dst /\ saves' = saves /\ (running' => running)
    BY <1>6 DEF before_play, GameExits
  <2>2. Closed' /\ NeverPlayed' /\ Kept'
    BY <1>2, <2>1 DEF InstallInv, Closed, NeverPlayed, Kept
  <2> QED
    BY <1>3, <2>2 DEF InstallParts
<1> QED
  BY <1>4, <1>5, <1>6 DEF Game

\* The cleanup of an ended assignment, and a death of the Client.
LEMMA InvCleanup ==
  ASSUME InstallInv, Cleanup
  PROVE  InstallParts'
<1> USE DEF Cleans, service, history
<1>1. TypeOK /\ job \in Job
  BY DEF InstallInv, TypeOK
<1>2. /\ UNCHANGED <<mem, pc, staging, old, reverify, ended, required, scanned, saves, completed, acked, crashes>>
      /\ temp' \in {temp, NoTemp} /\ ended
  BY DEF Cleanup, CleanBegins, CleanCloses, CleanRemoves, CleanWrites, InstallInv, Closed
<1>3. job' = job \/ job' = [job EXCEPT !.state = "removed"]
  BY DEF Cleanup, CleanBegins, CleanCloses, CleanRemoves, CleanWrites
<1>4. /\ job'.rev = job.rev /\ job'.inst = job.inst /\ job'.held = job.held
      /\ job'.state \in {job.state, "removed"}
  BY <1>1, <1>3 DEF Job
<1>5. temp'.have = 0 \/ temp' = temp
  BY <1>2 DEF NoTemp
<1>6. MemAt' /\ StagedIs' /\ PlacedIs' /\ Stays' /\ Kept'
  BY <1>2 DEF InstallInv, MemAt, StagedIs, PlacedIs, Stays, Kept
<1>7. Behind' /\ Revs'
  BY <1>2, <1>4 DEF InstallInv, Behind, Revs, InPass, Working
<1>8. TempIs'
  BY <1>2, <1>4, <1>5 DEF InstallInv, TempIs, TempOf, InPass, Working, Ranges
<1>9. running' => running
  BY DEF Cleanup, CleanBegins, CleanCloses, CleanRemoves, CleanWrites
<1>10. Closed'
  <2>1. cpc' = "remove" => ~running'
    BY DEF Cleanup, CleanBegins, CleanCloses, CleanRemoves, CleanWrites
  <2>2. running' => dst'.rev # 0
    BY <1>9 DEF Cleanup, CleanBegins, CleanCloses, CleanRemoves, CleanWrites, InstallInv, Closed
  <2> QED
    BY <1>2, <1>9, <2>1, <2>2 DEF InstallInv, Closed
<1>11. NeverPlayed'
  BY <1>2, <1>4, <1>9 DEF InstallInv, NeverPlayed
<1> QED
  BY <1>6, <1>7, <1>8, <1>10, <1>11 DEF InstallParts

LEMMA InvCrash ==
  ASSUME InstallInv, Crash
  PROVE  InstallParts'
<1> USE DEF folders, service, history
<1>1. /\ UNCHANGED <<job, temp, staging, dst, old, reverify, ended, running, required, scanned, saves,
                     completed, acked>>
      /\ pc' = "wait" /\ cpc' = "idle"
  BY DEF Crash
<1>2. crashes' # 0
  BY DEF Crash, InstallInv, TypeOK
<1>3. MemAt' /\ Behind' /\ Revs' /\ TempIs' /\ StagedIs'
  BY <1>1 DEF InstallInv, MemAt, Behind, Revs, TempIs, TempOf, StagedIs, InPass
<1>4. PlacedIs' /\ Closed' /\ NeverPlayed' /\ Stays' /\ Kept'
  BY <1>1, <1>2 DEF InstallInv, PlacedIs, PlacedOf, Closed, NeverPlayed, Stays, Kept, InPass
<1> QED
  BY <1>3, <1>4 DEF InstallParts

-----------------------------------------------------------------------------
(* The driver.                                                             *)

LEMMA DriverKeeps ==
  ASSUME DriverStep
  PROVE  /\ UNCHANGED <<pausedAsk, ended, cpc, lpc, running, required, svcHold, saves, acked, crashes, asks>>
         /\ reverify' = reverify \/ DropReverify
BY DEF DriverStep, Driver, play, ApplyReverify, DropReverify, ReadJob, PassOver, RemoveInstead, StayPaused,
     RunInstall, run_removal, VerifyBegins, VerifyEnds, Authorize, NotAuthorized, Range, RangePaused, Stopped,
     WritePaused, Downloaded, Hash, Stage, Scan, Carry, LaunchChain, StepAside, Place, Record, Report

\* Every write of the job is of a job.
LEMMA DriverJob ==
  ASSUME TypeOK, DriverStep
  PROVE  job' \in Job /\ mem' \in Job /\ pc' \in Places
<1> USE DEF GoTo, Leave, Defer, Fail, GoOn, save
<1>1. job \in Job /\ mem \in Job /\ required \in Revisions
  BY DEF TypeOK
<1>2. /\ \A s \in States : [mem EXCEPT !.state = s] \in Job
      /\ \A b \in BOOLEAN : [mem EXCEPT !.due = b] \in Job
      /\ [mem EXCEPT !.held = TRUE] \in Job /\ [mem EXCEPT !.scan = mem.inst] \in Job
      /\ [mem EXCEPT !.state = "installed", !.inst = mem.rev, !.scan = mem.rev] \in Job
      /\ [mem EXCEPT !.rev = required, !.state = "downloading"] \in Job
  BY <1>1, JobFields DEF States
<1>3. [[mem EXCEPT !.held = TRUE] EXCEPT !.state = "failed"] \in Job
  BY <1>2, JobFields DEF States
<1>4. set_aside_refusal(job, reverify) \in Job
  BY <1>1, SetAsideForm
<1>5. CASE ApplyReverify \/ DropReverify \/ ReadJob \/ PassOver \/ RemoveInstead \/ StayPaused \/ run_removal
  BY <1>1, <1>2, <1>4, <1>5 DEF ApplyReverify, DropReverify, ReadJob, PassOver, RemoveInstead, StayPaused,
     run_removal, States, Places
<1>6. CASE RunInstall
  <2>1. mem.state \in {"queued", "downloading", "verifying", "extracting", "scanning"}
    BY <1>1, <1>6 DEF RunInstall, Runnable, is_terminal, paused, Job, States
  <2> QED
    BY <1>1, <1>6, <2>1 DEF RunInstall, Places
<1>7. CASE VerifyBegins \/ VerifyEnds \/ Authorize \/ NotAuthorized \/ Range \/ RangePaused
  BY <1>1, <1>2, <1>7 DEF VerifyBegins, VerifyEnds, Authorize, NotAuthorized, Range, RangePaused, States, Places
<1>8. CASE Stopped \/ WritePaused \/ Downloaded \/ Hash \/ Stage \/ Scan
  BY <1>1, <1>2, <1>3, <1>8 DEF Stopped, WritePaused, Downloaded, Hash, Stage, Scan, Refused, States, Places
<1>9. CASE Carry \/ LaunchChain \/ StepAside \/ Place \/ Record \/ Report
  BY <1>1, <1>2, <1>9 DEF Carry, LaunchChain, StepAside, Place, Record, Report, States, Places
<1> QED
  BY <1>5, <1>6, <1>7, <1>8, <1>9 DEF DriverStep

LEMMA TypeDriver ==
  ASSUME TypeOK, StagedIs, DriverStep
  PROVE  TypeOK'
<1> USE DEF folders
<1>1. job' \in Job /\ mem' \in Job /\ pc' \in Places
  BY DriverJob
<1>2. /\ mem.rev \in Revisions /\ mem.rev \in 0 .. 2 /\ mem.inst \in 0 .. 2 /\ required \in 0 .. 2
      /\ temp \in Package /\ staging \in Folder /\ dst \in Folder /\ old \in Folder /\ vrec \in Folder
      /\ completed \subseteq Revisions /\ scanned \subseteq Revisions /\ faults \in 0 .. MaxFaults
  BY DEF TypeOK, Job, Revisions
<1>3. temp' \in Package
  <2>1. CASE Authorize
    <3>1. [NoTemp EXCEPT !.rev = required] \in Package
      BY <1>2, FolderTypes DEF Package
    <3> QED
      BY <1>2, <2>1, <3>1 DEF Authorize
  <2>2. CASE Range
    <3>1. ASSUME temp.have < Ranges
          PROVE  /\ [temp EXCEPT !.rev = mem.rev, !.have = temp.have + 1] \in Package
                 /\ [temp EXCEPT !.rev = mem.rev, !.have = temp.have + 1, !.intact = FALSE] \in Package
      <4>1. temp.have + 1 \in 0 .. Ranges
        BY <1>2, <3>1 DEF Package, Ranges
      <4> QED
        BY <1>2, <4>1 DEF Package
    <3> QED
      BY <1>2, <2>2, <3>1 DEF Range
  <2>3. CASE ~Authorize /\ ~Range
    <3>1. temp' \in {temp, NoTemp}
      BY <2>3 DEF DriverStep, Same, ApplyReverify, DropReverify, ReadJob, PassOver, RemoveInstead, StayPaused,
       RunInstall, run_removal, VerifyBegins, VerifyEnds, Authorize, NotAuthorized, Range, RangePaused, Stopped,
       WritePaused, Downloaded, Hash, Stage, Scan, Carry, LaunchChain, StepAside, Place, Record, Report
    <3> QED
      BY <1>2, <3>1, FolderTypes
  <2> QED
    BY <2>1, <2>2, <2>3
<1>4. staging' \in Folder
  <2>1. CASE Stage
    BY <1>2, <2>1, FolderTypes DEF Stage, extract_zip, Folder, Package
  <2>2. CASE Carry
    <3>1. [staging EXCEPT !.saves = dst.saves] \in Folder
      BY <1>2 DEF Folder
    <3> QED
      BY <1>2, <2>2, <3>1, FolderTypes DEF Carry
  <2>3. CASE ~Stage /\ ~Carry
    <3>1. staging' \in {staging, Nothing}
      BY <2>3 DEF DriverStep, Same, ApplyReverify, DropReverify, ReadJob, PassOver, RemoveInstead, StayPaused,
       RunInstall, run_removal, VerifyBegins, VerifyEnds, Authorize, NotAuthorized, Range, RangePaused, Stopped,
       WritePaused, Downloaded, Hash, Stage, Scan, Carry, LaunchChain, StepAside, Place, Record, Report
    <3> QED
      BY <1>2, <3>1, FolderTypes
  <2> QED
    BY <2>1, <2>2, <2>3
<1>5. dst' \in Folder /\ old' \in Folder
  <2>1. dst' \in {dst, staging, old, Nothing} /\ old' \in {old, dst, Nothing}
    BY DEF DriverStep, Same, ApplyReverify, DropReverify, ReadJob, PassOver, RemoveInstead, StayPaused,
       RunInstall, run_removal, VerifyBegins, VerifyEnds, Authorize, NotAuthorized, Range, RangePaused, Stopped,
       WritePaused, Downloaded, Hash, Stage, Scan, Carry, LaunchChain, StepAside, Place, Record, Report
  <2> QED
    BY <1>2, <2>1, FolderTypes
<1>6. vrec' \in Folder
  <2>1. vrec' \in {vrec, Nothing} \/ vrec' = [rev |-> mem.inst, saves |-> dst.saves]
        \/ vrec' = [rev |-> mem.rev, saves |-> IF dst.saves = vrec.saves THEN dst.saves ELSE 0]
    BY DEF DriverStep, Same, ApplyReverify, DropReverify, ReadJob, PassOver, RemoveInstead, StayPaused,
       RunInstall, run_removal, VerifyBegins, VerifyEnds, Authorize, NotAuthorized, Range, RangePaused, Stopped,
       WritePaused, Downloaded, Hash, Stage, Scan, Carry, LaunchChain, StepAside, Place, Record, Report
  <2>2. /\ [rev |-> mem.inst, saves |-> dst.saves] \in Folder
        /\ [rev |-> mem.rev, saves |-> IF dst.saves = vrec.saves THEN dst.saves ELSE 0] \in Folder
    BY <1>2 DEF Folder
  <2> QED
    BY <1>2, <2>1, <2>2, FolderTypes
<1>7. scanned' \subseteq Revisions
  <2>1. CASE Scan
    <3>1. staging.rev \in Revisions
      BY <1>2, <2>1 DEF Scan, StagedIs
    <3> QED
      BY <1>2, <2>1, <3>1 DEF Scan
  <2>2. CASE VerifyEnds
    <3>1. dst.rev # 0 => dst.rev \in Revisions
      BY <1>2 DEF Folder, Revisions
    <3> QED
      BY <1>2, <2>2, <3>1 DEF VerifyEnds
  <2>3. CASE ~Scan /\ ~VerifyEnds
    <3>1. scanned' = scanned
      BY <2>3 DEF DriverStep, Same, ApplyReverify, DropReverify, ReadJob, PassOver, RemoveInstead, StayPaused,
       RunInstall, run_removal, VerifyBegins, VerifyEnds, Authorize, NotAuthorized, Range, RangePaused, Stopped,
       WritePaused, Downloaded, Hash, Stage, Scan, Carry, LaunchChain, StepAside, Place, Record, Report
    <3> QED
      BY <1>2, <3>1
  <2> QED
    BY <2>1, <2>2, <2>3
<1>8. completed' \subseteq Revisions
  <2>1. completed' = completed \/ completed' = completed \cup {mem.rev}
    BY DEF DriverStep, Same, ApplyReverify, DropReverify, ReadJob, PassOver, RemoveInstead, StayPaused,
       RunInstall, run_removal, VerifyBegins, VerifyEnds, Authorize, NotAuthorized, Range, RangePaused, Stopped,
       WritePaused, Downloaded, Hash, Stage, Scan, Carry, LaunchChain, StepAside, Place, Record, Report
  <2> QED
    BY <1>2, <2>1
<1>9. faults' \in 0 .. MaxFaults
  <2>1. Fault \/ Calm
    BY DEF DriverStep, Calm, ApplyReverify, DropReverify, ReadJob, PassOver, RemoveInstead, StayPaused,
       RunInstall, run_removal, VerifyBegins, VerifyEnds, Authorize, NotAuthorized, Range, RangePaused, Stopped,
       WritePaused, Downloaded, Hash, Stage, Scan, Carry, LaunchChain, StepAside, Place, Record, Report
  <2> QED
    BY <1>2, <2>1 DEF Fault, Calm
<1>10. verifyAsk' \in BOOLEAN
  <2>1. verifyAsk' = verifyAsk \/ verifyAsk' = TRUE \/ verifyAsk' = FALSE
    BY DEF DriverStep, Same, ApplyReverify, DropReverify, ReadJob, PassOver, RemoveInstead, StayPaused,
       RunInstall, run_removal, VerifyBegins, VerifyEnds, Authorize, NotAuthorized, Range, RangePaused, Stopped,
       WritePaused, Downloaded, Hash, Stage, Scan, Carry, LaunchChain, StepAside, Place, Record, Report
  <2> QED
    BY <2>1 DEF TypeOK
<1>11. reverify' \in 0 .. 2
  <2>1. reverify' = reverify \/ reverify' = 0
    BY DriverKeeps DEF DropReverify
  <2> QED
    BY <2>1 DEF TypeOK
<1>12. UNCHANGED <<pausedAsk, ended, cpc, lpc, running, required, svcHold, saves, acked, crashes, asks>>
  BY DriverKeeps
<1> QED
  BY <1>1, <1>3, <1>4, <1>5, <1>6, <1>7, <1>8, <1>9, <1>10, <1>11, <1>12 DEF TypeOK

\* What a step of a pass writes into the job, and from where.
Wrote ==
    /\ InPass /\ pc' # "drop"
    /\ (job' = job /\ mem' = mem) \/ (job' = mem' /\ (mem.state = "installed" => pc = "verify"))
    /\ pc' # "wait" => mem'.held = mem.held
    /\ mem'.rev = mem.rev \/ (mem'.rev = required /\ mem'.state = "downloading")
    /\ \/ mem'.inst = mem.inst
       \/ pc = "report" /\ pc' = "wait" /\ mem'.inst = mem.rev /\ mem'.inst \in completed'
    /\ mem'.state = "installed" =>
          (mem.state = "installed" /\ mem'.inst = mem.inst) \/ (pc = "report" /\ mem'.inst = mem.rev /\ mem.rev \in completed')
    /\ mem'.state \in Working => mem'.rev = mem.rev /\ (mem.state \in Working \/ (pc = "range" /\ temp.have = Ranges))
    /\ mem'.state \in {"removing", "removed"} => mem.state \in {"removing", "removed"} \/ ended

LEMMA DriverWrites ==
  ASSUME TypeOK, MemAt, DriverStep, ~ApplyReverify, ~DropReverify, ~ReadJob
  PROVE  Wrote /\ MemAt'
<1> USE DEF GoTo, Leave, Defer, Fail, GoOn, save
<1>1. mem \in Job /\ required \in Revisions
  BY DEF TypeOK
<1>2. CASE PassOver
  BY <1>2 DEF PassOver, Wrote, InPass, MemAt, Working
<1>3. CASE RemoveInstead
  <2>1. ended /\ mem.state # "installed" /\ pc = "pass" /\ pc' = "wait" /\ mem' = [mem EXCEPT !.state = "removing"] /\ job' = mem'
    BY <1>3 DEF RemoveInstead, Runnable, is_terminal
  <2> QED
    BY <1>1, <2>1 DEF Wrote, InPass, MemAt, Working, Job
<1>4. CASE StayPaused
  <2>1. /\ mem.state # "installed" /\ pc = "pass" /\ pc' = "wait"
        /\ (job' = job /\ mem' = mem) \/ (mem' = [mem EXCEPT !.state = "paused"] /\ job' = mem')
    BY <1>4 DEF StayPaused, Runnable, is_terminal
  <2> QED
    BY <1>1, <2>1 DEF Wrote, InPass, MemAt, Working, Job
<1>5. CASE RunInstall
  <2>1. mem.state \in {"queued", "downloading", "verifying", "extracting", "scanning"}
    BY <1>1, <1>5 DEF RunInstall, Runnable, is_terminal, paused, Job, States
  <2>2. /\ pc = "pass" /\ job' = job /\ mem' = mem
        /\ \/ mem.state \in {"queued", "downloading"} /\ pc' = "auth"
           \/ mem.state = "verifying" /\ pc' = "hash"
           \/ mem.state \in {"extracting", "scanning"} /\ pc' = "stage"
    BY <1>5, <2>1 DEF RunInstall, Runnable
  <2> QED
    BY <2>2 DEF Wrote, InPass, MemAt, Working
<1>6. CASE run_removal
  <2>1. /\ pc = "pass" /\ pc' = "wait" /\ job' = mem' /\ mem.state = "removing"
        /\ mem' = [mem EXCEPT !.due = FALSE] \/ mem' = [mem EXCEPT !.state = "removed"]
    BY <1>6 DEF run_removal, Runnable
  <2> QED
    BY <1>1, <2>1 DEF Wrote, InPass, MemAt, Working, Job
<1>7. CASE VerifyBegins
  BY <1>7 DEF VerifyBegins, Wrote, InPass, MemAt, Working
<1>8. CASE VerifyEnds
  <2>1. /\ pc = "verify" /\ pc' = "wait" /\ job' = mem' /\ mem.state = "installed"
        /\ mem' = [mem EXCEPT !.scan = mem.inst] \/ mem' = [mem EXCEPT !.held = TRUE] \/ mem' = mem
    BY <1>8 DEF VerifyEnds, MemAt
  <2> QED
    BY <1>1, <2>1 DEF Wrote, InPass, MemAt, Working, Job
<1>9. CASE Authorize
  <2>1. /\ pc = "auth" /\ job' = mem'
        /\ \/ pc' = "wait" /\ mem' = [mem EXCEPT !.state = "failed"]
           \/ pc' = "range" /\ mem' = [mem EXCEPT !.rev = required, !.state = "downloading"]
    BY <1>9 DEF Authorize
  <2> QED
    BY <1>1, <2>1 DEF Wrote, InPass, MemAt, Working, Job
<1>10. CASE NotAuthorized
  <2>1. /\ pc = "auth" /\ job' = mem' /\ pc' = "wait" /\ mem.state \in {"queued", "downloading"}
        /\ mem' = [mem EXCEPT !.state = "failed"] \/ mem' = [mem EXCEPT !.due = FALSE]
    BY <1>10 DEF NotAuthorized, MemAt
  <2> QED
    BY <1>1, <2>1 DEF Wrote, InPass, MemAt, Working, Job
<1>11. CASE Range
  <2>1. /\ pc = "range" /\ job' = mem' /\ pc' \in {"range", "stopped"} /\ mem.state \in {"queued", "downloading"}
        /\ mem' = mem \/ \E d \in BOOLEAN : mem' = [mem EXCEPT !.due = d]
    BY <1>11 DEF Range, MemAt
  <2> QED
    BY <1>1, <2>1 DEF Wrote, InPass, MemAt, Working, Job
<1>12. CASE RangePaused \/ Stopped
  BY <1>12 DEF RangePaused, Stopped, Wrote, InPass, MemAt, Working
<1>13. CASE WritePaused
  <2>1. pc = "pausing" /\ pc' = "wait" /\ mem' = [mem EXCEPT !.state = "paused"] /\ job' = mem'
    BY <1>13 DEF WritePaused
  <2> QED
    BY <1>1, <2>1 DEF Wrote, InPass, MemAt, Working, Job
<1>14. CASE Downloaded
  <2>1. pc = "range" /\ temp.have = Ranges /\ pc' = "hash" /\ mem' = [mem EXCEPT !.state = "verifying"] /\ job' = mem'
    BY <1>14 DEF Downloaded
  <2> QED
    BY <1>1, <2>1 DEF Wrote, InPass, MemAt, Working, Job
<1>15. CASE Hash
  <2>1. /\ pc = "hash" /\ job' = mem' /\ mem.state = "verifying"
        /\ \/ pc' = "stage" /\ mem' = [mem EXCEPT !.state = "extracting"]
           \/ pc' = "wait" /\ mem' = [mem EXCEPT !.state = "failed"]
           \/ pc' = "wait" /\ mem' = [[mem EXCEPT !.held = TRUE] EXCEPT !.state = "failed"]
    BY <1>15 DEF Hash, Refused, MemAt
  <2> QED
    BY <1>1, <2>1 DEF Wrote, InPass, MemAt, Working, Job
<1>16. CASE Stage
  <2>1. /\ pc = "stage" /\ job' = mem' /\ mem.state \in {"extracting", "scanning"}
        /\ \/ pc' = "wait" /\ mem' = [mem EXCEPT !.due = FALSE]
           \/ pc' = "scan" /\ mem' = [mem EXCEPT !.state = "scanning"]
           \/ pc' = "wait" /\ mem' = [mem EXCEPT !.state = "failed"]
           \/ pc' = "wait" /\ mem' = [[mem EXCEPT !.held = TRUE] EXCEPT !.state = "failed"]
    BY <1>16 DEF Stage, Refused, MemAt
  <2> QED
    BY <1>1, <2>1 DEF Wrote, InPass, MemAt, Working, Job
<1>17. CASE Scan
  <2>1. /\ pc = "scan" /\ job' = mem' /\ mem.state = "scanning"
        /\ \/ pc' = "carry" /\ mem' = mem
           \/ pc' = "wait" /\ mem' = [mem EXCEPT !.state = "failed"]
           \/ pc' = "wait" /\ mem' = [[mem EXCEPT !.held = TRUE] EXCEPT !.state = "failed"]
    BY <1>17 DEF Scan, Refused, MemAt
  <2> QED
    BY <1>1, <2>1 DEF Wrote, InPass, MemAt, Working, Job
<1>18. CASE Carry \/ LaunchChain \/ StepAside \/ Place \/ Record
  <2>1. /\ pc \in {"carry", "chain", "aside", "place", "record"} /\ mem.state = "scanning"
        /\ \/ pc' \in {"chain", "aside", "place", "record", "report"} /\ mem' = mem /\ job' = job
           \/ pc' = "wait" /\ job' = mem' /\ mem' = [mem EXCEPT !.due = FALSE]
           \/ pc' = "wait" /\ job' = mem' /\ mem' = [mem EXCEPT !.state = "failed"]
    BY <1>18 DEF Carry, LaunchChain, StepAside, Place, Record, MemAt
  <2> QED
    BY <1>1, <2>1 DEF Wrote, InPass, MemAt, Working, Job
<1>19. CASE Report
  <2>1. /\ pc = "report" /\ job' = mem' /\ mem.state = "scanning" /\ pc' = "wait"
        /\ \/ mem' = [mem EXCEPT !.state = "installed", !.inst = mem.rev, !.scan = mem.rev]
              /\ mem.rev \in completed'
           \/ mem' = [mem EXCEPT !.state = "failed"]
           \/ mem' = [mem EXCEPT !.state = "queued"]
           \/ mem' = [mem EXCEPT !.due = FALSE]
    BY <1>19 DEF Report, MemAt
  <2> QED
    BY <1>1, <2>1 DEF Wrote, InPass, MemAt, Working, Job
<1> QED
  BY <1>2, <1>3, <1>4, <1>5, <1>6, <1>7, <1>8, <1>9, <1>10, <1>11, <1>12, <1>13, <1>14, <1>15, <1>16, <1>17,
     <1>18, <1>19 DEF DriverStep

\* The durable request, and the reading of the job.
LEMMA InvReads ==
  ASSUME InstallInv, ApplyReverify \/ DropReverify \/ ReadJob
  PROVE  InstallParts'
<1> USE DEF folders
<1>1. TypeOK /\ job \in Job /\ UNCHANGED <<ended, cpc, running, required, saves, acked, crashes>>
  BY DriverKeeps DEF InstallInv, TypeOK, DriverStep
<1>2. UNCHANGED <<temp, staging, dst, old, scanned, completed>>
  BY DEF ApplyReverify, DropReverify, ReadJob, Same
<1>3. CASE ApplyReverify
  <2>1. pc = "wait" /\ pc' = "drop" /\ reverify # 0 /\ reverify' = reverify /\ mem' = mem
        /\ job' = set_aside_refusal(job, reverify)
    BY <1>3 DEF ApplyReverify, Driver
  <2>2. /\ job'.state \in {job.state, "queued"} /\ job'.rev = job.rev /\ job'.inst = job.inst
        /\ job'.held => job.rev # reverify
    BY <1>1, <2>1, SetAsideForm
  <2>3. MemAt' /\ Behind' /\ StagedIs'
    BY <2>1 DEF MemAt, Behind, StagedIs, InPass
  <2>4. Revs' /\ TempIs'
    BY <1>1, <1>2, <2>1, <2>2 DEF InstallInv, Revs, TempIs, TempOf, Working, InPass
  <2>5. PlacedIs' /\ Closed' /\ NeverPlayed' /\ Stays'
    BY <1>1, <1>2, <2>1, <2>2 DEF InstallInv, PlacedIs, PlacedOf, Closed, NeverPlayed, Stays, InPass
  <2>6. Kept'
    BY <1>1, <1>2, <2>1, <2>2 DEF InstallInv, Kept
  <2> QED
    BY <2>3, <2>4, <2>5, <2>6 DEF InstallParts
<1>4. CASE DropReverify
  <2>1. pc = "drop" /\ pc' = "wait" /\ reverify' = 0 /\ mem' = mem /\ job' = job
    BY <1>4 DEF DropReverify
  <2>2. MemAt' /\ Behind' /\ StagedIs' /\ TempIs'
    BY <1>2, <2>1 DEF MemAt, Behind, StagedIs, InPass, InstallInv, TempIs, TempOf
  <2>3. Revs'
    BY <1>1, <2>1 DEF InstallInv, Revs, InPass, TypeOK, Job, Revisions
  <2>4. PlacedIs' /\ Closed' /\ NeverPlayed' /\ Stays'
    BY <1>1, <1>2, <2>1 DEF InstallInv, PlacedIs, PlacedOf, Closed, NeverPlayed, Stays, InPass
  <2>5. Kept'
    BY <1>1, <1>2, <2>1 DEF InstallInv, Kept
  <2> QED
    BY <2>2, <2>3, <2>4, <2>5 DEF InstallParts
<1>5. CASE ReadJob
  <2>1. pc = "wait" /\ pc' = "pass" /\ reverify = 0 /\ reverify' = 0 /\ mem' = job /\ job' = job
    BY <1>5 DEF ReadJob, Driver
  <2>2. MemAt' /\ Behind' /\ StagedIs' /\ TempIs'
    BY <1>2, <2>1 DEF MemAt, Behind, StagedIs, InPass, InstallInv, TempIs, TempOf
  <2>3. Revs'
    BY <1>1, <2>1 DEF InstallInv, Revs, InPass
  <2>4. PlacedIs' /\ Closed' /\ NeverPlayed' /\ Stays'
    BY <1>1, <1>2, <2>1 DEF InstallInv, PlacedIs, PlacedOf, Closed, NeverPlayed, Stays, InPass
  <2>5. Kept'
    BY <1>1, <1>2, <2>1 DEF InstallInv, Kept
  <2> QED
    BY <2>2, <2>3, <2>4, <2>5 DEF InstallParts
<1> QED
  BY <1>3, <1>4, <1>5

\* What a step of a pass does to the package and the folders.
LEMMA DriverFolders ==
  ASSUME DriverStep
  PROVE  /\ temp' = temp \/ temp'.have = 0 \/ Range
         /\ UNCHANGED <<dst, old>> \/ (run_removal /\ ~running /\ old' = old) \/ StepAside \/ Place \/ Record
         /\ dst' = dst \/ (run_removal /\ ~running) \/ StepAside \/ Place
         /\ staging' = staging \/ pc \in {"stage", "scan", "carry", "chain", "aside", "place"}
         /\ scanned \subseteq scanned' /\ completed \subseteq completed'
<1> USE DEF folders
<1>1. temp' = temp \/ temp'.have = 0 \/ Range
  <2>1. temp' \in {temp, NoTemp, [NoTemp EXCEPT !.rev = required]} \/ Range
    BY DEF DriverStep, Same, ApplyReverify, DropReverify, ReadJob, PassOver, RemoveInstead, StayPaused,
       RunInstall, run_removal, VerifyBegins, VerifyEnds, Authorize, NotAuthorized, Range, RangePaused, Stopped,
       WritePaused, Downloaded, Hash, Stage, Scan, Carry, LaunchChain, StepAside, Place, Record, Report
  <2> QED
    BY <2>1 DEF NoTemp
<1>2. UNCHANGED <<dst, old>> \/ (run_removal /\ ~running /\ old' = old) \/ StepAside \/ Place \/ Record
  BY DEF DriverStep, Same, busy, ApplyReverify, DropReverify, ReadJob, PassOver, RemoveInstead, StayPaused,
     RunInstall, run_removal, VerifyBegins, VerifyEnds, Authorize, NotAuthorized, Range, RangePaused, Stopped,
     WritePaused, Downloaded, Hash, Stage, Scan, Carry, LaunchChain, StepAside, Place, Record, Report
<1>3. dst' = dst \/ (run_removal /\ ~running) \/ StepAside \/ Place
  BY DEF DriverStep, Same, busy, ApplyReverify, DropReverify, ReadJob, PassOver, RemoveInstead, StayPaused,
     RunInstall, run_removal, VerifyBegins, VerifyEnds, Authorize, NotAuthorized, Range, RangePaused, Stopped,
     WritePaused, Downloaded, Hash, Stage, Scan, Carry, LaunchChain, StepAside, Place, Record, Report
<1>4. staging' = staging \/ pc \in {"stage", "scan", "carry", "chain", "aside", "place"}
  BY DEF DriverStep, Same, ApplyReverify, DropReverify, ReadJob, PassOver, RemoveInstead, StayPaused,
     RunInstall, run_removal, VerifyBegins, VerifyEnds, Authorize, NotAuthorized, Range, RangePaused, Stopped,
     WritePaused, Downloaded, Hash, Stage, Scan, Carry, LaunchChain, StepAside, Place, Record, Report
<1>5. scanned \subseteq scanned' /\ completed \subseteq completed'
  BY DEF DriverStep, Same, ApplyReverify, DropReverify, ReadJob, PassOver, RemoveInstead, StayPaused,
     RunInstall, run_removal, VerifyBegins, VerifyEnds, Authorize, NotAuthorized, Range, RangePaused, Stopped,
     WritePaused, Downloaded, Hash, Stage, Scan, Carry, LaunchChain, StepAside, Place, Record, Report
<1> QED
  BY <1>1, <1>2, <1>3, <1>4, <1>5

\* Only an authorization opens the download.
LEMMA RangeEntered ==
  ASSUME TypeOK, DriverStep, pc' = "range"
  PROVE  Authorize \/ Range
<1> USE DEF GoTo, Leave, Defer, Fail, GoOn, save
<1>1. ~ApplyReverify /\ ~DropReverify /\ ~ReadJob /\ ~PassOver /\ ~RemoveInstead /\ ~run_removal
  BY DEF ApplyReverify, DropReverify, ReadJob, PassOver, RemoveInstead, run_removal
<1>2. ~StayPaused
  BY DEF StayPaused
<1>3. ~VerifyBegins /\ ~VerifyEnds /\ ~NotAuthorized /\ ~RangePaused /\ ~Stopped /\ ~WritePaused /\ ~Downloaded
  BY DEF VerifyBegins, VerifyEnds, NotAuthorized, RangePaused, Stopped, WritePaused, Downloaded
<1>4. ~Hash /\ ~Stage /\ ~Scan /\ ~Carry /\ ~LaunchChain
  BY DEF Hash, Stage, Scan, Carry, LaunchChain, Refused
<1>5. ~StepAside /\ ~Place /\ ~Record /\ ~Report
  BY DEF StepAside, Place, Record, Report
<1>6. ~RunInstall
  <2>1. ASSUME RunInstall PROVE FALSE
    <3>1. mem.state \in {"queued", "downloading", "verifying", "extracting", "scanning"}
      BY <2>1 DEF RunInstall, Runnable, is_terminal, paused, TypeOK, Job, States
    <3> QED
      BY <2>1, <3>1 DEF RunInstall
  <2> QED
    BY <2>1
<1> QED
  BY <1>1, <1>2, <1>3, <1>4, <1>5, <1>6 DEF DriverStep

\* Only the staged content reaches the later places.
LEMMA StagingEntered ==
  ASSUME TypeOK, DriverStep, pc' \in {"scan", "carry", "chain", "aside", "place"}
  PROVE  Stage \/ Scan \/ Carry \/ LaunchChain \/ StepAside
<1> USE DEF GoTo, Leave, Defer, Fail, GoOn, save
<1>1. ~ApplyReverify /\ ~DropReverify /\ ~ReadJob /\ ~PassOver /\ ~RemoveInstead /\ ~run_removal
  BY DEF ApplyReverify, DropReverify, ReadJob, PassOver, RemoveInstead, run_removal
<1>2. ~StayPaused
  BY DEF StayPaused
<1>3. ~VerifyBegins /\ ~VerifyEnds /\ ~NotAuthorized /\ ~RangePaused /\ ~Stopped /\ ~WritePaused /\ ~Downloaded
  BY DEF VerifyBegins, VerifyEnds, NotAuthorized, RangePaused, Stopped, WritePaused, Downloaded
<1>4. ~Hash /\ ~Place /\ ~Record /\ ~Report /\ ~Authorize /\ ~Range
  BY DEF Hash, Refused, Place, Record, Report, Authorize, Range
<1>5. ~RunInstall
  <2>1. ASSUME RunInstall PROVE FALSE
    <3>1. mem.state \in {"queued", "downloading", "verifying", "extracting", "scanning"}
      BY <2>1 DEF RunInstall, Runnable, is_terminal, paused, TypeOK, Job, States
    <3> QED
      BY <2>1, <3>1 DEF RunInstall
  <2> QED
    BY <2>1
<1> QED
  BY <1>1, <1>2, <1>3, <1>4, <1>5 DEF DriverStep

\* The places of the swap are left by the swap's own steps only.
LEMMA SwapPlaces ==
  ASSUME TypeOK, DriverStep
  PROVE  /\ pc = "place" => Place
         /\ pc = "record" => Record
         /\ pc' = "record" => Place
         /\ pc' = "report" => Record
<1>1. ASSUME pc \in {"place", "record"} PROVE (pc = "place" /\ Place) \/ (pc = "record" /\ Record)
  <2> USE <1>1
  <2>1. ~ApplyReverify /\ ~DropReverify /\ ~ReadJob /\ ~PassOver /\ ~VerifyBegins /\ ~VerifyEnds
    BY DEF ApplyReverify, DropReverify, ReadJob, PassOver, VerifyBegins, VerifyEnds
  <2>2. ~RemoveInstead /\ ~StayPaused /\ ~RunInstall /\ ~run_removal
    BY DEF RemoveInstead, StayPaused, RunInstall, run_removal, Runnable
  <2>3. ~Authorize /\ ~NotAuthorized /\ ~Range /\ ~RangePaused /\ ~Stopped /\ ~WritePaused /\ ~Downloaded
    BY DEF Authorize, NotAuthorized, Range, RangePaused, Stopped, WritePaused, Downloaded
  <2>4. ~Hash /\ ~Stage /\ ~Scan /\ ~Carry /\ ~LaunchChain /\ ~StepAside /\ ~Report
    BY DEF Hash, Stage, Scan, Carry, LaunchChain, StepAside, Report
  <2>5. (Place => pc = "place") /\ (Record => pc = "record")
    BY DEF Place, Record
  <2> QED
    BY <2>1, <2>2, <2>3, <2>4, <2>5 DEF DriverStep
<1>2. ASSUME pc' \in {"record", "report"} PROVE Place \/ Record
  <2> USE <1>2 DEF GoTo, Leave, Defer, Fail, GoOn, save
  <2>1. ~ApplyReverify /\ ~DropReverify /\ ~ReadJob /\ ~PassOver /\ ~RemoveInstead /\ ~run_removal
    BY DEF ApplyReverify, DropReverify, ReadJob, PassOver, RemoveInstead, run_removal
  <2>2. ~StayPaused
    BY DEF StayPaused
  <2>3. ~VerifyBegins /\ ~VerifyEnds /\ ~NotAuthorized /\ ~RangePaused /\ ~Stopped /\ ~WritePaused /\ ~Downloaded
    BY DEF VerifyBegins, VerifyEnds, NotAuthorized, RangePaused, Stopped, WritePaused, Downloaded
  <2>4. ~Hash /\ ~Stage /\ ~Scan /\ ~Carry /\ ~LaunchChain
    BY DEF Hash, Stage, Scan, Carry, LaunchChain, Refused
  <2>5. ~StepAside /\ ~Report /\ ~Authorize /\ ~Range
    BY DEF StepAside, Report, Authorize, Range
  <2>6. ~RunInstall
    <3>1. ASSUME RunInstall PROVE FALSE
      <4>1. mem.state \in {"queued", "downloading", "verifying", "extracting", "scanning"}
        BY <3>1 DEF RunInstall, Runnable, is_terminal, paused, TypeOK, Job, States
      <4> QED
        BY <3>1, <4>1 DEF RunInstall
    <3> QED
      BY <3>1
  <2> QED
    BY <2>1, <2>2, <2>3, <2>4, <2>5, <2>6 DEF DriverStep
<1>3. (Place => pc' # "report") /\ (Record => pc' = "report")
  BY DEF Place, Record, GoTo, Leave, Defer, Fail
<1> QED
  BY <1>1, <1>2, <1>3

\* The two renames, and the removal.
LEMMA SwapForms ==
  ASSUME TypeOK
  PROVE  /\ StepAside =>
              /\ pc = "aside"
              /\ \/ ~running /\ old' = dst /\ dst' = Nothing /\ staging' = staging /\ pc' = "place"
                    /\ mem' = mem /\ job' = job
                 \/ old' = Nothing /\ dst' = dst /\ pc' = "wait" /\ job' = mem'
                    /\ mem'.state = mem.state /\ mem'.inst = mem.inst
         /\ Place =>
              /\ pc = "place"
              /\ \/ dst' = staging /\ old' = old /\ pc' = "record" /\ mem' = mem /\ job' = job
                 \/ dst' = old /\ old' = Nothing /\ pc' = "wait" /\ job' = mem'
                    /\ mem'.state \in {mem.state, "failed"} /\ mem'.inst = mem.inst
         /\ run_removal => /\ pc = "pass" /\ pc' = "wait" /\ mem.state = "removing" /\ job' = mem'
                           /\ mem'.state \in {"removing", "removed"}
<1>1. mem \in Job
  BY DEF TypeOK
<1>2. /\ [mem EXCEPT !.due = FALSE].state = mem.state /\ [mem EXCEPT !.due = FALSE].inst = mem.inst
      /\ [mem EXCEPT !.state = "failed"].state = "failed" /\ [mem EXCEPT !.state = "failed"].inst = mem.inst
      /\ [mem EXCEPT !.state = "removed"].state = "removed"
  BY <1>1 DEF Job
<1>3. StepAside =>
        /\ pc = "aside"
        /\ \/ ~running /\ old' = dst /\ dst' = Nothing /\ staging' = staging /\ pc' = "place"
              /\ mem' = mem /\ job' = job
           \/ old' = Nothing /\ dst' = dst /\ pc' = "wait" /\ job' = mem' /\ mem' = [mem EXCEPT !.due = FALSE]
  BY DEF StepAside, GoTo, Defer, Leave, save
<1>4. Place =>
        /\ pc = "place"
        /\ \/ dst' = staging /\ old' = old /\ pc' = "record" /\ mem' = mem /\ job' = job
           \/ dst' = old /\ old' = Nothing /\ pc' = "wait" /\ job' = mem'
              /\ (mem' = [mem EXCEPT !.due = FALSE] \/ mem' = [mem EXCEPT !.state = "failed"])
  BY DEF Place, GoTo, Defer, Leave, Fail, save
<1>5. run_removal =>
        /\ pc = "pass" /\ pc' = "wait" /\ mem.state = "removing" /\ job' = mem'
        /\ mem' = [mem EXCEPT !.due = FALSE] \/ mem' = [mem EXCEPT !.state = "removed"]
  BY DEF run_removal, Runnable, Defer, Leave, save
<1> QED
  BY <1>2, <1>3, <1>4, <1>5

\* A step of a pass.
LEMMA InvPass ==
  ASSUME InstallInv, DriverStep, ~ApplyReverify, ~DropReverify, ~ReadJob
  PROVE  InstallParts'
<1>1. /\ TypeOK /\ MemAt /\ Behind /\ Wrote /\ MemAt'
      /\ UNCHANGED <<ended, cpc, running, required, saves, acked, crashes>> /\ reverify' = reverify
  BY DriverKeeps, DriverWrites DEF InstallInv
<1>2. /\ temp' = temp \/ temp'.have = 0 \/ Range
      /\ UNCHANGED <<dst, old>> \/ (run_removal /\ ~running /\ old' = old) \/ StepAside \/ Place \/ Record
      /\ dst' = dst \/ (run_removal /\ ~running) \/ StepAside \/ Place
      /\ staging' = staging \/ pc \in {"stage", "scan", "carry", "chain", "aside", "place"}
      /\ scanned \subseteq scanned' /\ completed \subseteq completed'
  BY DriverFolders
<1>3. /\ job \in Job /\ mem \in Job /\ job' \in Job /\ mem' \in Job /\ mem.rev \in Revisions
      /\ job.rev \in Revisions /\ required \in Revisions /\ reverify \in 0 .. 2
  BY <1>1, DriverJob DEF TypeOK, Job
<1>4. mem.state = "installed" => pc \in {"pass", "verify"}
  BY <1>1 DEF MemAt, Wrote, InPass, TypeOK, Places
<1>5. Behind'
  <2>1. CASE pc' = "wait"
    BY <2>1 DEF Behind, InPass
  <2>2. CASE job' = job /\ mem' = mem
    BY <1>1, <2>2 DEF Behind, Wrote
  <2>3. CASE pc' # "wait" /\ job' = mem'
    BY <1>1, <2>3 DEF Behind, Wrote
  <2> QED
    BY <1>1, <2>1, <2>2, <2>3 DEF Wrote
<1>6. Revs'
  <2>1. mem'.rev \in {mem.rev, required} /\ mem.rev <= required
    BY <1>1 DEF Wrote, InstallInv, Revs
  <2>2. CASE job' = job /\ mem' = mem
    BY <1>1, <1>3, <2>1, <2>2 DEF InstallInv, Revs, Wrote, Revisions
  <2>3. CASE job' = mem' /\ (mem.state = "installed" => pc = "verify")
    <3>1. CASE mem.state = "installed"
      <4>1. ~job.held
        BY <1>1, <2>3, <3>1 DEF MemAt, Behind, Wrote
      <4>2. reverify = 0
        BY <1>1, <4>1 DEF Behind, Wrote
      <4> QED
        BY <1>1, <1>3, <2>1, <2>3, <4>2 DEF Revs, Wrote, Revisions
    <3>2. CASE mem.state # "installed"
      <4>1. job.rev = mem.rev
        BY <1>1, <3>2 DEF Behind, Wrote
      <4> QED
        BY <1>1, <1>3, <2>1, <2>3, <4>1 DEF InstallInv, Revs, Wrote, Revisions
    <3> QED
      BY <3>1, <3>2
  <2> QED
    BY <1>1, <2>2, <2>3 DEF Wrote
<1>7. TempIs'
  <2>2. CASE temp'.have = 0
    BY <2>2 DEF TempIs, TempOf, Ranges
  <2>3. CASE Range
    <3>0. temp.have \in Nat /\ temp \in Package
      BY <1>1 DEF TypeOK, Package, Ranges
    <3>1. pc = "range" /\ temp.have # Ranges /\ mem.state \in {"queued", "downloading"} /\ job' = mem'
          /\ mem'.state \in {"queued", "downloading"} /\ mem'.rev = mem.rev
          /\ (temp'.rev = mem.rev \/ temp' = temp)
      <4>1. pc = "range" /\ temp.have < Ranges /\ mem.state \in {"queued", "downloading"}
        BY <1>1, <2>3 DEF Range, MemAt
      <4>2. job' = mem' /\ (mem' = mem \/ \E d \in BOOLEAN : mem' = [mem EXCEPT !.due = d])
        BY <2>3 DEF Range, GoOn, save
      <4>3. mem'.state = mem.state /\ mem'.rev = mem.rev
        BY <1>3, <4>2 DEF Job
      <4>4. temp' = temp \/ temp'.rev = mem.rev
        BY <2>3, <3>0 DEF Range, Package
      <4> QED
        BY <3>0, <4>1, <4>2, <4>3, <4>4 DEF Ranges
    <3> QED
      BY <1>1, <3>1 DEF InstallInv, TempIs, TempOf, Working
  <2>4. CASE temp' = temp /\ ~Range
    <3>1. TempOf(mem)'
      BY <1>1, <2>4 DEF Wrote, InstallInv, TempIs, TempOf, Ranges
    <3>2. TempOf(job)'
      BY <1>1, <2>4, <3>1 DEF Wrote, InstallInv, TempIs, TempOf
    <3>3. pc' = "range" => temp'.rev = mem'.rev \/ temp'.have = 0
      <4> SUFFICES ASSUME pc' = "range" PROVE temp'.rev = mem'.rev \/ temp'.have = 0
        OBVIOUS
      <4>1. Authorize
        BY <1>1, <2>4, RangeEntered
      <4>2. mem' = [mem EXCEPT !.rev = required, !.state = "downloading"]
            /\ (temp.rev = required \/ temp' = [NoTemp EXCEPT !.rev = required])
        BY <4>1 DEF Authorize, GoOn, save, Fail, Leave
      <4>3. mem'.rev = required
        BY <1>3, <4>2 DEF Job
      <4> QED
        BY <2>4, <4>2, <4>3 DEF NoTemp
    <3> QED
      BY <3>1, <3>2, <3>3 DEF TempIs
  <2> QED
    BY <1>2, <2>2, <2>3, <2>4
\* The staged content is the verified package's.
<1>8. StagedIs'
  <2>1. CASE Stage
    <3>1. pc' \in {"wait", "scan"} /\ pc = "stage"
      BY <2>1 DEF Stage, Leave, Defer, Fail, GoOn, Refused
    <3>2. ASSUME pc' = "scan" PROVE staging'.rev = mem'.rev
      <4>1. temp.have = Ranges /\ staging' = [rev |-> temp.rev, saves |-> 0]
            /\ mem' = [mem EXCEPT !.state = "scanning"]
        BY <2>1, <3>2 DEF Stage, Leave, Defer, Fail, GoOn, Refused, extract_zip, save
      <4>2. mem'.rev = mem.rev /\ mem.state \in Working
        BY <1>1, <1>3, <3>1, <4>1 DEF MemAt, Working, Job
      <4>3. temp.rev = mem.rev
        BY <1>1, <4>1, <4>2 DEF InstallInv, TempIs, TempOf, Wrote
      <4> QED
        BY <4>1, <4>2, <4>3
    <3> QED
      BY <3>1, <3>2 DEF StagedIs
  <2>2. CASE Scan
    <3>1. pc' = "wait" \/ (pc = "scan" /\ pc' = "carry" /\ mem' = mem /\ staging' = staging
                            /\ scanned' = scanned \cup {staging.rev})
      BY <2>2 DEF Scan, Leave, Fail, GoOn, Refused, save
    <3> QED
      BY <3>1 DEF InstallInv, StagedIs
  <2>3. CASE Carry
    <3>1. pc' = "wait" \/ (pc = "carry" /\ pc' = "chain" /\ mem' = mem
                            /\ staging' \in {staging, [staging EXCEPT !.saves = dst.saves]})
      BY <2>3 DEF Carry, Leave, Defer, GoTo
    <3>2. pc' = "wait" \/ staging'.rev = staging.rev
      BY <1>1, <3>1 DEF TypeOK, Folder
    <3> QED
      BY <1>2, <3>1, <3>2 DEF InstallInv, StagedIs
  <2>4. CASE LaunchChain \/ StepAside
    <3>1. pc' = "wait" \/ (pc \in {"chain", "aside"} /\ pc' \in {"aside", "place"} /\ mem' = mem
                            /\ staging' = staging)
      BY <2>4 DEF LaunchChain, StepAside, Leave, Fail, Defer, GoTo
    <3> QED
      BY <1>2, <3>1 DEF InstallInv, StagedIs
  <2>5. CASE ~Stage /\ ~Scan /\ ~Carry /\ ~LaunchChain /\ ~StepAside
    <3>1. pc' \notin {"scan", "carry", "chain", "aside", "place"}
      BY <1>1, <2>5, StagingEntered
    <3> QED
      BY <3>1 DEF StagedIs
  <2> QED
    BY <2>1, <2>2, <2>3, <2>4, <2>5
<1>9. PlacedIs'
  <2> SUFFICES ASSUME ~ended PROVE PlacedIs'
    BY <1>1 DEF PlacedIs
  <2>0. /\ PlacedOf(job) /\ PlacedOf(mem)
        /\ pc \in {"record", "report"} => dst.rev = mem.rev /\ dst.rev \in scanned
    BY <1>1 DEF InstallInv, PlacedIs, Wrote
  <2>1. ASSUME pc \in {"aside", "place"} PROVE mem.state = "scanning" /\ job.state # "installed"
    BY <1>1, <2>1 DEF MemAt, Behind, Wrote, Working
  <2>2. CASE StepAside
    <3>1. job'.state # "installed" /\ mem'.state # "installed" /\ pc' \in {"wait", "place"}
      BY <1>1, <2>1, <2>2, SwapForms
    <3> QED
      BY <3>1 DEF PlacedIs, PlacedOf
  <2>3. CASE Place
    <3>1. job'.state # "installed" /\ mem'.state # "installed" /\ pc' \in {"wait", "record"}
      BY <1>1, <2>1, <2>3, SwapForms
    <3>2. pc' = "record" => dst'.rev = mem'.rev /\ dst'.rev \in scanned
      BY <1>1, <2>3, SwapForms DEF InstallInv, StagedIs
    <3> QED
      BY <1>2, <3>1, <3>2 DEF PlacedIs, PlacedOf
  <2>4. CASE run_removal
    BY <1>1, <2>4, SwapForms DEF PlacedIs, PlacedOf, InPass
  <2>5. CASE dst' = dst /\ ~StepAside /\ ~Place
    <3>1. PlacedOf(mem)'
      BY <1>1, <1>2, <2>0, <2>5 DEF PlacedOf, Wrote
    <3>2. PlacedOf(job)'
      BY <1>1, <1>2, <2>0, <2>5, <3>1 DEF PlacedOf, Wrote
    <3>3. pc' \in {"record", "report"} => dst'.rev = mem'.rev /\ dst'.rev \in scanned'
      <4> SUFFICES ASSUME pc' \in {"record", "report"} PROVE dst'.rev = mem'.rev /\ dst'.rev \in scanned'
        OBVIOUS
      <4>1. pc = "record" /\ mem' = mem
        BY <1>1, <2>5, SwapPlaces DEF Record, GoTo
      <4> QED
        BY <1>2, <2>0, <2>5, <4>1
    <3> QED
      BY <3>1, <3>2, <3>3 DEF PlacedIs
  <2> QED
    BY <1>2, <2>2, <2>3, <2>4, <2>5
<1>10. Closed'
  <2>1. (running => dst.rev # 0) /\ (pc = "place" => ~running)
    BY DEF InstallInv, Closed
  <2>2. running' => dst'.rev # 0
    BY <1>1, <1>2, <2>1, SwapForms
  <2>3. pc' = "place" => ~running'
    <3>1. Stage \/ Scan \/ Carry => pc' # "place"
      BY DEF Stage, Scan, Carry, GoTo, Leave, Defer, Fail, GoOn, Refused
    <3>2. LaunchChain /\ pc' = "place" => dst.rev = 0
      BY DEF LaunchChain, GoTo, Leave, Defer, Fail, updating
    <3> QED
      BY <1>1, <2>1, <3>1, <3>2, StagingEntered, SwapForms
  <2> QED
    BY <1>1, <2>2, <2>3 DEF InstallInv, Closed
<1>11. NeverPlayed'
  <2>1. job'.inst = 0 => job.inst = 0
    BY <1>1, <1>3 DEF Behind, Wrote, Revisions
  <2> QED
    BY <1>1, <2>1 DEF InstallInv, NeverPlayed
<1>12. Stays'
  BY <1>1 DEF InstallInv, Stays, Wrote
<1>13. Kept'
  <2> SUFFICES ASSUME crashes = 0, ~ended, ~acked PROVE Kept'
    BY <1>1 DEF Kept
  <2>1. /\ pc \notin {"place", "record"} => old = Nothing
        /\ pc \in {"scan", "carry"} => staging.saves = 0
        /\ pc \in {"chain", "aside", "place"} => staging.saves = saves /\ ~running
        /\ pc # "place" => (job.inst # 0 => dst.rev # 0) /\ (dst.rev # 0 => dst.saves = saves)
        /\ pc = "place" => (job.inst # 0 => old.rev # 0) /\ (old.rev # 0 => old.saves = saves)
    BY DEF InstallInv, Kept
  <2>2. (job.inst = 0 => saves = 0 /\ ~running) /\ Nothing.rev = 0 /\ mem.rev # 0
    BY <1>3 DEF InstallInv, NeverPlayed, Nothing, Revisions
  <2>3. ~run_removal
    BY <1>1, SwapForms DEF InstallInv, Stays, Wrote
  <2>4. job'.inst = job.inst \/ (pc = "report" /\ dst.rev # 0)
    BY <1>1, <2>2 DEF Wrote, Behind, InstallInv, PlacedIs
  <2>5. CASE Stage
    <3>1. pc = "stage" /\ UNCHANGED <<dst, old>> /\ (pc' = "wait" \/ (pc' = "scan" /\ staging'.saves = 0))
      BY <2>5 DEF Stage, extract_zip, Leave, Defer, Fail, GoOn, Refused
    <3> QED
      BY <1>1, <2>1, <2>4, <3>1 DEF Kept
  <2>6. CASE Scan
    <3>1. pc = "scan" /\ UNCHANGED <<dst, old>> /\ (pc' = "wait" \/ (pc' = "carry" /\ staging' = staging))
      BY <2>6 DEF Scan, Leave, Fail, GoOn, Refused
    <3> QED
      BY <1>1, <2>1, <2>4, <3>1 DEF Kept
  <2>7. CASE Carry
    <3>1. /\ pc = "carry" /\ UNCHANGED <<dst, old>>
          /\ \/ pc' = "wait"
             \/ pc' = "chain" /\ dst.rev = 0 /\ staging' = staging
             \/ pc' = "chain" /\ dst.rev # 0 /\ ~running /\ staging' = [staging EXCEPT !.saves = dst.saves]
      BY <2>7 DEF Carry, updating, busy, Leave, Defer, GoTo
    <3>2. pc' = "chain" => staging'.saves = saves /\ ~running
      <4>1. CASE dst.rev = 0
        BY <2>1, <2>2, <3>1, <4>1
      <4>2. CASE dst.rev # 0 /\ pc' = "chain"
        <5>1. staging' = [staging EXCEPT !.saves = dst.saves] /\ staging \in Folder
          BY <1>1, <3>1, <4>2 DEF TypeOK
        <5>2. staging'.saves = dst.saves
          BY <5>1 DEF Folder
        <5> QED
          BY <2>1, <3>1, <4>2, <5>2
      <4> QED
        BY <4>1, <4>2
    <3> QED
      BY <1>1, <2>1, <2>4, <3>1, <3>2 DEF Kept
  <2>8. CASE LaunchChain
    <3>1. /\ pc = "chain" /\ UNCHANGED <<dst, old>>
          /\ \/ pc' = "wait"
             \/ pc' = "aside" /\ staging' = staging
             \/ pc' = "place" /\ dst.rev = 0 /\ staging' = staging
      BY <2>8 DEF LaunchChain, updating, Leave, Defer, Fail, GoTo
    <3> QED
      BY <1>1, <2>1, <2>2, <2>4, <3>1 DEF Kept
  <2>9. CASE StepAside
    <3>1. /\ pc = "aside"
          /\ \/ old' = dst /\ staging' = staging /\ pc' = "place"
             \/ old' = Nothing /\ dst' = dst /\ pc' = "wait"
      BY <1>1, <2>9, SwapForms
    <3> QED
      BY <1>1, <2>1, <2>4, <3>1 DEF Kept
  <2>10. CASE Place
    <3>1. /\ pc = "place" /\ staging.rev # 0
          /\ \/ dst' = staging /\ pc' = "record"
             \/ dst' = old /\ old' = Nothing /\ pc' = "wait"
      BY <1>1, <2>2, <2>10, SwapForms DEF InstallInv, StagedIs
    <3> QED
      BY <1>1, <2>1, <2>4, <3>1 DEF Kept
  <2>11. CASE Record
    <3>1. pc = "record" /\ pc' = "report" /\ old' = Nothing /\ dst' = dst
      BY <2>11 DEF Record, GoTo
    <3> QED
      BY <1>1, <2>1, <2>4, <3>1 DEF Kept
  <2>12. CASE ~Stage /\ ~Scan /\ ~Carry /\ ~LaunchChain /\ ~StepAside /\ ~Place /\ ~Record
    <3>1. pc \notin {"place", "record"} /\ UNCHANGED <<dst, old>>
      BY <1>1, <1>2, <2>3, <2>12, SwapPlaces
    <3>2. pc' \notin {"scan", "carry", "chain", "aside", "place", "record"}
      BY <1>1, <2>12, StagingEntered, SwapPlaces
    <3> QED
      BY <1>1, <2>1, <2>4, <3>1, <3>2 DEF Kept
  <2> QED
    BY <2>5, <2>6, <2>7, <2>8, <2>9, <2>10, <2>11, <2>12
<1> QED
  BY <1>1, <1>5, <1>6, <1>7, <1>8, <1>9, <1>10, <1>11, <1>12, <1>13 DEF InstallParts
-----------------------------------------------------------------------------
(* The specification.                                                      *)

LEMMA InvStep == InstallInv /\ [Next]_vars => InstallInv'
<1> SUFFICES ASSUME InstallInv, [Next]_vars PROVE InstallInv'
  OBVIOUS
<1>1. TypeOK /\ StagedIs
  BY DEF InstallInv
<1>2. CASE Asked \/ TimePasses
  BY <1>1, <1>2, TypeAsked, InvAsked DEF InstallInv, InstallParts
<1>3. CASE Game
  BY <1>1, <1>3, TypeGame, InvGame DEF InstallInv, InstallParts
<1>4. CASE Cleanup
  BY <1>1, <1>4, TypeGame, InvCleanup DEF InstallInv, InstallParts
<1>5. CASE Crash
  BY <1>1, <1>5, TypeGame, InvCrash DEF InstallInv, InstallParts
<1>6. CASE DriverStep
  <2>1. InstallParts'
    BY <1>6, InvReads, InvPass
  <2> QED
    BY <1>1, <1>6, <2>1, TypeDriver DEF InstallInv, InstallParts
<1>7. CASE UNCHANGED vars
  BY <1>7 DEF vars, InstallInv, TypeOK, InPass, MemAt, Behind, Revs, TempIs, TempOf, Working, StagedIs, PlacedIs,
     PlacedOf, Closed, NeverPlayed, Stays, Kept
<1> QED
  BY <1>2, <1>3, <1>4, <1>5, <1>6, <1>7 DEF Next

LEMMA Always == Spec => []InstallInv
BY InvInit, InvStep, PTL DEF Spec

\* The job, its copy and the folders always have their form.
THEOREM TypeCorrect == Spec => []TypeOK
<1>1. InstallInv => TypeOK
  BY DEF InstallInv
<1> QED
  BY <1>1, Always, PTL

\* A job that says installed is of the revision in its folder, and the service
\* acknowledged it, whichever of the job's writers wrote last.
THEOREM InstalledIsReal == Spec => []InstalledIsPlaced
<1>1. InstallInv => InstalledIsPlaced
  BY DEF InstallInv, PlacedIs, PlacedOf, InstalledIsPlaced
<1> QED
  BY <1>1, Always, PTL

\* An update that fails or waits leaves the previous game and its saves; one
\* that ends carries the saves over.
THEOREM SavesStay == Spec => []UpdateKeepsGame
<1>1. InstallInv => UpdateKeepsGame
  BY DEF InstallInv, Kept, UpdateKeepsGame
<1> QED
  BY <1>1, Always, PTL

\* What starts is the job's revision, scanned here and acknowledged there,
\* whatever moved between the checks before Play and the start.
THEOREM PlaysOnlyVerified == Spec => PlayIsVerified
<1>1. ASSUME InstallInv, [Next]_vars, ~running, running'
      PROVE  dst.rev = job.inst /\ dst.rev \in scanned \cap completed
  <2>1. launch /\ launchable
    <3>1. ~(Asked \/ TimePasses)
      BY <1>1, AskedForm
    <3>2. ~DriverStep
      BY <1>1, DriverKeeps
    <3>3. ~Cleanup /\ ~Crash
      BY <1>1 DEF Cleanup, CleanBegins, CleanCloses, CleanRemoves, CleanWrites, Crash
    <3>4. ~UNCHANGED vars /\ ~before_play /\ ~GameSaves /\ ~GameExits
      BY <1>1 DEF vars, before_play, GameSaves, GameExits, play
    <3>5. launch
      BY <1>1, <3>1, <3>2, <3>3, <3>4 DEF Next, Game
    <3> QED
      BY <1>1, <3>5 DEF launch
  <2> QED
    BY <1>1, <2>1 DEF launchable, InstallInv, PlacedIs, PlacedOf
<1>2. InstallInv /\ [Next]_vars =>
        [~running /\ running' => dst.rev = job.inst /\ dst.rev \in scanned \cap completed]_vars
  BY <1>1
<1> QED
  BY <1>2, Always, PTL DEF Spec, PlayIsVerified

\* No update, removal or cleanup changes the folder of a game that runs.
THEOREM LeftWhileRunning == Spec => NeverWhileRunning
<1>1. ASSUME InstallInv, [Next]_vars, running, running'
      PROVE  dst'.rev = dst.rev
  <2>1. dst \in Folder /\ TypeOK
    BY <1>1 DEF InstallInv, TypeOK
  <2>2. CASE Asked \/ TimePasses
    BY <1>1, <2>2, AskedForm
  <2>3. CASE Game
    BY <2>1, <2>3 DEF Game, before_play, launch, GameSaves, GameExits, Folder
  <2>4. CASE Cleanup \/ Crash
    BY <1>1, <2>4 DEF InstallInv, Closed, Cleanup, CleanBegins, CleanCloses, CleanRemoves, CleanWrites, Crash, folders
  <2>5. CASE DriverStep
    <3>1. pc # "place"
      BY <1>1 DEF InstallInv, Closed
    <3> QED
      BY <1>1, <2>1, <2>5, <3>1, DriverFolders, SwapForms
  <2>6. CASE UNCHANGED vars
    BY <2>6 DEF vars
  <2> QED
    BY <1>1, <2>2, <2>3, <2>4, <2>5, <2>6 DEF Next
<1>2. InstallInv /\ [Next]_vars => [running /\ running' => dst'.rev = dst.rev]_vars
  BY <1>1
<1> QED
  BY <1>2, Always, PTL DEF Spec, NeverWhileRunning

\* The durable request of a cleared revision is dropped only once the job no
\* longer refuses that revision, through any number of deaths.
THEOREM ClearedIsNotLost == Spec => ClearedIsSetAside
<1>1. ASSUME InstallInv, [Next]_vars, reverify # 0, reverify' = 0
      PROVE  ~(job.held /\ job.rev = reverify)
  <2>1. DropReverify
    <3>1. ~(Asked \/ TimePasses)
      BY <1>1, AskedForm
    <3>2. ~Game /\ ~Cleanup /\ ~Crash
      BY <1>1 DEF Game, before_play, launch, GameSaves, GameExits, Players, Cleanup, CleanBegins, CleanCloses,
         CleanRemoves, CleanWrites, Cleans, Crash
    <3> QED
      BY <1>1, <3>1, <3>2, DriverKeeps DEF Next, vars
  <2> QED
    BY <1>1, <2>1 DEF DropReverify, InstallInv, Revs
<1>2. InstallInv /\ [Next]_vars =>
        [reverify # 0 /\ reverify' = 0 => ~(job.held /\ job.rev = reverify)]_vars
  BY <1>1
<1> QED
  BY <1>2, Always, PTL DEF Spec, ClearedIsSetAside
=============================================================================
