--------------------------- MODULE Uploads_proofs ---------------------------
(***************************************************************************)
(* What an upload sends and what it calls done, for any number of parts,   *)
(* faults and upsets: the inductive invariant of Uploads and its proof.    *)
(***************************************************************************)
EXTENDS Uploads, TLAPS

-----------------------------------------------------------------------------
(* The invariant, by its parts.                                            *)

\* While the host has the job nothing of it was read, sealed or sent.
HostFirst == job.state \in HostStages => job.sha = 0 /\ rec = None

\* From the hand-over on the job carries the digest of one version.
Packaged == job.state \in ClientStages \cup {"done"} => job.sha # 0

\* The driver works on a job of its own stages.
OwnStage == pc \notin Idle => job.state \in ClientStages

\* What is sealed, and what the driver goes on with, was scanned.
RecordScanned == rec # None => rec.bytes = job.sha /\ job.sha \in cleared
CopyScanned   == pc \in Late => mem.bytes = job.sha /\ job.sha \in cleared

\* The write time tells the versions apart: the scan that ends with the time
\* it began with was of the bytes whose digest was taken.
TimeTells ==
    /\ pc \in {"digest", "scan"} => mem.mtime <= pkg.mtime
    /\ pc = "scan" => mem.bytes = job.sha
    /\ pc = "scan" /\ mem.mtime = pkg.mtime => mem.bytes = pkg.bytes

\* Every part the service holds is of the version the job carries.
PartsOfJob ==
    \A n \in Parts :
        /\ svc.parts[n] \in {0, job.sha} /\ hosted[n] \in {0, job.sha}
        /\ svc.parts[n] # 0 \/ hosted[n] # 0 => job.sha \in cleared

\* A verified session is whole.
VerifiedIsWhole == svc.state = "verified" => \A n \in Parts : svc.parts[n] # 0

IInv ==
    /\ Shape /\ HostFirst /\ Packaged /\ OwnStage /\ RecordScanned
    /\ CopyScanned /\ TimeTells /\ PartsOfJob /\ VerifiedIsWhole /\ DoneIsWhole

-----------------------------------------------------------------------------
(* The invariant holds at the start.                                       *)

LEMMA InitHolds == Init => IInv
<1> SUFFICES ASSUME Init PROVE IInv
  OBVIOUS
<1>1. job \in Job /\ job.state = "building" /\ job.sha = 0
  BY DEF Init, Job, HostStages
<1>2. svc \in Svc /\ hosted \in [Parts -> 0 .. 2] /\ svc.state = "none"
  BY DEF Init, Svc, NoParts
<1>3. pkg \in File /\ mem \in Copy
  BY DEF Init, File, Copy
<1>4. Shape
  BY <1>1, <1>2, <1>3 DEF Init, Shape, Idle
<1>5. PartsOfJob
  BY DEF Init, PartsOfJob, NoParts
<1> QED
  BY <1>1, <1>2, <1>4, <1>5 DEF Init, IInv, HostFirst, Packaged, OwnStage, Idle, Late,
     RecordScanned, CopyScanned, TimeTells, VerifiedIsWhole, DoneIsWhole, ClientStages

-----------------------------------------------------------------------------
(* What most steps do.                                                     *)

\* A step that leaves the package alone and the job's digest: the driver goes
\* on with a copy only as it had it or as sealed, the service takes only parts
\* of that digest, and hosts only parts it holds.
LEMMA Moves ==
  ASSUME IInv,
         job' \in Job, job'.sha = job.sha, mem' \in Copy, rec' \in {rec, None},
         pkg' = pkg, cleared' = cleared,
         svc' \in Svc, hosted' \in [Parts -> 0 .. 2],
         \A n \in Parts : svc'.parts[n] \in {0, svc.parts[n]}
                          \/ (pc \in Late /\ svc'.parts[n] = job.sha),
         \A n \in Parts : hosted'[n] \in {hosted[n], svc.parts[n]},
         svc'.state = "verified" => \A n \in Parts : svc'.parts[n] # 0,
         job'.state \in HostStages => job.state \in HostStages,
         job'.state \in ClientStages \cup {"done"} => job.state \in ClientStages \cup {"done"},
         job'.state = "done" => \/ job.state = "done" /\ hosted' = hosted
                                \/ pc \in Late /\ \A n \in Parts : hosted'[n] = job.sha,
         pc' \in Idle \/ (pc' \in Late /\ job'.state \in ClientStages),
         pc' \in Late => \/ pc \in Late /\ mem'.bytes = mem.bytes
                         \/ rec # None /\ mem'.bytes = rec.bytes
  PROVE  IInv'
<1>1. Shape'
  BY DEF IInv, Shape
<1>2. (HostFirst /\ Packaged /\ RecordScanned)'
  BY DEF IInv, HostFirst, Packaged, RecordScanned
<1>3. (OwnStage /\ CopyScanned)'
  BY DEF IInv, OwnStage, CopyScanned, RecordScanned, Idle, Late
<1>4. TimeTells'
  BY DEF TimeTells, Idle, Late
<1>5. pc \in Late => job.sha \in cleared
  BY DEF IInv, CopyScanned
<1>6. PartsOfJob'
  BY <1>5 DEF IInv, PartsOfJob
<1>7. (VerifiedIsWhole /\ DoneIsWhole)'
  BY <1>5 DEF VerifiedIsWhole, DoneIsWhole, IInv
<1> QED
  BY <1>1, <1>2, <1>3, <1>4, <1>6, <1>7 DEF IInv

\* Most steps do not reach the service: only the job's stage and the driver's
\* place move.
LEMMA Keeps ==
  ASSUME IInv,
         job' \in Job, job'.sha = job.sha, mem' \in Copy, rec' \in {rec, None},
         pkg' = pkg, svc' = svc, hosted' = hosted, cleared' = cleared,
         job'.state \in HostStages => job.state \in HostStages,
         job'.state \in ClientStages \cup {"done"} => job.state \in ClientStages \cup {"done"},
         job'.state = "done" => job.state = "done",
         pc' \in Idle \/ (pc' \in Late /\ job'.state \in ClientStages),
         pc' \in Late => \/ pc \in Late /\ mem'.bytes = mem.bytes
                         \/ rec # None /\ mem'.bytes = rec.bytes
  PROVE  IInv'
<1>1. svc \in Svc /\ hosted \in [Parts -> 0 .. 2] /\ VerifiedIsWhole
  BY DEF IInv, Shape
<1>2. /\ \A n \in Parts : svc'.parts[n] = svc.parts[n] /\ hosted'[n] = hosted[n]
      /\ svc'.state = "verified" => \A n \in Parts : svc'.parts[n] # 0
  BY <1>1 DEF VerifiedIsWhole
<1> QED
  BY <1>1, <1>2, Moves

\* Steps that touch nothing of it, whatever else of the job they edit.
LEMMA Quiet ==
  ASSUME IInv, job' \in Job, job'.state = job.state, job'.sha = job.sha,
         UNCHANGED <<pkg, rec, svc, hosted, pc, mem, cleared>>
  PROVE  IInv'
BY DEF IInv, Shape, HostFirst, Packaged, OwnStage, RecordScanned, CopyScanned,
       TimeTells, PartsOfJob, VerifiedIsWhole, DoneIsWhole

-----------------------------------------------------------------------------
(* The world outside.                                                      *)

LEMMA OutsideStep == ASSUME IInv, Outside PROVE IInv'
<1> USE DEF svcVars, hostVars, drvVars, budgets
<1>0. job \in Job /\ mem \in Copy
  BY DEF IInv, Shape
<1>1. CASE HostBuilds
  <2>1. job.sha = 0 /\ rec = None /\ pc \in Idle
    BY <1>1 DEF HostBuilds, IInv, HostFirst, OwnStage, HostStages, ClientStages
  <2>2. UNCHANGED <<pkg, rec, svc, hosted, pc, mem, cleared>>
    BY <1>1 DEF HostBuilds
  <2>3. \A n \in Parts : svc.parts[n] = 0 /\ hosted[n] = 0
    BY <2>1 DEF IInv, PartsOfJob
  <2>4. CASE job.state = "building"
    <3>1. job' \in Job /\ job'.state = "packaging" /\ job'.sha = 0
      BY <1>0, <1>1, <2>1, <2>4 DEF HostBuilds, Job, HostStages
    <3> QED
      BY <2>1, <2>2, <2>3, <3>1 DEF IInv, Shape, HostFirst, Packaged, OwnStage, RecordScanned,
         CopyScanned, TimeTells, PartsOfJob, VerifiedIsWhole, DoneIsWhole,
         Idle, Late, ClientStages
  <2>5. CASE job.state # "building"
    <3>0. pkg.bytes \in 0 .. 2 /\ pkg.bytes # 0
      BY DEF IInv, Shape, File
    <3>1. job' = [job EXCEPT !.state = "packaged", !.sha = pkg.bytes]
      BY <1>1, <2>5 DEF HostBuilds
    <3>2. job' \in Job /\ job'.state = "packaged" /\ job'.sha = pkg.bytes /\ job'.sha # 0
      BY <1>0, <3>0, <3>1 DEF Job, ClientStages
    <3>3. Shape' /\ (PartsOfJob /\ VerifiedIsWhole)'
      BY <2>2, <2>3, <3>2 DEF IInv, Shape, PartsOfJob, VerifiedIsWhole
    <3> QED
      BY <2>1, <2>2, <3>2, <3>3 DEF IInv, HostFirst, Packaged, OwnStage, RecordScanned,
         CopyScanned, TimeTells, DoneIsWhole, Idle, Late, HostStages, ClientStages
  <2> QED
    BY <2>4, <2>5
<1>2. CASE HostStopped
  <2>1. pc \in Idle
    BY <1>2 DEF HostStopped, IInv, OwnStage, HostStages, ClientStages
  <2>2. job' \in Job /\ job'.state = "failed" /\ job'.sha = job.sha
    BY <1>0, <1>2 DEF HostStopped, Job
  <2> QED
    <3>1. UNCHANGED <<pkg, rec, svc, hosted, pc, mem, cleared>>
      BY <1>2 DEF HostStopped
    <3>2. job'.state \notin HostStages \cup ClientStages \cup {"done"} /\ pc' \notin Late
      BY <2>1, <2>2, <3>1 DEF HostStages, ClientStages, Idle, Late
    <3> QED
      BY <1>0, <2>1, <2>2, <3>1, <3>2, Keeps
<1>3. CASE HostDies
  BY <1>0, <1>3, Quiet DEF HostDies
<1>4. CASE PackageMoves
  <2>1. pkg' \in File /\ pkg'.mtime = pkg.mtime + 1 /\ pkg.mtime \in Nat
    BY <1>4 DEF PackageMoves, IInv, Shape, File
  <2>2. mem.mtime \in Nat
    BY <1>0 DEF Copy
  <2>3. TimeTells'
    BY <1>4, <2>1, <2>2 DEF PackageMoves, IInv, TimeTells
  <2> QED
    BY <1>4, <2>1, <2>3 DEF PackageMoves, IInv, Shape, HostFirst, Packaged, OwnStage,
       RecordScanned, CopyScanned, PartsOfJob, VerifiedIsWhole, DoneIsWhole
<1>5. CASE EvaluationsChange
  BY <1>0, <1>5, Quiet DEF EvaluationsChange
<1>6. CASE NewerBuild
  BY <1>0, <1>6, Quiet DEF NewerBuild
<1>7. CASE ServiceLoses
  <2>1. svc \in Svc /\ svc.state = "open"
    BY <1>7 DEF ServiceLoses, IInv, Shape
  <2>2. /\ svc' \in Svc /\ svc'.state # "verified"
        /\ \A n \in Parts : svc'.parts[n] \in {0, svc.parts[n]}
    <3>0. NoParts \in [Parts -> 0 .. 2] /\ \A n \in Parts : NoParts[n] = 0
      BY DEF NoParts
    <3>1. CASE svc' = [svc EXCEPT !.state = "none", !.parts = NoParts]
      <4>1. svc' \in Svc /\ svc'.state = "none" /\ svc'.parts = NoParts
        BY <2>1, <3>0, <3>1 DEF Svc
      <4> QED
        BY <3>0, <4>1
    <3>2. CASE svc' = [svc EXCEPT !.state = "expired", !.parts = NoParts]
      <4>1. svc' \in Svc /\ svc'.state = "expired" /\ svc'.parts = NoParts
        BY <2>1, <3>0, <3>2 DEF Svc
      <4> QED
        BY <3>0, <4>1
    <3>3. ASSUME NEW m \in Held, svc' = [svc EXCEPT !.parts[m] = 0]
          PROVE  /\ svc' \in Svc /\ svc'.state # "verified"
                 /\ \A n \in Parts : svc'.parts[n] \in {0, svc.parts[n]}
      <4>1. svc'.parts = [svc.parts EXCEPT ![m] = 0] /\ svc'.state = svc.state /\ svc' \in Svc
        BY <2>1, <3>3 DEF Svc
      <4> QED
        BY <2>1, <4>1 DEF Svc
    <3> QED
      BY <1>7, <3>1, <3>2, <3>3 DEF ServiceLoses
  <2>3. PartsOfJob'
    BY <1>7, <2>2 DEF ServiceLoses, IInv, PartsOfJob
  <2> QED
    BY <1>7, <2>2, <2>3 DEF ServiceLoses, IInv, Shape, HostFirst, Packaged, OwnStage,
       RecordScanned, CopyScanned, TimeTells, VerifiedIsWhole, DoneIsWhole
<1>8. CASE Crash
  <2>1. mem' \in Copy
    BY <1>8 DEF Crash, Copy
  <2> QED
    <3>1. /\ job' = job /\ pkg' = pkg /\ rec' = rec /\ svc' = svc /\ hosted' = hosted
          /\ cleared' = cleared /\ pc' = "pass"
      BY <1>8 DEF Crash
    <3>2. pc' \in Idle /\ pc' \notin Late
      BY <3>1 DEF Idle, Late
    <3> QED
      BY <1>0, <2>1, <3>1, <3>2, Keeps
<1> QED
  BY <1>1, <1>2, <1>3, <1>4, <1>5, <1>6, <1>7, <1>8 DEF Outside

-----------------------------------------------------------------------------
(* The driver's passes.                                                    *)

\* Every way a pass leaves a job that the Client has, or that it passes over.
LEMMA LeavesKeep ==
  ASSUME IInv, NEW j \in Job, Leave(j), j.sha = job.sha,
         j.state \in {job.state, "failed"} \/ (pc \notin Idle /\ j.state \in ClientStages)
                                            \/ (job.state \in ClientStages /\ j.state \in ClientStages),
         rec' \in {rec, None}, mem' \in Copy,
         pkg' = pkg, svc' = svc, hosted' = hosted, cleared' = cleared
  PROVE  IInv'
<1>1. job' = j /\ pc' = "wait"
  BY DEF Leave
<1>2. pc' \in Idle /\ pc' \notin Late
  BY <1>1 DEF Idle, Late
<1>3. pc \notin Idle => job.state \in ClientStages
  BY DEF IInv, OwnStage
<1>4. /\ j.state \in HostStages => job.state \in HostStages
      /\ j.state \in ClientStages \cup {"done"} => job.state \in ClientStages \cup {"done"}
      /\ j.state = "done" => job.state = "done"
  BY <1>3 DEF HostStages, ClientStages
<1> QED
  BY <1>1, <1>2, <1>4, Keeps

\* Fail, Hold, Defer and Reopen of a job the Client has.
LEMMA WaysOut ==
  ASSUME IInv, job.state \in ClientStages,
         Fail \/ Hold \/ Defer(job) \/ Reopen,
         rec' \in {rec, None}, mem' \in Copy,
         pkg' = pkg, svc' = svc, hosted' = hosted, cleared' = cleared
  PROVE  IInv'
<1>1. job \in Job
  BY DEF IInv, Shape
<1>2. CASE Fail
  <2>1. [job EXCEPT !.state = "failed"] \in Job
        /\ [job EXCEPT !.state = "failed"].state = "failed"
        /\ [job EXCEPT !.state = "failed"].sha = job.sha
    BY <1>1 DEF Job
  <2> QED
    BY <1>2, <2>1, LeavesKeep DEF Fail
<1>3. CASE Hold
  <2> DEFINE j == [job EXCEPT !.state = "held", !.due = FALSE]
  <2>1. j \in Job /\ j.state = "held" /\ j.sha = job.sha
    BY <1>1 DEF Job, ClientStages
  <2>2. "held" \in ClientStages /\ Leave(j)
    BY <1>3 DEF Hold, ClientStages
  <2> HIDE DEF j
  <2> QED
    BY <2>1, <2>2, LeavesKeep
<1>4. CASE Defer(job)
  <2> DEFINE j == [job EXCEPT !.due = FALSE]
  <2>1. j \in Job /\ j.state = job.state /\ j.sha = job.sha
    BY <1>1 DEF Job
  <2>2. Leave(j)
    BY <1>4 DEF Defer
  <2> HIDE DEF j
  <2> QED
    BY <2>1, <2>2, LeavesKeep
<1>5. CASE Reopen
  <2> DEFINE j == [job EXCEPT !.state = "packaged", !.session = 0, !.parts = {}]
  <2>1. j \in Job /\ j.state = "packaged" /\ j.sha = job.sha
    BY <1>1 DEF Job, ClientStages
  <2>2. "packaged" \in ClientStages /\ Leave(j)
    BY <1>5 DEF Reopen, ClientStages
  <2> HIDE DEF j
  <2> QED
    BY <2>1, <2>2, LeavesKeep
<1> QED
  BY <1>2, <1>3, <1>4, <1>5

\* The reports and what the pass passes over, the wait and the gate.
LEMMA PassStep ==
  ASSUME IInv,
         \/ establish_host_detection \/ report_incident \/ PassOver \/ Retire \/ Gate
         \/ Woken \/ TimerFires \/ TimePasses
  PROVE  IInv'
<1> USE DEF svcVars, hostVars, drvVars, budgets
<1>0. job \in Job /\ mem \in Copy
  BY DEF IInv, Shape
<1>1. CASE establish_host_detection \/ report_incident \/ Woken \/ TimerFires
  <2>1. /\ job' = job /\ pkg' = pkg /\ rec' = rec /\ svc' = svc /\ hosted' = hosted
        /\ cleared' = cleared /\ mem' = mem /\ pc' \in {"pass", "report", "job"}
    BY <1>1 DEF establish_host_detection, report_incident, Woken, TimerFires
  <2>2. pc' \in Idle /\ pc' \notin Late
    BY <2>1 DEF Idle, Late
  <2> QED
    BY <1>0, <2>1, <2>2, Keeps
<1>2. CASE PassOver
  BY <1>0, <1>2, LeavesKeep DEF PassOver
<1>3. CASE Retire
  <2>1. job.state \in ClientStages /\ Fail
    BY <1>3 DEF Retire, Runnable
  <2> QED
    BY <1>0, <1>3, <2>1, WaysOut DEF Retire
<1>4. CASE Gate
  <2> DEFINE j == [job EXCEPT !.due = TRUE]
  <2>1. j \in Job /\ j.state = job.state /\ j.sha = job.sha
    BY <1>0 DEF Job
  <2>2. /\ job.state \in ClientStages /\ rec # None
        /\ mem' = [bytes |-> rec.bytes, mtime |-> rec.mtime, n |-> 1]
        /\ job' = j /\ pc' \in {"open", "readback", "complete", "wait"}
        /\ pkg' = pkg /\ rec' = rec /\ svc' = svc /\ hosted' = hosted /\ cleared' = cleared
    BY <1>4 DEF Gate, Runnable, vouches, Route, Leave, GoOn
  <2> HIDE DEF j
  <2>3. rec \in File
    BY <2>2 DEF IInv, Shape
  <2>4. mem' \in Copy /\ mem'.bytes = rec.bytes
    BY <2>2, <2>3 DEF File, Copy
  <2>5. pc' \in Idle \/ pc' \in Late
    BY <2>2 DEF Idle, Late
  <2> QED
    BY <2>1, <2>2, <2>4, <2>5, Keeps
<1>5. CASE TimePasses
  <2>1. job' \in Job /\ job'.state = job.state /\ job'.sha = job.sha
    BY <1>0, <1>5 DEF TimePasses, Job
  <2> QED
    BY <1>5, <2>1, Quiet DEF TimePasses
<1> QED
  BY <1>1, <1>2, <1>3, <1>4, <1>5

\* The Client's own verification: what it seals is what it read and scanned.
LEMMA VerifyStep ==
  ASSUME IInv,
         BeginVerify \/ Digest \/ ScanClean \/ ScanRefuses \/ SaveVerified \/ GateAgain
  PROVE  IInv'
<1> USE DEF svcVars, hostVars, drvVars, budgets
<1>0. job \in Job /\ mem \in Copy /\ pkg \in File
  BY DEF IInv, Shape
<1>1. CASE BeginVerify
  <2>1. job' \in Job /\ job'.state = "verifying" /\ job'.sha = job.sha
    BY <1>0, <1>1 DEF BeginVerify, GoOn, Job, ClientStages
  <2>2. mem' \in Copy /\ mem'.mtime = pkg.mtime /\ pkg.mtime \in Nat
    BY <1>0, <1>1 DEF BeginVerify, Copy, File
  <2>3. job.state \in ClientStages /\ pc' = "digest" /\ rec' = None
        /\ UNCHANGED <<pkg, svc, hosted, cleared>>
    BY <1>1 DEF BeginVerify, Runnable, GoOn
  <2>4. (Shape /\ TimeTells)'
    BY <2>1, <2>2, <2>3 DEF IInv, Shape, TimeTells
  <2> QED
    BY <2>1, <2>3, <2>4 DEF IInv, HostFirst, Packaged, OwnStage, RecordScanned, CopyScanned,
       PartsOfJob, VerifiedIsWhole, DoneIsWhole, Idle, Late, HostStages, ClientStages
<1>2. CASE Digest
  <2>1. job.state \in ClientStages /\ job.sha # 0 /\ pc = "digest"
    BY <1>2 DEF Digest, IInv, OwnStage, Packaged, Idle
  <2>2. CASE job.sha # pkg.bytes
    BY <1>0, <1>2, <2>1, <2>2, WaysOut DEF Digest
  <2>3. CASE job.sha = pkg.bytes
    <3>1. /\ job' = job /\ pc' = "scan" /\ mem' = [mem EXCEPT !.bytes = pkg.bytes]
          /\ UNCHANGED <<pkg, rec, svc, hosted, cleared>>
      BY <1>2, <2>3 DEF Digest, GoOn
    <3>2. pkg.bytes \in 0 .. 2
      BY <1>0 DEF File
    <3>3. mem' \in Copy /\ mem'.bytes = pkg.bytes /\ mem'.mtime = mem.mtime
      BY <1>0, <3>1, <3>2 DEF Copy
    <3>4. TimeTells'
      BY <2>1, <2>3, <3>1, <3>3 DEF IInv, TimeTells
    <3> QED
      BY <2>1, <3>1, <3>3, <3>4 DEF IInv, Shape, HostFirst, Packaged, OwnStage, RecordScanned,
         CopyScanned, PartsOfJob, VerifiedIsWhole, DoneIsWhole, Idle, Late
  <2> QED
    BY <2>2, <2>3
<1>3. CASE ScanClean
  <2>1. job.state \in ClientStages /\ job.sha # 0 /\ pc = "scan"
    BY <1>3 DEF ScanClean, IInv, OwnStage, Packaged, Idle
  <2>2. CASE pkg.mtime # mem.mtime
    BY <1>0, <1>3, <2>1, <2>2, WaysOut DEF ScanClean
  <2>3. CASE pkg.mtime = mem.mtime
    <3>1. /\ job' = job /\ pc' = "seal" /\ mem' = mem
          /\ rec' = [bytes |-> mem.bytes, mtime |-> mem.mtime]
          /\ cleared' = cleared \cup {pkg.bytes} /\ UNCHANGED <<pkg, svc, hosted>>
      BY <1>3, <2>3 DEF ScanClean, GoOn
    <3>2. mem.bytes = job.sha /\ mem.bytes = pkg.bytes
      BY <2>1, <2>3 DEF IInv, TimeTells
    <3>3. rec' \in File /\ rec'.bytes = job.sha /\ job.sha \in cleared'
      BY <1>0, <3>1, <3>2 DEF File, Copy
    <3>4. (Shape /\ PartsOfJob /\ DoneIsWhole)'
      BY <1>0, <3>1, <3>3 DEF IInv, Shape, PartsOfJob, DoneIsWhole, Late
    <3>5. job.state \notin HostStages
      BY <2>1 DEF HostStages, ClientStages
    <3> QED
      BY <2>1, <3>1, <3>2, <3>3, <3>4, <3>5 DEF IInv, HostFirst, Packaged, OwnStage,
         RecordScanned, CopyScanned, TimeTells, VerifiedIsWhole
  <2> QED
    BY <2>2, <2>3
<1>4. CASE ScanRefuses
  <2>1. job.state \in ClientStages
    BY <1>4 DEF ScanRefuses, IInv, OwnStage, Idle
  <2> QED
    BY <1>0, <1>4, <2>1, WaysOut DEF ScanRefuses
<1>5. CASE SaveVerified
  <2>1. pc \in Late /\ job.state \in ClientStages /\ mem.bytes = job.sha
    BY <1>5 DEF SaveVerified, IInv, OwnStage, CopyScanned, Idle, Late
  <2>2. job' = [job EXCEPT !.state = "packaged", !.sha = job.sha] /\ pc' = "gate"
    BY <1>5, <2>1 DEF SaveVerified, GoOn
  <2>3. job' \in Job /\ job'.state = "packaged" /\ job'.sha = job.sha
    BY <1>0, <2>2 DEF Job, ClientStages
  <2>4. "packaged" \in ClientStages /\ "packaged" \notin HostStages /\ pc' \in Late
    BY <2>2 DEF HostStages, ClientStages, Late
  <2> QED
    BY <1>0, <1>5, <2>1, <2>3, <2>4, Keeps DEF SaveVerified
<1>6. CASE GateAgain
  <2>1. pc \in Late /\ job.state \in ClientStages
    BY <1>6 DEF GateAgain, IInv, OwnStage, Idle, Late
  <2>2. CASE vouches
    <3>1. mem' = [mem EXCEPT !.n = 1] /\ job' = job /\ pc' = "open"
      BY <1>6, <2>2 DEF GateAgain, GoOn
    <3>2. mem' \in Copy /\ mem'.bytes = mem.bytes /\ pc' \in Late
      BY <1>0, <3>1 DEF Copy, Late
    <3> QED
      BY <1>0, <1>6, <2>1, <3>1, <3>2, Keeps DEF GateAgain
  <2>3. CASE ~vouches
    BY <1>0, <1>6, <2>1, <2>3, WaysOut DEF GateAgain
  <2> QED
    BY <2>2, <2>3
<1> QED
  BY <1>1, <1>2, <1>3, <1>4, <1>5, <1>6

\* The session: every part put is the part that was scanned.
LEMMA SessionStep ==
  ASSUME IInv,
         \/ open_session \/ ReadBack \/ NextPart \/ PartChanged \/ PutPart \/ PartRefused
         \/ complete_session \/ CallFails
  PROVE  IInv'
<1> USE DEF svcVars, hostVars, drvVars, budgets, ServiceOnly
<1>0. job \in Job /\ mem \in Copy /\ svc \in Svc /\ hosted \in [Parts -> 0 .. 2] /\ rec' \in {rec, None}
      /\ pkg' = pkg /\ cleared' = cleared
  BY DEF IInv, Shape, open_session, ReadBack, NextPart, PartChanged, PutPart, PartRefused,
     complete_session, CallFails
<1>1. pc \in Late /\ job.state \in ClientStages /\ mem.bytes = job.sha
  BY DEF open_session, ReadBack, NextPart, PartChanged, PutPart, PartRefused,
     complete_session, CallFails, SendsPart, Late, IInv, OwnStage, CopyScanned, Idle
<1>2. {"uploading", "registering", "packaged"} \subseteq ClientStages
      /\ {"uploading", "registering", "packaged", "done"} \cap HostStages = {}
      /\ {"open", "readback", "send", "complete"} \subseteq Late
  BY DEF ClientStages, HostStages, Late
\* A step that takes the job on within the session.
<1>3. ASSUME NEW j \in Job, j.sha = job.sha, j.state \in ClientStages, job' = j,
             pc' \in {"readback", "send", "complete"} \/ pc' \in Idle,
             mem' \in Copy, mem'.bytes = mem.bytes, svc' \in Svc, hosted' = hosted,
             \A n \in Parts : svc'.parts[n] \in {0, svc.parts[n], job.sha},
             svc'.state = "verified" => svc' = svc
      PROVE  IInv'
  <2>1. VerifiedIsWhole
    BY DEF IInv
  <2>2. job'.state \notin HostStages /\ job'.state # "done"
    BY <1>3 DEF ClientStages, HostStages
  <2> QED
    BY <1>0, <1>1, <1>2, <1>3, <2>1, <2>2, Moves DEF VerifiedIsWhole
<1>4. CASE open_session
  <2>1. CASE ~eligible
    BY <1>0, <1>1, <1>4, <2>1, WaysOut DEF open_session
  <2>2. CASE eligible
    <3> DEFINE s == IF svc.state # "none" THEN svc
                    ELSE [id |-> svc.id + 1, state |-> "open", parts |-> NoParts]
               j == [job EXCEPT !.session = s.id, !.parts = {n \in Parts : s.parts[n] # 0},
                                !.state = IF s.state = "verified" THEN "registering" ELSE "uploading"]
    <3>1. s \in Svc /\ (s.state = "verified" => s = svc)
          /\ \A n \in Parts : s.parts[n] \in {0, svc.parts[n]}
      BY <1>0 DEF Svc, NoParts
    <3>2. svc' = s /\ job' = j /\ pc' \in {"complete", "readback"} /\ mem' = mem /\ hosted' = hosted
      BY <1>4, <2>2 DEF open_session, GoOn
    <3>3. s.id \in Nat
      BY <3>1 DEF Svc
    <3> HIDE DEF s
    <3>4. j \in Job /\ j.sha = job.sha /\ j.state \in {"registering", "uploading"}
      BY <1>0, <3>3 DEF Job, ClientStages
    <3> HIDE DEF j
    <3> QED
      BY <1>0, <1>2, <1>3, <3>1, <3>2, <3>4
  <2> QED
    BY <2>1, <2>2
<1>5. CASE ReadBack
  <2>1. svc' = svc /\ hosted' = hosted
    BY <1>5 DEF ReadBack
  <2>2. CASE ~Known
    BY <1>0, <1>1, <1>5, <2>1, <2>2, WaysOut DEF ReadBack
  <2>3. CASE Known /\ svc.state = "verified"
    <3> DEFINE j == [job EXCEPT !.state = "registering"]
    <3>1. j \in Job /\ j.sha = job.sha /\ j.state = "registering"
      BY <1>0 DEF Job, ClientStages
    <3>2. job' = j /\ pc' = "complete" /\ mem' = mem
      BY <1>5, <2>3 DEF ReadBack, GoOn
    <3> HIDE DEF j
    <3> QED
      BY <1>0, <1>2, <1>3, <2>1, <3>1, <3>2
  <2>4. CASE Known /\ svc.state # "verified"
    <3> DEFINE j == [job EXCEPT !.parts = Held]
    <3>1. j \in Job /\ j.sha = job.sha /\ j.state = job.state
      BY <1>0 DEF Job, Held
    <3>2. job' = j /\ pc' = "send" /\ mem' = [mem EXCEPT !.n = 1]
      BY <1>5, <2>4 DEF ReadBack, GoOn
    <3>3. mem' \in Copy /\ mem'.bytes = mem.bytes
      BY <1>0, <3>2 DEF Copy
    <3> HIDE DEF j
    <3> QED
      BY <1>0, <1>1, <1>3, <2>1, <3>1, <3>2, <3>3
  <2> QED
    BY <2>2, <2>3, <2>4
<1>6. CASE NextPart
  <2>1. svc' = svc /\ hosted' = hosted
    BY <1>6 DEF NextPart
  <2>2. CASE mem' = [mem EXCEPT !.n = mem.n + 1] /\ GoOn(job, "send")
    <3>1. mem' \in Copy /\ mem'.bytes = mem.bytes
      BY <1>0, <2>2 DEF Copy
    <3> QED
      BY <1>0, <1>1, <1>3, <2>1, <2>2, <3>1 DEF GoOn
  <2>3. CASE mem' = mem /\ GoOn([job EXCEPT !.state = "registering"], "complete")
    <3> DEFINE j == [job EXCEPT !.state = "registering"]
    <3>1. j \in Job /\ j.sha = job.sha /\ j.state = "registering"
      BY <1>0 DEF Job, ClientStages
    <3>2. job' = j /\ pc' = "complete"
      BY <2>3 DEF GoOn
    <3> HIDE DEF j
    <3> QED
      BY <1>0, <1>2, <1>3, <2>1, <2>3, <3>1, <3>2
  <2> QED
    BY <1>6, <2>2, <2>3 DEF NextPart
<1>7. CASE PartChanged
  BY <1>0, <1>1, <1>7, WaysOut DEF PartChanged
<1>8. CASE PutPart
  <2>1. mem.n \in Parts /\ pkg.bytes = job.sha /\ svc.state = "open" /\ hosted' = hosted
        /\ svc' = [svc EXCEPT !.parts[mem.n] = pkg.bytes]
    BY <1>1, <1>8 DEF PutPart, SendsPart
  <2>2. svc' \in Svc /\ svc'.state = "open" /\ svc'.parts = [svc.parts EXCEPT ![mem.n] = job.sha]
    <3>1. job.sha \in 0 .. 2
      BY <1>0 DEF Job
    <3> QED
      BY <1>0, <2>1, <3>1 DEF Svc
  <2>3. \A n \in Parts : svc'.parts[n] \in {0, svc.parts[n], job.sha}
    BY <1>0, <2>1, <2>2 DEF Svc
  <2>4. CASE mem' = [mem EXCEPT !.n = mem.n + 1] /\ GoOn([job EXCEPT !.parts = Held \cup {mem.n}], "send")
    <3> DEFINE j == [job EXCEPT !.parts = Held \cup {mem.n}]
    <3>1. j \in Job /\ j.sha = job.sha /\ j.state = job.state
      BY <1>0, <2>1 DEF Job, Held
    <3>2. mem' \in Copy /\ mem'.bytes = mem.bytes
      BY <1>0, <2>4 DEF Copy
    <3>3. job' = j /\ pc' = "send"
      BY <2>4 DEF GoOn
    <3> HIDE DEF j
    <3> QED
      BY <1>1, <1>3, <2>1, <2>2, <2>3, <3>1, <3>2, <3>3
  <2>5. CASE Defer(job) /\ mem' = mem
    <3> DEFINE j == [job EXCEPT !.due = FALSE]
    <3>1. j \in Job /\ j.sha = job.sha /\ j.state = job.state
      BY <1>0 DEF Job
    <3>2. job' = j /\ pc' \in Idle
      BY <2>5 DEF Defer, Leave, Idle
    <3> HIDE DEF j
    <3> QED
      BY <1>0, <1>1, <1>3, <2>1, <2>2, <2>3, <2>5, <3>1, <3>2
  <2> QED
    BY <1>8, <2>4, <2>5 DEF PutPart
<1>9. CASE PartRefused
  <2>1. hosted' = hosted
    BY <1>9 DEF PartRefused
  <2>2. CASE ~Known
    BY <1>0, <1>1, <1>9, <2>1, <2>2, WaysOut DEF PartRefused
  <2>3. CASE Known /\ svc.state = "verified"
    <3> DEFINE j == [job EXCEPT !.state = "registering"]
    <3>1. j \in Job /\ j.sha = job.sha /\ j.state = "registering"
      BY <1>0 DEF Job, ClientStages
    <3>2. job' = j /\ pc' = "complete" /\ mem' = mem /\ svc' = svc
      BY <1>9, <2>3 DEF PartRefused, GoOn
    <3> HIDE DEF j
    <3> QED
      BY <1>0, <1>2, <1>3, <2>1, <3>1, <3>2
  <2>4. CASE Known /\ svc.state = "expired"
    <3> DEFINE j == [job EXCEPT !.parts = {}]
    <3>1. j \in Job /\ j.sha = job.sha /\ j.state = job.state
      BY <1>0 DEF Job
    <3>2. /\ job' = j /\ pc' = "send" /\ mem' = [mem EXCEPT !.n = 1]
          /\ svc' = [svc EXCEPT !.state = "open"]
      BY <1>9, <2>4 DEF PartRefused, GoOn
    <3>3. mem' \in Copy /\ mem'.bytes = mem.bytes
      BY <1>0, <3>2 DEF Copy
    <3>4. svc' \in Svc /\ svc'.state = "open" /\ svc'.parts = svc.parts
      BY <1>0, <3>2 DEF Svc
    <3> HIDE DEF j
    <3> QED
      BY <1>1, <1>3, <2>1, <3>1, <3>2, <3>3, <3>4
  <2> QED
    BY <1>9, <2>2, <2>3, <2>4 DEF PartRefused
<1>10. CASE complete_session
  <2>1. mem' = mem
    BY <1>10 DEF complete_session
  <2>2. CASE (Reopen \/ Hold) /\ svc' = svc /\ hosted' = hosted
    BY <1>0, <1>1, <2>1, <2>2, WaysOut
  <2>3. CASE /\ Leave([job EXCEPT !.parts = Held, !.state = "uploading"])
             /\ svc' = svc /\ hosted' = hosted
    <3> DEFINE j == [job EXCEPT !.parts = Held, !.state = "uploading"]
    <3>1. j \in Job /\ j.sha = job.sha /\ j.state = "uploading"
      BY <1>0 DEF Job, Held, ClientStages
    <3>2. job' = j /\ pc' \in Idle
      BY <2>3 DEF Leave, Idle
    <3> HIDE DEF j
    <3> QED
      BY <1>0, <1>2, <1>3, <2>1, <2>3, <3>1, <3>2
  <2>4. CASE /\ Known /\ svc.state # "expired" /\ ~(svc.state = "open" /\ Held # Parts)
             /\ svc' = [svc EXCEPT !.state = "verified"] /\ hosted' = svc.parts
             /\ Leave([job EXCEPT !.state = "done"]) \/ Defer(job)
    <3>1. \A n \in Parts : svc.parts[n] # 0
      <4>1. CASE svc.state = "open"
        BY <2>4, <4>1 DEF Held
      <4>2. CASE svc.state = "verified"
        BY <4>2 DEF IInv, VerifiedIsWhole
      <4> QED
        BY <1>0, <2>4, <4>1, <4>2 DEF Known, Svc
    <3>2. \A n \in Parts : svc.parts[n] = job.sha
      BY <3>1 DEF IInv, PartsOfJob
    <3>3. svc' \in Svc /\ svc'.parts = svc.parts /\ hosted' \in [Parts -> 0 .. 2]
      BY <1>0, <2>4 DEF Svc
    <3>4. /\ job' \in Job /\ job'.sha = job.sha /\ job'.state \in {job.state, "done"} /\ pc' = "wait"
      BY <1>0, <2>4 DEF Leave, Defer, Job
    <3>5. pc' \in Idle /\ pc' \notin Late
      BY <3>4 DEF Idle, Late
    <3>6. /\ job'.state \notin HostStages
          /\ job'.state = "done" => \A n \in Parts : hosted'[n] = job.sha
          /\ \A n \in Parts : svc'.parts[n] = svc.parts[n] /\ hosted'[n] = svc.parts[n]
      BY <1>1, <2>4, <3>2, <3>3, <3>4 DEF HostStages, ClientStages
    <3> QED
      BY <1>0, <1>1, <2>1, <3>1, <3>3, <3>4, <3>5, <3>6, Moves
  <2> QED
    BY <1>10, <2>2, <2>3, <2>4 DEF complete_session
<1>11. CASE CallFails
  BY <1>0, <1>1, <1>11, WaysOut DEF CallFails
<1> QED
  BY <1>4, <1>5, <1>6, <1>7, <1>8, <1>9, <1>10, <1>11

-----------------------------------------------------------------------------
(* The flags and counters, which nothing above depends on.                 *)

LEMMA FlagsOutside ==
  ASSUME Flags, HostBuilds \/ HostStopped \/ HostDies \/ PackageMoves \/ EvaluationsChange \/
         NewerBuild \/ ServiceLoses \/ Crash
  PROVE  Flags'
<1> USE DEF Flags, Upset, Fault, Calm, Leave, Fail, Hold, Defer, Reopen, GoOn, ServiceOnly,
    svcVars, hostVars, drvVars, budgets
<1>1. CASE HostBuilds
  BY <1>1 DEF HostBuilds
<1>2. CASE HostStopped
  BY <1>2 DEF HostStopped
<1>3. CASE HostDies
  <2>1. faults' \in Nat /\ upsets' \in Nat
    BY <1>3 DEF HostDies
  <2> HIDE DEF Upset, Fault, Calm
  <2> QED
    BY <1>3, <2>1 DEF HostDies
<1>4. CASE PackageMoves
  BY <1>4 DEF PackageMoves
<1>5. CASE EvaluationsChange
  BY <1>5 DEF EvaluationsChange
<1>6. CASE NewerBuild
  BY <1>6 DEF NewerBuild
<1>7. CASE ServiceLoses
  BY <1>7 DEF ServiceLoses
<1>8. CASE Crash
  <2>1. faults' \in Nat /\ upsets' \in Nat
    BY <1>8 DEF Crash
  <2> HIDE DEF Upset, Fault, Calm
  <2> QED
    BY <1>8, <2>1 DEF Crash
<1> QED
  BY <1>1, <1>2, <1>3, <1>4, <1>5, <1>6, <1>7, <1>8

LEMMA FlagsPass ==
  ASSUME Flags, establish_host_detection \/ report_incident \/ PassOver \/ Retire \/ Gate \/
         Woken \/ TimerFires \/ TimePasses
  PROVE  Flags'
<1> USE DEF Flags, Upset, Fault, Calm, Leave, Fail, Hold, Defer, Reopen, GoOn, ServiceOnly,
    svcVars, hostVars, drvVars, budgets
<1>1. CASE establish_host_detection
  BY <1>1 DEF establish_host_detection
<1>2. CASE report_incident
  BY <1>2 DEF report_incident
<1>3. CASE PassOver
  BY <1>3 DEF PassOver
<1>4. CASE Retire
  BY <1>4 DEF Retire
<1>5. CASE Gate
  BY <1>5 DEF Gate
<1>6. CASE Woken
  BY <1>6 DEF Woken
<1>7. CASE TimerFires
  BY <1>7 DEF TimerFires
<1>8. CASE TimePasses
  BY <1>8 DEF TimePasses
<1> QED
  BY <1>1, <1>2, <1>3, <1>4, <1>5, <1>6, <1>7, <1>8

LEMMA FlagsVerify ==
  ASSUME Shape, Flags, BeginVerify \/ Digest \/ ScanClean \/ ScanRefuses \/ SaveVerified \/ GateAgain
  PROVE  Flags'
<1> USE DEF Flags, Upset, Fault, Calm, Leave, Fail, Hold, Defer, Reopen, GoOn, ServiceOnly,
    svcVars, hostVars, drvVars, budgets
<1>1. CASE BeginVerify
  BY <1>1 DEF BeginVerify
<1>2. CASE Digest
  BY <1>2 DEF Digest
<1>3. CASE ScanClean
  <2>1. pkg.bytes \in 1 .. 2
    BY DEF Shape, File
  <2>2. cleared' \subseteq 1 .. 2
    BY <1>3, <2>1 DEF ScanClean
  <2> QED
    BY <1>3, <2>2 DEF ScanClean
<1>4. CASE ScanRefuses
  BY <1>4 DEF ScanRefuses
<1>5. CASE SaveVerified
  BY <1>5 DEF SaveVerified
<1>6. CASE GateAgain
  BY <1>6 DEF GateAgain
<1> QED
  BY <1>1, <1>2, <1>3, <1>4, <1>5, <1>6

LEMMA FlagsSession ==
  ASSUME Flags, open_session \/ ReadBack \/ NextPart \/ PartChanged \/ PutPart \/ PartRefused \/
         complete_session \/ CallFails
  PROVE  Flags'
<1> USE DEF Flags, Upset, Fault, Calm, Leave, Fail, Hold, Defer, Reopen, GoOn, ServiceOnly,
    svcVars, hostVars, drvVars, budgets
<1>1. CASE open_session
  BY <1>1 DEF open_session
<1>2. CASE ReadBack
  BY <1>2 DEF ReadBack
<1>3. CASE NextPart
  BY <1>3 DEF NextPart
<1>4. CASE PartChanged
  BY <1>4 DEF PartChanged
<1>5. CASE PutPart
  <2>1. faults' \in Nat /\ upsets' \in Nat
    BY <1>5 DEF PutPart
  <2> HIDE DEF Upset, Fault, Calm
  <2> QED
    BY <1>5, <2>1 DEF PutPart
<1>6. CASE PartRefused
  BY <1>6 DEF PartRefused
<1>7. CASE complete_session
  <2>1. faults' \in Nat /\ upsets' \in Nat
    BY <1>7 DEF complete_session
  <2> HIDE DEF Upset, Fault, Calm
  <2> QED
    BY <1>7, <2>1 DEF complete_session
<1>8. CASE CallFails
  <2>1. faults' \in Nat /\ upsets' \in Nat
    BY <1>8 DEF CallFails
  <2> HIDE DEF Upset, Fault, Calm
  <2> QED
    BY <1>8, <2>1 DEF CallFails
<1> QED
  BY <1>1, <1>2, <1>3, <1>4, <1>5, <1>6, <1>7, <1>8

-----------------------------------------------------------------------------
(* The theorems.                                                           *)

\* Every part of the invariant holds in every state an upload can reach.
THEOREM UploadsInvariant == Spec => []IInv
<1>1. IInv /\ [Next]_vars => IInv'
  <2> SUFFICES ASSUME IInv, [Next]_vars PROVE IInv'
    OBVIOUS
  <2>1. CASE UNCHANGED vars
    <3>1. job \in Job
      BY DEF IInv, Shape
    <3> QED
      BY <2>1, <3>1, Quiet DEF vars
  <2> QED
    BY <2>1, OutsideStep, PassStep, VerifyStep, SessionStep DEF Next, DriverStep
<1> QED
  BY <1>1, InitHolds, PTL DEF Spec

\* Every variable keeps its type.
THEOREM TypeCorrect == Spec => []TypeOK
<1>1. Init => Flags
  <2> SUFFICES ASSUME Init PROVE Flags
    OBVIOUS
  <2>1. faults \in Nat /\ upsets \in Nat /\ cleared \subseteq 1 .. 2
    BY DEF Init
  <2> QED
    BY <2>1 DEF Init, Flags
<1>2. IInv /\ Flags /\ [Next]_vars => Flags'
  <2> SUFFICES ASSUME Shape, Flags, [Next]_vars PROVE Flags'
    BY DEF IInv
  <2>1. CASE UNCHANGED vars
    BY <2>1 DEF vars, Flags
  <2>2. CASE Outside
    BY <2>2, FlagsOutside DEF Outside
  <2>3. CASE DriverStep \/ Woken \/ TimerFires \/ TimePasses
    BY <2>3, FlagsPass, FlagsVerify, FlagsSession DEF DriverStep
  <2> QED
    BY <2>1, <2>2, <2>3 DEF Next
<1>3. IInv /\ Flags => TypeOK
  BY DEF IInv, TypeOK
<1> QED
  BY <1>1, <1>2, <1>3, UploadsInvariant, PTL DEF Spec

\* No Client verification, no upload: whatever is touched, altered, lost or
\* interrupted, every part the service holds or hosts is of one version that
\* this Client scanned clean.
THEOREM OnlyVerifiedSafe == Spec => []OnlyVerifiedIsHeld
<1>1. IInv => OnlyVerifiedIsHeld
  <2> SUFFICES ASSUME IInv PROVE OnlyVerifiedIsHeld
    OBVIOUS
  <2>1. CASE job.sha \in cleared
    BY <2>1 DEF IInv, PartsOfJob, OnlyVerifiedIsHeld
  <2>2. CASE job.sha \notin cleared
    BY <2>2 DEF IInv, PartsOfJob, OnlyVerifiedIsHeld
  <2> QED
    BY <2>1, <2>2
<1> QED
  BY <1>1, UploadsInvariant, PTL

\* A job is done only once the hosted build is whole and is the version the
\* job's digest names, scanned clean by this Client.
THEOREM DoneSafe == Spec => []DoneIsWhole
<1>1. IInv => DoneIsWhole
  BY DEF IInv
<1> QED
  BY <1>1, UploadsInvariant, PTL

\* The record is of bytes that were scanned, never only of bytes that were
\* read.
THEOREM SealedSafe == Spec => []SealedIsScanned
<1>1. IInv => SealedIsScanned
  BY DEF IInv, RecordScanned, SealedIsScanned
<1> QED
  BY <1>1, UploadsInvariant, PTL
=============================================================================
