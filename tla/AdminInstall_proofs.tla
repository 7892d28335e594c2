------------------------- MODULE AdminInstall_proofs -------------------------
(***************************************************************************)
(* Proofs about AdminInstall, for any number of launches handed over, of   *)
(* starts, of updates asked for, of faults and of deaths, at any stages.   *)
(***************************************************************************)
EXTENDS AdminInstall, TLAPS

USE AdminAssumption

\* The values that a thread, an operation and a hold are reset to have their form.
LEMMA ResetTypes ==
  /\ Idle \in Thread /\ NoOp \in Op /\ NoTree \in Tree
  /\ NoHold \in Hold /\ NoRecord \in Pending
BY DEF Idle, Thread, Places, Answers, NoOp, Op, Stages, NoTree, Tree, NoHold, Hold, NoRecord, Pending

\* A thread that goes on to another place keeps its form (Goes).
LEMMA GoesType ==
  ASSUME thr \in [Threads -> Thread], NEW t \in Threads, NEW p \in Places, Goes(t, p)
  PROVE  thr' \in [Threads -> Thread]
BY ResetTypes DEF Goes, Thread

\* An operation that goes on to another stage keeps its form (Stage).
LEMMA StageType ==
  ASSUME op \in Op, NEW s \in Stages, Stage(s)
  PROVE  op' \in Op
BY DEF Stage, Op

\* The end of a pipeline leaves the threads and the operation well formed (run).
LEMMA FinishType ==
  ASSUME op \in Op, thr \in [Threads -> Thread], NEW t \in Threads, NEW res \in Answers,
         Finish(t, res)
  PROVE  op' \in Op /\ thr' \in [Threads -> Thread]
<1>1. "relaunch" \in Stages
  BY DEF Stages
<1>2. /\ [thr EXCEPT ![t].pc = "launch", ![t].res = res] \in [Threads -> Thread]
      /\ [thr EXCEPT ![t].pc = "after", ![t].res = res] \in [Threads -> Thread]
  BY DEF Thread, Places
<1> QED
  BY <1>1, <1>2, StageType, ResetTypes DEF Finish, Ends

\* ... and so does the update recorded for the next Client (client_update_first).
LEMMA ClientFirstType ==
  ASSUME TypeOK, NEW t \in Threads, client_update_first(t)
  PROVE  /\ op' \in Op /\ thr' \in [Threads -> Thread]
         /\ pending' \in Pending /\ mine' \in BOOLEAN
<1>1. op \in Op /\ thr \in [Threads -> Thread] /\ {"failed", "client_update"} \subseteq Answers
  BY DEF TypeOK, Answers
<1>2. op' \in Op /\ thr' \in [Threads -> Thread]
  BY <1>1, FinishType DEF client_update_first
<1>3. [by |-> binary, la |-> thr[t].la, nat |-> thr[t].nat, old |-> FALSE] \in Pending
  BY DEF TypeOK, Pending, Thread
<1> QED
  BY <1>2, <1>3, ResetTypes DEF client_update_first

\* A fault is taken from the budget.
LEMMA FaultBound ==
  ASSUME faults \in 0 .. MaxFaults, Fault \/ Calm
  PROVE  faults' \in 0 .. MaxFaults
BY DEF Fault, Calm

-----------------------------------------------------------------------------
\* The Client starts with every document and every thread well formed.
LEMMA TypeInit == Init => TypeOK
<1> SUFFICES ASSUME Init PROVE TypeOK
  OBVIOUS
<1>1. live \in Tree
  <2>1. live \in {NoTree, [ver |-> 1, meta |-> TRUE], [ver |-> 1, meta |-> FALSE]}
    BY DEF Init
  <2>2. [ver |-> 1, meta |-> TRUE] \in Tree /\ [ver |-> 1, meta |-> FALSE] \in Tree
    BY DEF Tree
  <2> QED
    BY <2>1, <2>2, ResetTypes
<1>2. mirror \in 0 .. 3 /\ published \in Versions
  BY <1>1 DEF Init, Tree, Versions
<1>3. /\ starts \in 0 .. MaxStarts /\ asks \in 0 .. MaxAsks
      /\ faults \in 0 .. MaxFaults /\ crashes \in 0 .. MaxCrashes
  BY DEF Init
<1>4. thr \in [Threads -> Thread]
  BY ResetTypes DEF Init
<1>5. previous \in Tree /\ staging \in Tree /\ hold \in Hold /\ pending \in Pending /\ op \in Op
  BY ResetTypes DEF Init
<1>6. client \in {"off", "on"} /\ binary \in 1 .. 2 /\ approved \in 0 .. 3
  BY DEF Init
<1>7. admin \in {"closed", "starting", "exiting", "open"} /\ card \in Cards
  BY DEF Init, Cards
<1>8. uninst \in {"no", "cancelling", "closing", "aborted", "gone"}
  BY DEF Init
<1>9. ready \in BOOLEAN /\ swapReady \in BOOLEAN /\ held \in BOOLEAN /\ mine \in BOOLEAN
  BY DEF Init
<1>10. cancel \in BOOLEAN /\ unkept \in BOOLEAN
  BY DEF Init
<1> QED
  BY <1>1, <1>2, <1>3, <1>4, <1>5, <1>6, <1>7, <1>8, <1>9, <1>10 DEF TypeOK

\* What the person, the Admin's own processes and the service do keeps the form.
LEMMA TypeWorld ==
  ASSUME TypeOK,
         UserStarts \/ open_installed_admin \/ AdminStep \/ UserCloses \/ Asks \/ Publish
           \/ HoldAges \/ RecordAges \/ CardCloses
  PROVE  TypeOK'
<1> USE DEF TypeOK, World, process, trees, launchHold, record, manifest, teardown, counters
<1>1. CASE UserStarts
  BY <1>1 DEF UserStarts
<1>2. CASE open_installed_admin
  BY <1>2 DEF open_installed_admin
<1>3. CASE AdminChecks
  <2>1. approved' \in 0 .. 3 /\ admin' \in {"closed", "starting", "exiting", "open"}
    BY <1>3 DEF AdminChecks, Versions
  <2>2. thr' \in [Threads -> Thread]
    <3>1. \A l \in Launches :
            [thr EXCEPT ![l] = [Idle EXCEPT !.pc = "asked", !.la = TRUE, !.nat = TRUE]]
              \in [Threads -> Thread]
      BY DEF Idle, Thread, Places, Answers
    <3> QED
      BY <1>3, <3>1 DEF AdminChecks
  <2> QED
    BY <1>3, <2>1, <2>2 DEF AdminChecks
<1>4. CASE AdminExits \/ UserCloses
  BY <1>4 DEF AdminExits, UserCloses
<1>5. CASE Asks
  <2>1. \A b \in BOOLEAN :
          [thr EXCEPT !["asker"] = [Idle EXCEPT !.pc = "enter", !.nat = b]] \in [Threads -> Thread]
    BY DEF Idle, Thread, Places, Answers
  <2>2. thr' \in [Threads -> Thread]
    BY <1>5, <2>1 DEF Asks
  <2> QED
    BY <1>5, <2>2 DEF Asks
<1>6. CASE Publish
  BY <1>6 DEF Publish, Versions
<1>7. CASE HoldAges
  BY <1>7 DEF HoldAges, Hold
<1>8. CASE RecordAges
  BY <1>8 DEF RecordAges, Pending
<1>9. CASE CardCloses
  BY <1>9 DEF CardCloses, Cards
<1> QED
  BY <1>1, <1>2, <1>3, <1>4, <1>5, <1>6, <1>7, <1>8, <1>9 DEF AdminStep

\* A Client that starts, dies or is replaced leaves every document well formed.
LEMMA TypeClient ==
  ASSUME TypeOK, Crash \/ Startup \/ SelfUpdateStages \/ Swap
  PROVE  TypeOK'
<1> USE DEF TypeOK, process, trees, launchHold, record, manifest, teardown, counters
<1>0. ASSUME Dies, binary' \in 1 .. 2, crashes' \in 0 .. MaxCrashes,
             uninst' \in {"no", "cancelling", "closing", "aborted", "gone"}
      PROVE  TypeOK'
  <2>1. /\ client' \in {"off", "on"} /\ ready' \in BOOLEAN /\ swapReady' \in BOOLEAN
        /\ held' \in BOOLEAN /\ mine' \in BOOLEAN /\ cancel' \in BOOLEAN /\ unkept' \in BOOLEAN
    BY <1>0 DEF Dies
  <2>2. thr' \in [Threads -> Thread] /\ op' \in Op /\ card' \in Cards /\ approved' \in 0 .. 3
    BY <1>0, ResetTypes DEF Dies, Cards
  <2>3. /\ live' \in Tree /\ previous' \in Tree /\ staging' \in Tree /\ mirror' \in 0 .. 3
        /\ hold' \in Hold /\ pending' \in Pending /\ published' \in Versions
        /\ admin' \in {"closed", "starting", "exiting", "open"}
        /\ starts' \in 0 .. MaxStarts /\ asks' \in 0 .. MaxAsks /\ faults' \in 0 .. MaxFaults
    BY <1>0 DEF Dies
  <2> QED
    BY <1>0, <2>1, <2>2, <2>3
<1>1. CASE Crash
  <2>1. crashes' \in 0 .. MaxCrashes /\ uninst' \in {"no", "cancelling", "closing", "aborted", "gone"}
    BY <1>1 DEF Crash
  <2>2. Dies /\ binary' = binary
    BY <1>1 DEF Crash
  <2> QED
    BY <1>0, <2>1, <2>2
<1>2. CASE Serves
  BY <1>2 DEF Serves
<1>3. CASE Reconcile
  <2>1. thr' \in [Threads -> Thread]
    BY <1>3 DEF Reconcile, Idle, Thread, Places, Answers, Threads
  <2>2. previous' \in Tree /\ staging' \in Tree /\ live' \in Tree /\ mirror' \in 0 .. 3
    BY <1>3, ResetTypes DEF Reconcile, Tree
  <2>3. hold' \in Hold /\ held' \in BOOLEAN
    BY <1>3, ResetTypes DEF Reconcile, reconcile_launch_update_hold
  <2> QED
    BY <1>3, <2>1, <2>2, <2>3 DEF Reconcile
<1>4. CASE SelfUpdateStages
  BY <1>4 DEF SelfUpdateStages
<1>5. CASE Swap
  <2>1. Dies /\ binary' = 2 /\ crashes' = crashes /\ uninst' = uninst
    BY <1>5 DEF Swap
  <2> QED
    BY <1>0, <2>1
<1> QED
  BY <1>1, <1>2, <1>3, <1>4, <1>5 DEF Startup

\* Every step of the pipeline leaves every document well formed (run_pipeline).
LEMMA TypePipeline ==
  ASSUME TypeOK, NEW t \in Threads,
         \/ EnterRun(t) \/ Gate(t) \/ CloseAdmin(t) \/ ReadManifest(t) \/ Download(t) \/ Extract(t)
         \/ ClearPrevious(t) \/ MoveOut(t) \/ MoveIn(t) \/ MoveBack(t) \/ Record(t)
  PROVE  TypeOK'
<1> USE DEF process, trees, launchHold, record, manifest, teardown, counters, Piping, Files
<1>1. op \in Op /\ thr \in [Threads -> Thread]
  BY DEF TypeOK
<1>2. {"failed", "busy", "admin_running", "updated", "installed"} \subseteq Answers
  BY DEF Answers
<1>3. ASSUME NEW res \in Answers, Ends(t, res)
      PROVE  thr' \in [Threads -> Thread]
  BY <1>1, <1>3 DEF Ends, Thread, Places
<1>4. CASE EnterRun(t)
  <2>1. [NoOp EXCEPT !.by = t, !.stage = "gate", !.had = admin_installed] \in Op
    <3>1. NoOp \in Op /\ admin_installed \in BOOLEAN /\ "gate" \in Stages
      BY ResetTypes DEF admin_installed, Stages
    <3> QED
      BY <3>1 DEF Op
  <2>2. "in" \in Places
    BY DEF Places
  <2>3. op' \in Op /\ thr' \in [Threads -> Thread]
    BY <1>1, <1>2, <1>3, <1>4, <2>1, <2>2, GoesType DEF EnterRun
  <2> QED
    BY <1>4, <2>3 DEF EnterRun, TypeOK
<1>5. CASE Gate(t)
  <2>1. faults' \in 0 .. MaxFaults
    BY <1>5, FaultBound DEF Gate, TypeOK
  <2>2. "close" \in Stages
    BY DEF Stages
  <2>3. op' \in Op /\ thr' \in [Threads -> Thread] /\ pending' \in Pending /\ mine' \in BOOLEAN
    BY <1>1, <1>5, <2>2, StageType, ClientFirstType DEF Gate, TypeOK
  <2> QED
    BY <1>5, <2>1, <2>3 DEF Gate, TypeOK
<1>6. CASE CloseAdmin(t)
  <2>1. faults' \in 0 .. MaxFaults
    BY <1>6, FaultBound DEF CloseAdmin, TypeOK
  <2>2. "manifest" \in Stages
    BY DEF Stages
  <2>3. [op EXCEPT !.stage = "manifest", !.closed = TRUE] \in Op
    BY <1>1, <2>2 DEF Op
  <2>4. op' \in Op /\ thr' \in [Threads -> Thread]
    BY <1>1, <1>2, <1>6, <2>2, <2>3, StageType, FinishType DEF CloseAdmin
  <2>5. admin' \in {"closed", "starting", "exiting", "open"} /\ card' \in Cards
    BY <1>6 DEF CloseAdmin, TypeOK, Shows, Cards
  <2> QED
    BY <1>6, <2>1, <2>4, <2>5 DEF CloseAdmin, TypeOK
<1>7. CASE ReadManifest(t)
  <2>1. faults' \in 0 .. MaxFaults
    BY <1>7, FaultBound DEF ReadManifest, TypeOK
  <2>2. [op EXCEPT !.stage = "download", !.ver = published] \in Op
    <3>1. published \in 0 .. 3 /\ "download" \in Stages
      BY DEF Versions, TypeOK, Stages
    <3> QED
      BY <1>1, <3>1 DEF Op
  <2>3. /\ op' \in Op /\ thr' \in [Threads -> Thread] /\ pending' \in Pending /\ mine' \in BOOLEAN
        /\ staging' \in Tree
    BY <1>1, <1>2, <1>7, <2>2, FinishType, ClientFirstType, ResetTypes DEF ReadManifest, Fails, TypeOK
  <2>4. live' = live /\ previous' = previous /\ unkept' = unkept
    BY <1>7 DEF ReadManifest, Fails
  <2> QED
    BY <1>7, <2>1, <2>3, <2>4 DEF ReadManifest, TypeOK
<1>8. CASE Download(t)
  <2>1. faults' \in 0 .. MaxFaults
    BY <1>8, FaultBound DEF Download, TypeOK
  <2>2. "extract" \in Stages
    BY DEF Stages
  <2>3. op' \in Op /\ thr' \in [Threads -> Thread] /\ staging' \in Tree
    BY <1>1, <1>2, <1>8, <2>2, StageType, FinishType, ResetTypes DEF Download, Fails, TypeOK
  <2>4. live' = live /\ previous' = previous /\ unkept' = unkept
    BY <1>8 DEF Download, Fails
  <2> QED
    BY <1>8, <2>1, <2>3, <2>4 DEF Download, TypeOK
<1>9. CASE Extract(t)
  <2>1. faults' \in 0 .. MaxFaults
    BY <1>9, FaultBound DEF Extract, TypeOK
  <2>2. "clear" \in Stages /\ [ver |-> op.ver, meta |-> TRUE] \in Tree
    BY <1>1 DEF Stages, Tree, Op
  <2>3. op' \in Op /\ thr' \in [Threads -> Thread] /\ staging' \in Tree
    BY <1>1, <1>2, <1>9, <2>2, StageType, FinishType, ResetTypes DEF Extract, Fails
  <2>4. live' = live /\ previous' = previous /\ unkept' = unkept
    BY <1>9 DEF Extract, Fails
  <2> QED
    BY <1>9, <2>1, <2>3, <2>4 DEF Extract, TypeOK
<1>10. CASE ClearPrevious(t)
  <2>1. {"out", "in"} \subseteq Stages
    BY DEF Stages
  <2>2. op' \in Op /\ thr' \in [Threads -> Thread] /\ staging' \in Tree /\ previous' \in Tree
    BY <1>1, <1>2, <1>10, <2>1, StageType, FinishType, ResetTypes DEF ClearPrevious, Fails, TypeOK
  <2>3. live' = live /\ unkept' \in BOOLEAN
    BY <1>10 DEF ClearPrevious, Fails, TypeOK
  <2> QED
    BY <1>10, <2>2, <2>3 DEF ClearPrevious, TypeOK
<1>11. CASE MoveOut(t)
  <2>1. faults' \in 0 .. MaxFaults
    BY <1>11, FaultBound DEF MoveOut, TypeOK
  <2>2. "in" \in Stages
    BY DEF Stages
  <2>3. op' \in Op /\ thr' \in [Threads -> Thread] /\ staging' \in Tree /\ previous' \in Tree
        /\ live' \in Tree /\ unkept' \in BOOLEAN
    BY <1>1, <1>2, <1>11, <2>2, StageType, FinishType, ResetTypes DEF MoveOut, Fails, TypeOK
  <2> QED
    BY <1>11, <2>1, <2>3 DEF MoveOut, TypeOK
<1>12. CASE MoveIn(t)
  <2>1. faults' \in 0 .. MaxFaults
    BY <1>12, FaultBound DEF MoveIn, TypeOK
  <2>2. {"record", "back"} \subseteq Stages
    BY DEF Stages
  <2>3. op' \in Op /\ thr' \in [Threads -> Thread] /\ staging' \in Tree /\ previous' \in Tree
        /\ live' \in Tree /\ unkept' \in BOOLEAN
    BY <1>1, <1>2, <1>12, <2>2, StageType, FinishType, ResetTypes DEF MoveIn, Fails, TypeOK
  <2> QED
    BY <1>12, <2>1, <2>3 DEF MoveIn, TypeOK
<1>13. CASE MoveBack(t)
  <2>1. faults' \in 0 .. MaxFaults
    BY <1>13, FaultBound DEF MoveBack, TypeOK
  <2>2. op' \in Op /\ thr' \in [Threads -> Thread] /\ staging' \in Tree /\ previous' \in Tree
        /\ live' \in Tree
    BY <1>1, <1>2, <1>13, FinishType, ResetTypes DEF MoveBack, TypeOK
  <2> QED
    BY <1>13, <2>1, <2>2 DEF MoveBack, TypeOK
<1>14. CASE Record(t)
  <2>1. op' \in Op /\ thr' \in [Threads -> Thread]
    BY <1>1, <1>2, <1>14, FinishType DEF Record
  <2>2. previous' \in Tree /\ mirror' \in 0 .. 3 /\ hold' \in Hold /\ held' \in BOOLEAN
    BY <1>1, <1>14, ResetTypes DEF Record, Op, TypeOK
  <2> QED
    BY <1>14, <2>1, <2>2 DEF Record, TypeOK
<1> QED
  BY <1>4, <1>5, <1>6, <1>7, <1>8, <1>9, <1>10, <1>11, <1>12, <1>13, <1>14

\* So do the launches, the handoffs and what each caller does with its result.
LEMMA TypeLaunch ==
  ASSUME TypeOK, NEW t \in Threads,
         \/ LaunchAdmin(t) \/ LaunchFails(t) \/ CardAnswered(t) \/ Results(t)
         \/ Handoff(t) \/ resume_pending_update
  PROVE  TypeOK'
<1> USE DEF process, trees, launchHold, record, manifest, teardown, counters, Launching
<1>1. op \in Op /\ thr \in [Threads -> Thread] /\ "resume" \in Threads
  BY DEF TypeOK, Threads
<1>2. {"idle", "wait", "decide", "enter", "launch", "card", "joined"} \subseteq Places
  BY DEF Places
<1>3. ASSUME AfterLaunch(t)
      PROVE  op' \in Op /\ thr' \in [Threads -> Thread]
  <2>1. [thr EXCEPT ![t].pc = "after", ![t].res = thr[t].res] \in [Threads -> Thread]
    BY <1>1 DEF Thread, Places
  <2> QED
    BY <1>1, <1>2, <1>3, <2>1, GoesType, ResetTypes DEF AfterLaunch, Ends
<1>4. CASE LaunchAdmin(t)
  <2>1. admin' \in {"closed", "starting", "exiting", "open"} /\ card' \in Cards
    BY <1>4 DEF LaunchAdmin, TypeOK, Cards
  <2> QED
    BY <1>3, <1>4, <2>1 DEF LaunchAdmin, TypeOK
<1>5. CASE LaunchFails(t)
  <2>1. faults' \in 0 .. MaxFaults
    BY <1>5, FaultBound DEF LaunchFails, TypeOK
  <2>2. thr' \in [Threads -> Thread] /\ card' \in Cards
    BY <1>1, <1>2, <1>5, GoesType DEF LaunchFails, TypeOK, Cards
  <2> QED
    BY <1>5, <2>1, <2>2 DEF LaunchFails, TypeOK
<1>6. CASE CardAnswered(t)
  <2>1. op' \in Op /\ thr' \in [Threads -> Thread] /\ card' \in Cards
    BY <1>1, <1>2, <1>3, <1>6, GoesType DEF CardAnswered, Cards
  <2> QED
    BY <1>6, <2>1 DEF CardAnswered, TypeOK
<1>7. CASE Results(t)
  <2>1. [ver |-> approved, over |-> FALSE] \in Hold
    BY DEF TypeOK, Hold
  <2>2. CASE t \in Launches
    <3>1. HandoffResult(t)
      BY <1>7, <2>2 DEF Results
    <3>2. hold' \in Hold /\ held' \in BOOLEAN
      BY <2>1, <3>1 DEF HandoffResult, TypeOK
    <3>3. thr' \in [Threads -> Thread] /\ card' \in Cards
      BY <1>1, <1>2, <3>1, GoesType DEF HandoffResult, TypeOK, Cards
    <3> QED
      BY <1>7, <3>2, <3>3 DEF Results, TypeOK
  <2>3. CASE t \notin Launches
    <3>1. thr' \in [Threads -> Thread] /\ card' \in Cards /\ hold' = hold /\ held' = held
      BY <1>1, <1>2, <1>7, <2>3, GoesType DEF Results, ResumeResult, TypeOK, Cards
    <3> QED
      BY <1>7, <3>1 DEF Results, TypeOK
  <2> QED
    BY <2>2, <2>3
<1>8. CASE TakeHandoff(t)
  <2>1. thr' \in [Threads -> Thread] /\ card' \in Cards
    BY <1>1, <1>2, <1>8, GoesType DEF TakeHandoff, Shows, TypeOK, Cards
  <2> QED
    BY <1>8, <2>1 DEF TakeHandoff, TypeOK
<1>9. CASE HandoffWaits(t)
  <2>1. thr' \in [Threads -> Thread] /\ card' \in Cards
    BY <1>1, <1>2, <1>9, GoesType DEF HandoffWaits, TypeOK, Cards
  <2> QED
    BY <1>9, <2>1 DEF HandoffWaits, TypeOK
<1>10. CASE HandoffDecides(t)
  <2>1. thr' \in [Threads -> Thread] /\ approved' \in 0 .. 3
    BY <1>1, <1>2, <1>10, GoesType DEF HandoffDecides, TypeOK, Versions
  <2> QED
    BY <1>10, <2>1 DEF HandoffDecides, TypeOK
<1>11. CASE resume_pending_update
  <2>1. pending' \in Pending /\ mine' \in BOOLEAN /\ card' \in Cards
    BY <1>11, ResetTypes DEF resume_pending_update, Shows, TypeOK, Cards
  <2>2. [Idle EXCEPT !.pc = "enter", !.la = pending.la, !.nat = pending.la \/ pending.nat] \in Thread
    BY DEF Idle, Thread, Places, Answers, TypeOK, Pending
  <2>3. thr' \in [Threads -> Thread]
    BY <1>1, <1>11, <2>2, ResetTypes DEF resume_pending_update
  <2> QED
    BY <1>11, <2>1, <2>3 DEF resume_pending_update, TypeOK
<1> QED
  BY <1>4, <1>5, <1>6, <1>7, <1>8, <1>9, <1>10, <1>11 DEF Handoff

\* So does the uninstall (run_uninstall_sequence).
LEMMA TypeUninstall ==
  ASSUME TypeOK, BeginUninstall \/ Uninstall
  PROVE  TypeOK'
<1> USE DEF TypeOK, process, trees, launchHold, record, manifest, teardown, counters, Removing, Cards
<1>1. CASE BeginUninstall
  BY <1>1 DEF BeginUninstall, Shows, g_busy
<1>2. CASE UninstallAborts
  BY <1>2 DEF UninstallAborts
<1>3. CASE UninstallSettles
  BY <1>3, ResetTypes DEF UninstallSettles
<1>4. CASE UninstallCloses
  <2>1. faults' \in 0 .. MaxFaults
    BY <1>4, FaultBound DEF UninstallCloses
  <2>2. thr' \in [Threads -> Thread] /\ op' \in Op
    BY <1>4, ResetTypes DEF UninstallCloses
  <2>3. client' \in {"off", "on"} /\ ready' \in BOOLEAN /\ binary' \in 1 .. 2 /\ swapReady' \in BOOLEAN
    BY <1>4 DEF UninstallCloses
  <2>4. live' \in Tree /\ previous' \in Tree /\ staging' \in Tree /\ mirror' \in 0 .. 3
    BY <1>4, ResetTypes DEF UninstallCloses
  <2>5. hold' \in Hold /\ held' \in BOOLEAN /\ pending' \in Pending /\ mine' \in BOOLEAN
    BY <1>4, ResetTypes DEF UninstallCloses
  <2>6. /\ published' \in Versions /\ approved' \in 0 .. 3 /\ unkept' \in BOOLEAN
        /\ admin' \in {"closed", "starting", "exiting", "open"}
    BY <1>4 DEF UninstallCloses
  <2>7. /\ card' \in Cards
        /\ uninst' \in {"no", "cancelling", "closing", "aborted", "gone"} /\ cancel' \in BOOLEAN
    BY <1>4 DEF UninstallCloses
  <2>8. starts' \in 0 .. MaxStarts /\ asks' \in 0 .. MaxAsks /\ crashes' \in 0 .. MaxCrashes
    BY <1>4 DEF UninstallCloses
  <2> QED
    BY <2>1, <2>2, <2>3, <2>4, <2>5, <2>6, <2>7, <2>8
<1> QED
  BY <1>1, <1>2, <1>3, <1>4 DEF Uninstall

\* One step, whoever takes it.
LEMMA TypeStep == TypeOK /\ [Next]_vars => TypeOK'
<1> SUFFICES ASSUME TypeOK, [Next]_vars PROVE TypeOK'
  OBVIOUS
<1>1. CASE UNCHANGED vars
  BY <1>1 DEF vars, TypeOK
<1>2. ASSUME NEW t \in Threads, Threading(t) PROVE TypeOK'
  BY <1>2, TypePipeline, TypeLaunch DEF Threading, Operation
<1> QED
  BY <1>1, <1>2, TypeWorld, TypeClient, TypeUninstall DEF Next

\* Every document, thread and card of the Admin's installation keeps its form.
THEOREM TypeCorrect == Spec => []TypeOK
BY TypeInit, TypeStep, PTL DEF Spec

-----------------------------------------------------------------------------
(* The swap.  Between the two renames the only copy of the installed Admin *)
(* is Admin.previous\, and what the version mirror says of it must still   *)
(* hold when it comes back.                                                *)

\* A staged tree carries its metadata (Extract writes it before any rename).
StagedIsWhole == staging.ver # 0 => staging.meta

\* Between the second rename and the record the live tree is the staged one.
PlacedIsWhole == op.stage = "record" => live.ver # 0 /\ live.meta

\* A previous tree with no live one is told by its metadata, or the mirror
\* still says its version, or nothing.
KeptIsTold == live.ver = 0 /\ previous.ver # 0 => previous.meta \/ mirror \in {0, previous.ver}

SwapInv ==
    /\ TypeOK /\ KnownGoodSurvives /\ VersionIsTrue
    /\ StagedIsWhole /\ PlacedIsWhole /\ KeptIsTold

\* What SwapInv says beyond the types.
SwapParts == KnownGoodSurvives /\ VersionIsTrue /\ StagedIsWhole /\ PlacedIsWhole /\ KeptIsTold

\* A step that renames nothing, at most clears the staging and never reaches the record.
LEMMA NothingRenamed ==
  ASSUME SwapInv, UNCHANGED <<live, previous, unkept, mirror>>,
         staging' = staging \/ staging' = NoTree,
         uninst = "gone" => uninst' = "gone",
         op'.stage = "record" => op.stage = "record"
  PROVE  SwapParts'
BY DEF SwapInv, SwapParts, KnownGoodSurvives, VersionIsTrue, StagedIsWhole, PlacedIsWhole, KeptIsTold,
       authoritative, NoTree

\* The end of a pipeline is not the record.
LEMMA FinishLeaves ==
  ASSUME op \in Op, NEW t \in Threads, NEW res \in Answers, Finish(t, res)
  PROVE  op'.stage # "record"
<1>1. op' = NoOp \/ op' = [op EXCEPT !.stage = "relaunch"]
  BY DEF Finish, Stage
<1> QED
  BY <1>1 DEF NoOp, Op

LEMMA SwapInit == Init => SwapInv
<1> SUFFICES ASSUME Init PROVE SwapInv
  OBVIOUS
<1>1. TypeOK
  BY TypeInit
<1>2. /\ live \in {NoTree, [ver |-> 1, meta |-> TRUE], [ver |-> 1, meta |-> FALSE]}
      /\ mirror \in {0, live.ver} /\ previous = NoTree /\ staging = NoTree /\ op = NoOp
  BY DEF Init
<1> QED
  BY <1>1, <1>2 DEF SwapInv, KnownGoodSurvives, VersionIsTrue, StagedIsWhole, PlacedIsWhole,
     KeptIsTold, authoritative, NoTree, NoOp

\* The people, the service, the launches and the callers of run rename nothing.
LEMMA SwapWorld ==
  ASSUME SwapInv,
         \/ UserStarts \/ open_installed_admin \/ AdminStep \/ UserCloses \/ Asks \/ Publish
         \/ HoldAges \/ RecordAges \/ CardCloses \/ Crash \/ Serves \/ SelfUpdateStages \/ Swap
         \/ BeginUninstall \/ UninstallAborts
  PROVE  SwapParts'
<1> USE DEF World, process, trees, teardown, NoOp
<1>1. CASE UserStarts \/ open_installed_admin \/ AdminStep \/ UserCloses
  BY <1>1, NothingRenamed DEF UserStarts, open_installed_admin, AdminStep, AdminChecks, AdminExits, UserCloses
<1>2. CASE Asks \/ Publish \/ HoldAges \/ RecordAges \/ CardCloses
  BY <1>2, NothingRenamed DEF Asks, Publish, HoldAges, RecordAges, CardCloses
<1>3. CASE Crash \/ Serves
  BY <1>3, NothingRenamed DEF Crash, Dies, Serves
<1>4. CASE SelfUpdateStages \/ Swap
  BY <1>4, NothingRenamed DEF SelfUpdateStages, Swap, Dies
<1>5. CASE BeginUninstall \/ UninstallAborts
  BY <1>5, NothingRenamed DEF BeginUninstall, UninstallAborts, Removing
<1> QED
  BY <1>1, <1>2, <1>3, <1>4, <1>5

LEMMA SwapLaunch ==
  ASSUME SwapInv, NEW t \in Threads,
         \/ LaunchAdmin(t) \/ LaunchFails(t) \/ CardAnswered(t) \/ Results(t)
         \/ Handoff(t) \/ resume_pending_update
  PROVE  SwapParts'
<1> USE DEF Launching, process, trees, teardown, NoOp
<1>1. CASE LaunchAdmin(t) \/ CardAnswered(t)
  BY <1>1, NothingRenamed DEF LaunchAdmin, CardAnswered, AfterLaunch
<1>2. CASE LaunchFails(t) \/ Results(t)
  BY <1>2, NothingRenamed DEF LaunchFails, Results
<1>3. CASE Handoff(t) \/ resume_pending_update
  BY <1>3, NothingRenamed DEF Handoff, TakeHandoff, HandoffWaits, HandoffDecides, resume_pending_update
<1> QED
  BY <1>1, <1>2, <1>3

\* The stages before the renames: the staged tree gets its metadata.
LEMMA SwapPrepares ==
  ASSUME SwapInv, NEW t \in Threads,
         EnterRun(t) \/ Gate(t) \/ CloseAdmin(t) \/ ReadManifest(t) \/ Download(t) \/ Extract(t)
  PROVE  SwapParts'
<1> USE DEF Piping, Files, process, trees, teardown
<1>1. op \in Op /\ {"failed", "admin_running", "client_update"} \subseteq Answers
  BY DEF SwapInv, TypeOK, Answers
<1>2. ASSUME NEW s \in Stages, s # "record", Stage(s)
      PROVE  op'.stage # "record"
  BY <1>1, <1>2 DEF Stage, Op
<1>3. ASSUME client_update_first(t)
      PROVE  op'.stage # "record"
  BY <1>1, <1>3, FinishLeaves DEF client_update_first
<1>4. {"close", "manifest", "extract", "clear"} \subseteq Stages
  BY DEF Stages
<1>5. CASE EnterRun(t)
  <2>1. op' = op \/ op'.stage = "gate"
    BY <1>5 DEF EnterRun, NoOp
  <2> QED
    BY <1>5, <2>1, NothingRenamed DEF EnterRun
<1>6. CASE Gate(t)
  <2>1. op'.stage # "record"
    BY <1>2, <1>3, <1>4, <1>6 DEF Gate
  <2> QED
    BY <1>6, <2>1, NothingRenamed DEF Gate
<1>7. CASE CloseAdmin(t)
  <2>1. [op EXCEPT !.stage = "manifest", !.closed = TRUE].stage # "record"
    BY <1>1 DEF Op
  <2>2. op'.stage # "record"
    BY <1>1, <1>2, <1>4, <1>7, <2>1, FinishLeaves DEF CloseAdmin
  <2> QED
    BY <1>7, <2>2, NothingRenamed DEF CloseAdmin
<1>8. CASE ReadManifest(t)
  <2>1. [op EXCEPT !.stage = "download", !.ver = published].stage # "record"
    BY <1>1 DEF Op
  <2>2. op'.stage # "record"
    BY <1>1, <1>3, <1>8, <2>1, FinishLeaves DEF ReadManifest, Fails
  <2> QED
    BY <1>8, <2>2, NothingRenamed DEF ReadManifest, Fails
<1>9. CASE Download(t)
  <2>1. op'.stage # "record"
    BY <1>1, <1>2, <1>4, <1>9, FinishLeaves DEF Download, Fails
  <2> QED
    BY <1>9, <2>1, NothingRenamed DEF Download, Fails
<1>10. CASE Extract(t)
  <2>1. op'.stage # "record"
    BY <1>1, <1>2, <1>4, <1>10, FinishLeaves DEF Extract, Fails
  <2>2. CASE staging' = [ver |-> op.ver, meta |-> TRUE]
    BY <1>10, <2>1, <2>2 DEF Extract, Fails, SwapInv, SwapParts, KnownGoodSurvives, VersionIsTrue,
       StagedIsWhole, PlacedIsWhole, KeptIsTold, authoritative
  <2>3. CASE staging' = NoTree
    BY <1>10, <2>1, <2>3, NothingRenamed DEF Extract, Fails
  <2> QED
    BY <1>10, <2>2, <2>3 DEF Extract, Fails
<1> QED
  BY <1>5, <1>6, <1>7, <1>8, <1>9, <1>10

\* The renames and the record.
LEMMA SwapRenames ==
  ASSUME SwapInv, NEW t \in Threads,
         ClearPrevious(t) \/ MoveOut(t) \/ MoveIn(t) \/ MoveBack(t) \/ Record(t)
  PROVE  SwapParts'
<1> USE DEF Piping, Files, process, trees, teardown
<1>1. op \in Op /\ {"failed", "admin_running", "installed", "updated"} \subseteq Answers
  BY DEF SwapInv, TypeOK, Answers
<1>2. ASSUME NEW s \in Stages, s # "record", Stage(s)
      PROVE  op'.stage # "record"
  BY <1>1, <1>2 DEF Stage, Op
<1>3. {"out", "in", "back"} \subseteq Stages
  BY DEF Stages
<1>4. CASE ClearPrevious(t)
  <2>1. op'.stage # "record"
    BY <1>1, <1>2, <1>3, <1>4, FinishLeaves DEF ClearPrevious, Fails
  <2>2. CASE Fails(t)
    BY <1>4, <2>1, <2>2, NothingRenamed DEF ClearPrevious, Fails
  <2>3. CASE /\ UNCHANGED <<live, staging>> /\ previous' = NoTree
             /\ unkept' = (unkept \/ (live.ver = 0 /\ previous.ver # 0))
    <3>1. UNCHANGED <<mirror, uninst>>
      BY <1>4 DEF ClearPrevious
    <3> QED
      BY <2>1, <2>3, <3>1 DEF SwapInv, SwapParts, KnownGoodSurvives, VersionIsTrue,
         StagedIsWhole, PlacedIsWhole, KeptIsTold, authoritative, NoTree
  <2> QED
    BY <1>4, <2>2, <2>3 DEF ClearPrevious
<1>5. CASE MoveOut(t)
  <2>1. op'.stage # "record"
    BY <1>1, <1>2, <1>3, <1>5, FinishLeaves DEF MoveOut, Fails
  <2>2. CASE live.ver # 0 /\ previous' = live /\ live' = NoTree /\ UNCHANGED staging
    BY <1>5, <2>1, <2>2 DEF MoveOut, SwapInv, SwapParts, KnownGoodSurvives, VersionIsTrue,
       StagedIsWhole, PlacedIsWhole, KeptIsTold, authoritative, NoTree
  <2>3. CASE UNCHANGED <<live, previous>> /\ staging' = NoTree
    BY <1>5, <2>1, <2>3, NothingRenamed DEF MoveOut, Fails
  <2> QED
    BY <1>5, <2>2, <2>3 DEF MoveOut, Fails
<1>6. CASE MoveIn(t)
  <2>1. CASE live.ver = 0 /\ staging.ver # 0 /\ live' = staging /\ staging' = NoTree /\ UNCHANGED previous
    BY <1>6, <2>1 DEF MoveIn, SwapInv, SwapParts, KnownGoodSurvives, VersionIsTrue,
       StagedIsWhole, PlacedIsWhole, KeptIsTold, authoritative, NoTree
  <2>2. CASE (Stage("back") /\ UNCHANGED <<trees, thr>>) \/ Fails(t)
    <3>1. op'.stage # "record"
      BY <1>1, <1>2, <1>3, <2>2, FinishLeaves DEF Fails
    <3> QED
      BY <1>6, <2>2, <3>1, NothingRenamed DEF MoveIn, Fails
  <2> QED
    BY <1>6, <2>1, <2>2 DEF MoveIn
<1>7. CASE MoveBack(t)
  <2>1. op'.stage # "record"
    BY <1>1, <1>7, FinishLeaves DEF MoveBack
  <2>2. CASE live.ver = 0 /\ live' = previous /\ previous' = NoTree
    BY <1>7, <2>1, <2>2 DEF MoveBack, SwapInv, SwapParts, KnownGoodSurvives, VersionIsTrue,
       StagedIsWhole, PlacedIsWhole, KeptIsTold, authoritative, NoTree
  <2>3. CASE UNCHANGED <<live, previous>>
    BY <1>7, <2>1, <2>3, NothingRenamed DEF MoveBack
  <2> QED
    BY <1>7, <2>2, <2>3 DEF MoveBack
<1>8. CASE Record(t)
  <2>1. op'.stage # "record"
    BY <1>1, <1>8, FinishLeaves DEF Record
  <2>2. live.ver # 0 /\ live.meta
    BY <1>8 DEF Record, Holds, SwapInv, PlacedIsWhole
  <2> QED
    BY <1>8, <2>1, <2>2 DEF Record, SwapInv, SwapParts, KnownGoodSurvives, VersionIsTrue,
       StagedIsWhole, PlacedIsWhole, KeptIsTold, authoritative, NoTree
<1> QED
  BY <1>4, <1>5, <1>6, <1>7, <1>8

\* The startup reconciliation and the uninstall put a previous tree back.
LEMMA SwapRestores ==
  ASSUME SwapInv, Reconcile \/ UninstallSettles \/ UninstallCloses
  PROVE  SwapParts'
<1> USE DEF SwapInv, SwapParts, KnownGoodSurvives, VersionIsTrue, StagedIsWhole, PlacedIsWhole,
        KeptIsTold, authoritative, NoTree, process, trees, teardown
<1>1. live \in Tree /\ previous \in Tree
  BY DEF TypeOK
<1>2. CASE Reconcile
  <2>1. CASE ~g_busy /\ live.ver = 0 /\ restorable(previous)
    BY <1>1, <1>2, <2>1 DEF Reconcile, restorable, Tree
  <2>2. CASE ~(~g_busy /\ live.ver = 0 /\ restorable(previous))
    BY <1>1, <1>2, <2>2 DEF Reconcile, restorable, Tree
  <2> QED
    BY <2>1, <2>2
<1>3. CASE UninstallSettles
  BY <1>1, <1>3 DEF UninstallSettles, Removing, Tree
<1>4. CASE UninstallCloses
  <2>1. CASE uninst' = "aborted"
    BY <1>4, <2>1, NothingRenamed DEF UninstallCloses
  <2>2. CASE uninst' = "gone" /\ live' = NoTree /\ previous' = NoTree /\ staging' = NoTree /\ op' = NoOp
    BY <2>2 DEF NoOp
  <2> QED
    BY <1>4, <2>1, <2>2 DEF UninstallCloses
<1> QED
  BY <1>2, <1>3, <1>4

LEMMA SwapStep == SwapInv /\ [Next]_vars => SwapInv'
<1> SUFFICES ASSUME SwapInv, [Next]_vars PROVE SwapParts'
  BY TypeStep DEF SwapInv, SwapParts
<1>1. CASE UNCHANGED vars
  BY <1>1, NothingRenamed DEF vars
<1>2. ASSUME NEW t \in Threads, Threading(t) PROVE SwapParts'
  <2>1. CASE Operation(t)
    BY <2>1, SwapPrepares, SwapRenames, SwapLaunch DEF Operation
  <2>2. CASE Handoff(t) \/ resume_pending_update
    BY <2>2, SwapLaunch
  <2> QED
    BY <1>2, <2>1, <2>2 DEF Threading
<1>3. CASE Next
  BY <1>2, <1>3, SwapWorld, SwapRestores DEF Next, Startup, Uninstall
<1> QED
  BY <1>1, <1>3

\* However a swap is cut (a death, a rename refused, a cancellation, an
\* uninstall given up), the installed Admin is Admin\ or Admin.previous\.
THEOREM InstallSurvives == Spec => []KnownGoodSurvives
<1>1. SwapInv => KnownGoodSurvives
  BY DEF SwapInv
<1> QED
  BY <1>1, SwapInit, SwapStep, PTL DEF Spec

\* The version answered is never that of a tree that is not the live one.
THEOREM NoFalseUpToDate == Spec => []VersionIsTrue
<1>1. SwapInv => VersionIsTrue
  BY DEF SwapInv
<1> QED
  BY <1>1, SwapInit, SwapStep, PTL DEF Spec

-----------------------------------------------------------------------------
(* The launch loop.  A hold that a death took from the Client's memory is  *)
(* still in its state, and the reconciliation of the next one loads it     *)
(* before it answers that it is ready.                                     *)

HoldInv == TypeOK /\ (ready /\ hold.ver # 0 => held)

LEMMA HoldInit == Init => HoldInv
BY TypeInit DEF Init, HoldInv, NoHold

LEMMA HoldStep == HoldInv /\ [Next]_vars => HoldInv'
<1> SUFFICES ASSUME HoldInv, [Next]_vars PROVE ready' /\ hold'.ver # 0 => held'
  BY TypeStep DEF HoldInv
<1> USE DEF process, launchHold
<1>1. ASSUME UNCHANGED <<ready, launchHold>>
      PROVE  ready' /\ hold'.ver # 0 => held'
  BY <1>1 DEF HoldInv
<1>2. CASE UNCHANGED vars
  BY <1>1, <1>2 DEF vars
<1>3. ASSUME NEW t \in Threads, Threading(t)
      PROVE  ready' /\ hold'.ver # 0 => held'
  <2>1. CASE \/ EnterRun(t) \/ Gate(t) \/ CloseAdmin(t) \/ ReadManifest(t) \/ Download(t) \/ Extract(t)
             \/ ClearPrevious(t) \/ MoveOut(t) \/ MoveIn(t) \/ MoveBack(t)
    BY <1>1, <2>1 DEF EnterRun, Gate, CloseAdmin, ReadManifest, Download, Extract, ClearPrevious,
       MoveOut, MoveIn, MoveBack, Piping
  <2>2. CASE Record(t)
    BY <2>2 DEF Record, NoHold
  <2>3. CASE LaunchAdmin(t) \/ LaunchFails(t) \/ CardAnswered(t)
    BY <1>1, <2>3 DEF LaunchAdmin, LaunchFails, CardAnswered, Launching
  <2>4. CASE Results(t)
    BY <1>1, <2>4 DEF Results, HandoffResult, ResumeResult
  <2>5. CASE Handoff(t) \/ resume_pending_update
    BY <1>1, <2>5 DEF Handoff, TakeHandoff, HandoffWaits, HandoffDecides, Launching, resume_pending_update
  <2> QED
    BY <1>3, <2>1, <2>2, <2>3, <2>4, <2>5 DEF Threading, Operation
<1>4. CASE \/ Asks \/ UserStarts \/ open_installed_admin \/ AdminStep \/ UserCloses \/ Publish
           \/ RecordAges \/ CardCloses
  BY <1>1, <1>4 DEF Asks, UserStarts, open_installed_admin, AdminStep, AdminChecks, AdminExits,
     UserCloses, Publish, RecordAges, CardCloses, World
<1>5. CASE HoldAges
  BY <1>5 DEF HoldAges, HoldInv, TypeOK, Hold
<1>6. CASE Crash \/ Swap
  BY <1>6 DEF Crash, Swap, Dies
<1>7. CASE Reconcile
  <2>1. (hold' = NoHold /\ held' = FALSE) \/ held' = TRUE
    BY <1>7 DEF Reconcile, reconcile_launch_update_hold
  <2> QED
    BY <2>1 DEF NoHold
<1>8. CASE Serves \/ SelfUpdateStages \/ BeginUninstall \/ UninstallAborts \/ UninstallSettles
  BY <1>1, <1>8 DEF Serves, SelfUpdateStages, BeginUninstall, UninstallAborts, UninstallSettles, Removing
<1>9. CASE UninstallCloses
  BY <1>1, <1>9 DEF UninstallCloses
<1> QED
  BY <1>2, <1>3, <1>4, <1>5, <1>6, <1>7, <1>8, <1>9 DEF Next, Startup, Uninstall

\* A launch that waits for its decision starts an update by that decision only.
LEMMA EntersAtDecision ==
  ASSUME TypeOK, [Next]_vars, NEW l \in Launches, thr[l].pc = "decide", thr'[l].pc = "enter"
  PROVE  HandoffDecides(l)
<1>1. thr \in [Threads -> Thread] /\ l \in Threads /\ l # "asker" /\ l # "resume"
  BY AdminAssumption DEF TypeOK, Threads
<1>2. thr' # thr /\ thr'[l] # Idle
  BY DEF Idle
<1>3. ASSUME NEW t \in Threads, NEW pc \in Places, Goes(t, pc), l # t \/ pc # "enter" PROVE FALSE
  BY <1>1, <1>2, <1>3 DEF Goes, Idle
<1>4. ASSUME NEW t \in Threads, NEW res, Ends(t, res) PROVE FALSE
  BY <1>1, <1>4 DEF Ends, Thread
<1>5. ASSUME NEW t \in Threads, NEW res, Finish(t, res) PROVE FALSE
  BY <1>1, <1>4, <1>5 DEF Finish, Thread
<1>6. ASSUME NEW t \in Threads, AfterLaunch(t) PROVE FALSE
  BY <1>3, <1>4, <1>6 DEF AfterLaunch, Places
<1>7. {"idle", "wait", "decide", "in", "launch", "card", "joined"} \subseteq Places
  BY DEF Places
<1>8. ASSUME NEW t \in Threads, Threading(t) PROVE HandoffDecides(l)
  <2> USE DEF Piping, Launching, trees
  <2>1. CASE EnterRun(t)
    BY <1>3, <1>4, <1>7, <2>1 DEF EnterRun
  <2>2. CASE Gate(t) \/ CloseAdmin(t) \/ ReadManifest(t)
    BY <1>2, <1>5, <2>2 DEF Gate, CloseAdmin, ReadManifest, client_update_first, Fails
  <2>3. CASE Download(t) \/ Extract(t) \/ ClearPrevious(t)
    BY <1>2, <1>5, <2>3 DEF Download, Extract, ClearPrevious, Fails
  <2>4. CASE MoveOut(t) \/ MoveIn(t) \/ MoveBack(t) \/ Record(t)
    BY <1>2, <1>5, <2>4 DEF MoveOut, MoveIn, MoveBack, Record, Fails
  <2>5. CASE LaunchAdmin(t) \/ LaunchFails(t) \/ CardAnswered(t)
    BY <1>3, <1>6, <1>7, <2>5 DEF LaunchAdmin, LaunchFails, CardAnswered
  <2>6. CASE Results(t)
    BY <1>3, <1>7, <2>6 DEF Results, HandoffResult, ResumeResult, Threads
  <2>7. CASE TakeHandoff(t) \/ HandoffWaits(t)
    BY <1>3, <1>7, <2>7 DEF TakeHandoff, HandoffWaits
  <2>8. CASE HandoffDecides(t)
    <3>1. Goes(t, "enter") \/ Goes(t, "launch")
      BY <2>8 DEF HandoffDecides
    <3>2. t = l
      BY <1>3, <1>7, <3>1 DEF Places
    <3> QED
      BY <2>8, <3>2
  <2>9. CASE resume_pending_update
    BY <1>1, <2>9 DEF resume_pending_update
  <2> QED
    BY <1>8, <2>1, <2>2, <2>3, <2>4, <2>5, <2>6, <2>7, <2>8, <2>9 DEF Threading, Operation, Handoff
<1>9. CASE UNCHANGED vars
  BY <1>2, <1>9 DEF vars
<1>10. CASE Asks
  BY <1>1, <1>10 DEF Asks
<1>11. CASE AdminChecks
  <2>1. PICK k \in Launches :
          thr' = [thr EXCEPT ![k] = [Idle EXCEPT !.pc = "asked", !.la = TRUE, !.nat = TRUE]]
    BY <1>2, <1>11 DEF AdminChecks
  <2> QED
    BY <1>1, <2>1 DEF Idle
<1>12. CASE \/ UserStarts \/ open_installed_admin \/ AdminExits \/ UserCloses \/ Publish \/ HoldAges
            \/ RecordAges \/ CardCloses
  BY <1>2, <1>12 DEF UserStarts, open_installed_admin, AdminExits, UserCloses, Publish, HoldAges,
     RecordAges, CardCloses
<1>13. CASE Crash \/ Swap \/ UninstallCloses
  BY <1>1, <1>2, <1>13 DEF Crash, Swap, Dies, UninstallCloses
<1>14. CASE Reconcile
  BY <1>1, <1>14 DEF Reconcile
<1>15. CASE Serves \/ SelfUpdateStages \/ BeginUninstall \/ UninstallAborts \/ UninstallSettles
  BY <1>2, <1>15 DEF Serves, SelfUpdateStages, BeginUninstall, UninstallAborts, UninstallSettles, Removing
<1> QED
  BY <1>8, <1>9, <1>10, <1>11, <1>12, <1>13, <1>14, <1>15 DEF Next, AdminStep, Startup, Uninstall

\* A launch's failed update is not started again by a launch while its hold
\* lasts, through the deaths and replacements of the Client.
THEOREM HoldBreaksTheLoop == Spec => NoLaunchLoop
<1>1. ASSUME HoldInv, [Next]_vars
      PROVE  \A l \in Launches :
               ready /\ thr[l].pc = "decide" /\ thr'[l].pc = "enter" /\ ~hold.over =>
                 approved' # hold.ver
  <2> SUFFICES ASSUME NEW l \in Launches, ready, thr[l].pc = "decide", thr'[l].pc = "enter", ~hold.over
               PROVE  approved' # hold.ver
    OBVIOUS
  <2>1. HandoffDecides(l) /\ thr \in [Threads -> Thread] /\ l \in Threads
    BY <1>1, EntersAtDecision DEF HoldInv, TypeOK, Threads
  <2>2. ~Goes(l, "launch")
    BY <2>1 DEF Goes, Thread
  <2>3. upgrade(approved') /\ ~launch_update_on_hold(approved')
    BY <2>1, <2>2 DEF HandoffDecides
  <2> QED
    BY <1>1, <2>3 DEF HoldInv, upgrade, launch_update_on_hold
<1> QED
  BY <1>1, HoldInit, HoldStep, PTL DEF Spec, NoLaunchLoop
=============================================================================
