---------------------------- MODULE AdminInstall ----------------------------
(***************************************************************************)
(* The managed Admin (client/admin_install.hpp): the one install or update *)
(* operation with its two-rename swap, the launches a virule.exe hands to  *)
(* the Client because an update is approved, the update an older Client    *)
(* leaves to the Client that replaces it, the hold that breaks the launch  *)
(* loop, and the uninstall that cancels whatever is in flight              *)
(* (client/main.cpp).                                                      *)
(*                                                                         *)
(* A tree is its version and whether installed-release.json is in it.  The *)
(* threads are those the bridge starts (for a page or the Admin's Settings *)
(* that asks, and for each launch handed over) and the one that resumes a  *)
(* recorded update; nat: the Client owns the visible feedback.             *)
(***************************************************************************)
EXTENDS Naturals, FiniteSets

CONSTANTS
    Launches,     \* the threads of the launches handed over
    MaxStarts,    \* times a person starts VIRULE
    MaxAsks,      \* updates asked for from a page or from Settings
    MaxFaults,    \* requests, checks, renames and process starts that fail
    MaxCrashes,   \* deaths of the Client
    CrashStages   \* the stages of the operation at which it may die

Stages == {"idle", "gate", "close", "manifest", "download", "extract", "clear", "out", "in",
           "back", "record", "relaunch"}

ASSUME AdminAssumption ==
    /\ {MaxStarts, MaxAsks, MaxFaults, MaxCrashes} \subseteq Nat
    /\ {"asker", "resume", "none"} \cap Launches = {}
    /\ CrashStages \subseteq Stages

VARIABLES
    client, ready,      \* the bridge is up; the startup reconciliation is done
    binary,             \* the Client's version
    swapReady,          \* a verified newer Client is staged
    live, previous, staging,    \* Admin\, Admin.previous\, Admin.staging\
    mirror,             \* state.json admin_version, 0: none
    hold, held,         \* the launch hold in state.json; loaded by this process
    pending, mine,      \* pending_admin_update.json; written by this process
    published, approved,        \* the manifest's version; the cached one
    admin,              \* the Admin's processes
    thr,                \* the threads
    op,                 \* the operation that owns g_busy
    card,               \* the one native card
    uninst,             \* the uninstall
    cancel,             \* g_cancel
    starts, asks, faults, crashes,
    unkept              \* history: a known-good previous tree removed with no live one

process == <<client, ready, binary, swapReady>>
trees   == <<live, previous, staging, unkept>>
launchHold == <<hold, held>>
record  == <<pending, mine>>
manifest == <<published, approved>>
teardown == <<uninst, cancel>>
counters == <<starts, asks, crashes>>
vars == <<client, ready, binary, swapReady, live, previous, staging, mirror, hold, held, pending,
          mine, published, approved, admin, thr, op, card, uninst, cancel, starts, asks, faults,
          crashes, unkept>>

Versions == 1 .. 3
Needs    == <<1, 1, 2>>         \* minimumClientVersion of each Admin
Threads  == {"asker", "resume"} \cup Launches
NoTree   == [ver |-> 0, meta |-> FALSE]
Tree     == [ver : 0 .. 3, meta : BOOLEAN]
NoHold   == [ver |-> 0, over |-> FALSE]
NoRecord == [by |-> 0, la |-> FALSE, nat |-> FALSE, old |-> FALSE]
Idle     == [pc |-> "idle", res |-> "none", la |-> FALSE, nat |-> FALSE]
NoOp     == [by |-> "none", stage |-> "idle", ver |-> 0, had |-> FALSE, closed |-> FALSE]

admin_installed == live.ver # 0
admin_running   == admin # "closed"
g_busy          == op.by # "none"
g_uninstalling  == uninst \in {"cancelling", "closing"}
latched         == uninst # "no"       \* lifecycle::uninstall_intent_active
\* authoritative_admin_version: the metadata in the tree, else the mirror.
authoritative   == IF live.ver = 0 THEN 0 ELSE IF live.meta THEN live.ver ELSE mirror
launch_update_on_hold(v) == held /\ hold.ver = v /\ ~hold.over
upgrade(v) == v # 0 /\ authoritative # 0 /\ v > authoritative
update_claim(v) == upgrade(v) /\ ~launch_update_on_hold(v)

Hold    == [ver : 0 .. 3, over : BOOLEAN]
Pending == [by : 0 .. 2, la : BOOLEAN, nat : BOOLEAN, old : BOOLEAN]
Places  == {"idle", "asked", "wait", "decide", "enter", "in", "after", "launch", "card", "joined"}
Answers == {"none", "installed", "updated", "failed", "busy", "admin_running", "client_update"}
Thread  == [pc : Places, res : Answers, la : BOOLEAN, nat : BOOLEAN]
Op      == [by : Threads \cup {"none"}, ver : 0 .. 3, had : BOOLEAN, closed : BOOLEAN, stage : Stages]
Cards   == {"none", "working", "result", "action"}

TypeOK ==
    /\ client \in {"off", "on"} /\ ready \in BOOLEAN /\ binary \in 1 .. 2 /\ swapReady \in BOOLEAN
    /\ live \in Tree /\ previous \in Tree /\ staging \in Tree
    /\ mirror \in 0 .. 3
    /\ hold \in Hold /\ held \in BOOLEAN
    /\ pending \in Pending /\ mine \in BOOLEAN
    /\ published \in Versions /\ approved \in 0 .. 3
    /\ admin \in {"closed", "starting", "exiting", "open"}
    /\ thr \in [Threads -> Thread]
    /\ op \in Op
    /\ card \in Cards
    /\ uninst \in {"no", "cancelling", "closing", "aborted", "gone"} /\ cancel \in BOOLEAN
    /\ starts \in 0 .. MaxStarts /\ asks \in 0 .. MaxAsks
    /\ faults \in 0 .. MaxFaults /\ crashes \in 0 .. MaxCrashes /\ unkept \in BOOLEAN

\* No Admin yet, one with its metadata, or one from before the metadata,
\* whose version the Client's state still holds or has lost.
Init ==
    /\ client = "on" /\ ready = TRUE /\ binary = 1 /\ swapReady = FALSE
    /\ live \in {NoTree, [ver |-> 1, meta |-> TRUE], [ver |-> 1, meta |-> FALSE]}
    /\ mirror \in {0, live.ver} /\ (live.meta => mirror = 1)
    /\ previous = NoTree /\ staging = NoTree
    /\ hold = NoHold /\ held = FALSE /\ pending = NoRecord /\ mine = FALSE
    /\ published \in {2, 3} /\ approved = 0
    /\ admin = "closed" /\ thr = [t \in Threads |-> Idle] /\ op = NoOp /\ card = "none"
    /\ uninst = "no" /\ cancel = FALSE /\ unkept = FALSE
    /\ starts = 0 /\ asks = 0 /\ faults = 0 /\ crashes = 0

Fault == faults < MaxFaults /\ faults' = faults + 1
Calm  == UNCHANGED faults
Goes(t, pc) == thr' = [thr EXCEPT ![t] = IF pc = "idle" THEN Idle ELSE [@ EXCEPT !.pc = pc]]
Stage(s)    == op' = [op EXCEPT !.stage = s]
Holds(t, s) == client = "on" /\ op.by = t /\ op.stage = s
\* start_thread of the card: a live card keeps the surface.
Shows(c)    == card' = IF card = "none" THEN c ELSE card

-----------------------------------------------------------------------------
(* The person, the Admin's own processes, the service.                     *)

World == UNCHANGED <<process, trees, mirror, launchHold, record, op, teardown>>

UserStarts ==
    /\ admin = "closed" /\ admin_installed
    /\ starts < MaxStarts /\ starts' = starts + 1
    /\ admin' = "starting"
    /\ UNCHANGED <<manifest, thr, card, asks, faults, crashes>> /\ World

\* admin_open and assignment_open: joined to an operation in flight, else the
\* Admin is started, or a running one focused.
open_installed_admin ==
    /\ client = "on" /\ ~g_uninstalling /\ ~g_busy
    /\ admin = "closed" /\ admin_installed
    /\ starts < MaxStarts /\ starts' = starts + 1
    /\ admin' = "starting"
    /\ UNCHANGED <<manifest, thr, card, asks, faults, crashes>> /\ World

\* A virule.exe that started asks for its update-on-launch answer
\* (update_status_json with the launch context, which refreshes a stale
\* check); on a claim it hands the launch over and exits.
AdminChecks ==
    /\ admin = "starting"
    /\ \E v \in {approved, published} :
          LET asked == client = "on" /\ ~g_uninstalling /\ admin_installed
              claim == asked /\ update_claim(v)
              free  == {l \in Launches : thr[l].pc = "idle"} IN
          /\ approved' = IF asked THEN v ELSE approved
          /\ \/ /\ claim
                /\ \E l \in free :
                      /\ thr' = [thr EXCEPT ![l] = [Idle EXCEPT !.pc = "asked", !.la = TRUE, !.nat = TRUE]]
                      /\ admin' = "exiting"
             \/ ~(claim /\ free # {}) /\ admin' = "open" /\ UNCHANGED thr
    /\ UNCHANGED <<published, card, counters, faults>> /\ World

AdminExits ==
    /\ admin = "exiting" /\ admin' = "closed"
    /\ UNCHANGED <<manifest, thr, card, counters, faults>> /\ World

UserCloses ==
    /\ admin = "open" /\ admin' = "closed"
    /\ UNCHANGED <<manifest, thr, card, counters, faults>> /\ World

\* bridge.hpp admin_install: a page, or the open Admin's Settings, asks.
Asks ==
    /\ client = "on" /\ ~g_uninstalling /\ thr["asker"].pc = "idle"
    /\ asks < MaxAsks /\ asks' = asks + 1
    /\ \E settings \in {FALSE, admin = "open"} :
          thr' = [thr EXCEPT !["asker"] = [Idle EXCEPT !.pc = "enter", !.nat = settings]]
    /\ UNCHANGED <<manifest, admin, card, starts, faults, crashes>> /\ World

Publish ==
    /\ published = 2 /\ published' = 3
    /\ UNCHANGED <<approved, admin, thr, card, counters, faults>> /\ World

\* The hold's six hours, as a launch sees them.
HoldAges ==
    /\ hold.ver # 0 /\ ~hold.over /\ hold' = [hold EXCEPT !.over = TRUE]
    /\ UNCHANGED <<held, mirror, pending, mine, manifest, process, trees, op, teardown, admin, thr,
                   card, counters, faults>>

\* A record is honoured for thirty minutes.
RecordAges ==
    /\ pending.by # 0 /\ ~pending.old /\ pending' = [pending EXCEPT !.old = TRUE]
    /\ UNCHANGED <<launchHold, mirror, mine, manifest, process, trees, op, teardown, admin, thr,
                   card, counters, faults>>

\* A result dismisses itself; a working card never does (result_card.hpp).
CardCloses ==
    /\ card = "result" /\ card' = "none"
    /\ UNCHANGED <<manifest, thr, admin, counters, faults>> /\ World

-----------------------------------------------------------------------------
(* The Client's own life: its start, its death and its replacement.        *)

Dies == /\ client' = "off" /\ ready' = FALSE /\ swapReady' = FALSE
        /\ thr' = [t \in Threads |-> Idle] /\ op' = NoOp /\ card' = "none"
        /\ approved' = 0 /\ held' = FALSE /\ mine' = FALSE /\ cancel' = FALSE
        /\ UNCHANGED <<live, previous, staging, unkept, mirror, hold, pending, published, admin,
                       starts, asks, faults>>

Crash ==
    /\ client = "on" /\ op.stage \in CrashStages /\ crashes < MaxCrashes /\ crashes' = crashes + 1
    /\ uninst' = IF uninst = "no" THEN "no" ELSE "gone"   \* the intent is durable
    /\ Dies /\ UNCHANGED binary

\* serve: the listener is up before anything is reconciled.
Serves ==
    /\ client = "off" /\ uninst # "gone"
    /\ client' = "on"
    /\ UNCHANGED <<ready, binary, swapReady, trees, mirror, launchHold, record, manifest, admin,
                   thr, op, card, teardown, counters, faults>>

\* previous_install_restorable: its metadata and its signed components.
restorable(tree) == tree.ver # 0 /\ tree.meta

\* A faulty reconcile_launch_update_hold: a hold is the process's that set it.
HoldNotLoaded(moot) ==
    IF hold.ver = 0 \/ hold.over \/ moot THEN hold' = NoHold /\ held' = FALSE
                                        ELSE UNCHANGED launchHold

\* A hold that is over, or moot since the installed version reached it, goes;
\* another is loaded into this process.
reconcile_launch_update_hold(moot) ==
    IF hold.ver = 0 \/ hold.over \/ moot THEN hold' = NoHold /\ held' = FALSE
                                        ELSE held' = TRUE /\ UNCHANGED hold

\* The startup contract, steps 3 to 6: reconcile_startup_residue (not while
\* an operation runs), reconcile_installed_version, the hold; then the thread
\* of resume_pending_update.
Reconcile ==
    /\ client = "on" /\ ~ready /\ ready' = TRUE
    /\ LET restores == ~g_busy /\ live.ver = 0 /\ restorable(previous)
           tree == IF restores THEN previous ELSE live
           told == IF tree.ver = 0 THEN mirror ELSE IF tree.meta THEN tree.ver ELSE mirror IN
       /\ previous' = IF restores THEN NoTree ELSE previous
       /\ live' = IF tree.ver # 0 /\ ~tree.meta /\ mirror # 0
                    THEN [ver |-> tree.ver, meta |-> TRUE] ELSE tree
       /\ staging' = IF g_busy THEN staging ELSE NoTree
       /\ mirror' = told
       /\ reconcile_launch_update_hold(tree.ver # 0 /\ told # 0 /\ told >= hold.ver)
    /\ thr' = [thr EXCEPT !["resume"] = [Idle EXCEPT !.pc = "asked"]]
    /\ UNCHANGED <<client, binary, swapReady, unkept, record, manifest, admin, op, card, teardown,
                   counters, faults>>

\* self_update refresh_check: from the timer, from every Admin operation and
\* at once when an Admin needs it.
SelfUpdateStages ==
    /\ client = "on" /\ binary = 1 /\ ~swapReady /\ ~latched /\ published = 3
    /\ swapReady' = TRUE
    /\ UNCHANGED <<client, ready, binary, trees, mirror, launchHold, record, manifest, admin, thr,
                   op, card, teardown, counters, faults>>

\* main.cpp self_update_safe_point, the drain and the exit.
safe_point == ~latched /\ ~g_busy /\ card = "none"
\* The drain's quarter of a second: no request taken in is still unanswered.
Drained    == \A t \in Threads : thr[t].pc \notin {"asked", "enter"}
Swap ==
    /\ client = "on" /\ ready /\ swapReady /\ safe_point /\ Drained
    /\ binary' = 2
    /\ Dies /\ UNCHANGED <<uninst, crashes>>

-----------------------------------------------------------------------------
(* run() and run_pipeline().                                               *)

Piping == UNCHANGED <<process, launchHold, published, approved, uninst, cancel, counters>>
Files  == UNCHANGED <<trees, mirror>>

\* The result of run: the thread takes it up (Results below).
Ends(t, res) == thr' = [thr EXCEPT ![t].pc = "after", ![t].res = res]

\* run's entry: an uninstall refuses it, an operation in flight is "busy".
EnterRun(t) ==
    /\ client = "on" /\ thr[t].pc = "enter"
    /\ IF g_uninstalling THEN Ends(t, "failed") /\ UNCHANGED op
       ELSE IF g_busy THEN Ends(t, "busy") /\ UNCHANGED op
       ELSE /\ op' = [NoOp EXCEPT !.by = t, !.stage = "gate", !.had = admin_installed]
            /\ Goes(t, "in")
    /\ Piping /\ Files /\ UNCHANGED <<record, admin, card, faults>>

\* A faulty Finish: only an update that succeeded launches the Admin again.
FinishOnSuccess(t, res) ==
    IF res \in {"installed", "updated"} /\ (op.closed \/ res = "installed")
      THEN /\ Stage("relaunch")
           /\ thr' = [thr EXCEPT ![t].pc = "launch", ![t].res = res]
      ELSE op' = NoOp /\ Ends(t, res)

\* The end of a pipeline: an Admin this operation closed, or a fresh
\* install, is launched inside the operation.
Finish(t, res) ==
    IF op.closed \/ res = "installed"
      THEN /\ Stage("relaunch")
           /\ thr' = [thr EXCEPT ![t].pc = "launch", ![t].res = res]
      ELSE op' = NoOp /\ Ends(t, res)

\* client_update_first: the request is recorded for the next Client, unless
\* this Client already recorded it and was not replaced.
client_update_first(t) ==
    IF pending.by = binary /\ ~pending.old
      THEN pending' = NoRecord /\ mine' = FALSE /\ Finish(t, "failed")
      ELSE /\ pending' = [by |-> binary, la |-> thr[t].la, nat |-> thr[t].nat, old |-> FALSE]
           /\ mine' = TRUE /\ Finish(t, "client_update")

too_old(v) == Needs[v] > binary

\* The gate before any Admin is closed; a manifest that cannot be read is
\* left to the pipeline.
Gate(t) ==
    /\ Holds(t, "gate")
    /\ \/ Calm /\ too_old(published) /\ client_update_first(t)
       \/ Calm /\ ~too_old(published) /\ Stage("close") /\ UNCHANGED <<record, thr>>
       \/ Fault /\ Stage("close") /\ UNCHANGED <<record, thr>>
    /\ Piping /\ Files /\ UNCHANGED <<admin, card>>

\* close_running_admin: graceful, bounded; a refusal changes nothing.
CloseAdmin(t) ==
    /\ Holds(t, "close")
    /\ \/ /\ op.had /\ admin_running /\ admin' = "closed"
          /\ op' = [op EXCEPT !.stage = "manifest", !.closed = TRUE]
          /\ IF thr[t].nat THEN Shows("working") ELSE UNCHANGED card
          /\ Calm /\ UNCHANGED thr
       \/ /\ op.had /\ admin \in {"starting", "open"} /\ Fault /\ Finish(t, "admin_running")
          /\ UNCHANGED <<admin, card>>
       \/ /\ ~(op.had /\ admin_running) /\ Stage("manifest") /\ Calm
          /\ UNCHANGED <<thr, admin, card>>
    /\ Piping /\ Files /\ UNCHANGED record

Fails(t) == Finish(t, "failed") /\ UNCHANGED <<live, previous, unkept>> /\ staging' = NoTree

\* The manifest again, the backstop gate, and the debris of earlier runs.
ReadManifest(t) ==
    /\ Holds(t, "manifest")
    /\ \/ Fault /\ Finish(t, "failed") /\ UNCHANGED <<record, trees>>
       \/ Calm /\ too_old(published) /\ client_update_first(t) /\ UNCHANGED trees
       \/ /\ Calm /\ ~too_old(published) /\ UNCHANGED record
          /\ IF cancel THEN Fails(t)
             ELSE /\ op' = [op EXCEPT !.stage = "download", !.ver = published]
                  /\ staging' = NoTree /\ UNCHANGED <<live, previous, unkept, thr>>
    /\ Piping /\ UNCHANGED <<mirror, admin, card>>

\* Size and SHA-256 are the manifest's, or the package is refused.
Download(t) ==
    /\ Holds(t, "download")
    /\ \/ (Fault \/ (cancel /\ Calm)) /\ Fails(t)
       \/ Calm /\ ~cancel /\ Stage("extract") /\ UNCHANGED <<trees, thr>>
    /\ Piping /\ UNCHANGED <<mirror, record, admin, card>>

\* A faulty Extract: the version is recorded only in state.json.
ExtractNoMetadata(t) ==
    /\ Holds(t, "extract")
    /\ Calm /\ Stage("clear") /\ staging' = [ver |-> op.ver, meta |-> FALSE]
    /\ UNCHANGED <<live, previous, unkept, thr>>
    /\ Piping /\ UNCHANGED <<mirror, record, admin, card>>

\* extract_package, the signatures and the required files of the staged
\* tree, and the metadata that rides it.
Extract(t) ==
    /\ Holds(t, "extract")
    /\ \/ Fault /\ Fails(t)
       \/ /\ Calm /\ Stage("clear") /\ staging' = [ver |-> op.ver, meta |-> TRUE]
          /\ UNCHANGED <<live, previous, unkept, thr>>
    /\ Piping /\ UNCHANGED <<mirror, record, admin, card>>

\* The last cancellation point, and the removal of what an older swap left.
ClearPrevious(t) ==
    /\ Holds(t, "clear")
    /\ \/ cancel /\ Fails(t)
       \/ /\ ~cancel /\ Stage(IF op.had THEN "out" ELSE "in")
          /\ previous' = NoTree
          /\ unkept' = (unkept \/ (live.ver = 0 /\ previous.ver # 0))
          /\ UNCHANGED <<live, staging, thr>>
    /\ Piping /\ UNCHANGED <<mirror, record, admin, card, faults>>

\* A folder a process runs from cannot be renamed.
MoveOut(t) ==
    /\ Holds(t, "out")
    /\ \/ /\ ~admin_running /\ live.ver # 0 /\ Calm /\ Stage("in")
          /\ previous' = live /\ live' = NoTree /\ UNCHANGED <<staging, unkept, thr>>
       \/ admin_running /\ Calm /\ Finish(t, "admin_running") /\ staging' = NoTree
          /\ UNCHANGED <<live, previous, unkept>>
       \/ ~admin_running /\ Fault /\ Fails(t)
    /\ Piping /\ UNCHANGED <<mirror, record, admin, card>>

MoveIn(t) ==
    /\ Holds(t, "in")
    /\ \/ /\ live.ver = 0 /\ staging.ver # 0 /\ Calm /\ Stage("record")
          /\ live' = staging /\ staging' = NoTree /\ UNCHANGED <<previous, unkept, thr>>
       \/ /\ Fault \/ (Calm /\ (live.ver # 0 \/ staging.ver = 0))
          /\ IF op.had THEN Stage("back") /\ UNCHANGED <<trees, thr>> ELSE Fails(t)
    /\ Piping /\ UNCHANGED <<mirror, record, admin, card>>

\* A faulty MoveBack: the failed swap is cleaned up before it is undone.
MoveBackAfterCleaning(t) ==
    /\ Holds(t, "back")
    /\ previous' = NoTree /\ staging' = NoTree /\ UNCHANGED <<live, unkept>> /\ Finish(t, "failed")
    /\ Piping /\ UNCHANGED <<mirror, record, admin, card, faults>>

\* The known-good install straight back; a rename that fails is not looked at.
MoveBack(t) ==
    /\ Holds(t, "back")
    /\ \/ /\ live.ver = 0 /\ Calm /\ live' = previous /\ previous' = NoTree
       \/ (Fault \/ (Calm /\ live.ver # 0)) /\ UNCHANGED <<live, previous>>
    /\ staging' = NoTree /\ UNCHANGED unkept /\ Finish(t, "failed")
    /\ Piping /\ UNCHANGED <<mirror, record, admin, card>>

\* The previous tree goes, the mirror follows, and a success ends the hold.
Record(t) ==
    /\ Holds(t, "record")
    /\ previous' = (IF op.had THEN NoTree ELSE previous) /\ mirror' = op.ver
    /\ hold' = NoHold /\ held' = FALSE
    /\ Finish(t, IF op.had THEN "updated" ELSE "installed")
    /\ UNCHANGED <<process, live, staging, unkept, record, manifest, admin, card, teardown,
                   counters, faults>>

-----------------------------------------------------------------------------
(* Launching the Admin, and what each caller does with run's result.       *)

AfterLaunch(t) ==
    IF op.by = t THEN op' = NoOp /\ Ends(t, thr[t].res)
                 ELSE Goes(t, "idle") /\ UNCHANGED op

Launching == UNCHANGED <<process, trees, mirror, launchHold, record, manifest, teardown, counters>>

\* launch_admin_with_recovery, then retire_card_into_admin_surface: a
\* running Admin is focused, another is started.
LaunchAdmin(t) ==
    /\ client = "on" /\ thr[t].pc = "launch" /\ admin_installed
    /\ admin' = IF admin_running THEN admin ELSE "starting"
    /\ card' = IF op.by # t THEN "none"
               ELSE IF ~(thr[t].nat /\ card = "working") THEN card
               ELSE IF thr[t].res \in {"installed", "updated"} THEN "none" ELSE "result"
    /\ AfterLaunch(t)
    /\ Launching /\ UNCHANGED faults

\* Both watched attempts fail: the card with its Try again.
LaunchFails(t) ==
    /\ client = "on" /\ thr[t].pc = "launch" /\ ~admin_running
    /\ (~admin_installed /\ Calm) \/ Fault
    /\ card' = IF card \in {"working", "none"} THEN "action" ELSE card
    /\ Goes(t, "card")
    /\ Launching /\ UNCHANGED <<admin, op>>

\* Try again launches again; a dismissal, or two minutes, ends it.
CardAnswered(t) ==
    /\ client = "on" /\ thr[t].pc = "card" /\ card' = "none"
    /\ \/ admin_installed /\ Goes(t, "launch") /\ UNCHANGED op
       \/ AfterLaunch(t)
    /\ Launching /\ UNCHANGED <<admin, faults>>

\* launch_after_update_handoff up to its decision.
TakeHandoff(l) ==
    /\ client = "on" /\ thr[l].pc = "asked"
    /\ IF ~admin_installed \/ g_uninstalling THEN Goes(l, "idle") /\ UNCHANGED card
       ELSE IF g_busy THEN Goes(l, "joined") /\ UNCHANGED card
       ELSE Goes(l, "wait") /\ Shows("working")
    /\ Launching /\ UNCHANGED <<admin, op, faults>>

HandoffWaits(l) ==
    /\ client = "on" /\ thr[l].pc = "wait"
    /\ \/ ~admin_running /\ Goes(l, "decide") /\ UNCHANGED card
       \/ /\ admin = "open" /\ Goes(l, "idle")
          /\ card' = "none"
    /\ Launching /\ UNCHANGED <<admin, op, faults>>

HandoffDecides(l) ==
    /\ client = "on" /\ thr[l].pc = "decide"
    /\ \E v \in {approved, published} :
          /\ approved' = v
          /\ Goes(l, IF upgrade(v) /\ ~launch_update_on_hold(v) THEN "enter" ELSE "launch")
    /\ UNCHANGED <<process, trees, mirror, launchHold, record, published, teardown, counters,
                   admin, op, card, faults>>

\* A faulty HandoffResult: a launch whose update failed only records the hold.
HandoffResultSilent(l) ==
    LET res == thr[l].res
        failed == res \in {"failed", "admin_running"} IN
    /\ IF failed THEN hold' = [ver |-> approved, over |-> FALSE] /\ held' = TRUE
                 ELSE UNCHANGED launchHold
    /\ Goes(l, IF res = "updated" THEN "launch" ELSE IF res = "busy" THEN "joined" ELSE "idle")
    /\ card' = IF res # "client_update" THEN "none" ELSE card

\* What follows run: nothing for a page or for Settings; the end of a
\* handoff; the end of a resumed update.
HandoffResult(l) ==
    LET res == thr[l].res
        failed == res \in {"failed", "admin_running"} IN
    /\ IF failed THEN hold' = [ver |-> approved, over |-> FALSE] /\ held' = TRUE
                 ELSE UNCHANGED launchHold
    /\ Goes(l, IF failed \/ res = "updated" THEN "launch" ELSE IF res = "busy" THEN "joined" ELSE "idle")
    /\ card' = IF res = "busy" THEN "none" ELSE card

ResumeResult ==
    LET res == thr["resume"].res
        la  == thr["resume"].la IN
    /\ Goes("resume", IF la /\ res \in {"updated", "failed", "admin_running"} THEN "launch"
                      ELSE IF la /\ res = "busy" THEN "joined" ELSE "idle")
    /\ card' = IF la /\ res \in {"busy", "client_update"} THEN "none" ELSE card
    /\ UNCHANGED launchHold

Results(t) ==
    /\ client = "on" /\ thr[t].pc = "after"
    /\ IF t \in Launches THEN HandoffResult(t)
       ELSE IF t = "resume" THEN ResumeResult
       ELSE Goes(t, "idle") /\ UNCHANGED <<launchHold, card>>
    /\ UNCHANGED <<process, trees, mirror, record, manifest, teardown, counters, admin, op, faults>>

\* resume_pending_update: another Client's record, once and while fresh.
resume_pending_update ==
    /\ client = "on" /\ thr["resume"].pc = "asked"
    /\ LET p == pending
           honoured == p.by \notin {0, binary} /\ ~p.old /\ ~latched IN
       /\ IF p.by = 0 \/ (p.by = binary /\ ~p.old /\ mine)
            THEN UNCHANGED record
            ELSE pending' = NoRecord /\ mine' = FALSE
       /\ thr' = [thr EXCEPT !["resume"] = IF honoured
                     THEN [Idle EXCEPT !.pc = "enter", !.la = p.la, !.nat = p.la \/ p.nat]
                     ELSE Idle]
       /\ IF honoured /\ p.la THEN Shows("working") ELSE UNCHANGED card
    /\ UNCHANGED <<process, trees, mirror, launchHold, manifest, teardown, counters, admin, op, faults>>

-----------------------------------------------------------------------------
(* The uninstall, up to the helper (main.cpp run_uninstall_sequence).      *)

Removing == UNCHANGED <<process, mirror, launchHold, record, manifest, admin, thr, op, counters, faults>>

BeginUninstall ==
    /\ client = "on" /\ uninst = "no"      \* one in a behaviour
    /\ uninst' = "cancelling" /\ cancel' = g_busy /\ Shows("working")
    /\ Removing /\ UNCHANGED trees

\* A faulty UninstallAborts: the word told to the pages is kept as the state.
UninstallAbortsAsTold ==
    /\ client = "on" /\ uninst = "cancelling" /\ g_busy
    /\ uninst' = "failed" /\ cancel' = FALSE /\ card' = IF card = "none" THEN card ELSE "result"
    /\ Removing /\ UNCHANGED trees

\* cancel_active_operation_and_wait gives up after two minutes.
UninstallAborts ==
    /\ client = "on" /\ uninst = "cancelling" /\ g_busy
    /\ uninst' = "aborted" /\ cancel' = FALSE /\ card' = IF card = "none" THEN card ELSE "result"
    /\ Removing /\ UNCHANGED trees

\* The operation has unwound: uninstall.hpp reconcile_admin_update_residue.
UninstallSettles ==
    /\ client = "on" /\ uninst = "cancelling" /\ ~g_busy
    /\ uninst' = "closing" /\ cancel' = FALSE
    /\ IF live.ver = 0 /\ previous.ver # 0 THEN live' = previous /\ previous' = NoTree
                                           ELSE UNCHANGED <<live, previous>>
    /\ staging' = NoTree /\ UNCHANGED <<unkept, card>>
    /\ Removing

\* The Admin is closed and the helper takes over, or it refuses and the
\* uninstall is off.
UninstallCloses ==
    /\ client = "on" /\ uninst = "closing"
    /\ \/ admin_running /\ Fault /\ uninst' = "aborted" /\ card' = (IF card = "none" THEN card ELSE "result")
          /\ UNCHANGED <<process, trees, mirror, launchHold, record, approved, admin, thr, op, cancel>>
       \/ /\ Calm /\ uninst' = "gone" /\ admin' = "closed" /\ card' = "none" /\ cancel' = FALSE
          /\ live' = NoTree /\ previous' = NoTree /\ staging' = NoTree /\ UNCHANGED unkept
          /\ client' = "off" /\ ready' = FALSE /\ swapReady' = FALSE /\ UNCHANGED binary
          /\ thr' = [t \in Threads |-> Idle] /\ op' = NoOp
          /\ mirror' = 0 /\ hold' = NoHold /\ pending' = NoRecord
          /\ approved' = 0 /\ held' = FALSE /\ mine' = FALSE
    /\ UNCHANGED <<published, counters>>

-----------------------------------------------------------------------------
Operation(t) ==
    \/ EnterRun(t) \/ Gate(t) \/ CloseAdmin(t) \/ ReadManifest(t) \/ Download(t) \/ Extract(t)
    \/ ClearPrevious(t) \/ MoveOut(t) \/ MoveIn(t) \/ MoveBack(t) \/ Record(t)
    \/ LaunchAdmin(t) \/ LaunchFails(t) \/ CardAnswered(t) \/ Results(t)

Handoff(l) == TakeHandoff(l) \/ HandoffWaits(l) \/ HandoffDecides(l)

Threading(t) == Operation(t) \/ (t \in Launches /\ Handoff(t)) \/ (t = "resume" /\ resume_pending_update)

Startup   == Serves \/ Reconcile
AdminStep == AdminChecks \/ AdminExits
Uninstall == UninstallAborts \/ UninstallSettles \/ UninstallCloses

Next ==
    \/ \E t \in Threads : Threading(t)
    \/ Asks \/ UserStarts \/ open_installed_admin \/ AdminStep \/ UserCloses \/ Publish \/ HoldAges \/ RecordAges \/ CardCloses
    \/ Crash \/ Startup \/ SelfUpdateStages \/ Swap \/ BeginUninstall \/ Uninstall

Spec == Init /\ [][Next]_vars

\* Threads run, a Client that is gone is restored (Residency), a started
\* virule.exe asks and exits, a result card closes.  People, the clock of the
\* hold and of the record, and the service's releases owe nothing.
FairSpec ==
    /\ Spec
    /\ \A t \in Threads : WF_vars(Threading(t))
    /\ WF_vars(Startup) /\ WF_vars(AdminStep) /\ WF_vars(CardCloses)
    /\ WF_vars(SelfUpdateStages) /\ WF_vars(Swap) /\ WF_vars(Uninstall)

-----------------------------------------------------------------------------
(* Properties.                                                             *)

\* "The previous install survives any failed swap" (run_pipeline step 7):
\* through deaths, failed renames, cancellations and the two startups of the
\* Client, an installed Admin is Admin\ or Admin.previous\ until an uninstall
\* takes it.  The exception (unkept) is the operation that finds no live tree:
\* it removes Admin.previous\ before its own placement can fail.
KnownGoodSurvives ==
    mirror # 0 /\ uninst # "gone" /\ ~unkept => live.ver # 0 \/ previous.ver # 0

\* THE FALSE "UP TO DATE": whatever version is answered is the live tree's,
\* after a swap cut anywhere and whatever state.json lost.
VersionIsTrue == authoritative \in {0, live.ver}

\* THE LAUNCH LOOP: once a launch's update failed, and until the hold is over
\* or a success retires it, no launch starts that update again, whatever
\* Client has started since and reconciled itself.
NoLaunchLoop ==
    [][\A l \in Launches :
          ready /\ thr[l].pc = "decide" /\ thr'[l].pc = "enter" /\ ~hold.over =>
              approved' # hold.ver]_vars

\* An Admin closed for an update comes back, or its failure is on screen.
ClosedIsReopened ==
    (op.closed /\ op.stage = "manifest") ~>
        (admin_running \/ card = "action" \/ client = "off" \/ uninst # "no")

\* "The user's launch ends with a visible Admin or a visible Try again, never
\* with nothing" (launch_after_update_handoff), for a launch handed over and
\* for one a newer Client resumes.  Left out: a launch that joins an
\* operation that owes no launch, and one that waits for the Client's own
\* update (SwapFollows).
Owed(t)    == thr[t].la /\ thr[t].pc \in {"asked", "enter"}
LeftOut(t) == (\E u \in Threads : thr[u].pc = "joined") \/ thr[t].res = "client_update"
Visible == admin = "open" \/ card = "action" \/ client = "off" \/ uninst # "no" \/ ~admin_installed
LaunchEndsVisible ==
    \A t \in {"resume"} \cup Launches : Owed(t) ~> (Visible \/ LeftOut(t))

\* "This card goes with this process at the swap; the new client's own card
\* follows within moments" (launch_after_update_handoff): an update recorded
\* for the next Client, staged, is followed by the swap.
SwapFollows ==
    (swapReady /\ pending.by = binary) ~> (client = "off" \/ pending.by # binary \/ uninst # "no")
=============================================================================
