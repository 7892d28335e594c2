----------------------------- MODULE Residency -----------------------------
(***************************************************************************)
(* Who keeps VIRULE running, who replaces its binaries and who removes     *)
(* them: the Client (client/main.cpp, client/self_update.hpp), the helper  *)
(* of its own update, VIRULE Service (service/main.cpp) which restores the *)
(* Client, the Client's watch of the service (client/service_watch.hpp),   *)
(* the replacement of the service (client/service_install.hpp), Setup and  *)
(* the uninstall.  They are processes that know each other by named        *)
(* mutexes and events, by the latch of the uninstall and by files.         *)
(*                                                                         *)
(* Version 1 is what the computer has, version 2 the approved release; 0   *)
(* is a missing file.  Time passes only as an alternative: a bound may     *)
(* expire whenever what it waits for has not come.                         *)
(***************************************************************************)
EXTENDS Naturals

CONSTANT
    MaxUpsets    \* how many of: a death, a failed rename, a broken-off
                 \* uninstall, a start by the user, an uninstall, a run of Setup

ASSUME ResidencyAssumption == MaxUpsets \in Nat

VARIABLES
    exe,         \* the Client's files: live, old, staged
    sexe,        \* the service's files: live, old
    txn,         \* the record of the Client's own update
    latch,       \* the durable intent to uninstall
    lock,        \* who holds the maintenance mutex
    cli,         \* the Client: its place and its version
    ready,       \* g_swap_ready
    swap,        \* the swap monitor's place
    check,       \* the update check's place
    un,          \* the uninstall sequence's place, inside the Client
    watch,       \* the Client's watch of the service
    svc,         \* the service: its place and its version
    hold,        \* the service's hold-off
    stopEvt, intentEvt,  \* the events Stop and ExitIntent
    helper,      \* the replacement helper's place
    child,       \* the running Client is the process the helper started
    place,       \* place_staged: its place, and who runs it
    remover,     \* the uninstall helper's place
    setup,       \* Setup's place
    served,      \* history: the new Client has listened
    gap,         \* history: the running system met a hole listed in the README
    upsets,
    uninstalled, replaced   \* an uninstall was asked for; Setup ran

files   == <<exe, sexe, txn, latch>>
client  == <<cli, ready, swap, check, un, watch>>
service == <<svc, hold, stopEvt, intentEvt>>
others  == <<helper, child, place, remover, setup>>
history == <<served, gap>>
budget  == <<upsets, uninstalled, replaced>>
vars == <<files, lock, client, service, others, history, budget>>

Versions == 0 .. 2
NoClient  == [pc |-> "none", ver |-> 0]
NoPlace   == [pc |-> "none", by |-> "none"]

(* The singleton is held from the gate on; the bridge answers from the     *)
(* listener on.                                                            *)
client_present == cli.pc \notin {"none", "started"}
answers        == cli.pc \in {"listening", "serving"}
maintenance_held == lock # "none"

ClientFiles  == [live : Versions, old : Versions, staged : Versions]
ServiceFiles == [live : Versions, old : Versions]
ClientAt  == [pc : {"none", "started", "boot", "listening", "serving", "leaving"}, ver : Versions]
ServiceAt == [pc : {"none", "started", "gated", "top", "bound", "maint", "holdoff", "asleep",
                    "launch", "settle"}, ver : Versions]
PlaceAt   == [pc : {"none", "stop", "stopping", "aside", "place", "start", "wait", "back"},
              by : {"none", "client", "setup"}]

TypeOK ==
    /\ exe \in ClientFiles /\ sexe \in ServiceFiles
    /\ txn \in {"none", "verified", "swapping", "stale", "failed"}
    /\ latch \in BOOLEAN /\ ready \in BOOLEAN /\ hold \in BOOLEAN
    /\ stopEvt \in BOOLEAN /\ intentEvt \in BOOLEAN /\ served \in BOOLEAN /\ gap \in BOOLEAN
    /\ lock \in {"none", "helper", "client", "setup"}
    /\ cli \in ClientAt
    /\ cli.pc # "none" => cli.ver # 0
    /\ swap \in {"idle", "draining"}
    /\ check \in {"idle", "lock", "placing", "own"}
    /\ un \in {"none", "latched", "stopped", "discarded", "committed"}
    /\ watch \in {"off", "look", "launch"}
    /\ svc \in ServiceAt
    /\ child \in BOOLEAN
    /\ helper \in {"none", "lock", "parent", "aside", "swap", "start", "health",
                   "clean", "unhealthy", "back", "back2"}
    /\ place \in PlaceAt
    /\ remover \in {"none", "stop", "wait", "remove", "verify", "done"}
    /\ setup \in {"none", "lock", "stop", "replace", "clear", "service"}
    /\ upsets \in 0 .. MaxUpsets /\ uninstalled \in BOOLEAN /\ replaced \in BOOLEAN

Init ==
    /\ exe = [live |-> 1, old |-> 0, staged |-> 0]
    /\ sexe = [live |-> 1, old |-> 0]
    /\ txn = "none" /\ latch = FALSE /\ lock = "none"
    /\ cli = NoClient /\ ready = FALSE /\ swap = "idle" /\ check = "idle"
    /\ un = "none" /\ watch = "off"
    /\ svc = [pc |-> "top", ver |-> 1] /\ hold = FALSE /\ stopEvt = FALSE /\ intentEvt = FALSE
    /\ helper = "none" /\ child = FALSE /\ place = NoPlace /\ remover = "none" /\ setup = "none"
    /\ served = FALSE /\ gap = FALSE
    /\ upsets = 0 /\ uninstalled = FALSE /\ replaced = FALSE

Upset == ~gap /\ upsets < MaxUpsets /\ upsets' = upsets + 1
Fault == Upset /\ UNCHANGED <<uninstalled, replaced>>

-----------------------------------------------------------------------------
(* The processes                                                           *)

(* A start of the managed executable: a second instance hands over to the  *)
(* first and leaves.                                                       *)
\* A faulty start_client: it does not look whether the file is there.
StartMissing(c, ver) == IF c.pc = "none" THEN [pc |-> "started", ver |-> ver] ELSE c

start_client(c, ver) == IF ver # 0 /\ c.pc = "none" THEN [pc |-> "started", ver |-> ver] ELSE c

start_service(ver) ==
    svc' = IF ver # 0 /\ svc.pc = "none" THEN [pc |-> "started", ver |-> ver] ELSE svc

(* What dies with the Client: its threads, and the mutex if it had it.     *)
ClientGone ==
    /\ cli' = NoClient /\ ready' = FALSE /\ swap' = "idle" /\ check' = "idle"
    /\ un' = "none" /\ watch' = "off" /\ child' = FALSE
    /\ lock' = IF lock = "client" THEN "none" ELSE lock
    /\ place' = IF place.by = "client" THEN NoPlace ELSE place

(* An event exists while the service does.                                 *)
Signal == svc.pc \notin {"none", "started", "gated"}

(* discard_pending: what has not been committed goes.                      *)
discard_pending ==
    /\ exe' = [exe EXCEPT !.staged = 0] /\ txn' = "none" /\ ready' = FALSE

(* What is staged is the recorded release: its size, hash and signer.       *)
staged_binary_valid == exe.staged = 2

-----------------------------------------------------------------------------
(* The Client from its start to its listener                               *)

(* The user, the login or Windows starts it.                               *)
UserStarts ==
    /\ Fault /\ cli.pc = "none" /\ exe.live # 0
    /\ cli' = start_client(cli, exe.live)
    /\ UNCHANGED <<files, lock, ready, swap, check, un, watch, service, others, history>>

(* The login start brings the Client back when nothing runs any more: it   *)
(* is the last resort, so only then is it not counted.                     *)
LoginStarts ==
    /\ cli.pc = "none" /\ svc.pc = "none" /\ helper = "none" /\ setup = "none"
    /\ exe.live # 0 /\ ~latch
    /\ cli' = start_client(cli, exe.live)
    /\ UNCHANGED <<files, lock, ready, swap, check, un, watch, service, others, history, budget>>

(* The gate: under the latch a started Client leaves.                      *)
Gate ==
    /\ cli.pc = "started"
    /\ \/ latch /\ ClientGone
       \/ ~latch /\ cli' = [cli EXCEPT !.pc = "boot"]
          /\ UNCHANGED <<lock, ready, swap, check, un, watch, child, place>>
    /\ UNCHANGED <<files, service, helper, remover, setup, history, budget>>

(* The bridge listens.                                                     *)
Listen ==
    /\ cli.pc = "boot"
    /\ cli' = [cli EXCEPT !.pc = "listening"]
    /\ served' = (served \/ cli.ver = 2)
    /\ UNCHANGED <<files, lock, ready, swap, check, un, watch, service, others, gap, budget>>

(* self_update reconcile_startup_residue, by the state of the record.      *)
Reconcile ==
    /\ cli.pc = "listening" /\ watch = "off"
    /\ CASE txn = "none" -> /\ exe' = [exe EXCEPT !.staged = 0, !.old = 0]
                            /\ UNCHANGED <<txn, ready>>
         [] txn = "verified" -> IF cli.ver = 2 \/ ~staged_binary_valid
                                THEN discard_pending
                                ELSE ready' = TRUE /\ UNCHANGED <<exe, txn>>
         [] txn \in {"swapping", "stale"} /\ cli.ver = 2 ->
                            /\ exe' = [exe EXCEPT !.staged = 0, !.old = 0]
                            /\ txn' = "none" /\ UNCHANGED ready
         [] txn = "swapping" /\ cli.ver = 1 -> UNCHANGED <<exe, txn, ready>>
         [] txn = "stale" /\ cli.ver = 1 -> IF staged_binary_valid
                                            THEN txn' = "verified" /\ ready' = TRUE /\ UNCHANGED exe
                                            ELSE discard_pending
         [] txn = "failed" -> exe' = [exe EXCEPT !.staged = 0] /\ UNCHANGED <<txn, ready>>
    /\ watch' = "look"
    /\ UNCHANGED <<sexe, latch, lock, cli, swap, check, un, service, others, history, budget>>

(* service_install reconcile_startup_residue, then the wake of the service.*)
SettleService ==
    /\ cli.pc = "listening" /\ watch = "look"
    /\ cli' = [cli EXCEPT !.pc = "serving"]
    /\ sexe' = IF maintenance_held THEN sexe
               ELSE [live |-> IF sexe.live = 0 THEN sexe.old ELSE sexe.live, old |-> 0]
    /\ svc' = IF svc.pc \in {"bound", "holdoff", "asleep", "settle"}
              THEN [svc EXCEPT !.pc = "top"] ELSE svc
    /\ UNCHANGED <<exe, txn, latch, lock, ready, swap, check, un, watch, hold, stopEvt, intentEvt,
                   others, history, budget>>

(* The record grows old: ten minutes, longer than any helper and any start *)
(* of a Client takes.                                                      *)
RecordAges ==
    /\ txn = "swapping" /\ helper = "none" /\ cli.pc \in {"none", "serving"}
    /\ txn' = "stale"
    /\ UNCHANGED <<exe, sexe, latch, lock, client, service, others, history, budget>>

-----------------------------------------------------------------------------
(* The update check and the swap                                           *)

checking == cli.pc = "serving" /\ un = "none" /\ ~latch

(* reconcile: the service is missing, or this release's is another one.    *)
service_wanted == sexe.live = 0 \/ (cli.ver = 2 /\ sexe.live # 2)

BeginCheck ==
    /\ checking /\ check = "idle"
    /\ check' = IF service_wanted THEN "lock" ELSE "own"
    /\ UNCHANGED <<files, lock, cli, ready, swap, un, watch, service, others, history, budget>>

(* The artifact is downloaded and verified; the mutex is taken or its      *)
(* bound passes, and the latch is looked at again.                         *)
LockForService ==
    /\ cli.pc \in {"serving", "leaving"} /\ check = "lock"
    /\ \/ /\ lock = "none" /\ ~latch
          /\ lock' = "client" /\ check' = "placing" /\ place' = [pc |-> "stop", by |-> "client"]
       \/ /\ lock # "none" \/ latch
          /\ check' = "own" /\ UNCHANGED <<lock, place>>
    /\ UNCHANGED <<files, cli, ready, swap, un, watch, service, helper, child, remover, setup,
                   history, budget>>

PlacedForService ==
    /\ check = "placing" /\ place.pc = "none"
    /\ lock' = "none" /\ check' = "own"
    /\ UNCHANGED <<files, cli, ready, swap, un, watch, service, others, history, budget>>

(* The Client's own part: an approved release that is no upgrade discards  *)
(* what is staged; an upgrade is staged, verified and recorded.            *)
CheckOwn ==
    /\ cli.pc = "serving" /\ check = "own"
    /\ check' = "idle"
    /\ \/ /\ cli.ver = 2 /\ txn \notin {"none", "swapping", "stale"} /\ discard_pending
       \/ /\ cli.ver = 1 /\ txn = "verified"
          /\ ready' = TRUE /\ UNCHANGED <<exe, txn>>
       \/ /\ cli.ver = 1 /\ txn = "none" /\ un = "none"
          /\ exe' = [exe EXCEPT !.staged = 2] /\ txn' = "verified" /\ ready' = TRUE
       \/ /\ \/ cli.ver = 2 /\ txn \in {"none", "swapping", "stale"}
             \/ cli.ver = 1 /\ txn \in {"swapping", "stale", "failed"}
             \/ cli.ver = 1 /\ txn = "none" /\ un # "none"
          /\ UNCHANGED <<exe, txn, ready>>
    /\ UNCHANGED <<sexe, latch, lock, cli, swap, un, watch, service, others, history, budget>>

(* The swap monitor: a safe point, then the drain.  What it asks of the    *)
(* Admin, of Setup and of the credential flow is left to chance.           *)
Drain ==
    /\ cli.pc = "serving" /\ ready /\ swap = "idle"
    /\ \/ latch /\ discard_pending /\ UNCHANGED swap
       \/ ~latch /\ un = "none" /\ swap' = "draining" /\ UNCHANGED <<exe, txn, ready>>
    /\ UNCHANGED <<sexe, latch, lock, cli, check, un, watch, service, others, history, budget>>

(* The second look, 250 ms later, and begin_swap.                          *)
begin_swap ==
    /\ cli.pc = "serving" /\ swap = "draining"
    /\ \/ /\ un = "none" /\ txn = "verified" /\ staged_binary_valid /\ helper = "none"
          /\ txn' = "swapping" /\ helper' = "lock"
          /\ cli' = [cli EXCEPT !.pc = "leaving"] /\ swap' = "idle"
          /\ intentEvt' = (intentEvt \/ Signal)
          /\ UNCHANGED <<exe, ready>>
       \/ /\ un # "none" \/ txn # "verified"
          /\ swap' = "idle" /\ UNCHANGED <<exe, txn, ready, cli, helper, intentEvt>>
       \/ /\ un = "none" /\ txn = "verified" /\ ~staged_binary_valid
          /\ discard_pending /\ swap' = "idle" /\ UNCHANGED <<cli, helper, intentEvt>>
    /\ UNCHANGED <<sexe, latch, lock, check, un, watch, svc, hold, stopEvt, child, place, remover,
                   setup, history, budget>>

ClientExits ==
    /\ cli.pc = "leaving"
    /\ ClientGone
    /\ UNCHANGED <<files, service, helper, remover, setup, history, budget>>

-----------------------------------------------------------------------------
(* VIRULE Service                                                          *)

SvcUnchanged == UNCHANGED <<files, lock, client, others, history, budget>>

(* Its own gate; then its events, and what was signaled before is dropped. *)
SvcGate ==
    /\ svc.pc = "started"
    /\ svc' = IF latch THEN [pc |-> "none", ver |-> 0] ELSE [svc EXCEPT !.pc = "gated"]
    /\ SvcUnchanged /\ UNCHANGED <<hold, stopEvt, intentEvt>>

SvcReady ==
    /\ svc.pc = "gated"
    /\ svc' = [svc EXCEPT !.pc = "top"]
    /\ stopEvt' = FALSE /\ intentEvt' = FALSE /\ hold' = FALSE
    /\ SvcUnchanged

Top(pc) == svc.pc = "top" /\ ~latch /\ ~stopEvt /\ svc' = [svc EXCEPT !.pc = pc]

(* The loop, in its order: the latch and the stop, the Client, maintenance,*)
(* the hold-off, the missing file, the restore.                            *)
\* A faulty SvcStandDown: it trusts the event alone.
SvcStandDownOnStop ==
    /\ svc.pc = "top" /\ stopEvt
    /\ svc' = [pc |-> "none", ver |-> 0] /\ stopEvt' = FALSE /\ intentEvt' = FALSE /\ hold' = FALSE
    /\ SvcUnchanged

SvcStandDown ==
    /\ svc.pc = "top" /\ (latch \/ stopEvt)
    /\ svc' = [pc |-> "none", ver |-> 0] /\ stopEvt' = FALSE /\ intentEvt' = FALSE /\ hold' = FALSE
    /\ SvcUnchanged

SvcBind == client_present /\ Top("bound") /\ SvcUnchanged /\ UNCHANGED <<hold, stopEvt, intentEvt>>

SvcWaitMaintenance ==
    /\ ~client_present /\ maintenance_held /\ Top("maint")
    /\ SvcUnchanged /\ UNCHANGED <<hold, stopEvt, intentEvt>>

\* A faulty SvcHoldOff: it waits for the replacement without a bound.
SvcHoldOffForGood ==
    /\ ~client_present /\ ~maintenance_held /\ hold /\ Top("asleep")
    /\ SvcUnchanged /\ UNCHANGED <<hold, stopEvt, intentEvt>>

SvcHoldOff ==
    /\ ~client_present /\ ~maintenance_held /\ hold /\ Top("holdoff")
    /\ SvcUnchanged /\ UNCHANGED <<hold, stopEvt, intentEvt>>

SvcAsleep ==
    /\ ~client_present /\ ~maintenance_held /\ ~hold /\ exe.live = 0 /\ Top("asleep")
    /\ SvcUnchanged /\ UNCHANGED <<hold, stopEvt, intentEvt>>

SvcRestore ==
    /\ ~client_present /\ ~maintenance_held /\ ~hold /\ exe.live # 0 /\ Top("launch")
    /\ SvcUnchanged /\ UNCHANGED <<hold, stopEvt, intentEvt>>

SvcLaunch ==
    /\ svc.pc = "launch"
    /\ cli' = start_client(cli, exe.live)
    /\ svc' = [svc EXCEPT !.pc = IF exe.live # 0 THEN "settle" ELSE "top"]
    /\ UNCHANGED <<files, lock, ready, swap, check, un, watch, hold, stopEvt, intentEvt, others,
                   history, budget>>

(* What it waits for has come: the stop, the Client's exit (announced or   *)
(* not), the end of the maintenance, of the hold-off or of the settling.   *)
SvcWakes ==
    /\ \/ /\ stopEvt /\ svc.pc \in {"bound", "maint", "holdoff", "asleep", "settle"}
          /\ UNCHANGED <<hold, intentEvt>>
       \/ /\ svc.pc = "bound" /\ cli.pc = "none"
          /\ hold' = (hold \/ intentEvt) /\ intentEvt' = FALSE
       \/ /\ svc.pc = "maint" /\ ~maintenance_held
          /\ hold' = TRUE /\ UNCHANGED intentEvt
       \/ /\ svc.pc = "holdoff" /\ helper # "lock"  \* it outlasts the helper's wait for the mutex
          /\ hold' = FALSE /\ UNCHANGED intentEvt
       \/ svc.pc = "settle" /\ UNCHANGED <<hold, intentEvt>>
    /\ svc' = [svc EXCEPT !.pc = "top"]
    /\ UNCHANGED stopEvt /\ SvcUnchanged

(* The Client's watch: the same loop for the service; a missing file asks  *)
(* the update check to repair it.                                          *)
\* A faulty WatchLooks: a missing service is left to the next check.
WatchNoRepair ==
    /\ cli.pc = "serving" /\ watch = "look"
    /\ \/ (un # "none" \/ latch) /\ watch' = "off"
       \/ un = "none" /\ ~latch /\ ~Signal /\ ~maintenance_held /\ sexe.live # 0 /\ watch' = "launch"
    /\ UNCHANGED <<files, lock, cli, ready, swap, check, un, service, others, history, budget>>

WatchLooks ==
    /\ cli.pc = "serving" /\ watch = "look"
    /\ \/ /\ un # "none" \/ latch
          /\ watch' = "off" /\ UNCHANGED check
       \/ /\ un = "none" /\ ~latch /\ ~Signal /\ ~maintenance_held /\ sexe.live # 0
          /\ watch' = "launch" /\ UNCHANGED check
       \/ /\ un = "none" /\ ~latch /\ ~Signal /\ ~maintenance_held /\ sexe.live = 0
          /\ check = "idle" /\ check' = "lock" /\ UNCHANGED watch
    /\ UNCHANGED <<files, lock, cli, ready, swap, un, service, others, history, budget>>

WatchLaunches ==
    /\ cli.pc = "serving" /\ watch = "launch"
    /\ start_service(sexe.live) /\ watch' = "look"
    /\ UNCHANGED <<files, lock, cli, ready, swap, check, un, hold, stopEvt, intentEvt, others,
                   history, budget>>

-----------------------------------------------------------------------------
(* place_staged: stop, aside, place, start, wait, and back                 *)

PlaceUnchanged == UNCHANGED <<exe, txn, latch, lock, client, hold, intentEvt, helper, child,
                              remover, setup, history>>

PlaceStops ==
    /\ place.pc = "stop"
    /\ place' = [place EXCEPT !.pc = "stopping"] /\ stopEvt' = (stopEvt \/ Signal)
    /\ PlaceUnchanged /\ UNCHANGED <<sexe, svc, budget>>

PlaceStopped ==
    /\ place.pc = "stopping"
    /\ \/ svc.pc = "none" /\ place' = [place EXCEPT !.pc = "aside"]
       \/ svc.pc # "none" /\ place' = NoPlace     \* the bound: it did not stop
    /\ PlaceUnchanged /\ UNCHANGED <<sexe, svc, stopEvt, budget>>

PlaceAside ==
    /\ place.pc = "aside"
    /\ \/ /\ sexe' = [live |-> 0, old |-> sexe.live] /\ place' = [place EXCEPT !.pc = "place"]
          /\ UNCHANGED <<svc, budget>>
       \/ /\ Fault /\ sexe.live # 0              \* the live binary is locked
          /\ sexe' = [sexe EXCEPT !.old = 0] /\ start_service(sexe.live) /\ place' = NoPlace
    /\ PlaceUnchanged /\ UNCHANGED stopEvt

PlacePlaces ==
    /\ place.pc = "place"
    /\ \/ /\ sexe' = [sexe EXCEPT !.live = 2] /\ place' = [place EXCEPT !.pc = "start"]
          /\ UNCHANGED <<svc, budget>>
       \/ /\ Fault                               \* the staged one cannot be moved
          /\ sexe' = [live |-> sexe.old, old |-> 0]
          /\ start_service(sexe.old) /\ place' = NoPlace
    /\ PlaceUnchanged /\ UNCHANGED stopEvt

(* A service another process started holds the singleton: the one started  *)
(* here leaves, and counts as not resident.                                *)
PlaceStarts ==
    /\ place.pc = "start"
    /\ place' = [place EXCEPT !.pc = IF svc.pc = "none" THEN "wait" ELSE "back"]
    /\ start_service(sexe.live)
    /\ PlaceUnchanged /\ UNCHANGED <<sexe, stopEvt, budget>>

PlaceWaits ==
    /\ place.pc = "wait"
    /\ \/ /\ Signal /\ sexe' = [sexe EXCEPT !.old = 0] /\ place' = NoPlace
       \/ /\ svc.pc = "none" /\ place' = [place EXCEPT !.pc = "back"] /\ UNCHANGED sexe
    /\ PlaceUnchanged /\ UNCHANGED <<svc, stopEvt, budget>>

(* A binary a running service was started from can be neither removed nor  *)
(* replaced.                                                               *)
PlaceBack ==
    /\ place.pc = "back" /\ place' = NoPlace
    /\ \/ /\ svc.pc = "none"
          /\ sexe' = [live |-> sexe.old, old |-> 0] /\ start_service(sexe.old)
       \/ svc.pc # "none" /\ UNCHANGED <<sexe, svc>>
    /\ PlaceUnchanged /\ UNCHANGED <<stopEvt, budget>>

-----------------------------------------------------------------------------
(* The replacement helper (run_finish_self_update)                         *)

HelperUnchanged == UNCHANGED <<sexe, latch, service, remover, setup, served>>
HelperOnly == HelperUnchanged /\ UNCHANGED <<client, child, place, gap, budget>>

HelperEnds == helper' = "none" /\ lock' = IF lock = "helper" THEN "none" ELSE lock

(* mark_failed, and the Client that is live is started again; with none    *)
(* left to start, a hole.                                                  *)
FailsAndStarts(files_) ==
    /\ exe' = [files_ EXCEPT !.staged = 0] /\ txn' = "failed"
    /\ cli' = start_client(cli, files_.live) /\ HelperEnds
    /\ gap' = (gap \/ (files_.live = 0 /\ remover = "none"))
    /\ HelperUnchanged /\ UNCHANGED <<ready, swap, check, un, watch, child, place>>

HelperLocks ==
    /\ helper = "lock"
    /\ \/ lock = "none" /\ lock' = "helper" /\ helper' = "parent" /\ UNCHANGED txn
       \/ /\ lock # "none" /\ cli.pc # "leaving"  \* 30 s: the swap is abandoned
          /\ txn' = (IF txn = "swapping" THEN "verified" ELSE txn) /\ HelperEnds
    /\ UNCHANGED exe /\ HelperOnly

(* The parent has gone; uninstall wins; the record must still say swapping.*)
HelperLooks ==
    /\ helper = "parent" /\ cli.pc # "leaving"
    /\ \/ latch /\ exe' = [exe EXCEPT !.staged = 0] /\ txn' = "none" /\ HelperEnds
       \/ ~latch /\ txn # "swapping" /\ HelperEnds /\ UNCHANGED <<exe, txn>>
       \/ ~latch /\ txn = "swapping" /\ helper' = "aside" /\ UNCHANGED <<exe, txn, lock>>
    /\ HelperOnly

(* The staged binary is verified again; the known-good one is set aside,   *)
(* or it is locked or gone.                                                *)
HelperSetsAside ==
    /\ helper = "aside"
    /\ \/ ~staged_binary_valid /\ FailsAndStarts(exe) /\ UNCHANGED budget
       \/ /\ staged_binary_valid /\ exe.live # 0
          /\ exe' = [exe EXCEPT !.live = 0, !.old = exe.live] /\ helper' = "swap"
          /\ UNCHANGED <<txn, lock>> /\ HelperOnly
       \/ /\ staged_binary_valid
          /\ \/ exe.live = 0 /\ UNCHANGED budget
             \/ exe.live # 0 /\ Fault
          /\ FailsAndStarts([exe EXCEPT !.old = 0])

restored(files_) == IF files_.old # 0 THEN [files_ EXCEPT !.live = files_.old, !.old = 0] ELSE files_

HelperSwaps ==
    /\ helper = "swap"
    /\ \/ /\ exe.staged # 0
          /\ exe' = [exe EXCEPT !.live = exe.staged, !.staged = 0] /\ helper' = "start"
          /\ UNCHANGED <<txn, lock>> /\ HelperOnly
       \/ /\ \/ exe.staged = 0 /\ UNCHANGED budget
             \/ exe.staged # 0 /\ Fault
          /\ FailsAndStarts(restored(exe))

HelperStarts ==
    /\ helper = "start"
    /\ cli' = start_client(cli, exe.live) /\ child' = (cli.pc = "none" /\ exe.live # 0)
    /\ helper' = IF exe.live # 0 THEN "health" ELSE "unhealthy"
    /\ UNCHANGED <<exe, txn, lock, ready, swap, check, un, watch, place, gap, budget>>
    /\ HelperUnchanged

(* The bridge answered with the new version, or twenty seconds passed      *)
(* since the last poll it did not answer.                                  *)
\* A faulty HelperPolls: whoever answers is taken for the new Client.
HelperPollsAnyVersion ==
    /\ helper = "health"
    /\ helper' = IF answers THEN "clean" ELSE "unhealthy"
    /\ UNCHANGED <<exe, txn, lock>> /\ HelperOnly

HelperPolls ==
    /\ helper = "health"
    /\ helper' = IF answers /\ cli.ver = 2 THEN "clean" ELSE "unhealthy"
    /\ UNCHANGED <<exe, txn, lock>> /\ HelperOnly

HelperCleans ==
    /\ helper = "clean"
    /\ exe' = [exe EXCEPT !.old = 0] /\ txn' = "none" /\ HelperEnds
    /\ HelperOnly

(* Its own child is ended; an uninstall that began stands.                 *)
HelperEndsChild ==
    /\ helper = "unhealthy"
    /\ IF child THEN ClientGone ELSE UNCHANGED <<client, child, place, lock>>
    /\ helper' = "back"
    /\ UNCHANGED <<exe, txn, gap, budget>> /\ HelperUnchanged

HelperRollsBack ==
    /\ helper = "back"
    /\ \/ latch /\ HelperEnds /\ UNCHANGED exe
       \/ /\ ~latch /\ helper' = "back2"
          /\ exe' = IF exe.live # 0 THEN [exe EXCEPT !.staged = exe.live, !.live = 0] ELSE exe
          /\ UNCHANGED lock
    /\ UNCHANGED txn /\ HelperOnly

HelperRestores ==
    /\ helper = "back2"
    /\ FailsAndStarts(restored(exe)) /\ UNCHANGED budget

-----------------------------------------------------------------------------
(* The uninstall: inside the serving Client, or by the launcher itself     *)

(* The bridge refuses it while a swap drains.  The latch is written first. *)
UninstallAsked ==
    /\ cli.pc = "serving" /\ un = "none" /\ swap = "idle"
    /\ Upset /\ setup = "none"
    /\ un' = "latched" /\ latch' = TRUE /\ uninstalled' = TRUE
    /\ UNCHANGED <<exe, sexe, txn, lock, cli, ready, swap, check, watch, service, others, history,
                   replaced>>

UninstallStopsService ==
    /\ un = "latched"
    /\ un' = "stopped" /\ stopEvt' = (stopEvt \/ Signal)
    /\ UNCHANGED <<files, lock, cli, ready, swap, check, watch, svc, hold, intentEvt, others,
                   history, budget>>

UninstallDiscards ==
    /\ un = "stopped"
    /\ discard_pending /\ un' = "discarded"
    /\ UNCHANGED <<sexe, latch, lock, cli, swap, check, watch, service, others, history, budget>>

(* The Admin does not close or the helper does not start: the Client goes  *)
(* on serving and the latch stays.                                         *)
UninstallAborts ==
    /\ un \in {"stopped", "discarded"} /\ Fault
    /\ un' = "none"
    /\ UNCHANGED <<files, lock, cli, ready, swap, check, watch, service, others, history>>

UninstallCommits ==
    /\ un = "discarded"
    /\ un' = "committed" /\ remover' = "stop" /\ cli' = [cli EXCEPT !.pc = "leaving"]
    /\ UNCHANGED <<files, lock, ready, swap, check, watch, service, helper, child, place, setup,
                   history, budget>>

(* --uninstall with no Client that answers.  One that passed the gate and  *)
(* does not listen yet serves under the latch: a hole.                     *)
LauncherUninstalls ==
    /\ ~answers /\ exe.live # 0 /\ remover = "none"
    /\ Upset /\ setup = "none"
    /\ latch' = TRUE /\ stopEvt' = (stopEvt \/ Signal) /\ remover' = "stop"
    /\ uninstalled' = TRUE /\ gap' = (gap \/ cli.pc = "boot")
    /\ UNCHANGED <<exe, sexe, txn, lock, client, svc, hold, intentEvt, helper, child, place, setup,
                   served, replaced>>

(* The uninstall helper asks the service once; then every managed process gone, the files (a process  *)
(* that runs again keeps its own), then the look whether they are gone,    *)
(* the registrations, and the latch last.                                  *)
RemoverStops ==
    /\ remover = "stop"
    /\ remover' = "wait" /\ stopEvt' = (stopEvt \/ Signal)
    /\ UNCHANGED <<files, lock, client, svc, hold, intentEvt, helper, child, place, setup, history,
                   budget>>

RemoverWaits ==
    /\ remover = "wait" /\ cli.pc = "none" /\ svc.pc = "none"
    /\ remover' = "remove"
    /\ UNCHANGED <<files, lock, client, service, helper, child, place, setup, history, budget>>

RemoverRemoves ==
    /\ remover = "remove" /\ remover' = "verify"
    /\ exe' = IF cli.pc = "none" THEN [live |-> 0, old |-> 0, staged |-> 0] ELSE exe
    /\ sexe' = IF svc.pc = "none" THEN [live |-> 0, old |-> 0] ELSE sexe
    /\ txn' = "none"
    /\ UNCHANGED <<latch, lock, client, service, helper, child, place, setup, history, budget>>

\* A faulty RemoverVerifies: what removal reports is believed.
RemoverBelieves ==
    /\ remover = "verify"
    /\ remover' = "done" /\ latch' = FALSE
    /\ UNCHANGED <<exe, sexe, txn, lock, client, service, helper, child, place, setup, history,
                   budget>>

RemoverVerifies ==
    /\ remover = "verify"
    /\ IF exe = [live |-> 0, old |-> 0, staged |-> 0] /\ sexe = [live |-> 0, old |-> 0]
       THEN remover' = "done" /\ latch' = FALSE
       ELSE remover' = "wait" /\ UNCHANGED latch
    /\ UNCHANGED <<exe, sexe, txn, lock, client, service, helper, child, place, setup, history,
                   budget>>

-----------------------------------------------------------------------------
(* Setup.  It and an uninstall are both the user's own: not at once.       *)

SetupUnchanged == UNCHANGED <<sexe, ready, swap, check, un, watch, svc, hold, stopEvt, helper,
                              child, served>>

SetupBegins ==
    /\ setup = "none" /\ Upset /\ remover \in {"none", "done"} /\ un = "none"
    /\ setup' = "lock" /\ replaced' = TRUE
    /\ SetupUnchanged /\ UNCHANGED <<exe, txn, latch, lock, cli, intentEvt, place, remover, gap,
                                     uninstalled>>

(* The mutex, or on without it: a hole while another maintainer works.     *)
SetupLocks ==
    /\ setup = "lock" /\ setup' = "stop"
    /\ \/ lock = "none" /\ lock' = "setup" /\ UNCHANGED gap
       \/ lock # "none" /\ gap' = TRUE /\ UNCHANGED lock
    /\ SetupUnchanged /\ UNCHANGED <<exe, txn, latch, cli, intentEvt, place, remover, budget>>

SetupStopsClient ==
    /\ setup = "stop" /\ setup' = "replace"
    /\ IF answers THEN cli' = [cli EXCEPT !.pc = "leaving"] /\ intentEvt' = (intentEvt \/ Signal)
                  ELSE UNCHANGED <<cli, intentEvt>>
    /\ SetupUnchanged /\ UNCHANGED <<exe, txn, latch, lock, place, remover, gap, budget>>

SetupEnds == setup' = "none" /\ lock' = IF lock = "setup" THEN "none" ELSE lock

(* A Client that still runs keeps its file: Setup fails.                   *)
SetupReplaces ==
    /\ setup = "replace"
    /\ \/ cli.pc = "none" /\ exe' = [exe EXCEPT !.live = 2] /\ setup' = "clear" /\ UNCHANGED lock
       \/ cli.pc # "none" /\ SetupEnds /\ UNCHANGED exe
    /\ SetupUnchanged /\ UNCHANGED <<txn, latch, cli, intentEvt, place, remover, gap, budget>>

(* The residue of an update, and the latch.                                *)
SetupClears ==
    /\ setup = "clear" /\ setup' = "service"
    /\ exe' = [exe EXCEPT !.old = 0, !.staged = 0] /\ txn' = "none" /\ latch' = FALSE
    /\ remover' = "none" /\ place' = [pc |-> "stop", by |-> "setup"]
    /\ SetupUnchanged /\ UNCHANGED <<lock, cli, intentEvt, gap, budget>>

SetupStartsClient ==
    /\ setup = "service" /\ place.by # "setup"
    /\ cli' = start_client(cli, exe.live) /\ SetupEnds
    /\ SetupUnchanged /\ UNCHANGED <<exe, txn, latch, intentEvt, place, remover, gap, budget>>

-----------------------------------------------------------------------------
(* What dies                                                               *)

ClientDies ==
    /\ cli.pc # "none" /\ Fault /\ ClientGone
    /\ UNCHANGED <<files, service, helper, remover, setup, history>>

ServiceDies ==
    /\ svc.pc # "none" /\ Fault
    /\ svc' = [pc |-> "none", ver |-> 0] /\ stopEvt' = FALSE /\ intentEvt' = FALSE /\ hold' = FALSE
    /\ UNCHANGED <<files, lock, client, others, history>>

(* Between its two renames the helper leaves no live binary: a hole.       *)
HelperDies ==
    /\ helper # "none" /\ Fault /\ HelperEnds
    /\ gap' = (gap \/ helper \in {"swap", "back2"})
    /\ HelperUnchanged /\ UNCHANGED <<exe, txn, client, child, place>>

-----------------------------------------------------------------------------
ClientStep == Gate \/ Listen \/ Reconcile \/ SettleService \/ ClientExits
CheckStep == LockForService \/ PlacedForService \/ CheckOwn
WatchStep == WatchLooks \/ WatchLaunches
ServiceStep ==
    \/ SvcGate \/ SvcReady \/ SvcStandDown \/ SvcBind \/ SvcWaitMaintenance \/ SvcHoldOff
    \/ SvcAsleep \/ SvcRestore \/ SvcLaunch \/ SvcWakes
PlaceStep ==
    \/ PlaceStops \/ PlaceStopped \/ PlaceAside \/ PlacePlaces \/ PlaceStarts \/ PlaceWaits
    \/ PlaceBack
HelperStep ==
    \/ HelperLocks \/ HelperLooks \/ HelperSetsAside \/ HelperSwaps
    \/ HelperStarts \/ HelperPolls \/ HelperCleans \/ HelperEndsChild \/ HelperRollsBack
    \/ HelperRestores
UninstallStep == UninstallStopsService \/ UninstallDiscards \/ UninstallCommits
RemoverStep == RemoverStops \/ RemoverWaits \/ RemoverRemoves \/ RemoverVerifies
SetupStep ==
    \/ SetupLocks \/ SetupStopsClient \/ SetupReplaces \/ SetupClears \/ SetupStartsClient

Next ==
    \/ ClientStep \/ BeginCheck \/ CheckStep \/ Drain \/ begin_swap \/ WatchStep
    \/ ServiceStep \/ PlaceStep \/ HelperStep \/ UninstallStep \/ RemoverStep \/ SetupStep
    \/ UserStarts \/ LoginStarts \/ RecordAges \/ UninstallAsked \/ UninstallAborts \/ LauncherUninstalls
    \/ SetupBegins \/ ClientDies \/ ServiceDies \/ HelperDies

Spec == Init /\ [][Next]_vars

(* Every thread and process runs.  No fairness for what users, faults and  *)
(* the six hours between two checks bring.                                 *)
FairSpec ==
    /\ Spec
    /\ WF_vars(ClientStep) /\ WF_vars(CheckStep) /\ WF_vars(WatchStep)
    /\ WF_vars(ServiceStep) /\ WF_vars(PlaceStep) /\ WF_vars(HelperStep)
    /\ WF_vars(UninstallStep) /\ WF_vars(RemoverStep) /\ WF_vars(SetupStep)
    /\ WF_vars(LoginStarts)

-----------------------------------------------------------------------------
removed == remover = "done"

(* Until the new version has listened once, the version the computer had   *)
(* is live or set aside: a swap that goes wrong at any rename, at the      *)
(* start, or with the helper's death never destroys it.                    *)
KnownGoodUntilServed ==
    served \/ gap \/ replaced \/ remover \in {"verify", "done"} \/ 1 \in {exe.live, exe.old}

(* What the uninstall reported as removed stays so until Setup runs again, *)
(* whatever the update, its helper, the service and its watch were doing.  *)
RemovedIsFinal ==
    removed /\ setup \notin {"clear", "service"} /\ ~gap =>
        /\ exe.live = 0 \/ setup = "clear"
        /\ exe.old = 0 /\ exe.staged = 0 /\ sexe.old = 0 /\ sexe.live = 0
        /\ cli.pc = "none" /\ svc.pc = "none"

(* A Client serves again and again, unless the user removed VIRULE (or a   *)
(* removal was broken off, which leaves the latch).                        *)
ClientComesBack == []<>(cli.pc = "serving" \/ latch \/ removed \/ gap)

(* So does the service.                                                    *)
ServiceComesBack == []<>(Signal \/ latch \/ removed \/ gap)

(* A removal that was handed to its helper ends: nothing restores what it  *)
(* waits for to leave.                                                     *)
RemovalEnds == (remover = "wait") ~> (removed \/ ~latch \/ gap)
=============================================================================
