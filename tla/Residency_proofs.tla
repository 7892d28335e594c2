-------------------------- MODULE Residency_proofs --------------------------
(***************************************************************************)
(* Proofs about Residency, for any number of deaths, failed renames,       *)
(* broken-off uninstalls, starts, uninstalls and runs of Setup.            *)
(***************************************************************************)
EXTENDS Residency, TLAPS

USE ResidencyAssumption

-----------------------------------------------------------------------------
(* Types.                                                                  *)

\* A start of the Client: a second instance changes nothing.
LEMMA StartForm ==
  ASSUME NEW c \in ClientAt, NEW v \in Versions, c.pc # "none" => c.ver # 0
  PROVE  LET d == start_client(c, v)
         IN  /\ d \in ClientAt
             /\ d.pc # "none" => d.ver # 0
             /\ d = c \/ (c.pc = "none" /\ v # 0 /\ d.pc = "started" /\ d.ver = v)
BY DEF start_client, ClientAt, Versions

\* A step of a process changes its place only.
LEMMA StepForms ==
  ASSUME NEW c \in ClientAt, NEW s \in ServiceAt, NEW r \in PlaceAt
  PROVE  /\ NoClient \in ClientAt /\ NoClient.pc = "none" /\ NoPlace \in PlaceAt
         /\ [pc |-> "none", ver |-> 0] \in ServiceAt
         /\ \A p \in {"boot", "listening", "serving", "leaving"} :
              LET d == [c EXCEPT !.pc = p] IN d \in ClientAt /\ d.pc = p /\ d.ver = c.ver
         /\ \A p \in {"gated", "top", "bound", "maint", "holdoff", "asleep", "launch", "settle"} :
              LET d == [s EXCEPT !.pc = p] IN d \in ServiceAt /\ d.pc = p
         /\ \A p \in {"stopping", "aside", "place", "start", "wait", "back"} :
              LET d == [r EXCEPT !.pc = p] IN d \in PlaceAt /\ d.by = r.by
         /\ \A v \in Versions \ {0} : [pc |-> "started", ver |-> v] \in ServiceAt
         /\ \A b \in {"client", "setup"} : [pc |-> "stop", by |-> b] \in PlaceAt
<1>1. /\ NoClient \in ClientAt /\ NoClient.pc = "none" /\ NoPlace \in PlaceAt
      /\ [pc |-> "none", ver |-> 0] \in ServiceAt
      /\ \A v \in Versions \ {0} : [pc |-> "started", ver |-> v] \in ServiceAt
      /\ \A b \in {"client", "setup"} : [pc |-> "stop", by |-> b] \in PlaceAt
  BY DEF NoClient, ClientAt, NoPlace, PlaceAt, ServiceAt, Versions
<1>2. ASSUME NEW p \in {"boot", "listening", "serving", "leaving"}
      PROVE  LET d == [c EXCEPT !.pc = p] IN d \in ClientAt /\ d.pc = p /\ d.ver = c.ver
  BY DEF ClientAt
<1>3. ASSUME NEW p \in {"gated", "top", "bound", "maint", "holdoff", "asleep", "launch", "settle"}
      PROVE  LET d == [s EXCEPT !.pc = p] IN d \in ServiceAt /\ d.pc = p
  BY DEF ServiceAt
<1>4. ASSUME NEW p \in {"stopping", "aside", "place", "start", "wait", "back"}
      PROVE  LET d == [r EXCEPT !.pc = p] IN d \in PlaceAt /\ d.by = r.by
  BY DEF PlaceAt
<1> QED
  BY <1>1, <1>2, <1>3, <1>4

\* The types of what is a record, of what is a place, and of what is a flag.  An uninstall sequence
\* runs inside a Client that serves, or that leaves for it.
Forms ==
    /\ exe \in ClientFiles /\ sexe \in ServiceFiles
    /\ cli \in ClientAt /\ (cli.pc # "none" => cli.ver # 0)
    /\ svc \in ServiceAt /\ place \in PlaceAt
    /\ un # "none" => cli.pc \in {"serving", "leaving"}
Marks ==
    /\ txn \in {"none", "verified", "swapping", "stale", "failed"}
    /\ lock \in {"none", "helper", "client", "setup"}
    /\ swap \in {"idle", "draining"}
    /\ check \in {"idle", "lock", "placing", "own"}
    /\ un \in {"none", "latched", "stopped", "discarded", "committed"}
    /\ watch \in {"off", "look", "launch"}
    /\ helper \in {"none", "lock", "parent", "aside", "swap", "start", "health",
                   "clean", "unhealthy", "back", "back2"}
    /\ remover \in {"none", "stop", "wait", "remove", "verify", "done"}
    /\ setup \in {"none", "lock", "stop", "replace", "clear", "service"}
    /\ upsets \in 0 .. MaxUpsets
Flags ==
    /\ latch \in BOOLEAN /\ ready \in BOOLEAN /\ hold \in BOOLEAN
    /\ stopEvt \in BOOLEAN /\ intentEvt \in BOOLEAN /\ served \in BOOLEAN /\ gap \in BOOLEAN
    /\ child \in BOOLEAN /\ uninstalled \in BOOLEAN /\ replaced \in BOOLEAN
TypeInv == Forms /\ Marks /\ Flags

\* What each write of the Client's files leaves of them.
Written(f, live, old, staged) ==
    f \in ClientFiles /\ f.live = live /\ f.old = old /\ f.staged = staged

LEMMA WrittenForms ==
  ASSUME exe \in ClientFiles
  PROVE  /\ Written(exe, exe.live, exe.old, exe.staged)
         /\ exe.live \in Versions /\ exe.old \in Versions /\ exe.staged \in Versions
         /\ Written([exe EXCEPT !.staged = 0], exe.live, exe.old, 0)
         /\ Written([exe EXCEPT !.staged = 2], exe.live, exe.old, 2)
         /\ Written([exe EXCEPT !.old = 0], exe.live, 0, exe.staged)
         /\ Written([exe EXCEPT !.live = 2], 2, exe.old, exe.staged)
         /\ Written([exe EXCEPT !.staged = 0, !.old = 0], exe.live, 0, 0)
         /\ Written([exe EXCEPT !.old = 0, !.staged = 0], exe.live, 0, 0)
         /\ Written([exe EXCEPT !.live = 0, !.old = exe.live], 0, exe.live, exe.staged)
         /\ Written([exe EXCEPT !.live = exe.staged, !.staged = 0], exe.staged, exe.old, 0)
         /\ Written([exe EXCEPT !.staged = exe.live, !.live = 0], 0, exe.old, exe.live)
<1>0. exe.live \in Versions /\ exe.old \in Versions /\ exe.staged \in Versions /\ {0, 2} \subseteq Versions
  BY DEF ClientFiles, Versions
<1>1. Written([exe EXCEPT !.staged = 0], exe.live, exe.old, 0)
  BY <1>0 DEF Written, ClientFiles
<1>2. Written([exe EXCEPT !.staged = 2], exe.live, exe.old, 2)
  BY <1>0 DEF Written, ClientFiles
<1>3. Written([exe EXCEPT !.old = 0], exe.live, 0, exe.staged)
  BY <1>0 DEF Written, ClientFiles
<1>4. Written([exe EXCEPT !.live = 2], 2, exe.old, exe.staged)
  BY <1>0 DEF Written, ClientFiles
<1>5. Written([exe EXCEPT !.staged = 0, !.old = 0], exe.live, 0, 0)
  BY <1>0 DEF Written, ClientFiles
<1>6. Written([exe EXCEPT !.old = 0, !.staged = 0], exe.live, 0, 0)
  BY <1>0 DEF Written, ClientFiles
<1>7. Written([exe EXCEPT !.live = 0, !.old = exe.live], 0, exe.live, exe.staged)
  BY <1>0 DEF Written, ClientFiles
<1>8. Written([exe EXCEPT !.live = exe.staged, !.staged = 0], exe.staged, exe.old, 0)
  BY <1>0 DEF Written, ClientFiles
<1>9. Written([exe EXCEPT !.staged = exe.live, !.live = 0], 0, exe.old, exe.live)
  BY <1>0 DEF Written, ClientFiles
<1> QED
  BY <1>0, <1>1, <1>2, <1>3, <1>4, <1>5, <1>6, <1>7, <1>8, <1>9 DEF Written

LEMMA UpsetForm == ASSUME upsets \in 0 .. MaxUpsets, Upset PROVE upsets' \in 0 .. MaxUpsets
BY DEF Upset

\* What goes with the Client.
LEMMA GoneForm ==
  ASSUME Forms, Marks, ClientGone
  PROVE  /\ cli' = NoClient /\ cli' \in ClientAt /\ cli'.pc = "none" /\ un' = "none" /\ watch' = "off"
         /\ ready' = FALSE /\ swap' = "idle" /\ check' = "idle" /\ child' = FALSE
         /\ lock' \in {lock, "none"} /\ place' \in PlaceAt
         /\ (place' = place /\ place.by # "client") \/ (place' = NoPlace /\ place'.by = "none" /\ place'.pc = "none")
<1>1. NoPlace.by = "none" /\ NoPlace.pc = "none" /\ NoPlace \in PlaceAt /\ place \in PlaceAt
      /\ NoClient \in ClientAt /\ NoClient.pc = "none"
  BY StepForms DEF NoPlace, Forms
<1>2. lock' \in {lock, "none"} /\ cli' = NoClient /\ un' = "none" /\ watch' = "off"
      /\ ready' = FALSE /\ swap' = "idle" /\ check' = "idle" /\ child' = FALSE
  BY DEF ClientGone
<1>3. (place' = place /\ place.by # "client") \/ place' = NoPlace
  BY DEF ClientGone
<1> QED
  BY <1>1, <1>2, <1>3

LEMMA GoneTypes ==
  ASSUME Forms, Marks, Flags, ClientGone, UNCHANGED <<files, service, helper, remover, setup, history>>,
         upsets' \in 0 .. MaxUpsets, UNCHANGED <<uninstalled, replaced>>
  PROVE  TypeInv'
<1> USE DEF files, service, history
<1>1. Marks'
  <2>1. /\ swap' = "idle" /\ check' = "idle" /\ un' = "none" /\ watch' = "off" /\ lock' \in {lock, "none"}
    BY GoneForm
  <2>2. UNCHANGED <<txn, helper, remover, setup>>
    OBVIOUS
  <2> QED
    BY <2>1, <2>2 DEF Marks
<1>2. Forms'
  BY GoneForm DEF Forms
<1>3. Flags'
  BY GoneForm DEF Flags
<1> QED
  BY <1>1, <1>2, <1>3 DEF TypeInv

\* The place of a process after one of its steps.
LEMMA Moves ==
  ASSUME Forms
  PROVE  /\ \A q \in {"boot", "listening", "serving", "leaving"} :
              cli' = [cli EXCEPT !.pc = q] => cli' \in ClientAt /\ cli'.pc = q /\ cli'.ver = cli.ver
         /\ \A v \in Versions : cli' = start_client(cli, v) =>
              /\ cli' \in ClientAt /\ (cli'.pc # "none" => cli'.ver # 0)
              /\ cli' = cli \/ (cli.pc = "none" /\ v # 0 /\ cli'.pc = "started" /\ cli'.ver = v)
         /\ \A q \in {"stopping", "aside", "place", "start", "wait", "back"} :
              place' = [place EXCEPT !.pc = q] => place' \in PlaceAt /\ place'.by = place.by /\ place'.pc = q
         /\ place' = NoPlace => place' \in PlaceAt /\ place'.by = "none" /\ place'.pc = "none"
         /\ \A b \in {"client", "setup"} :
              place' = [pc |-> "stop", by |-> b] => place' \in PlaceAt /\ place'.by = b /\ place'.pc = "stop"
<1>1. cli \in ClientAt /\ (cli.pc # "none" => cli.ver # 0) /\ place \in PlaceAt
  BY DEF Forms
<1>2. ASSUME NEW q \in {"boot", "listening", "serving", "leaving"}, cli' = [cli EXCEPT !.pc = q]
      PROVE  cli' \in ClientAt /\ cli'.pc = q /\ cli'.ver = cli.ver
  BY <1>1, <1>2 DEF ClientAt
<1>3. ASSUME NEW v \in Versions, cli' = start_client(cli, v)
      PROVE  /\ cli' \in ClientAt /\ (cli'.pc # "none" => cli'.ver # 0)
             /\ cli' = cli \/ (cli.pc = "none" /\ v # 0 /\ cli'.pc = "started" /\ cli'.ver = v)
  BY <1>1, <1>3, StartForm
<1>4. ASSUME NEW q \in {"stopping", "aside", "place", "start", "wait", "back"}, place' = [place EXCEPT !.pc = q]
      PROVE  place' \in PlaceAt /\ place'.by = place.by /\ place'.pc = q
  BY <1>1, <1>4 DEF PlaceAt
<1>5. place' = NoPlace => place' \in PlaceAt /\ place'.by = "none" /\ place'.pc = "none"
  BY DEF NoPlace, PlaceAt
<1>6. ASSUME NEW b \in {"client", "setup"}, place' = [pc |-> "stop", by |-> b]
      PROVE  place' \in PlaceAt /\ place'.by = b /\ place'.pc = "stop"
  BY <1>6 DEF PlaceAt
<1> QED
  BY <1>2, <1>3, <1>4, <1>5, <1>6

\* What the helper leaves when it fails, and the known-good binary put back.
LEMMA FailsForm ==
  ASSUME Forms, NEW f \in ClientFiles, FailsAndStarts(f)
  PROVE  /\ Written(exe', f.live, f.old, 0) /\ txn' = "failed" /\ helper' = "none" /\ lock' \in {lock, "none"}
         /\ cli' \in ClientAt /\ (cli'.pc # "none" => cli'.ver # 0)
         /\ cli' = cli \/ (cli.pc = "none" /\ f.live # 0 /\ cli'.pc = "started" /\ cli'.ver = f.live)
         /\ gap' = (gap \/ (f.live = 0 /\ remover = "none"))
         /\ UNCHANGED <<sexe, latch, service, remover, setup, served, ready, swap, check, un, watch, child, place>>
<1>1. /\ exe' = [f EXCEPT !.staged = 0] /\ cli' = start_client(cli, f.live) /\ txn' = "failed"
      /\ helper' = "none" /\ lock' \in {lock, "none"}
      /\ gap' = (gap \/ (f.live = 0 /\ remover = "none"))
      /\ UNCHANGED <<sexe, latch, service, remover, setup, served, ready, swap, check, un, watch, child, place>>
  BY DEF FailsAndStarts, HelperEnds, HelperUnchanged
<1>2. f.live \in Versions /\ 0 \in Versions
  BY DEF ClientFiles, Versions
<1>3. Written(exe', f.live, f.old, 0)
  BY <1>1, <1>2 DEF Written, ClientFiles
<1>4. /\ cli' \in ClientAt /\ (cli'.pc # "none" => cli'.ver # 0)
      /\ cli' = cli \/ (cli.pc = "none" /\ f.live # 0 /\ cli'.pc = "started" /\ cli'.ver = f.live)
  BY <1>1, <1>2, Moves
<1> QED
  BY <1>1, <1>3, <1>4

LEMMA RestoredForm ==
  ASSUME exe \in ClientFiles
  PROVE  IF exe.old # 0 THEN Written(restored(exe), exe.old, 0, exe.staged) ELSE restored(exe) = exe
<1>1. CASE exe.old # 0
  <2>1. restored(exe) = [exe EXCEPT !.live = exe.old, !.old = 0] /\ exe.old \in Versions /\ 0 \in Versions
    BY <1>1 DEF restored, ClientFiles, Versions
  <2> QED
    BY <1>1, <2>1 DEF Written, ClientFiles
<1> QED
  BY <1>1 DEF restored

LEMMA FailsTypes ==
  ASSUME Forms, Marks, Flags, NEW f \in ClientFiles, FailsAndStarts(f), upsets' \in 0 .. MaxUpsets,
         UNCHANGED <<uninstalled, replaced>>
  PROVE  TypeInv'
<1> USE DEF service
<1>1. /\ Written(exe', f.live, f.old, 0) /\ txn' = "failed" /\ helper' = "none" /\ lock' \in {lock, "none"}
      /\ cli' \in ClientAt /\ (cli'.pc # "none" => cli'.ver # 0)
      /\ cli' = cli \/ (cli.pc = "none" /\ f.live # 0 /\ cli'.pc = "started" /\ cli'.ver = f.live)
      /\ gap' = (gap \/ (f.live = 0 /\ remover = "none"))
      /\ UNCHANGED <<sexe, latch, service, remover, setup, served, ready, swap, check, un, watch, child, place>>
  BY FailsForm
<1>2. Forms'
  BY <1>1 DEF Forms, Written
<1>3. Marks'
  BY <1>1 DEF Marks
<1>4. Flags'
  BY <1>1 DEF Flags
<1> QED
  BY <1>2, <1>3, <1>4 DEF TypeInv

\* The service's files, and a start of the service.
LEMMA ServiceForms ==
  ASSUME Forms
  PROVE  /\ sexe.live \in Versions /\ sexe.old \in Versions
         /\ \A v, w \in Versions : [live |-> v, old |-> w] \in ServiceFiles
         /\ [sexe EXCEPT !.live = 2] \in ServiceFiles /\ [sexe EXCEPT !.old = 0] \in ServiceFiles
         /\ \A v \in Versions : start_service(v) => svc' \in ServiceAt /\ (svc.pc # "none" => svc' = svc)
<1>1. sexe.live \in Versions /\ sexe.old \in Versions /\ {0, 2} \subseteq Versions /\ svc \in ServiceAt
  BY DEF Forms, ServiceFiles, Versions
<1>2. \A v, w \in Versions : [live |-> v, old |-> w] \in ServiceFiles
  BY DEF ServiceFiles
<1>3. [sexe EXCEPT !.live = 2] \in ServiceFiles /\ [sexe EXCEPT !.old = 0] \in ServiceFiles
  BY <1>1 DEF Forms, ServiceFiles
<1>4. ASSUME NEW v \in Versions, start_service(v)
      PROVE  svc' \in ServiceAt /\ (svc.pc # "none" => svc' = svc)
  BY <1>1, <1>4, StepForms DEF start_service, Forms
<1> QED
  BY <1>1, <1>2, <1>3, <1>4

\* The startup reconciliation: the live binary stays, the one set aside goes
\* only where no update is recorded or the new version runs.
LEMMA ReconcileForm ==
  ASSUME Forms, Marks, Flags, Reconcile
  PROVE  /\ cli.pc = "listening" /\ watch' = "look"
         /\ UNCHANGED <<sexe, latch, lock, cli, swap, check, un, service, others, history, budget>>
         /\ exe' \in ClientFiles /\ exe'.live = exe.live /\ ready' \in BOOLEAN
         /\ exe'.old = exe.old \/ (exe'.old = 0 /\ (txn = "none" \/ (txn \in {"swapping", "stale"} /\ cli.ver = 2)))
         /\ \/ txn' = txn
            \/ txn' = "none" /\ (cli.ver = 2 \/ txn \in {"verified", "stale"})
            \/ txn = "stale" /\ txn' = "verified" /\ cli.ver = 1
<1>1. cli.pc = "listening" /\ watch' = "look" /\ cli.ver \in {1, 2}
      /\ UNCHANGED <<sexe, latch, lock, cli, swap, check, un, service, others, history, budget>>
  BY DEF Reconcile, Forms, ClientAt, Versions
<1>2. /\ Written(exe, exe.live, exe.old, exe.staged) /\ Written([exe EXCEPT !.staged = 0], exe.live, exe.old, 0)
      /\ Written([exe EXCEPT !.staged = 0, !.old = 0], exe.live, 0, 0)
  BY WrittenForms DEF Forms
<1>3. ready \in BOOLEAN /\ txn \in {"none", "verified", "swapping", "stale", "failed"}
  BY DEF Marks, Flags
<1>4. CASE txn = "none"
  <2>1. exe' = [exe EXCEPT !.staged = 0, !.old = 0] /\ txn' = txn /\ ready' = ready
    BY <1>4 DEF Reconcile
  <2> QED
    BY <1>1, <1>2, <1>3, <1>4, <2>1 DEF Written
<1>5. CASE txn = "verified"
  <2>1. \/ exe' = [exe EXCEPT !.staged = 0] /\ txn' = "none" /\ ready' = FALSE
        \/ exe' = exe /\ txn' = txn /\ ready' = TRUE
    BY <1>5 DEF Reconcile, discard_pending
  <2> QED
    BY <1>1, <1>2, <1>3, <1>5, <2>1 DEF Written
<1>6. CASE txn \in {"swapping", "stale"} /\ cli.ver = 2
  <2>1. exe' = [exe EXCEPT !.staged = 0, !.old = 0] /\ txn' = "none" /\ ready' = ready
    <3>1. CASE txn = "swapping"
      BY <1>6, <3>1 DEF Reconcile
    <3>2. CASE txn = "stale"
      BY <1>6, <3>2 DEF Reconcile
    <3> QED
      BY <1>6, <3>1, <3>2
  <2> QED
    BY <1>1, <1>2, <1>3, <1>6, <2>1 DEF Written
<1>7. CASE txn = "swapping" /\ cli.ver = 1
  <2>1. exe' = exe /\ txn' = txn /\ ready' = ready
    BY <1>7 DEF Reconcile
  <2> QED
    BY <1>1, <1>2, <1>3, <2>1 DEF Written
<1>8. CASE txn = "stale" /\ cli.ver = 1
  <2>1. \/ exe' = exe /\ txn' = "verified" /\ ready' = TRUE
        \/ exe' = [exe EXCEPT !.staged = 0] /\ txn' = "none" /\ ready' = FALSE
    BY <1>8 DEF Reconcile, discard_pending
  <2> QED
    BY <1>1, <1>2, <1>3, <1>8, <2>1 DEF Written
<1>9. CASE txn = "failed"
  <2>1. exe' = [exe EXCEPT !.staged = 0] /\ txn' = txn /\ ready' = ready
    BY <1>9 DEF Reconcile
  <2> QED
    BY <1>1, <1>2, <1>3, <2>1 DEF Written
<1> QED
  BY <1>1, <1>3, <1>4, <1>5, <1>6, <1>7, <1>8, <1>9

\* The Client between its start and its listener, and its end.
LEMMA TypeClient ==
  ASSUME TypeInv, UserStarts \/ LoginStarts \/ Gate \/ Listen \/ Reconcile \/ SettleService \/ RecordAges \/ ClientExits
  PROVE  TypeInv'
<1> USE DEF files, client, service, others, history, budget, Fault
<1>0. Forms /\ Marks /\ Flags /\ exe.live \in Versions /\ exe.staged \in Versions
  BY WrittenForms DEF TypeInv, Forms
<1>1. CASE UserStarts
  <2>1. Marks'
    BY <1>0, <1>1, UpsetForm DEF Marks, UserStarts
  <2>0. Flags'
    BY <1>0, <1>1 DEF Flags, UserStarts
  <2>2. Forms'
    BY <1>0, <1>1, Moves, StepForms DEF Forms, UserStarts
  <2> QED
    BY <2>0, <2>1, <2>2 DEF TypeInv
<1>2. CASE LoginStarts
  <2>1. Marks'
    BY <1>0, <1>2, UpsetForm DEF Marks, LoginStarts
  <2>0. Flags'
    BY <1>0, <1>2 DEF Flags, LoginStarts
  <2>2. Forms'
    BY <1>0, <1>2, Moves, StepForms DEF Forms, LoginStarts
  <2> QED
    BY <2>0, <2>1, <2>2 DEF TypeInv
<1>3. CASE Gate
  <2>1. CASE ClientGone
    <3>1. UNCHANGED <<files, service, helper, remover, setup, history, budget>>
      BY <1>3 DEF Gate
    <3>2. upsets' \in 0 .. MaxUpsets
      BY <1>0, <3>1 DEF Marks
    <3> QED
      BY <1>0, <2>1, <3>1, <3>2, GoneTypes
  <2>2. CASE ~ClientGone
    <3>1. /\ cli' = [cli EXCEPT !.pc = "boot"] /\ cli.pc = "started"
          /\ UNCHANGED <<lock, ready, swap, check, un, watch, child, place>>
      BY <1>3, <2>2 DEF Gate
    <3>2. cli' \in ClientAt /\ cli'.ver = cli.ver /\ un = "none"
      BY <1>0, <3>1, StepForms DEF Forms
    <3>3. Marks' /\ Flags'
      BY <1>0, <1>3, <3>1 DEF Gate, Marks, Flags
    <3> QED
      BY <1>0, <1>3, <3>1, <3>2, <3>3 DEF Gate, TypeInv, Forms
  <2> QED
    BY <2>1, <2>2
<1>4. CASE Listen
  <2>1. Marks'
    BY <1>0, <1>4, UpsetForm DEF Marks, Listen
  <2>0. Flags'
    BY <1>0, <1>4 DEF Flags, Listen
  <2>2. Forms'
    BY <1>0, <1>4, WrittenForms, StartForm, StepForms, ServiceForms DEF Forms, Written, Listen
  <2> QED
    BY <2>0, <2>1, <2>2 DEF TypeInv
<1>5. CASE Reconcile
  <2>1. Forms'
    BY <1>0, <1>5, ReconcileForm DEF Forms
  <2>2. Marks'
    BY <1>0, <1>5, ReconcileForm DEF Marks
  <2>3. Flags'
    BY <1>0, <1>5, ReconcileForm DEF Flags
  <2> QED
    BY <2>1, <2>2, <2>3 DEF TypeInv
<1>6. CASE SettleService
  <2>1. Marks'
    BY <1>0, <1>6 DEF Marks, SettleService
  <2>0. Flags'
    BY <1>0, <1>6 DEF Flags, SettleService
  <2>2. sexe' \in ServiceFiles
    BY <1>0, <1>6, ServiceForms DEF Forms, SettleService, Versions
  <2>3. svc' \in ServiceAt
    BY <1>0, <1>6, StepForms DEF Forms, SettleService
  <2>4. cli' \in ClientAt /\ cli'.pc = "serving" /\ cli'.ver = cli.ver /\ cli.pc = "listening"
    BY <1>0, <1>6, StepForms DEF Forms, SettleService
  <2> QED
    BY <1>0, <1>6, <2>0, <2>1, <2>2, <2>3, <2>4 DEF TypeInv, Forms, SettleService
<1>7. CASE RecordAges
  <2>1. Marks'
    BY <1>0, <1>7, UpsetForm DEF Marks, RecordAges
  <2>0. Flags'
    BY <1>0, <1>7 DEF Flags, RecordAges
  <2>2. Forms'
    BY <1>0, <1>7, WrittenForms, StartForm, StepForms, ServiceForms DEF Forms, Written, RecordAges
  <2> QED
    BY <2>0, <2>1, <2>2 DEF TypeInv
<1>8. CASE ClientExits
  <2>1. upsets' \in 0 .. MaxUpsets
    BY <1>0, <1>8 DEF ClientExits, Marks
  <2> QED
    BY <1>0, <1>8, <2>1, GoneTypes DEF ClientExits
<1> QED
  BY <1>1, <1>2, <1>3, <1>4, <1>5, <1>6, <1>7, <1>8

\* The update check, the swap monitor and the watch of the service.
LEMMA TypeCheck ==
  ASSUME TypeInv, BeginCheck \/ LockForService \/ PlacedForService \/ CheckOwn \/ Drain \/ begin_swap \/ WatchLooks \/ WatchLaunches
  PROVE  TypeInv'
<1> USE DEF files, client, service, others, history, budget, Fault, checking, service_wanted, discard_pending, staged_binary_valid, start_service, Signal, maintenance_held
<1>0. Forms /\ Marks /\ Flags /\ exe.live \in Versions /\ exe.staged \in Versions
  BY WrittenForms DEF TypeInv, Forms
<1>1. CASE BeginCheck
  <2>1. Marks'
    BY <1>0, <1>1, UpsetForm DEF Marks, BeginCheck
  <2>0. Flags'
    BY <1>0, <1>1 DEF Flags, BeginCheck
  <2>2. Forms'
    BY <1>0, <1>1, WrittenForms, StartForm, StepForms, ServiceForms DEF Forms, Written, BeginCheck
  <2> QED
    BY <2>0, <2>1, <2>2 DEF TypeInv
<1>2. CASE LockForService
  <2>1. Marks'
    BY <1>0, <1>2, UpsetForm DEF Marks, LockForService
  <2>0. Flags'
    BY <1>0, <1>2 DEF Flags, LockForService
  <2>2. Forms'
    BY <1>0, <1>2, Moves, ServiceForms DEF Forms, LockForService
  <2> QED
    BY <2>0, <2>1, <2>2 DEF TypeInv
<1>3. CASE PlacedForService
  <2>1. Marks'
    BY <1>0, <1>3, UpsetForm DEF Marks, PlacedForService
  <2>0. Flags'
    BY <1>0, <1>3 DEF Flags, PlacedForService
  <2>2. Forms'
    BY <1>0, <1>3, WrittenForms, StartForm, StepForms, ServiceForms DEF Forms, Written, PlacedForService
  <2> QED
    BY <2>0, <2>1, <2>2 DEF TypeInv
<1>4. CASE CheckOwn
  <2>1. Marks'
    BY <1>0, <1>4, UpsetForm DEF Marks, CheckOwn
  <2>0. Flags'
    BY <1>0, <1>4 DEF Flags, CheckOwn
  <2>2. Forms'
    BY <1>0, <1>4, WrittenForms, StartForm, StepForms, ServiceForms DEF Forms, Written, CheckOwn
  <2> QED
    BY <2>0, <2>1, <2>2 DEF TypeInv
<1>5. CASE Drain
  <2>1. Marks'
    <3>1. swap' \in {swap, "draining"} /\ txn' \in {txn, "none"}
          /\ UNCHANGED <<lock, check, un, watch, helper, remover, setup, upsets>>
      BY <1>5 DEF Drain
    <3> QED
      BY <1>0, <3>1 DEF Marks
  <2>0. Flags'
    BY <1>0, <1>5 DEF Flags, Drain
  <2>2. Forms'
    BY <1>0, <1>5, WrittenForms, StartForm, StepForms, ServiceForms DEF Forms, Written, Drain
  <2> QED
    BY <2>0, <2>1, <2>2 DEF TypeInv
<1>6. CASE begin_swap
  <2>1. Marks'
    BY <1>0, <1>6, UpsetForm DEF Marks, begin_swap
  <2>0. Flags'
    BY <1>0, <1>6 DEF Flags, begin_swap
  <2>2. Forms'
    <3>1. UNCHANGED <<sexe, svc, place, un>>
      BY <1>6 DEF begin_swap
    <3>2. exe' = exe \/ exe' = [exe EXCEPT !.staged = 0]
      BY <1>6 DEF begin_swap
    <3>3. exe' \in ClientFiles
      BY <1>0, <3>2, WrittenForms DEF Forms, Written
    <3>4. cli' = cli \/ cli' = [cli EXCEPT !.pc = "leaving"]
      BY <1>6 DEF begin_swap
    <3>5. cli' \in ClientAt /\ cli'.ver = cli.ver /\ cli'.pc \in {cli.pc, "leaving"} /\ cli.pc = "serving"
      BY <1>0, <1>6, <3>4, Moves DEF Forms, begin_swap
    <3> QED
      BY <1>0, <3>1, <3>3, <3>5 DEF Forms
  <2> QED
    BY <2>0, <2>1, <2>2 DEF TypeInv
<1>7. CASE WatchLooks
  <2>1. Marks'
    BY <1>0, <1>7, UpsetForm DEF Marks, WatchLooks
  <2>0. Flags'
    BY <1>0, <1>7 DEF Flags, WatchLooks
  <2>2. Forms'
    BY <1>0, <1>7, WrittenForms, StartForm, StepForms, ServiceForms DEF Forms, Written, WatchLooks
  <2> QED
    BY <2>0, <2>1, <2>2 DEF TypeInv
<1>8. CASE WatchLaunches
  <2>1. Marks'
    BY <1>0, <1>8, UpsetForm DEF Marks, WatchLaunches
  <2>0. Flags'
    BY <1>0, <1>8 DEF Flags, WatchLaunches
  <2>2. Forms'
    BY <1>0, <1>8, WrittenForms, StartForm, StepForms, ServiceForms DEF Forms, Written, WatchLaunches
  <2> QED
    BY <2>0, <2>1, <2>2 DEF TypeInv
<1> QED
  BY <1>1, <1>2, <1>3, <1>4, <1>5, <1>6, <1>7, <1>8

\* VIRULE Service.
LEMMA TypeService ==
  ASSUME TypeInv, SvcGate \/ SvcReady \/ SvcStandDown \/ SvcBind \/ SvcWaitMaintenance \/ SvcHoldOff \/ SvcAsleep \/ SvcRestore \/ SvcLaunch \/ SvcWakes
  PROVE  TypeInv'
<1> USE DEF files, client, service, others, history, budget, Fault, SvcUnchanged, Top, client_present, maintenance_held
<1>0. Forms /\ Marks /\ Flags /\ exe.live \in Versions /\ exe.staged \in Versions
  BY WrittenForms DEF TypeInv, Forms
<1>1. CASE SvcGate
  <2>1. Marks'
    BY <1>0, <1>1, UpsetForm DEF Marks, SvcGate
  <2>0. Flags'
    BY <1>0, <1>1 DEF Flags, SvcGate
  <2>2. Forms'
    BY <1>0, <1>1, WrittenForms, StartForm, StepForms, ServiceForms DEF Forms, Written, SvcGate
  <2> QED
    BY <2>0, <2>1, <2>2 DEF TypeInv
<1>2. CASE SvcReady
  <2>1. Marks'
    BY <1>0, <1>2, UpsetForm DEF Marks, SvcReady
  <2>0. Flags'
    BY <1>0, <1>2 DEF Flags, SvcReady
  <2>2. Forms'
    BY <1>0, <1>2, WrittenForms, StartForm, StepForms, ServiceForms DEF Forms, Written, SvcReady
  <2> QED
    BY <2>0, <2>1, <2>2 DEF TypeInv
<1>3. CASE SvcStandDown
  <2>1. Marks'
    BY <1>0, <1>3, UpsetForm DEF Marks, SvcStandDown
  <2>0. Flags'
    BY <1>0, <1>3 DEF Flags, SvcStandDown
  <2>2. Forms'
    BY <1>0, <1>3, WrittenForms, StartForm, StepForms, ServiceForms DEF Forms, Written, SvcStandDown
  <2> QED
    BY <2>0, <2>1, <2>2 DEF TypeInv
<1>4. CASE SvcBind
  <2>1. Marks'
    BY <1>0, <1>4, UpsetForm DEF Marks, SvcBind
  <2>0. Flags'
    BY <1>0, <1>4 DEF Flags, SvcBind
  <2>2. Forms'
    BY <1>0, <1>4, WrittenForms, StartForm, StepForms, ServiceForms DEF Forms, Written, SvcBind
  <2> QED
    BY <2>0, <2>1, <2>2 DEF TypeInv
<1>5. CASE SvcWaitMaintenance
  <2>1. Marks'
    BY <1>0, <1>5, UpsetForm DEF Marks, SvcWaitMaintenance
  <2>0. Flags'
    BY <1>0, <1>5 DEF Flags, SvcWaitMaintenance
  <2>2. Forms'
    BY <1>0, <1>5, WrittenForms, StartForm, StepForms, ServiceForms DEF Forms, Written, SvcWaitMaintenance
  <2> QED
    BY <2>0, <2>1, <2>2 DEF TypeInv
<1>6. CASE SvcHoldOff
  <2>1. Marks'
    BY <1>0, <1>6, UpsetForm DEF Marks, SvcHoldOff
  <2>0. Flags'
    BY <1>0, <1>6 DEF Flags, SvcHoldOff
  <2>2. Forms'
    BY <1>0, <1>6, WrittenForms, StartForm, StepForms, ServiceForms DEF Forms, Written, SvcHoldOff
  <2> QED
    BY <2>0, <2>1, <2>2 DEF TypeInv
<1>7. CASE SvcAsleep
  <2>1. Marks'
    BY <1>0, <1>7, UpsetForm DEF Marks, SvcAsleep
  <2>0. Flags'
    BY <1>0, <1>7 DEF Flags, SvcAsleep
  <2>2. Forms'
    BY <1>0, <1>7, WrittenForms, StartForm, StepForms, ServiceForms DEF Forms, Written, SvcAsleep
  <2> QED
    BY <2>0, <2>1, <2>2 DEF TypeInv
<1>8. CASE SvcRestore
  <2>1. Marks'
    BY <1>0, <1>8, UpsetForm DEF Marks, SvcRestore
  <2>0. Flags'
    BY <1>0, <1>8 DEF Flags, SvcRestore
  <2>2. Forms'
    BY <1>0, <1>8, WrittenForms, StartForm, StepForms, ServiceForms DEF Forms, Written, SvcRestore
  <2> QED
    BY <2>0, <2>1, <2>2 DEF TypeInv
<1>9. CASE SvcLaunch
  <2>1. Marks'
    BY <1>0, <1>9, UpsetForm DEF Marks, SvcLaunch
  <2>0. Flags'
    BY <1>0, <1>9 DEF Flags, SvcLaunch
  <2>2. Forms'
    BY <1>0, <1>9, Moves, StepForms DEF Forms, SvcLaunch
  <2> QED
    BY <2>0, <2>1, <2>2 DEF TypeInv
<1>10. CASE SvcWakes
  <2>1. Marks'
    BY <1>0, <1>10, UpsetForm DEF Marks, SvcWakes
  <2>0. Flags'
    BY <1>0, <1>10 DEF Flags, SvcWakes
  <2>2. Forms'
    BY <1>0, <1>10, WrittenForms, StartForm, StepForms, ServiceForms DEF Forms, Written, SvcWakes
  <2> QED
    BY <2>0, <2>1, <2>2 DEF TypeInv
<1> QED
  BY <1>1, <1>2, <1>3, <1>4, <1>5, <1>6, <1>7, <1>8, <1>9, <1>10

\* The replacement of the service.
LEMMA TypePlace ==
  ASSUME TypeInv, PlaceStops \/ PlaceStopped \/ PlaceAside \/ PlacePlaces \/ PlaceStarts \/ PlaceWaits \/ PlaceBack
  PROVE  TypeInv'
<1> USE DEF files, client, service, others, history, budget, Fault, PlaceUnchanged, start_service, Signal
<1>0. Forms /\ Marks /\ Flags /\ exe.live \in Versions /\ exe.staged \in Versions
  BY WrittenForms DEF TypeInv, Forms
<1>1. CASE PlaceStops
  <2>1. Marks'
    BY <1>0, <1>1, UpsetForm DEF Marks, PlaceStops
  <2>0. Flags'
    BY <1>0, <1>1 DEF Flags, PlaceStops
  <2>2. Forms'
    BY <1>0, <1>1, WrittenForms, StartForm, StepForms, ServiceForms DEF Forms, Written, PlaceStops
  <2> QED
    BY <2>0, <2>1, <2>2 DEF TypeInv
<1>2. CASE PlaceStopped
  <2>1. Marks'
    BY <1>0, <1>2, UpsetForm DEF Marks, PlaceStopped
  <2>0. Flags'
    BY <1>0, <1>2 DEF Flags, PlaceStopped
  <2>2. Forms'
    BY <1>0, <1>2, Moves, ServiceForms DEF Forms, PlaceStopped
  <2> QED
    BY <2>0, <2>1, <2>2 DEF TypeInv
<1>3. CASE PlaceAside
  <2>0. Flags'
    BY <1>0, <1>3 DEF Flags, PlaceAside
  <2>1. Marks'
    BY <1>0, <1>3, UpsetForm DEF Marks, PlaceAside
  <2>2. sexe' \in ServiceFiles
    <3>1. sexe' = [live |-> 0, old |-> sexe.live] \/ sexe' = [sexe EXCEPT !.old = 0]
      BY <1>3 DEF PlaceAside
    <3> QED
      BY <1>0, <3>1, ServiceForms DEF Versions
  <2>3. svc' \in ServiceAt
    BY <1>0, <1>3, ServiceForms DEF PlaceAside, Forms
  <2>4. place' \in PlaceAt
    BY <1>0, <1>3, Moves DEF PlaceAside
  <2> QED
    BY <1>0, <1>3, <2>0, <2>1, <2>2, <2>3, <2>4 DEF TypeInv, Forms, PlaceAside
<1>4. CASE PlacePlaces
  <2>0. Flags'
    BY <1>0, <1>4 DEF Flags, PlacePlaces
  <2>1. Marks'
    BY <1>0, <1>4, UpsetForm DEF Marks, PlacePlaces
  <2>2. sexe' \in ServiceFiles
    <3>1. sexe' = [live |-> sexe.old, old |-> 0] \/ sexe' = [sexe EXCEPT !.live = 2]
      BY <1>4 DEF PlacePlaces
    <3> QED
      BY <1>0, <3>1, ServiceForms DEF Versions
  <2>3. svc' \in ServiceAt
    BY <1>0, <1>4, ServiceForms DEF PlacePlaces, Forms
  <2>4. place' \in PlaceAt
    BY <1>0, <1>4, Moves DEF PlacePlaces
  <2> QED
    BY <1>0, <1>4, <2>0, <2>1, <2>2, <2>3, <2>4 DEF TypeInv, Forms, PlacePlaces
<1>5. CASE PlaceStarts
  <2>1. Marks'
    BY <1>0, <1>5, UpsetForm DEF Marks, PlaceStarts
  <2>0. Flags'
    BY <1>0, <1>5 DEF Flags, PlaceStarts
  <2>2. Forms'
    BY <1>0, <1>5, WrittenForms, StartForm, StepForms, ServiceForms DEF Forms, Written, PlaceStarts
  <2> QED
    BY <2>0, <2>1, <2>2 DEF TypeInv
<1>6. CASE PlaceWaits
  <2>1. Marks'
    BY <1>0, <1>6, UpsetForm DEF Marks, PlaceWaits
  <2>0. Flags'
    BY <1>0, <1>6 DEF Flags, PlaceWaits
  <2>2. Forms'
    BY <1>0, <1>6, Moves, ServiceForms DEF Forms, PlaceWaits
  <2> QED
    BY <2>0, <2>1, <2>2 DEF TypeInv
<1>7. CASE PlaceBack
  <2>0. Flags'
    BY <1>0, <1>7 DEF Flags, PlaceBack
  <2>1. Marks'
    BY <1>0, <1>7 DEF Marks, PlaceBack
  <2>2. sexe' \in ServiceFiles
    <3>1. sexe' = [live |-> sexe.old, old |-> 0] \/ sexe' = sexe
      BY <1>7 DEF PlaceBack
    <3> QED
      BY <1>0, <3>1, ServiceForms DEF Versions, Forms
  <2>3. svc' \in ServiceAt
    BY <1>0, <1>7, ServiceForms DEF PlaceBack, Forms
  <2>4. place' \in PlaceAt
    BY <1>0, <1>7, Moves DEF PlaceBack
  <2> QED
    BY <1>0, <1>7, <2>0, <2>1, <2>2, <2>3, <2>4 DEF TypeInv, Forms, PlaceBack
<1> QED
  BY <1>1, <1>2, <1>3, <1>4, <1>5, <1>6, <1>7

\* The replacement helper.
LEMMA TypeHelper ==
  ASSUME TypeInv, HelperLocks \/ HelperLooks \/ HelperSetsAside \/ HelperSwaps \/ HelperStarts \/ HelperPolls \/ HelperCleans \/ HelperEndsChild \/ HelperRollsBack \/ HelperRestores
  PROVE  TypeInv'
<1> USE DEF files, client, service, others, history, budget, Fault
<1>0. Forms /\ Marks /\ Flags /\ exe.live \in Versions /\ exe.staged \in Versions
  BY WrittenForms DEF TypeInv, Forms
<1>1. CASE HelperLocks
  <2>1. Marks'
    BY <1>0, <1>1, UpsetForm DEF Marks, HelperLocks, HelperUnchanged, HelperOnly, HelperEnds
  <2>0. Flags'
    BY <1>0, <1>1 DEF Flags, HelperLocks, HelperUnchanged, HelperOnly, HelperEnds
  <2>2. Forms'
    BY <1>0, <1>1, WrittenForms, StartForm, StepForms, ServiceForms DEF Forms, Written, HelperLocks, HelperUnchanged, HelperOnly, HelperEnds
  <2> QED
    BY <2>0, <2>1, <2>2 DEF TypeInv
<1>2. CASE HelperLooks
  <2>1. Marks'
    BY <1>0, <1>2, UpsetForm DEF Marks, HelperLooks, HelperUnchanged, HelperOnly, HelperEnds
  <2>0. Flags'
    BY <1>0, <1>2 DEF Flags, HelperLooks, HelperUnchanged, HelperOnly, HelperEnds
  <2>2. Forms'
    BY <1>0, <1>2, WrittenForms, StartForm, StepForms, ServiceForms DEF Forms, Written, HelperLooks, HelperUnchanged, HelperOnly, HelperEnds
  <2> QED
    BY <2>0, <2>1, <2>2 DEF TypeInv
<1>3. CASE HelperSetsAside
  <2>1. \/ /\ exe.live # 0 /\ exe' = [exe EXCEPT !.live = 0, !.old = exe.live] /\ helper' = "swap"
           /\ UNCHANGED <<txn, lock>> /\ HelperOnly
        \/ \E f \in {exe, [exe EXCEPT !.old = 0]} : FailsAndStarts(f) /\ (Upset \/ UNCHANGED upsets)
              /\ UNCHANGED <<uninstalled, replaced>>
    BY <1>3 DEF HelperSetsAside
  <2>2. CASE exe' = [exe EXCEPT !.live = 0, !.old = exe.live] /\ helper' = "swap" /\ UNCHANGED <<txn, lock>> /\ HelperOnly
    <3>1. exe' \in ClientFiles
      BY <1>0, <2>2, WrittenForms DEF Forms, Written
    <3> QED
      BY <1>0, <2>2, <3>1 DEF TypeInv, Forms, Marks, Flags, HelperOnly, HelperUnchanged
  <2>3. ASSUME NEW f \in {exe, [exe EXCEPT !.old = 0]}, FailsAndStarts(f), Upset \/ UNCHANGED upsets,
               UNCHANGED <<uninstalled, replaced>>
        PROVE  TypeInv'
    <3>1. f \in ClientFiles
      BY <1>0, WrittenForms DEF Forms, Written
    <3>2. upsets' \in 0 .. MaxUpsets
      BY <1>0, <2>3, UpsetForm DEF Marks
    <3> QED
      BY <1>0, <2>3, <3>1, <3>2, FailsTypes
  <2> QED
    BY <2>1, <2>2, <2>3
<1>4. CASE HelperSwaps
  <2>1. \/ /\ exe.staged # 0 /\ exe' = [exe EXCEPT !.live = exe.staged, !.staged = 0] /\ helper' = "start"
           /\ UNCHANGED <<txn, lock>> /\ HelperOnly
        \/ FailsAndStarts(restored(exe)) /\ (Upset \/ UNCHANGED upsets) /\ UNCHANGED <<uninstalled, replaced>>
    BY <1>4 DEF HelperSwaps
  <2>2. CASE exe' = [exe EXCEPT !.live = exe.staged, !.staged = 0] /\ helper' = "start" /\ UNCHANGED <<txn, lock>> /\ HelperOnly
    <3>1. exe' \in ClientFiles
      BY <1>0, <2>2, WrittenForms DEF Forms, Written
    <3> QED
      BY <1>0, <2>2, <3>1 DEF TypeInv, Forms, Marks, Flags, HelperOnly, HelperUnchanged
  <2>3. CASE FailsAndStarts(restored(exe)) /\ (Upset \/ UNCHANGED upsets) /\ UNCHANGED <<uninstalled, replaced>>
    <3>1. restored(exe) \in ClientFiles
      BY <1>0, RestoredForm DEF Forms, Written
    <3>2. upsets' \in 0 .. MaxUpsets
      BY <1>0, <2>3, UpsetForm DEF Marks
    <3> QED
      BY <1>0, <2>3, <3>1, <3>2, FailsTypes
  <2> QED
    BY <2>1, <2>2, <2>3
<1>5. CASE HelperStarts
  <2>1. Marks'
    BY <1>0, <1>5, UpsetForm DEF Marks, HelperStarts, HelperUnchanged, HelperOnly, HelperEnds
  <2>0. Flags'
    BY <1>0, <1>5 DEF Flags, HelperStarts, HelperUnchanged, HelperOnly, HelperEnds
  <2>2. Forms'
    BY <1>0, <1>5, Moves, StepForms DEF Forms, HelperStarts, HelperUnchanged, HelperOnly, HelperEnds
  <2> QED
    BY <2>0, <2>1, <2>2 DEF TypeInv
<1>6. CASE HelperPolls
  <2>1. Marks'
    BY <1>0, <1>6, UpsetForm DEF Marks, HelperPolls, HelperUnchanged, HelperOnly, HelperEnds
  <2>0. Flags'
    BY <1>0, <1>6 DEF Flags, HelperPolls, HelperUnchanged, HelperOnly, HelperEnds
  <2>2. Forms'
    BY <1>0, <1>6, WrittenForms, StartForm, StepForms, ServiceForms DEF Forms, Written, HelperPolls, HelperUnchanged, HelperOnly, HelperEnds
  <2> QED
    BY <2>0, <2>1, <2>2 DEF TypeInv
<1>7. CASE HelperCleans
  <2>1. Marks'
    BY <1>0, <1>7, UpsetForm DEF Marks, HelperCleans, HelperUnchanged, HelperOnly, HelperEnds
  <2>0. Flags'
    BY <1>0, <1>7 DEF Flags, HelperCleans, HelperUnchanged, HelperOnly, HelperEnds
  <2>2. Forms'
    BY <1>0, <1>7, WrittenForms, StartForm, StepForms, ServiceForms DEF Forms, Written, HelperCleans, HelperUnchanged, HelperOnly, HelperEnds
  <2> QED
    BY <2>0, <2>1, <2>2 DEF TypeInv
<1>8. CASE HelperEndsChild
  <2>1. /\ ClientGone \/ UNCHANGED <<client, child, place, lock>>
        /\ helper' = "back" /\ UNCHANGED <<exe, txn, gap, budget>> /\ HelperUnchanged
    BY <1>8 DEF HelperEndsChild
  <2>2. CASE UNCHANGED <<client, child, place, lock>>
    BY <1>0, <2>1, <2>2 DEF TypeInv, Forms, Marks, Flags, HelperUnchanged
  <2>3. CASE ClientGone
    <3>1. Forms'
      BY <1>0, <2>1, <2>3, GoneForm DEF Forms, HelperUnchanged
    <3>2. Marks'
      <4>1. /\ swap' = "idle" /\ check' = "idle" /\ un' = "none" /\ watch' = "off" /\ lock' \in {lock, "none"}
        BY <1>0, <2>3, GoneForm
      <4> QED
        BY <1>0, <2>1, <4>1 DEF Marks, HelperUnchanged
    <3>3. Flags'
      BY <1>0, <2>1, <2>3, GoneForm DEF Flags, HelperUnchanged
    <3> QED
      BY <3>1, <3>2, <3>3 DEF TypeInv
  <2> QED
    BY <2>1, <2>2, <2>3
<1>9. CASE HelperRollsBack
  <2>1. Marks'
    BY <1>0, <1>9, UpsetForm DEF Marks, HelperRollsBack, HelperUnchanged, HelperOnly, HelperEnds
  <2>0. Flags'
    BY <1>0, <1>9 DEF Flags, HelperRollsBack, HelperUnchanged, HelperOnly, HelperEnds
  <2>2. Forms'
    BY <1>0, <1>9, WrittenForms, StartForm, StepForms, ServiceForms DEF Forms, Written, HelperRollsBack, HelperUnchanged, HelperOnly, HelperEnds
  <2> QED
    BY <2>0, <2>1, <2>2 DEF TypeInv
<1>10. CASE HelperRestores
  <2>1. restored(exe) \in ClientFiles
    BY <1>0, RestoredForm DEF Forms, Written
  <2>2. FailsAndStarts(restored(exe)) /\ upsets' \in 0 .. MaxUpsets /\ UNCHANGED <<uninstalled, replaced>>
    BY <1>0, <1>10 DEF HelperRestores, Marks
  <2> QED
    BY <1>0, <2>1, <2>2, FailsTypes
<1> QED
  BY <1>1, <1>2, <1>3, <1>4, <1>5, <1>6, <1>7, <1>8, <1>9, <1>10

\* The uninstall and its helper.
LEMMA TypeUninstall ==
  ASSUME TypeInv, UninstallAsked \/ UninstallStopsService \/ UninstallDiscards \/ UninstallAborts \/ UninstallCommits \/ LauncherUninstalls \/ RemoverStops \/ RemoverWaits \/ RemoverRemoves \/ RemoverVerifies
  PROVE  TypeInv'
<1> USE DEF files, client, service, others, history, budget, Fault, discard_pending, Signal, answers
<1>0. Forms /\ Marks /\ Flags /\ exe.live \in Versions /\ exe.staged \in Versions
  BY WrittenForms DEF TypeInv, Forms
<1>1. CASE UninstallAsked
  <2>1. Marks'
    BY <1>0, <1>1, UpsetForm DEF Marks, UninstallAsked
  <2>0. Flags'
    BY <1>0, <1>1 DEF Flags, UninstallAsked
  <2>2. Forms'
    BY <1>0, <1>1, WrittenForms, StartForm, StepForms, ServiceForms DEF Forms, Written, UninstallAsked
  <2> QED
    BY <2>0, <2>1, <2>2 DEF TypeInv
<1>2. CASE UninstallStopsService
  <2>1. Marks'
    BY <1>0, <1>2, UpsetForm DEF Marks, UninstallStopsService
  <2>0. Flags'
    BY <1>0, <1>2 DEF Flags, UninstallStopsService
  <2>2. Forms'
    BY <1>0, <1>2, WrittenForms, StartForm, StepForms, ServiceForms DEF Forms, Written, UninstallStopsService
  <2> QED
    BY <2>0, <2>1, <2>2 DEF TypeInv
<1>3. CASE UninstallDiscards
  <2>1. Marks'
    BY <1>0, <1>3, UpsetForm DEF Marks, UninstallDiscards
  <2>0. Flags'
    BY <1>0, <1>3 DEF Flags, UninstallDiscards
  <2>2. Forms'
    BY <1>0, <1>3, WrittenForms, StartForm, StepForms, ServiceForms DEF Forms, Written, UninstallDiscards
  <2> QED
    BY <2>0, <2>1, <2>2 DEF TypeInv
<1>4. CASE UninstallAborts
  <2>1. Marks'
    BY <1>0, <1>4, UpsetForm DEF Marks, UninstallAborts
  <2>0. Flags'
    BY <1>0, <1>4 DEF Flags, UninstallAborts
  <2>2. Forms'
    BY <1>0, <1>4, WrittenForms, StartForm, StepForms, ServiceForms DEF Forms, Written, UninstallAborts
  <2> QED
    BY <2>0, <2>1, <2>2 DEF TypeInv
<1>5. CASE UninstallCommits
  <2>1. Marks'
    BY <1>0, <1>5, UpsetForm DEF Marks, UninstallCommits
  <2>0. Flags'
    BY <1>0, <1>5 DEF Flags, UninstallCommits
  <2>2. Forms'
    BY <1>0, <1>5, WrittenForms, StartForm, StepForms, ServiceForms DEF Forms, Written, UninstallCommits
  <2> QED
    BY <2>0, <2>1, <2>2 DEF TypeInv
<1>6. CASE LauncherUninstalls
  <2>1. Marks'
    BY <1>0, <1>6, UpsetForm DEF Marks, LauncherUninstalls
  <2>0. Flags'
    BY <1>0, <1>6 DEF Flags, LauncherUninstalls
  <2>2. Forms'
    BY <1>0, <1>6, WrittenForms, StartForm, StepForms, ServiceForms DEF Forms, Written, LauncherUninstalls
  <2> QED
    BY <2>0, <2>1, <2>2 DEF TypeInv
<1>7. CASE RemoverStops
  <2>1. Marks'
    BY <1>0, <1>7, UpsetForm DEF Marks, RemoverStops
  <2>0. Flags'
    BY <1>0, <1>7 DEF Flags, RemoverStops
  <2>2. Forms'
    BY <1>0, <1>7, WrittenForms, StartForm, StepForms, ServiceForms DEF Forms, Written, RemoverStops
  <2> QED
    BY <2>0, <2>1, <2>2 DEF TypeInv
<1>8. CASE RemoverWaits
  <2>1. Marks'
    BY <1>0, <1>8, UpsetForm DEF Marks, RemoverWaits
  <2>0. Flags'
    BY <1>0, <1>8 DEF Flags, RemoverWaits
  <2>2. Forms'
    BY <1>0, <1>8, WrittenForms, StartForm, StepForms, ServiceForms DEF Forms, Written, RemoverWaits
  <2> QED
    BY <2>0, <2>1, <2>2 DEF TypeInv
<1>9. CASE RemoverRemoves
  <2>1. Marks'
    BY <1>0, <1>9, UpsetForm DEF Marks, RemoverRemoves
  <2>0. Flags'
    BY <1>0, <1>9 DEF Flags, RemoverRemoves
  <2>2. Forms'
    <3>1. exe' \in ClientFiles
      <4>1. [live |-> 0, old |-> 0, staged |-> 0] \in ClientFiles
        BY DEF ClientFiles, Versions
      <4> QED
        BY <1>0, <1>9, <4>1 DEF RemoverRemoves, Forms
    <3>2. sexe' \in ServiceFiles
      BY <1>0, <1>9, ServiceForms DEF RemoverRemoves, Forms, Versions
    <3> QED
      BY <1>0, <1>9, <3>1, <3>2 DEF RemoverRemoves, Forms
  <2> QED
    BY <2>0, <2>1, <2>2 DEF TypeInv
<1>10. CASE RemoverVerifies
  <2>1. Marks'
    BY <1>0, <1>10, UpsetForm DEF Marks, RemoverVerifies
  <2>0. Flags'
    BY <1>0, <1>10 DEF Flags, RemoverVerifies
  <2>2. Forms'
    BY <1>0, <1>10, WrittenForms, StartForm, StepForms, ServiceForms DEF Forms, Written, RemoverVerifies
  <2> QED
    BY <2>0, <2>1, <2>2 DEF TypeInv
<1> QED
  BY <1>1, <1>2, <1>3, <1>4, <1>5, <1>6, <1>7, <1>8, <1>9, <1>10

\* Setup.
LEMMA TypeSetup ==
  ASSUME TypeInv, SetupBegins \/ SetupLocks \/ SetupStopsClient \/ SetupReplaces \/ SetupClears \/ SetupStartsClient
  PROVE  TypeInv'
<1> USE DEF files, client, service, others, history, budget, Fault, SetupUnchanged, SetupEnds, answers, Signal
<1>0. Forms /\ Marks /\ Flags /\ exe.live \in Versions /\ exe.staged \in Versions
  BY WrittenForms DEF TypeInv, Forms
<1>1. CASE SetupBegins
  <2>1. Marks'
    BY <1>0, <1>1, UpsetForm DEF Marks, SetupBegins
  <2>0. Flags'
    BY <1>0, <1>1 DEF Flags, SetupBegins
  <2>2. Forms'
    BY <1>0, <1>1, WrittenForms, StartForm, StepForms, ServiceForms DEF Forms, Written, SetupBegins
  <2> QED
    BY <2>0, <2>1, <2>2 DEF TypeInv
<1>2. CASE SetupLocks
  <2>1. Marks'
    BY <1>0, <1>2, UpsetForm DEF Marks, SetupLocks
  <2>0. Flags'
    BY <1>0, <1>2 DEF Flags, SetupLocks
  <2>2. Forms'
    BY <1>0, <1>2, WrittenForms, StartForm, StepForms, ServiceForms DEF Forms, Written, SetupLocks
  <2> QED
    BY <2>0, <2>1, <2>2 DEF TypeInv
<1>3. CASE SetupStopsClient
  <2>1. Marks'
    BY <1>0, <1>3, UpsetForm DEF Marks, SetupStopsClient
  <2>0. Flags'
    BY <1>0, <1>3 DEF Flags, SetupStopsClient
  <2>2. Forms'
    <3>1. cli' = cli \/ (answers /\ cli' = [cli EXCEPT !.pc = "leaving"])
      BY <1>3 DEF SetupStopsClient
    <3>2. cli' \in ClientAt /\ (cli' = cli \/ (cli'.pc = "leaving" /\ cli'.ver = cli.ver /\ cli.pc # "none"))
      BY <1>0, <3>1, Moves DEF Forms, answers
    <3>3. UNCHANGED <<exe, sexe, svc, place, un>>
      BY <1>3 DEF SetupStopsClient, SetupUnchanged
    <3> QED
      BY <1>0, <3>2, <3>3 DEF Forms
  <2> QED
    BY <2>0, <2>1, <2>2 DEF TypeInv
<1>4. CASE SetupReplaces
  <2>1. Marks'
    BY <1>0, <1>4, UpsetForm DEF Marks, SetupReplaces
  <2>0. Flags'
    BY <1>0, <1>4 DEF Flags, SetupReplaces
  <2>2. Forms'
    BY <1>0, <1>4, WrittenForms, StartForm, StepForms, ServiceForms DEF Forms, Written, SetupReplaces
  <2> QED
    BY <2>0, <2>1, <2>2 DEF TypeInv
<1>5. CASE SetupClears
  <2>1. Marks'
    BY <1>0, <1>5, UpsetForm DEF Marks, SetupClears
  <2>0. Flags'
    BY <1>0, <1>5 DEF Flags, SetupClears
  <2>2. Forms'
    BY <1>0, <1>5, WrittenForms, StartForm, StepForms, ServiceForms DEF Forms, Written, SetupClears
  <2> QED
    BY <2>0, <2>1, <2>2 DEF TypeInv
<1>6. CASE SetupStartsClient
  <2>1. Marks'
    BY <1>0, <1>6, UpsetForm DEF Marks, SetupStartsClient
  <2>0. Flags'
    BY <1>0, <1>6 DEF Flags, SetupStartsClient
  <2>2. Forms'
    BY <1>0, <1>6, Moves, StepForms DEF Forms, SetupStartsClient
  <2> QED
    BY <2>0, <2>1, <2>2 DEF TypeInv
<1> QED
  BY <1>1, <1>2, <1>3, <1>4, <1>5, <1>6

\* What dies.
LEMMA TypeDeaths ==
  ASSUME TypeInv, ClientDies \/ ServiceDies \/ HelperDies
  PROVE  TypeInv'
<1> USE DEF files, client, service, others, history, budget, Fault, ClientGone, HelperUnchanged, HelperEnds
<1>0. Forms /\ Marks /\ Flags /\ exe.live \in Versions /\ exe.staged \in Versions
  BY WrittenForms DEF TypeInv, Forms
<1>1. CASE ClientDies
  <2>1. Marks'
    BY <1>0, <1>1, UpsetForm DEF Marks, ClientDies
  <2>0. Flags'
    BY <1>0, <1>1 DEF Flags, ClientDies
  <2>2. Forms'
    BY <1>0, <1>1, WrittenForms, StartForm, StepForms, ServiceForms DEF Forms, Written, ClientDies
  <2> QED
    BY <2>0, <2>1, <2>2 DEF TypeInv
<1>2. CASE ServiceDies
  <2>1. Marks'
    BY <1>0, <1>2, UpsetForm DEF Marks, ServiceDies
  <2>0. Flags'
    BY <1>0, <1>2 DEF Flags, ServiceDies
  <2>2. Forms'
    BY <1>0, <1>2, WrittenForms, StartForm, StepForms, ServiceForms DEF Forms, Written, ServiceDies
  <2> QED
    BY <2>0, <2>1, <2>2 DEF TypeInv
<1>3. CASE HelperDies
  <2>1. Marks'
    BY <1>0, <1>3, UpsetForm DEF Marks, HelperDies
  <2>0. Flags'
    BY <1>0, <1>3 DEF Flags, HelperDies
  <2>2. Forms'
    BY <1>0, <1>3, WrittenForms, StartForm, StepForms, ServiceForms DEF Forms, Written, HelperDies
  <2> QED
    BY <2>0, <2>1, <2>2 DEF TypeInv
<1> QED
  BY <1>1, <1>2, <1>3

-----------------------------------------------------------------------------
(* What each step does to what the invariants speak of.                    *)

Starts(v) == cli' = cli \/ (cli.pc = "none" /\ v # 0 /\ cli'.pc = "started" /\ cli'.ver = v)
Walks(p, q) == cli.pc = p /\ cli'.pc = q /\ cli'.ver = cli.ver
Leaves ==
    /\ cli'.pc = "none" /\ un' = "none"
    /\ (place' = place /\ place.by # "client") \/ (place'.by = "none" /\ place'.pc = "none")
Held(f, g) == f.live = g.live /\ f.old = g.old
FailsTo(live, old) ==
    /\ exe'.live = live /\ exe'.old = old /\ exe'.staged = 0
    /\ txn' = "failed" /\ helper' = "none" /\ Starts(live)
    /\ gap' <=> (gap \/ (live = 0 /\ remover = "none"))
    /\ UNCHANGED <<sexe, latch, un, svc, place, remover, setup, served, replaced>>

LEMMA LeavesForm == ASSUME TypeInv, ClientGone PROVE Leaves
BY GoneForm DEF TypeInv, Leaves

LEMMA FailsToForm ==
  ASSUME TypeInv, NEW f \in ClientFiles, FailsAndStarts(f), replaced' = replaced
  PROVE  FailsTo(f.live, f.old)
BY FailsForm DEF TypeInv, FailsTo, Starts, Written, service

\* The Client.
LEMMA ClientEffects ==
  ASSUME TypeInv
  PROVE  /\ UserStarts \/ LoginStarts =>
              Starts(exe.live) /\ UNCHANGED <<exe, sexe, txn, latch, un, svc, helper, place, remover, setup, served, gap, replaced>>
         /\ Gate =>
              /\ cli.pc = "started" /\ (Leaves \/ (~latch /\ Walks("started", "boot") /\ UNCHANGED <<un, place>>))
              /\ UNCHANGED <<exe, sexe, txn, latch, svc, helper, remover, setup, served, gap, replaced>>
         /\ Listen =>
              /\ Walks("boot", "listening") /\ (served' <=> served \/ cli.ver = 2)
              /\ UNCHANGED <<exe, sexe, txn, latch, un, svc, helper, place, remover, setup, gap, replaced>>
         /\ SettleService =>
              Walks("listening", "serving") /\ UNCHANGED <<exe, txn, latch, un, helper, place, remover, setup, served, gap, replaced>>
         /\ RecordAges =>
              /\ txn = "swapping" /\ txn' = "stale" /\ helper = "none" /\ cli.pc \in {"none", "serving"}
              /\ UNCHANGED <<exe, sexe, latch, cli, un, svc, helper, place, remover, setup, served, gap, replaced>>
         /\ ClientExits \/ ClientDies =>
              Leaves /\ UNCHANGED <<exe, sexe, txn, latch, svc, helper, remover, setup, served, gap, replaced>>
<1> USE DEF files, client, service, others, history, budget, Fault, Upset
<1>0. Forms /\ Marks /\ exe \in ClientFiles
  BY DEF TypeInv, Forms
<1>1. ASSUME UserStarts \/ LoginStarts
      PROVE  Starts(exe.live) /\ UNCHANGED <<exe, sexe, txn, latch, un, svc, helper, place, remover, setup, served, gap, replaced>>
  <2>1. cli' = start_client(cli, exe.live) /\ exe.live \in Versions /\ UNCHANGED <<exe, sexe, txn, latch, un, svc, helper, place, remover, setup, served, gap, replaced>>
    BY <1>0, <1>1, WrittenForms DEF UserStarts, LoginStarts
  <2> QED
    BY <1>0, <2>1, Moves DEF Starts
<1>2. ASSUME Gate
      PROVE  /\ cli.pc = "started" /\ (Leaves \/ (~latch /\ Walks("started", "boot") /\ UNCHANGED <<un, place>>))
             /\ UNCHANGED <<exe, sexe, txn, latch, svc, helper, remover, setup, served, gap, replaced>>
  <2>1. CASE ClientGone
    BY <1>2, <2>1, LeavesForm DEF Gate
  <2>2. CASE ~ClientGone
    <3>1. ~latch /\ cli.pc = "started" /\ cli' = [cli EXCEPT !.pc = "boot"] /\ UNCHANGED <<un, place>>
      BY <1>2, <2>2 DEF Gate
    <3> QED
      BY <1>0, <1>2, <3>1, Moves DEF Gate, Walks
  <2> QED
    BY <2>1, <2>2
<1>3. ASSUME Listen
      PROVE  /\ Walks("boot", "listening") /\ (served' <=> served \/ cli.ver = 2)
             /\ UNCHANGED <<exe, sexe, txn, latch, un, svc, helper, place, remover, setup, gap, replaced>>
  BY <1>0, <1>3, Moves DEF Listen, Walks
<1>4. ASSUME SettleService
      PROVE  Walks("listening", "serving") /\ UNCHANGED <<exe, txn, latch, un, helper, place, remover, setup, served, gap, replaced>>
  BY <1>0, <1>4, Moves DEF SettleService, Walks
<1>5. ASSUME RecordAges
      PROVE  /\ txn = "swapping" /\ txn' = "stale" /\ helper = "none" /\ cli.pc \in {"none", "serving"}
             /\ UNCHANGED <<exe, sexe, latch, cli, un, svc, helper, place, remover, setup, served, gap, replaced>>
  BY <1>5 DEF RecordAges
<1>6. ASSUME ClientExits \/ ClientDies
      PROVE  Leaves /\ UNCHANGED <<exe, sexe, txn, latch, svc, helper, remover, setup, served, gap, replaced>>
  BY <1>6, LeavesForm DEF ClientExits, ClientDies
<1> QED
  BY <1>1, <1>2, <1>3, <1>4, <1>5, <1>6

\* The update check, the swap monitor and the watch.
LEMMA CheckEffects ==
  ASSUME TypeInv
  PROVE  /\ BeginCheck \/ PlacedForService \/ WatchLooks =>
              UNCHANGED <<exe, sexe, txn, latch, cli, un, svc, helper, place, remover, setup, served, gap, replaced>>
         /\ LockForService =>
              /\ cli.pc \in {"serving", "leaving"} /\ (place' = place \/ (place'.by = "client" /\ place'.pc = "stop"))
              /\ UNCHANGED <<exe, sexe, txn, latch, cli, un, svc, helper, remover, setup, served, gap, replaced>>
         /\ CheckOwn =>
              /\ cli.pc = "serving" /\ Held(exe', exe)
              /\ \/ txn' = txn \/ (txn' = "none" /\ cli.ver = 2)
                 \/ txn = "none" /\ txn' = "verified" /\ cli.ver = 1
              /\ UNCHANGED <<sexe, latch, cli, un, svc, helper, place, remover, setup, served, gap, replaced>>
         /\ Drain =>
              /\ cli.pc = "serving" /\ Held(exe', exe) /\ (txn' = txn \/ (latch /\ txn' = "none"))
              /\ UNCHANGED <<sexe, latch, cli, un, svc, helper, place, remover, setup, served, gap, replaced>>
         /\ begin_swap =>
              /\ cli.pc = "serving" /\ Held(exe', exe)
              /\ \/ un = "none" /\ txn = "verified" /\ helper = "none" /\ txn' = "swapping" /\ helper' = "lock"
                    /\ Walks("serving", "leaving")
                 \/ UNCHANGED <<cli, helper>> /\ (txn' = txn \/ (txn = "verified" /\ txn' = "none"))
              /\ UNCHANGED <<sexe, latch, un, svc, place, remover, setup, served, gap, replaced>>
         /\ WatchLaunches =>
              cli.pc = "serving" /\ UNCHANGED <<exe, sexe, txn, latch, cli, un, helper, place, remover, setup, served, gap, replaced>>
<1> USE DEF files, client, service, others, history, budget, Fault, Upset
<1>0. Forms /\ Marks /\ exe \in ClientFiles
  BY DEF TypeInv, Forms
<1>1. ASSUME BeginCheck \/ PlacedForService \/ WatchLooks
      PROVE  UNCHANGED <<exe, sexe, txn, latch, cli, un, svc, helper, place, remover, setup, served, gap, replaced>>
  BY <1>1 DEF BeginCheck, PlacedForService, WatchLooks
<1>2. ASSUME LockForService
      PROVE  /\ cli.pc \in {"serving", "leaving"} /\ (place' = place \/ (place'.by = "client" /\ place'.pc = "stop"))
             /\ UNCHANGED <<exe, sexe, txn, latch, cli, un, svc, helper, remover, setup, served, gap, replaced>>
  BY <1>0, <1>2, Moves DEF LockForService
<1>3. ASSUME CheckOwn
      PROVE  /\ cli.pc = "serving" /\ Held(exe', exe)
             /\ \/ txn' = txn \/ (txn' = "none" /\ cli.ver = 2)
                \/ txn = "none" /\ txn' = "verified" /\ cli.ver = 1
             /\ UNCHANGED <<sexe, latch, cli, un, svc, helper, place, remover, setup, served, gap, replaced>>
  <2>1. /\ exe' = exe \/ exe' = [exe EXCEPT !.staged = 0] \/ exe' = [exe EXCEPT !.staged = 2]
        /\ \/ txn' = txn \/ (txn' = "none" /\ cli.ver = 2)
           \/ txn = "none" /\ txn' = "verified" /\ cli.ver = 1
    BY <1>3 DEF CheckOwn, discard_pending
  <2>2. Held(exe', exe)
    BY <1>0, <2>1, WrittenForms DEF Held, Written
  <2> QED
    BY <1>3, <2>1, <2>2 DEF CheckOwn
<1>4. ASSUME Drain
      PROVE  /\ cli.pc = "serving" /\ Held(exe', exe) /\ (txn' = txn \/ (latch /\ txn' = "none"))
             /\ UNCHANGED <<sexe, latch, cli, un, svc, helper, place, remover, setup, served, gap, replaced>>
  <2>1. /\ exe' = exe \/ exe' = [exe EXCEPT !.staged = 0]
        /\ txn' = txn \/ (latch /\ txn' = "none")
    BY <1>4 DEF Drain, discard_pending
  <2>2. Held(exe', exe)
    BY <1>0, <2>1, WrittenForms DEF Held, Written
  <2> QED
    BY <1>4, <2>1, <2>2 DEF Drain
<1>5. ASSUME begin_swap
      PROVE  /\ cli.pc = "serving" /\ Held(exe', exe)
             /\ \/ un = "none" /\ txn = "verified" /\ helper = "none" /\ txn' = "swapping" /\ helper' = "lock"
                   /\ Walks("serving", "leaving")
                \/ UNCHANGED <<cli, helper>> /\ (txn' = txn \/ (txn = "verified" /\ txn' = "none"))
             /\ UNCHANGED <<sexe, latch, un, svc, place, remover, setup, served, gap, replaced>>
  <2>1. /\ exe' = exe \/ exe' = [exe EXCEPT !.staged = 0]
        /\ \/ un = "none" /\ txn = "verified" /\ helper = "none" /\ txn' = "swapping" /\ helper' = "lock"
              /\ cli' = [cli EXCEPT !.pc = "leaving"]
           \/ UNCHANGED <<cli, helper>> /\ (txn' = txn \/ (txn = "verified" /\ txn' = "none"))
    BY <1>5 DEF begin_swap, discard_pending
  <2>2. Held(exe', exe)
    BY <1>0, <2>1, WrittenForms DEF Held, Written
  <2>3. cli' = [cli EXCEPT !.pc = "leaving"] => Walks("serving", "leaving")
    BY <1>0, <1>5, Moves DEF begin_swap, Walks
  <2> QED
    BY <1>5, <2>1, <2>2, <2>3 DEF begin_swap
<1>6. ASSUME WatchLaunches
      PROVE  cli.pc = "serving" /\ UNCHANGED <<exe, sexe, txn, latch, cli, un, helper, place, remover, setup, served, gap, replaced>>
  BY <1>6 DEF WatchLaunches
<1> QED
  BY <1>1, <1>2, <1>3, <1>4, <1>5, <1>6

\* VIRULE Service and its replacement.
LEMMA ServiceEffects ==
  ASSUME TypeInv
  PROVE  /\ ServiceStep =>
              svc.pc # "none" /\ Starts(exe.live) /\ UNCHANGED <<exe, sexe, txn, latch, un, helper, place, remover, setup, served, gap, replaced>>
         /\ ServiceDies =>
              svc.pc # "none" /\ svc'.pc = "none" /\ UNCHANGED <<exe, sexe, txn, latch, cli, un, helper, place, remover, setup, served, gap, replaced>>
         /\ PlaceStep =>
              /\ place.pc # "none" /\ (place'.by = place.by \/ (place'.by = "none" /\ place'.pc = "none"))
              /\ UNCHANGED <<exe, txn, latch, cli, un, helper, remover, setup, served, gap, replaced>>
<1> USE DEF files, client, service, others, history, budget, Fault, Upset
<1>0. Forms /\ Marks /\ exe \in ClientFiles
  BY DEF TypeInv, Forms
<1>1. ASSUME ServiceStep
      PROVE  svc.pc # "none" /\ Starts(exe.live) /\ UNCHANGED <<exe, sexe, txn, latch, un, helper, place, remover, setup, served, gap, replaced>>
  <2>1. CASE SvcLaunch
    <3>1. cli' = start_client(cli, exe.live) /\ exe.live \in Versions /\ svc.pc = "launch"
      BY <1>0, <2>1, WrittenForms DEF SvcLaunch
    <3> QED
      BY <1>0, <2>1, <3>1, Moves DEF SvcLaunch, Starts
  <2>2. CASE ~SvcLaunch
    <3>1. svc.pc # "none" /\ SvcUnchanged
      BY <1>1, <2>2 DEF ServiceStep, SvcGate, SvcReady, SvcStandDown, SvcBind, SvcWaitMaintenance, SvcHoldOff,
         SvcAsleep, SvcRestore, SvcWakes, Top
    <3> QED
      BY <3>1 DEF SvcUnchanged, Starts
  <2> QED
    BY <2>1, <2>2
<1>2. ASSUME ServiceDies
      PROVE  svc.pc # "none" /\ svc'.pc = "none" /\ UNCHANGED <<exe, sexe, txn, latch, cli, un, helper, place, remover, setup, served, gap, replaced>>
  BY <1>2 DEF ServiceDies
<1>3. ASSUME PlaceStep
      PROVE  /\ place.pc # "none" /\ (place'.by = place.by \/ (place'.by = "none" /\ place'.pc = "none"))
             /\ UNCHANGED <<exe, txn, latch, cli, un, helper, remover, setup, served, gap, replaced>>
  <2>1. place.pc # "none" /\ PlaceUnchanged /\ replaced' = replaced
    BY <1>3 DEF PlaceStep, PlaceStops, PlaceStopped, PlaceAside, PlacePlaces, PlaceStarts, PlaceWaits, PlaceBack
  <2>2. place' = NoPlace \/ \E q \in {"stopping", "aside", "place", "start", "wait", "back"} :
                               place' = [place EXCEPT !.pc = q]
    BY <1>3 DEF PlaceStep, PlaceStops, PlaceStopped, PlaceAside, PlacePlaces, PlaceStarts, PlaceWaits, PlaceBack
  <2>3. place'.by = place.by \/ (place'.by = "none" /\ place'.pc = "none")
    BY <1>0, <2>2, Moves
  <2> QED
    BY <2>1, <2>3 DEF PlaceUnchanged
<1> QED
  BY <1>1, <1>2, <1>3

\* Nothing of the Client's or of the service's files is left.
AllGone == exe.live = 0 /\ exe.old = 0 /\ exe.staged = 0
ServiceGone == sexe.live = 0 /\ sexe.old = 0

\* The replacement helper.
LEMMA HelperEffects ==
  ASSUME TypeInv
  PROVE  /\ HelperLocks =>
              /\ helper = "lock"
              /\ (txn' = txn /\ helper' = "parent") \/ (helper' = "none" /\ (txn' = txn \/ (txn = "swapping" /\ txn' = "verified")))
              /\ UNCHANGED <<exe, sexe, latch, cli, un, svc, place, remover, setup, served, gap, replaced>>
         /\ HelperLooks =>
              /\ helper = "parent"
              /\ Held(exe', exe)
              /\ exe'.staged \in {0, exe.staged}
              /\ \/ latch /\ txn' = "none" /\ helper' = "none"
                 \/ ~latch /\ txn # "swapping" /\ txn' = txn /\ helper' = "none"
                 \/ ~latch /\ txn = "swapping" /\ txn' = txn /\ helper' = "aside"
              /\ UNCHANGED <<sexe, latch, cli, un, svc, place, remover, setup, served, gap, replaced>>
         /\ HelperSetsAside =>
              /\ helper = "aside"
              /\ \/ FailsTo(exe.live, exe.old) \/ FailsTo(exe.live, 0)
                 \/ /\ exe.live # 0 /\ exe.staged = 2 /\ exe'.live = 0 /\ exe'.old = exe.live /\ helper' = "swap"
                    /\ UNCHANGED <<sexe, txn, latch, cli, un, svc, place, remover, setup, served, gap, replaced>>
         /\ HelperSwaps =>
              /\ helper = "swap"
              /\ \/ FailsTo(IF exe.old # 0 THEN exe.old ELSE exe.live, 0)
                 \/ /\ exe.staged # 0 /\ exe'.live = exe.staged /\ exe'.old = exe.old /\ helper' = "start"
                    /\ UNCHANGED <<sexe, txn, latch, cli, un, svc, place, remover, setup, served, gap, replaced>>
         /\ HelperStarts =>
              /\ helper = "start"
              /\ helper' \in {"health", "unhealthy"}
              /\ Starts(exe.live)
              /\ UNCHANGED <<exe, sexe, txn, latch, un, svc, place, remover, setup, served, gap, replaced>>
         /\ HelperPolls =>
              /\ helper = "health"
              /\ helper' = "unhealthy" \/ (helper' = "clean" /\ cli.pc \in {"listening", "serving"} /\ cli.ver = 2)
              /\ UNCHANGED <<exe, sexe, txn, latch, cli, un, svc, place, remover, setup, served, gap, replaced>>
         /\ HelperCleans =>
              /\ helper = "clean"
              /\ helper' = "none"
              /\ txn' = "none"
              /\ exe'.live = exe.live /\ exe'.old = 0 /\ exe'.staged = exe.staged
              /\ UNCHANGED <<sexe, latch, cli, un, svc, place, remover, setup, served, gap, replaced>>
         /\ HelperEndsChild =>
              /\ helper = "unhealthy"
              /\ helper' = "back"
              /\ Leaves \/ UNCHANGED <<cli, un, place>>
              /\ UNCHANGED <<exe, sexe, txn, latch, svc, remover, setup, served, gap, replaced>>
         /\ HelperRollsBack =>
              /\ helper = "back"
              /\ \/ latch /\ helper' = "none" /\ exe' = exe
                 \/ ~latch /\ helper' = "back2" /\ exe'.live = 0 /\ exe'.old = exe.old /\ (exe.live = 0 => exe' = exe)
              /\ UNCHANGED <<sexe, txn, latch, cli, un, svc, place, remover, setup, served, gap, replaced>>
         /\ HelperRestores =>
              /\ helper = "back2"
              /\ FailsTo(IF exe.old # 0 THEN exe.old ELSE exe.live, 0)
         /\ HelperDies =>
              /\ helper # "none"
              /\ helper' = "none"
              /\ gap' <=> (gap \/ helper \in {"swap", "back2"})
              /\ UNCHANGED <<exe, sexe, txn, latch, cli, un, svc, place, remover, setup, served, replaced>>
<1> USE DEF files, client, service, others, history, budget, Fault, Upset
<1>0. TypeInv /\ Forms /\ Marks /\ exe \in ClientFiles /\ sexe \in ServiceFiles
  BY DEF TypeInv, Forms
<1>1. ASSUME HelperLocks
      PROVE  /\ helper = "lock"
             /\ (txn' = txn /\ helper' = "parent") \/ (helper' = "none" /\ (txn' = txn \/ (txn = "swapping" /\ txn' = "verified")))
             /\ UNCHANGED <<exe, sexe, latch, cli, un, svc, place, remover, setup, served, gap, replaced>>
  BY <1>0, <1>1 DEF HelperLocks, HelperOnly, HelperUnchanged, HelperEnds
<1>2. ASSUME HelperLooks
      PROVE  /\ helper = "parent"
             /\ Held(exe', exe)
             /\ exe'.staged \in {0, exe.staged}
             /\ \/ latch /\ txn' = "none" /\ helper' = "none"
                \/ ~latch /\ txn # "swapping" /\ txn' = txn /\ helper' = "none"
                \/ ~latch /\ txn = "swapping" /\ txn' = txn /\ helper' = "aside"
             /\ UNCHANGED <<sexe, latch, cli, un, svc, place, remover, setup, served, gap, replaced>>
  <2>1. exe' = exe \/ exe' = [exe EXCEPT !.staged = 0]
    BY <1>2 DEF HelperLooks
  <2> QED
    BY <1>0, <1>2, <2>1, WrittenForms DEF HelperLooks, Held, Written, HelperOnly, HelperUnchanged, HelperEnds
<1>3. ASSUME HelperSetsAside
      PROVE  /\ helper = "aside"
             /\ \/ FailsTo(exe.live, exe.old) \/ FailsTo(exe.live, 0)
                \/ /\ exe.live # 0 /\ exe.staged = 2 /\ exe'.live = 0 /\ exe'.old = exe.live /\ helper' = "swap"
                   /\ UNCHANGED <<sexe, txn, latch, cli, un, svc, place, remover, setup, served, gap, replaced>>
  <2>0. helper = "aside" /\ (replaced' = replaced)
    BY <1>3 DEF HelperSetsAside, HelperOnly
  <2>1. CASE FailsAndStarts(exe)
    <3>1. FailsTo(exe.live, exe.old)
      BY <1>0, <2>0, <2>1, FailsToForm
    <3> QED
      BY <2>0, <3>1
  <2>2. CASE FailsAndStarts([exe EXCEPT !.old = 0])
    <3>1. LET f == [exe EXCEPT !.old = 0] IN f \in ClientFiles /\ f.live = exe.live /\ f.old = 0
      BY <1>0, WrittenForms DEF Written
    <3>2. FailsTo(exe.live, 0)
      BY <1>0, <2>0, <2>2, <3>1, FailsToForm
    <3> QED
      BY <2>0, <3>2
  <2>3. CASE ~FailsAndStarts(exe) /\ ~FailsAndStarts([exe EXCEPT !.old = 0])
    <3>1. /\ exe' = [exe EXCEPT !.live = 0, !.old = exe.live] /\ exe.live # 0 /\ exe.staged = 2
          /\ helper = "aside" /\ helper' = "swap" /\ txn' = txn /\ HelperOnly
      BY <1>3, <2>3 DEF HelperSetsAside, staged_binary_valid
    <3>2. exe'.live = 0 /\ exe'.old = exe.live
      BY <1>0, <3>1, WrittenForms DEF Written
    <3> QED
      BY <3>1, <3>2 DEF HelperOnly, HelperUnchanged
  <2> QED
    BY <2>1, <2>2, <2>3
<1>4. ASSUME HelperSwaps
      PROVE  /\ helper = "swap"
             /\ \/ FailsTo(IF exe.old # 0 THEN exe.old ELSE exe.live, 0)
                \/ /\ exe.staged # 0 /\ exe'.live = exe.staged /\ exe'.old = exe.old /\ helper' = "start"
                   /\ UNCHANGED <<sexe, txn, latch, cli, un, svc, place, remover, setup, served, gap, replaced>>
  <2>1. CASE FailsAndStarts(restored(exe))
    <3>1. LET f == restored(exe)
          IN  f \in ClientFiles /\ f.live = (IF exe.old # 0 THEN exe.old ELSE exe.live) /\ f.old = 0
      BY <1>0, RestoredForm DEF Written
    <3>2. helper = "swap" /\ replaced' = replaced
      BY <1>4 DEF HelperSwaps, HelperOnly
    <3>3. FailsTo(IF exe.old # 0 THEN exe.old ELSE exe.live, 0)
      BY <1>0, <2>1, <3>1, <3>2, FailsToForm
    <3> QED
      BY <3>2, <3>3
  <2>2. CASE ~FailsAndStarts(restored(exe))
    <3>1. /\ exe' = [exe EXCEPT !.live = exe.staged, !.staged = 0] /\ exe.staged # 0
          /\ helper = "swap" /\ helper' = "start" /\ txn' = txn /\ HelperOnly
      BY <1>4, <2>2 DEF HelperSwaps
    <3>2. exe'.live = exe.staged /\ exe'.old = exe.old
      BY <1>0, <3>1, WrittenForms DEF Written
    <3> QED
      BY <3>1, <3>2 DEF HelperOnly, HelperUnchanged
  <2> QED
    BY <2>1, <2>2
<1>5. ASSUME HelperStarts
      PROVE  /\ helper = "start"
             /\ helper' \in {"health", "unhealthy"}
             /\ Starts(exe.live)
             /\ UNCHANGED <<exe, sexe, txn, latch, un, svc, place, remover, setup, served, gap, replaced>>
  <2>1. Starts(exe.live)
    BY <1>0, <1>5, Moves, WrittenForms DEF HelperStarts, Starts
  <2> QED
    BY <1>5, <2>1 DEF HelperStarts, HelperUnchanged
<1>6. ASSUME HelperPolls
      PROVE  /\ helper = "health"
             /\ helper' = "unhealthy" \/ (helper' = "clean" /\ cli.pc \in {"listening", "serving"} /\ cli.ver = 2)
             /\ UNCHANGED <<exe, sexe, txn, latch, cli, un, svc, place, remover, setup, served, gap, replaced>>
  BY <1>0, <1>6 DEF HelperPolls, answers, HelperOnly, HelperUnchanged, HelperEnds
<1>7. ASSUME HelperCleans
      PROVE  /\ helper = "clean"
             /\ helper' = "none"
             /\ txn' = "none"
             /\ exe'.live = exe.live /\ exe'.old = 0 /\ exe'.staged = exe.staged
             /\ UNCHANGED <<sexe, latch, cli, un, svc, place, remover, setup, served, gap, replaced>>
  <2>1. exe' = [exe EXCEPT !.old = 0]
    BY <1>7 DEF HelperCleans
  <2> QED
    BY <1>0, <1>7, <2>1, WrittenForms DEF HelperCleans, Written, HelperOnly, HelperUnchanged, HelperEnds
<1>8. ASSUME HelperEndsChild
      PROVE  /\ helper = "unhealthy"
             /\ helper' = "back"
             /\ Leaves \/ UNCHANGED <<cli, un, place>>
             /\ UNCHANGED <<exe, sexe, txn, latch, svc, remover, setup, served, gap, replaced>>
  <2>1. Leaves \/ UNCHANGED <<cli, un, place>>
    BY <1>8, LeavesForm DEF HelperEndsChild
  <2> QED
    BY <1>8, <2>1 DEF HelperEndsChild, HelperUnchanged
<1>9. ASSUME HelperRollsBack
      PROVE  /\ helper = "back"
             /\ \/ latch /\ helper' = "none" /\ exe' = exe
                \/ ~latch /\ helper' = "back2" /\ exe'.live = 0 /\ exe'.old = exe.old /\ (exe.live = 0 => exe' = exe)
             /\ UNCHANGED <<sexe, txn, latch, cli, un, svc, place, remover, setup, served, gap, replaced>>
  <2>1. \/ latch /\ helper' = "none" /\ exe' = exe
        \/ ~latch /\ helper' = "back2" /\ exe' = IF exe.live # 0 THEN [exe EXCEPT !.staged = exe.live, !.live = 0] ELSE exe
    BY <1>9 DEF HelperRollsBack, HelperEnds
  <2> QED
    BY <1>0, <1>9, <2>1, WrittenForms DEF HelperRollsBack, Written, HelperOnly, HelperUnchanged, HelperEnds
<1>10. ASSUME HelperRestores
      PROVE  /\ helper = "back2"
             /\ FailsTo(IF exe.old # 0 THEN exe.old ELSE exe.live, 0)
  <2>1. helper = "back2" /\ FailsAndStarts(restored(exe)) /\ replaced' = replaced
    BY <1>10 DEF HelperRestores
  <2>2. LET f == restored(exe)
        IN  f \in ClientFiles /\ f.live = (IF exe.old # 0 THEN exe.old ELSE exe.live) /\ f.old = 0
    BY <1>0, RestoredForm DEF Written
  <2> QED
    BY <1>0, <2>1, <2>2, FailsToForm
<1>11. ASSUME HelperDies
      PROVE  /\ helper # "none"
             /\ helper' = "none"
             /\ gap' <=> (gap \/ helper \in {"swap", "back2"})
             /\ UNCHANGED <<exe, sexe, txn, latch, cli, un, svc, place, remover, setup, served, replaced>>
  BY <1>0, <1>11 DEF HelperDies, HelperOnly, HelperUnchanged, HelperEnds
<1> QED
  BY <1>1, <1>2, <1>3, <1>4, <1>5, <1>6, <1>7, <1>8, <1>9, <1>10, <1>11

\* The uninstall and its helper.
LEMMA UninstallEffects ==
  ASSUME TypeInv
  PROVE  /\ UninstallAsked =>
              /\ cli.pc = "serving"
              /\ setup = "none"
              /\ latch' = TRUE
              /\ UNCHANGED <<exe, sexe, txn, cli, svc, helper, place, remover, setup, served, gap, replaced>>
         /\ UninstallStopsService =>
              /\ un # "none"
              /\ UNCHANGED <<exe, sexe, txn, latch, cli, svc, helper, place, remover, setup, served, gap, replaced>>
         /\ UninstallDiscards =>
              /\ un # "none"
              /\ txn' = "none"
              /\ Held(exe', exe)
              /\ UNCHANGED <<sexe, latch, cli, svc, helper, place, remover, setup, served, gap, replaced>>
         /\ UninstallAborts =>
              /\ un' = "none"
              /\ UNCHANGED <<exe, sexe, txn, latch, cli, svc, helper, place, remover, setup, served, gap, replaced>>
         /\ UninstallCommits =>
              /\ un # "none"
              /\ remover' = "stop"
              /\ cli'.pc = "leaving"
              /\ UNCHANGED <<exe, sexe, txn, latch, svc, helper, place, setup, served, gap, replaced>>
         /\ LauncherUninstalls =>
              /\ remover = "none"
              /\ cli.pc \notin {"listening", "serving"}
              /\ remover' = "stop"
              /\ setup = "none"
              /\ latch' = TRUE
              /\ gap' <=> (gap \/ cli.pc = "boot")
              /\ UNCHANGED <<exe, sexe, txn, cli, un, svc, helper, place, setup, served, replaced>>
         /\ RemoverStops =>
              /\ remover = "stop"
              /\ remover' = "wait"
              /\ UNCHANGED <<exe, sexe, txn, latch, cli, un, svc, helper, place, setup, served, gap, replaced>>
         /\ RemoverWaits =>
              /\ remover = "wait"
              /\ remover' = "remove"
              /\ cli.pc = "none"
              /\ svc.pc = "none"
              /\ UNCHANGED <<exe, sexe, txn, latch, cli, un, svc, helper, place, setup, served, gap, replaced>>
         /\ RemoverRemoves =>
              /\ remover = "remove"
              /\ remover' = "verify"
              /\ txn' = "none"
              /\ IF cli.pc = "none" THEN AllGone' ELSE exe' = exe
              /\ svc.pc = "none" => ServiceGone'
              /\ UNCHANGED <<latch, cli, un, svc, helper, place, setup, served, gap, replaced>>
         /\ RemoverVerifies =>
              /\ remover = "verify"
              /\ \/ AllGone /\ ServiceGone /\ remover' = "done" /\ latch' = FALSE
                 \/ ~(AllGone /\ ServiceGone) /\ remover' = "wait" /\ latch' = latch
              /\ UNCHANGED <<exe, sexe, txn, cli, un, svc, helper, place, setup, served, gap, replaced>>
<1> USE DEF files, client, service, others, history, budget, Fault, Upset
<1>0. TypeInv /\ Forms /\ Marks /\ exe \in ClientFiles /\ sexe \in ServiceFiles
  BY DEF TypeInv, Forms
<1>1. ASSUME UninstallAsked
      PROVE  /\ cli.pc = "serving"
             /\ setup = "none"
             /\ latch' = TRUE
             /\ UNCHANGED <<exe, sexe, txn, cli, svc, helper, place, remover, setup, served, gap, replaced>>
  BY <1>0, <1>1 DEF UninstallAsked
<1>2. ASSUME UninstallStopsService
      PROVE  /\ un # "none"
             /\ UNCHANGED <<exe, sexe, txn, latch, cli, svc, helper, place, remover, setup, served, gap, replaced>>
  BY <1>0, <1>2 DEF UninstallStopsService
<1>3. ASSUME UninstallDiscards
      PROVE  /\ un # "none"
             /\ txn' = "none"
             /\ Held(exe', exe)
             /\ UNCHANGED <<sexe, latch, cli, svc, helper, place, remover, setup, served, gap, replaced>>
  <2>1. exe' = [exe EXCEPT !.staged = 0] /\ txn' = "none"
    BY <1>3 DEF UninstallDiscards, discard_pending
  <2> QED
    BY <1>0, <1>3, <2>1, WrittenForms DEF UninstallDiscards, Held, Written
<1>4. ASSUME UninstallAborts
      PROVE  /\ un' = "none"
             /\ UNCHANGED <<exe, sexe, txn, latch, cli, svc, helper, place, remover, setup, served, gap, replaced>>
  BY <1>0, <1>4 DEF UninstallAborts
<1>5. ASSUME UninstallCommits
      PROVE  /\ un # "none"
             /\ remover' = "stop"
             /\ cli'.pc = "leaving"
             /\ UNCHANGED <<exe, sexe, txn, latch, svc, helper, place, setup, served, gap, replaced>>
  BY <1>0, <1>5, Moves DEF UninstallCommits
<1>6. ASSUME LauncherUninstalls
      PROVE  /\ remover = "none"
             /\ cli.pc \notin {"listening", "serving"}
             /\ remover' = "stop"
             /\ setup = "none"
             /\ latch' = TRUE
             /\ gap' <=> (gap \/ cli.pc = "boot")
             /\ UNCHANGED <<exe, sexe, txn, cli, un, svc, helper, place, setup, served, replaced>>
  BY <1>0, <1>6 DEF LauncherUninstalls, answers
<1>7. ASSUME RemoverStops
      PROVE  /\ remover = "stop"
             /\ remover' = "wait"
             /\ UNCHANGED <<exe, sexe, txn, latch, cli, un, svc, helper, place, setup, served, gap, replaced>>
  BY <1>0, <1>7 DEF RemoverStops
<1>8. ASSUME RemoverWaits
      PROVE  /\ remover = "wait"
             /\ remover' = "remove"
             /\ cli.pc = "none"
             /\ svc.pc = "none"
             /\ UNCHANGED <<exe, sexe, txn, latch, cli, un, svc, helper, place, setup, served, gap, replaced>>
  BY <1>0, <1>8 DEF RemoverWaits
<1>9. ASSUME RemoverRemoves
      PROVE  /\ remover = "remove"
             /\ remover' = "verify"
             /\ txn' = "none"
             /\ IF cli.pc = "none" THEN AllGone' ELSE exe' = exe
             /\ svc.pc = "none" => ServiceGone'
             /\ UNCHANGED <<latch, cli, un, svc, helper, place, setup, served, gap, replaced>>
  BY <1>0, <1>9 DEF RemoverRemoves, AllGone, ServiceGone
<1>10. ASSUME RemoverVerifies
      PROVE  /\ remover = "verify"
             /\ \/ AllGone /\ ServiceGone /\ remover' = "done" /\ latch' = FALSE
                \/ ~(AllGone /\ ServiceGone) /\ remover' = "wait" /\ latch' = latch
             /\ UNCHANGED <<exe, sexe, txn, cli, un, svc, helper, place, setup, served, gap, replaced>>
  BY <1>0, <1>10 DEF RemoverVerifies, AllGone, ServiceGone, ClientFiles, ServiceFiles
<1> QED
  BY <1>1, <1>2, <1>3, <1>4, <1>5, <1>6, <1>7, <1>8, <1>9, <1>10

\* Setup.
LEMMA SetupEffects ==
  ASSUME TypeInv
  PROVE  /\ SetupBegins =>
              /\ setup = "none"
              /\ remover \in {"none", "done"}
              /\ un = "none"
              /\ setup' = "lock"
              /\ replaced' = TRUE
              /\ UNCHANGED <<exe, sexe, txn, latch, cli, un, svc, helper, place, remover, served, gap>>
         /\ SetupLocks =>
              /\ setup = "lock"
              /\ setup' = "stop"
              /\ gap => gap'
              /\ UNCHANGED <<exe, sexe, txn, latch, cli, un, svc, helper, place, remover, served, replaced>>
         /\ SetupStopsClient =>
              /\ setup = "stop"
              /\ setup' = "replace"
              /\ cli' = cli \/ (cli.pc \in {"listening", "serving"} /\ cli'.pc = "leaving")
              /\ UNCHANGED <<exe, sexe, txn, latch, un, svc, helper, place, remover, served, gap, replaced>>
         /\ SetupReplaces =>
              /\ setup = "replace"
              /\ (setup' = "none" /\ exe' = exe) \/ setup' = "clear"
              /\ UNCHANGED <<sexe, txn, latch, cli, un, svc, helper, place, remover, served, gap, replaced>>
         /\ SetupClears =>
              /\ setup = "clear"
              /\ setup' = "service"
              /\ remover' = "none"
              /\ latch' = FALSE
              /\ place'.by = "setup"
              /\ UNCHANGED <<sexe, cli, un, svc, helper, served, gap, replaced>>
         /\ SetupStartsClient =>
              /\ setup = "service"
              /\ place.by # "setup"
              /\ setup' = "none"
              /\ Starts(exe.live)
              /\ UNCHANGED <<exe, sexe, txn, latch, un, svc, helper, place, remover, served, gap, replaced>>
<1> USE DEF files, client, service, others, history, budget, Fault, Upset
<1>0. TypeInv /\ Forms /\ Marks /\ exe \in ClientFiles /\ sexe \in ServiceFiles
  BY DEF TypeInv, Forms
<1>1. ASSUME SetupBegins
      PROVE  /\ setup = "none"
             /\ remover \in {"none", "done"}
             /\ un = "none"
             /\ setup' = "lock"
             /\ replaced' = TRUE
             /\ UNCHANGED <<exe, sexe, txn, latch, cli, un, svc, helper, place, remover, served, gap>>
  BY <1>0, <1>1 DEF SetupBegins, SetupUnchanged, SetupEnds
<1>2. ASSUME SetupLocks
      PROVE  /\ setup = "lock"
             /\ setup' = "stop"
             /\ gap => gap'
             /\ UNCHANGED <<exe, sexe, txn, latch, cli, un, svc, helper, place, remover, served, replaced>>
  BY <1>0, <1>2 DEF SetupLocks, SetupUnchanged, SetupEnds
<1>3. ASSUME SetupStopsClient
      PROVE  /\ setup = "stop"
             /\ setup' = "replace"
             /\ cli' = cli \/ (cli.pc \in {"listening", "serving"} /\ cli'.pc = "leaving")
             /\ UNCHANGED <<exe, sexe, txn, latch, un, svc, helper, place, remover, served, gap, replaced>>
  BY <1>0, <1>3, Moves DEF SetupStopsClient, SetupUnchanged, answers
<1>4. ASSUME SetupReplaces
      PROVE  /\ setup = "replace"
             /\ (setup' = "none" /\ exe' = exe) \/ setup' = "clear"
             /\ UNCHANGED <<sexe, txn, latch, cli, un, svc, helper, place, remover, served, gap, replaced>>
  BY <1>0, <1>4 DEF SetupReplaces, SetupUnchanged, SetupEnds
<1>5. ASSUME SetupClears
      PROVE  /\ setup = "clear"
             /\ setup' = "service"
             /\ remover' = "none"
             /\ latch' = FALSE
             /\ place'.by = "setup"
             /\ UNCHANGED <<sexe, cli, un, svc, helper, served, gap, replaced>>
  BY <1>0, <1>5, Moves DEF SetupClears, SetupUnchanged
<1>6. ASSUME SetupStartsClient
      PROVE  /\ setup = "service"
             /\ place.by # "setup"
             /\ setup' = "none"
             /\ Starts(exe.live)
             /\ UNCHANGED <<exe, sexe, txn, latch, un, svc, helper, place, remover, served, gap, replaced>>
  <2>1. Starts(exe.live)
    BY <1>0, <1>6, Moves, WrittenForms DEF SetupStartsClient, Starts
  <2> QED
    BY <1>6, <2>1 DEF SetupStartsClient, SetupUnchanged, SetupEnds
<1> QED
  BY <1>1, <1>2, <1>3, <1>4, <1>5, <1>6

-----------------------------------------------------------------------------
(* The removal.                                                            *)

Removing == {"stop", "wait", "remove", "verify"}

\* What holds whatever happened: who runs the service's replacement, that an uninstall and Setup are
\* not there at once, that only Setup replaces, and that a new Client that answers has listened.
Standing ==
    /\ place.by = "client" => cli.pc \in {"serving", "leaving"}
    /\ place.by = "setup" => setup = "service"
    /\ place.by = "none" => place.pc = "none"
    /\ remover \in Removing \/ un # "none" => setup = "none"
    /\ setup = "service" => remover = "none"
    /\ setup # "none" => replaced
    /\ cli.pc \in {"listening", "serving"} /\ cli.ver = 2 => served

\* An uninstall under way has the latch; no Client starts to listen then.
Latched ==
    /\ remover \in Removing \/ un # "none" => latch
    /\ latch => cli.pc \notin {"boot", "listening"}

\* The Client that runs under the uninstall helper leaves at its gate; what it was started from is
\* still there, live or, between two renames of the replacement helper, set aside.
Cleared ==
    /\ remover \in Removing => cli.pc \in {"none", "started", "leaving"}
    /\ remover \in {"remove", "verify"} =>
         /\ cli.pc \in {"none", "started"} /\ svc.pc = "none"
         /\ cli.pc # "none" => exe.live # 0 \/ (helper \in {"swap", "back2"} /\ exe.old # 0)
    /\ remover = "verify" => ServiceGone

Removed ==
    remover = "done" /\ setup # "clear" =>
        AllGone /\ ServiceGone /\ cli.pc = "none" /\ svc.pc = "none"

LEMMA StandingStep ==
  ASSUME TypeInv, Standing, Next
  PROVE  Standing' /\ (gap => gap') /\ (replaced => replaced') /\ (served => served')
<1> USE DEF Standing, Removing, Starts, Walks, Leaves, FailsTo, files, client, service, others, history, budget
<1>0. TypeInv /\ Forms /\ Marks /\ Flags /\ (cli.pc # "none" => cli.ver # 0) /\ (un # "none" => cli.pc \in {"serving", "leaving"})
  BY DEF TypeInv, Forms
<1>1. CASE UserStarts \/ LoginStarts
  BY <1>0, <1>1, ClientEffects
<1>2. CASE Gate
  BY <1>0, <1>2, ClientEffects
<1>3. CASE Listen
  BY <1>0, <1>3, ClientEffects
<1>4. CASE Reconcile
  BY <1>0, <1>4, ReconcileForm
<1>5. CASE SettleService
  BY <1>0, <1>5, ClientEffects
<1>6. CASE RecordAges
  BY <1>0, <1>6, ClientEffects
<1>7. CASE ClientExits \/ ClientDies
  BY <1>0, <1>7, ClientEffects
<1>8. CASE BeginCheck \/ PlacedForService \/ WatchLooks
  BY <1>0, <1>8, CheckEffects
<1>9. CASE LockForService
  BY <1>0, <1>9, CheckEffects
<1>10. CASE CheckOwn
  BY <1>0, <1>10, CheckEffects
<1>11. CASE Drain
  BY <1>0, <1>11, CheckEffects
<1>12. CASE begin_swap
  BY <1>0, <1>12, CheckEffects
<1>13. CASE WatchLaunches
  BY <1>0, <1>13, CheckEffects
<1>14. CASE ServiceStep
  BY <1>0, <1>14, ServiceEffects
<1>15. CASE ServiceDies
  BY <1>0, <1>15, ServiceEffects
<1>16. CASE PlaceStep
  BY <1>0, <1>16, ServiceEffects
<1>17. CASE HelperLocks
  BY <1>0, <1>17, HelperEffects
<1>18. CASE HelperLooks
  BY <1>0, <1>18, HelperEffects
<1>19. CASE HelperSetsAside
  BY <1>0, <1>19, HelperEffects
<1>20. CASE HelperSwaps
  BY <1>0, <1>20, HelperEffects
<1>21. CASE HelperStarts
  BY <1>0, <1>21, HelperEffects
<1>22. CASE HelperPolls
  BY <1>0, <1>22, HelperEffects
<1>23. CASE HelperCleans
  BY <1>0, <1>23, HelperEffects
<1>24. CASE HelperEndsChild
  BY <1>0, <1>24, HelperEffects
<1>25. CASE HelperRollsBack
  BY <1>0, <1>25, HelperEffects
<1>26. CASE HelperRestores
  BY <1>0, <1>26, HelperEffects
<1>27. CASE HelperDies
  BY <1>0, <1>27, HelperEffects
<1>28. CASE UninstallAsked
  BY <1>0, <1>28, UninstallEffects
<1>29. CASE UninstallStopsService
  BY <1>0, <1>29, UninstallEffects
<1>30. CASE UninstallDiscards
  BY <1>0, <1>30, UninstallEffects
<1>31. CASE UninstallAborts
  BY <1>0, <1>31, UninstallEffects
<1>32. CASE UninstallCommits
  BY <1>0, <1>32, UninstallEffects
<1>33. CASE LauncherUninstalls
  BY <1>0, <1>33, UninstallEffects
<1>34. CASE RemoverStops
  BY <1>0, <1>34, UninstallEffects
<1>35. CASE RemoverWaits
  BY <1>0, <1>35, UninstallEffects
<1>36. CASE RemoverRemoves
  BY <1>0, <1>36, UninstallEffects
<1>37. CASE RemoverVerifies
  BY <1>0, <1>37, UninstallEffects
<1>38. CASE SetupBegins
  BY <1>0, <1>38, SetupEffects
<1>39. CASE SetupLocks
  BY <1>0, <1>39, SetupEffects
<1>40. CASE SetupStopsClient
  BY <1>0, <1>40, SetupEffects
<1>41. CASE SetupReplaces
  BY <1>0, <1>41, SetupEffects
<1>42. CASE SetupClears
  BY <1>0, <1>42, SetupEffects
<1>43. CASE SetupStartsClient
  BY <1>0, <1>43, SetupEffects
<1> QED
  BY <1>1, <1>2, <1>3, <1>4, <1>5, <1>6, <1>7, <1>8, <1>9, <1>10, <1>11, <1>12, <1>13, <1>14, <1>15, <1>16, <1>17, <1>18, <1>19, <1>20, <1>21, <1>22, <1>23, <1>24, <1>25, <1>26, <1>27, <1>28, <1>29, <1>30, <1>31, <1>32, <1>33, <1>34, <1>35, <1>36, <1>37, <1>38, <1>39, <1>40, <1>41, <1>42, <1>43 DEF Next, ClientStep, CheckStep, WatchStep, HelperStep, UninstallStep, RemoverStep, SetupStep

LEMMA ClearingStep ==
  ASSUME TypeInv, Standing, Standing', Latched, Cleared, Removed, ~gap', Next
  PROVE  (Latched /\ Cleared /\ Removed)'
<1> USE DEF Standing, Removing, Latched, Cleared, Removed, AllGone, ServiceGone, Starts, Walks, Leaves, Held, FailsTo, files, client, service, others, history, budget
<1>0. TypeInv /\ Forms /\ Marks /\ Flags /\ (un # "none" => cli.pc \in {"serving", "leaving"})
      /\ place.by \in {"none", "client", "setup"}
      /\ cli.pc \in {"none", "started", "boot", "listening", "serving", "leaving"}
  BY DEF TypeInv, Forms, PlaceAt, ClientAt
<1>1. CASE UserStarts \/ LoginStarts
  BY <1>0, <1>1, ClientEffects
<1>2. CASE Gate
  BY <1>0, <1>2, ClientEffects
<1>3. CASE Listen
  BY <1>0, <1>3, ClientEffects
<1>4. CASE Reconcile
  BY <1>0, <1>4, ReconcileForm
<1>5. CASE SettleService
  BY <1>0, <1>5, ClientEffects
<1>6. CASE RecordAges
  BY <1>0, <1>6, ClientEffects
<1>7. CASE ClientExits \/ ClientDies
  BY <1>0, <1>7, ClientEffects
<1>8. CASE BeginCheck \/ PlacedForService \/ WatchLooks
  BY <1>0, <1>8, CheckEffects
<1>9. CASE LockForService
  BY <1>0, <1>9, CheckEffects
<1>10. CASE CheckOwn
  BY <1>0, <1>10, CheckEffects
<1>11. CASE Drain
  BY <1>0, <1>11, CheckEffects
<1>12. CASE begin_swap
  BY <1>0, <1>12, CheckEffects
<1>13. CASE WatchLaunches
  BY <1>0, <1>13, CheckEffects
<1>14. CASE ServiceStep
  BY <1>0, <1>14, ServiceEffects
<1>15. CASE ServiceDies
  BY <1>0, <1>15, ServiceEffects
<1>16. CASE PlaceStep
  BY <1>0, <1>16, ServiceEffects
<1>17. CASE HelperLocks
  BY <1>0, <1>17, HelperEffects
<1>18. CASE HelperLooks
  BY <1>0, <1>18, HelperEffects
<1>19. CASE HelperSetsAside
  BY <1>0, <1>19, HelperEffects
<1>20. CASE HelperSwaps
  BY <1>0, <1>20, HelperEffects
<1>21. CASE HelperStarts
  BY <1>0, <1>21, HelperEffects
<1>22. CASE HelperPolls
  BY <1>0, <1>22, HelperEffects
<1>23. CASE HelperCleans
  BY <1>0, <1>23, HelperEffects
<1>24. CASE HelperEndsChild
  BY <1>0, <1>24, HelperEffects
<1>25. CASE HelperRollsBack
  BY <1>0, <1>25, HelperEffects
<1>26. CASE HelperRestores
  BY <1>0, <1>26, HelperEffects
<1>27. CASE HelperDies
  BY <1>0, <1>27, HelperEffects
<1>28. CASE UninstallAsked
  BY <1>0, <1>28, UninstallEffects
<1>29. CASE UninstallStopsService
  BY <1>0, <1>29, UninstallEffects
<1>30. CASE UninstallDiscards
  BY <1>0, <1>30, UninstallEffects
<1>31. CASE UninstallAborts
  BY <1>0, <1>31, UninstallEffects
<1>32. CASE UninstallCommits
  BY <1>0, <1>32, UninstallEffects
<1>33. CASE LauncherUninstalls
  BY <1>0, <1>33, UninstallEffects
<1>34. CASE RemoverStops
  BY <1>0, <1>34, UninstallEffects
<1>35. CASE RemoverWaits
  BY <1>0, <1>35, UninstallEffects
<1>36. CASE RemoverRemoves
  BY <1>0, <1>36, UninstallEffects
<1>37. CASE RemoverVerifies
  BY <1>0, <1>37, UninstallEffects
<1>38. CASE SetupBegins
  BY <1>0, <1>38, SetupEffects
<1>39. CASE SetupLocks
  BY <1>0, <1>39, SetupEffects
<1>40. CASE SetupStopsClient
  BY <1>0, <1>40, SetupEffects
<1>41. CASE SetupReplaces
  BY <1>0, <1>41, SetupEffects
<1>42. CASE SetupClears
  BY <1>0, <1>42, SetupEffects
<1>43. CASE SetupStartsClient
  BY <1>0, <1>43, SetupEffects
<1> QED
  BY <1>1, <1>2, <1>3, <1>4, <1>5, <1>6, <1>7, <1>8, <1>9, <1>10, <1>11, <1>12, <1>13, <1>14, <1>15, <1>16, <1>17, <1>18, <1>19, <1>20, <1>21, <1>22, <1>23, <1>24, <1>25, <1>26, <1>27, <1>28, <1>29, <1>30, <1>31, <1>32, <1>33, <1>34, <1>35, <1>36, <1>37, <1>38, <1>39, <1>40, <1>41, <1>42, <1>43 DEF Next, ClientStep, CheckStep, WatchStep, HelperStep, UninstallStep, RemoverStep, SetupStep

-----------------------------------------------------------------------------
(* The known-good version.                                                 *)

\* The removal has taken every file.
Gone == remover \in {"verify", "done"} /\ AllGone

\* Where the version the computer had is, at each place of the replacement helper.  Off its live
\* place with no helper at work, it is what a started Client finds recorded as a swap; the record of a
\* Client that was started from the version itself is not what it finds.
KeptVersion ==
    /\ helper = "none" => exe.live = 1 \/ (exe.old = 1 /\ (latch \/ txn \in {"swapping", "stale"}))
    /\ helper \in {"lock", "parent"} => exe.live = 1 \/ (exe.old = 1 /\ latch)
    /\ helper = "aside" => exe.live = 1
    /\ helper \in {"swap", "start", "health", "unhealthy", "back", "back2"} => exe.old = 1
    /\ helper \notin {"none", "lock", "parent"} => txn = "swapping" \/ latch
    /\ helper # "clean"
    /\ txn = "stale" => helper = "none"
    /\ ~latch /\ txn = "stale" /\ cli.pc \in {"started", "boot", "listening"} /\ cli.ver = 1 => exe.live = 1

KnownGoodInv == served \/ gap \/ replaced \/ Gone \/ KeptVersion

LEMMA GoneStep ==
  ASSUME TypeInv, Standing, Latched, Cleared, Removed, Gone, ~gap', ~replaced', Next
  PROVE  Gone'
<1> USE DEF Standing, Removing, Latched, Cleared, Removed, Gone, AllGone, ServiceGone, Starts, Walks, Leaves, Held, FailsTo, files, client, service, others, history, budget
<1>0. TypeInv /\ Forms /\ Marks /\ Flags /\ (un # "none" => cli.pc \in {"serving", "leaving"})
      /\ place.by \in {"none", "client", "setup"}
      /\ cli.pc \in {"none", "started", "boot", "listening", "serving", "leaving"}
      /\ cli.ver \in Versions /\ (cli.pc # "none" => cli.ver # 0)
      /\ helper \in {"none", "lock", "parent", "aside", "swap", "start", "health",
                     "clean", "unhealthy", "back", "back2"}
  BY DEF TypeInv, Forms, Marks, PlaceAt, ClientAt
<1>1. CASE UserStarts \/ LoginStarts
  BY <1>0, <1>1, ClientEffects
<1>2. CASE Gate
  BY <1>0, <1>2, ClientEffects
<1>3. CASE Listen
  BY <1>0, <1>3, ClientEffects
<1>4. CASE Reconcile
  BY <1>0, <1>4, ReconcileForm
<1>5. CASE SettleService
  BY <1>0, <1>5, ClientEffects
<1>6. CASE RecordAges
  BY <1>0, <1>6, ClientEffects
<1>7. CASE ClientExits \/ ClientDies
  BY <1>0, <1>7, ClientEffects
<1>8. CASE BeginCheck \/ PlacedForService \/ WatchLooks
  BY <1>0, <1>8, CheckEffects
<1>9. CASE LockForService
  BY <1>0, <1>9, CheckEffects
<1>10. CASE CheckOwn
  BY <1>0, <1>10, CheckEffects
<1>11. CASE Drain
  BY <1>0, <1>11, CheckEffects
<1>12. CASE begin_swap
  BY <1>0, <1>12, CheckEffects
<1>13. CASE WatchLaunches
  BY <1>0, <1>13, CheckEffects
<1>14. CASE ServiceStep
  BY <1>0, <1>14, ServiceEffects
<1>15. CASE ServiceDies
  BY <1>0, <1>15, ServiceEffects
<1>16. CASE PlaceStep
  BY <1>0, <1>16, ServiceEffects
<1>17. CASE HelperLocks
  BY <1>0, <1>17, HelperEffects
<1>18. CASE HelperLooks
  BY <1>0, <1>18, HelperEffects
<1>19. CASE HelperSetsAside
  BY <1>0, <1>19, HelperEffects
<1>20. CASE HelperSwaps
  BY <1>0, <1>20, HelperEffects
<1>21. CASE HelperStarts
  BY <1>0, <1>21, HelperEffects
<1>22. CASE HelperPolls
  BY <1>0, <1>22, HelperEffects
<1>23. CASE HelperCleans
  BY <1>0, <1>23, HelperEffects
<1>24. CASE HelperEndsChild
  BY <1>0, <1>24, HelperEffects
<1>25. CASE HelperRollsBack
  BY <1>0, <1>25, HelperEffects
<1>26. CASE HelperRestores
  BY <1>0, <1>26, HelperEffects
<1>27. CASE HelperDies
  BY <1>0, <1>27, HelperEffects
<1>28. CASE UninstallAsked
  BY <1>0, <1>28, UninstallEffects
<1>29. CASE UninstallStopsService
  BY <1>0, <1>29, UninstallEffects
<1>30. CASE UninstallDiscards
  BY <1>0, <1>30, UninstallEffects
<1>31. CASE UninstallAborts
  BY <1>0, <1>31, UninstallEffects
<1>32. CASE UninstallCommits
  BY <1>0, <1>32, UninstallEffects
<1>33. CASE LauncherUninstalls
  BY <1>0, <1>33, UninstallEffects
<1>34. CASE RemoverStops
  BY <1>0, <1>34, UninstallEffects
<1>35. CASE RemoverWaits
  BY <1>0, <1>35, UninstallEffects
<1>36. CASE RemoverRemoves
  BY <1>0, <1>36, UninstallEffects
<1>37. CASE RemoverVerifies
  BY <1>0, <1>37, UninstallEffects
<1>38. CASE SetupBegins
  BY <1>0, <1>38, SetupEffects
<1>39. CASE SetupLocks
  BY <1>0, <1>39, SetupEffects
<1>40. CASE SetupStopsClient
  BY <1>0, <1>40, SetupEffects
<1>41. CASE SetupReplaces
  BY <1>0, <1>41, SetupEffects
<1>42. CASE SetupClears
  BY <1>0, <1>42, SetupEffects
<1>43. CASE SetupStartsClient
  BY <1>0, <1>43, SetupEffects
<1> QED
  BY <1>1, <1>2, <1>3, <1>4, <1>5, <1>6, <1>7, <1>8, <1>9, <1>10, <1>11, <1>12, <1>13, <1>14, <1>15, <1>16, <1>17, <1>18, <1>19, <1>20, <1>21, <1>22, <1>23, <1>24, <1>25, <1>26, <1>27, <1>28, <1>29, <1>30, <1>31, <1>32, <1>33, <1>34, <1>35, <1>36, <1>37, <1>38, <1>39, <1>40, <1>41, <1>42, <1>43 DEF Next, ClientStep, CheckStep, WatchStep, HelperStep, UninstallStep, RemoverStep, SetupStep

LEMMA KeptStep ==
  ASSUME TypeInv, Standing, Standing', Latched, Cleared, KeptVersion, ~served, ~served', ~gap', ~replaced', ~Gone', Next
  PROVE  KeptVersion'
<1> USE DEF Standing, Removing, Latched, Cleared, KeptVersion, Versions, Gone, AllGone, ServiceGone, Starts, Walks, Leaves, Held, FailsTo, files, client, service, others, history, budget
<1>0. TypeInv /\ Forms /\ Marks /\ Flags /\ (un # "none" => cli.pc \in {"serving", "leaving"})
      /\ place.by \in {"none", "client", "setup"}
      /\ cli.pc \in {"none", "started", "boot", "listening", "serving", "leaving"}
      /\ cli.ver \in Versions /\ (cli.pc # "none" => cli.ver # 0)
      /\ helper \in {"none", "lock", "parent", "aside", "swap", "start", "health",
                     "clean", "unhealthy", "back", "back2"}
  BY DEF TypeInv, Forms, Marks, PlaceAt, ClientAt
<1>1. CASE UserStarts \/ LoginStarts
  BY <1>0, <1>1, ClientEffects
<1>2. CASE Gate
  BY <1>0, <1>2, ClientEffects
<1>3. CASE Listen
  BY <1>0, <1>3, ClientEffects
<1>4. CASE Reconcile
  BY <1>0, <1>4, ReconcileForm
<1>5. CASE SettleService
  BY <1>0, <1>5, ClientEffects
<1>6. CASE RecordAges
  BY <1>0, <1>6, ClientEffects
<1>7. CASE ClientExits \/ ClientDies
  BY <1>0, <1>7, ClientEffects
<1>8. CASE BeginCheck \/ PlacedForService \/ WatchLooks
  BY <1>0, <1>8, CheckEffects
<1>9. CASE LockForService
  BY <1>0, <1>9, CheckEffects
<1>10. CASE CheckOwn
  BY <1>0, <1>10, CheckEffects
<1>11. CASE Drain
  BY <1>0, <1>11, CheckEffects
<1>12. CASE begin_swap
  BY <1>0, <1>12, CheckEffects
<1>13. CASE WatchLaunches
  BY <1>0, <1>13, CheckEffects
<1>14. CASE ServiceStep
  BY <1>0, <1>14, ServiceEffects
<1>15. CASE ServiceDies
  BY <1>0, <1>15, ServiceEffects
<1>16. CASE PlaceStep
  BY <1>0, <1>16, ServiceEffects
<1>17. CASE HelperLocks
  BY <1>0, <1>17, HelperEffects
<1>18. CASE HelperLooks
  BY <1>0, <1>18, HelperEffects
<1>19. CASE HelperSetsAside
  BY <1>0, <1>19, HelperEffects
<1>20. CASE HelperSwaps
  BY <1>0, <1>20, HelperEffects
<1>21. CASE HelperStarts
  BY <1>0, <1>21, HelperEffects
<1>22. CASE HelperPolls
  BY <1>0, <1>22, HelperEffects
<1>23. CASE HelperCleans
  BY <1>0, <1>23, HelperEffects
<1>24. CASE HelperEndsChild
  BY <1>0, <1>24, HelperEffects
<1>25. CASE HelperRollsBack
  BY <1>0, <1>25, HelperEffects
<1>26. CASE HelperRestores
  BY <1>0, <1>26, HelperEffects
<1>27. CASE HelperDies
  BY <1>0, <1>27, HelperEffects
<1>28. CASE UninstallAsked
  BY <1>0, <1>28, UninstallEffects
<1>29. CASE UninstallStopsService
  BY <1>0, <1>29, UninstallEffects
<1>30. CASE UninstallDiscards
  BY <1>0, <1>30, UninstallEffects
<1>31. CASE UninstallAborts
  BY <1>0, <1>31, UninstallEffects
<1>32. CASE UninstallCommits
  BY <1>0, <1>32, UninstallEffects
<1>33. CASE LauncherUninstalls
  BY <1>0, <1>33, UninstallEffects
<1>34. CASE RemoverStops
  BY <1>0, <1>34, UninstallEffects
<1>35. CASE RemoverWaits
  BY <1>0, <1>35, UninstallEffects
<1>36. CASE RemoverRemoves
  BY <1>0, <1>36, UninstallEffects
<1>37. CASE RemoverVerifies
  BY <1>0, <1>37, UninstallEffects
<1>38. CASE SetupBegins
  BY <1>0, <1>38, SetupEffects
<1>39. CASE SetupLocks
  BY <1>0, <1>39, SetupEffects
<1>40. CASE SetupStopsClient
  BY <1>0, <1>40, SetupEffects
<1>41. CASE SetupReplaces
  BY <1>0, <1>41, SetupEffects
<1>42. CASE SetupClears
  BY <1>0, <1>42, SetupEffects
<1>43. CASE SetupStartsClient
  BY <1>0, <1>43, SetupEffects
<1> QED
  BY <1>1, <1>2, <1>3, <1>4, <1>5, <1>6, <1>7, <1>8, <1>9, <1>10, <1>11, <1>12, <1>13, <1>14, <1>15, <1>16, <1>17, <1>18, <1>19, <1>20, <1>21, <1>22, <1>23, <1>24, <1>25, <1>26, <1>27, <1>28, <1>29, <1>30, <1>31, <1>32, <1>33, <1>34, <1>35, <1>36, <1>37, <1>38, <1>39, <1>40, <1>41, <1>42, <1>43 DEF Next, ClientStep, CheckStep, WatchStep, HelperStep, UninstallStep, RemoverStep, SetupStep

-----------------------------------------------------------------------------
(* The inductive invariant, and what follows from it.                      *)

RemovalInv == Standing /\ (gap \/ (Latched /\ Cleared /\ Removed))

ResidencyInv == TypeInv /\ RemovalInv /\ KnownGoodInv

LEMMA InitOK == Init => ResidencyInv
<1> SUFFICES ASSUME Init PROVE ResidencyInv
  OBVIOUS
<1>1. TypeInv
  <2>1. Forms
    BY DEF Init, Forms, ClientFiles, ServiceFiles, ClientAt, ServiceAt, PlaceAt, NoClient, NoPlace, Versions
  <2>2. Marks
    BY DEF Init, Marks
  <2>3. Flags
    BY DEF Init, Flags
  <2> QED
    BY <2>1, <2>2, <2>3 DEF TypeInv
<1>2. cli.pc = "none" /\ place.by = "none" /\ place.pc = "none"
  BY DEF Init, NoClient, NoPlace
<1>3. RemovalInv
  BY <1>2 DEF Init, RemovalInv, Standing, Removing, Latched, Cleared, Removed
<1>4. KeptVersion
  BY <1>2 DEF Init, KeptVersion
<1> QED
  BY <1>1, <1>3, <1>4 DEF ResidencyInv, KnownGoodInv

LEMMA TypeStep == ASSUME TypeInv, Next PROVE TypeInv'
<1>1. CASE UserStarts \/ LoginStarts \/ Gate \/ Listen \/ Reconcile \/ SettleService \/ RecordAges \/ ClientExits
  BY <1>1, TypeClient
<1>2. CASE BeginCheck \/ LockForService \/ PlacedForService \/ CheckOwn \/ Drain \/ begin_swap \/ WatchLooks \/ WatchLaunches
  BY <1>2, TypeCheck
<1>3. CASE ServiceStep
  BY <1>3, TypeService DEF ServiceStep
<1>4. CASE PlaceStep
  BY <1>4, TypePlace DEF PlaceStep
<1>5. CASE HelperStep
  BY <1>5, TypeHelper DEF HelperStep
<1>6. CASE UninstallStep \/ UninstallAsked \/ UninstallAborts \/ LauncherUninstalls \/ RemoverStep
  BY <1>6, TypeUninstall DEF UninstallStep, RemoverStep
<1>7. CASE SetupStep \/ SetupBegins
  BY <1>7, TypeSetup DEF SetupStep
<1>8. CASE ClientDies \/ ServiceDies \/ HelperDies
  BY <1>8, TypeDeaths
<1> QED
  BY <1>1, <1>2, <1>3, <1>4, <1>5, <1>6, <1>7, <1>8 DEF Next, ClientStep, CheckStep, WatchStep

LEMMA StepOK == ResidencyInv /\ [Next]_vars => ResidencyInv'
<1> SUFFICES ASSUME ResidencyInv, [Next]_vars PROVE ResidencyInv'
  OBVIOUS
<1>1. CASE Next
  <2>1. TypeInv /\ TypeInv' /\ Standing
    BY <1>1, TypeStep DEF ResidencyInv, RemovalInv
  <2>2. Standing' /\ (gap => gap') /\ (replaced => replaced') /\ (served => served')
    BY <1>1, <2>1, StandingStep
  <2>3. ASSUME ~gap' PROVE (Latched /\ Cleared /\ Removed) /\ (Latched /\ Cleared /\ Removed)'
    <3>1. Latched /\ Cleared /\ Removed
      BY <2>2, <2>3 DEF ResidencyInv, RemovalInv
    <3> QED
      BY <1>1, <2>1, <2>2, <2>3, <3>1, ClearingStep
  <2>4. RemovalInv'
    BY <2>2, <2>3 DEF RemovalInv
  <2>5. ASSUME ~gap', ~replaced', ~served', ~Gone' PROVE KeptVersion'
    <3>1. ~Gone
      BY <1>1, <2>1, <2>3, <2>5, GoneStep
    <3>2. ~gap /\ ~replaced /\ ~served
      BY <2>2, <2>5
    <3>3. KeptVersion
      BY <3>1, <3>2 DEF ResidencyInv, KnownGoodInv
    <3> QED
      BY <1>1, <2>1, <2>2, <2>3, <2>5, <3>2, <3>3, KeptStep
  <2> QED
    BY <2>1, <2>4, <2>5 DEF ResidencyInv, KnownGoodInv
<1>2. CASE UNCHANGED vars
  <2>1. UNCHANGED <<exe, sexe, txn, latch, lock, cli, ready, swap, check, un, watch, svc, hold, stopEvt, intentEvt>>
        /\ UNCHANGED <<helper, child, place, remover, setup, served, gap, upsets, uninstalled, replaced>>
    BY <1>2 DEF vars, files, client, service, others, history, budget
  <2>2. TypeInv'
    BY <2>1 DEF ResidencyInv, TypeInv, Forms, Marks, Flags
  <2>3. RemovalInv'
    BY <2>1 DEF ResidencyInv, RemovalInv, Standing, Latched, Cleared, Removed, AllGone, ServiceGone
  <2>4. KnownGoodInv'
    BY <2>1 DEF ResidencyInv, KnownGoodInv, KeptVersion, Gone, AllGone
  <2> QED
    BY <2>2, <2>3, <2>4 DEF ResidencyInv
<1> QED
  BY <1>1, <1>2

LEMMA Always == Spec => []ResidencyInv
BY InitOK, StepOK, PTL DEF Spec

\* Every variable keeps its type, whatever is restored, replaced or removed meanwhile.
THEOREM TypeCorrect == Spec => []TypeOK
<1>1. ResidencyInv => TypeOK
  BY DEF ResidencyInv, TypeInv, Forms, Marks, Flags, TypeOK
<1> QED
  BY <1>1, Always, PTL

\* self_update.hpp run_finish_self_update: until the new version has listened once, the version the
\* computer had is live or set aside, whatever rename fails and whatever dies, any number of times.
THEOREM KnownGoodStays == Spec => []KnownGoodUntilServed
<1>1. ResidencyInv => KnownGoodUntilServed
  <2> SUFFICES ASSUME ResidencyInv, ~served, ~gap, ~replaced, remover \notin {"verify", "done"}
               PROVE  1 \in {exe.live, exe.old}
    BY DEF KnownGoodUntilServed
  <2>1. KeptVersion
    BY DEF ResidencyInv, KnownGoodInv, Gone
  <2>2. helper \in {"none", "lock", "parent", "aside", "swap", "start", "health",
                   "clean", "unhealthy", "back", "back2"}
    BY DEF ResidencyInv, TypeInv, Marks
  <2> QED
    BY <2>1, <2>2 DEF KeptVersion
<1> QED
  BY <1>1, Always, PTL

\* service_watch.hpp, service/main.cpp and the replacement helper: what an uninstall reported as
\* removed none of them brings back, however many of them run meanwhile.
THEOREM RemovedStaysRemoved == Spec => []RemovedIsFinal
<1>1. ResidencyInv => RemovedIsFinal
  BY DEF ResidencyInv, RemovalInv, Removed, AllGone, ServiceGone, RemovedIsFinal, removed
<1> QED
  BY <1>1, Always, PTL

=============================================================================
