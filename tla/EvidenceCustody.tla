--------------------------- MODULE EvidenceCustody ---------------------------
(***************************************************************************)
(* What the evidence hand-over promises, with no queue, no file system and *)
(* no retry: every finished session is one package, somebody always has    *)
(* custody of it, and custody only moves forward                           *)
(*                                                                         *)
(*     the wrapper  ->  the Client  ->  the service                        *)
(*                                                                         *)
(* The service receives a file only while the Client has the package, and  *)
(* it takes custody only when it holds every file the package lists.       *)
(* EvidenceDelivery is shown to implement this module.                     *)
(***************************************************************************)
CONSTANTS
  Packages,   \* the finished sessions' packages
  Files       \* the file names a package may list

VARIABLES
  custody,    \* custody[p]: who answers for package p
  manifest,   \* manifest[p]: the files the handed-off package lists
  held        \* held[p]: the files of p the service holds

vars == <<custody, manifest, held>>

Custodians == {"wrapper", "client", "service"}

TypeOK ==
  /\ custody \in [Packages -> Custodians]
  /\ manifest \in [Packages -> SUBSET Files]
  /\ held \in [Packages -> SUBSET Files]

Init ==
  /\ custody = [p \in Packages |-> "wrapper"]
  /\ manifest = [p \in Packages |-> {}]
  /\ held = [p \in Packages |-> {}]

\* The one rename that hands the staged package over.
HandOver(p) ==
  /\ custody[p] = "wrapper"
  /\ custody' = [custody EXCEPT ![p] = "client"]
  /\ \E listed \in SUBSET Files : manifest' = [manifest EXCEPT ![p] = listed]
  /\ UNCHANGED held

\* The service stores one listed file; whether its answer arrives is not
\* this module's business.
Receive(p) ==
  /\ custody[p] = "client"
  /\ \E f \in manifest[p] : held' = [held EXCEPT ![p] = @ \cup {f}]
  /\ UNCHANGED <<custody, manifest>>

\* The receipt: only for a package the service holds whole.
Settle(p) ==
  /\ custody[p] = "client"
  /\ manifest[p] \subseteq held[p]
  /\ custody' = [custody EXCEPT ![p] = "service"]
  /\ UNCHANGED <<manifest, held>>

Next == \E p \in Packages : HandOver(p) \/ Receive(p) \/ Settle(p)

Spec == Init /\ [][Next]_vars
=============================================================================
