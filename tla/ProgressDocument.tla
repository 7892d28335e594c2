--------------------------- MODULE ProgressDocument ---------------------------
(***************************************************************************)
(* The progress document of one assignment, progress\<id>.json: what the   *)
(* service said last of the sessions it received.  Several threads of the  *)
(* Client write it, each from an answer of its own: the evidence thread,   *)
(* the read before a launch, the relay of the Admin's workspace read.      *)
(* store_progress() (virule_core evaluation_evidence.hpp) is each one's    *)
(* only write: it reads the document, compares, and writes, under no lock. *)
(*                                                                         *)
(* A step is what the other threads can see: the service's answer, the     *)
(* read of the document with its comparison, the atomic write.             *)
(***************************************************************************)
EXTENDS Naturals, FiniteSets

CONSTANTS
  Sessions,    \* the assignment's sessions, of this computer or another
  Writers,     \* the threads that write the document
  Garbled,     \* an answer whose progress states no number of sessions
  NoDocument,  \* nothing was ever received here
  MaxFaults    \* bound on garbled answers and failed writes

\* What the service states: the sessions it received whole and the ones it is
\* receiving.
Progress == [received : SUBSET Sessions, receiving : SUBSET Sessions]

ASSUME GarbledAssumption == Garbled \notin Progress
ASSUME NoDocumentAssumption == NoDocument \notin Progress \cup {Garbled}
ASSUME FiniteAssumption == IsFiniteSet(Sessions)
ASSUME FaultsAssumption == MaxFaults \in Nat

VARIABLES
  service,   \* the service's own state
  doc,       \* the document
  at,        \* at[w]: where thread w is: idle, asked, answered, write
  answer,    \* answer[w]: the answer it holds
  faults

vars == <<service, doc, at, answer, faults>>

TypeOK ==
  /\ service \in Progress /\ service.received \cap service.receiving = {}
  /\ doc \in Progress \cup {NoDocument}
  /\ at \in [Writers -> {"idle", "asked", "answered", "write"}]
  /\ answer \in [Writers -> Progress \cup {Garbled, NoDocument}]
  /\ \A w \in Writers : at[w] = "write" => answer[w] \in Progress
  /\ faults \in 0 .. MaxFaults

Init ==
  /\ service = [received |-> {}, receiving |-> {}]
  /\ doc = NoDocument
  /\ at = [w \in Writers |-> "idle"]
  /\ answer = [w \in Writers |-> NoDocument]
  /\ faults = 0

Fault == faults < MaxFaults /\ faults' = faults + 1

-----------------------------------------------------------------------------
(* The service only ever adds sessions.                                    *)

Register(s) ==
  /\ s \notin service.received \cup service.receiving
  /\ service' = [service EXCEPT !.receiving = @ \cup {s}]
  /\ UNCHANGED <<doc, at, answer, faults>>

Complete(s) ==
  /\ s \in service.receiving
  /\ service' = [received |-> service.received \cup {s},
                 receiving |-> service.receiving \ {s}]
  /\ UNCHANGED <<doc, at, answer, faults>>

-----------------------------------------------------------------------------
(* One thread.                                                             *)

Goes(w, step) == at' = [at EXCEPT ![w] = step]

Ask(w) ==
  /\ at[w] = "idle" /\ Goes(w, "asked")
  /\ UNCHANGED <<service, doc, answer, faults>>

\* The call failed or carried no progress.
NoAnswer(w) ==
  /\ at[w] = "asked" /\ Fault /\ Goes(w, "idle")
  /\ UNCHANGED <<service, doc, answer>>

Answer(w) ==
  /\ at[w] = "asked" /\ Goes(w, "answered")
  /\ \/ answer' = [answer EXCEPT ![w] = service] /\ UNCHANGED faults
     \/ answer' = [answer EXCEPT ![w] = Garbled] /\ Fault
  /\ UNCHANGED <<service, doc>>

\* A faulty NotOlder: an equal number is older.
NewerOnly(next, prev) ==
  /\ next # Garbled
  /\ prev # NoDocument => Cardinality(next.received) > Cardinality(prev.received)

\* progress_is_not_older(): by the number of sessions alone.
NotOlder(next, prev) ==
  /\ next # Garbled
  /\ prev # NoDocument => Cardinality(next.received) >= Cardinality(prev.received)

\* The document is read, and compared.
Compare(w) ==
  /\ at[w] = "answered"
  /\ Goes(w, IF NotOlder(answer[w], doc) THEN "write" ELSE "idle")
  /\ UNCHANGED <<service, doc, answer, faults>>

Write(w) ==
  /\ at[w] = "write" /\ Goes(w, "idle")
  /\ \/ doc' = answer[w] /\ UNCHANGED faults
     \/ Fault /\ UNCHANGED doc
  /\ UNCHANGED <<service, answer>>

GoesOn(w) == NoAnswer(w) \/ Answer(w) \/ Compare(w) \/ Write(w)

Next ==
  \/ \E s \in Sessions : Register(s) \/ Complete(s)
  \/ \E w \in Writers : Ask(w) \/ GoesOn(w)

Spec == Init /\ [][Next]_vars

\* Nobody has to ask; a thread that asked goes on.
FairSpec == Spec /\ \A w \in Writers : WF_vars(GoesOn(w))

-----------------------------------------------------------------------------
(* Properties.                                                             *)

\* Whatever crossed on the way, the document ends as the service's last word,
\* the sessions being received included, as long as some thread keeps asking
\* (store_progress).
EventuallyCurrent ==
  \A p \in Progress :
    <>[](service = p) /\ (\E w \in Writers : []<>(at[w] = "asked")) => <>[](doc = p)
=============================================================================
