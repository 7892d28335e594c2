----------------------- MODULE EvidenceDelivery_proofs -----------------------
(***************************************************************************)
(* Proofs about EvidenceDelivery, for any packages, accounts, captures,    *)
(* ladder and number of faults.                                            *)
(***************************************************************************)
EXTENDS EvidenceDelivery, TLAPS

\* What is assumed of the constants, everywhere below.
USE EvaluatorAssumption, NoAccountAssumption, HeadAssumption,
    LadderAssumption, FaultsAssumption, NoPackageAssumption

\* The State of a package that has no delivery file is well formed (load_state).
LEMMA FreshIsState == FreshState \in State
BY DEF FreshState, State, Reasons

\* One more failure stays on the ladder (kBackoffLadder).
LEMMA LadderBound ==
  ASSUME NEW n \in 0 .. LadderSteps
  PROVE  NextFailure(n) \in 0 .. LadderSteps
BY DEF NextFailure

\* A fault is taken from the budget.
LEMMA FaultBound ==
  ASSUME faults \in 0 .. MaxFaults, Fault
  PROVE  faults' \in 0 .. MaxFaults
BY FaultsAssumption DEF Fault

\* A handoff in progress is the handoff of some package (handoff).
LEMMA HandedPackage ==
  ASSUME TypeOK, hand.step \in {"outbox", "stage", "signal"}
  PROVE  /\ hand.pkg \in Packages
         /\ hand \in [step : {"outbox", "stage", "signal"}, pkg : Packages]
BY DEF TypeOK, Idle

\* Before the Client and the wrapper first run, every variable has its form.
LEMMA TypeInit == Init => TypeOK
<1> SUFFICES ASSUME Init PROVE TypeOK
  OBVIOUS
<1>1. faults \in 0 .. MaxFaults
  BY FaultsAssumption DEF Init
<1>2. /\ hand \in {Idle} \cup [step : {"outbox", "stage", "signal"}, pkg : Packages]
      /\ delivery \in [Packages -> State] /\ st \in State
  BY FreshIsState DEF Init
<1> QED
  BY <1>1, <1>2 DEF Init, TypeOK, Phases, Working

\* Every step of the wrapper, the thread, the account and the environment
\* leaves every document and every variable well formed.
LEMMA TypeStep ==
  ASSUME TypeOK, [Next]_vars
  PROVE  TypeOK'
<1> USE FreshIsState DEF TypeOK, Phases, Working
<1>1. ASSUME NEW p \in Packages, CheckReceipt(p) PROVE TypeOK'
  BY <1>1 DEF CheckReceipt, disk, frames, settled, session, thread, signals, attempt
<1>2. CASE CheckOutbox
  <2>1. hand.pkg \in Packages
    BY <1>2, HandedPackage DEF CheckOutbox
  <2>2. hand' \in {Idle} \cup [step : {"outbox", "stage", "signal"}, pkg : Packages]
    BY <1>2, <2>1 DEF CheckOutbox, Idle
  <2>3. staging' \subseteq Packages /\ older' \subseteq Packages \X Packages
    BY <1>2, <2>1 DEF CheckOutbox, disk, frames
  <2> QED
    BY <1>2, <2>2, <2>3 DEF CheckOutbox, disk, frames, settled, session, thread, signals, attempt
<1>3. CASE StageFrame
  <2>1. hand.pkg \in Packages
    BY <1>3, HandedPackage DEF StageFrame
  <2>2. source' \in [Packages -> SUBSET Captures] /\ incoming' \in [Packages -> SUBSET Captures]
    BY <1>3, <2>1 DEF StageFrame
  <2> QED
    BY <1>3, <2>2 DEF StageFrame, disk, frames, settled, session, thread, signals, attempt
<1>4. CASE Publish
  <2>1. hand.pkg \in Packages
    BY <1>4, HandedPackage DEF Publish
  <2>2. hand' \in [step : {"outbox", "stage", "signal"}, pkg : Packages]
    BY <1>4, HandedPackage DEF Publish
  <2>3. faults' \in 0 .. MaxFaults
    BY <1>4, FaultBound DEF Publish
  <2>4. /\ listed' \in [Packages -> SUBSET Captures]
        /\ incoming' \in [Packages -> SUBSET Captures]
        /\ broken' \in [Packages -> SUBSET Files]
        /\ staging' \subseteq Packages /\ outbox' \subseteq Packages
    BY <1>4, <2>1 DEF Publish
  <2> QED
    BY <1>4, <2>2, <2>3, <2>4 DEF Publish, settled, session, thread, signals, attempt
<1>5. CASE SignalWake
  BY <1>5 DEF SignalWake, Idle, disk, frames, settled, session, attempt
<1>6. CASE WrapperDies
  BY <1>6 DEF WrapperDies, Fault, Idle, disk, frames, settled, session, thread, signals, attempt
<1>7. CASE Start \/ BeginPass \/ WakeUp \/ Timeout
  BY <1>7 DEF Start, BeginPass, WakeUp, Timeout, disk, frames, settled, session, signals, attempt
<1>8. CASE Crash
  <2>1. faults' \in 0 .. MaxFaults
    BY <1>8, FaultBound DEF Crash
  <2> QED
    BY <1>8, <2>1 DEF Crash, disk, frames, settled
<1>9. ASSUME NEW p \in Packages,
             FoundReceipt(p) \/ NotDue(p)
      PROVE  TypeOK'
  BY <1>9 DEF FoundReceipt, NotDue, Turn, disk, frames, settled, session, signals, attempt
<1>10. ASSUME NEW p \in Packages, KeepDamaged(p) PROVE TypeOK'
  <2>1. delivery[p].failures \in 0 .. LadderSteps
    BY DEF State
  <2>2. NextFailure(delivery[p].failures) \in 0 .. LadderSteps
    BY <2>1, LadderBound
  <2>3. delivery' \in [Packages -> State]
    BY <1>10, <2>2 DEF KeepDamaged, State, Reasons
  <2> QED
    BY <1>10, <2>3 DEF KeepDamaged, LooksAt, Turn, frames, settled, session, signals, attempt
<1>11. ASSUME NEW p \in Packages, WaitForAccount(p) PROVE TypeOK'
  <2>1. delivery' \in [Packages -> State]
    BY <1>11 DEF WaitForAccount, State, Reasons
  <2> QED
    BY <1>11, <2>1 DEF WaitForAccount, LooksAt, Turn, frames, settled, session, signals, attempt
<1>12. ASSUME NEW p \in Packages, StartAttempt(p) PROVE TypeOK'
  <2>1. delivery' \in [Packages -> State] /\ st' \in State /\ before' \subseteq Files
    BY <1>12 DEF StartAttempt, State, Reasons
  <2>2. faults' \in 0 .. MaxFaults
    BY <1>12, FaultBound DEF StartAttempt
  <2> QED
    BY <1>12, <2>1, <2>2 DEF StartAttempt, LooksAt, Turn, frames, settled, session, signals
<1>13. ASSUME NEW s \in State, Save(s), cur \in Packages, held' \in [Packages -> SUBSET Files],
              faults' \in 0 .. MaxFaults
       PROVE  TypeOK'
  BY <1>13 DEF Save, EndOfTurn, frames, settled, session, signals
<1>14. ASSUME NEW why \in Reasons
       PROVE  [st EXCEPT !.state = "waiting", !.reason = why, !.due = FALSE,
                         !.failures = IF st.acked # before THEN 1
                                      ELSE NextFailure(@)] \in State
  <2>1. st.failures \in 0 .. LadderSteps /\ 1 \in 0 .. LadderSteps
    BY LadderAssumption DEF State
  <2>2. NextFailure(st.failures) \in 0 .. LadderSteps
    BY <2>1, LadderBound
  <2> QED
    BY <2>1, <2>2 DEF State
<1>15. CASE Unavailable
  <2>1. cur \in Packages
    BY <1>15 DEF Unavailable
  <2>2. [st EXCEPT !.state = "waiting", !.reason = "signed_out", !.due = TRUE] \in State
    BY DEF State, Reasons
  <2> QED
    BY <1>13, <1>15, <2>1, <2>2 DEF Unavailable
<1>16. ASSUME NEW why \in Reasons, phase \in {"offer", "receipt"}, AttemptFails(why),
              held' \in [Packages -> SUBSET Files], faults' \in 0 .. MaxFaults
       PROVE  TypeOK'
  <2>1. cur \in Packages
    BY <1>16
  <2> QED
    BY <1>13, <1>14, <1>16, <2>1 DEF AttemptFails
<1>17. ASSUME NEW f \in Files, Acknowledged(f) PROVE TypeOK'
  <2>1. cur \in Packages
    BY <1>17 DEF Acknowledged, Offer
  <2>2. held' \in [Packages -> SUBSET Files]
    BY <1>17, <2>1 DEF Acknowledged
  <2>3. st' \in State
    BY <1>17, <2>1, <2>2 DEF Acknowledged, State
  <2>4. delivery' \in [Packages -> State]
    BY <1>17, <2>1, <2>3 DEF Acknowledged
  <2>5. faults' \in 0 .. MaxFaults
    BY <1>17, FaultBound DEF Acknowledged
  <2>6. phase' \in {"offer", "receipt"}
    BY <1>17 DEF Acknowledged, Offer
  <2> QED
    BY <1>17, <2>1, <2>2, <2>3, <2>4, <2>5, <2>6
    DEF Acknowledged, frames, settled, session, signals
<1>18. ASSUME NEW f \in Files, Unanswered(f) PROVE TypeOK'
  <2>1. phase \in {"offer", "receipt"} /\ cur \in Packages
    BY <1>18 DEF Unanswered, Offer
  <2>2. held' \in [Packages -> SUBSET Files]
    <3>1. [held EXCEPT ![cur] = @ \cup {f}] \in [Packages -> SUBSET Files]
      BY <2>1
    <3>2. held' = held \/ held' = [held EXCEPT ![cur] = @ \cup {f}]
      BY <1>18 DEF Unanswered
    <3> QED
      BY <3>1, <3>2
  <2>3. faults' \in 0 .. MaxFaults
    BY <1>18, FaultBound DEF Unanswered
  <2> QED
    BY <1>16, <1>18, <2>1, <2>2, <2>3 DEF Unanswered, Reasons
<1>19. ASSUME NEW f \in Files, NotAuthorized(f) \/ Unreadable(f) PROVE TypeOK'
  BY <1>16, <1>19 DEF NotAuthorized, Unreadable, Offer, Reasons
<1>20. CASE PartialAnswer
  BY <1>16, <1>20 DEF PartialAnswer, Reasons
<1>21. CASE WriteReceipt
  BY <1>21 DEF WriteReceipt, Listed, Files, frames, session, signals, attempt
<1>22. CASE ReceiptNotWritten
  BY <1>16, <1>22, FaultBound DEF ReceiptNotWritten, Reasons
<1>23. CASE RemovePayload
  <2>1. faults' \in 0 .. MaxFaults
    BY <1>23, FaultBound DEF RemovePayload
  <2>2. broken' \in [Packages -> SUBSET Files] /\ outbox' \subseteq Packages
    BY <1>23 DEF RemovePayload, Listed, Files
  <2> QED
    BY <1>23, <2>1, <2>2 DEF RemovePayload, frames, settled, session, signals, attempt
<1>24. CASE Forget
  BY <1>24 DEF Forget, EndOfTurn, frames, settled, session, signals
<1>25. CASE EndPass
  BY <1>25 DEF EndPass, frames, settled, session, attempt
<1>26. CASE ChangeAccount \/ NotifyDelivery
  BY <1>26 DEF ChangeAccount, NotifyDelivery, disk, frames, settled, thread, signals, attempt
<1>27. ASSUME NEW p \in Packages, Elapse(p) PROVE TypeOK'
  <2>1. delivery' \in [Packages -> State]
    BY <1>27 DEF Elapse, State
  <2> QED
    BY <1>27, <2>1 DEF Elapse, frames, settled, session, thread, signals, attempt
<1>28. ASSUME NEW p \in Packages, Break(p) \/ Heal(p) PROVE TypeOK'
  <2>1. faults' \in 0 .. MaxFaults
    BY <1>28, FaultBound DEF Break, Heal
  <2>2. broken' \in [Packages -> SUBSET Files]
    BY <1>28 DEF Break, Heal, Listed, Files
  <2> QED
    BY <1>28, <2>1, <2>2 DEF Break, Heal, frames, settled, session, thread, signals, attempt
<1>29. CASE UNCHANGED vars
  BY <1>29 DEF vars, disk, frames, settled, session, thread, signals, attempt
<1> QED
  BY <1>1, <1>2, <1>3, <1>4, <1>5, <1>6, <1>7, <1>8, <1>9, <1>10, <1>11, <1>12,
     <1>15, <1>17, <1>18, <1>19, <1>20, <1>21, <1>22, <1>23, <1>24, <1>25, <1>26,
     <1>27, <1>28, <1>29
  DEF Next, Wrapper, Thread, Pass, Environment

\* TypeOK: every document and every variable of the thread keeps its form
\* (the State parse_state() reads is one that state_json() wrote).
THEOREM TypeCorrect == Spec => []TypeOK
BY TypeInit, TypeStep, PTL DEF Spec

-----------------------------------------------------------------------------
(* The inductive invariant.  Each lemma is one conjunct's step, for every  *)
(* action at once; the facts it needs of the other conjuncts are assumed.  *)

\* The packages of a pass: only the thread takes packages out of the outbox,
\* one at a time, and only the ones with a receipt.
LEMMA OneAtATimeStep ==
  ASSUME TypeOK, TypeOK', OneAtATime, [Next]_vars
  PROVE  OneAtATime'
<1> USE DEF OneAtATime, TypeOK, Working
<1>1. CASE Wrapper
  BY <1>1 DEF Wrapper, CheckReceipt, CheckOutbox, StageFrame, Publish, SignalWake, WrapperDies,
     disk, frames, settled, session, thread, signals, attempt
<1>2. CASE Start \/ BeginPass \/ WakeUp \/ Timeout
  BY <1>2 DEF Start, BeginPass, WakeUp, Timeout, disk, frames, settled, session, signals, attempt
<1>3. ASSUME NEW p \in Packages,
             FoundReceipt(p) \/ NotDue(p) \/ KeepDamaged(p) \/ WaitForAccount(p)
               \/ StartAttempt(p)
      PROVE  OneAtATime'
  BY <1>3 DEF FoundReceipt, NotDue, KeepDamaged, WaitForAccount, StartAttempt, LooksAt, Turn,
     disk, frames, settled, session, signals, attempt
<1>4. ASSUME NEW s, Save(s) PROVE OneAtATime'
  BY <1>4 DEF Save, EndOfTurn, settled
<1>5. ASSUME NEW f \in Files,
             Acknowledged(f) \/ Unanswered(f) \/ NotAuthorized(f) \/ Unreadable(f)
      PROVE  OneAtATime'
  <2>1. CASE Acknowledged(f)
    BY <2>1 DEF Acknowledged, Offer, settled
  <2> QED
    BY <1>4, <1>5, <2>1 DEF Unanswered, NotAuthorized, Unreadable, AttemptFails
<1>6. CASE Unavailable \/ PartialAnswer \/ ReceiptNotWritten
  BY <1>4, <1>6 DEF Unavailable, PartialAnswer, ReceiptNotWritten, AttemptFails
<1>7. CASE WriteReceipt
  BY <1>7 DEF WriteReceipt, attempt
<1>8. CASE RemovePayload \/ Forget \/ EndPass
  BY <1>8 DEF RemovePayload, Forget, EndPass, EndOfTurn, settled, attempt
<1>9. CASE Environment
  BY <1>9 DEF Environment, Crash, ChangeAccount, NotifyDelivery, Elapse, Break, Heal,
     disk, frames, settled, session, thread, signals, attempt
<1>10. CASE UNCHANGED vars
  BY <1>10 DEF vars, disk, frames, settled, thread, signals, attempt
<1> QED
  BY <1>1, <1>2, <1>3, <1>5, <1>6, <1>7, <1>8, <1>9, <1>10 DEF Next, Thread, Pass

\* A staged directory stays until the handoff publishes it, and the rename puts
\* it in the outbox alone (stage, publish).
LEMMA StagedStep ==
  ASSUME TypeOK, TypeOK', OneAtATime, Staged, OneDirectory, [Next]_vars
  PROVE  Staged' /\ OneDirectory'
<1> USE DEF OneDirectory, Staged, TypeOK, Idle
<1>1. CASE Wrapper
  <2>1. CASE CheckOutbox \/ StageFrame \/ Publish
    BY <2>1, HandedPackage DEF CheckOutbox, StageFrame, Publish, disk, frames
  <2> QED
    BY <1>1, <2>1 DEF Wrapper, CheckReceipt, SignalWake, WrapperDies, disk, frames
<1>2. CASE Thread
  <2>1. hand' = hand /\ staging' = staging /\ outbox' \subseteq outbox
    <3>1. CASE Start \/ BeginPass \/ WakeUp \/ Timeout
      BY <3>1 DEF Start, BeginPass, WakeUp, Timeout, disk, frames
    <3>2. CASE Pass
      BY <3>2 DEF Pass, FoundReceipt, NotDue, KeepDamaged, WaitForAccount, StartAttempt, LooksAt,
         Turn, Save, AttemptFails, Acknowledged, Unanswered, NotAuthorized, Unreadable,
         Unavailable, PartialAnswer, ReceiptNotWritten, WriteReceipt, RemovePayload, Forget,
         EndPass, disk, frames
    <3> QED
      BY <1>2, <3>1, <3>2 DEF Thread
  <2> QED
    BY <2>1
<1>3. CASE Environment
  BY <1>3 DEF Environment, Crash, ChangeAccount, NotifyDelivery, Elapse, Break, Heal, disk, frames
<1>4. CASE UNCHANGED vars
  BY <1>4 DEF vars, disk, frames
<1> QED
  BY <1>1, <1>2, <1>3, <1>4 DEF Next

\* The frames: only the wrapper moves them, and only the thread removes a
\* package, under its receipt.
LEMMA FramesStep ==
  ASSUME TypeOK, TypeOK', OneAtATime, Staged, OneDirectory, FramesKept, [Next]_vars
  PROVE  FramesKept'
<1> USE DEF FramesKept, TypeOK
<1>1. CASE StageFrame
  <2>1. hand.pkg \in Packages
    BY <1>1, HandedPackage DEF StageFrame
  <2> QED
    BY <1>1, <2>1 DEF StageFrame, settled
<1>2. CASE Publish
  <2>1. hand.pkg \in Packages /\ hand.pkg \notin outbox
    BY <1>2, HandedPackage DEF Publish, Staged, OneDirectory
  <2> QED
    BY <1>2, <2>1 DEF Publish, settled
<1>3. CASE WriteReceipt
  BY <1>3 DEF WriteReceipt, frames
<1>4. CASE RemovePayload
  BY <1>4 DEF RemovePayload, OneAtATime, frames, settled
<1>5. ASSUME source' = source, incoming' = incoming, outbox' = outbox, listed' = listed,
             receipts' = receipts
      PROVE  FramesKept'
  BY <1>5
<1>6. CASE UNCHANGED vars
  BY <1>5, <1>6 DEF vars, disk, frames, settled
<1>7. CASE Wrapper
  BY <1>1, <1>2, <1>5, <1>7 DEF Wrapper, CheckReceipt, CheckOutbox, SignalWake, WrapperDies,
     disk, frames, settled
<1>8. CASE Environment
  BY <1>5, <1>8 DEF Environment, Crash, ChangeAccount, NotifyDelivery, Elapse, Break, Heal,
     disk, frames, settled
<1>9. CASE Thread
  <2>1. CASE Start \/ BeginPass \/ WakeUp \/ Timeout
    BY <1>5, <2>1 DEF Start, BeginPass, WakeUp, Timeout, disk, frames, settled
  <2>2. CASE Pass
    BY <1>3, <1>4, <1>5, <2>2 DEF Pass, FoundReceipt, NotDue, KeepDamaged, WaitForAccount,
       StartAttempt, LooksAt, Turn, Save, AttemptFails, Acknowledged, Unanswered,
       NotAuthorized, Unreadable, Unavailable, PartialAnswer, ReceiptNotWritten, Forget,
       EndPass, disk, frames, settled
  <2> QED
    BY <1>9, <2>1, <2>2 DEF Thread
<1> QED
  BY <1>6, <1>7, <1>8, <1>9 DEF Next

\* The complete answer stays true until the receipt is written: the package's
\* list does not change under the thread.
LEMMA EarnedStep ==
  ASSUME TypeOK, TypeOK', OneAtATime, Staged, OneDirectory, Earned, [Next]_vars
  PROVE  Earned'
<1> USE DEF Earned, TypeOK, Listed
<1>1. ASSUME NEW f \in Files, Acknowledged(f) PROVE Earned'
  BY <1>1 DEF Acknowledged, Offer, frames
<1>2. CASE Publish
  <2>1. hand.pkg \notin outbox
    BY <1>2, HandedPackage DEF Publish, Staged, OneDirectory
  <2> QED
    BY <1>2, <2>1 DEF Publish, OneAtATime, thread, attempt
<1>3. ASSUME phase' # "receipt" PROVE Earned'
  BY <1>3
<1>4. ASSUME phase' = phase, cur' = cur, listed' = listed, held' = held PROVE Earned'
  BY <1>4
<1>5. CASE Wrapper
  BY <1>2, <1>4, <1>5 DEF Wrapper, CheckReceipt, CheckOutbox, StageFrame, SignalWake, WrapperDies,
     disk, frames, thread, attempt
<1>6. CASE Environment
  BY <1>3, <1>4, <1>6 DEF Environment, Crash, ChangeAccount, NotifyDelivery, Elapse, Break, Heal,
     disk, frames, thread, attempt
<1>7. CASE Thread
  <2>1. CASE Start \/ BeginPass \/ WakeUp \/ Timeout
    BY <1>3, <2>1 DEF Start, BeginPass, WakeUp, Timeout
  <2>2. ASSUME NEW p \in Packages,
               FoundReceipt(p) \/ NotDue(p) \/ KeepDamaged(p) \/ WaitForAccount(p)
                 \/ StartAttempt(p)
        PROVE  Earned'
    BY <1>3, <2>2 DEF FoundReceipt, NotDue, KeepDamaged, WaitForAccount, StartAttempt, LooksAt, Turn
  <2>3. ASSUME NEW s, Save(s) PROVE Earned'
    BY <1>3, <2>3 DEF Save, EndOfTurn
  <2>4. ASSUME NEW f \in Files, Unanswered(f) \/ NotAuthorized(f) \/ Unreadable(f)
        PROVE  Earned'
    BY <2>3, <2>4 DEF Unanswered, NotAuthorized, Unreadable, AttemptFails
  <2>5. CASE Unavailable \/ PartialAnswer \/ ReceiptNotWritten
    BY <2>3, <2>5 DEF Unavailable, PartialAnswer, ReceiptNotWritten, AttemptFails
  <2>6. CASE WriteReceipt \/ RemovePayload \/ Forget \/ EndPass
    BY <1>3, <2>6 DEF WriteReceipt, RemovePayload, Forget, EndPass, EndOfTurn
  <2> QED
    BY <1>1, <1>7, <2>1, <2>2, <2>4, <2>5, <2>6 DEF Thread, Pass
<1>8. CASE UNCHANGED vars
  BY <1>4, <1>8 DEF vars, disk, frames, thread, attempt
<1> QED
  BY <1>5, <1>6, <1>7, <1>8 DEF Next

\* Acknowledged means held: the saved list only takes what an answer named, and
\* the service forgets nothing.
LEMMA AckedStep ==
  ASSUME TypeOK, TypeOK', AckedIsHeld, [Next]_vars
  PROVE  AckedIsHeld'
<1> USE DEF AckedIsHeld, TypeOK, Working
<1>1. ASSUME held' = held, delivery' = delivery, st' = st, cur' = cur,
             phase' \in {"offer", "receipt"} => phase \in {"offer", "receipt"}
      PROVE  AckedIsHeld'
  BY <1>1
<1>2. ASSUME held' = held, delivery' = delivery, phase' \notin {"offer", "receipt"}
      PROVE  AckedIsHeld'
  BY <1>2
<1>3. CASE Wrapper
  BY <1>1, <1>3 DEF Wrapper, CheckReceipt, CheckOutbox, StageFrame, Publish, SignalWake, WrapperDies,
     disk, thread, attempt
<1>4. CASE Start \/ BeginPass \/ WakeUp \/ Timeout \/ WriteReceipt \/ RemovePayload
  BY <1>1, <1>2, <1>4 DEF Start, BeginPass, WakeUp, Timeout, WriteReceipt, RemovePayload, disk, attempt
<1>5. ASSUME NEW p \in Packages, FoundReceipt(p) \/ NotDue(p) PROVE AckedIsHeld'
  BY <1>1, <1>2, <1>5 DEF FoundReceipt, NotDue, Turn, disk, attempt
<1>6. ASSUME NEW p \in Packages, KeepDamaged(p) \/ WaitForAccount(p) PROVE AckedIsHeld'
  <2>1. delivery'[p].acked = delivery[p].acked
    <3>1. CASE KeepDamaged(p)
      BY <3>1 DEF KeepDamaged, State
    <3>2. CASE WaitForAccount(p)
      BY <3>2 DEF WaitForAccount, State
    <3> QED
      BY <1>6, <3>1, <3>2
  <2>2. \A q \in Packages \ {p} : delivery'[q] = delivery[q]
    BY <1>6 DEF KeepDamaged, WaitForAccount
  <2> QED
    BY <1>6, <2>1, <2>2 DEF KeepDamaged, WaitForAccount, LooksAt, Turn
<1>7. ASSUME NEW p \in Packages, StartAttempt(p) PROVE AckedIsHeld'
  <2>1. st'.acked = delivery[p].acked \cap Listed(p)
    BY <1>7 DEF StartAttempt, State
  <2>2. delivery' = [delivery EXCEPT ![p] = st'] /\ held' = held /\ cur' = p
    BY <1>7 DEF StartAttempt, LooksAt, Turn
  <2> QED
    BY <2>1, <2>2
<1>8. ASSUME NEW s \in State, Save(s), phase \in {"offer", "receipt"}, s.acked = st.acked,
             \A p \in Packages : held[p] \subseteq held'[p]
      PROVE  AckedIsHeld'
  <2>1. delivery' = [delivery EXCEPT ![cur] = s] /\ phase' = "pick"
    BY <1>8 DEF Save, EndOfTurn
  <2> QED
    BY <1>8, <2>1
<1>9. ASSUME NEW why \in Reasons, AttemptFails(why), phase \in {"offer", "receipt"},
             \A p \in Packages : held[p] \subseteq held'[p]
      PROVE  AckedIsHeld'
  <2> DEFINE s == [st EXCEPT !.state = "waiting", !.reason = why, !.due = FALSE,
                             !.failures = IF st.acked # before THEN 1
                                          ELSE NextFailure(@)]
  <2>1. st.failures \in 0 .. LadderSteps /\ 1 \in 0 .. LadderSteps
    BY LadderAssumption DEF State
  <2>2. NextFailure(st.failures) \in 0 .. LadderSteps
    BY <2>1, LadderBound
  <2>3. s \in State /\ s.acked = st.acked
    BY <2>1, <2>2 DEF State
  <2> QED
    BY <1>8, <1>9, <2>3 DEF AttemptFails
<1>10. ASSUME NEW f \in Files, Acknowledged(f) PROVE AckedIsHeld'
  <2>1. cur \in Packages
    BY <1>10 DEF Acknowledged, Offer
  <2>2. held' = [held EXCEPT ![cur] = @ \cup {f}]
    BY <1>10 DEF Acknowledged
  <2>3. st'.acked = st.acked \cup (held'[cur] \cap Listed(cur))
    BY <1>10 DEF Acknowledged, State
  <2>4. delivery' = [delivery EXCEPT ![cur] = st'] /\ cur' = cur
    BY <1>10 DEF Acknowledged
  <2>5. st'.acked \subseteq held'[cur]
    BY <1>10, <2>1, <2>2, <2>3 DEF Acknowledged, Offer
  <2> QED
    BY <2>1, <2>2, <2>4, <2>5
<1>11. ASSUME NEW f \in Files, Unanswered(f) PROVE AckedIsHeld'
  <2>1. \A p \in Packages : held[p] \subseteq held'[p]
    <3>1. CASE held' = held
      BY <3>1
    <3>2. CASE held' = [held EXCEPT ![cur] = @ \cup {f}]
      BY <3>2
    <3> QED
      BY <1>11, <3>1, <3>2 DEF Unanswered
  <2> QED
    BY <1>9, <1>11, <2>1 DEF Unanswered, Offer, Reasons
<1>12. ASSUME NEW f \in Files, NotAuthorized(f) \/ Unreadable(f) PROVE AckedIsHeld'
  BY <1>9, <1>12 DEF NotAuthorized, Unreadable, Offer, Reasons
<1>13. CASE PartialAnswer \/ ReceiptNotWritten
  BY <1>9, <1>13 DEF PartialAnswer, ReceiptNotWritten, Reasons
<1>14. CASE Unavailable
  <2> DEFINE s == [st EXCEPT !.state = "waiting", !.reason = "signed_out", !.due = TRUE]
  <2>1. s \in State /\ s.acked = st.acked
    BY DEF State, Reasons
  <2> QED
    BY <1>8, <1>14, <2>1 DEF Unavailable
<1>15. CASE Forget \/ EndPass
  <2>1. FreshState.acked = {}
    BY DEF FreshState
  <2>2. \A p \in Packages : delivery'[p] \in {delivery[p], FreshState}
    BY <1>15 DEF Forget, EndPass
  <2>3. held' = held /\ phase' \in {"pick", "wait"}
    BY <1>15 DEF Forget, EndPass, EndOfTurn
  <2> QED
    BY <2>1, <2>2, <2>3
<1>16. CASE Crash \/ ChangeAccount \/ NotifyDelivery \/ UNCHANGED vars
  BY <1>1, <1>2, <1>16 DEF Crash, ChangeAccount, NotifyDelivery, vars, disk, thread, attempt
<1>17. ASSUME NEW p \in Packages, Elapse(p) PROVE AckedIsHeld'
  <2>1. \A q \in Packages : delivery'[q].acked = delivery[q].acked
    BY <1>17 DEF Elapse, State
  <2> QED
    BY <1>17, <2>1 DEF Elapse, thread, attempt
<1>18. ASSUME NEW p \in Packages, Break(p) \/ Heal(p) PROVE AckedIsHeld'
  BY <1>1, <1>18 DEF Break, Heal, thread, attempt
<1> QED
  BY <1>3, <1>4, <1>5, <1>6, <1>7, <1>10, <1>11, <1>12, <1>13, <1>14, <1>15, <1>16, <1>17, <1>18
  DEF Next, Thread, Pass, Environment

\* The invariant is inductive: each conjunct's step, from the conjuncts before.
LEMMA Inductive ==
  ASSUME IInv, [Next]_vars
  PROVE  IInv'
<1> USE DEF IInv
<1>1. TypeOK'
  BY TypeStep
<1>2. OneAtATime'
  BY <1>1, OneAtATimeStep
<1>3. Staged' /\ OneDirectory'
  BY <1>1, StagedStep
<1>4. Earned'
  BY <1>1, EarnedStep
<1>5. AckedIsHeld'
  BY <1>1, AckedStep
<1>6. FramesKept'
  BY <1>1, FramesStep
<1> QED
  BY <1>1, <1>2, <1>3, <1>4, <1>5, <1>6

\* In every reachable state the thread works on one package of the outbox, a
\* receipt is earned, a staged directory is there, and acknowledgments and
\* frames are safe.
THEOREM Invariance == Spec => []IInv
<1>1. Init => IInv
  <2> SUFFICES ASSUME Init PROVE IInv
    OBVIOUS
  <2>1. TypeOK
    BY TypeInit
  <2>2. OneAtATime /\ Earned /\ Staged /\ OneDirectory
    BY NoPackageAssumption DEF Init, OneAtATime, Earned, Staged, Idle, OneDirectory
  <2>3. AckedIsHeld
    BY DEF Init, AckedIsHeld, FreshState
  <2>4. FramesKept
    BY DEF Init, FramesKept
  <2> QED
    BY <2>1, <2>2, <2>3, <2>4 DEF IInv
<1> QED
  BY <1>1, Inductive, PTL DEF Spec

\* Whatever answer is lost and whenever the Client dies, a file it will not
\* offer again is a file the service holds (on_acked, load_state).
THEOREM AckedSafe == Spec => []AckedIsHeld
BY Invariance, PTL DEF IInv

\* No frame of an undelivered session is lost by an interrupted handoff, a
\* crash or the thread (stage, publish, acknowledge).
THEOREM FramesSafe == Spec => []FramesKept
BY Invariance, PTL DEF IInv

-----------------------------------------------------------------------------
(* EvidenceDelivery implements EvidenceCustody.                            *)

\* Every step of the wrapper, the thread or the environment is a step of
\* EvidenceCustody under the refinement mapping, or changes nothing it sees.
LEMMA CustodyStep ==
  ASSUME IInv, IInv', [Next]_vars
  PROVE  [Custody!Next]_(Custody!vars)
<1> USE DEF IInv, TypeOK
<1>1. ASSUME receipts' = receipts, covered' = covered, held' = held,
             \A p \in Packages \ receipts : (p \in outbox' <=> p \in outbox)
                                         /\ (p \in outbox => listed'[p] = listed[p])
      PROVE  UNCHANGED Custody!vars
  BY <1>1 DEF Custody!vars, custodyBar, manifestBar, Listed
<1>2. CASE UNCHANGED vars
  BY <1>1, <1>2 DEF vars, disk, frames, settled
<1>3. CASE Publish
  <2> DEFINE p == hand.pkg
  <2>1. p \in Packages /\ p \notin outbox
    BY <1>3, HandedPackage DEF Publish, Staged, OneDirectory
  <2>2. CASE p \in receipts
    BY <1>1, <1>3, <2>1, <2>2 DEF Publish, settled
  <2>3. CASE p \notin receipts
    <3>1. custodyBar[p] = "wrapper" /\ custodyBar' = [custodyBar EXCEPT ![p] = "client"]
      BY <1>3, <2>1, <2>3 DEF Publish, settled, custodyBar
    <3>2. manifestBar' = [manifestBar EXCEPT ![p] = incoming[p] \cup {Head}]
      <4>1. /\ receipts' = receipts /\ covered' = covered /\ outbox' = outbox \cup {p}
            /\ listed' = [listed EXCEPT ![p] = incoming[p]]
        BY <1>3 DEF Publish, settled
      <4>2. \A q \in Packages : manifestBar'[q] = [manifestBar EXCEPT ![p] = incoming[p] \cup {Head}][q]
        <5> SUFFICES ASSUME NEW q \in Packages
                     PROVE  manifestBar'[q] = [manifestBar EXCEPT ![p] = incoming[p] \cup {Head}][q]
          OBVIOUS
        <5>1. CASE q = p
          BY <2>1, <2>3, <4>1, <5>1 DEF manifestBar, Listed
        <5>2. CASE q # p
          BY <2>1, <2>3, <4>1, <5>2 DEF manifestBar, Listed
        <5> QED
          BY <5>1, <5>2
      <4> HIDE DEF p
      <4> QED
        BY <4>2 DEF manifestBar
    <3>3. incoming[p] \cup {Head} \in SUBSET Files
      BY <2>1 DEF Files
    <3>4. held' = held
      BY <1>3 DEF Publish
    <3>5. Custody!HandOver(p)
      BY <3>1, <3>2, <3>3, <3>4 DEF Custody!HandOver
    <3> QED
      BY <2>1, <3>5 DEF Custody!Next
  <2> QED
    BY <2>2, <2>3
<1>4. ASSUME phase = "offer",
             NEW f \in Listed(cur), held' = [held EXCEPT ![cur] = @ \cup {f}],
             outbox' = outbox, receipts' = receipts, covered' = covered, listed' = listed
      PROVE  Custody!Next
  <2>1. cur \in Packages /\ cur \in outbox /\ cur \notin receipts
    BY <1>4 DEF OneAtATime, Working
  <2>2. custodyBar[cur] = "client" /\ f \in manifestBar[cur]
    BY <1>4, <2>1 DEF custodyBar, manifestBar
  <2>3. custodyBar' = custodyBar /\ manifestBar' = manifestBar
    BY <1>4 DEF custodyBar, manifestBar, Listed
  <2>4. Custody!Receive(cur)
    BY <1>4, <2>2, <2>3 DEF Custody!Receive
  <2> QED
    BY <2>1, <2>4 DEF Custody!Next
<1>5. ASSUME NEW f \in Files, Acknowledged(f) \/ Unanswered(f)
      PROVE  [Custody!Next]_(Custody!vars)
  <2>1. f \in Listed(cur) /\ phase = "offer"
    BY <1>5 DEF Acknowledged, Unanswered, Offer, NextFile, Listed
  <2>2. outbox' = outbox /\ receipts' = receipts /\ covered' = covered /\ listed' = listed
    BY <1>5 DEF Acknowledged, Unanswered, AttemptFails, Save, frames, settled
  <2>3. held' = held \/ held' = [held EXCEPT ![cur] = @ \cup {f}]
    BY <1>5 DEF Acknowledged, Unanswered
  <2> QED
    BY <1>1, <1>4, <2>1, <2>2, <2>3
<1>6. CASE WriteReceipt
  <2>1. cur \in Packages /\ cur \in outbox /\ cur \notin receipts /\ Listed(cur) \subseteq held[cur]
    BY <1>6 DEF WriteReceipt, OneAtATime, Earned, Working
  <2>2. custodyBar[cur] = "client" /\ custodyBar' = [custodyBar EXCEPT ![cur] = "service"]
    BY <1>6, <2>1 DEF WriteReceipt, custodyBar
  <2>3. manifestBar[cur] = Listed(cur) /\ manifestBar' = manifestBar
    <3>1. /\ receipts' = receipts \cup {cur} /\ outbox' = outbox /\ listed' = listed
          /\ covered' = [covered EXCEPT ![cur] = Listed(cur)]
      BY <1>6 DEF WriteReceipt, frames
    <3>2. manifestBar[cur] = Listed(cur)
      BY <2>1 DEF manifestBar
    <3>3. \A q \in Packages : manifestBar'[q] = manifestBar[q]
      <4> SUFFICES ASSUME NEW q \in Packages PROVE manifestBar'[q] = manifestBar[q]
        OBVIOUS
      <4>1. CASE q = cur
        BY <2>1, <3>1, <4>1 DEF manifestBar, Listed
      <4>2. CASE q # cur
        BY <2>1, <3>1, <4>2 DEF manifestBar, Listed
      <4> QED
        BY <4>1, <4>2
    <3> QED
      BY <3>2, <3>3 DEF manifestBar
  <2>4. held' = held
    BY <1>6 DEF WriteReceipt
  <2>5. Custody!Settle(cur)
    BY <2>1, <2>2, <2>3, <2>4 DEF Custody!Settle
  <2> QED
    BY <2>1, <2>5 DEF Custody!Next
<1>7. CASE RemovePayload
  BY <1>1, <1>7 DEF RemovePayload, OneAtATime, frames, settled
<1>8. CASE Wrapper
  BY <1>1, <1>3, <1>8 DEF Wrapper, CheckReceipt, CheckOutbox, StageFrame, SignalWake, WrapperDies,
     disk, frames, settled
<1>9. CASE Environment
  BY <1>1, <1>9 DEF Environment, Crash, ChangeAccount, NotifyDelivery, Elapse, Break, Heal,
     disk, frames, settled
<1>10. CASE Start \/ BeginPass \/ WakeUp \/ Timeout
  BY <1>1, <1>10 DEF Start, BeginPass, WakeUp, Timeout, disk, frames, settled
<1>11. CASE Pass
  BY <1>1, <1>5, <1>6, <1>7, <1>11 DEF Pass, FoundReceipt, NotDue, KeepDamaged, WaitForAccount,
     StartAttempt, LooksAt, Turn, Save, AttemptFails, NotAuthorized, Unreadable, Unavailable,
     PartialAnswer, ReceiptNotWritten, Forget, EndPass, disk, frames, settled
<1> QED
  BY <1>2, <1>8, <1>9, <1>10, <1>11 DEF Next, Thread

\* Custody only moves from the wrapper to the Client to the service, the service
\* takes it holding every listed file, and nothing undelivered is removed
\* (handoff, run_pass, acknowledge).
THEOREM Implements == Spec => CustodySpec
<1>1. Init => Custody!Init
  BY DEF Init, Custody!Init, custodyBar, manifestBar
<1> QED
  BY <1>1, Invariance, CustodyStep, PTL DEF Spec, CustodySpec, Custody!Spec

\* What was being sent, and is not being rewritten by this step, keeps its place:
\* the one argument for every step that changes no delivery state.
LEMMA ResumedQuiet ==
  ASSUME TypeOK, OneAtATime, Resumed,
         delivery' = delivery, receipts \subseteq receipts', outbox \subseteq outbox',
         cur' = cur, todo' = todo, force' = force, phase' = phase
  PROVE  Resumed'
BY DEF Resumed, MayBeSending

\* A step that leaves cur's document waiting, or settles it, ends its turn.
LEMMA ResumedTurn ==
  ASSUME TypeOK, OneAtATime, Resumed, phase \in Working,
         NEW s \in State, s.state = "waiting",
         delivery' = [delivery EXCEPT ![cur] = s],
         receipts' = receipts, outbox' = outbox,
         todo' = todo, force' = force, phase' = "pick"
  PROVE  Resumed'
<1> SUFFICES ASSUME NEW p \in Packages \ receipts, delivery'[p].state = "sending"
             PROVE  MayBeSending(p)'
  BY DEF Resumed
<1>1. p # cur /\ delivery[p].state = "sending"
  BY DEF TypeOK
<1>2. MayBeSending(p) /\ phase # "down" /\ phase # "head"
  BY <1>1 DEF Resumed, Working
<1> QED
  BY <1>1, <1>2 DEF MayBeSending

\* Every step leaves an attempt that is reported as being sent to be made, or to
\* be looked at by the forced pass (run_pass, serve).
LEMMA ResumedStep ==
  ASSUME IInv, Resumed, [Next]_vars
  PROVE  Resumed'
<1>1. TypeOK /\ OneAtATime /\ OneDirectory
  BY DEF IInv
<1>2. CASE UNCHANGED vars
  BY <1>1, <1>2, ResumedQuiet DEF vars, disk, settled, thread, signals, attempt
<1>3. CASE Wrapper
  <2>1. /\ delivery' = delivery /\ receipts' = receipts /\ outbox \subseteq outbox'
        /\ cur' = cur /\ todo' = todo /\ force' = force /\ phase' = phase
    BY <1>3 DEF Wrapper, CheckReceipt, CheckOutbox, StageFrame, Publish, SignalWake, WrapperDies,
       disk, settled, thread, signals, attempt
  <2> QED
    BY <1>1, <2>1, ResumedQuiet
<1>4. CASE Crash
  BY <1>4 DEF Crash, disk, settled, Resumed, MayBeSending
<1>5. CASE ChangeAccount \/ NotifyDelivery \/ \E p \in Packages : Break(p) \/ Heal(p)
  <2>1. /\ delivery' = delivery /\ receipts' = receipts /\ outbox' = outbox
        /\ cur' = cur /\ todo' = todo /\ force' = force /\ phase' = phase
    BY <1>5 DEF ChangeAccount, NotifyDelivery, Break, Heal, disk, settled, thread, signals, attempt
  <2> QED
    BY <1>1, <2>1, ResumedQuiet
<1>6. ASSUME NEW q \in Packages, Elapse(q)
      PROVE  Resumed'
  <2>1. /\ receipts' = receipts /\ outbox' = outbox
        /\ cur' = cur /\ todo' = todo /\ force' = force /\ phase' = phase
    BY <1>6 DEF Elapse, settled, thread, signals, attempt
  <2>2. \A p \in Packages : delivery'[p].state = delivery[p].state
    BY <1>1, <1>6 DEF Elapse, TypeOK, State
  <2> QED
    BY <2>1, <2>2 DEF Resumed, MayBeSending
<1>7. CASE Start
  BY <1>1, <1>7 DEF Start, disk, settled, attempt, Resumed, MayBeSending, TypeOK, Working
<1>8. CASE BeginPass
  <2>1. /\ delivery' = delivery /\ receipts' = receipts /\ outbox' = outbox /\ cur' = cur
        /\ todo' = outbox /\ phase' = "pick" /\ phase = "head" /\ (force => force')
    BY <1>8 DEF BeginPass, disk, settled, attempt
  <2> QED
    BY <1>1, <2>1 DEF Resumed, MayBeSending
<1>9. CASE WakeUp \/ Timeout
  <2>1. /\ delivery' = delivery /\ receipts' = receipts /\ phase = "wait"
    BY <1>9 DEF WakeUp, Timeout, disk, settled
  <2>2. cur \notin Packages
    BY <1>1, <2>1 DEF TypeOK, Working
  <2> QED
    BY <2>1, <2>2 DEF Resumed, MayBeSending
<1>10. ASSUME NEW q \in Packages, FoundReceipt(q)
       PROVE  Resumed'
  <2>1. /\ delivery' = delivery /\ receipts' = receipts /\ outbox' = outbox /\ force' = force
        /\ q \in receipts /\ todo' = todo \ {q} /\ phase = "pick" /\ phase' = "remove"
    BY <1>10 DEF FoundReceipt, Turn, disk, settled, signals
  <2>2. cur \notin Packages
    BY <1>1, <2>1 DEF TypeOK, Working
  <2> QED
    BY <2>1, <2>2 DEF Resumed, MayBeSending
<1>11. ASSUME NEW q \in Packages, NotDue(q)
       PROVE  Resumed'
  <2>1. /\ delivery' = delivery /\ receipts' = receipts /\ phase = "pick" /\ ~force
    BY <1>11 DEF NotDue, Turn, disk, settled
  <2>2. cur \notin Packages
    BY <1>1, <2>1 DEF TypeOK, Working
  <2> QED
    BY <2>1, <2>2 DEF Resumed, MayBeSending
<1>12. ASSUME NEW q \in Packages, KeepDamaged(q) \/ WaitForAccount(q)
       PROVE  Resumed'
  <2>1. /\ receipts' = receipts /\ outbox' = outbox /\ force' = force /\ cur' = cur
        /\ todo' = todo \ {q} /\ phase' = phase /\ phase = "pick"
    BY <1>12 DEF KeepDamaged, WaitForAccount, LooksAt, Turn, settled, signals, attempt
  <2>2. \A p \in Packages \ {q} : delivery'[p] = delivery[p]
    BY <1>1, <1>12 DEF KeepDamaged, WaitForAccount, TypeOK
  <2>3. delivery'[q].state = "waiting"
    <3>1. q \in DOMAIN delivery /\ "state" \in DOMAIN delivery[q]
      BY <1>1 DEF TypeOK, State
    <3>2. CASE KeepDamaged(q)
      BY <3>1, <3>2 DEF KeepDamaged
    <3>3. CASE WaitForAccount(q)
      BY <3>1, <3>3 DEF WaitForAccount
    <3> QED
      BY <1>12, <3>2, <3>3
  <2> QED
    BY <2>1, <2>2, <2>3 DEF Resumed, MayBeSending
<1>13. ASSUME NEW q \in Packages, StartAttempt(q)
       PROVE  Resumed'
  <2>1. /\ receipts' = receipts /\ outbox' = outbox /\ force' = force /\ cur' = q
        /\ q \in todo /\ todo' = todo \ {q} /\ phase = "pick" /\ phase' = "offer"
    BY <1>13 DEF StartAttempt, LooksAt, Turn, settled, signals
  <2>2. \A p \in Packages \ {q} : delivery'[p] = delivery[p]
    BY <1>1, <1>13 DEF StartAttempt, TypeOK
  <2>3. cur \notin Packages /\ q \in outbox
    BY <1>1, <2>1 DEF TypeOK, Working, OneAtATime
  <2> QED
    BY <2>1, <2>2, <2>3 DEF Resumed, MayBeSending
<1>14. ASSUME NEW s \in State, s.state = "waiting", phase \in Working, Save(s)
       PROVE  Resumed'
  <2>1. /\ delivery' = [delivery EXCEPT ![cur] = s] /\ receipts' = receipts /\ outbox' = outbox
        /\ todo' = todo /\ force' = force /\ phase' = "pick"
    BY <1>14 DEF Save, EndOfTurn, settled, signals
  <2> QED
    BY <1>1, <1>14, <2>1, ResumedTurn
<1>15. ASSUME NEW why \in Reasons, phase \in Working, AttemptFails(why)
       PROVE  Resumed'
  <2> DEFINE n == IF st.acked # before THEN 1 ELSE NextFailure(st.failures)
             s == [st EXCEPT !.state = "waiting", !.reason = why, !.due = FALSE,
                             !.failures = IF st.acked # before THEN 1 ELSE NextFailure(@)]
  <2>1. st.failures \in 0 .. LadderSteps /\ 1 \in 0 .. LadderSteps
    BY <1>1, LadderAssumption DEF TypeOK, State
  <2>2. n \in 0 .. LadderSteps
    BY <2>1, LadderBound
  <2>3. s \in State /\ s.state = "waiting"
    BY <1>1, <2>2 DEF TypeOK, State
  <2>4. Save(s)
    BY <1>15 DEF AttemptFails
  <2> HIDE DEF s, n
  <2> QED
    BY <1>14, <1>15, <2>3, <2>4
<1>16. CASE Unavailable
  <2> DEFINE s == [st EXCEPT !.state = "waiting", !.reason = "signed_out", !.due = TRUE]
  <2>1. s \in State /\ s.state = "waiting"
    BY <1>1 DEF TypeOK, State, Reasons
  <2>2. Save(s) /\ phase \in Working
    BY <1>16 DEF Unavailable, Working
  <2> HIDE DEF s
  <2> QED
    BY <1>14, <2>1, <2>2
<1>17. ASSUME NEW f \in Files, Unanswered(f) \/ NotAuthorized(f) \/ Unreadable(f)
       PROVE  Resumed'
  BY <1>15, <1>17 DEF Unanswered, NotAuthorized, Unreadable, Offer, Working, Reasons
<1>18. CASE PartialAnswer \/ ReceiptNotWritten
  BY <1>15, <1>18 DEF PartialAnswer, ReceiptNotWritten, Working, Reasons
<1>19. ASSUME NEW f \in Files, Acknowledged(f)
       PROVE  Resumed'
  <2>1. phase = "offer" /\ cur \in Packages /\ cur \in outbox
    BY <1>1, <1>19 DEF Acknowledged, Offer, OneAtATime, TypeOK, Working
  <2>2. \A p \in Packages \ {cur} : delivery'[p] = delivery[p]
    BY <1>1, <1>19, <2>1 DEF Acknowledged, TypeOK
  <2>3. /\ receipts' = receipts /\ outbox' = outbox /\ force' = force /\ cur' = cur
        /\ todo' = todo /\ phase' \in {"offer", "receipt"}
    BY <1>19, <2>1 DEF Acknowledged, Offer, settled, signals
  <2> QED
    BY <2>1, <2>2, <2>3 DEF Resumed, MayBeSending
<1>20. CASE WriteReceipt
  <2>1. /\ delivery' = delivery /\ receipts \subseteq receipts' /\ outbox' = outbox
        /\ force' = force /\ cur' = cur /\ todo' = todo /\ phase = "receipt" /\ phase' = "remove"
    BY <1>20 DEF WriteReceipt, signals, attempt
  <2> QED
    BY <2>1 DEF Resumed, MayBeSending
<1>21. CASE RemovePayload
  <2>1. /\ delivery' = delivery /\ receipts' = receipts /\ outbox \ {cur} \subseteq outbox'
        /\ force' = force /\ cur' = cur /\ todo' = todo /\ phase = "remove" /\ phase' = "forget"
    BY <1>21 DEF RemovePayload, settled, signals, attempt
  <2>2. cur \in receipts
    BY <1>1, <2>1 DEF OneAtATime
  <2> QED
    BY <2>1, <2>2 DEF Resumed, MayBeSending
<1>22. CASE Forget
  <2>1. /\ delivery' = [delivery EXCEPT ![cur] = FreshState] /\ receipts' = receipts
        /\ outbox' = outbox /\ todo' = todo /\ force' = force /\ phase = "forget" /\ phase' = "pick"
    BY <1>22 DEF Forget, EndOfTurn, settled, signals
  <2>2. FreshState.state = "waiting" /\ phase \in Working
    BY <2>1 DEF FreshState, Working
  <2> QED
    BY <1>1, <2>1, <2>2, FreshIsState, ResumedTurn
<1>23. CASE EndPass
  <2>1. /\ phase = "pick" /\ todo = {} /\ receipts' = receipts
        /\ delivery' = [p \in Packages |-> IF p \in outbox THEN delivery[p] ELSE FreshState]
    BY <1>23 DEF EndPass, settled
  <2>2. cur \notin Packages
    BY <1>1, <2>1 DEF TypeOK, Working
  <2>3. \A p \in Packages \ receipts : delivery[p].state # "sending"
    BY <2>1, <2>2 DEF Resumed, MayBeSending
  <2>4. \A p \in Packages \ receipts : delivery'[p].state # "sending"
    BY <2>1, <2>3 DEF FreshState
  <2> QED
    BY <2>1, <2>4 DEF Resumed
<1>24. CASE Pass
  BY <1>10, <1>11, <1>12, <1>13, <1>16, <1>17, <1>18, <1>19, <1>20, <1>21, <1>22, <1>23, <1>24
  DEF Pass
<1>25. CASE Environment
  BY <1>4, <1>5, <1>6, <1>25 DEF Environment
<1>26. CASE Thread
  BY <1>7, <1>8, <1>9, <1>24, <1>26 DEF Thread
<1> QED
  BY <1>2, <1>3, <1>25, <1>26 DEF Next

\* When the thread rests, nothing is still reported as being sent: whatever the
\* killed Client left as sending, the forced pass of the restart has looked at
\* (serve, run_pass, next_attempt_utc).
THEOREM RestartSettles == Spec => []NoStaleSending
<1>1. Init => Resumed
  <2>1. FreshState.state = "waiting"
    BY DEF FreshState
  <2>2. Init => \A p \in Packages : delivery[p] = FreshState
    BY DEF Init
  <2> QED
    BY <2>1, <2>2 DEF Resumed
<1>2. TypeOK /\ Resumed => NoStaleSending
  <2> SUFFICES ASSUME TypeOK, Resumed, phase = "wait", NEW p \in outbox \ receipts
               PROVE  delivery[p].state = "waiting"
    BY DEF NoStaleSending
  <2>1. p \in Packages /\ cur \notin Packages
    BY DEF TypeOK, Working
  <2>2. delivery[p].state # "sending"
    BY <2>1 DEF Resumed, MayBeSending
  <2>3. delivery[p].state \in {"waiting", "sending"}
    BY <2>1 DEF TypeOK, State
  <2> QED
    BY <2>2, <2>3
<1>3. IInv => TypeOK
  BY DEF IInv
<1> QED
  BY <1>1, <1>2, <1>3, Invariance, ResumedStep, PTL DEF Spec
=============================================================================
