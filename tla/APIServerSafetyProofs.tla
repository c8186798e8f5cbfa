------------------------ MODULE APIServerSafetyProofs ------------------------
(***************************************************************************)
(* The check of the API servers, for any set of machines, any timeout, any *)
(* number of retries and any faults: its variables keep their types, and   *)
(* the machine controller is unfrozen only after every machine that was    *)
(* Unknown since the freeze has been reset.                                *)
(***************************************************************************)
EXTENDS APIServerSafety, TLAPS

\* Nobody is left to be reset while the controller runs; who is left is Unknown
\* on the API server and in the lister, so that the next loop will list it; and
\* a loop under way has all of them before it.  The property alone is not
\* inductive: it says nothing of what a loop that starts, or fails, has listed.
ResetInv ==
    /\ ~frozen => tainted = {}
    /\ \A m \in tainted : phase[m] = "Unknown" /\ seen[m] = "Unknown"
    /\ key = "resetting" => frozen /\ tainted \subseteq todo

\* The zero time lies within the bounds of the timer.
LEMMA UnsetInRange == Unset \in Unset .. Timeout + 1
<1>1. Unset \in Int /\ Timeout + 1 \in Int /\ Unset <= Timeout + 1
  BY BoundsAssumption DEF Unset
<1> QED
  BY <1>1

\* The variables start with their types and keep them in every step; the retries
\* of the key and the timer stay within their bounds.
LEMMA TypeInit == Init => TypeOK
<1> SUFFICES ASSUME Init PROVE TypeOK
  OBVIOUS
<1>1. since \in Unset .. Timeout + 1
  BY UnsetInRange, Zenon DEF Init
<1>2. requeues \in 0 .. MaxRetries
  BY BoundsAssumption DEF Init
<1>3. phase \in [Machine -> Phase] /\ seen \in [Machine -> Phase]
  BY DEF Init, Phase
<1> QED
  BY <1>1, <1>2, <1>3, Zenon DEF Init, TypeOK

LEMMA TypeStep == TypeOK /\ [Next]_vars => TypeOK'
<1> SUFFICES ASSUME TypeOK, [Next]_vars PROVE TypeOK'
  OBVIOUS
<1> USE BoundsAssumption DEF TypeOK, Unset
<1>1. CASE CheckWhileRunning
  BY <1>1 DEF CheckWhileRunning
<1>2. CASE StartReset
  BY <1>2 DEF StartReset
<1>3. CASE StayFrozen
  BY <1>3 DEF StayFrozen
<1>4. CASE Unfreeze
  <2>1. since' \in Unset .. Timeout + 1
    BY <1>4, UnsetInRange, Zenon DEF Unfreeze
  <2>2. requeues' \in 0 .. MaxRetries
    BY <1>4 DEF Unfreeze
  <2> QED
    BY <1>4, <2>1, <2>2, Zenon DEF Unfreeze
<1>5. CASE Tick
  BY <1>5 DEF Tick, Min
<1>6. ASSUME NEW m \in Machine, ResetMachine(m) PROVE TypeOK'
  BY <1>6 DEF ResetMachine, Phase
<1>7. ASSUME NEW m \in Machine, ResetFails(m) PROVE TypeOK'
  BY <1>7 DEF ResetFails, Retry
<1>8. ASSUME NEW m \in Machine, PhaseChange(m) PROVE TypeOK'
  <2>1. PICK p \in Phase : phase' = [phase EXCEPT ![m] = p]
    BY <1>8, ZenonT(60) DEF PhaseChange
  <2> QED
    BY <1>8, <2>1 DEF PhaseChange
<1>9. ASSUME NEW m \in Machine, ListerSync(m) PROVE TypeOK'
  BY <1>9 DEF ListerSync
<1>10. ASSUME NEW s \in Servers, Outage(s) \/ Recovery(s) PROVE TypeOK'
  BY <1>10 DEF Outage, Recovery
<1>11. CASE UNCHANGED vars
  BY <1>11 DEF vars
<1> QED
  BY <1>1, <1>2, <1>3, <1>4, <1>5, <1>6, <1>7, <1>8, <1>9, <1>10, <1>11 DEF Next

\* The type invariant holds for every value of the constants: the key of the
\* check is retried at most MaxRetries times in a row.
THEOREM TypeCorrect == Spec => []TypeOK
  BY TypeInit, TypeStep, PTL DEF Spec

\* ResetInv holds at the start and through every step.
LEMMA ResetInit == Init => ResetInv
  BY DEF Init, ResetInv

LEMMA ResetStep == TypeOK /\ ResetInv /\ [Next]_vars => ResetInv'
<1> SUFFICES ASSUME TypeOK, ResetInv, [Next]_vars PROVE ResetInv'
  OBVIOUS
<1> USE DEF TypeOK, ResetInv
<1>1. CASE CheckWhileRunning
  BY <1>1 DEF CheckWhileRunning
<1>2. CASE StartReset
  BY <1>2 DEF StartReset
<1>3. CASE StayFrozen
  BY <1>3 DEF StayFrozen
<1>4. CASE Unfreeze
  BY <1>4 DEF Unfreeze
<1>5. CASE Tick
  BY <1>5 DEF Tick
<1>6. ASSUME NEW m \in Machine, ResetMachine(m) PROVE ResetInv'
  BY <1>6 DEF ResetMachine
<1>7. ASSUME NEW m \in Machine, ResetFails(m) PROVE ResetInv'
  BY <1>7 DEF ResetFails, Retry
<1>8. ASSUME NEW m \in Machine, PhaseChange(m) PROVE ResetInv'
  <2>1. PICK p \in Phase : phase' = [phase EXCEPT ![m] = p]
    BY <1>8, ZenonT(60) DEF PhaseChange
  <2> QED
    BY <1>8, <2>1 DEF PhaseChange
<1>9. ASSUME NEW m \in Machine, ListerSync(m) PROVE ResetInv'
  BY <1>9 DEF ListerSync
<1>10. ASSUME NEW s \in Servers, Outage(s) \/ Recovery(s) PROVE ResetInv'
  BY <1>10 DEF Outage, Recovery
<1>11. CASE UNCHANGED vars
  BY <1>11 DEF vars
<1> QED
  BY <1>1, <1>2, <1>3, <1>4, <1>5, <1>6, <1>7, <1>8, <1>9, <1>10, <1>11 DEF Next

\* Only Unfreeze ends a freeze, and it finds the loop with nothing left to do.
LEMMA UnfreezeStep == ResetInv /\ [Next]_vars => [frozen /\ ~frozen' => tainted = {}]_vars
<1> SUFFICES ASSUME ResetInv, Next, frozen, ~frozen' PROVE tainted = {}
  BY DEF vars
<1>1. Unfreeze
  BY ZenonT(60) DEF Next, CheckWhileRunning, StartReset, StayFrozen, Tick, ResetMachine, ResetFails,
         PhaseChange, ListerSync, Outage, Recovery
<1> QED
  BY <1>1 DEF Unfreeze, ResetInv

\* A machine that is Unknown from the freeze on is reset before the machine
\* controller is unfrozen, for any number of machines, retries and faults.
THEOREM ResetFirst == Spec => ResetBeforeUnfreeze
<1>1. Spec => [](TypeOK /\ ResetInv)
  BY TypeCorrect, ResetInit, ResetStep, PTL DEF Spec
<1>2. TypeOK /\ ResetInv /\ [Next]_vars => [frozen /\ ~frozen' => tainted = {}]_vars
  BY UnfreezeStep
<1> QED
  BY <1>1, <1>2, PTL DEF Spec, ResetBeforeUnfreeze

=============================================================================
