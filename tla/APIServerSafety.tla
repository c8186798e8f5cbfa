--------------------------- MODULE APIServerSafety ---------------------------
(***************************************************************************)
(* The API-server check of the safety controller                           *)
(* (reconcileClusterMachineSafetyAPIServer in machine_safety.go): it        *)
(* freezes the machine controller when the control or the target API       *)
(* server is out of reach, and resets the health of the machines before it *)
(* unfreezes it.  It lives on one workqueue key, which createWorker drops  *)
(* after MaxRetries errors in a row.                                       *)
(***************************************************************************)
EXTENDS Integers, FiniteSets

CONSTANTS
    Machine,
    Timeout,     \* statusCheckTimeout, in ticks of the clock
    MaxRetries,  \* maxRetries of the workqueue
    Faults       \* what may fail while the reset loop runs: "outage", "deletion", "call"

ASSUME BoundsAssumption == Timeout \in Nat /\ MaxRetries \in Nat

VARIABLES
    up,        \* the API servers that can be reached
    frozen,    \* safetyOptions.MachineControllerFrozen
    since,     \* time since safetyOptions.APIserverInactiveStartTime; Unset: zero time
    key,       \* the workqueue key: "queued" (or due later), "resetting", "dropped"
    requeues,  \* NumRequeues of the key
    todo,      \* the machines the reset loop has still to read and write
    phase,     \* phase of each Machine on the API server
    seen,      \* phase of each Machine in the lister
    tainted    \* machines Unknown, on the API server and in the lister, since the freeze

vars == <<up, frozen, since, key, requeues, todo, phase, seen, tainted>>

Servers == {"control", "target"}
Unset == -1
Phase == {"Running", "Unknown", "Failed", "Terminating", "gone"}

Min(a, b) == IF a < b THEN a ELSE b

Init ==
    /\ up = Servers
    /\ frozen = FALSE
    /\ since = Unset
    /\ key = "queued"
    /\ requeues = 0
    /\ todo = {}
    /\ phase = [m \in Machine |-> "Running"]
    /\ seen = phase
    /\ tainted = {}

-----------------------------------------------------------------------------
IsAPIServerUp == up = Servers

\* Not frozen: start the timer at the first failure, freeze once it has run out.  A check
\* that finds the servers up leaves the timer alone.
CheckWhileRunning ==
    /\ key = "queued"
    /\ ~frozen
    /\ since' = IF ~IsAPIServerUp /\ since = Unset THEN 0 ELSE since
    /\ frozen' = (~IsAPIServerUp /\ since' > Timeout)
    /\ tainted' = IF frozen' THEN {m \in Machine : phase[m] = "Unknown" /\ seen[m] = "Unknown"}
                             ELSE {}
    /\ requeues' = 0
    /\ UNCHANGED <<up, key, todo, phase, seen>>

\* Frozen and the servers are up: list the machines and start to reset the Unknown ones.
StartReset ==
    /\ key = "queued"
    /\ frozen
    /\ IsAPIServerUp
    /\ key' = "resetting"
    /\ todo' = {m \in Machine : seen[m] = "Unknown"}
    /\ UNCHANGED <<up, frozen, since, requeues, phase, seen, tainted>>

StayFrozen ==
    /\ key = "queued"
    /\ frozen
    /\ ~IsAPIServerUp
    /\ requeues' = 0
    /\ UNCHANGED <<up, frozen, since, key, todo, phase, seen, tainted>>

\* Get, then UpdateStatus, whatever the phase read by Get is.
ResetMachine(m) ==
    /\ key = "resetting"
    /\ m \in todo
    /\ "control" \in up
    /\ phase[m] # "gone"
    /\ phase' = [phase EXCEPT ![m] = "Running"]
    /\ todo' = todo \ {m}
    /\ tainted' = tainted \ {m}
    /\ UNCHANGED <<up, frozen, since, key, requeues, seen>>

\* The worker after an error.
Retry ==
    IF requeues < MaxRetries THEN key' = "queued" /\ requeues' = requeues + 1
                             ELSE key' = "dropped" /\ requeues' = 0

\* Mutant: the loop goes on after an error.
ResetSkips(m) ==
    /\ key = "resetting"
    /\ m \in todo
    /\ "control" \notin up \/ phase[m] = "gone" \/ "call" \in Faults
    /\ todo' = todo \ {m}
    /\ UNCHANGED <<up, frozen, since, key, requeues, phase, seen, tainted>>

\* Mutant: the loop tries the machine again until it succeeds.
ResetInsists(m) ==
    /\ key = "resetting"
    /\ m \in todo
    /\ "control" \notin up \/ phase[m] = "gone" \/ "call" \in Faults
    /\ UNCHANGED vars

\* Get or UpdateStatus fails and the check returns the error before it enqueues its key
\* again: from here the key lives on the retries of the worker only.
ResetFails(m) ==
    /\ key = "resetting"
    /\ m \in todo
    /\ "control" \notin up \/ phase[m] = "gone" \/ "call" \in Faults
    /\ todo' = {}
    /\ Retry
    /\ UNCHANGED <<up, frozen, since, phase, seen, tainted>>

Unfreeze ==
    /\ key = "resetting"
    /\ todo = {}
    /\ frozen' = FALSE
    /\ since' = Unset
    /\ key' = "queued"
    /\ requeues' = 0
    /\ tainted' = {}
    /\ UNCHANGED <<up, todo, phase, seen>>

-----------------------------------------------------------------------------
(***************************************************************************)
(* The world: time, the API servers, the machines.                         *)
(***************************************************************************)
Tick ==
    /\ since' = IF since = Unset THEN Unset ELSE Min(since + 1, Timeout + 1)
    /\ UNCHANGED <<up, frozen, key, requeues, todo, phase, seen, tainted>>

Outage(s) ==
    /\ s \in up
    /\ key = "resetting" => "outage" \in Faults
    /\ up' = up \ {s}
    /\ UNCHANGED <<frozen, since, key, requeues, todo, phase, seen, tainted>>

Recovery(s) ==
    /\ s \notin up
    /\ up' = up \cup {s}
    /\ UNCHANGED <<frozen, since, key, requeues, todo, phase, seen, tainted>>

\* Other writes to a machine: its health, the health timeout, its deletion.
PhaseChange(m) ==
    /\ "control" \in up
    /\ \E p \in Phase \ {phase[m]} :
          /\ \/ phase[m] = "Running" /\ p = "Unknown" /\ ~frozen
             \/ phase[m] = "Unknown" /\ p \in {"Running", "Failed"} /\ ~frozen
             \/ phase[m] # "gone" /\ p = "Terminating"
             \/ phase[m] = "Terminating" /\ p = "gone" /\ "deletion" \in Faults
          /\ phase' = [phase EXCEPT ![m] = p]
    /\ tainted' = tainted \ {m}
    /\ UNCHANGED <<up, frozen, since, key, requeues, todo, seen>>

ListerSync(m) ==
    /\ "control" \in up
    /\ seen' = [seen EXCEPT ![m] = phase[m]]
    /\ UNCHANGED <<up, frozen, since, key, requeues, todo, phase, tainted>>

Next ==
    \/ CheckWhileRunning \/ StartReset \/ StayFrozen \/ Unfreeze \/ Tick
    \/ \E m \in Machine : ResetMachine(m) \/ ResetFails(m) \/ PhaseChange(m) \/ ListerSync(m)
    \/ \E s \in Servers : Outage(s) \/ Recovery(s)

Spec == Init /\ [][Next]_vars

\* A queued key is processed, and a reset loop goes on; nothing is assumed of the servers.
Fairness ==
    /\ WF_vars(CheckWhileRunning) /\ WF_vars(StartReset) /\ WF_vars(StayFrozen) /\ WF_vars(Unfreeze)
    /\ \A m \in Machine : WF_vars(ResetMachine(m) \/ ResetFails(m)) /\ WF_vars(ListerSync(m))

FairSpec == Spec /\ Fairness

-----------------------------------------------------------------------------
\* Type invariant; the worker never uses more than MaxRetries retries of the key, and the
\* timer never runs past the timeout it is compared with (controller.go:342-358).
TypeOK ==
    /\ up \subseteq Servers
    /\ frozen \in BOOLEAN
    /\ since \in Unset .. Timeout + 1
    /\ key \in {"queued", "resetting", "dropped"}
    /\ requeues \in 0 .. MaxRetries
    /\ todo \subseteq Machine
    /\ phase \in [Machine -> Phase]
    /\ seen \in [Machine -> Phase]
    /\ tainted \subseteq Machine

\* A machine that is Unknown from the freeze on never comes out of it with its old health
\* timer: the controller is unfrozen only after all of them have been reset, however many
\* attempts of the loop failed half-way (machine_safety.go:80-122).
ResetBeforeUnfreeze == [][frozen /\ ~frozen' => tainted = {}]_vars

\* docs/FAQ.md:83: once both servers stay reachable the controller is unfrozen again.  This
\* needs a live key: errors of the reset loop end before the key is enqueued, and after
\* MaxRetries of them in a row nobody unfreezes the controller (machine_safety.go:80-122).
Thaws == []<>(~frozen \/ ~IsAPIServerUp \/ key = "dropped")

=============================================================================
