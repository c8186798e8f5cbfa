------------------------- MODULE OvershootingSafety -------------------------
(***************************************************************************)
(* The overshooting check of the safety controller                         *)
(* (reconcileClusterMachineSafetyOvershooting, pkg/controller/             *)
(* machine_safety.go): a machine set with too many machines is frozen,     *)
(* with its deployment, by a Frozen condition and a freeze label, which    *)
(* are two writes to the API server for each object.  A pass has four      *)
(* parts; each decides from the listers, makes its calls and gives up at   *)
(* the first call that fails.  Machine set syncs run beside it: they do    *)
(* not create machines in a set they read with the label, and write back   *)
(* the conditions they read.                                               *)
(***************************************************************************)
EXTENDS Integers, SequencesExt

CONSTANTS
    Set,          \* machine sets
    Scenarios,    \* choices for the environment, see Scenario
    Replicas,     \* Spec.Replicas of the deployment and of the other sets
    Surge,        \* strategy.rollingUpdate.maxSurge, resolved
    SafetyUp,
    SafetyDown,
    MaxMachines,  \* bound on the machines of a set
    NoSync        \* no sync of the machine set is running

EventNames == {"set lags", "deployment lags", "unfreeze set", "unfreeze deployment",
               "call error", "claim error"}

\* The sets that belong to the deployment, those that ever have machines, and what may happen.
Scenario == [owned : SUBSET Set, active : SUBSET Set, events : SUBSET EventNames]

ASSUME LimitsAssumption ==
    /\ {Replicas, Surge, SafetyUp, SafetyDown, MaxMachines} \subseteq Nat
    /\ Scenarios \subseteq Scenario

VARIABLES
    env,    \* the scenario, chosen in the beginning
    count,  \* machines of each set
    obj,    \* the sets and the deployment on the API server
    seen,   \* the same in the listers
    stage,  \* the part of the pass that decides next
    todo,   \* calls of the current part that have still to be made: freeze, unfreeze or
            \* annotate (op) the status, labels or annotations (on) of an object (to)
    fresh,  \* nobody has written the object since the last call
    snap    \* what the sync of each machine set read

vars == <<env, count, obj, seen, stage, todo, fresh, snap>>

Deployment == "deployment"
Thing == Set \cup {Deployment}

\* The freeze label, the Frozen condition and the unfreeze annotation of an object.
Thawed == [label |-> FALSE, cond |-> FALSE, unfreeze |-> FALSE]

Init ==
    /\ env \in Scenarios
    /\ count = [s \in Set |-> 0]
    /\ obj = [o \in Thing |-> Thawed]
    /\ seen = obj
    /\ stage = "check"
    /\ todo = <<>>
    /\ fresh = FALSE
    /\ snap = [s \in Set |-> NoSync]

-----------------------------------------------------------------------------
(* Limits and decisions.                                                   *)

\* An object as the lister has it.
Lags(o) == (IF o = Deployment THEN "deployment lags" ELSE "set lags") \in env.events
Seen(o) == IF Lags(o) THEN seen[o] ELSE obj[o]

HigherThreshold(s) == IF s \in env.owned THEN Replicas + Surge + SafetyUp ELSE 2 * Replicas + SafetyUp
LowerThreshold(s) == HigherThreshold(s) - SafetyDown

\* UpdateStatus of the object just read, then Update of the object it returned.
Both(op, o) == <<[op |-> op, on |-> "status", to |-> o], [op |-> op, on |-> "labels", to |-> o]>>
IfOwned(s, calls) == IF s \in env.owned THEN calls ELSE <<>>

FreezeMachineSetAndDeployment(s) == Both("freeze", s) \o IfOwned(s, Both("freeze", Deployment))
UnfreezeMachineSetAndDeployment(s) ==
    IfOwned(s, Both("unfreeze", Deployment)) \o Both("unfreeze", s)

ExceedsLimit(s) == ~Seen(s).label /\ count[s] >= HigherThreshold(s)

\* Mutant: a condition without label is not looked at.
BelowLimitByLabel(s) == count[s] <= LowerThreshold(s) /\ Seen(s).label

BelowLimit(s) == count[s] <= LowerThreshold(s) /\ (Seen(s).label \/ Seen(s).cond)

-----------------------------------------------------------------------------
(* The parts of a pass.                                                    *)

Decide(from, to, calls) ==
    /\ stage = from /\ todo = <<>>
    /\ stage' = to
    /\ todo' = calls
    /\ fresh' = FALSE
    /\ UNCHANGED <<env, count, obj, seen, snap>>

\* The loop returns at the first set to freeze or to unfreeze; sets come in any order.
CheckAndFreezeORUnfreezeMachineSets ==
    \/ \E s \in Set : ExceedsLimit(s) /\ Decide("check", "sync", FreezeMachineSetAndDeployment(s))
    \/ \E s \in Set : /\ ~ExceedsLimit(s) /\ BelowLimit(s)
                      /\ Decide("check", "sync", UnfreezeMachineSetAndDeployment(s))
    \/ /\ \A s \in Set : ~ExceedsLimit(s) /\ ~BelowLimit(s)
       /\ Decide("check", "sync", <<>>)

HasFrozenMachineSet == \E s \in env.owned : Seen(s).label \/ Seen(s).cond

\* Mutant: a deployment with one of the two marks counts as frozen.
SyncHalfFrozen(claimed) ==
    LET d == Seen(Deployment)
        frozen == claimed /\ HasFrozenMachineSet
    IN Decide("sync", "deployment",
              IF frozen /\ ~(d.label \/ d.cond) THEN Both("freeze", Deployment)
              ELSE IF ~frozen /\ (d.label \/ d.cond) THEN Both("unfreeze", Deployment)
              ELSE <<>>)

\* When claiming the sets fails the deployment counts as one without frozen sets.
SyncMachineDeploymentFreezeState(claimed) ==
    LET d == Seen(Deployment)
        frozen == claimed /\ HasFrozenMachineSet
    IN Decide("sync", "deployment",
              IF frozen /\ ~(d.label /\ d.cond) THEN Both("freeze", Deployment)
              ELSE IF ~frozen /\ (d.label \/ d.cond) THEN Both("unfreeze", Deployment)
              ELSE <<>>)

\* The request is taken off the deployment, then passed on to its sets one by one;
\* when claiming the sets fails, to none.
UnfreezeMachineDeploymentsWithUnfreezeAnnotation(claimed) ==
    \E order \in SetToSeqs(IF claimed THEN env.owned ELSE {}) :
        LET annotate == [i \in DOMAIN order |->
                            [op |-> "annotate", on |-> "annotations", to |-> order[i]]]
        IN Decide("deployment", "sets",
                  IF Seen(Deployment).unfreeze THEN Both("unfreeze", Deployment) \o annotate
                  ELSE <<>>)

UnfreezeMachineSetsWithUnfreezeAnnotation ==
    \E order \in SetToSeqs({s \in Set : Seen(s).unfreeze}) :
        Decide("sets", "check",
               FlattenSeq([i \in DOMAIN order |-> Both("unfreeze", order[i])]))

-----------------------------------------------------------------------------
(* The calls.  UpdateStatus and the annotation follow a Get; the Update of *)
(* the labels uses what UpdateStatus returned and fails after any other    *)
(* write.                                                                  *)

Write(o, call) ==
    CASE call.on = "status" -> [o EXCEPT !.cond = (call.op = "freeze")]
      [] call.on = "labels" -> IF call.op = "freeze" THEN [o EXCEPT !.label = TRUE]
                               ELSE [o EXCEPT !.label = FALSE, !.unfreeze = FALSE]
      [] call.on = "annotations" -> [o EXCEPT !.unfreeze = TRUE]

CallSucceeds ==
    /\ todo # <<>>
    /\ LET call == Head(todo) IN
          /\ call.on = "labels" => fresh
          /\ obj' = [obj EXCEPT ![call.to] = Write(@, call)]
    /\ todo' = Tail(todo)
    /\ fresh' = TRUE
    /\ UNCHANGED <<env, count, seen, stage, snap>>

CallFails ==
    /\ todo # <<>>
    /\ "call error" \in env.events \/ (Head(todo).on = "labels" /\ ~fresh)
    /\ todo' = <<>>
    /\ fresh' = FALSE
    /\ UNCHANGED <<env, count, obj, seen, stage, snap>>

-----------------------------------------------------------------------------
(* Machine set syncs, users, machines and listers.                         *)

Touched(o) == fresh' = (fresh /\ (todo = <<>> \/ Head(todo).to # o))

\* Get from the API server.
SyncReads(s) ==
    /\ s \in env.active
    /\ snap[s] = NoSync
    /\ snap' = [snap EXCEPT ![s] = [label |-> obj[s].label, cond |-> obj[s].cond]]
    /\ UNCHANGED <<env, count, obj, seen, stage, todo, fresh>>

SyncCreates(s) ==
    /\ snap[s] # NoSync
    /\ ~snap[s].label
    /\ count[s] < MaxMachines
    /\ count' = [count EXCEPT ![s] = @ + 1]
    /\ UNCHANGED <<env, obj, seen, stage, todo, fresh, snap>>

\* The status is written again after a conflict, with the conditions read in the beginning.
SyncWritesStatus(s) ==
    /\ snap[s] # NoSync
    /\ obj' = [obj EXCEPT ![s].cond = snap[s].cond]
    /\ snap' = [snap EXCEPT ![s] = NoSync]
    /\ Touched(s)
    /\ UNCHANGED <<env, count, seen, stage, todo>>

\* Nothing in the status has changed.
SyncEnds(s) ==
    /\ snap[s] # NoSync
    /\ snap' = [snap EXCEPT ![s] = NoSync]
    /\ UNCHANGED <<env, count, obj, seen, stage, todo, fresh>>

MachineGoes(s) ==
    /\ count[s] > 0
    /\ count' = [count EXCEPT ![s] = @ - 1]
    /\ UNCHANGED <<env, obj, seen, stage, todo, fresh, snap>>

Request(o) ==
    /\ (IF o = Deployment THEN "unfreeze deployment" ELSE "unfreeze set") \in env.events
    /\ ~obj[o].unfreeze
    /\ obj' = [obj EXCEPT ![o].unfreeze = TRUE]
    /\ Touched(o)
    /\ UNCHANGED <<env, count, seen, stage, todo, snap>>

ListerSync(o) ==
    /\ Lags(o)
    /\ seen[o] # obj[o]
    /\ seen' = [seen EXCEPT ![o] = obj[o]]
    /\ UNCHANGED <<env, count, obj, stage, todo, fresh, snap>>

Claimed == IF "claim error" \in env.events THEN BOOLEAN ELSE {TRUE}

Part ==
    \/ CheckAndFreezeORUnfreezeMachineSets
    \/ \E claimed \in Claimed : \/ SyncMachineDeploymentFreezeState(claimed)
                               \/ UnfreezeMachineDeploymentsWithUnfreezeAnnotation(claimed)
    \/ UnfreezeMachineSetsWithUnfreezeAnnotation

Next ==
    \/ Part
    \/ CallSucceeds \/ CallFails
    \/ \E s \in Set : \/ SyncReads(s) \/ SyncCreates(s) \/ SyncWritesStatus(s) \/ SyncEnds(s)
                      \/ MachineGoes(s)
    \/ \E o \in Thing : Request(o) \/ ListerSync(o)

Spec == Init /\ [][Next]_vars

\* The key is enqueued again after every pass; calls return; listers and syncs make progress.
Fairness ==
    /\ WF_vars(Part) /\ WF_vars(CallSucceeds \/ CallFails)
    /\ \A o \in Thing : WF_vars(ListerSync(o))
    /\ \A s \in Set : WF_vars(SyncEnds(s))

FairSpec == Spec /\ Fairness

-----------------------------------------------------------------------------
\* What keeps the safety controller from settling: failing calls, claims that fail while a
\* set is frozen, machines that come and go, conditions written back meanwhile, new requests.
Disturbance ==
    \/ CallFails
    \/ HasFrozenMachineSet /\ SyncMachineDeploymentFreezeState(FALSE)
    \/ \E s \in Set : \/ SyncCreates(s) \/ MachineGoes(s)
                      \/ SyncWritesStatus(s) /\ obj' # obj
    \/ \E o \in Thing : Request(o)

\* Whatever calls failed half-way and whatever conditions the machine set controller wrote
\* back: once things are quiet, every set with too many machines carries the freeze label,
\* every set at or below the lower threshold carries neither label nor condition, and no
\* request to unfreeze is left over.
FreezeSettles ==
    <>[][~Disturbance]_vars =>
        <>[](\A s \in Set :
                /\ count[s] >= HigherThreshold(s) => obj[s].label
                /\ count[s] <= LowerThreshold(s) /\ SafetyDown > 0 => ~obj[s].label /\ ~obj[s].cond
                /\ ~obj[s].unfreeze)

\* Once things are quiet, label and condition of the deployment agree with each other and
\* with its sets: it is frozen if and only if one of them is (syncMachineDeploymentFreezeState
\* is there "to keep it consistent").
DeploymentFollows ==
    <>[][~Disturbance]_vars =>
        <>[](LET frozen == \E s \in env.owned : obj[s].label \/ obj[s].cond
             IN obj[Deployment] = [label |-> frozen, cond |-> frozen, unfreeze |-> FALSE])

=============================================================================
