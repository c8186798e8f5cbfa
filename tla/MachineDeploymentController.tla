-------------------- MODULE MachineDeploymentController --------------------
(***************************************************************************)
(* The machine deployment controller (deployment*.go): a sync reads the    *)
(* deployment and its machine sets and resizes the sets, by a rolling      *)
(* update, by recreation, or in proportion after a scaling event.  Sets    *)
(* are numbered by creation and set t carries template t.  Every resize is *)
(* an Update of the copy the sync read: it fails when the copy is stale.   *)
(* The machine set controller appears by what it does to the sizes.        *)
(***************************************************************************)
EXTENDS Integers, FiniteSets, SequencesExt

CONSTANTS
    MaxSets,         \* templates, and so machine sets, that may be used
    MaxReplicas,     \* largest Spec.Replicas of the deployment
    MaxTerminating,  \* bound on the machines of a set that are being deleted
    MaxEdits,        \* bound on the edits of the deployment
    Scenarios        \* deployments and what may happen to them

EventNames == {"scale", "pause", "rollback", "fail", "update error", "stale", "late"}
IntOrString == [percent : BOOLEAN, value : Nat]
Scenario ==
    [type : {"RollingUpdate", "Recreate"},  \* spec.strategy.type
     maxSurge : IntOrString,                \* spec.strategy.rollingUpdate.maxSurge
     maxUnavailable : IntOrString,          \* spec.strategy.rollingUpdate.maxUnavailable
     replicas : 1 .. MaxReplicas,           \* largest Spec.Replicas
     sets : 1 .. MaxSets,                   \* templates that are used
     edits : 0 .. MaxEdits,                 \* edits of the deployment
     events : SUBSET EventNames]            \* what else may happen

ASSUME ShapeAssumption ==
    /\ MaxSets \in Nat /\ MaxReplicas \in Nat
    /\ MaxTerminating \in Nat \ {0} /\ MaxEdits \in Nat
    /\ \A s \in Scenarios : s \in Scenario

VARIABLES
    env,      \* the scenario
    d,        \* Spec of the deployment, without its strategy
    set,      \* the machine sets on the API server
    cache,    \* the machine sets in the lister
    mach,     \* the machines of each set
    edits,    \* edits of the deployment made so far
    turn      \* flips with every sync

vars == <<env, d, set, cache, mach, edits, turn>>

Set == 1 .. MaxSets
Deployment == [replicas : 0 .. MaxReplicas, template : Set, paused : BOOLEAN]
NoSet == [there |-> FALSE, spec |-> 0, status |-> 0, avail |-> 0, desired |-> 0, max |-> 0]

(* The machines of a set.  unseen: those the machine lister does not show  *)
(* yet; plan: those the set's sync in flight has still to create; late:    *)
(* those that were created after, or not shown when, the set was emptied   *)
(* (bookkeeping: no step depends on it).                                   *)
NoMachine ==
    [live |-> 0, ready |-> 0, terminating |-> 0, unseen |-> 0, plan |-> 0, late |-> 0]
Machines(i) == mach[i].live + mach[i].terminating

Smaller(a, b) == IF a < b THEN a ELSE b
Larger(a, b) == IF a > b THEN a ELSE b

-----------------------------------------------------------------------------
(* The limits of a rolling update.                                         *)

GetValueFromIntOrPercent(v, total, roundUp) ==
    IF v.percent THEN (v.value * total + (IF roundUp THEN 99 ELSE 0)) \div 100 ELSE v.value

ResolveFenceposts(desired) ==
    LET surge == GetValueFromIntOrPercent(env.maxSurge, desired, TRUE)
        unavailable == GetValueFromIntOrPercent(env.maxUnavailable, desired, FALSE)
    IN [surge |-> surge,
        unavailable |-> IF surge = 0 /\ unavailable = 0 THEN 1 ELSE unavailable]

MaxSurge == IF env.type = "RollingUpdate" THEN ResolveFenceposts(d.replicas).surge ELSE 0

MaxUnavailable ==
    IF env.type = "RollingUpdate" /\ d.replicas > 0
    THEN Smaller(ResolveFenceposts(d.replicas).unavailable, d.replicas) ELSE 0

MinAvailable == d.replicas - MaxUnavailable

-----------------------------------------------------------------------------
(* What a sync computes from the sets it read, "view".                     *)

Total(sizes(_), ids) == MapThenSumSet(sizes, ids)
GetReplicaCount(view, ids) == LET spec(i) == view[i].spec IN Total(spec, ids)
GetActualReplicaCount(view, ids) == LET status(i) == view[i].status IN Total(status, ids)
GetAvailableReplicaCount(view, ids) == LET avail(i) == view[i].avail IN Total(avail, ids)

Existing(view) == {i \in Set : view[i].there}
FindOldMachineSets(view) == Existing(view) \ {d.template}
FilterActiveMachineSets(view, ids) == {i \in ids : view[i].spec > 0}

Init ==
    /\ env \in Scenarios
    /\ \E n \in 1 .. env.replicas :
        /\ d = [replicas |-> n, template |-> 1, paused |-> FALSE]
        /\ set = [i \in Set |-> IF i > 1 THEN NoSet ELSE
               [there |-> TRUE, spec |-> n, status |-> n, avail |-> n, desired |-> n,
                max |-> n + (IF env.type = "RollingUpdate" THEN ResolveFenceposts(n).surge
                             ELSE 0)]]
        /\ mach = [i \in Set |-> IF i > 1 THEN NoMachine ELSE
               [NoMachine EXCEPT !.live = n, !.ready = n]]
    /\ cache = set
    /\ edits = 0
    /\ turn = FALSE

(* Mutant: the surge is not counted. *)
NewISWithoutSurge(view, new) ==
    IF env.type = "Recreate" THEN d.replicas ELSE
    LET current == GetActualReplicaCount(view, Existing(view))
    IN IF current >= d.replicas THEN new.spec
       ELSE new.spec + Smaller(d.replicas - current, d.replicas - new.spec)

NewISNewReplicas(view, new) ==
    IF env.type = "Recreate" THEN d.replicas ELSE
    LET current == GetActualReplicaCount(view, Existing(view))
        limit == d.replicas + GetValueFromIntOrPercent(env.maxSurge, d.replicas, TRUE)
    IN IF current >= limit THEN new.spec
       ELSE new.spec + Smaller(limit - current, d.replicas - new.spec)

IsScalingEvent(view) ==
    \E i \in FilterActiveMachineSets(view, Set) : view[i].desired # d.replicas

IsSaturated(is) ==
    is.there /\ is.spec = d.replicas /\ is.desired = d.replicas /\ is.avail = d.replicas

(* A run of resizes: the sets as they become, and whether every Update of  *)
(* the run succeeded so far.  "broken" are the sets whose Update fails.    *)
Run(view) == [view |-> view, ok |-> TRUE, left |-> 0]

SetReplicasAnnotations(is) == [is EXCEPT !.desired = d.replicas, !.max = d.replicas + MaxSurge]

ScaleMachineSet(run, i, n, broken) ==
    LET is == [SetReplicasAnnotations(run.view[i]) EXCEPT !.spec = n]
    IN IF ~run.ok \/ is = run.view[i] THEN run
       ELSE IF i \in broken THEN [run EXCEPT !.ok = FALSE]
       ELSE [run EXCEPT !.view[i] = is]

ScaleMachineSetAndRecordEvent(run, i, n, broken) ==
    IF run.view[i].spec = n THEN run ELSE ScaleMachineSet(run, i, n, broken)

Oldest(ids) == SetToSortSeq(ids, <)

-----------------------------------------------------------------------------
(* The rolling update.                                                     *)

GetNewMachineSet(run, broken) ==
    LET is == [SetReplicasAnnotations(NoSet) EXCEPT
                   !.there = TRUE, !.spec = NewISNewReplicas(run.view, NoSet)]
    IN IF run.view[d.template].there THEN run
       ELSE IF d.template \in broken THEN [run EXCEPT !.ok = FALSE]
       ELSE [run EXCEPT !.view[d.template] = is]

ReconcileNewMachineSet(run, broken) ==
    LET new == run.view[d.template]
        n == IF new.spec < d.replicas THEN NewISNewReplicas(run.view, new) ELSE d.replicas
    IN ScaleMachineSetAndRecordEvent(run, d.template, n, broken)

CleanupUnhealthyReplicas(run, old, maxCleanupCount, broken) ==
    LET clean(r, i) ==
            LET is == r.view[i]
                count == Smaller(r.left, is.spec - is.avail)
            IN IF ~r.ok \/ r.left <= 0 \/ is.spec = is.avail THEN r
               ELSE IF count < 0 THEN [r EXCEPT !.ok = FALSE]
               ELSE [ScaleMachineSetAndRecordEvent(r, i, is.spec - count, broken)
                         EXCEPT !.left = r.left - count]
    IN FoldLeft(clean, [run EXCEPT !.left = maxCleanupCount], Oldest(old))

(* Mutant: machines are counted that are not available yet. *)
ScaleDownByReplicas(run, old, broken) ==
    LET spare == GetReplicaCount(run.view, old \cup {d.template}) - MinAvailable
        shrink(r, i) ==
            LET count == Smaller(r.view[i].spec, r.left)
            IN IF ~r.ok \/ count <= 0 THEN r
               ELSE [ScaleMachineSetAndRecordEvent(r, i, r.view[i].spec - count, broken)
                         EXCEPT !.left = r.left - count]
    IN FoldLeft(shrink, [run EXCEPT !.left = spare], Oldest(old))

ScaleDownOldMachineSetsForRollingUpdate(run, old, broken) ==
    LET spare == GetAvailableReplicaCount(run.view, old \cup {d.template}) - MinAvailable
        shrink(r, i) ==
            LET count == Smaller(r.view[i].spec, r.left)
            IN IF ~r.ok \/ count <= 0 THEN r
               ELSE [ScaleMachineSetAndRecordEvent(r, i, r.view[i].spec - count, broken)
                         EXCEPT !.left = r.left - count]
    IN FoldLeft(shrink, [run EXCEPT !.left = spare], Oldest(old))

ReconcileOldMachineSets(run, broken) ==
    LET new == run.view[d.template]
        old == FilterActiveMachineSets(run.view, FindOldMachineSets(run.view))
        maxScaledDown == GetReplicaCount(run.view, Existing(run.view)) - MinAvailable
                             - (new.spec - new.avail)
    IN IF old = {} \/ maxScaledDown <= 0 THEN run
       ELSE ScaleDownOldMachineSetsForRollingUpdate(
                CleanupUnhealthyReplicas(run, old, maxScaledDown, broken), old, broken)

RolloutRolling(view, broken) ==
    LET found == GetNewMachineSet(Run(view), broken)
        grown == ReconcileNewMachineSet(found, broken)
    IN IF grown # found \/ ~grown.ok THEN grown ELSE ReconcileOldMachineSets(grown, broken)

-----------------------------------------------------------------------------
(* Recreation: old sets are emptied before the new one is created.         *)

ScaleDownOldMachineSetsForRecreate(view, broken) ==
    LET empty(r, i) == ScaleMachineSetAndRecordEvent(r, i, 0, broken)
    IN FoldLeft(empty, Run(view), Oldest(FindOldMachineSets(view)))


OldMachinesRunning(view) ==
    \/ GetActualReplicaCount(view, FindOldMachineSets(view)) > 0
    \/ \E i \in FindOldMachineSets(view) : Machines(i) > mach[i].unseen

RolloutRecreate(view, broken) ==
    LET emptied == ScaleDownOldMachineSetsForRecreate(view, broken)
        found == GetNewMachineSet(emptied, broken)
    IN IF emptied # Run(view) \/ OldMachinesRunning(view) THEN emptied
       ELSE IF ~found.ok THEN found
       ELSE ScaleMachineSetAndRecordEvent(found, d.template, d.replicas, broken)

-----------------------------------------------------------------------------
(* Scaling events and paused deployments.                                  *)

GetMachineSetFraction(is) ==
    IF d.replicas = 0 THEN -is.spec
    ELSE (2 * is.spec * (d.replicas + MaxSurge) + is.max) \div (2 * is.max) - is.spec


GetProportion(is, toAdd, added) ==
    IF is.spec = 0 \/ toAdd = 0 \/ toAdd = added THEN 0
    ELSE IF toAdd > 0 THEN Smaller(GetMachineSetFraction(is), toAdd - added)
    ELSE Larger(GetMachineSetFraction(is), toAdd - added)

AllowedSize == IF d.replicas > 0 THEN d.replicas + MaxSurge ELSE 0

ProportionalSizes(view, active) ==
    LET toAdd == AllowedSize - GetReplicaCount(view, active)
        newer(i, j) == IF view[i].spec = view[j].spec THEN i > j ELSE view[i].spec > view[j].spec
        older(i, j) == IF view[i].spec = view[j].spec THEN i < j ELSE view[i].spec > view[j].spec
        order == IF toAdd > 0 THEN SetToSortSeq(active, newer) ELSE SetToSortSeq(active, older)
        grow(acc, i) == LET part == GetProportion(view[i], toAdd, acc.added)
                        IN [size |-> [acc.size EXCEPT ![i] = @ + part],
                            added |-> acc.added + part]
        shares == FoldLeft(grow, [size |-> [i \in active |-> view[i].spec], added |-> 0], order)
    IN [order |-> order, toAdd |-> toAdd, added |-> shares.added,
        size |-> [shares.size EXCEPT ![order[1]] = Larger(0, @ + toAdd - shares.added)]]

ScaleProportionally(view, active, broken) ==
    LET plan == ProportionalSizes(view, active)
        resize(r, i) == ScaleMachineSet(r, i, plan.size[i], broken)
    IN FoldLeft(resize, Run(view), plan.order)

FindLatest(view) == IF view[d.template].there THEN d.template ELSE Max(Existing(view))

Scale(view, broken) ==
    LET active == FilterActiveMachineSets(view, Set)
        activeOrLatest == IF active = {} THEN {FindLatest(view)} ELSE active
        empty(r, i) == ScaleMachineSetAndRecordEvent(r, i, 0, broken)
    IN IF Cardinality(activeOrLatest) = 1
       THEN LET i == CHOOSE i \in activeOrLatest : TRUE
            IN ScaleMachineSetAndRecordEvent(Run(view), i, d.replicas, broken)
       ELSE IF IsSaturated(view[d.template])
       THEN FoldLeft(empty, Run(view), Oldest(active \ {d.template}))
       ELSE IF env.type = "RollingUpdate" THEN ScaleProportionally(view, active, broken)
       ELSE Run(view)

-----------------------------------------------------------------------------
(* Steps.  Without "stale" the set lister always shows the API server's    *)
(* state; without "late" the machine lister does, and a set's sync is one  *)
(* step with each of its creations.                                        *)

Publish == cache' = IF "stale" \in env.events THEN cache ELSE set'

Sync ==
    \E failing \in IF "update error" \in env.events THEN SUBSET Set ELSE {{}} :
        LET view == cache
            broken == failing \cup {i \in Set : view[i] # set[i]}
            run == IF d.paused \/ IsScalingEvent(view) THEN Scale(view, broken)
                   ELSE IF env.type = "Recreate" THEN RolloutRecreate(view, broken)
                   ELSE RolloutRolling(view, broken)
        IN /\ set' = [i \in Set |-> IF run.view[i] = view[i] THEN set[i] ELSE run.view[i]]
           /\ Publish
           /\ turn' = ~turn
           /\ mach' = [i \in Set |-> [mach[i] EXCEPT !.late =
                  IF set'[i].spec > set[i].spec THEN 0
                  ELSE IF set'[i].spec = 0 /\ set[i].spec > 0 THEN mach[i].unseen ELSE @]]
           /\ UNCHANGED <<env, d, edits>>

InformerSync(i) ==
    /\ cache[i] # set[i]
    /\ cache' = [cache EXCEPT ![i] = set[i]]
    /\ UNCHANGED <<env, d, set, mach, edits, turn>>

(* What the machine set controller and the machine controller do.  A sync  *)
(* of a set counts the machines the lister shows, and may create more than *)
(* it should: one more than the deployment's largest size, here.           *)
LiveBound == env.replicas + 1

PlanCreations(i) ==
    LET diff == set[i].spec - (mach[i].live - mach[i].unseen)
    IN /\ "late" \in env.events
       /\ mach[i].plan = 0
       /\ diff > 0
       /\ mach[i].live + diff <= LiveBound
       /\ mach' = [mach EXCEPT ![i].plan = diff]
       /\ UNCHANGED <<env, d, set, cache, edits, turn>>

CreateMachine(i) ==
    /\ IF "late" \in env.events THEN mach[i].plan > 0 ELSE mach[i].live < set[i].spec
    /\ mach' = [mach EXCEPT ![i].live = @ + 1, ![i].plan = Larger(0, @ - 1),
                            ![i].unseen = IF "late" \in env.events THEN @ + 1 ELSE 0,
                            ![i].late = IF set[i].spec = 0 THEN @ + 1 ELSE @]
    /\ UNCHANGED <<env, d, set, cache, edits, turn>>

MachineShown(i) ==
    /\ mach[i].unseen > 0
    /\ mach' = [mach EXCEPT ![i].unseen = @ - 1]
    /\ UNCHANGED <<env, d, set, cache, edits, turn>>

DeleteMachine(i) ==
    /\ mach[i].plan = 0
    /\ mach[i].live - mach[i].unseen > set[i].spec
    /\ mach[i].terminating < MaxTerminating
    /\ mach' = [mach EXCEPT ![i].live = @ - 1, ![i].terminating = @ + 1,
                            ![i].ready = Smaller(@, mach[i].live - 1)]
    /\ UNCHANGED <<env, d, set, cache, edits, turn>>

(* The machine that goes is a late one, or it is not.  Those the lister    *)
(* does not show are not being deleted.                                    *)
DeletionEnds(i) ==
    /\ mach[i].terminating > 0
    /\ \E late \in {mach[i].late - 1, mach[i].late} \cap (0 .. Machines(i) - 1) :
          /\ set[i].spec = 0 => late >= mach[i].unseen
          /\ mach' = [mach EXCEPT ![i].terminating = @ - 1, ![i].late = late]
    /\ UNCHANGED <<env, d, set, cache, edits, turn>>

MachineJoins(i) ==
    /\ mach[i].ready < mach[i].live
    /\ mach' = [mach EXCEPT ![i].ready = @ + 1]
    /\ UNCHANGED <<env, d, set, cache, edits, turn>>

MachineFails(i) ==
    /\ "fail" \in env.events
    /\ mach[i].ready > 0
    /\ mach' = [mach EXCEPT ![i].ready = @ - 1]
    /\ UNCHANGED <<env, d, set, cache, edits, turn>>

UpdateMachineSetStatus(i) ==
    /\ set[i].there
    /\ mach[i].plan = 0
    /\ set' = [set EXCEPT ![i].status = Machines(i) - mach[i].unseen,
                          ![i].avail = Smaller(mach[i].ready, mach[i].live - mach[i].unseen)]
    /\ set' # set
    /\ Publish
    /\ UNCHANGED <<env, d, mach, edits, turn>>

(* Edits of the deployment.                                                *)
Edit(new) ==
    /\ edits < env.edits
    /\ d' = new
    /\ d' # d
    /\ edits' = edits + 1
    /\ UNCHANGED <<env, set, cache, mach, turn>>

NewTemplate ==
    \E t \in 1 .. env.sets : /\ t \notin Existing(set)
                             /\ \A i \in Set : i < t => i \in Existing(set)
                             /\ Edit([d EXCEPT !.template = t])
Rollback == "rollback" \in env.events /\ \E t \in Existing(set) : Edit([d EXCEPT !.template = t])
ScaleDeployment ==
    "scale" \in env.events /\ \E n \in 0 .. env.replicas : Edit([d EXCEPT !.replicas = n])
Pause == "pause" \in env.events /\ Edit([d EXCEPT !.paused = ~d.paused])

Next ==
    \/ Sync
    \/ \E i \in Set : \/ InformerSync(i)
                      \/ PlanCreations(i)
                      \/ CreateMachine(i)
                      \/ MachineShown(i)
                      \/ DeleteMachine(i)
                      \/ DeletionEnds(i)
                      \/ MachineJoins(i)
                      \/ MachineFails(i)
                      \/ UpdateMachineSetStatus(i)
    \/ NewTemplate
    \/ Rollback
    \/ ScaleDeployment
    \/ Pause

Spec == Init /\ [][Next]_vars

(* Workers and informers keep running (a deployment is synced again after  *)
(* ten minutes at the latest), the provider brings machines up and takes   *)
(* them down, and edits happen or not.  Sync is always possible, so        *)
(* fairness of it says that the turn flips for ever.                       *)
Fairness ==
    /\ []<><<Sync>>_turn
    /\ \A i \in Set : /\ WF_vars(InformerSync(i))
                      /\ WF_vars(PlanCreations(i))
                      /\ WF_vars(CreateMachine(i))
                      /\ WF_vars(MachineShown(i))
                      /\ WF_vars(DeleteMachine(i))
                      /\ WF_vars(DeletionEnds(i))
                      /\ WF_vars(MachineJoins(i))
                      /\ WF_vars(UpdateMachineSetStatus(i))
FairSpec == Spec /\ Fairness

-----------------------------------------------------------------------------
(* Properties.                                                             *)

SizeBound == 2 * (MaxReplicas + GetValueFromIntOrPercent(env.maxSurge, MaxReplicas, TRUE))

(* Type invariant; no size computed from stale statuses or by rounding is  *)
(* ever negative, and none leaves the limits of the deployment by far      *)
(* (checked as part of AvailabilityKept).                                  *)
TypeOK ==
    /\ d \in Deployment
    /\ \A sets \in {set, cache} :
          sets \in [Set -> [there : BOOLEAN, spec : 0 .. SizeBound, status : 0 .. SizeBound,
                           avail : 0 .. SizeBound, desired : 0 .. MaxReplicas,
                           max : 0 .. SizeBound]]
    /\ mach \in [Set -> [live : 0 .. SizeBound, ready : 0 .. SizeBound,
                         terminating : 0 .. MaxTerminating, unseen : 0 .. SizeBound,
                         plan : 0 .. SizeBound, late : 0 .. SizeBound]]
    /\ edits \in 0 .. MaxEdits

(* Machines that are available and will be kept by the machine sets.       *)
Kept == LET kept(i) == Smaller(set[i].spec, mach[i].ready) IN Total(kept, Set)

(* While a rollout goes forward (no node fails, nobody scales or rolls     *)
(* back) scaling down old machine sets leaves MinAvailable machines that   *)
(* are available and stay, however late statuses arrive.                   *)
AvailabilityKept ==
    /\ TypeOK
    /\ env.type = "RollingUpdate" /\ env.events \cap {"scale", "rollback", "fail"} = {}
           => Kept >= MinAvailable



RolloutDone == \A i \in Set : set[i].spec = IF i = d.template THEN d.replicas ELSE 0

(* Once the deployment is left alone, unpaused, its machines end up all on *)
(* the current template and in the requested number, after pauses and      *)
(* rollbacks, and in a recreation after scaling: where Updates and         *)
(* machines do not fail for ever, and a rolling update is not scaled, of   *)
(* which scale (deployment_sync.go:408) may lose one: it returns without   *)
(* writing the annotation when the only active set has the size already.   *)
UndisturbedRolloutCompletes ==
    LET undisturbed == /\ env.events \cap {"fail", "update error"} = {}
                       /\ env.type = "RollingUpdate" => "scale" \notin env.events
    IN  <>[](undisturbed /\ ~d.paused => RolloutDone)

(* machinedeployment_types.go:160: in a rollout of a new template the      *)
(* number of machines is at most replicas + maxSurge.                      *)
SurgeRespected ==
    LET machines(i) == mach[i].live IN Total(machines, Set) <= d.replicas + MaxSurge

=============================================================================
