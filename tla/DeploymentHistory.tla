------------------------- MODULE DeploymentHistory -------------------------
(***************************************************************************)
(* What a sync of the machine deployment controller does besides choosing  *)
(* sizes: it claims machine sets (controller_ref_manager.go), numbers them *)
(* (deployment_sync.go), rolls back (deployment_rollback.go), deletes old  *)
(* sets beyond the history limit, reports progress                         *)
(* (deployment_progress.go) and deletes the deployment (deployment.go).    *)
(* Every call to the API server is a step of its own.  The deployment has  *)
(* one replica, maxSurge 1 and maxUnavailable 0: how several machines are  *)
(* shared out is the subject of MachineDeploymentController.  The name of  *)
(* a set is made of the hash of its template, so that a set is identified  *)
(* with its template.                                                      *)
(***************************************************************************)
EXTENDS Integers, FiniteSets, Sequences, FiniteSetsExt, Functions

CONSTANTS
    Templates,    \* machine templates, and so machine sets, that may be used
    None,         \* no template, no rollback, no limit
    MaxEdits,     \* bound on what users do
    MaxFaults,    \* bound on crashes and failed calls
    MaxRevision,  \* revisions that can be reached within these bounds
    Scenarios     \* deployments and what may happen to them

EventNames == {"edit", "rollback", "pause", "delete", "orphan", "relabel",
               "delete set", "stale", "crash"}
Reasons == {"none", "NewMachineSetCreated", "FoundNewMachineSet",
            "MachineSetUpdated", "NewMachineSetAvailable",
            "ProgressDeadlineExceeded", "DeploymentPaused",
            "DeploymentResumed", "MachineSetCreateError"}
Scenario ==
    [templates : SUBSET Templates,    \* the templates users choose from
     start : Templates,               \* the template at the start
     past : UNION {[1 .. n -> Templates] : n \in 0 .. 2},
                                      \* what is rolled out by then, start included
     bad : SUBSET Templates,          \* templates whose machines never join
     limit : {None} \cup 0 .. 2,      \* spec.revisionHistoryLimit
     deadline : BOOLEAN,              \* whether spec.progressDeadlineSeconds is set
     edits : 0 .. MaxEdits,           \* how often users act
     events : SUBSET EventNames]      \* what may happen

ASSUME HistoryAssumption ==
    /\ None \notin Templates \cup Nat
    /\ MaxEdits \in Nat /\ MaxFaults \in Nat /\ MaxRevision \in Nat
    /\ \A s \in Scenarios : /\ s \in Scenario
                            /\ IsInjective(s.past)
                            /\ s.past # <<>> => s.start = s.past[Len(s.past)]
                            /\ s.limit # None => Len(s.past) <= s.limit + 1

VARIABLES
    env,     \* the scenario
    dep,     \* the machine deployment on the API server
    sets,    \* its machine sets on the API server
    order,   \* the sets in the order of their creation timestamps
    cache,   \* the sets as the lister shows them
    cached,  \* the sets whose latest version the lister shows
    w,       \* the sync in progress
    edits,   \* what users have done so far
    faults,  \* crashes and failed calls so far
    trail,   \* the template each revision was last given to
    rested   \* a whole deadline has passed since a noticed pause ended

vars == <<env, dep, sets, order, cache, cached, w, edits, faults, trail, rested>>

Deployments ==
    [there : BOOLEAN, deleting : BOOLEAN, finalizer : BOOLEAN,
     template : Templates, paused : BOOLEAN,
     rollbackTo : {None} \cup 0 .. MaxRevision,
     revision : 0 .. MaxRevision,     \* the revision annotation
     observed : BOOLEAN,              \* status.observedGeneration is current
     total : Nat, updated : Nat, available : Nat,  \* counts of the status
     reason : Reasons,                \* reason of the Progressing condition
     late : BOOLEAN]                  \* its update is older than the deadline

MachineSets ==
    [there : BOOLEAN, owned : BOOLEAN, matches : BOOLEAN, deleting : BOOLEAN,
     revision : 0 .. MaxRevision, spec : 0 .. 1,
     status : 0 .. 1, available : 0 .. 1, observed : BOOLEAN]

NoSet == [there |-> FALSE, owned |-> FALSE, matches |-> FALSE,
          deleting |-> FALSE, revision |-> 0, spec |-> 0,
          status |-> 0, available |-> 0, observed |-> FALSE]

NewDeployment(t) ==
    [there |-> TRUE, deleting |-> FALSE, finalizer |-> FALSE, template |-> t,
     paused |-> FALSE, rollbackTo |-> None, revision |-> 0,
     observed |-> FALSE, total |-> 0, updated |-> 0, available |-> 0,
     reason |-> "none", late |-> FALSE]

NoSync ==
    [pc |-> "idle", mode |-> None, d |-> None, same |-> FALSE,
     view |-> [t \in Templates |-> NoSet], current |-> {}, mine |-> {},
     new |-> None, todo |-> {}, scaled |-> FALSE, err |-> FALSE]

\* The same after the rollouts of env.past, undisturbed.
RolledOut(d) ==
    [d EXCEPT !.finalizer = TRUE, !.revision = Len(env.past), !.observed = TRUE,
              !.total = 1, !.updated = 1, !.available = 1,
              !.reason = IF env.deadline THEN "NewMachineSetAvailable" ELSE "none"]
PastSet(r) ==
    LET n == IF r = Len(env.past) THEN 1 ELSE 0
    IN  [there |-> TRUE, owned |-> TRUE, matches |-> TRUE, deleting |-> FALSE,
         revision |-> r, spec |-> n, status |-> n, available |-> n, observed |-> TRUE]

Init ==
    /\ env \in Scenarios
    /\ LET d == NewDeployment(env.start)
       IN  dep = IF env.past = <<>> THEN d ELSE RolledOut(d)
    /\ sets = [t \in Templates |-> IF t \in Range(env.past)
                                   THEN PastSet(CHOOSE r \in DOMAIN env.past : env.past[r] = t)
                                   ELSE NoSet]
    /\ order = env.past
    /\ cache = sets
    /\ cached = Templates
    /\ w = NoSync
    /\ edits = 0
    /\ faults = 0
    /\ trail = [r \in 1 .. MaxRevision |-> IF r \in DOMAIN env.past THEN env.past[r] ELSE None]
    /\ rested = TRUE

-----------------------------------------------------------------------------
(* The API server and the lister. *)

\* What the lister shows, and which of it is the latest version.
Listed(t) == IF "stale" \in env.events THEN cache[t] ELSE sets[t]
ListedCurrent == IF "stale" \in env.events THEN cached ELSE Templates

\* Set t is written: copies of it that are held elsewhere are out of date.
Write(t, s) ==
    /\ sets' = [sets EXCEPT ![t] = s]
    /\ cached' = IF "stale" \in env.events THEN cached \ {t} ELSE cached
    /\ UNCHANGED cache

\* A call may fail; a failed call is one of the faults.
Fault ==
    /\ "crash" \in env.events
    /\ faults < MaxFaults
    /\ faults' = faults + 1

\* The n members of S that were created first.
Position(t) == CHOOSE i \in 1 .. Len(order) : order[i] = t
Oldest(n, S) ==
    {t \in S : Cardinality({u \in S : Position(u) < Position(t)}) < n}

-----------------------------------------------------------------------------
(* Operators of deployment_util.go. *)

Old(v) == v.mine \ {v.new}
All(v) == v.mine \cup ({v.new} \ {None})
Active(v) == {t \in All(v) : v.view[t].spec > 0}
Count(v, field) == Cardinality({t \in All(v) : v.view[t][field] = 1})

FindNewMachineSet(v) == IF v.d.template \in v.mine THEN v.d.template ELSE None

MaxRevisionOf(v, S) == Max({0} \cup {v.view[t].revision : t \in S})

\* The second largest revision; a revision that two sets share counts twice.
LastRevision(v) ==
    LET max == MaxRevisionOf(v, All(v))
        top == {t \in All(v) : v.view[t].revision = max}
    IN  IF Cardinality(top) > 1 THEN max ELSE MaxRevisionOf(v, All(v) \ top)

SetMachineDeploymentCondition(d, reason) ==
    IF d.reason = reason THEN d ELSE [d EXCEPT !.reason = reason, !.late = FALSE]

MachineDeploymentComplete(s) ==
    s.updated = 1 /\ s.total = 1 /\ s.available = 1 /\ s.observed

\* Mutant: as many old machines as before count as progress.
ProgressWithoutChange(d, s) ==
    \/ s.updated > d.updated
    \/ s.total - s.updated <= d.total - d.updated
    \/ s.available > d.available
MachineDeploymentProgressing(d, s) ==
    \/ s.updated > d.updated
    \/ s.total - s.updated < d.total - d.updated
    \/ s.available > d.available

MachineDeploymentTimedOut(s) ==
    /\ s.reason \notin {"none", "NewMachineSetAvailable"}
    /\ (s.reason = "ProgressDeadlineExceeded" \/ s.late)

calculateDeploymentStatus(v) ==
    [v.d EXCEPT !.observed = TRUE,
                !.total = Count(v, "status"),
                !.updated = IF v.new = None THEN 0 ELSE v.view[v.new].status,
                !.available = Count(v, "available")]

\* The status a rollout reports (syncRolloutStatus).
RolloutStatus(v) ==
    LET s == calculateDeploymentStatus(v)
        complete == s.total = s.updated /\ s.reason = "NewMachineSetAvailable"
    IN  CASE ~env.deadline -> [s EXCEPT !.reason = "none", !.late = FALSE]
          [] env.deadline /\ complete -> s
          [] OTHER ->
             CASE MachineDeploymentComplete(s) ->
                    SetMachineDeploymentCondition(s, "NewMachineSetAvailable")
               [] ~MachineDeploymentComplete(s) /\ MachineDeploymentProgressing(v.d, s) ->
                    [s EXCEPT !.reason = "MachineSetUpdated", !.late = FALSE]
               [] OTHER ->
                    IF MachineDeploymentTimedOut(s)
                    THEN SetMachineDeploymentCondition(s, "ProgressDeadlineExceeded")
                    ELSE s

\* The old sets to scale down (reconcileOldMachineSets): those without an
\* available machine as far as availability allows, then what the others have
\* in excess.
reconcileOldMachineSets(v) ==
    LET active == {t \in Old(v) : v.view[t].spec = 1}
        healthy == {t \in active : v.view[t].available = 1}
        max == Cardinality(active) - 1 + v.view[v.new].available
        excess == Cardinality(healthy) + v.view[v.new].available - 1
    IN  IF max <= 0 THEN {}
        ELSE Oldest(max, active \ healthy) \cup Oldest(excess, healthy)

reconcileNewMachineSet(v) ==
    {t \in {v.new} : v.view[t].spec = 0 /\ Count(v, "status") < 2}

\* The newest of S.
Newest(S) == {t \in S : \A u \in S : Position(u) <= Position(t)}

\* The sets a paused deployment resizes.  One active set, or the latest, is to have the one
\* machine; old ones have none once the new set is saturated.  Otherwise the sets may have two
\* machines together (one surge): the proportion of each is the machine it has, and what they have
\* too many is taken off the oldest, which cannot go below zero.
scale(v) ==
    LET active == Active(v)
        saturated == v.new \in active /\ v.view[v.new].available = 1
    IN  CASE active = {} /\ v.new # None -> {v.new}
          [] active = {} /\ v.new = None -> Newest(v.mine)
          [] Cardinality(active) > 1 /\ saturated -> active \ {v.new}
          [] Cardinality(active) > 2 /\ ~saturated -> Oldest(1, active)
          [] OTHER -> {}

\* The set to resize next: scale goes from the newest to the oldest, a rollout scales down sets
\* without an available machine first and then the older ones.
NextToResize(v) ==
    LET ill == {t \in v.todo : v.view[t].available = 0}
    IN  IF v.mode = "sync" THEN Newest(v.todo)
        ELSE Oldest(1, IF ill # {} THEN ill ELSE v.todo)

\* Mutant: sets that still have machines are deleted too.
cleanupAnySize(v) ==
    LET cleanable == {t \in Old(v) : ~v.view[t].deleting}
    IN  IF env.limit = None THEN {}
        ELSE Oldest(Cardinality(cleanable) - env.limit, cleanable)

\* The old sets to delete (cleanupMachineDeployment).
cleanupMachineDeployment(v) ==
    LET cleanable == {t \in Old(v) : ~v.view[t].deleting}
    IN  IF env.limit = None THEN {}
        ELSE {t \in Oldest(Cardinality(cleanable) - env.limit, cleanable) :
                v.view[t].status = 0 /\ v.view[t].spec = 0 /\ v.view[t].observed}

\* Mutant: the revision asked for is ignored.
RollbackToLast(v) ==
    LET found == {t \in Old(v) : v.view[t].revision = LastRevision(v)}
    IN  IF found = {} THEN v.d.template ELSE CHOOSE t \in found : t \in Oldest(1, found)

\* The template a rollback goes to, or the present one when the revision is
\* not found.
RollbackTemplate(v) ==
    LET r == IF v.d.rollbackTo = 0 THEN LastRevision(v) ELSE v.d.rollbackTo
        found == {t \in Old(v) : v.view[t].revision = r}
    IN  IF r = 0 \/ found = {} THEN v.d.template
        ELSE CHOOSE t \in found : t \in Oldest(1, found)

-----------------------------------------------------------------------------
(* How a sync goes on: v is the record of the sync after a step. *)

Sync(v) == w' = v
Return == Sync(NoSync)

\* A status that says what the copy says already is not written.
NewStatus(v) ==
    IF v.mode = "rollout" THEN RolloutStatus(v) ELSE calculateDeploymentStatus(v)
ToStatus(v) ==
    Sync(IF NewStatus(v) = v.d THEN NoSync
         ELSE [NoSync EXCEPT !.pc = "status", !.same = v.same, !.d = NewStatus(v)])

Cleaned(v) ==
    \/ v.todo # {} /\ Sync(v)
    \/ v.todo = {} /\ ToStatus(v)

CleansUp(v) ==
    \/ v.mode = "rollout" /\ ~v.scaled /\ MachineDeploymentComplete(v.d)
    \/ v.mode = "sync" /\ v.d.rollbackTo = None

\* Resizing goes on until all is done, or given up.
Resized(v) ==
    \/ v.todo # {} /\ Sync(v)
    \/ /\ v.todo = {} /\ CleansUp(v)
       /\ \E u \in {[v EXCEPT !.pc = "cleanup", !.todo = cleanupMachineDeployment(v)]} :
            Cleaned(u)
    \/ v.todo = {} /\ ~CleansUp(v) /\ ToStatus(v)

Resizes(v) ==
    IF v.mode = "sync" THEN scale(v)
    ELSE IF reconcileNewMachineSet(v) # {} THEN reconcileNewMachineSet(v)
         ELSE reconcileOldMachineSets(v)

\* The new set is known, created or not wanted.
Proceed(v) ==
    \/ v.mode = "status" /\ ToStatus(v)
    \/ /\ v.mode = "rollback"
       /\ Sync([NoSync EXCEPT !.pc = "rollback", !.same = v.same,
                              !.d = [v.d EXCEPT !.template = RollbackTemplate(v)]])
    \/ /\ v.mode \in {"sync", "rollout"}
       /\ \E u \in {[v EXCEPT !.pc = "resize", !.todo = Resizes(v)]} : Resized(u)

\* Mutant: the next number is the last one.
NewRevisionTaken(v) == Max({1, MaxRevisionOf(v, v.mine \ {FindNewMachineSet(v)})})

NewRevision(v) == MaxRevisionOf(v, v.mine \ {FindNewMachineSet(v)}) + 1

\* Mutant: the deployment's own annotation is not looked at.
InStepOfSet(v) ==
    LET t == FindNewMachineSet(v)
    IN  /\ t # None
        /\ v.view[t].revision >= NewRevision(v)
        /\ ~(env.deadline /\ v.d.reason = "none")

\* The set of the template exists and nothing is to be written for it.
InStep(v) ==
    LET t == FindNewMachineSet(v)
    IN  /\ t # None
        /\ v.view[t].revision >= NewRevision(v)
        /\ v.view[t].revision = v.d.revision
        /\ ~(env.deadline /\ v.d.reason = "none")

\* getNewMachineSet as far as it makes no call.
LookUp(v) ==
    IF InStep(v) \/ (FindNewMachineSet(v) = None /\ v.mode \in {"status", "sync"})
    THEN \E u \in {[v EXCEPT !.new = FindNewMachineSet(v)]} : Proceed(u)
    ELSE Sync([v EXCEPT !.pc = "new"])

\* isScalingEvent looks for the new set before the rollout does.  With the
\* size of the deployment fixed there is no scaling event.
Rollout(v) == \E u \in {[v EXCEPT !.mode = "rollout", !.new = None]} : LookUp(u)

Route(v) ==
    \/ v.d.paused /\ \E u \in {[v EXCEPT !.mode = "sync"]} : LookUp(u)
    \/ /\ ~v.d.paused /\ v.d.rollbackTo # None
       /\ \E u \in {[v EXCEPT !.mode = "rollback"]} : LookUp(u)
    \/ /\ ~v.d.paused /\ v.d.rollbackTo = None
       /\ IF InStep(v) \/ FindNewMachineSet(v) = None THEN Rollout(v)
          ELSE Sync([v EXCEPT !.pc = "new", !.mode = "scaling"])

Found(v) == IF v.mode = "scaling" THEN Rollout(v) ELSE Proceed(v)

\* Mutant: only pausing is recorded.
ResumeUnrecorded(d) ==
    /\ env.deadline
    /\ d.reason # "ProgressDeadlineExceeded"
    /\ d.paused /\ d.reason # "DeploymentPaused"

PauseUnrecorded(d) ==
    /\ env.deadline
    /\ d.reason # "ProgressDeadlineExceeded"
    /\ d.paused # (d.reason = "DeploymentPaused")

\* The sets are claimed.
Claimed(v) ==
    \/ v.d.deleting /\ v.mine = {} /\ Sync([NoSync EXCEPT !.pc = "unfinalize", !.d = v.d])
    \/ v.d.deleting /\ v.mine # {} /\ Sync([v EXCEPT !.pc = "terminate"])
    \/ ~v.d.deleting /\ PauseUnrecorded(v.d) /\ Sync([v EXCEPT !.pc = "paused"])
    \/ ~v.d.deleting /\ ~PauseUnrecorded(v.d) /\ Route(v)

-----------------------------------------------------------------------------
(* A sync (reconcileClusterMachineDeployment). *)

DepKept == UNCHANGED <<dep, rested>>
SetsKept == UNCHANGED <<sets, order, cache, cached, trail>>
NoFault == UNCHANGED faults
UsersIdle == UNCHANGED <<env, edits>>

\* The copy of the deployment is the latest version: an Update of it goes
\* through, any other one is a conflict and ends the sync.
Conflict == ~(w.same /\ dep.there)

\* Mutant: a set that is being deleted is no longer the deployment's.
ClaimLiveMachineSets(v) ==
    LET view == [t \in Templates |-> Listed(t)]
        matching == {t \in Templates : view[t].there /\ view[t].matches /\ ~view[t].deleting}
        mine == {t \in matching : view[t].owned}
        orphans == {t \in matching \ mine : ~v.d.deleting}
        u == [v EXCEPT !.view = view, !.current = ListedCurrent,
                       !.mine = mine, !.todo = orphans]
    IN  \E x \in {u} : IF orphans = {} THEN Claimed(x) ELSE Sync([x EXCEPT !.pc = "recheck"])

\* The sets of the namespace are listed.  Releasing one that no longer matches
\* has no effect: the patch is a JSON merge patch, which does not know
\* "$patch: delete", and the server's refusal is ignored.
ClaimMachineSets(v) ==
    LET view == [t \in Templates |-> Listed(t)]
        matching == {t \in Templates : view[t].there /\ view[t].matches}
        mine == {t \in matching : view[t].owned}
        orphans == {t \in matching \ mine : ~v.d.deleting /\ ~view[t].deleting}
        u == [v EXCEPT !.view = view, !.current = ListedCurrent,
                       !.mine = mine, !.todo = orphans]
    IN  \E x \in {u} : IF orphans = {} THEN Claimed(x) ELSE Sync([x EXCEPT !.pc = "recheck"])

\* Reading the deployment and listing the sets commute with what others do in
\* between.
Start ==
    /\ w.pc = "idle" /\ dep.there
    /\ LET v == [NoSync EXCEPT !.d = dep, !.same = TRUE]
       IN  IF dep.deleting \/ dep.finalizer THEN ClaimMachineSets(v)
           ELSE Sync([v EXCEPT !.pc = "finalizer"])
    /\ DepKept /\ SetsKept /\ NoFault /\ UsersIdle

\* The finalizer goes to the latest version; the copy at hand is out of date.
addMachineDeploymentFinalizers ==
    /\ w.pc = "finalizer"
    /\ \/ /\ dep.there
          /\ dep' = [dep EXCEPT !.finalizer = TRUE]
          /\ ClaimMachineSets([w EXCEPT !.same = FALSE])
          /\ NoFault
       \/ /\ \/ ~dep.there /\ NoFault
             \/ Fault
          /\ ClaimMachineSets(w)
          /\ UNCHANGED dep
    /\ UNCHANGED rested /\ SetsKept /\ UsersIdle

\* Before the first adoption the deployment is read again.
RecheckDeletionTimestamp ==
    /\ w.pc = "recheck"
    /\ IF dep.there /\ ~dep.deleting THEN Sync([w EXCEPT !.pc = "adopt"]) ELSE Return
    /\ DepKept /\ SetsKept /\ NoFault /\ UsersIdle

Adopted(v) ==
    \/ v.todo # {} /\ Sync(v)
    \/ v.todo = {} /\ v.err /\ Return
    \/ v.todo = {} /\ ~v.err /\ Claimed(v)

\* The patch carries no resource version; the sync goes on with the lister's
\* copy, which is out of date from now on.
AdoptMachineSet ==
    /\ w.pc = "adopt"
    /\ \E t \in w.todo :
       \E v \in {[w EXCEPT !.todo = @ \ {t}, !.current = @ \ {t}]} :
         \/ /\ sets[t].there
            /\ Write(t, [sets[t] EXCEPT !.owned = TRUE])
            /\ \E u \in {[v EXCEPT !.mine = @ \cup {t}]} : Adopted(u)
            /\ NoFault
         \/ /\ \/ ~sets[t].there /\ NoFault /\ Adopted(v)
               \/ Fault /\ \E u \in {[v EXCEPT !.err = TRUE]} : Adopted(u)
            /\ UNCHANGED <<sets, cache, cached>>
    /\ DepKept /\ UNCHANGED <<order, trail>> /\ UsersIdle

deleteMachineDeploymentFinalizers ==
    /\ w.pc = "unfinalize"
    /\ \/ dep.there /\ dep' = [dep EXCEPT !.there = FALSE] /\ NoFault
       \/ Fault /\ UNCHANGED dep
    /\ Return
    /\ UNCHANGED rested /\ SetsKept /\ UsersIdle

\* Mutant: only active sets are deleted.
ActiveToTerminate(v) == {t \in v.mine : ~v.view[t].deleting /\ v.view[t].spec > 0}
ToTerminate(v) == {t \in v.mine : ~v.view[t].deleting}

\* The sets are deleted in parallel and failures are dropped.
terminateMachineSets ==
    /\ w.pc = "terminate"
    /\ LET targets == ToTerminate(w)
       IN  \E done \in SUBSET targets :
             /\ \/ done = targets /\ NoFault
                \/ done # targets /\ Fault
             /\ sets' = [t \in Templates |->
                           IF t \in done /\ sets[t].there
                           THEN [sets[t] EXCEPT !.deleting = TRUE] ELSE sets[t]]
             /\ cached' = IF "stale" \in env.events THEN cached \ done ELSE cached
             /\ \E v \in {[w EXCEPT !.current = @ \ done, !.mode = "status"]} : LookUp(v)
    /\ UNCHANGED <<cache, order, trail>> /\ DepKept /\ UsersIdle

checkPausedConditions ==
    /\ w.pc = "paused"
    /\ LET reason == IF w.d.paused THEN "DeploymentPaused" ELSE "DeploymentResumed"
       IN  \/ /\ ~Conflict
              /\ dep' = SetMachineDeploymentCondition(dep, reason)
              /\ \E v \in {[w EXCEPT !.d = SetMachineDeploymentCondition(@, reason),
                                   !.same = FALSE]} : Route(v)
           \/ Conflict /\ Return /\ UNCHANGED dep
    /\ UNCHANGED rested /\ SetsKept /\ NoFault /\ UsersIdle

-----------------------------------------------------------------------------
(* The new machine set and its revision (getNewMachineSet). *)

\* The set exists and its revision is too small.  When isScalingEvent writes
\* it, the rollout that follows still holds the copy from before.
SyncSetRevision ==
    /\ w.pc = "new"
    /\ LET t == FindNewMachineSet(w)
           s == [sets[t] EXCEPT !.revision = NewRevision(w)]
           ok == sets[t].there /\ t \in w.current
       IN  /\ t # None
           /\ w.view[t].revision < NewRevision(w)
           /\ \/ /\ ok
                 /\ Write(t, s)
                 /\ trail' = [trail EXCEPT ![NewRevision(w)] = t]
                 /\ \E v \in {IF w.mode = "scaling" THEN [w EXCEPT !.current = @ \ {t}]
                              ELSE [w EXCEPT !.new = t, !.view[t] = s]} : Found(v)
              \/ /\ ~ok /\ Return
                 /\ UNCHANGED <<sets, cache, cached, trail>>
    /\ DepKept /\ UNCHANGED order /\ NoFault /\ UsersIdle

\* The set exists: its revision goes to the deployment, and the condition that
\* it was found if there is none.
SyncDeploymentRevision ==
    /\ w.pc = "new"
    /\ LET t == FindNewMachineSet(w)
           r == w.view[t].revision
           d == IF env.deadline /\ w.d.reason = "none"
                THEN SetMachineDeploymentCondition(w.d, "FoundNewMachineSet") ELSE w.d
       IN  /\ t # None
           /\ r >= NewRevision(w)
           /\ \/ /\ ~Conflict
                 /\ dep' = [dep EXCEPT !.revision = r]
                 /\ Sync([w EXCEPT !.new = t, !.d = [d EXCEPT !.revision = r], !.pc = "found"])
              \/ Conflict /\ Return /\ UNCHANGED dep
    /\ UNCHANGED rested /\ SetsKept /\ NoFault /\ UsersIdle

\* Only the returned object has the new version; the caller's copy has not.
FoundNewMachineSet ==
    /\ w.pc = "found"
    /\ \/ /\ ~Conflict
          /\ dep' = [dep EXCEPT !.reason = w.d.reason, !.late = w.d.late]
          /\ \E v \in {[w EXCEPT !.same = FALSE]} : Found(v)
       \/ Conflict /\ Return /\ UNCHANGED dep
    /\ UNCHANGED rested /\ SetsKept /\ NoFault /\ UsersIdle

\* The name is a function of the template, so that creating a set the lister
\* does not show fails; the set is then taken from the lister, whoever owns it.
CreateMachineSet ==
    /\ w.pc = "new" /\ FindNewMachineSet(w) = None
    /\ LET t == w.d.template
           s == [NoSet EXCEPT !.there = TRUE, !.owned = TRUE, !.matches = TRUE,
                              !.revision = NewRevision(w),
                              !.spec = IF Count(w, "status") < 2 THEN 1 ELSE 0]
       IN  \/ /\ ~sets[t].there
              /\ Write(t, s)
              /\ order' = Append(SelectSeq(order, LAMBDA u : u # t), t)
              /\ trail' = [trail EXCEPT ![NewRevision(w)] = t]
              /\ Sync([w EXCEPT !.new = t, !.pc = "created", !.view[t] = s,
                                !.current = @ \cup {t}])
           \/ /\ sets[t].there
              /\ Sync(IF ~Listed(t).there THEN NoSync
                      ELSE [w EXCEPT !.new = t, !.pc = "existed", !.view[t] = Listed(t),
                                     !.current = (@ \ {t}) \cup (ListedCurrent \cap {t})])
              /\ SetsKept
    /\ DepKept /\ NoFault /\ UsersIdle

\* Creation fails otherwise: the condition says so, and the sync ends.
CreateFails ==
    /\ w.pc = "new" /\ FindNewMachineSet(w) = None
    /\ Fault
    /\ dep' = IF env.deadline /\ ~Conflict
              THEN SetMachineDeploymentCondition(dep, "MachineSetCreateError") ELSE dep
    /\ Return
    /\ UNCHANGED rested /\ SetsKept /\ UsersIdle

\* UpdateStatus leaves the annotations alone: the revision is noted only in
\* the copy.
CreatedMachineSet ==
    /\ w.pc \in {"created", "existed"}
    /\ LET r == NewRevision(w)
           record == w.pc = "created" /\ env.deadline
           needsUpdate == w.d.revision # r \/ record
           d == [w.d EXCEPT !.revision = r]
           noted == SetMachineDeploymentCondition(d, "NewMachineSetCreated")
       IN  \/ /\ ~record /\ ~(needsUpdate /\ Conflict)
              /\ \E v \in {[w EXCEPT !.d = d]} : Proceed(v)
              /\ UNCHANGED dep
           \/ /\ record /\ ~Conflict
              /\ dep' = SetMachineDeploymentCondition(dep, "NewMachineSetCreated")
              /\ \E v \in {[w EXCEPT !.d = noted, !.same = FALSE]} : Proceed(v)
           \/ /\ needsUpdate /\ Conflict
              /\ Return /\ UNCHANGED dep
    /\ UNCHANGED rested /\ SetsKept /\ NoFault /\ UsersIdle

-----------------------------------------------------------------------------
(* What follows once the new set is known. *)

\* One Update of a set's size.  A failed scale-down of a rollout is dropped
\* and counts as no scale-down; any other failure ends the sync.
scaleMachineSet ==
    /\ w.pc = "resize"
    /\ \E t \in NextToResize(w) :
         LET ok == sets[t].there /\ t \in w.current
         IN  \/ /\ ok
                /\ Write(t, [sets[t] EXCEPT !.spec = 1 - @, !.observed = FALSE])
                /\ \E v \in {[w EXCEPT !.todo = @ \ {t}, !.current = @ \ {t},
                                       !.scaled = TRUE]} : Resized(v)
                /\ NoFault
             \/ /\ \/ ~ok /\ NoFault
                   \/ ok /\ Fault
                /\ IF w.mode = "rollout" /\ w.view[t].spec = 1
                   THEN \E v \in {[w EXCEPT !.todo = {}, !.scaled = FALSE]} : Resized(v)
                   ELSE Return
                /\ UNCHANGED <<sets, cache, cached>>
    /\ DepKept /\ UNCHANGED <<order, trail>> /\ UsersIdle

\* Old sets are deleted, oldest first; a failure ends the sync.
DeleteOldMachineSet ==
    /\ w.pc = "cleanup"
    /\ \E t \in Oldest(1, w.todo) :
       \E v \in {[w EXCEPT !.todo = @ \ {t}, !.current = @ \ {t}]} :
         \/ /\ sets[t].there
            /\ Write(t, [sets[t] EXCEPT !.deleting = TRUE])
            /\ Cleaned(v) /\ NoFault
         \/ /\ \/ ~sets[t].there /\ Cleaned(v) /\ NoFault
               \/ Fault /\ Return
            /\ UNCHANGED <<sets, cache, cached>>
    /\ DepKept /\ UNCHANGED <<order, trail>> /\ UsersIdle

\* syncRolloutStatus and syncMachineDeploymentStatus.
SyncStatus ==
    /\ w.pc = "status"
    /\ dep' = IF Conflict THEN dep
              ELSE [dep EXCEPT !.observed = w.d.observed, !.total = w.d.total,
                               !.updated = w.d.updated, !.available = w.d.available,
                               !.reason = w.d.reason, !.late = w.d.late]
    /\ Return
    /\ UNCHANGED rested /\ SetsKept /\ NoFault /\ UsersIdle

\* Template and request are written by one Update.
rollback ==
    /\ w.pc = "rollback"
    /\ dep' = IF Conflict THEN dep
              ELSE [dep EXCEPT !.template = w.d.template,
                               !.rollbackTo = None, !.observed = FALSE]
    /\ Return
    /\ UNCHANGED rested /\ SetsKept /\ NoFault /\ UsersIdle

Crash ==
    /\ w.pc # "idle"
    /\ Fault
    /\ Return
    /\ DepKept /\ SetsKept /\ UsersIdle

-----------------------------------------------------------------------------
(* Users. *)

MayAct(event) ==
    /\ event \in env.events
    /\ edits < env.edits
    /\ edits' = edits + 1
    /\ UNCHANGED <<env, faults>>

\* The deployment is written from outside: the copy of a sync is out of date.
WriteDeployment(d) ==
    /\ dep' = d
    /\ w' = [w EXCEPT !.same = FALSE]
    /\ SetsKept

EditTemplate(t) ==
    /\ MayAct("edit") /\ dep.there /\ ~dep.deleting
    /\ t \in env.templates \ {dep.template}
    /\ WriteDeployment([dep EXCEPT !.template = t, !.observed = FALSE])
    /\ UNCHANGED rested

AskRollback(r) ==
    /\ MayAct("rollback") /\ dep.there /\ ~dep.deleting
    /\ r = 0 \/ \E t \in Templates : sets[t].revision = r
    /\ WriteDeployment([dep EXCEPT !.rollbackTo = r, !.observed = FALSE])
    /\ UNCHANGED rested

\* Resuming a deployment whose pause was noticed starts the deadline again.
PauseOrResume ==
    /\ MayAct("pause") /\ dep.there /\ ~dep.deleting
    /\ WriteDeployment([dep EXCEPT !.paused = ~@, !.observed = FALSE])
    /\ rested' = (rested /\ ~(dep.paused /\ dep.reason = "DeploymentPaused"))

DeleteDeployment ==
    /\ MayAct("delete") /\ dep.there /\ ~dep.deleting
    /\ WriteDeployment([dep EXCEPT !.deleting = TRUE, !.observed = FALSE,
                                   !.there = dep.finalizer])
    /\ UNCHANGED rested

\* A set is changed from outside.
WriteFromOutside(t, s) ==
    /\ Write(t, s)
    /\ w' = [w EXCEPT !.current = @ \ {t}]
    /\ DepKept /\ UNCHANGED <<order, trail>>

EditMachineSet(t) ==
    /\ sets[t].there
    /\ \/ /\ MayAct("orphan") /\ sets[t].owned
          /\ WriteFromOutside(t, [sets[t] EXCEPT !.owned = FALSE])
       \/ /\ MayAct("relabel") /\ sets[t].matches
          /\ WriteFromOutside(t, [sets[t] EXCEPT !.matches = FALSE])
       \/ /\ MayAct("delete set") /\ ~sets[t].deleting
          /\ WriteFromOutside(t, [sets[t] EXCEPT !.deleting = TRUE])

-----------------------------------------------------------------------------
(* The machine set controller, the machines, time and the informer. *)

MachineSetSync(t) ==
    /\ sets[t].there /\ ~sets[t].deleting
    /\ sets[t].status # sets[t].spec \/ ~sets[t].observed
    /\ WriteFromOutside(t, [sets[t] EXCEPT !.status = sets[t].spec, !.observed = TRUE,
                                           !.available = IF sets[t].spec = 0 THEN 0 ELSE @])
    /\ NoFault /\ UsersIdle

MachineJoins(t) ==
    /\ sets[t].there /\ sets[t].status = 1 /\ sets[t].available = 0
    /\ t \notin env.bad
    /\ WriteFromOutside(t, [sets[t] EXCEPT !.available = 1])
    /\ NoFault /\ UsersIdle

MachineSetGone(t) ==
    /\ sets[t].deleting
    /\ WriteFromOutside(t, NoSet)
    /\ NoFault /\ UsersIdle

DeadlinePasses ==
    /\ env.deadline /\ dep.there
    /\ ~dep.late /\ dep.reason # "none"
    /\ dep' = [dep EXCEPT !.late = TRUE]
    /\ w' = IF w.pc = "idle" THEN w ELSE [w EXCEPT !.d.late = TRUE]
    /\ rested' = TRUE
    /\ SetsKept /\ NoFault /\ UsersIdle

Publish(t) ==
    /\ "stale" \in env.events
    /\ t \notin cached
    /\ cache' = [cache EXCEPT ![t] = sets[t]]
    /\ cached' = cached \cup {t}
    /\ UNCHANGED <<sets, order, trail, w>> /\ DepKept /\ NoFault /\ UsersIdle

-----------------------------------------------------------------------------
Worker ==
    \/ Start
    \/ addMachineDeploymentFinalizers
    \/ RecheckDeletionTimestamp
    \/ AdoptMachineSet
    \/ deleteMachineDeploymentFinalizers
    \/ terminateMachineSets
    \/ checkPausedConditions
    \/ SyncSetRevision
    \/ SyncDeploymentRevision
    \/ FoundNewMachineSet
    \/ CreateMachineSet
    \/ CreateFails
    \/ CreatedMachineSet
    \/ scaleMachineSet
    \/ DeleteOldMachineSet
    \/ SyncStatus
    \/ rollback

Users ==
    \/ \E t \in Templates : EditTemplate(t) \/ EditMachineSet(t)
    \/ \E r \in 0 .. MaxRevision : AskRollback(r)
    \/ PauseOrResume
    \/ DeleteDeployment

MachineSetController(t) == MachineSetSync(t) \/ MachineJoins(t) \/ MachineSetGone(t)

Next ==
    \/ Worker
    \/ Crash
    \/ Users
    \/ \E t \in Templates : MachineSetController(t) \/ Publish(t)
    \/ DeadlinePasses

\* The workqueue hands the deployment out again (deployment.go requeues after
\* ten minutes at the latest), the machine set controller and the informer
\* keep up, and time passes.  Users and crashes are not forced.
Fairness ==
    /\ WF_vars(Worker)
    /\ WF_vars(DeadlinePasses)
    /\ WF_vars(\E t \in Templates : MachineSetController(t))
    /\ WF_vars(\E t \in Templates : Publish(t))

Spec == Init /\ [][Next]_vars
FairSpec == Spec /\ Fairness

-----------------------------------------------------------------------------
(* Properties. *)

\* Every variable has its type (checked along with RollbackFaithful).
TypeOK ==
    /\ env \in Scenarios
    /\ dep \in Deployments
    /\ \A t \in Templates : sets[t] \in MachineSets /\ cache[t] \in MachineSets
    /\ cached \subseteq Templates
    /\ Range(order) \subseteq Templates /\ IsInjective(order)
    /\ w.pc = "idle" => w = NoSync
    /\ w.pc # "idle" => w.d \in Deployments
    /\ edits \in 0 .. env.edits /\ faults \in 0 .. MaxFaults
    /\ trail \in [1 .. MaxRevision -> Templates \cup {None}]

Fresh == "stale" \notin env.events
Owned == {t \in Templates : sets[t].there /\ sets[t].owned /\ sets[t].matches}

\* Two sets of a deployment never have the same revision while the lister
\* keeps up, whatever conflict, crash, rollback, adoption or deletion of a set
\* interrupts a sync: a rollback to a revision is unambiguous.
RevisionsDistinct ==
    Fresh => \A t, u \in Owned :
                t # u /\ sets[t].revision > 0 => sets[t].revision # sets[u].revision

\* A rollback goes to the template the requested revision was given to; a
\* rollback to the last revision goes to the highest revision below that of
\* the present template.  The request is taken back by the same write, so that
\* no retry rolls back once more.  (Every step keeps the types, too.)
RollbackFaithful ==
    [][/\ TypeOK'
       /\ Fresh /\ rollback /\ dep'.template # dep.template =>
            LET below == {sets[t].revision : t \in Owned \ {dep.template}}
                r == IF dep.rollbackTo = 0 THEN Max({0} \cup below) ELSE dep.rollbackTo
            IN  dep'.template = trail[r] /\ dep'.rollbackTo = None]_vars

\* Trimming the history deletes only sets without machines that are not to get
\* any, and, unless users delete sets too, leaves as many old sets as the limit
\* says.
CleanupSpares ==
    [][Fresh /\ DeleteOldMachineSet =>
         \A t \in Templates : sets'[t].deleting /\ ~sets[t].deleting =>
            /\ sets[t].spec = 0 /\ sets[t].status = 0
            /\ env.events \cap {"orphan", "delete set"} = {} =>
                 Cardinality({u \in Owned : ~sets'[u].deleting /\ u # w.d.template})
                   >= env.limit]_vars

\* A deployment is gone only when it has no sets left, unless it was deleted
\* before it got its finalizer.
NoSetLeft == Fresh /\ ~dep.there /\ dep.finalizer => Owned = {}

\* A deployment that was paused is not reported as stuck on account of the
\* time it was paused.
PauseForgiven ==
    [][dep'.reason = "ProgressDeadlineExceeded" /\ dep.reason # "ProgressDeadlineExceeded"
         => rested]_vars

Running == dep.there /\ ~dep.deleting /\ ~dep.paused

\* In the end the set of the deployment's template is there and has the highest
\* revision, the deployment carries that revision, no rollback is pending, and
\* old sets are within the limit once the rollout is complete.
Settled ==
    LET t == dep.template
    IN  Running =>
          /\ dep.rollbackTo = None
          /\ t \in Owned /\ ~sets[t].deleting
          /\ \A u \in Owned \ {t} : sets[u].revision < sets[t].revision
          /\ dep.revision = sets[t].revision
          /\ t \notin env.bad /\ env.limit # None =>
                Cardinality(Owned \ {t}) <= env.limit
HistorySettles == "relabel" \notin env.events => <>[]Settled

\* In the end the condition says how the rollout went, whatever pauses, edits,
\* conflicts and crashes there were, as long as no rollout completed before or
\* none gets stuck.  Without this condition it is false: when the write of the
\* condition NewMachineSetCreated is a conflict, NewMachineSetAvailable of the
\* previous rollout stays, for which MachineDeploymentTimedOut is never true.
Reported ==
    Running /\ env.deadline =>
       dep.reason = IF dep.template \in env.bad THEN "ProgressDeadlineExceeded"
                    ELSE "NewMachineSetAvailable"
OutcomeReported == env.bad \in {{}, env.templates} => <>[]Reported

\* A deletion is carried through: the sets go, then the deployment.
DeletionCompletes == dep.deleting ~> ~dep.there
=============================================================================
