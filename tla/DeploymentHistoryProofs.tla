----------------------- MODULE DeploymentHistoryProofs -----------------------
(***************************************************************************)
(* Proofs about DeploymentHistory, for any templates and scenarios: a      *)
(* deployment goes only after its sets, the time it was paused is not held *)
(* against it, and no two of its sets share a revision.                    *)
(***************************************************************************)
EXTENDS DeploymentHistory, TLAPS

SyncFields == {"pc", "mode", "d", "same", "view", "current", "mine", "new", "todo", "scaled", "err"}
DepFields == {"there", "deleting", "finalizer", "template", "paused", "rollbackTo", "revision",
              "observed", "total", "updated", "available", "reason", "late"}
SetFields == {"there", "owned", "matches", "deleting", "revision", "spec", "status",
              "available", "observed"}

\* Before a whole deadline has passed since a noticed pause ended (rested is r), the condition
\* of a deployment d is still that of the pause, or young.
Excused(d, r) == r \/ d.reason = "DeploymentPaused" \/ ~d.late

Stuck == "ProgressDeadlineExceeded"

\* A status the sync may write over d: it does not blame d for a pause.
Fair(s, d, r) == Excused(s, r) /\ (s.reason = Stuck => d.reason = Stuck \/ r)

\* Where a sync knows whether it is a rollout, and what it has recorded by then.
Placed == {"new", "found", "created", "existed", "resize", "cleanup"}
Moded(v) == v.mode \in {"rollout", "scaling"} /\ env.deadline => v.d.reason # "DeploymentPaused"

\* The sync v holds a copy of the deployment d.  A copy at the latest version says of the
\* condition what d says, or what may be written over it; a rollout goes on only after the end
\* of a pause is recorded.
SyncOK(v, d, r) ==
    /\ DOMAIN v = SyncFields
    /\ v.pc # "idle" => DOMAIN v.d = DepFields
    /\ v.pc = "idle" => ~v.same
    /\ v.pc \in {"finalizer", "recheck", "adopt"} => ~v.d.deleting
    /\ v.pc \in Placed => Moded(v)
    /\ v.same => IF v.pc \in {"status", "found"} THEN Fair(v.d, d, r)
                 ELSE v.d.reason = d.reason /\ v.d.late = d.late

\* The sets of a deployment that is about to go, or gone.
SetsGone ==
    Fresh => /\ w.pc = "unfinalize" => Owned = {}
             /\ ~dep.there /\ dep.finalizer => Owned = {} /\ w.pc = "idle"

SetsShape == DOMAIN sets = Templates /\ \A t \in Templates : DOMAIN sets[t] = SetFields

IInv ==
    /\ DOMAIN dep = DepFields
    /\ SetsShape
    /\ Excused(dep, rested)
    /\ SyncOK(w, dep, rested)
    /\ SetsGone

-----------------------------------------------------------------------------
(***************************************************************************)
(* The records.                                                            *)
(***************************************************************************)
LEMMA NoSyncOK ==
  ASSUME NEW d, NEW r
  PROVE  SyncOK(NoSync, d, r) /\ DOMAIN NoSync = SyncFields /\ NoSync.pc = "idle" /\ ~NoSync.same
  BY DEF NoSync, SyncOK, SyncFields, Placed

\* The condition in a status that is computed from a copy c.
LEMMA ConditionSet ==
  ASSUME NEW c, DOMAIN c = DepFields, NEW reason
  PROVE  /\ DOMAIN SetMachineDeploymentCondition(c, reason) = DepFields
         /\ SetMachineDeploymentCondition(c, reason).reason = reason
         /\ SetMachineDeploymentCondition(c, reason).there = c.there
         /\ SetMachineDeploymentCondition(c, reason).finalizer = c.finalizer
         /\ SetMachineDeploymentCondition(c, reason).paused = c.paused
         /\ SetMachineDeploymentCondition(c, reason).deleting = c.deleting
         /\ c.reason = reason \/ ~SetMachineDeploymentCondition(c, reason).late
         /\ c.reason = reason => SetMachineDeploymentCondition(c, reason) = c
  BY DEF SetMachineDeploymentCondition, DepFields

LEMMA StatusCounted ==
  ASSUME NEW v, DOMAIN v.d = DepFields
  PROVE  /\ DOMAIN calculateDeploymentStatus(v) = DepFields
         /\ calculateDeploymentStatus(v).reason = v.d.reason
         /\ calculateDeploymentStatus(v).late = v.d.late
  BY DEF calculateDeploymentStatus, DepFields

\* What a rollout reports of a copy that is not of a paused deployment.
LEMMA StatusFair ==
  ASSUME NEW v, NEW d, NEW r, DOMAIN v.d = DepFields, Excused(d, r),
         v.d.reason = d.reason, v.d.late = d.late,
         env.deadline => v.d.reason # "DeploymentPaused"
  PROVE  Fair(RolloutStatus(v), d, r)
  <1> DEFINE s == calculateDeploymentStatus(v)
  <1>1. DOMAIN s = DepFields /\ s.reason = d.reason /\ s.late = d.late
    BY StatusCounted
  <1> HIDE DEF s
  <1>2. Fair(s, d, r)
    BY <1>1 DEF Fair, Excused
  <1>3. ASSUME NEW x, x.reason # Stuck, ~x.late PROVE Fair(x, d, r)
    BY <1>3 DEF Fair, Excused
  <1>4. Fair([s EXCEPT !.reason = "none", !.late = FALSE], d, r)
    BY <1>1, <1>3, Zenon DEF DepFields, Stuck
  <1>5. Fair([s EXCEPT !.reason = "MachineSetUpdated", !.late = FALSE], d, r)
    BY <1>1, <1>3, Zenon DEF DepFields, Stuck
  <1>6. Fair(SetMachineDeploymentCondition(s, "NewMachineSetAvailable"), d, r)
    BY <1>1, <1>2, <1>3, ConditionSet DEF Stuck
  <1>7. ASSUME env.deadline, MachineDeploymentTimedOut(s)
        PROVE  Fair(SetMachineDeploymentCondition(s, "ProgressDeadlineExceeded"), d, r)
    <2>1. CASE s.reason = Stuck
      BY <1>2, <2>1 DEF SetMachineDeploymentCondition, Stuck
    <2>2. CASE s.reason # Stuck
      <3>1. s.late /\ r
        BY <1>1, <1>7, <2>2 DEF MachineDeploymentTimedOut, Stuck, Excused
      <3> QED
        BY <3>1 DEF Fair, Excused
    <2> QED
      BY <2>1, <2>2
  <1>8. \/ RolloutStatus(v) = s
        \/ RolloutStatus(v) = [s EXCEPT !.reason = "none", !.late = FALSE]
        \/ RolloutStatus(v) = [s EXCEPT !.reason = "MachineSetUpdated", !.late = FALSE]
        \/ RolloutStatus(v) = SetMachineDeploymentCondition(s, "NewMachineSetAvailable")
        \/ /\ env.deadline /\ MachineDeploymentTimedOut(s)
           /\ RolloutStatus(v) = SetMachineDeploymentCondition(s, "ProgressDeadlineExceeded")
    BY DEF RolloutStatus, s
  <1> QED
    BY <1>2, <1>4, <1>5, <1>6, <1>7, <1>8

LEMMA StatusShape ==
  ASSUME NEW v, DOMAIN v.d = DepFields
  PROVE  DOMAIN NewStatus(v) = DepFields
  <1> DEFINE s == calculateDeploymentStatus(v)
  <1>1. DOMAIN s = DepFields
    BY StatusCounted
  <1> HIDE DEF s
  <1>2. \A reason : DOMAIN SetMachineDeploymentCondition(s, reason) = DepFields
    BY <1>1, ConditionSet
  <1>3. DOMAIN [s EXCEPT !.reason = "none", !.late = FALSE] = DepFields
    BY <1>1
  <1>4. DOMAIN [s EXCEPT !.reason = "MachineSetUpdated", !.late = FALSE] = DepFields
    BY <1>1
  <1>5. DOMAIN RolloutStatus(v) = DepFields
    BY <1>1, <1>2, <1>3, <1>4 DEF RolloutStatus, s
  <1> QED
    BY <1>1, <1>5 DEF NewStatus, s

-----------------------------------------------------------------------------
(***************************************************************************)
(* How a sync goes on.  d and r are the deployment and rested afterwards.  *)
(***************************************************************************)
\* What a sync is before one of the operators of this part goes on with it.
Going(v, d, r) ==
    /\ Excused(d, r)
    /\ DOMAIN v = SyncFields /\ DOMAIN v.d = DepFields
    /\ v.same => v.d.reason = d.reason /\ v.d.late = d.late

\* Afterwards; the finalizer of the deployment is not the next thing to write.
Gone(d, r) == SyncOK(w', d, r) /\ w'.pc # "unfinalize"

LEMMA GoingOn ==
  ASSUME NEW v, NEW d, NEW r, Going(v, d, r), NEW u, DOMAIN u = DOMAIN v,
         u.d = v.d, u.same = v.same
  PROVE  Going(u, d, r) /\ (u.mode = v.mode /\ Moded(v) => Moded(u))
  BY DEF Going, Moded

\* A sync that stops between two calls.
LEMMA Stops ==
  ASSUME NEW v, NEW d, NEW r, Going(v, d, r), w' = v,
         v.pc \notin {"idle", "status", "found", "unfinalize", "finalizer", "recheck", "adopt"},
         v.pc \in Placed => Moded(v)
  PROVE  Gone(d, r)
  BY DEF Going, Gone, SyncOK

LEMMA ToStatusOK ==
  ASSUME NEW v, NEW d, NEW r, Going(v, d, r), Moded(v), ToStatus(v)
  PROVE  Gone(d, r)
  <1> DEFINE s == NewStatus(v)
  <1>1. DOMAIN s = DepFields
    BY StatusShape DEF Going
  <1>2. v.same => Fair(s, d, r)
    <2> SUFFICES ASSUME v.same PROVE Fair(s, d, r)
      OBVIOUS
    <2>1. CASE v.mode = "rollout"
      BY <2>1, StatusFair DEF Going, Moded, NewStatus
    <2>2. CASE v.mode # "rollout"
      <3>1. s.reason = d.reason /\ s.late = d.late
        BY <2>2, StatusCounted DEF NewStatus, Going
      <3> QED
        BY <3>1 DEF Fair, Excused, Going
    <2> QED
      BY <2>1, <2>2
  <1> DEFINE x == [NoSync EXCEPT !.pc = "status", !.same = v.same, !.d = s]
  <1>3. w' \in {NoSync, x}
    BY DEF ToStatus, Sync
  <1> HIDE DEF s
  <1>4. CASE w' = NoSync
    BY <1>4, NoSyncOK DEF Gone
  <1>5. CASE w' = x
    <2>1. DOMAIN x = SyncFields /\ x.pc = "status" /\ x.same = v.same /\ x.d = s
      BY DEF NoSync, SyncFields
    <2> HIDE DEF x
    <2> QED
      BY <1>1, <1>2, <1>5, <2>1 DEF Gone, SyncOK, Placed
  <1> QED
    BY <1>3, <1>4, <1>5

LEMMA CleanedOK ==
  ASSUME NEW v, NEW d, NEW r, Going(v, d, r), Moded(v), v.pc = "cleanup", Cleaned(v)
  PROVE  Gone(d, r)
  BY ToStatusOK, Stops DEF Cleaned, Sync

LEMMA ResizedOK ==
  ASSUME NEW v, NEW d, NEW r, Going(v, d, r), Moded(v), v.pc = "resize", Resized(v)
  PROVE  Gone(d, r)
  <1>1. CASE v.todo # {} /\ Sync(v)
    BY <1>1, Stops DEF Sync
  <1>2. CASE ToStatus(v)
    BY <1>2, ToStatusOK
  <1> DEFINE u == [v EXCEPT !.pc = "cleanup", !.todo = cleanupMachineDeployment(v)]
  <1>3. CASE Cleaned(u)
    <2>1. DOMAIN u = DOMAIN v /\ u.d = v.d /\ u.same = v.same /\ u.mode = v.mode /\ u.pc = "cleanup"
      BY DEF Going, SyncFields
    <2> HIDE DEF u
    <2>2. Going(u, d, r) /\ Moded(u)
      BY <2>1, GoingOn
    <2> QED
      BY <1>3, <2>1, <2>2, CleanedOK
  <1> QED
    BY <1>1, <1>2, <1>3 DEF Resized

LEMMA ProceedOK ==
  ASSUME NEW v, NEW d, NEW r, Going(v, d, r), Moded(v), Proceed(v)
  PROVE  Gone(d, r)
  <1>1. CASE ToStatus(v)
    BY <1>1, ToStatusOK
  <1> DEFINE x == [NoSync EXCEPT !.pc = "rollback", !.same = v.same,
                                 !.d = [v.d EXCEPT !.template = RollbackTemplate(v)]]
  <1>2. CASE Sync(x)
    <2> DEFINE c == [v.d EXCEPT !.template = RollbackTemplate(v)]
    <2>1. DOMAIN c = DepFields /\ c.reason = v.d.reason /\ c.late = v.d.late
      BY DEF Going, DepFields
    <2>2. x = [NoSync EXCEPT !.pc = "rollback", !.same = v.same, !.d = c]
      OBVIOUS
    <2> HIDE DEF c, x
    <2>3. DOMAIN x = SyncFields /\ x.pc = "rollback" /\ x.same = v.same /\ x.d = c
      BY <2>2 DEF NoSync, SyncFields
    <2> QED
      BY <1>2, <2>1, <2>3 DEF Gone, SyncOK, Placed, Going, Sync
  <1> DEFINE u == [v EXCEPT !.pc = "resize", !.todo = Resizes(v)]
  <1>3. CASE Resized(u)
    <2>1. DOMAIN u = DOMAIN v /\ u.d = v.d /\ u.same = v.same /\ u.mode = v.mode /\ u.pc = "resize"
      BY DEF Going, SyncFields
    <2> HIDE DEF u
    <2>2. Going(u, d, r) /\ Moded(u)
      BY <2>1, GoingOn
    <2> QED
      BY <1>3, <2>1, <2>2, ResizedOK
  <1> QED
    BY <1>1, <1>2, <1>3 DEF Proceed

LEMMA LookUpOK ==
  ASSUME NEW v, NEW d, NEW r, Going(v, d, r), Moded(v), LookUp(v)
  PROVE  Gone(d, r)
  <1> DEFINE u == [v EXCEPT !.new = FindNewMachineSet(v)]
             x == [v EXCEPT !.pc = "new"]
  <1>1. Proceed(u) \/ w' = x
    BY DEF LookUp, Sync
  <1>2. /\ DOMAIN u = DOMAIN v /\ u.d = v.d /\ u.same = v.same /\ u.mode = v.mode
        /\ DOMAIN x = DOMAIN v /\ x.d = v.d /\ x.same = v.same /\ x.mode = v.mode /\ x.pc = "new"
    BY DEF Going, SyncFields
  <1> HIDE DEF u, x
  <1>3. Going(u, d, r) /\ Moded(u) /\ Going(x, d, r) /\ Moded(x)
    BY <1>2, GoingOn
  <1> QED
    BY <1>1, <1>2, <1>3, ProceedOK, Stops

LEMMA RolloutOK ==
  ASSUME NEW v, NEW d, NEW r, Going(v, d, r), Rollout(v),
         env.deadline => v.d.reason # "DeploymentPaused"
  PROVE  Gone(d, r)
  <1> DEFINE u == [v EXCEPT !.mode = "rollout", !.new = None]
  <1>1. LookUp(u)
    BY DEF Rollout
  <1>2. DOMAIN u = DOMAIN v /\ u.d = v.d /\ u.same = v.same
    BY DEF Going, SyncFields
  <1> HIDE DEF u
  <1>3. Going(u, d, r) /\ Moded(u)
    BY <1>2, GoingOn DEF Moded
  <1> QED
    BY <1>1, <1>3, LookUpOK

LEMMA RouteOK ==
  ASSUME NEW v, NEW d, NEW r, Going(v, d, r), Route(v),
         env.deadline /\ ~v.d.paused => v.d.reason # "DeploymentPaused"
  PROVE  Gone(d, r)
  <1>1. ASSUME NEW m \in {"sync", "rollback"}, LookUp([v EXCEPT !.mode = m]) PROVE Gone(d, r)
    <2> DEFINE u == [v EXCEPT !.mode = m]
    <2>1. DOMAIN u = DOMAIN v /\ u.d = v.d /\ u.same = v.same /\ u.mode = m
      BY DEF Going, SyncFields
    <2>2. LookUp(u)
      BY <1>1
    <2> HIDE DEF u
    <2>3. Going(u, d, r) /\ Moded(u)
      BY <2>1, GoingOn DEF Moded
    <2> QED
      BY <2>2, <2>3, LookUpOK
  <1>2. CASE ~v.d.paused /\ Rollout(v)
    BY <1>2, RolloutOK
  <1>3. CASE ~v.d.paused /\ Sync([v EXCEPT !.pc = "new", !.mode = "scaling"])
    <2> DEFINE u == [v EXCEPT !.pc = "new", !.mode = "scaling"]
    <2>1. DOMAIN u = DOMAIN v /\ u.d = v.d /\ u.same = v.same /\ u.pc = "new"
      BY DEF Going, SyncFields
    <2>2. w' = u
      BY <1>3 DEF Sync
    <2> HIDE DEF u
    <2>3. Going(u, d, r) /\ Moded(u)
      BY <1>3, <2>1, GoingOn DEF Moded
    <2> QED
      BY <2>1, <2>2, <2>3, Stops
  <1> QED
    BY <1>1, <1>2, <1>3 DEF Route

LEMMA FoundOK ==
  ASSUME NEW v, NEW d, NEW r, Going(v, d, r), Moded(v), Found(v)
  PROVE  Gone(d, r)
  BY RolloutOK, ProceedOK DEF Found, Moded

\* The finalizer goes when a deployment that is being deleted has no set.
LEMMA ClaimedOK ==
  ASSUME NEW v, NEW d, NEW r, Going(v, d, r), Claimed(v)
  PROVE  /\ SyncOK(w', d, r)
         /\ w'.pc = "unfinalize" => v.d.deleting /\ v.mine = {}
  <1> DEFINE x == [NoSync EXCEPT !.pc = "unfinalize", !.d = v.d]
             y == [v EXCEPT !.pc = "terminate"]
             z == [v EXCEPT !.pc = "paused"]
  <1>1. /\ DOMAIN x = SyncFields /\ x.pc = "unfinalize" /\ x.d = v.d /\ ~x.same
        /\ DOMAIN y = DOMAIN v /\ y.d = v.d /\ y.same = v.same /\ y.pc = "terminate"
        /\ DOMAIN z = DOMAIN v /\ z.d = v.d /\ z.same = v.same /\ z.pc = "paused"
    BY DEF Going, NoSync, SyncFields
  <1>2. \/ v.d.deleting /\ v.mine = {} /\ w' = x
        \/ w' = y \/ w' = z
        \/ ~PauseUnrecorded(v.d) /\ Route(v)
    BY DEF Claimed, Sync
  <1> HIDE DEF x, y, z
  <1>3. CASE v.d.deleting /\ v.mine = {} /\ w' = x
    BY <1>1, <1>3 DEF SyncOK, Placed, Going
  <1>4. CASE w' = y
    <2>1. Going(y, d, r)
      BY <1>1, GoingOn
    <2> QED
      BY <1>1, <1>4, <2>1, Stops DEF Gone, Placed
  <1>5. CASE w' = z
    <2>1. Going(z, d, r)
      BY <1>1, GoingOn
    <2> QED
      BY <1>1, <1>5, <2>1, Stops DEF Gone, Placed
  <1>6. CASE ~PauseUnrecorded(v.d) /\ Route(v)
    <2>1. env.deadline /\ ~v.d.paused => v.d.reason # "DeploymentPaused"
      BY <1>6, Zenon DEF PauseUnrecorded
    <2> QED
      BY <1>6, <2>1, RouteOK DEF Gone
  <1> QED
    BY <1>2, <1>3, <1>4, <1>5, <1>6

LEMMA ClaimOK ==
  ASSUME NEW v, NEW d, NEW r, Going(v, d, r), ClaimMachineSets(v)
  PROVE  /\ SyncOK(w', d, r)
         /\ w'.pc = "unfinalize" =>
               /\ v.d.deleting
               /\ {t \in Templates : Listed(t).there /\ Listed(t).matches /\ Listed(t).owned} = {}
  <1> DEFINE view == [t \in Templates |-> Listed(t)]
             matching == {t \in Templates : view[t].there /\ view[t].matches}
             mine == {t \in matching : view[t].owned}
             orphans == {t \in matching \ mine : ~v.d.deleting /\ ~view[t].deleting}
             u == [v EXCEPT !.view = view, !.current = ListedCurrent,
                            !.mine = mine, !.todo = orphans]
             x == [u EXCEPT !.pc = "recheck"]
  <1>1. IF orphans = {} THEN Claimed(u) ELSE w' = x
    BY Zenon DEF ClaimMachineSets, Sync
  <1>2. mine = {t \in Templates : Listed(t).there /\ Listed(t).matches /\ Listed(t).owned}
    OBVIOUS
  <1>3. orphans # {} => ~v.d.deleting
    BY Zenon
  <1> HIDE DEF view, matching, mine, orphans
  <1>4. DOMAIN u = DOMAIN v /\ u.d = v.d /\ u.same = v.same /\ u.mine = mine
    BY DEF Going, SyncFields
  <1>5. DOMAIN x = SyncFields /\ x.d = v.d /\ x.same = v.same /\ x.pc = "recheck"
    <2> HIDE DEF u
    <2> QED
      BY <1>4 DEF Going, SyncFields
  <1> HIDE DEF u, x
  <1>6. CASE orphans = {}
    <2>1. Going(u, d, r)
      BY <1>4, GoingOn
    <2> QED
      BY <1>1, <1>2, <1>4, <1>6, <2>1, ClaimedOK
  <1>7. CASE orphans # {}
    BY <1>1, <1>3, <1>5, <1>7 DEF SyncOK, Going, Placed
  <1> QED
    BY <1>6, <1>7

-----------------------------------------------------------------------------
(***************************************************************************)
(* The calls of a sync.                                                    *)
(***************************************************************************)
Forgives == dep'.reason = Stuck /\ dep.reason # Stuck => rested

LEMMA Returns ==
  ASSUME NEW d, NEW r, Return
  PROVE  Gone(d, r)
  BY NoSyncOK DEF Return, Sync, Gone

\* The copy a sync holds, between two calls.
LEMMA AtHand ==
  ASSUME IInv, w.pc # "idle"
  PROVE  /\ DOMAIN w = SyncFields /\ DOMAIN w.d = DepFields
         /\ w.pc \in Placed => Moded(w)
         /\ w.pc \notin {"status", "found"} => Going(w, dep, rested)
  BY DEF IInv, SyncOK, Going

LEMMA GoingAnew ==
  ASSUME NEW v, NEW d, NEW r, DOMAIN v = SyncFields, DOMAIN v.d = DepFields, ~v.same,
         Excused(d, r)
  PROVE  Going(v, d, r)
  BY DEF Going

LEMMA DepUntouched ==
  ASSUME IInv
  PROVE  Fair(dep, dep, rested) /\ DOMAIN dep = DepFields /\ Excused(dep, rested)
  BY DEF IInv, Fair

\* A condition that a call of the sync writes at once.
LEMMA DepNoted ==
  ASSUME IInv, NEW reason, reason # Stuck
  PROVE  LET x == SetMachineDeploymentCondition(dep, reason)
         IN  /\ Fair(x, dep, rested) /\ Excused(x, rested) /\ DOMAIN x = DepFields
             /\ x.there = dep.there /\ x.finalizer = dep.finalizer
  <1> DEFINE x == SetMachineDeploymentCondition(dep, reason)
  <1>1. DOMAIN dep = DepFields /\ Excused(dep, rested)
    BY DEF IInv
  <1>2. /\ DOMAIN x = DepFields /\ x.reason = reason /\ x.there = dep.there
        /\ x.finalizer = dep.finalizer /\ (dep.reason = reason \/ ~x.late)
        /\ (dep.reason = reason => x = dep)
    BY <1>1, ConditionSet
  <1> HIDE DEF x
  <1>3. Excused(x, rested)
    BY <1>1, <1>2 DEF Excused
  <1>4. Fair(x, dep, rested)
    BY <1>2, <1>3 DEF Fair
  <1> QED
    BY <1>2, <1>3, <1>4 DEF x

\* Every call but Start and the removal of the finalizer.
LEMMA CallDone ==
  ASSUME IInv, w.pc # "idle", env' = env, rested' = rested,
         DOMAIN dep' = DepFields, Fair(dep', dep, rested), SetsShape', Gone(dep', rested),
         dep'.there = dep.there, dep'.finalizer => dep.finalizer \/ dep.there
  PROVE  IInv' /\ Forgives
  <1>1. Excused(dep', rested') /\ Forgives
    BY DEF Fair, Forgives
  <1>2. SyncOK(w, dep, rested)'
    BY DEF Gone, SyncOK, Moded
  <1>3. SetsGone'
    BY DEF IInv, SetsGone, Fresh, Gone
  <1> QED
    BY <1>1, <1>2, <1>3 DEF IInv, Excused

\* The same for a call that leaves the deployment alone.
LEMMA SetCallDone ==
  ASSUME IInv, w.pc # "idle", UNCHANGED <<env, dep, rested>>, SetsShape', Gone(dep, rested)
  PROVE  IInv' /\ Forgives
  BY CallDone, DepUntouched

LEMMA WriteShape ==
  ASSUME IInv, NEW t, NEW s, Write(t, s), t \in Templates => DOMAIN s = SetFields
  PROVE  SetsShape'
  BY DEF IInv, SetsShape, Write

LEMMA ShapeKept ==
  ASSUME IInv, UNCHANGED sets
  PROVE  SetsShape'
  BY DEF IInv, SetsShape

LEMMA StartOK ==
  ASSUME IInv, Start
  PROVE  IInv' /\ Forgives
  <1> DEFINE v == [NoSync EXCEPT !.d = dep, !.same = TRUE]
             x == [v EXCEPT !.pc = "finalizer"]
  <1>1. /\ w.pc = "idle" /\ dep.there /\ UNCHANGED <<env, dep, rested, sets>>
        /\ IF dep.deleting \/ dep.finalizer THEN ClaimMachineSets(v) ELSE w' = x
    BY DEF Start, DepKept, SetsKept, UsersIdle, Sync
  <1>2. DOMAIN v = SyncFields /\ v.d = dep /\ v.same = TRUE
    BY DEF NoSync, SyncFields
  <1>3. DOMAIN x = SyncFields /\ x.d = dep /\ x.same = TRUE /\ x.pc = "finalizer"
    BY DEF NoSync, SyncFields
  <1> HIDE DEF v, x
  <1>4. Going(v, dep, rested)
    BY <1>2 DEF Going, IInv
  <1>5. CASE ClaimMachineSets(v)
    <2>1. SyncOK(w', dep, rested)
      BY <1>4, <1>5, ClaimOK
    <2>2. w'.pc = "unfinalize" /\ Fresh => Owned = {}
      <3>1. Fresh => \A t \in Templates : Listed(t) = sets[t]
        BY DEF Fresh, Listed
      <3>2. w'.pc = "unfinalize" =>
              {t \in Templates : Listed(t).there /\ Listed(t).matches /\ Listed(t).owned} = {}
        BY <1>4, <1>5, ClaimOK
      <3> QED
        BY <3>1, <3>2 DEF Owned
    <2>3. SyncOK(w, dep, rested)'
      BY <1>1, <2>1 DEF SyncOK, Moded, Fair, Excused
    <2>4. SetsGone'
      BY <1>1, <2>2 DEF SetsGone, Fresh, Owned
    <2> QED
      BY <1>1, <2>3, <2>4 DEF IInv, SetsShape, Excused, Forgives
  <1>6. CASE ~dep.deleting /\ w' = x
    <2>1. SyncOK(w, dep, rested)'
      BY <1>1, <1>3, <1>6 DEF SyncOK, Placed, IInv
    <2>2. SetsGone'
      BY <1>1, <1>3, <1>6 DEF SetsGone
    <2> QED
      BY <1>1, <2>1, <2>2 DEF IInv, SetsShape, Excused, Forgives
  <1> QED
    BY <1>1, <1>5, <1>6

LEMMA AddFinalizersOK ==
  ASSUME IInv, addMachineDeploymentFinalizers
  PROVE  IInv' /\ Forgives
  <1>1. w.pc = "finalizer" /\ UNCHANGED <<env, rested, sets>>
    BY DEF addMachineDeploymentFinalizers, SetsKept, UsersIdle
  <1>2. /\ Going(w, dep, rested) /\ DOMAIN w = SyncFields /\ DOMAIN w.d = DepFields
        /\ ~w.d.deleting /\ SetsShape'
    BY <1>1, AtHand, ShapeKept DEF IInv, SyncOK
  <1> DEFINE v == [w EXCEPT !.same = FALSE]
             x == [dep EXCEPT !.finalizer = TRUE]
  <1>3. CASE dep.there /\ dep' = x /\ ClaimMachineSets(v)
    <2>1. DOMAIN v = SyncFields /\ v.d = w.d /\ ~v.same
      BY <1>2 DEF SyncFields
    <2>2. /\ DOMAIN x = DepFields /\ x.reason = dep.reason /\ x.late = dep.late
          /\ x.there = dep.there
      BY DEF IInv, DepFields
    <2> HIDE DEF v, x
    <2>3. Fair(x, dep, rested) /\ Excused(x, rested)
      BY <2>2 DEF IInv, Fair, Excused
    <2>4. Going(v, x, rested)
      BY <1>2, <2>1, <2>3, GoingAnew
    <2>5. Gone(x, rested)
      BY <1>2, <1>3, <2>1, <2>4, ClaimOK DEF Gone
    <2> QED
      BY <1>1, <1>2, <1>3, <2>2, <2>3, <2>5, CallDone
  <1>4. CASE ClaimMachineSets(w) /\ UNCHANGED dep
    <2>1. Gone(dep, rested)
      BY <1>2, <1>4, ClaimOK DEF Gone
    <2> QED
      BY <1>1, <1>2, <1>4, <2>1, SetCallDone
  <1> QED
    BY <1>3, <1>4 DEF addMachineDeploymentFinalizers

LEMMA RecheckOK ==
  ASSUME IInv, RecheckDeletionTimestamp
  PROVE  IInv' /\ Forgives
  <1> DEFINE x == [w EXCEPT !.pc = "adopt"]
  <1>1. w.pc = "recheck" /\ UNCHANGED <<env, dep, rested, sets>> /\ (w' = x \/ Return)
    BY DEF RecheckDeletionTimestamp, DepKept, SetsKept, UsersIdle, Sync
  <1>2. CASE w' = x
    <2>1. DOMAIN x = SyncFields /\ x.d = w.d /\ x.same = w.same /\ x.pc = "adopt"
      BY <1>1, AtHand DEF SyncFields
    <2> HIDE DEF x
    <2>2. Gone(dep, rested)
      BY <1>1, <1>2, <2>1 DEF Gone, IInv, SyncOK, Placed
    <2> QED
      BY <1>1, <2>2, SetCallDone, ShapeKept
  <1> QED
    BY <1>1, <1>2, Returns, SetCallDone, ShapeKept

LEMMA AdoptedOK ==
  ASSUME NEW v, NEW d, NEW r, Going(v, d, r), v.pc = "adopt", ~v.d.deleting, Adopted(v)
  PROVE  Gone(d, r)
  <1>1. CASE Sync(v)
    BY <1>1 DEF Sync, Gone, SyncOK, Going, Placed
  <1> QED
    BY <1>1, Returns, ClaimedOK DEF Adopted, Gone

LEMMA AdoptOK ==
  ASSUME IInv, AdoptMachineSet
  PROVE  IInv' /\ Forgives
  <1>1. w.pc = "adopt" /\ UNCHANGED <<env, dep, rested>>
    BY DEF AdoptMachineSet, DepKept, UsersIdle
  <1>2. /\ Going(w, dep, rested) /\ DOMAIN w = SyncFields /\ DOMAIN w.d = DepFields
        /\ ~w.d.deleting
    BY <1>1, AtHand DEF IInv, SyncOK
  <1>3. PICK t \in w.todo :
          LET v == [w EXCEPT !.todo = @ \ {t}, !.current = @ \ {t}]
          IN  \/ /\ Write(t, [sets[t] EXCEPT !.owned = TRUE])
                 /\ Adopted([v EXCEPT !.mine = @ \cup {t}])
              \/ Adopted(v) /\ UNCHANGED sets
              \/ Adopted([v EXCEPT !.err = TRUE]) /\ UNCHANGED sets
    BY Zenon DEF AdoptMachineSet
  <1> DEFINE v == [w EXCEPT !.todo = @ \ {t}, !.current = @ \ {t}]
             a == [v EXCEPT !.mine = @ \cup {t}]
             b == [v EXCEPT !.err = TRUE]
  <1>4. /\ DOMAIN v = SyncFields /\ v.d = w.d /\ v.same = w.same /\ v.pc = "adopt"
    BY <1>1, <1>2 DEF SyncFields
  <1>5. \/ Write(t, [sets[t] EXCEPT !.owned = TRUE]) /\ Adopted(a)
        \/ Adopted(v) /\ UNCHANGED sets
        \/ Adopted(b) /\ UNCHANGED sets
    BY <1>3
  <1> HIDE DEF v
  <1>6. /\ DOMAIN a = SyncFields /\ a.d = w.d /\ a.same = w.same /\ a.pc = "adopt"
        /\ DOMAIN b = SyncFields /\ b.d = w.d /\ b.same = w.same /\ b.pc = "adopt"
    BY <1>4 DEF SyncFields
  <1> HIDE DEF a, b
  <1>7. Going(v, dep, rested) /\ Going(a, dep, rested) /\ Going(b, dep, rested)
    BY <1>2, <1>4, <1>6, GoingOn
  <1>8. Gone(dep, rested)
    BY <1>2, <1>4, <1>5, <1>6, <1>7, AdoptedOK
  <1>9. SetsShape'
    <2>1. t \in Templates => DOMAIN [sets[t] EXCEPT !.owned = TRUE] = SetFields
      BY DEF IInv, SetsShape
    <2> QED
      BY <1>5, <2>1, WriteShape, ShapeKept
  <1> QED
    BY <1>1, <1>8, <1>9, SetCallDone

LEMMA RemoveFinalizerOK ==
  ASSUME IInv, deleteMachineDeploymentFinalizers
  PROVE  IInv' /\ Forgives
  <1> DEFINE x == [dep EXCEPT !.there = FALSE]
  <1>1. /\ w.pc = "unfinalize" /\ UNCHANGED <<env, rested, sets>> /\ Return
        /\ dep' = x \/ UNCHANGED dep
    BY DEF deleteMachineDeploymentFinalizers, SetsKept, UsersIdle
  <1>2. CASE dep' = x
    <2>1. DOMAIN x = DepFields /\ x.reason = dep.reason /\ x.late = dep.late
      BY DEF IInv, DepFields
    <2> HIDE DEF x
    <2>2. w' = NoSync /\ SyncOK(w', dep', rested) /\ w'.pc = "idle"
      BY <1>1, NoSyncOK DEF Return, Sync
    <2>3. SyncOK(w, dep, rested)'
      BY <1>1, <2>2 DEF SyncOK, Moded, Fair, Excused
    <2>4. SetsGone'
      BY <1>1, <2>2 DEF IInv, SetsGone, Fresh, Owned
    <2> QED
      BY <1>1, <1>2, <2>1, <2>3, <2>4 DEF IInv, SetsShape, Excused, Forgives
  <1> QED
    BY <1>1, <1>2, Returns, SetCallDone, ShapeKept

LEMMA TerminateOK ==
  ASSUME IInv, terminateMachineSets
  PROVE  IInv' /\ Forgives
  <1>1. w.pc = "terminate" /\ UNCHANGED <<env, dep, rested>>
    BY DEF terminateMachineSets, DepKept, UsersIdle
  <1>2. PICK done :
          /\ sets' = [t \in Templates |->
                        IF t \in done /\ sets[t].there
                        THEN [sets[t] EXCEPT !.deleting = TRUE] ELSE sets[t]]
          /\ LookUp([w EXCEPT !.current = @ \ done, !.mode = "status"])
    BY Zenon DEF terminateMachineSets
  <1> DEFINE v == [w EXCEPT !.current = @ \ done, !.mode = "status"]
  <1>3. DOMAIN v = DOMAIN w /\ v.d = w.d /\ v.same = w.same /\ v.mode = "status" /\ LookUp(v)
    BY <1>1, <1>2, AtHand DEF SyncFields
  <1> HIDE DEF v
  <1>4. Going(v, dep, rested) /\ Moded(v)
    BY <1>1, <1>3, AtHand, GoingOn DEF Moded
  <1>5. SetsShape'
    BY <1>2 DEF IInv, SetsShape
  <1> QED
    BY <1>1, <1>3, <1>4, <1>5, LookUpOK, SetCallDone

LEMMA PausedOK ==
  ASSUME IInv, checkPausedConditions
  PROVE  IInv' /\ Forgives
  <1> DEFINE reason == IF w.d.paused THEN "DeploymentPaused" ELSE "DeploymentResumed"
             x == SetMachineDeploymentCondition(dep, reason)
             c == SetMachineDeploymentCondition(w.d, reason)
             v == [w EXCEPT !.d = c, !.same = FALSE]
  <1>1. /\ w.pc = "paused" /\ UNCHANGED <<env, rested, sets>>
        /\ \/ dep' = x /\ Route(v)
           \/ Return /\ UNCHANGED dep
    BY DEF checkPausedConditions, SetsKept, UsersIdle
  <1>2. reason # Stuck /\ (~w.d.paused => reason # "DeploymentPaused")
    BY DEF Stuck
  <1> HIDE DEF reason
  <1>3. DOMAIN c = DepFields /\ c.reason = reason /\ c.paused = w.d.paused
    BY <1>1, AtHand, ConditionSet
  <1> HIDE DEF c
  <1>4. DOMAIN v = SyncFields /\ v.d = c /\ ~v.same
    BY <1>1, AtHand DEF SyncFields
  <1>5. /\ Fair(x, dep, rested) /\ Excused(x, rested) /\ DOMAIN x = DepFields
        /\ x.there = dep.there /\ x.finalizer = dep.finalizer
    BY <1>2, DepNoted
  <1> HIDE DEF v, x
  <1>6. CASE dep' = x /\ Route(v)
    <2>1. Going(v, x, rested)
      BY <1>3, <1>4, <1>5, GoingAnew
    <2>2. Gone(x, rested)
      BY <1>2, <1>3, <1>4, <1>6, <2>1, RouteOK
    <2> QED
      BY <1>1, <1>5, <1>6, <2>2, CallDone, ShapeKept
  <1> QED
    BY <1>1, <1>6, Returns, SetCallDone, ShapeKept

-----------------------------------------------------------------------------
(***************************************************************************)
(* The calls of a sync, continued: the new set, sizes, and the status.     *)
(***************************************************************************)
LEMMA SetRevisionOK ==
  ASSUME IInv, SyncSetRevision
  PROVE  IInv' /\ Forgives
  <1> DEFINE t == FindNewMachineSet(w)
             s == [sets[t] EXCEPT !.revision = NewRevision(w)]
             a == [w EXCEPT !.current = @ \ {t}]
             b == [w EXCEPT !.new = t, !.view[t] = s]
  <1>1. /\ w.pc = "new" /\ UNCHANGED <<env, dep, rested>>
        /\ \/ Write(t, s) /\ (Found(a) \/ Found(b))
           \/ Return /\ UNCHANGED sets
    BY DEF SyncSetRevision, DepKept, UsersIdle
  <1>2. t \in Templates => DOMAIN s = SetFields
    BY DEF IInv, SetsShape
  <1> HIDE DEF t, s
  <1>3. /\ DOMAIN a = DOMAIN w /\ a.d = w.d /\ a.same = w.same /\ a.mode = w.mode
        /\ DOMAIN b = DOMAIN w /\ b.d = w.d /\ b.same = w.same /\ b.mode = w.mode
    BY <1>1, AtHand DEF SyncFields
  <1> HIDE DEF a, b
  <1>4. Going(w, dep, rested) /\ Moded(w)
    BY <1>1, AtHand DEF Placed
  <1>5. Going(a, dep, rested) /\ Moded(a) /\ Going(b, dep, rested) /\ Moded(b)
    BY <1>3, <1>4, GoingOn
  <1>6. Gone(dep, rested)
    BY <1>1, <1>5, FoundOK, Returns
  <1>7. SetsShape'
    BY <1>1, <1>2, WriteShape, ShapeKept
  <1> QED
    BY <1>1, <1>6, <1>7, SetCallDone

LEMMA DeploymentRevisionOK ==
  ASSUME IInv, SyncDeploymentRevision
  PROVE  IInv' /\ Forgives
  <1> DEFINE t == FindNewMachineSet(w)
             n == w.view[t].revision
             d == IF env.deadline /\ w.d.reason = "none"
                  THEN SetMachineDeploymentCondition(w.d, "FoundNewMachineSet") ELSE w.d
             c == [d EXCEPT !.revision = n]
             x == [dep EXCEPT !.revision = n]
             v == [w EXCEPT !.new = t, !.d = c, !.pc = "found"]
  <1>1. /\ w.pc = "new" /\ UNCHANGED <<env, rested, sets>>
        /\ \/ ~Conflict /\ dep' = x /\ w' = v
           \/ Return /\ UNCHANGED dep
    BY DEF SyncDeploymentRevision, SetsKept, UsersIdle, Sync
  <1>2. CASE ~Conflict /\ dep' = x /\ w' = v
    <2>1. /\ DOMAIN w = SyncFields /\ DOMAIN w.d = DepFields /\ Moded(w)
          /\ w.d.reason = dep.reason /\ w.d.late = dep.late /\ Excused(dep, rested)
      BY <1>1, <1>2, AtHand DEF Conflict, Going, Placed
    <2>2. /\ DOMAIN d = DepFields
          /\ \/ d.reason = w.d.reason /\ d.late = w.d.late
             \/ d.reason = "FoundNewMachineSet" /\ ~d.late
      BY <2>1, ConditionSet
    <2> HIDE DEF d, n, t
    <2>3. DOMAIN c = DepFields /\ c.reason = d.reason /\ c.late = d.late
      BY <2>2 DEF DepFields
    <2>4. /\ DOMAIN x = DepFields /\ x.reason = dep.reason /\ x.late = dep.late
          /\ x.there = dep.there /\ x.finalizer = dep.finalizer
      BY DEF IInv, DepFields
    <2> HIDE DEF c, x
    <2>5. DOMAIN v = SyncFields /\ v.d = c /\ v.same = w.same /\ v.mode = w.mode /\ v.pc = "found"
      BY <2>1 DEF SyncFields
    <2> HIDE DEF v
    <2>6. Fair(c, x, rested) /\ Fair(x, dep, rested)
      BY <2>1, <2>2, <2>3, <2>4 DEF Fair, Excused, Stuck
    <2>7. Moded(v)
      BY <2>1, <2>2, <2>3, <2>5 DEF Moded
    <2>8. Gone(x, rested)
      BY <1>2, <2>3, <2>5, <2>6, <2>7 DEF Gone, SyncOK
    <2> QED
      BY <1>1, <1>2, <2>4, <2>6, <2>8, CallDone, ShapeKept
  <1> QED
    BY <1>1, <1>2, Returns, SetCallDone, ShapeKept

LEMMA FoundNewOK ==
  ASSUME IInv, FoundNewMachineSet
  PROVE  IInv' /\ Forgives
  <1> DEFINE x == [dep EXCEPT !.reason = w.d.reason, !.late = w.d.late]
             v == [w EXCEPT !.same = FALSE]
  <1>1. /\ w.pc = "found" /\ UNCHANGED <<env, rested, sets>>
        /\ \/ ~Conflict /\ dep' = x /\ Found(v)
           \/ Return /\ UNCHANGED dep
    BY DEF FoundNewMachineSet, SetsKept, UsersIdle
  <1>2. CASE ~Conflict /\ dep' = x /\ Found(v)
    <2>1. DOMAIN w = SyncFields /\ DOMAIN w.d = DepFields /\ Moded(w) /\ Fair(w.d, dep, rested)
      BY <1>1, <1>2, AtHand DEF Conflict, Placed, IInv, SyncOK
    <2>2. /\ DOMAIN x = DepFields /\ x.reason = w.d.reason /\ x.late = w.d.late
          /\ x.there = dep.there /\ x.finalizer = dep.finalizer
      BY DEF IInv, DepFields
    <2>3. DOMAIN v = SyncFields /\ v.d = w.d /\ ~v.same /\ v.mode = w.mode
      BY <2>1 DEF SyncFields
    <2> HIDE DEF x, v
    <2>4. Fair(x, dep, rested) /\ Excused(x, rested)
      BY <2>1, <2>2 DEF Fair, Excused
    <2>5. Going(v, x, rested) /\ Moded(v)
      BY <2>1, <2>3, <2>4, GoingAnew DEF Moded
    <2> QED
      BY <1>1, <1>2, <2>2, <2>4, <2>5, FoundOK, CallDone, ShapeKept
  <1> QED
    BY <1>1, <1>2, Returns, SetCallDone, ShapeKept

LEMMA CreateOK ==
  ASSUME IInv, CreateMachineSet
  PROVE  IInv' /\ Forgives
  <1> DEFINE t == w.d.template
             s == [NoSet EXCEPT !.there = TRUE, !.owned = TRUE, !.matches = TRUE,
                                !.revision = NewRevision(w),
                                !.spec = IF Count(w, "status") < 2 THEN 1 ELSE 0]
             a == [w EXCEPT !.new = t, !.pc = "created", !.view[t] = s,
                            !.current = @ \cup {t}]
             b == [w EXCEPT !.new = t, !.pc = "existed", !.view[t] = Listed(t),
                            !.current = (@ \ {t}) \cup (ListedCurrent \cap {t})]
  <1>1. /\ w.pc = "new" /\ UNCHANGED <<env, dep, rested>>
        /\ \/ Write(t, s) /\ w' = a
           \/ UNCHANGED sets /\ w' \in {NoSync, b}
    BY Zenon DEF CreateMachineSet, DepKept, SetsKept, UsersIdle, Sync
  <1>2. DOMAIN s = SetFields
    BY DEF NoSet, SetFields
  <1> HIDE DEF t, s
  <1>3. /\ DOMAIN a = DOMAIN w /\ a.d = w.d /\ a.same = w.same /\ a.mode = w.mode
        /\ a.pc = "created"
    BY <1>1, AtHand DEF SyncFields
  <1>4. /\ DOMAIN b = DOMAIN w /\ b.d = w.d /\ b.same = w.same /\ b.mode = w.mode
        /\ b.pc = "existed"
    BY <1>1, AtHand DEF SyncFields
  <1> HIDE DEF a, b
  <1>5. Going(w, dep, rested) /\ Moded(w)
    BY <1>1, AtHand DEF Placed
  <1>6. Going(a, dep, rested) /\ Moded(a) /\ Going(b, dep, rested) /\ Moded(b)
    BY <1>3, <1>4, <1>5, GoingOn
  <1>7. Gone(dep, rested)
    BY <1>1, <1>3, <1>4, <1>6, Stops, Returns DEF Return, Sync
  <1> QED
    BY <1>1, <1>2, <1>7, WriteShape, ShapeKept, SetCallDone

LEMMA CreateFailsOK ==
  ASSUME IInv, CreateFails
  PROVE  IInv' /\ Forgives
  <1> DEFINE x == SetMachineDeploymentCondition(dep, "MachineSetCreateError")
  <1>1. /\ w.pc = "new" /\ UNCHANGED <<env, rested, sets>> /\ Return
        /\ dep' = x \/ UNCHANGED dep
    BY DEF CreateFails, SetsKept, UsersIdle
  <1>2. /\ Fair(x, dep, rested) /\ DOMAIN x = DepFields
        /\ x.there = dep.there /\ x.finalizer = dep.finalizer
    BY DepNoted DEF Stuck
  <1> HIDE DEF x
  <1> QED
    BY <1>1, <1>2, Returns, CallDone, SetCallDone, ShapeKept

LEMMA CreatedOK ==
  ASSUME IInv, CreatedMachineSet
  PROVE  IInv' /\ Forgives
  <1> DEFINE n == NewRevision(w)
             d == [w.d EXCEPT !.revision = n]
             noted == SetMachineDeploymentCondition(d, "NewMachineSetCreated")
             x == SetMachineDeploymentCondition(dep, "NewMachineSetCreated")
             a == [w EXCEPT !.d = d]
             b == [w EXCEPT !.d = noted, !.same = FALSE]
  <1>1. /\ w.pc \in {"created", "existed"} /\ UNCHANGED <<env, rested, sets>>
        /\ \/ Proceed(a) /\ UNCHANGED dep
           \/ dep' = x /\ Proceed(b)
           \/ Return /\ UNCHANGED dep
    BY DEF CreatedMachineSet, SetsKept, UsersIdle
  <1>2. Going(w, dep, rested) /\ Moded(w) /\ DOMAIN w = SyncFields /\ DOMAIN w.d = DepFields
    BY <1>1, AtHand DEF Placed
  <1> HIDE DEF n
  <1>3. DOMAIN d = DepFields /\ d.reason = w.d.reason /\ d.late = w.d.late
    BY <1>2 DEF DepFields
  <1> HIDE DEF d
  <1>4. DOMAIN noted = DepFields /\ noted.reason = "NewMachineSetCreated"
    BY <1>3, ConditionSet
  <1>5. /\ Fair(x, dep, rested) /\ Excused(x, rested) /\ DOMAIN x = DepFields
        /\ x.there = dep.there /\ x.finalizer = dep.finalizer
    BY DepNoted DEF Stuck
  <1> HIDE DEF noted, x
  <1>6. /\ DOMAIN a = SyncFields /\ a.d = d /\ a.same = w.same /\ a.mode = w.mode
        /\ DOMAIN b = SyncFields /\ b.d = noted /\ ~b.same /\ b.mode = w.mode
    BY <1>2 DEF SyncFields
  <1> HIDE DEF a, b
  <1>7. Going(a, dep, rested) /\ Moded(a)
    BY <1>2, <1>3, <1>6 DEF Going, Moded
  <1>8. Going(b, x, rested) /\ Moded(b)
    BY <1>4, <1>5, <1>6, GoingAnew DEF Moded
  <1>9. CASE Proceed(a) /\ UNCHANGED dep
    BY <1>1, <1>7, <1>9, ProceedOK, SetCallDone, ShapeKept
  <1>10. CASE dep' = x /\ Proceed(b)
    BY <1>1, <1>5, <1>8, <1>10, ProceedOK, CallDone, ShapeKept
  <1> QED
    BY <1>1, <1>9, <1>10, Returns, SetCallDone, ShapeKept

LEMMA ScaleOK ==
  ASSUME IInv, scaleMachineSet
  PROVE  IInv' /\ Forgives
  <1>1. w.pc = "resize" /\ UNCHANGED <<env, dep, rested>>
    BY DEF scaleMachineSet, DepKept, UsersIdle
  <1>2. PICK t :
          \/ /\ Write(t, [sets[t] EXCEPT !.spec = 1 - @, !.observed = FALSE])
             /\ Resized([w EXCEPT !.todo = @ \ {t}, !.current = @ \ {t}, !.scaled = TRUE])
          \/ Resized([w EXCEPT !.todo = {}, !.scaled = FALSE]) /\ UNCHANGED sets
          \/ Return /\ UNCHANGED sets
    BY Zenon DEF scaleMachineSet
  <1> DEFINE s == [sets[t] EXCEPT !.spec = 1 - @, !.observed = FALSE]
             a == [w EXCEPT !.todo = @ \ {t}, !.current = @ \ {t}, !.scaled = TRUE]
             b == [w EXCEPT !.todo = {}, !.scaled = FALSE]
  <1>3. \/ Write(t, s) /\ Resized(a)
        \/ Resized(b) /\ UNCHANGED sets
        \/ Return /\ UNCHANGED sets
    BY <1>2
  <1>4. t \in Templates => DOMAIN s = SetFields
    BY DEF IInv, SetsShape
  <1>5. /\ DOMAIN a = DOMAIN w /\ a.d = w.d /\ a.same = w.same /\ a.mode = w.mode /\ a.pc = w.pc
        /\ DOMAIN b = DOMAIN w /\ b.d = w.d /\ b.same = w.same /\ b.mode = w.mode /\ b.pc = w.pc
    BY <1>1, AtHand DEF SyncFields
  <1> HIDE DEF s, a, b
  <1>6. Going(w, dep, rested) /\ Moded(w)
    BY <1>1, AtHand DEF Placed
  <1>7. Going(a, dep, rested) /\ Moded(a) /\ Going(b, dep, rested) /\ Moded(b)
    BY <1>5, <1>6, GoingOn, Zenon
  <1>8. Gone(dep, rested)
    BY <1>1, <1>3, <1>5, <1>7, ResizedOK, Returns
  <1> QED
    BY <1>1, <1>3, <1>4, <1>8, WriteShape, ShapeKept, SetCallDone

LEMMA DeleteOldOK ==
  ASSUME IInv, DeleteOldMachineSet
  PROVE  IInv' /\ Forgives
  <1>1. w.pc = "cleanup" /\ UNCHANGED <<env, dep, rested>>
    BY DEF DeleteOldMachineSet, DepKept, UsersIdle
  <1>2. PICK t :
          \/ /\ Write(t, [sets[t] EXCEPT !.deleting = TRUE])
             /\ Cleaned([w EXCEPT !.todo = @ \ {t}, !.current = @ \ {t}])
          \/ /\ Cleaned([w EXCEPT !.todo = @ \ {t}, !.current = @ \ {t}]) \/ Return
             /\ UNCHANGED sets
    BY Zenon DEF DeleteOldMachineSet
  <1> DEFINE s == [sets[t] EXCEPT !.deleting = TRUE]
             a == [w EXCEPT !.todo = @ \ {t}, !.current = @ \ {t}]
  <1>3. \/ Write(t, s) /\ Cleaned(a)
        \/ (Cleaned(a) \/ Return) /\ UNCHANGED sets
    BY <1>2
  <1>4. t \in Templates => DOMAIN s = SetFields
    BY DEF IInv, SetsShape
  <1>5. /\ DOMAIN a = DOMAIN w /\ a.d = w.d /\ a.same = w.same /\ a.mode = w.mode /\ a.pc = w.pc
    BY <1>1, AtHand DEF SyncFields
  <1> HIDE DEF s, a
  <1>6. Going(w, dep, rested) /\ Moded(w)
    BY <1>1, AtHand DEF Placed
  <1>7. Going(a, dep, rested) /\ Moded(a)
    BY <1>5, <1>6, GoingOn
  <1>8. Gone(dep, rested)
    BY <1>1, <1>3, <1>5, <1>7, CleanedOK, Returns
  <1> QED
    BY <1>1, <1>3, <1>4, <1>8, WriteShape, ShapeKept, SetCallDone

LEMMA StatusOK ==
  ASSUME IInv, SyncStatus \/ rollback
  PROVE  IInv' /\ Forgives
  <1> DEFINE x == [dep EXCEPT !.observed = w.d.observed, !.total = w.d.total,
                              !.updated = w.d.updated, !.available = w.d.available,
                              !.reason = w.d.reason, !.late = w.d.late]
             y == [dep EXCEPT !.template = w.d.template, !.rollbackTo = None, !.observed = FALSE]
  <1>1. /\ w.pc # "idle" /\ UNCHANGED <<env, rested, sets>> /\ Return
        /\ \/ UNCHANGED dep
           \/ w.pc = "status" /\ ~Conflict /\ dep' = x
           \/ dep' = y
    BY DEF SyncStatus, rollback, SetsKept, UsersIdle
  <1>2. /\ DOMAIN x = DepFields /\ x.reason = w.d.reason /\ x.late = w.d.late
        /\ x.there = dep.there /\ x.finalizer = dep.finalizer
    BY DEF IInv, DepFields
  <1>3. /\ DOMAIN y = DepFields /\ y.reason = dep.reason /\ y.late = dep.late
        /\ y.there = dep.there /\ y.finalizer = dep.finalizer
    BY DEF IInv, DepFields
  <1> HIDE DEF x, y
  <1>4. w.pc = "status" /\ ~Conflict => Fair(x, dep, rested)
    BY <1>2 DEF Conflict, IInv, SyncOK, Fair, Excused
  <1>5. Fair(y, dep, rested)
    BY <1>3 DEF IInv, Fair, Excused
  <1>6. CASE UNCHANGED dep
    BY <1>1, <1>6, Returns, SetCallDone, ShapeKept
  <1>7. CASE w.pc = "status" /\ ~Conflict /\ dep' = x
    BY <1>1, <1>2, <1>4, <1>7, Returns, CallDone, ShapeKept
  <1>8. CASE dep' = y
    BY <1>1, <1>3, <1>5, <1>8, Returns, CallDone, ShapeKept
  <1> QED
    BY <1>1, <1>6, <1>7, <1>8

LEMMA CrashOK ==
  ASSUME IInv, Crash
  PROVE  IInv' /\ Forgives
  BY Returns, SetCallDone, ShapeKept DEF Crash, DepKept, SetsKept, UsersIdle

-----------------------------------------------------------------------------
(***************************************************************************)
(* Users, the machine set controller, and time.                            *)
(***************************************************************************)
\* The deployment is written from outside.
LEMMA OutsideDep ==
  ASSUME IInv, NEW d, WriteDeployment(d), env' = env, DOMAIN d = DepFields,
         Excused(d, rested'), d.reason = dep.reason, d.finalizer = dep.finalizer,
         d.there \/ ~dep.finalizer \/ ~dep.there
  PROVE  IInv' /\ Forgives
  <1> DEFINE x == [w EXCEPT !.same = FALSE]
  <1>1. dep' = d /\ sets' = sets /\ w' = x
    BY DEF WriteDeployment, SetsKept
  <1>2. /\ DOMAIN x = SyncFields /\ x.pc = w.pc /\ x.d = w.d /\ x.mode = w.mode /\ ~x.same
    BY DEF IInv, SyncOK, SyncFields
  <1> HIDE DEF x
  <1>3. SyncOK(w, dep, rested)'
    <2>1. SyncOK(w, dep, rested)
      BY DEF IInv
    <2>2. Moded(w) => Moded(w)'
      BY <1>1, <1>2, Zenon DEF Moded
    <2>3. w'.pc = w.pc /\ w'.d = w.d /\ ~w'.same /\ DOMAIN w' = SyncFields
      BY <1>1, <1>2, Zenon
    <2> QED
      BY <2>1, <2>2, <2>3, Zenon DEF SyncOK
  <1>4. SetsGone'
    BY <1>1, <1>2 DEF IInv, SetsGone, Fresh, Owned
  <1> QED
    BY <1>1, <1>3, <1>4 DEF IInv, SetsShape, Excused, Forgives

LEMMA UserDepOK ==
  ASSUME IInv,
         \/ \E t \in Templates : EditTemplate(t)
         \/ \E r \in 0 .. MaxRevision : AskRollback(r)
         \/ PauseOrResume
         \/ DeleteDeployment
  PROVE  IInv' /\ Forgives
  <1>0. DOMAIN dep = DepFields /\ Excused(dep, rested)
    BY DEF IInv
  <1>1. ASSUME NEW t, EditTemplate(t) PROVE IInv' /\ Forgives
    <2> DEFINE x == [dep EXCEPT !.template = t, !.observed = FALSE]
    <2>1. WriteDeployment(x) /\ env' = env /\ rested' = rested
      BY <1>1, Zenon DEF EditTemplate, MayAct
    <2>2. /\ DOMAIN x = DepFields /\ x.reason = dep.reason /\ x.late = dep.late
          /\ x.finalizer = dep.finalizer /\ x.there = dep.there
      BY <1>0 DEF DepFields
    <2> HIDE DEF x
    <2> QED
      BY <1>0, <2>1, <2>2, OutsideDep DEF Excused
  <1>2. ASSUME NEW r, AskRollback(r) PROVE IInv' /\ Forgives
    <2> DEFINE x == [dep EXCEPT !.rollbackTo = r, !.observed = FALSE]
    <2>1. WriteDeployment(x) /\ env' = env /\ rested' = rested
      BY <1>2, Zenon DEF AskRollback, MayAct
    <2>2. /\ DOMAIN x = DepFields /\ x.reason = dep.reason /\ x.late = dep.late
          /\ x.finalizer = dep.finalizer /\ x.there = dep.there
      BY <1>0 DEF DepFields
    <2> HIDE DEF x
    <2> QED
      BY <1>0, <2>1, <2>2, OutsideDep DEF Excused
  <1>3. CASE PauseOrResume
    <2> DEFINE x == [dep EXCEPT !.paused = ~@, !.observed = FALSE]
    <2>1. /\ WriteDeployment(x) /\ env' = env
          /\ rested' = (rested /\ ~(dep.paused /\ dep.reason = "DeploymentPaused"))
      BY <1>3 DEF PauseOrResume, MayAct
    <2>2. /\ DOMAIN x = DepFields /\ x.reason = dep.reason /\ x.late = dep.late
          /\ x.finalizer = dep.finalizer /\ x.there = dep.there
      BY <1>0 DEF DepFields
    <2> HIDE DEF x
    <2>3. Excused(x, rested')
      BY <1>0, <2>1, <2>2, Zenon DEF Excused
    <2> QED
      BY <2>1, <2>2, <2>3, OutsideDep
  <1>4. CASE DeleteDeployment
    <2> DEFINE x == [dep EXCEPT !.deleting = TRUE, !.observed = FALSE, !.there = dep.finalizer]
    <2>1. WriteDeployment(x) /\ env' = env /\ rested' = rested
      BY <1>4 DEF DeleteDeployment, MayAct
    <2>2. /\ DOMAIN x = DepFields /\ x.reason = dep.reason /\ x.late = dep.late
          /\ x.finalizer = dep.finalizer /\ x.there = dep.finalizer
      BY <1>0 DEF DepFields
    <2> HIDE DEF x
    <2> QED
      BY <1>0, <2>1, <2>2, OutsideDep DEF Excused
  <1> QED
    BY <1>1, <1>2, <1>3, <1>4

\* A set is written from outside: it is not claimed, nor released, by that.
LEMMA OutsideSet ==
  ASSUME IInv, NEW t \in Templates, NEW s, WriteFromOutside(t, s), env' = env,
         DOMAIN s = SetFields,
         s.there /\ s.owned /\ s.matches => sets[t].there /\ sets[t].owned /\ sets[t].matches
  PROVE  IInv' /\ Forgives
  <1> DEFINE x == [w EXCEPT !.current = @ \ {t}]
  <1>1. w' = x /\ Write(t, s) /\ dep' = dep /\ rested' = rested
    BY DEF WriteFromOutside, DepKept
  <1>2. /\ DOMAIN x = SyncFields /\ x.pc = w.pc /\ x.d = w.d /\ x.mode = w.mode
        /\ x.same = w.same
    BY DEF IInv, SyncOK, SyncFields
  <1> HIDE DEF x
  <1>3. SyncOK(w, dep, rested)'
    <2>1. SyncOK(w, dep, rested)
      BY DEF IInv
    <2>2. Moded(w) => Moded(w)'
      BY <1>1, <1>2, Zenon DEF Moded
    <2>3. Fair(w.d, dep, rested)' <=> Fair(w.d, dep, rested)
      BY <1>1, <1>2, Zenon DEF Fair, Excused
    <2>4. /\ w'.pc = w.pc /\ w'.d = w.d /\ w'.same = w.same /\ DOMAIN w' = SyncFields
          /\ dep' = dep
      BY <1>1, <1>2, Zenon
    <2> QED
      BY <2>1, <2>2, <2>3, <2>4, Zenon DEF SyncOK
  <1>4. Owned' \subseteq Owned
    BY <1>1 DEF Owned, Write, IInv, SetsShape
  <1>5. SetsGone'
    BY <1>1, <1>2, <1>4 DEF IInv, SetsGone, Fresh
  <1>6. SetsShape'
    BY <1>1, WriteShape
  <1> QED
    BY <1>1, <1>3, <1>5, <1>6 DEF IInv, Excused, Forgives

LEMMA SetEventOK ==
  ASSUME IInv, NEW t \in Templates, EditMachineSet(t) \/ MachineSetController(t)
  PROVE  IInv' /\ Forgives
  <1>0. DOMAIN sets[t] = SetFields
    BY DEF IInv, SetsShape
  <1>1. env' = env
    BY Zenon DEF EditMachineSet, MayAct, MachineSetController, MachineSetSync, MachineJoins,
           MachineSetGone, UsersIdle
  <1>2. ASSUME NEW s, WriteFromOutside(t, s), DOMAIN s = SetFields,
               s.there = sets[t].there,
               s.owned => sets[t].owned, s.matches => sets[t].matches
        PROVE  IInv' /\ Forgives
    BY <1>1, <1>2, OutsideSet
  <1>3. CASE EditMachineSet(t)
    <2> DEFINE a == [sets[t] EXCEPT !.owned = FALSE]
               b == [sets[t] EXCEPT !.matches = FALSE]
               c == [sets[t] EXCEPT !.deleting = TRUE]
    <2>1. WriteFromOutside(t, a) \/ WriteFromOutside(t, b) \/ WriteFromOutside(t, c)
      BY <1>3, Zenon DEF EditMachineSet
    <2>2. DOMAIN a = SetFields /\ a.there = sets[t].there /\ ~a.owned /\ a.matches = sets[t].matches
      BY <1>0 DEF SetFields
    <2>3. DOMAIN b = SetFields /\ b.there = sets[t].there /\ b.owned = sets[t].owned /\ ~b.matches
      BY <1>0 DEF SetFields
    <2>4. /\ DOMAIN c = SetFields /\ c.there = sets[t].there /\ c.owned = sets[t].owned
          /\ c.matches = sets[t].matches
      BY <1>0 DEF SetFields
    <2> HIDE DEF a, b, c
    <2> QED
      BY <1>2, <2>1, <2>2, <2>3, <2>4
  <1>4. CASE MachineSetSync(t) \/ MachineJoins(t)
    <2> DEFINE a == [sets[t] EXCEPT !.status = sets[t].spec, !.observed = TRUE,
                                    !.available = IF sets[t].spec = 0 THEN 0 ELSE @]
               b == [sets[t] EXCEPT !.available = 1]
    <2>1. WriteFromOutside(t, a) \/ WriteFromOutside(t, b)
      BY <1>4 DEF MachineSetSync, MachineJoins
    <2>2. /\ DOMAIN a = SetFields /\ a.there = sets[t].there /\ a.owned = sets[t].owned
          /\ a.matches = sets[t].matches
      BY <1>0 DEF SetFields
    <2>3. /\ DOMAIN b = SetFields /\ b.there = sets[t].there /\ b.owned = sets[t].owned
          /\ b.matches = sets[t].matches
      BY <1>0 DEF SetFields
    <2> HIDE DEF a, b
    <2> QED
      BY <1>2, <2>1, <2>2, <2>3
  <1>5. CASE MachineSetGone(t)
    <2>1. WriteFromOutside(t, NoSet)
      BY <1>5 DEF MachineSetGone
    <2>2. DOMAIN NoSet = SetFields /\ ~NoSet.there
      BY Zenon DEF NoSet, SetFields
    <2> QED
      BY <1>1, <2>1, <2>2, OutsideSet
  <1> QED
    BY <1>3, <1>4, <1>5 DEF MachineSetController

LEMMA PublishOK ==
  ASSUME IInv, NEW t, Publish(t)
  PROVE  IInv' /\ Forgives
  <1>1. UNCHANGED <<env, dep, rested, sets, w>>
    BY DEF Publish, DepKept, UsersIdle
  <1> QED
    BY <1>1 DEF IInv, SyncOK, Moded, Fair, Excused, SetsGone, SetsShape, Fresh, Owned, Forgives

LEMMA DeadlineOK ==
  ASSUME IInv, DeadlinePasses
  PROVE  IInv' /\ Forgives
  <1> DEFINE x == [dep EXCEPT !.late = TRUE]
             v == [w EXCEPT !.d.late = TRUE]
             c == [w.d EXCEPT !.late = TRUE]
  <1>1. /\ env' = env /\ sets' = sets /\ rested' = TRUE /\ dep' = x
        /\ IF w.pc = "idle" THEN w' = w ELSE w' = v
    BY DEF DeadlinePasses, SetsKept, UsersIdle
  <1>2. /\ DOMAIN x = DepFields /\ x.reason = dep.reason /\ x.late = TRUE
        /\ x.there = dep.there /\ x.finalizer = dep.finalizer
    BY Zenon DEF IInv, DepFields
  <1>3. SetsGone'
    <2>1. w'.pc = w.pc
      BY <1>1 DEF IInv, SyncOK, SyncFields
    <2> HIDE DEF x, v
    <2> QED
      BY <1>1, <1>2, <2>1 DEF IInv, SetsGone, Fresh, Owned
  <1>4. SyncOK(w, dep, rested)'
    <2>1. CASE w.pc = "idle"
      BY <1>1, <2>1, Zenon DEF IInv, SyncOK, Placed
    <2>2. CASE w.pc # "idle"
      <3>1. DOMAIN w = SyncFields /\ DOMAIN w.d = DepFields
        BY <2>2, AtHand
      <3>2. /\ DOMAIN c = DepFields /\ c.reason = w.d.reason /\ c.late = TRUE
            /\ c.deleting = w.d.deleting
        BY <3>1 DEF DepFields
      <3>3. v = [w EXCEPT !.d = c]
        BY <3>1 DEF SyncFields
      <3> HIDE DEF c, v, x
      <3>4. /\ DOMAIN v = SyncFields /\ v.d = c /\ v.pc = w.pc /\ v.same = w.same
            /\ v.mode = w.mode
        BY <3>1, <3>3 DEF SyncFields
      <3>5. Fair(c, dep', TRUE)
        BY DEF Fair, Excused
      <3>6. Fair(w'.d, dep', rested')
        BY <1>1, <2>2, <3>4, <3>5, Zenon
      <3>7. w.pc \notin {"status", "found"} /\ w.same => w.d.reason = dep.reason
        BY DEF IInv, SyncOK
      <3>8. /\ w.pc \in {"finalizer", "recheck", "adopt"} => ~w.d.deleting
            /\ w.pc \in Placed => Moded(w)
        BY DEF IInv, SyncOK
      <3> QED
        BY <1>1, <1>2, <2>2, <3>2, <3>4, <3>6, <3>7, <3>8, Zenon DEF SyncOK, Moded
    <2> QED
      BY <2>1, <2>2
  <1> QED
    BY <1>1, <1>2, <1>3, <1>4, Zenon DEF IInv, SetsShape, Excused, Forgives

-----------------------------------------------------------------------------
(***************************************************************************)
(* The theorems.                                                           *)
(***************************************************************************)
LEMMA InitIInv == Init => IInv
  <1> SUFFICES ASSUME Init PROVE IInv
    OBVIOUS
  <1>1. DOMAIN dep = DepFields /\ dep.there
    BY DEF Init, NewDeployment, RolledOut, DepFields
  <1>2. SetsShape
    BY DEF Init, SetsShape, PastSet, NoSet, SetFields
  <1>3. w = NoSync /\ rested = TRUE
    BY DEF Init
  <1> QED
    BY <1>1, <1>2, <1>3, NoSyncOK, Zenon DEF IInv, SetsGone, Excused

LEMMA NextIInv ==
  ASSUME IInv, [Next]_vars
  PROVE  IInv' /\ Forgives
  <1>1. CASE UNCHANGED vars
    BY <1>1 DEF vars, IInv, SyncOK, Moded, Fair, Excused, SetsGone, SetsShape, Fresh, Owned,
                Forgives
  <1>2. CASE Worker
    BY <1>2, StartOK, AddFinalizersOK, RecheckOK, AdoptOK, RemoveFinalizerOK, TerminateOK,
       PausedOK, SetRevisionOK, DeploymentRevisionOK, FoundNewOK, CreateOK, CreateFailsOK,
       CreatedOK, ScaleOK, DeleteOldOK, StatusOK, SMTT(30) DEF Worker
  <1>3. CASE Users
    BY <1>3, UserDepOK, SetEventOK DEF Users
  <1> QED
    BY <1>1, <1>2, <1>3, CrashOK, SetEventOK, PublishOK, DeadlineOK, Zenon DEF Next

LEMMA Inductive == Spec => []IInv
  BY InitIInv, NextIInv, PTL DEF Spec

\* A deployment whose finalizer was set goes only when no set it owns is left, whatever users
\* orphan, relabel or delete in the meantime: reconcileClusterMachineDeployment removes the
\* finalizer only after a list without sets, and claims none once the deployment is deleting.
THEOREM GoneWithoutSets == Spec => []NoSetLeft
  <1>1. IInv => NoSetLeft
    BY DEF IInv, SetsGone, NoSetLeft
  <1> QED
    BY <1>1, Inductive, PTL

\* checkPausedConditions forgives the time of a noticed pause, whatever conflicts, crashes and
\* edits come in between: no write of the condition says ProgressDeadlineExceeded before a
\* whole deadline has passed since.
THEOREM PausedTimeForgiven == Spec => PauseForgiven
  <1>1. IInv /\ [Next]_vars =>
          [dep'.reason = "ProgressDeadlineExceeded" /\ dep.reason # "ProgressDeadlineExceeded"
             => rested]_vars
    BY NextIInv DEF Forgives, Stuck
  <1> QED
    BY <1>1, Inductive, PTL DEF Spec, PauseForgiven

-----------------------------------------------------------------------------
(***************************************************************************)
(* The revisions.                                                          *)
(***************************************************************************)
\* The steps of a sync between listing the sets and numbering the new one.
Listing == {"recheck", "adopt"}
Numbering == {"terminate", "paused", "new", "found"}

\* The sets that are the deployment's or may still become so: it adopts only live orphans, and
\* none once it is being deleted, except those a sync is adopting already.
Claimable ==
    {t \in Templates :
        /\ sets[t].there /\ sets[t].matches
        /\ \/ sets[t].owned
           \/ ~sets[t].deleting /\ ~dep.deleting
           \/ t \in w.todo /\ (w.pc = "adopt" \/ (w.pc = "recheck" /\ ~dep.deleting))}

Apart(S) ==
    \A t, u \in S : t # u /\ sets[t].revision > 0 => sets[t].revision # sets[u].revision

\* Every set of numbers up to k has a greatest one.  (It follows by induction on k; here k grows
\* by one with each revision, and the induction is that on the steps.)
Chain(k) == \A S \in SUBSET (0 .. k) : S # {} => \E m \in S : \A x \in S : x <= m

Numbered ==
    \E k \in Nat :
       /\ Chain(k)
       /\ \A u \in Templates :
            /\ sets[u].revision \in 0 .. k
            /\ w.pc \in Listing \cup Numbering => w.view[u].revision \in 0 .. k

\* What the sync knows: all sets it must number above are among those it claims, and the
\* revisions in its copies are the present ones, but for the set of the template.
Informed ==
    /\ w.pc \in Listing \cup Numbering =>
         /\ w.mine \subseteq Templates /\ (w.pc \in Listing => w.todo \subseteq Templates)
         /\ \A u \in Templates : sets[u].there /\ u # w.d.template =>
               w.view[u].revision = sets[u].revision
    /\ w.pc \in Listing /\ ~w.err => Claimable \subseteq w.mine \cup w.todo
    /\ w.pc \in Numbering => Claimable \subseteq w.mine

RInv == Fresh => Apart(Claimable) /\ Numbered /\ Informed


-----------------------------------------------------------------------------
(***************************************************************************)
(* Where a sync is after it has gone on: past the numbering, or before it  *)
(* with the same copies.                                                   *)
(***************************************************************************)
Past == w'.pc \notin Listing \cup Numbering
Follows(v) ==
    Past \/ (w'.pc \in Numbering /\ w'.mine = v.mine /\ w'.view = v.view /\ w'.d = v.d)

LEMMA ReturnPast ==
  ASSUME Return
  PROVE  Past
  BY DEF Return, Sync, NoSync, Past, Listing, Numbering

LEMMA ToStatusPast ==
  ASSUME NEW v, ToStatus(v)
  PROVE  Past
  <1> DEFINE s == NewStatus(v)
             x == [NoSync EXCEPT !.pc = "status", !.same = v.same, !.d = s]
  <1>1. w' = NoSync \/ w' = x
    BY DEF ToStatus, Sync
  <1> HIDE DEF s
  <1>2. NoSync.pc = "idle" /\ x.pc = "status"
    BY DEF NoSync
  <1> HIDE DEF x
  <1> QED
    BY <1>1, <1>2 DEF Past, Listing, Numbering

LEMMA CleanedPast ==
  ASSUME NEW v, v.pc = "cleanup", Cleaned(v)
  PROVE  Past
  BY ToStatusPast DEF Cleaned, Sync, Past, Listing, Numbering

LEMMA ResizedPast ==
  ASSUME NEW v, DOMAIN v = SyncFields, v.pc = "resize", Resized(v)
  PROVE  Past
  <1> DEFINE u == [v EXCEPT !.pc = "cleanup", !.todo = cleanupMachineDeployment(v)]
  <1>1. Sync(v) \/ Cleaned(u) \/ ToStatus(v)
    BY DEF Resized
  <1>2. u.pc = "cleanup"
    BY DEF SyncFields
  <1> HIDE DEF u
  <1> QED
    BY <1>1, <1>2, ToStatusPast, CleanedPast DEF Sync, Past, Listing, Numbering

LEMMA ProceedPast ==
  ASSUME NEW v, DOMAIN v = SyncFields, Proceed(v)
  PROVE  Past
  <1> DEFINE c == [v.d EXCEPT !.template = RollbackTemplate(v)]
             x == [NoSync EXCEPT !.pc = "rollback", !.same = v.same, !.d = c]
             u == [v EXCEPT !.pc = "resize", !.todo = Resizes(v)]
  <1>1. ToStatus(v) \/ w' = x \/ Resized(u)
    BY DEF Proceed, Sync
  <1> HIDE DEF c
  <1>2. x.pc = "rollback" /\ u.pc = "resize" /\ DOMAIN u = SyncFields
    BY DEF NoSync, SyncFields
  <1> HIDE DEF u, x
  <1> QED
    BY <1>1, <1>2, ToStatusPast, ResizedPast DEF Past, Listing, Numbering

LEMMA LookUpFollows ==
  ASSUME NEW v, DOMAIN v = SyncFields, LookUp(v)
  PROVE  Follows(v)
  <1> DEFINE u == [v EXCEPT !.new = FindNewMachineSet(v)]
             x == [v EXCEPT !.pc = "new"]
  <1>1. Proceed(u) \/ w' = x
    BY DEF LookUp, Sync
  <1>2. /\ DOMAIN u = SyncFields
        /\ x.pc = "new" /\ x.mine = v.mine /\ x.view = v.view /\ x.d = v.d
    BY DEF SyncFields
  <1> HIDE DEF u, x
  <1> QED
    BY <1>1, <1>2, ProceedPast DEF Follows, Numbering

LEMMA RolloutFollows ==
  ASSUME NEW v, DOMAIN v = SyncFields, Rollout(v)
  PROVE  Follows(v)
  <1> DEFINE u == [v EXCEPT !.mode = "rollout", !.new = None]
  <1>1. LookUp(u)
    BY DEF Rollout
  <1>2. DOMAIN u = SyncFields /\ u.mine = v.mine /\ u.view = v.view /\ u.d = v.d
    BY DEF SyncFields
  <1> HIDE DEF u
  <1> QED
    BY <1>1, <1>2, LookUpFollows DEF Follows

LEMMA RouteFollows ==
  ASSUME NEW v, DOMAIN v = SyncFields, Route(v)
  PROVE  Follows(v)
  <1> DEFINE a == [v EXCEPT !.mode = "sync"]
             b == [v EXCEPT !.mode = "rollback"]
             c == [v EXCEPT !.pc = "new", !.mode = "scaling"]
  <1>1. LookUp(a) \/ LookUp(b) \/ Rollout(v) \/ w' = c
    BY DEF Route, Sync
  <1>2. /\ DOMAIN a = SyncFields /\ a.mine = v.mine /\ a.view = v.view /\ a.d = v.d
        /\ DOMAIN b = SyncFields /\ b.mine = v.mine /\ b.view = v.view /\ b.d = v.d
        /\ c.pc = "new" /\ c.mine = v.mine /\ c.view = v.view /\ c.d = v.d
    BY DEF SyncFields
  <1> HIDE DEF a, b, c
  <1> QED
    BY <1>1, <1>2, LookUpFollows, RolloutFollows DEF Follows, Numbering

LEMMA FoundFollows ==
  ASSUME NEW v, DOMAIN v = SyncFields, Found(v)
  PROVE  Follows(v) /\ (v.mode # "scaling" => Past)
  BY RolloutFollows, ProceedPast DEF Found, Follows

LEMMA ClaimedFollows ==
  ASSUME NEW v, DOMAIN v = SyncFields, Claimed(v)
  PROVE  Follows(v)
  <1> DEFINE x == [NoSync EXCEPT !.pc = "unfinalize", !.d = v.d]
             y == [v EXCEPT !.pc = "terminate"]
             z == [v EXCEPT !.pc = "paused"]
  <1>1. w' = x \/ w' = y \/ w' = z \/ Route(v)
    BY DEF Claimed, Sync
  <1>2. /\ x.pc = "unfinalize"
        /\ y.pc = "terminate" /\ y.mine = v.mine /\ y.view = v.view /\ y.d = v.d
        /\ z.pc = "paused" /\ z.mine = v.mine /\ z.view = v.view /\ z.d = v.d
    BY DEF NoSync, SyncFields
  <1> HIDE DEF x, y, z
  <1> QED
    BY <1>1, <1>2, RouteFollows DEF Follows, Past, Listing, Numbering

-----------------------------------------------------------------------------
(***************************************************************************)
(* Steps that number no set.                                               *)
(***************************************************************************)
\* Sets may go, be released, relabelled or deleted.
SetsShrink ==
    \A u \in Templates :
       /\ sets'[u].there => /\ sets[u].there /\ sets'[u].revision = sets[u].revision
                            /\ sets'[u].matches => sets[u].matches
                            /\ sets'[u].owned => sets[u].owned
                            /\ sets[u].deleting => sets'[u].deleting
       /\ sets'[u].revision \in {0, sets[u].revision}

\* The step before the numbering goes on with the copies it has.
SameCopies ==
    /\ w'.mine = w.mine /\ w'.view = w.view /\ w'.d.template = w.d.template
    /\ \/ w.pc \in Numbering /\ w'.pc \in Numbering
       \/ w'.pc = w.pc /\ w'.todo = w.todo /\ w'.err = w.err
       \/ w.pc = "recheck" /\ w'.pc = "adopt" /\ ~dep.deleting /\ w'.todo = w.todo /\ w'.err = w.err

LEMMA ApartKept ==
  ASSUME Apart(Claimable), Claimable' \subseteq Claimable,
         \A u \in Claimable' : sets'[u].revision = sets[u].revision
  PROVE  Apart(Claimable)'
  BY DEF Apart

LEMMA NumberedKept ==
  ASSUME Numbered, \A u \in Templates : sets'[u].revision \in {0, sets[u].revision},
         Past \/ (w'.view = w.view /\ w.pc \in Listing \cup Numbering)
  PROVE  Numbered'
  <1>1. PICK k \in Nat :
          /\ Chain(k)
          /\ \A u \in Templates :
               /\ sets[u].revision \in 0 .. k
               /\ w.pc \in Listing \cup Numbering => w.view[u].revision \in 0 .. k
    BY DEF Numbered
  <1>2. Chain(k)'
    BY <1>1 DEF Chain
  <1>3. \A u \in Templates :
               /\ sets'[u].revision \in 0 .. k
               /\ w'.pc \in Listing \cup Numbering => w'.view[u].revision \in 0 .. k
    BY <1>1 DEF Past
  <1> QED
    BY <1>2, <1>3 DEF Numbered

LEMMA Calm ==
  ASSUME RInv, env' = env, SetsShrink, dep.deleting => dep'.deleting, Past \/ SameCopies
  PROVE  RInv'
  <1> SUFFICES ASSUME Fresh PROVE (Apart(Claimable) /\ Numbered /\ Informed)'
    BY DEF RInv, Fresh
  <1>1. Apart(Claimable) /\ Numbered /\ Informed
    BY DEF RInv
  <1>2. Claimable' \subseteq Claimable
    <2> SUFFICES ASSUME NEW t \in Claimable' PROVE t \in Claimable
      OBVIOUS
    <2>1. /\ t \in Templates /\ sets'[t].there /\ sets'[t].matches
          /\ \/ sets'[t].owned
             \/ ~sets'[t].deleting /\ ~dep'.deleting
             \/ t \in w'.todo /\ (w'.pc = "adopt" \/ (w'.pc = "recheck" /\ ~dep'.deleting))
      BY DEF Claimable
    <2>2. /\ sets[t].there /\ sets[t].matches
          /\ sets'[t].owned => sets[t].owned
          /\ sets[t].deleting => sets'[t].deleting
      BY <2>1, Zenon DEF SetsShrink
    <2>3. CASE t \in w'.todo /\ (w'.pc = "adopt" \/ (w'.pc = "recheck" /\ ~dep'.deleting))
      BY <2>1, <2>2, <2>3, Zenon DEF Claimable, Past, SameCopies, Listing, Numbering
    <2> QED
      BY <2>1, <2>2, <2>3 DEF Claimable
  <1>3. \A u \in Claimable' : sets'[u].revision = sets[u].revision
    BY DEF Claimable, SetsShrink
  <1>4. Numbered'
    <2>1. \A u \in Templates : sets'[u].revision \in {0, sets[u].revision}
      BY DEF SetsShrink
    <2>2. Past \/ (w'.view = w.view /\ w.pc \in Listing \cup Numbering)
      BY DEF SameCopies, Past, Listing, Numbering
    <2> QED
      BY <1>1, <2>1, <2>2, NumberedKept, Zenon
  <1>5. Informed'
    <2>1. CASE Past
      BY <2>1, SMTT(30) DEF Past, Informed
    <2>2. CASE SameCopies
      <3>1. w'.pc \in Listing => w.pc \in Listing /\ w'.todo = w.todo /\ w'.err = w.err
        BY <2>2 DEF SameCopies, Listing, Numbering
      <3>2. w'.pc \in Numbering => w.pc \in Numbering
        BY <2>2 DEF SameCopies, Listing, Numbering
      <3>3. \A u \in Templates : sets'[u].there => sets[u].there /\ sets'[u].revision = sets[u].revision
        BY DEF SetsShrink
      <3> QED
        BY <1>1, <1>2, <2>2, <3>1, <3>2, <3>3, ZenonT(60) DEF SameCopies, Informed
    <2> QED
      BY <2>1, <2>2
  <1> QED
    BY <1>1, <1>2, <1>3, <1>4, <1>5, ApartKept

\* The sets are listed: the copies are the sets themselves while the lister keeps up, and all
\* that are the deployment's, or may become so, are claimed or about to be adopted.
LEMMA ClaimInforms ==
  ASSUME RInv, NEW v, DOMAIN v = SyncFields, ClaimMachineSets(v),
         w.pc \notin Listing \cup Numbering,
         v.d.deleting => dep'.deleting, dep'.deleting = dep.deleting,
         UNCHANGED <<env, sets>>
  PROVE  RInv'
  <1> SUFFICES ASSUME Fresh PROVE (Apart(Claimable) /\ Numbered /\ Informed)'
    BY DEF RInv, Fresh
  <1>1. Apart(Claimable) /\ Numbered
    BY DEF RInv
  <1> DEFINE view == [t \in Templates |-> Listed(t)]
             matching == {t \in Templates : view[t].there /\ view[t].matches}
             mine == {t \in matching : view[t].owned}
             orphans == {t \in matching \ mine : ~v.d.deleting /\ ~view[t].deleting}
             u == [v EXCEPT !.view = view, !.current = ListedCurrent,
                            !.mine = mine, !.todo = orphans]
             x == [u EXCEPT !.pc = "recheck"]
  <1>2. IF orphans = {} THEN Claimed(u) ELSE w' = x
    BY Zenon DEF ClaimMachineSets, Sync
  <1>3. view = [t \in Templates |-> sets[t]]
    BY SMTT(30) DEF Listed, Fresh
  <1>4. /\ mine \subseteq Templates
        /\ mine = {t \in Templates : sets[t].there /\ sets[t].matches /\ sets[t].owned}
        /\ orphans = {t \in Templates : /\ sets[t].there /\ sets[t].matches /\ ~sets[t].owned
                                        /\ ~v.d.deleting /\ ~sets[t].deleting}
    BY <1>3
  <1> HIDE DEF view, mine, orphans
  <1>5. /\ DOMAIN u = SyncFields /\ u.view = view /\ u.mine = mine /\ u.todo = orphans
        /\ u.d = v.d
    BY DEF SyncFields
  <1> HIDE DEF u
  <1>6. /\ x.view = view /\ x.mine = mine /\ x.todo = orphans /\ x.d = v.d
        /\ x.pc = "recheck"
    BY <1>5 DEF SyncFields
  <1> HIDE DEF x
  <1>7. \/ Past
        \/ w'.pc \in Numbering /\ orphans = {} /\ w'.mine = mine /\ w'.view = view
        \/ w'.pc = "recheck" /\ w'.todo = orphans /\ w'.mine = mine /\ w'.view = view
    BY <1>2, <1>5, <1>6, ClaimedFollows, Zenon DEF Follows
  <1>8. Claimable' \subseteq Claimable
    BY <1>4, <1>7, Zenon DEF Claimable, Past, Listing, Numbering
  <1>9. Past \/ Claimable' \subseteq mine \cup orphans
    BY <1>4, <1>7 DEF Claimable, Listing, Numbering
  <1>10. Apart(Claimable)'
    BY <1>1, <1>8, ApartKept
  <1>11. Numbered'
    <2>1. PICK k \in Nat :
            /\ Chain(k)
            /\ \A t \in Templates : sets[t].revision \in 0 .. k
      BY <1>1 DEF Numbered
    <2>2. Chain(k)'
      BY <2>1, SMTT(30) DEF Chain
    <2>3. \A t \in Templates :
            /\ sets'[t].revision \in 0 .. k
            /\ w'.pc \in Listing \cup Numbering => w'.view[t].revision \in 0 .. k
      BY <1>3, <1>7, <2>1 DEF Past
    <2> QED
      BY <2>2, <2>3 DEF Numbered
  <1>12. Informed'
    <2>1. CASE Past
      BY <2>1, SMTT(30) DEF Past, Informed
    <2>2. CASE ~Past
      <3>1. w'.pc \in Listing => w'.pc = "recheck" /\ w'.todo = orphans
        BY <1>7, <2>2 DEF Listing, Numbering
      <3>2. w'.pc \in Numbering => orphans = {}
        BY <1>7, <2>2, SMTT(30) DEF Listing, Numbering
      <3>3. w'.mine = mine /\ w'.view = view
        BY <1>7, <2>2
      <3>4. \A t \in Templates : view[t] = sets'[t]
        BY <1>3
      <3> QED
        BY <1>4, <1>9, <2>2, <3>1, <3>2, <3>3, <3>4, Zenon DEF Informed
    <2> QED
      BY <2>1, <2>2, SMTT(30)
  <1> QED
    BY <1>10, <1>11, <1>12

-----------------------------------------------------------------------------
(***************************************************************************)
(* Steps that number a set.                                                *)
(***************************************************************************)
LEMMA ChainGrows ==
  ASSUME NEW k \in Nat, Chain(k)
  PROVE  Chain(k + 1)
  <1> SUFFICES ASSUME NEW S \in SUBSET (0 .. k + 1), S # {}
               PROVE  \E m \in S : \A x \in S : x <= m
    BY DEF Chain
  <1>1. CASE k + 1 \in S
    BY <1>1
  <1>2. CASE k + 1 \notin S
    <2>1. \A x \in S : x \in 0 .. k
      BY <1>2
    <2>2. S \in SUBSET (0 .. k)
      BY <2>1, Zenon
    <2> QED
      BY <2>2, Zenon DEF Chain
  <1> QED
    BY <1>1, <1>2

\* The new revision is above that of every other set the deployment has or may get.
LEMMA NumberedAbove ==
  ASSUME RInv, Fresh, w.pc = "new"
  PROVE  \E k \in Nat :
            /\ Chain(k) /\ NewRevision(w) \in 1 .. k
            /\ \A u \in Templates : sets[u].revision \in 0 .. k /\ w.view[u].revision \in 0 .. k
            /\ \A u \in Claimable \ {w.d.template} : sets[u].revision < NewRevision(w)
  <1>1. PICK k \in Nat :
          /\ Chain(k)
          /\ \A u \in Templates : sets[u].revision \in 0 .. k /\ w.view[u].revision \in 0 .. k
    BY DEF RInv, Numbered, Numbering
  <1>2. /\ w.mine \subseteq Templates /\ Claimable \subseteq w.mine
        /\ \A u \in Templates : sets[u].there /\ u # w.d.template =>
              w.view[u].revision = sets[u].revision
    BY DEF RInv, Informed, Numbering
  <1> DEFINE others == w.mine \ {FindNewMachineSet(w)}
             R == {0} \cup {w.view[t].revision : t \in others}
             m == Max(R)
  <1>3. others \subseteq Templates /\ w.mine \ {w.d.template} \subseteq others
    BY <1>2, HistoryAssumption DEF FindNewMachineSet
  <1> HIDE DEF others
  <1>4. R \in SUBSET (0 .. k) /\ R # {}
    BY <1>1, <1>3
  <1>5. \A u \in others : w.view[u].revision \in R
    OBVIOUS
  <1> HIDE DEF R
  <1>6. \E x \in R : \A y \in R : x >= y
    <2>1. PICK x \in R : \A y \in R : y <= x
      BY <1>1, <1>4 DEF Chain
    <2> QED
      BY <1>4, <2>1
  <1>7. m \in R /\ \A y \in R : m >= y
    BY <1>6, Zenon DEF Max
  <1>8. NewRevision(w) = m + 1
    BY DEF NewRevision, MaxRevisionOf, others, R
  <1> HIDE DEF m
  <1>9. m \in 0 .. k
    BY <1>4, <1>7
  <1>10. NewRevision(w) \in 1 .. k + 1
    BY <1>8, <1>9
  <1>11. ASSUME NEW u \in Claimable \ {w.d.template} PROVE sets[u].revision < NewRevision(w)
    <2>1. u \in others /\ u \in Templates /\ sets[u].there
      BY <1>2, <1>3, <1>11 DEF Claimable
    <2>2. sets[u].revision = w.view[u].revision /\ w.view[u].revision \in R
      BY <1>2, <1>5, <1>11, <2>1
    <2>3. m >= sets[u].revision
      BY <1>7, <2>2, Zenon
    <2>4. sets[u].revision \in 0 .. k
      BY <1>1, <2>1
    <2> QED
      BY <1>8, <1>9, <2>3, <2>4
  <1>12. \A u \in Templates : sets[u].revision \in 0 .. k + 1 /\ w.view[u].revision \in 0 .. k + 1
    BY <1>1
  <1> QED
    BY <1>1, <1>10, <1>11, <1>12, ChainGrows

LEMMA Below ==
  ASSUME NEW k \in Nat, NEW n \in 1 .. k, NEW r \in 0 .. k, r < n
  PROVE  r \in 0 .. n - 1
  OBVIOUS

\* The set of the template gets the new revision.
LEMMA Renumbered ==
  ASSUME RInv, Fresh, w.pc = "new", UNCHANGED <<env, dep>>, NEW s,
         sets' = [sets EXCEPT ![w.d.template] = s], SetsShape,
         s.revision = NewRevision(w), Follows(w),
         Past \/ w.d.template \in w.mine
  PROVE  RInv'
  <1> DEFINE t == w.d.template
  <1>1. PICK k \in Nat :
          /\ Chain(k) /\ NewRevision(w) \in 1 .. k
          /\ \A u \in Templates : sets[u].revision \in 0 .. k /\ w.view[u].revision \in 0 .. k
          /\ \A u \in Claimable \ {t} : sets[u].revision < NewRevision(w)
    BY NumberedAbove
  <1>2. \A u \in Templates : sets'[u] = IF u = t THEN s ELSE sets[u]
    BY DEF SetsShape
  <1>3. w'.pc \notin Listing
    BY DEF Follows, Past, Listing, Numbering
  <1>4. Claimable' \subseteq Claimable \cup {t} /\ Claimable' \subseteq Templates
    <2> SUFFICES ASSUME NEW u \in Claimable', u # t PROVE u \in Claimable
      BY DEF Claimable
    <2> QED
      BY <1>2, <1>3, Zenon DEF Claimable, Listing
  <1>5. ASSUME NEW u \in Claimable' PROVE u # t => sets'[u].revision \in 0 .. NewRevision(w) - 1
    <2> SUFFICES ASSUME u # t PROVE sets'[u].revision \in 0 .. NewRevision(w) - 1
      OBVIOUS
    <2>1. u \in Claimable \ {t} /\ u \in Templates
      BY <1>4, Zenon
    <2>2. sets'[u] = sets[u] /\ sets[u].revision \in 0 .. k /\ sets[u].revision < NewRevision(w)
      BY <1>1, <1>2, <2>1, Zenon
    <2> QED
      BY <1>1, <2>2, Below, Zenon
  <1>6. \A u \in Claimable' : u = t => sets'[u].revision = NewRevision(w)
    BY <1>2, <1>4
  <1>7. Apart(Claimable)'
    <2> SUFFICES ASSUME NEW a \in Claimable', NEW b \in Claimable', a # b, sets'[a].revision > 0
                 PROVE  sets'[a].revision # sets'[b].revision
      BY DEF Apart
    <2>1. CASE a # t /\ b # t
      <3>1. a \in Claimable /\ b \in Claimable /\ sets'[a] = sets[a] /\ sets'[b] = sets[b]
        BY <1>2, <1>4, <2>1, SMTT(30)
      <3> QED
        BY <3>1 DEF RInv, Apart
    <2>2. CASE a = t
      <3>1. sets'[a].revision = NewRevision(w) /\ sets'[b].revision \in 0 .. NewRevision(w) - 1
        BY <1>5, <1>6, <2>2, Zenon
      <3> QED
        BY <3>1
    <2>3. CASE b = t
      <3>1. sets'[b].revision = NewRevision(w) /\ sets'[a].revision \in 0 .. NewRevision(w) - 1
        BY <1>5, <1>6, <2>3, Zenon
      <3> QED
        BY <3>1
    <2> QED
      BY <2>1, <2>2, <2>3
  <1>8. Numbered'
    <2>1. Chain(k)'
      BY <1>1 DEF Chain
    <2>2. \A u \in Templates :
            /\ sets'[u].revision \in 0 .. k
            /\ w'.pc \in Listing \cup Numbering => w'.view[u].revision \in 0 .. k
      BY <1>1, <1>2, SMTT(30) DEF Follows, Past
    <2> QED
      BY <2>1, <2>2 DEF Numbered
  <1>9. Informed'
    <2>1. CASE Past
      BY <2>1, Zenon DEF Past, Informed
    <2>2. CASE ~Past
      <3>1. w'.mine = w.mine /\ w'.view = w.view /\ w'.d = w.d
        BY <2>2 DEF Follows
      <3>2. t \in w.mine
        BY <2>2
      <3>3. w.mine \subseteq Templates /\ Claimable \subseteq w.mine
        BY DEF RInv, Informed, Numbering
      <3>4. \A u \in Templates : sets'[u].there /\ u # t => w.view[u].revision = sets'[u].revision
        <4>1. \A u \in Templates : sets[u].there /\ u # t => w.view[u].revision = sets[u].revision
          BY DEF RInv, Informed, Numbering
        <4>2. \A u \in Templates : u # t => sets'[u] = sets[u]
          BY <1>2
        <4> QED
          BY <4>1, <4>2
      <3> QED
        BY <1>3, <1>4, <3>1, <3>2, <3>3, <3>4, Zenon DEF Informed
    <2> QED
      BY <2>1, <2>2
  <1> QED
    BY <1>7, <1>8, <1>9 DEF RInv

-----------------------------------------------------------------------------
(***************************************************************************)
(* Every step.                                                             *)
(***************************************************************************)
LEMMA SetsSame ==
  ASSUME UNCHANGED sets
  PROVE  SetsShrink
  BY DEF SetsShrink

LEMMA WriteShrinks ==
  ASSUME IInv, NEW t, NEW s, Write(t, s),
         t \in Templates => /\ s.there => sets[t].there /\ s.revision = sets[t].revision
                            /\ s.matches => sets[t].matches
                            /\ s.owned => sets[t].owned
                            /\ sets[t].deleting => s.deleting
                            /\ s.revision \in {0, sets[t].revision}
  PROVE  SetsShrink
  <1>1. \A u \in Templates : sets'[u] = IF u = t THEN s ELSE sets[u]
    BY DEF Write, IInv, SetsShape
  <1> QED
    BY <1>1 DEF SetsShrink

LEMMA Followed ==
  ASSUME NEW v, Follows(v), w.pc \in Numbering, v.mine = w.mine, v.view = w.view,
         v.d.template = w.d.template
  PROVE  Past \/ SameCopies
  BY DEF Follows, SameCopies

LEMMA StartR ==
  ASSUME IInv, RInv, Start
  PROVE  RInv'
  <1> DEFINE v == [NoSync EXCEPT !.d = dep, !.same = TRUE]
             x == [v EXCEPT !.pc = "finalizer"]
  <1>1. /\ w.pc = "idle" /\ UNCHANGED <<env, dep, sets>>
        /\ ClaimMachineSets(v) \/ w' = x
    BY DEF Start, Sync, DepKept, SetsKept, UsersIdle
  <1>2. DOMAIN v = SyncFields /\ v.d = dep
    BY DEF NoSync, SyncFields
  <1> HIDE DEF v
  <1>3. x.pc = "finalizer"
    BY <1>2 DEF SyncFields
  <1> HIDE DEF x
  <1>4. CASE ClaimMachineSets(v)
    BY <1>1, <1>2, <1>4, ClaimInforms DEF Listing, Numbering
  <1>5. CASE w' = x
    <2>1. Past
      BY <1>3, <1>5 DEF Past, Listing, Numbering
    <2> QED
      BY <1>1, <2>1, SetsSame, Calm
  <1> QED
    BY <1>1, <1>4, <1>5

LEMMA AddFinalizersR ==
  ASSUME IInv, RInv, addMachineDeploymentFinalizers
  PROVE  RInv'
  <1> DEFINE v == [w EXCEPT !.same = FALSE]
             x == [dep EXCEPT !.finalizer = TRUE]
  <1>1. /\ w.pc = "finalizer" /\ UNCHANGED <<env, sets>>
        /\ \/ dep' = x /\ ClaimMachineSets(v)
           \/ dep' = dep /\ ClaimMachineSets(w)
    BY DEF addMachineDeploymentFinalizers, SetsKept, UsersIdle
  <1>2. DOMAIN w = SyncFields /\ ~w.d.deleting /\ x.deleting = dep.deleting
    BY <1>1 DEF IInv, SyncOK, DepFields
  <1>3. DOMAIN v = SyncFields /\ v.d = w.d
    BY <1>2 DEF SyncFields
  <1> HIDE DEF v, x
  <1> QED
    BY <1>1, <1>2, <1>3, ClaimInforms DEF Listing, Numbering

LEMMA RecheckR ==
  ASSUME IInv, RInv, RecheckDeletionTimestamp
  PROVE  RInv'
  <1> DEFINE v == [w EXCEPT !.pc = "adopt"]
  <1>1. /\ w.pc = "recheck" /\ UNCHANGED <<env, dep, sets>>
        /\ (~dep.deleting /\ w' = v) \/ Return
    BY DEF RecheckDeletionTimestamp, Sync, DepKept, SetsKept, UsersIdle
  <1>2. /\ v.pc = "adopt" /\ v.mine = w.mine /\ v.view = w.view /\ v.d = w.d
        /\ v.todo = w.todo /\ v.err = w.err
    BY <1>1, AtHand DEF SyncFields
  <1> HIDE DEF v
  <1>3. Past \/ SameCopies
    BY <1>1, <1>2, ReturnPast DEF SameCopies
  <1> QED
    BY <1>1, <1>3, SetsSame, Calm

\* A call of a sync after which it has returned, or is past the numbering.
LEMMA PastR ==
  ASSUME RInv, env' = env, SetsShrink, dep.deleting => dep'.deleting, Past
  PROVE  RInv'
  BY Calm

LEMMA ReturningR ==
  ASSUME IInv, RInv,
         deleteMachineDeploymentFinalizers \/ CreateFails \/ SyncStatus \/ rollback \/ Crash
  PROVE  RInv'
  <1>0. DOMAIN dep = DepFields
    BY DEF IInv
  <1>1. UNCHANGED <<env, sets>> /\ Return
    BY Zenon DEF deleteMachineDeploymentFinalizers, CreateFails, SyncStatus, rollback, Crash,
       SetsKept, UsersIdle
  <1>2. CASE deleteMachineDeploymentFinalizers
    <2>1. dep' = [dep EXCEPT !.there = FALSE] \/ dep' = dep
      BY <1>2 DEF deleteMachineDeploymentFinalizers
    <2>2. dep'.deleting = dep.deleting
      BY <1>0, <2>1 DEF DepFields
    <2> QED
      BY <1>1, <2>2, ReturnPast, SetsSame, PastR
  <1>3. CASE CreateFails
    <2>1. dep' = SetMachineDeploymentCondition(dep, "MachineSetCreateError") \/ dep' = dep
      BY <1>3 DEF CreateFails
    <2>2. dep'.deleting = dep.deleting
      BY <1>0, <2>1, ConditionSet
    <2> QED
      BY <1>1, <2>2, ReturnPast, SetsSame, PastR
  <1>4. CASE SyncStatus
    <2> DEFINE x == [dep EXCEPT !.observed = w.d.observed, !.total = w.d.total,
                               !.updated = w.d.updated, !.available = w.d.available,
                               !.reason = w.d.reason, !.late = w.d.late]
    <2>1. dep' = x \/ dep' = dep
      BY <1>4 DEF SyncStatus
    <2>2. x.deleting = dep.deleting
      BY <1>0 DEF DepFields
    <2> HIDE DEF x
    <2> QED
      BY <1>1, <2>1, <2>2, ReturnPast, SetsSame, PastR
  <1>5. CASE rollback
    <2> DEFINE x == [dep EXCEPT !.template = w.d.template,
                               !.rollbackTo = None, !.observed = FALSE]
    <2>1. dep' = x \/ dep' = dep
      BY <1>5 DEF rollback
    <2>2. x.deleting = dep.deleting
      BY <1>0 DEF DepFields
    <2> HIDE DEF x
    <2> QED
      BY <1>1, <2>1, <2>2, ReturnPast, SetsSame, PastR
  <1>6. CASE Crash
    <2>1. dep' = dep
      BY <1>6 DEF Crash, DepKept
    <2> QED
      BY <1>1, <2>1, ReturnPast, SetsSame, PastR
  <1> QED
    BY <1>2, <1>3, <1>4, <1>5, <1>6

LEMMA AdoptR ==
  ASSUME IInv, RInv, AdoptMachineSet
  PROVE  RInv'
  <1>1. w.pc = "adopt" /\ UNCHANGED <<env, dep>>
    BY DEF AdoptMachineSet, DepKept, UsersIdle
  <1>2. DOMAIN w = SyncFields
    BY <1>1, AtHand
  <1>3. PICK t \in w.todo :
          LET v == [w EXCEPT !.todo = @ \ {t}, !.current = @ \ {t}]
          IN  \/ /\ sets[t].there /\ Write(t, [sets[t] EXCEPT !.owned = TRUE])
                 /\ Adopted([v EXCEPT !.mine = @ \cup {t}])
              \/ ~sets[t].there /\ Adopted(v) /\ UNCHANGED sets
              \/ Adopted([v EXCEPT !.err = TRUE]) /\ UNCHANGED sets
    BY Zenon DEF AdoptMachineSet
  <1> DEFINE v == [w EXCEPT !.todo = @ \ {t}, !.current = @ \ {t}]
             a == [v EXCEPT !.mine = @ \cup {t}]
             b == [v EXCEPT !.err = TRUE]
             s == [sets[t] EXCEPT !.owned = TRUE]
  <1>4. /\ DOMAIN v = SyncFields /\ v.d = w.d /\ v.view = w.view /\ v.mine = w.mine
        /\ v.todo = w.todo \ {t} /\ v.err = w.err /\ v.pc = "adopt"
    BY <1>1, <1>2 DEF SyncFields
  <1>5. \/ sets[t].there /\ Write(t, s) /\ Adopted(a)
        \/ ~sets[t].there /\ Adopted(v) /\ UNCHANGED sets
        \/ Adopted(b) /\ UNCHANGED sets
    BY <1>3
  <1> HIDE DEF v
  <1>6. /\ DOMAIN a = SyncFields /\ a.d = w.d /\ a.view = w.view /\ a.mine = w.mine \cup {t}
        /\ a.todo = w.todo \ {t} /\ a.err = w.err /\ a.pc = "adopt"
        /\ DOMAIN b = SyncFields /\ b.d = w.d /\ b.view = w.view /\ b.mine = w.mine
        /\ b.todo = w.todo \ {t} /\ b.err /\ b.pc = "adopt"
    BY <1>4 DEF SyncFields
  <1> HIDE DEF a, b
  \* Afterwards: returned, adopting, or all adopted.
  <1>7. ASSUME NEW x, Adopted(x), DOMAIN x = SyncFields
        PROVE  \/ Past
               \/ w' = x
               \/ /\ w'.pc \in Numbering /\ w'.mine = x.mine /\ w'.view = x.view /\ w'.d = x.d
                  /\ x.todo = {} /\ ~x.err
    BY <1>7, ReturnPast, ClaimedFollows, Zenon DEF Adopted, Sync, Follows
  <1> SUFFICES ASSUME Fresh PROVE (Apart(Claimable) /\ Numbered /\ Informed)'
    BY <1>1 DEF RInv, Fresh
  <1>8. Apart(Claimable) /\ Numbered /\ Informed
    BY DEF RInv
  <1>9. PICK x :
          /\ Past \/ w' = x \/ (/\ w'.pc \in Numbering /\ w'.mine = x.mine /\ w'.view = x.view
                                /\ w'.d = x.d /\ x.todo = {} /\ ~x.err)
          /\ x.pc = "adopt" /\ x.d = w.d /\ x.view = w.view /\ x.todo = w.todo \ {t}
          /\ \/ /\ sets[t].there /\ Write(t, s) /\ x.mine = w.mine \cup {t} /\ x.err = w.err
             \/ ~sets[t].there /\ UNCHANGED sets /\ x.mine = w.mine /\ x.err = w.err
             \/ UNCHANGED sets /\ x.err /\ x.mine = w.mine
    BY <1>4, <1>5, <1>6, <1>7, SMTT(30)
  <1>10. \A u \in Templates : DOMAIN sets[u] = SetFields
    BY DEF IInv, SetsShape
  <1>11. t \in Templates => /\ s.there = sets[t].there /\ s.matches = sets[t].matches /\ s.owned
                            /\ s.deleting = sets[t].deleting /\ s.revision = sets[t].revision
    BY <1>10 DEF SetFields
  <1> HIDE DEF s
  <1>12. Write(t, s) => \A u \in Templates : sets'[u] = IF u = t THEN s ELSE sets[u]
    BY SMTT(30) DEF Write, IInv, SetsShape
  <1>13. \A u \in Templates :
            /\ sets'[u].there = sets[u].there /\ sets'[u].matches = sets[u].matches
            /\ sets'[u].deleting = sets[u].deleting /\ sets'[u].revision = sets[u].revision
            /\ sets'[u].owned => sets[u].owned \/ u \in w.todo
            /\ u # t => sets'[u] = sets[u]
    <2>1. UNCHANGED sets \/ Write(t, s)
      BY <1>9, Zenon
    <2>2. CASE UNCHANGED sets
      BY <2>2, Zenon
    <2>3. CASE Write(t, s)
      BY <1>11, <1>12, <2>3, Zenon
    <2> QED
      BY <2>1, <2>2, <2>3, Zenon
  <1>14. w'.pc \in Listing => w' = x
    BY <1>9, Zenon DEF Past, Listing, Numbering
  <1>15. Claimable' \subseteq Claimable
    <2> SUFFICES ASSUME NEW u \in Claimable' PROVE u \in Claimable
      OBVIOUS
    <2>1. /\ u \in Templates /\ sets'[u].there /\ sets'[u].matches
          /\ \/ sets'[u].owned
             \/ ~sets'[u].deleting /\ ~dep'.deleting
             \/ u \in w'.todo /\ w'.pc \in Listing
      BY DEF Claimable, Listing
    <2>2. u \in w'.todo /\ w'.pc \in Listing => u \in w.todo
      BY <1>9, <1>14
    <2> QED
      BY <1>1, <1>13, <2>1, <2>2, ZenonT(60) DEF Claimable
  <1>16. Apart(Claimable)'
    BY <1>8, <1>13, <1>15, ApartKept, Zenon DEF Claimable
  <1>17. w'.pc \in Listing \cup Numbering =>
            /\ w'.view = w.view /\ w'.d = w.d /\ w'.mine = x.mine
    BY <1>9 DEF Past
  <1>18. Numbered'
    <2>1. Past \/ w'.view = w.view
      BY <1>17, Zenon DEF Past
    <2> QED
      BY <1>1, <1>8, <1>13, <2>1, NumberedKept, ZenonT(60) DEF Listing
  <1>19. ASSUME ~x.err, NEW u \in Claimable', u \in w.mine \cup w.todo
         PROVE  u \in x.mine \cup x.todo
    <2>1. u \in Templates /\ sets[u].there
      BY <1>13, <1>19 DEF Claimable
    <2> QED
      BY <1>9, <1>19, <2>1, Zenon
  <1>20. ~x.err => Claimable' \subseteq x.mine \cup x.todo
    <2>1. ~x.err => ~w.err
      BY <1>9
    <2>2. ~w.err => Claimable \subseteq w.mine \cup w.todo
      BY <1>1, <1>8, Zenon DEF Informed, Listing
    <2> QED
      BY <1>15, <1>19, <2>1, <2>2, ZenonT(60)
  <1>21. x.mine \subseteq Templates /\ x.todo \subseteq Templates
    <2>1. w.mine \subseteq Templates /\ w.todo \subseteq Templates
      BY <1>1, <1>8 DEF Informed, Listing
    <2> QED
      BY <1>9, <2>1
  <1>22. Informed'
    <2>1. CASE Past
      BY <2>1 DEF Past, Informed
    <2>2. CASE ~Past
      <3>1. w'.pc \in Listing \cup Numbering
        BY <2>2, SMTT(30) DEF Past
      <3>2. \A u \in Templates : sets'[u].there /\ u # w'.d.template =>
               w'.view[u].revision = sets'[u].revision
        BY <1>1, <1>8, <1>13, <1>17, <3>1, ZenonT(60) DEF Informed, Listing
      <3>3. w'.pc \in Numbering => x.todo = {} /\ ~x.err
        BY <1>9, <2>2 DEF Listing, Numbering
      <3> QED
        BY <1>14, <1>17, <1>20, <1>21, <2>2, <3>1, <3>2, <3>3, ZenonT(60) DEF Informed
    <2> QED
      BY <2>1, <2>2
  <1> QED
    BY <1>16, <1>18, <1>22

LEMMA TerminateR ==
  ASSUME IInv, RInv, terminateMachineSets
  PROVE  RInv'
  <1>1. w.pc = "terminate" /\ UNCHANGED <<env, dep>>
    BY DEF terminateMachineSets, DepKept, UsersIdle
  <1>2. PICK done :
          /\ sets' = [t \in Templates |->
                        IF t \in done /\ sets[t].there
                        THEN [sets[t] EXCEPT !.deleting = TRUE] ELSE sets[t]]
          /\ LookUp([w EXCEPT !.current = @ \ done, !.mode = "status"])
    BY Zenon DEF terminateMachineSets
  <1> DEFINE v == [w EXCEPT !.current = @ \ done, !.mode = "status"]
  <1>3. DOMAIN v = SyncFields /\ v.d = w.d /\ v.mine = w.mine /\ v.view = w.view /\ LookUp(v)
    BY <1>1, <1>2, AtHand DEF SyncFields
  <1> HIDE DEF v
  <1>4. SetsShrink
    <2> SUFFICES ASSUME NEW u \in Templates
                 PROVE  /\ sets'[u].there = sets[u].there /\ sets'[u].revision = sets[u].revision
                        /\ sets'[u].matches = sets[u].matches /\ sets'[u].owned = sets[u].owned
                        /\ sets[u].deleting => sets'[u].deleting
      BY DEF SetsShrink
    <2> DEFINE s == [sets[u] EXCEPT !.deleting = TRUE]
    <2>1. /\ s.there = sets[u].there /\ s.revision = sets[u].revision
          /\ s.matches = sets[u].matches /\ s.owned = sets[u].owned /\ s.deleting
      BY DEF IInv, SetsShape, SetFields
    <2>2. sets'[u] = s \/ sets'[u] = sets[u]
      BY <1>2
    <2> HIDE DEF s
    <2> QED
      BY <2>1, <2>2
  <1>5. Past \/ SameCopies
    BY <1>1, <1>3, LookUpFollows, Followed DEF Numbering
  <1> QED
    BY <1>1, <1>4, <1>5, Calm

LEMMA PausedR ==
  ASSUME IInv, RInv, checkPausedConditions
  PROVE  RInv'
  <1> DEFINE reason == IF w.d.paused THEN "DeploymentPaused" ELSE "DeploymentResumed"
             x == SetMachineDeploymentCondition(dep, reason)
             c == SetMachineDeploymentCondition(w.d, reason)
             v == [w EXCEPT !.d = c, !.same = FALSE]
  <1>1. /\ w.pc = "paused" /\ UNCHANGED <<env, sets>>
        /\ \/ dep' = x /\ Route(v)
           \/ Return /\ UNCHANGED dep
    BY DEF checkPausedConditions, SetsKept, UsersIdle
  <1> HIDE DEF reason
  <1>2. c.template = w.d.template
    BY <1>1, AtHand DEF SetMachineDeploymentCondition, DepFields
  <1>3. x.deleting = dep.deleting
    BY ConditionSet DEF IInv
  <1> HIDE DEF c, x
  <1>4. DOMAIN v = SyncFields /\ v.d = c /\ v.mine = w.mine /\ v.view = w.view
    BY <1>1, AtHand, Zenon DEF SyncFields
  <1> HIDE DEF v
  <1>5. Past \/ SameCopies
    BY <1>1, <1>2, <1>4, ReturnPast, RouteFollows, Followed DEF Numbering
  <1> QED
    BY <1>1, <1>3, <1>5, SetsSame, Calm

LEMMA SetRevisionR ==
  ASSUME IInv, RInv, SyncSetRevision
  PROVE  RInv'
  <1> DEFINE t == FindNewMachineSet(w)
             s == [sets[t] EXCEPT !.revision = NewRevision(w)]
             a == [w EXCEPT !.current = @ \ {t}]
             b == [w EXCEPT !.new = t, !.view[t] = s]
  <1>1. /\ w.pc = "new" /\ UNCHANGED <<env, dep>> /\ t # None
        /\ \/ Write(t, s) /\ Found(IF w.mode = "scaling" THEN a ELSE b)
           \/ Return /\ UNCHANGED sets
    BY DEF SyncSetRevision, DepKept, UsersIdle
  <1>2. t = w.d.template /\ t \in w.mine
    BY <1>1 DEF FindNewMachineSet
  <1>3. CASE Return /\ UNCHANGED sets
    BY <1>1, <1>3, ReturnPast, SetsSame, PastR
  <1>4. CASE Write(t, s) /\ Found(IF w.mode = "scaling" THEN a ELSE b)
    <2> SUFFICES ASSUME Fresh PROVE RInv'
      BY <1>1 DEF RInv, Fresh
    <2>1. t \in Templates
      BY <1>1, <1>2 DEF RInv, Informed, Numbering
    <2>2. s.revision = NewRevision(w)
      BY <2>1 DEF IInv, SetsShape, SetFields
    <2> HIDE DEF t, s
    <2>3. /\ DOMAIN a = SyncFields /\ a.mine = w.mine /\ a.view = w.view /\ a.d = w.d
          /\ DOMAIN b = SyncFields /\ b.mode = w.mode
      BY <1>1, AtHand DEF SyncFields
    <2> HIDE DEF a, b
    <2>4. Follows(w)
      BY <1>4, <2>3, FoundFollows DEF Follows
    <2> QED
      BY <1>1, <1>2, <1>4, <2>2, <2>4, Renumbered, ZenonT(60) DEF Write, IInv
  <1> QED
    BY <1>1, <1>3, <1>4

LEMMA DeploymentRevisionR ==
  ASSUME IInv, RInv, SyncDeploymentRevision
  PROVE  RInv'
  <1> DEFINE t == FindNewMachineSet(w)
             r == w.view[t].revision
             d == IF env.deadline /\ w.d.reason = "none"
                  THEN SetMachineDeploymentCondition(w.d, "FoundNewMachineSet") ELSE w.d
             c == [d EXCEPT !.revision = r]
             v == [w EXCEPT !.new = t, !.d = c, !.pc = "found"]
             x == [dep EXCEPT !.revision = r]
  <1>1. /\ w.pc = "new" /\ UNCHANGED <<env, sets>>
        /\ \/ dep' = x /\ w' = v
           \/ Return /\ UNCHANGED dep
    BY DEF SyncDeploymentRevision, Sync, SetsKept, UsersIdle
  <1> HIDE DEF t, r
  <1>2. DOMAIN d = DepFields /\ d.template = w.d.template
    BY <1>1, AtHand DEF SetMachineDeploymentCondition, DepFields
  <1> HIDE DEF d
  <1>3. c.template = w.d.template
    BY <1>2 DEF DepFields
  <1>4. x.deleting = dep.deleting
    BY DEF IInv, DepFields
  <1> HIDE DEF c, x
  <1>5. v.pc = "found" /\ v.d = c /\ v.mine = w.mine /\ v.view = w.view
    BY <1>1, AtHand DEF SyncFields
  <1> HIDE DEF v
  <1>6. Past \/ SameCopies
    BY <1>1, <1>3, <1>5, ReturnPast DEF SameCopies, Numbering
  <1> QED
    BY <1>1, <1>4, <1>6, SetsSame, Calm

LEMMA FoundNewR ==
  ASSUME IInv, RInv, FoundNewMachineSet
  PROVE  RInv'
  <1> DEFINE x == [dep EXCEPT !.reason = w.d.reason, !.late = w.d.late]
             v == [w EXCEPT !.same = FALSE]
  <1>1. /\ w.pc = "found" /\ UNCHANGED <<env, sets>>
        /\ \/ dep' = x /\ Found(v)
           \/ Return /\ UNCHANGED dep
    BY DEF FoundNewMachineSet, SetsKept, UsersIdle
  <1>2. x.deleting = dep.deleting
    BY DEF IInv, DepFields
  <1>3. DOMAIN v = SyncFields /\ v.d = w.d /\ v.mine = w.mine /\ v.view = w.view
    BY <1>1, AtHand, SMTT(30) DEF SyncFields
  <1> HIDE DEF v, x
  <1>4. Past \/ SameCopies
    BY <1>1, <1>3, ReturnPast, FoundFollows, Followed, Zenon DEF Numbering
  <1> QED
    BY <1>1, <1>2, <1>4, SetsSame, Calm

LEMMA CreateR ==
  ASSUME IInv, RInv, CreateMachineSet
  PROVE  RInv'
  <1> DEFINE t == w.d.template
             s == [NoSet EXCEPT !.there = TRUE, !.owned = TRUE, !.matches = TRUE,
                                !.revision = NewRevision(w),
                                !.spec = IF Count(w, "status") < 2 THEN 1 ELSE 0]
             a == [w EXCEPT !.new = t, !.pc = "created", !.view[t] = s, !.current = @ \cup {t}]
             b == [w EXCEPT !.new = t, !.pc = "existed", !.view[t] = Listed(t),
                            !.current = (@ \ {t}) \cup (ListedCurrent \cap {t})]
  <1>1. /\ w.pc = "new" /\ UNCHANGED <<env, dep>>
        /\ \/ Write(t, s) /\ w' = a
           \/ (w' = NoSync \/ w' = b) /\ UNCHANGED sets
    BY ZenonT(60) DEF CreateMachineSet, Sync, DepKept, SetsKept, UsersIdle
  <1>2. s.revision = NewRevision(w)
    BY DEF NoSet
  <1> HIDE DEF t, s
  <1>3. a.pc = "created" /\ b.pc = "existed" /\ NoSync.pc = "idle"
    BY <1>1, AtHand DEF SyncFields, NoSync
  <1> HIDE DEF a, b
  <1>4. Past
    BY <1>1, <1>3 DEF Past, Listing, Numbering
  <1>5. CASE Write(t, s)
    <2> SUFFICES ASSUME Fresh PROVE RInv'
      BY <1>1 DEF RInv, Fresh
    <2> QED
      BY <1>1, <1>2, <1>4, <1>5, Renumbered, ZenonT(60) DEF Write, IInv, Follows, t
  <1>6. CASE UNCHANGED sets
    BY <1>1, <1>4, <1>6, SetsSame, PastR
  <1> QED
    BY <1>1, <1>5, <1>6

LEMMA CreatedR ==
  ASSUME IInv, RInv, CreatedMachineSet
  PROVE  RInv'
  <1> DEFINE d == [w.d EXCEPT !.revision = NewRevision(w)]
             noted == SetMachineDeploymentCondition(d, "NewMachineSetCreated")
             a == [w EXCEPT !.d = d]
             b == [w EXCEPT !.d = noted, !.same = FALSE]
  <1>1. /\ w.pc \in {"created", "existed"} /\ UNCHANGED <<env, sets>>
        /\ dep' = SetMachineDeploymentCondition(dep, "NewMachineSetCreated") \/ dep' = dep
        /\ Proceed(a) \/ Proceed(b) \/ Return
    BY DEF CreatedMachineSet, SetsKept, UsersIdle
  <1> HIDE DEF d, noted
  <1>2. DOMAIN a = SyncFields /\ DOMAIN b = SyncFields
    BY <1>1, AtHand
  <1> HIDE DEF a, b
  <1>3. Past
    BY <1>1, <1>2, ProceedPast, ReturnPast
  <1>4. dep'.deleting = dep.deleting
    BY <1>1, ConditionSet DEF IInv
  <1> QED
    BY <1>1, <1>3, <1>4, SetsSame, PastR

LEMMA ScaleR ==
  ASSUME IInv, RInv, scaleMachineSet
  PROVE  RInv'
  <1>1. w.pc = "resize" /\ UNCHANGED <<env, dep>>
    BY DEF scaleMachineSet, DepKept, UsersIdle
  <1>2. PICK t :
          \/ /\ Write(t, [sets[t] EXCEPT !.spec = 1 - @, !.observed = FALSE])
             /\ Resized([w EXCEPT !.todo = @ \ {t}, !.current = @ \ {t}, !.scaled = TRUE])
          \/ /\ UNCHANGED sets
             /\ Resized([w EXCEPT !.todo = {}, !.scaled = FALSE]) \/ Return
    BY Zenon DEF scaleMachineSet
  <1> DEFINE s == [sets[t] EXCEPT !.spec = 1 - @, !.observed = FALSE]
             a == [w EXCEPT !.todo = @ \ {t}, !.current = @ \ {t}, !.scaled = TRUE]
             b == [w EXCEPT !.todo = {}, !.scaled = FALSE]
  <1>3. /\ Write(t, s) \/ UNCHANGED sets
        /\ Resized(a) \/ Resized(b) \/ Return
    BY <1>2
  <1>4. t \in Templates => /\ s.there = sets[t].there /\ s.matches = sets[t].matches
                           /\ s.owned = sets[t].owned /\ s.deleting = sets[t].deleting
                           /\ s.revision = sets[t].revision
    BY DEF IInv, SetsShape, SetFields
  <1>5. DOMAIN a = SyncFields /\ a.pc = "resize" /\ DOMAIN b = SyncFields /\ b.pc = "resize"
    BY <1>1, AtHand DEF SyncFields
  <1> HIDE DEF s, a, b
  <1>6. Past
    BY <1>3, <1>5, ResizedPast, ReturnPast, Zenon
  <1>7. SetsShrink
    BY <1>3, <1>4, WriteShrinks, SetsSame
  <1> QED
    BY <1>1, <1>6, <1>7, PastR

LEMMA DeleteOldR ==
  ASSUME IInv, RInv, DeleteOldMachineSet
  PROVE  RInv'
  <1>1. w.pc = "cleanup" /\ UNCHANGED <<env, dep>>
    BY DEF DeleteOldMachineSet, DepKept, UsersIdle
  <1>2. PICK t :
          /\ \/ Write(t, [sets[t] EXCEPT !.deleting = TRUE])
             \/ UNCHANGED sets
          /\ Cleaned([w EXCEPT !.todo = @ \ {t}, !.current = @ \ {t}]) \/ Return
    BY Zenon DEF DeleteOldMachineSet
  <1> DEFINE s == [sets[t] EXCEPT !.deleting = TRUE]
             v == [w EXCEPT !.todo = @ \ {t}, !.current = @ \ {t}]
  <1>3. Write(t, s) \/ UNCHANGED sets
    BY <1>2
  <1>4. t \in Templates => /\ s.there = sets[t].there /\ s.matches = sets[t].matches
                           /\ s.owned = sets[t].owned /\ s.deleting
                           /\ s.revision = sets[t].revision
    BY DEF IInv, SetsShape, SetFields
  <1>5. v.pc = "cleanup" /\ (Cleaned(v) \/ Return)
    BY <1>1, <1>2, AtHand DEF SyncFields
  <1> HIDE DEF s, v
  <1>6. Past
    BY <1>5, CleanedPast, ReturnPast, Zenon
  <1>7. SetsShrink
    BY <1>3, <1>4, WriteShrinks, SetsSame
  <1> QED
    BY <1>1, <1>6, <1>7, PastR

\* The sync keeps its copies when others write.
LEMMA OthersR ==
  ASSUME IInv, RInv, env' = env, SetsShrink, dep.deleting => dep'.deleting,
         \/ w' = w
         \/ w' = [w EXCEPT !.same = FALSE]
         \/ \E t : w' = [w EXCEPT !.current = @ \ {t}]
  PROVE  RInv'
  <1>1. DOMAIN w = SyncFields
    BY DEF IInv, SyncOK
  <1>2. /\ w'.pc = w.pc /\ w'.mine = w.mine /\ w'.view = w.view /\ w'.d = w.d
        /\ w'.todo = w.todo /\ w'.err = w.err
    BY <1>1 DEF SyncFields
  <1>3. SameCopies
    BY <1>2 DEF SameCopies
  <1> QED
    BY <1>3, Calm

LEMMA UserDepR ==
  ASSUME IInv, RInv,
         \/ \E t \in Templates : EditTemplate(t)
         \/ \E r \in 0 .. MaxRevision : AskRollback(r)
         \/ PauseOrResume
         \/ DeleteDeployment
  PROVE  RInv'
  <1>1. DOMAIN dep = DepFields
    BY DEF IInv
  <1>2. ASSUME NEW d, WriteDeployment(d), env' = env, dep.deleting => d.deleting PROVE RInv'
    BY <1>2, SetsSame, OthersR DEF WriteDeployment, SetsKept
  <1>3. ASSUME NEW t, EditTemplate(t) PROVE RInv'
    <2> DEFINE x == [dep EXCEPT !.template = t, !.observed = FALSE]
    <2>1. WriteDeployment(x) /\ env' = env
      BY <1>3, Zenon DEF EditTemplate, MayAct
    <2>2. x.deleting = dep.deleting
      BY <1>1 DEF DepFields
    <2> HIDE DEF x
    <2> QED
      BY <1>2, <2>1, <2>2
  <1>4. ASSUME NEW r, AskRollback(r) PROVE RInv'
    <2> DEFINE x == [dep EXCEPT !.rollbackTo = r, !.observed = FALSE]
    <2>1. WriteDeployment(x) /\ env' = env
      BY <1>4, Zenon DEF AskRollback, MayAct
    <2>2. x.deleting = dep.deleting
      BY <1>1 DEF DepFields
    <2> HIDE DEF x
    <2> QED
      BY <1>2, <2>1, <2>2
  <1>5. CASE PauseOrResume
    <2> DEFINE x == [dep EXCEPT !.paused = ~@, !.observed = FALSE]
    <2>1. WriteDeployment(x) /\ env' = env
      BY <1>5, Zenon DEF PauseOrResume, MayAct
    <2>2. x.deleting = dep.deleting
      BY <1>1 DEF DepFields
    <2> HIDE DEF x
    <2> QED
      BY <1>2, <2>1, <2>2
  <1>6. CASE DeleteDeployment
    <2> DEFINE x == [dep EXCEPT !.deleting = TRUE, !.observed = FALSE, !.there = dep.finalizer]
    <2>1. WriteDeployment(x) /\ env' = env
      BY <1>6, Zenon DEF DeleteDeployment, MayAct
    <2>2. x.deleting
      BY <1>1 DEF DepFields
    <2> HIDE DEF x
    <2> QED
      BY <1>2, <2>1, <2>2
  <1> QED
    BY <1>3, <1>4, <1>5, <1>6

LEMMA SetEventR ==
  ASSUME IInv, RInv, NEW t \in Templates, EditMachineSet(t) \/ MachineSetController(t)
  PROVE  RInv'
  <1>0. DOMAIN sets[t] = SetFields
    BY DEF IInv, SetsShape
  <1>1. env' = env
    BY Zenon DEF EditMachineSet, MayAct, MachineSetController, MachineSetSync, MachineJoins,
           MachineSetGone, UsersIdle
  <1>2. ASSUME NEW s, WriteFromOutside(t, s),
               s.there => /\ sets[t].there /\ s.revision = sets[t].revision
                          /\ s.matches => sets[t].matches
                          /\ s.owned => sets[t].owned
                          /\ sets[t].deleting => s.deleting,
               s.revision \in {0, sets[t].revision}
        PROVE  RInv'
    <2>1. \A u \in Templates : sets'[u] = IF u = t THEN s ELSE sets[u]
      BY <1>2 DEF WriteFromOutside, Write, IInv, SetsShape
    <2>2. SetsShrink
      BY <1>2, <2>1 DEF SetsShrink
    <2>3. dep' = dep /\ w' = [w EXCEPT !.current = @ \ {t}]
      BY <1>2, SMTT(30) DEF WriteFromOutside, DepKept
    <2> QED
      BY <1>1, <2>2, <2>3, OthersR, Zenon
  <1>3. CASE EditMachineSet(t)
    <2> DEFINE a == [sets[t] EXCEPT !.owned = FALSE]
               b == [sets[t] EXCEPT !.matches = FALSE]
               c == [sets[t] EXCEPT !.deleting = TRUE]
    <2>1. WriteFromOutside(t, a) \/ WriteFromOutside(t, b) \/ WriteFromOutside(t, c)
      BY <1>3, Zenon DEF EditMachineSet
    <2>2. /\ a.there = sets[t].there /\ ~a.owned /\ a.matches = sets[t].matches
          /\ a.deleting = sets[t].deleting /\ a.revision = sets[t].revision
      BY <1>0 DEF SetFields
    <2>3. /\ b.there = sets[t].there /\ b.owned = sets[t].owned /\ ~b.matches
          /\ b.deleting = sets[t].deleting /\ b.revision = sets[t].revision
      BY <1>0 DEF SetFields
    <2>4. /\ c.there = sets[t].there /\ c.owned = sets[t].owned /\ c.matches = sets[t].matches
          /\ c.deleting /\ c.revision = sets[t].revision
      BY <1>0, SMTT(30) DEF SetFields
    <2> HIDE DEF a, b, c
    <2> QED
      BY <1>2, <2>1, <2>2, <2>3, <2>4
  <1>4. CASE MachineSetSync(t) \/ MachineJoins(t)
    <2> DEFINE a == [sets[t] EXCEPT !.status = sets[t].spec, !.observed = TRUE,
                                    !.available = IF sets[t].spec = 0 THEN 0 ELSE @]
               b == [sets[t] EXCEPT !.available = 1]
    <2>1. WriteFromOutside(t, a) \/ WriteFromOutside(t, b)
      BY <1>4 DEF MachineSetSync, MachineJoins
    <2>2. /\ a.there = sets[t].there /\ a.owned = sets[t].owned /\ a.matches = sets[t].matches
          /\ a.deleting = sets[t].deleting /\ a.revision = sets[t].revision
      BY <1>0 DEF SetFields
    <2>3. /\ b.there = sets[t].there /\ b.owned = sets[t].owned /\ b.matches = sets[t].matches
          /\ b.deleting = sets[t].deleting /\ b.revision = sets[t].revision
      BY <1>0, Zenon DEF SetFields
    <2> HIDE DEF a, b
    <2> QED
      BY <1>2, <2>1, <2>2, <2>3
  <1>5. CASE MachineSetGone(t)
    <2>1. WriteFromOutside(t, NoSet)
      BY <1>5 DEF MachineSetGone
    <2>2. ~NoSet.there /\ NoSet.revision = 0
      BY DEF NoSet
    <2> QED
      BY <1>2, <2>1, <2>2
  <1> QED
    BY <1>3, <1>4, <1>5 DEF MachineSetController

LEMMA PublishR ==
  ASSUME IInv, RInv, NEW t, Publish(t)
  PROVE  RInv'
  BY SetsSame, OthersR DEF Publish, DepKept, UsersIdle

LEMMA DeadlineR ==
  ASSUME IInv, RInv, DeadlinePasses
  PROVE  RInv'
  <1> DEFINE x == [dep EXCEPT !.late = TRUE]
             v == [w EXCEPT !.d.late = TRUE]
             c == [w.d EXCEPT !.late = TRUE]
  <1>1. /\ env' = env /\ sets' = sets /\ dep' = x
        /\ IF w.pc = "idle" THEN w' = w ELSE w' = v
    BY DEF DeadlinePasses, SetsKept, UsersIdle
  <1>2. x.deleting = dep.deleting
    BY DEF IInv, DepFields
  <1> HIDE DEF x
  <1>3. CASE w.pc = "idle"
    BY <1>1, <1>2, <1>3, SetsSame, OthersR
  <1>4. CASE w.pc # "idle"
    <2>1. DOMAIN w = SyncFields /\ DOMAIN w.d = DepFields
      BY <1>4, AtHand
    <2>2. c.template = w.d.template
      BY <2>1 DEF DepFields
    <2>3. v = [w EXCEPT !.d = c]
      BY <2>1 DEF SyncFields
    <2> HIDE DEF c, v
    <2>4. /\ v.pc = w.pc /\ v.mine = w.mine /\ v.view = w.view /\ v.d = c
          /\ v.todo = w.todo /\ v.err = w.err
      BY <2>1, <2>3 DEF SyncFields
    <2>5. SameCopies
      BY <1>1, <1>4, <2>2, <2>4, Zenon DEF SameCopies
    <2> QED
      BY <1>1, <1>2, <2>5, SetsSame, Calm
  <1> QED
    BY <1>3, <1>4

-----------------------------------------------------------------------------
LEMMA InitR == Init => RInv
  <1> SUFFICES ASSUME Init PROVE Apart(Claimable) /\ Numbered /\ Informed
    BY Zenon DEF RInv
  <1>1. w.pc = "idle"
    BY Zenon DEF Init, NoSync
  <1> DEFINE n == Len(env.past)
             pos(t) == CHOOSE r \in DOMAIN env.past : env.past[r] = t
  <1>2. env.past \in UNION {[1 .. i -> Templates] : i \in 0 .. 2}
    BY HistoryAssumption DEF Init, Scenario
  <1>3. PICK i \in 0 .. 2 : env.past \in [1 .. i -> Templates]
    BY <1>2
  <1>4. ASSUME NEW t \in Templates, t \in Range(env.past)
        PROVE  pos(t) \in 1 .. i /\ env.past[pos(t)] = t
    BY <1>3, <1>4, SMTT(30) DEF Range
  <1>5. ASSUME NEW t \in Templates
        PROVE  sets[t] = IF t \in Range(env.past) THEN PastSet(pos(t)) ELSE NoSet
    BY <1>5 DEF Init
  <1> HIDE DEF pos
  <1>6. ASSUME NEW t \in Templates
        PROVE  sets[t].revision = IF t \in Range(env.past) THEN pos(t) ELSE 0
    <2>1. \A r : PastSet(r).revision = r
      BY Zenon DEF PastSet
    <2>2. NoSet.revision = 0
      BY DEF NoSet
    <2> QED
      BY <1>5, <2>1, <2>2, Zenon
  <1>7. Chain(2)
    <2>1. Chain(0)
      <3> SUFFICES ASSUME NEW S \in SUBSET (0 .. 0), S # {}
                   PROVE  \E m \in S : \A x \in S : x <= m
        BY DEF Chain
      <3>1. PICK m \in S : TRUE
        BY ZenonT(60)
      <3>2. \A x \in S : x = 0
        OBVIOUS
      <3> QED
        BY <3>1, <3>2
    <2>2. Chain(0 + 1)
      BY <2>1, ChainGrows
    <2>3. Chain(0 + 1 + 1)
      BY <2>2, ChainGrows, SMTT(30)
    <2> QED
      BY <2>3
  <1>8. \A t \in Templates : sets[t].revision \in 0 .. 2
    BY <1>3, <1>4, <1>6
  <1>9. Numbered
    BY <1>1, <1>7, <1>8 DEF Numbered, Listing, Numbering
  <1>10. Apart(Claimable)
    <2> SUFFICES ASSUME NEW t \in Templates, NEW u \in Templates, t # u, sets[t].revision > 0
                 PROVE  sets[t].revision # sets[u].revision
      BY DEF Apart, Claimable
    <2>1. t \in Range(env.past)
      BY <1>6
    <2>2. CASE u \in Range(env.past)
      BY <1>4, <1>6, <2>1, <2>2
    <2>3. CASE u \notin Range(env.past)
      BY <1>6, <2>3
    <2> QED
      BY <2>2, <2>3, SMTT(30)
  <1> QED
    BY <1>1, <1>9, <1>10 DEF Informed, Listing, Numbering

LEMMA NextR ==
  ASSUME IInv, RInv, [Next]_vars
  PROVE  RInv'
  <1>1. CASE UNCHANGED vars
    BY <1>1, SetsSame, OthersR DEF vars
  <1>2. CASE Worker
    BY <1>2, StartR, AddFinalizersR, RecheckR, AdoptR, ReturningR, TerminateR,
       PausedR, SetRevisionR, DeploymentRevisionR, FoundNewR, CreateR,
       CreatedR, ScaleR, DeleteOldR, ZenonT(60) DEF Worker
  <1>3. CASE Users
    BY <1>3, UserDepR, SetEventR DEF Users
  <1> QED
    BY <1>1, <1>2, <1>3, ReturningR, SetEventR, PublishR, DeadlineR DEF Next

LEMMA RevisionsInductive == Spec => []RInv
  BY InitR, NextR, Inductive, PTL DEF Spec

\* While the lister keeps up, no two sets of a deployment ever have the same revision, whatever
\* conflicts, crashes, rollbacks, adoptions and deletions interrupt the syncs: getNewMachineSet
\* numbers above every set that is the deployment's or can still be adopted.
THEOREM RevisionsUnique == Spec => []RevisionsDistinct
  <1>1. RInv => RevisionsDistinct
    <2>1. Owned \subseteq Claimable
      BY DEF Owned, Claimable
    <2> QED
      BY <2>1 DEF RInv, Apart, RevisionsDistinct
  <1> QED
    BY <1>1, RevisionsInductive, PTL
=============================================================================
