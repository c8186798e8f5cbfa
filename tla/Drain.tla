-------------------------------- MODULE Drain --------------------------------
(***************************************************************************)
(* The drain of one node, RunDrain: the caller cordons the node, lists its *)
(* pods and then waits for one result per pod on a channel.  Pods without  *)
(* persistent volumes have a goroutine each; pods with volumes are evicted *)
(* by one goroutine, one after the other, which waits for the volumes to   *)
(* be detached from the node and attached to another one.  Attachments     *)
(* arrive through VolumeAttachmentHandler, which drops what does not fit   *)
(* into the channel of a worker.                                           *)
(*                                                                         *)
(* pkg/util/provider/drain/drain.go; the older copy in pkg/controller (env *)
(* inTree) looks at the node first and waits for detachment only.          *)
(***************************************************************************)
EXTENDS Naturals, Sequences, FiniteSets

CONSTANTS
    Pod,        \* the pods on the node
    Volume,     \* their persistent volumes
    Scenarios,  \* the settings to start from
    ChanSize    \* chanSize of AddWorker

Modes == {"evict",   \* attemptEvict
          "delete",  \* the API server has no eviction
          "force"}   \* ForceDeletePods

\* vols: the volumes of each pod; priority: its Spec.Priority; kept: pods of DaemonSets
\* and mirror pods; csi: there is a VolumeAttachmentHandler; retries: MaxEvictRetries;
\* maxFaults: a bound on failing calls, and on pods and nodes that others delete.
Scenario == [inTree: BOOLEAN, mode: Modes, vols: [Pod -> SUBSET Volume], priority: [Pod -> Nat],
             kept: SUBSET Pod, csi: BOOLEAN, retries: Nat, maxFaults: Nat]

ASSUME FiniteAssumption == IsFiniteSet(Pod)

ASSUME ScenariosAssumption == Scenarios \subseteq Scenario

ASSUME ChanSizeAssumption == ChanSize \in Nat

VARIABLES
    env,      \* the scenario
    node,     \* the Node exists
    pod,      \* the pods
    vol,      \* where each volume is
    overdue,  \* drainStartedOn + Timeout has passed
    main,     \* the caller: RunDrain down to the loop of evictPods
    ser,      \* the goroutine evictPodsWithPv
    par,      \* the goroutines evictPodWithoutPVInternal
    chan,     \* the channel that AddWorker made
    how,      \* by which call the drain removed each pod; unseen: its answer was lost
    result,   \* the result sent for each pod
    refused,  \* evictions of each pod that failed
    faults

vars == <<env, node, pod, vol, overdue, main, ser, par, chan, how, result, refused, faults>>

world == <<env, node, pod, vol, overdue>>

\* An event for a volume: attached says whether it is attached to another node by now.
Event == [vol: Volume, attached: BOOLEAN]

\* lost: an event did not fit.
NoWorker == [open |-> FALSE, buf |-> <<>>, lost |-> FALSE]

\* pods: the number of results to wait for; count: results received; ok: none was an error.
Waiting == [at |-> "cordon", pods |-> 0, count |-> 0, ok |-> TRUE]

\* queue: the rest of the list of this pass, the current pod first; retry: retryPods;
\* round: evict passes begun; evict: attemptEvict of this pass; vols, pvs: the volumeList
\* and persistantVolumeList of podVolumeInfoMap; waiting: pvsWaitingForReattachments;
\* known: for the properties, the pods whose volumes were all found.
NoSerial == [at |-> "off", queue |-> <<>>, retry |-> <<>>, round |-> 0, evict |-> FALSE,
             vols |-> [p \in Pod |-> {}], pvs |-> [p \in Pod |-> {}], waiting |-> {},
             known |-> {}]

NoGoroutine == [at |-> "off", tries |-> 0]

Init ==
    /\ env \in Scenarios
    /\ node = TRUE
    /\ pod = [p \in Pod |-> "running"]
    /\ vol = [v \in Volume |-> "here"]
    /\ overdue = FALSE
    /\ main = Waiting
    /\ ser = NoSerial
    /\ par = [p \in Pod |-> NoGoroutine]
    /\ chan = NoWorker
    /\ how = [p \in Pod |-> "none"]
    /\ result = [p \in Pod |-> "none"]
    /\ refused = [p \in Pod |-> 0]
    /\ faults = 0

Fault == faults < env.maxFaults /\ faults' = faults + 1

-----------------------------------------------------------------------------
(* The caller *)

Return(ok) == main' = [main EXCEPT !.at = "done", !.ok = ok]

\* RunCordonOrUncordon: a node that cannot be read is not cordoned, and that is no error.
Cordon ==
    /\ main.at = "cordon"
    /\ \/ main' = [main EXCEPT !.at = "list"] /\ UNCHANGED faults
       \/ node /\ Return(FALSE) /\ Fault
    /\ UNCHANGED <<world, ser, par, chan, how, result, refused>>

\* The older RunDrain skips a node that is gone, or has not been ready for five minutes.
SkipNode ==
    /\ main.at = "cordon" /\ env.inTree
    /\ Return(TRUE)
    /\ IF node THEN Fault ELSE UNCHANGED faults
    /\ UNCHANGED <<world, ser, par, chan, how, result, refused>>

HasPv(p) == env.vols[p] # {}

\* getPodsForDeletion: no pod is fatal, as all four options are set.
PodsForDeletion == {p \in Pod \ env.kept : pod[p] # "gone"}

PodsWithPv(pods) == IF env.mode = "force" THEN {} ELSE {p \in pods : HasPv(p)}

\* sortPodsByPriority; the sort is not stable.
Sorted(pods) ==
    {s \in [1..Cardinality(pods) -> pods] :
        /\ \A i, j \in DOMAIN s : i # j => s[i] # s[j]
        /\ \A i, j \in DOMAIN s : i < j => env.priority[s[i]] >= env.priority[s[j]]}

\* The list and the discovery of evictions; then the goroutines are started.
evictPods ==
    /\ main.at = "list"
    /\ LET pods == PodsForDeletion
       IN  IF pods = {}
           THEN Return(TRUE) /\ UNCHANGED <<ser, par>>
           ELSE /\ main' = [main EXCEPT !.at = "wait", !.pods = Cardinality(pods)]
                /\ \E s \in Sorted(PodsWithPv(pods)) :
                      ser' = [ser EXCEPT !.at = IF env.mode = "force" THEN "off" ELSE "start",
                                         !.queue = s]
                /\ par' = [p \in Pod |-> IF p \in pods \ PodsWithPv(pods)
                                         THEN [NoGoroutine EXCEPT !.at = "call"]
                                         ELSE NoGoroutine]
    /\ UNCHANGED <<world, chan, how, result, refused, faults>>

ListFails ==
    /\ main.at = "list"
    /\ Fault
    /\ Return(FALSE)
    /\ UNCHANGED <<world, ser, par, chan, how, result, refused>>

\* The loop over returnCh ends.  If there were errors the pods are listed again, for the
\* log only.
AllReported ==
    /\ main.at = "wait" /\ main.count = main.pods
    /\ Return(main.ok)
    /\ UNCHANGED <<world, ser, par, chan, how, result, refused, faults>>

Caller == Cordon \/ SkipNode \/ evictPods \/ ListFails \/ AllReported

\* A send on returnCh, and its receipt: the channel has room for all pods.
Send(p, ok) ==
    /\ main' = [main EXCEPT !.count = @ + 1, !.ok = @ /\ ok]
    /\ result' = [result EXCEPT ![p] = IF ok THEN "ok" ELSE "error"]

NoSend == UNCHANGED <<main, result>>

-----------------------------------------------------------------------------
(* Calls that remove a pod. *)

Removals == {"none", "evicted", "deleted", "evictedUnseen", "deletedUnseen"}

\* Deletion with a grace period of zero removes it at once.
Removed(p, evict) ==
    /\ pod' = [pod EXCEPT ![p] = IF evict THEN "terminating" ELSE "gone"]
    /\ how' = [how EXCEPT ![p] = IF evict THEN "evicted" ELSE "deleted"]

\* The call took effect, its answer was lost.
RemovedUnseen(p, evict) ==
    /\ pod' = [pod EXCEPT ![p] = IF evict THEN "terminating" ELSE "gone"]
    /\ how' = [how EXCEPT ![p] = IF evict THEN "evictedUnseen" ELSE "deletedUnseen"]

NotRemoved == UNCHANGED <<pod, how>>

\* The drain knows that it removed the pod.
Answered(p) == how[p] \in {"evicted", "deleted"}

Refuse(p) == refused' = [refused EXCEPT ![p] = @ + 1]

-----------------------------------------------------------------------------
(* evictPodWithoutPVInternal *)

ParallelEvicts(p) == env.mode = "evict" /\ par[p].tries < env.retries

Ends(p) == par' = [par EXCEPT ![p].at = "end"]

ParallelCall(p) ==
    /\ par[p].at = "call"
    /\ \/ /\ pod[p] = "gone"
          /\ Send(p, TRUE) /\ Ends(p)
          /\ NotRemoved /\ UNCHANGED <<refused, faults>>
       \/ /\ pod[p] # "gone"
          /\ Removed(p, ParallelEvicts(p))
          /\ IF env.mode = "force" THEN Send(p, TRUE) /\ Ends(p)
                                   ELSE NoSend /\ par' = [par EXCEPT ![p].at = "wait"]
          /\ UNCHANGED <<refused, faults>>
       \/ /\ pod[p] # "gone" /\ Fault                   \* another error
          /\ Send(p, FALSE) /\ Ends(p)
          /\ NotRemoved \/ RemovedUnseen(p, ParallelEvicts(p))
          /\ UNCHANGED refused
    /\ UNCHANGED <<env, node, vol, overdue, ser, chan>>

\* Too many requests: tried again.
ParallelRefused(p) ==
    /\ par[p].at = "call" /\ pod[p] # "gone" /\ ParallelEvicts(p)
    /\ Refuse(p)
    /\ par' = [par EXCEPT ![p].tries = @ + 1]
    /\ NoSend /\ UNCHANGED <<world, ser, chan, how, faults>>

\* isMisconfiguredPdb: not tried again; not in the older copy.
ParallelBlocked(p) ==
    /\ par[p].at = "call" /\ pod[p] # "gone" /\ ParallelEvicts(p) /\ ~env.inTree
    /\ Refuse(p)
    /\ Send(p, FALSE) /\ Ends(p)
    /\ UNCHANGED <<world, ser, chan, how, faults>>

\* Mutant: a pod that does not go in time is taken for gone.
ParallelWaitNoError(p) ==
    /\ par[p].at = "wait"
    /\ Send(p, TRUE) /\ Ends(p)
    /\ UNCHANGED <<world, ser, chan, how, refused, faults>>

\* waitForDelete: it also ends when its time is over, or the pod cannot be read.
ParallelWait(p) ==
    /\ par[p].at = "wait"
    /\ \E ok \in BOOLEAN : (ok => pod[p] = "gone") /\ Send(p, ok)
    /\ Ends(p)
    /\ UNCHANGED <<world, ser, chan, how, refused, faults>>

Parallel(p) == ParallelCall(p) \/ ParallelRefused(p) \/ ParallelBlocked(p) \/ ParallelWait(p)

-----------------------------------------------------------------------------
(* evictPodsWithPv *)

Current == Head(ser.queue)

\* doAccountingOfPvs: volumes of several pods are left out.  What cannot be found for pod
\* bad is left out as well: its claims, the volumes of these, or the ids of the volumes.
doAccountingOfPvs(bad, lost) ==
    LET listed == {ser.queue[i] : i \in DOMAIN ser.queue}
        claimed == [p \in Pod |-> IF p \notin listed \/ (p = bad /\ lost = "claims")
                                  THEN {} ELSE env.vols[p]]
        unshared(p) == {v \in claimed[p] : \A q \in Pod \ {p} : v \notin claimed[q]}
    IN  [ser EXCEPT
            !.pvs = [p \in Pod |-> IF p = bad /\ lost = "ids" THEN {} ELSE unshared(p)],
            !.vols = [p \in Pod |-> IF p = bad /\ lost # "none" THEN {} ELSE unshared(p)],
            !.known = IF lost = "none" THEN listed ELSE listed \ {bad}]

\* The first pass; without retries there is none, and no result for these pods.
evictPodsWithPv ==
    /\ ser.at = "start"
    /\ \E bad \in Pod, lost \in {"none", "claims", "volumes", "ids"} :
          /\ IF lost = "none" THEN UNCHANGED faults ELSE Fault
          /\ ser' = IF env.mode = "evict" /\ env.retries = 0
                    THEN [NoSerial EXCEPT !.at = "end"]
                    ELSE [doAccountingOfPvs(bad, lost) EXCEPT
                             !.at = "next", !.round = 1, !.evict = env.mode = "evict"]
    /\ UNCHANGED <<world, main, par, chan, how, result, refused>>

\* Mutant: one pass too few.
EvictAgainEarly == ser.round + 1 < env.retries

EvictAgain == ser.round < env.retries

\* The pass is over.
NextPass ==
    /\ ser.at = "next" /\ ser.queue = <<>>
    /\ ser' = IF ser.retry = <<>> \/ ~ser.evict
              THEN [ser EXCEPT !.at = "rest", !.queue = ser.retry, !.retry = <<>>]
              ELSE [ser EXCEPT !.queue = ser.retry, !.retry = <<>>,
                               !.evict = EvictAgain, !.round = @ + 1]
    /\ UNCHANGED <<world, main, par, chan, how, result, refused, faults>>

\* Mutant: the pods to be retried are forgotten.
FastTrackRest == [ser EXCEPT !.at = "rest", !.queue = Tail(@), !.retry = <<>>, !.waiting = {}]

\* Node gone or time over: the pass is given up.
FastTrack == [ser EXCEPT !.at = "rest", !.queue = ser.retry \o Tail(ser.queue), !.retry = <<>>,
                         !.waiting = {}]

\* The remaining pods: success if an evict pass was given up, otherwise an error.
ReportRest ==
    /\ ser.at = "rest"
    /\ IF ser.queue = <<>>
       THEN ser' = [ser EXCEPT !.at = "end"] /\ NoSend
       ELSE ser' = [ser EXCEPT !.queue = Tail(@)] /\ Send(Current, ser.evict)
    /\ UNCHANGED <<world, par, chan, how, refused, faults>>

\* The next pod of the list, unless the time is over.
NextPod ==
    /\ ser.at = "next" /\ ser.queue # <<>>
    /\ IF overdue
       THEN ser' = FastTrack /\ Send(Current, TRUE) /\ UNCHANGED chan
       ELSE /\ ser' = [ser EXCEPT !.at = "call"]
            /\ chan' = [NoWorker EXCEPT !.open = env.csi /\ ~env.inTree]
            /\ NoSend
    /\ UNCHANGED <<world, par, how, refused, faults>>

\* Done with the pod: checkAndDeleteWorker.
PodDone == [ser EXCEPT !.at = "next", !.queue = Tail(@), !.waiting = {}]

Retried == [PodDone EXCEPT !.retry = Append(@, Current)]

SerialCall ==
    /\ ser.at = "call"
    /\ \/ /\ pod[Current] = "gone"
          /\ ser' = PodDone /\ chan' = NoWorker
          /\ Send(Current, TRUE) /\ NotRemoved /\ UNCHANGED <<refused, faults>>
       \/ /\ pod[Current] # "gone"
          /\ Removed(Current, ser.evict)
          /\ ser' = [ser EXCEPT !.at = "detach"]
          /\ NoSend /\ UNCHANGED <<chan, refused, faults>>
       \/ /\ pod[Current] # "gone" /\ Fault             \* another error
          /\ ser' = Retried /\ chan' = NoWorker
          /\ (IF ser.evict THEN Refuse(Current) ELSE UNCHANGED refused)
          /\ NotRemoved \/ RemovedUnseen(Current, ser.evict)
          /\ NoSend
    /\ UNCHANGED <<env, node, vol, overdue, par>>

SerialRefused ==
    /\ ser.at = "call" /\ ser.evict /\ pod[Current] # "gone"
    /\ Refuse(Current)
    /\ ser' = Retried /\ chan' = NoWorker
    /\ NoSend /\ UNCHANGED <<world, par, how, faults>>

\* Mutant: no result.
SerialBlockedSilent ==
    /\ ser.at = "call" /\ ser.evict /\ pod[Current] # "gone" /\ ~env.inTree
    /\ Refuse(Current)
    /\ ser' = PodDone /\ chan' = NoWorker
    /\ NoSend /\ UNCHANGED <<world, par, how, faults>>

SerialBlocked ==
    /\ ser.at = "call" /\ ser.evict /\ pod[Current] # "gone" /\ ~env.inTree
    /\ Refuse(Current)
    /\ ser' = PodDone /\ chan' = NoWorker
    /\ Send(Current, FALSE) /\ UNCHANGED <<world, par, how, faults>>

StillAttached(p) == {v \in ser.vols[p] : vol[v] = "here"}

\* Mutant: one volume that is detached is enough.
DetachSeenFirst == node /\ StillAttached(Current) # ser.vols[Current]

\* waitForDetach
DetachSeen == node /\ StillAttached(Current) = {}

\* The older evictPodsWithPVInternal is then done with the pod.
DetachedInTree ==
    /\ ser.at = "detach" /\ env.inTree
    /\ ser.vols[Current] = {} \/ DetachSeen
    /\ ser' = PodDone /\ chan' = NoWorker
    /\ Send(Current, TRUE) /\ UNCHANGED <<world, par, how, refused, faults>>

Detached ==
    /\ ser.at = "detach" /\ ~env.inTree
    /\ ser.vols[Current] = {} \/ DetachSeen
    /\ IF ser.pvs[Current] = {}
       THEN ser' = PodDone /\ Send(Current, TRUE) /\ chan' = NoWorker
       ELSE /\ ser' = [ser EXCEPT !.at = "reattach", !.waiting = ser.pvs[Current]]
            /\ NoSend /\ UNCHANGED chan
    /\ UNCHANGED <<world, par, how, refused, faults>>

\* The time for this pod is over, the node is gone, or cannot be read.
NotDetached ==
    /\ ser.at = "detach" /\ ser.vols[Current] # {}
    /\ \/ ser' = PodDone /\ Send(Current, FALSE)
       \/ ~node /\ ser' = FastTrack /\ Send(Current, TRUE)
    /\ chan' = NoWorker
    /\ UNCHANGED <<world, par, how, refused, faults>>

\* Mutant: the channel is emptied.
ReceivedAll == [chan EXCEPT !.buf = <<>>]

Received == [chan EXCEPT !.buf = Tail(@)]

\* waitForReattach
ReceiveEvent ==
    /\ ser.at = "reattach" /\ chan.buf # <<>>
    /\ LET e == Head(chan.buf)
           waiting == IF e.attached THEN ser.waiting \ {e.vol} ELSE ser.waiting
       IN  IF waiting = {}
           THEN ser' = PodDone /\ chan' = NoWorker /\ Send(Current, TRUE)
           ELSE /\ ser' = [ser EXCEPT !.waiting = waiting]
                /\ chan' = Received
                /\ NoSend
    /\ UNCHANGED <<world, par, how, refused, faults>>

\* A timeout of this wait is no error.
NotReattached ==
    /\ ser.at = "reattach"
    /\ ser' = PodDone /\ chan' = NoWorker
    /\ Send(Current, TRUE)
    /\ UNCHANGED <<world, par, how, refused, faults>>

Serial ==
    \/ evictPodsWithPv \/ NextPass \/ ReportRest \/ NextPod \/ SerialCall \/ SerialRefused
    \/ SerialBlocked \/ DetachedInTree \/ Detached \/ NotDetached \/ ReceiveEvent \/ NotReattached

-----------------------------------------------------------------------------
(* The rest of the cluster *)

Terminates(p) ==
    /\ pod[p] = "terminating"
    /\ pod' = [pod EXCEPT ![p] = "gone"]
    /\ UNCHANGED <<env, node, vol, overdue, main, ser, par, chan, how, result, refused, faults>>

DeletedByOthers(p) ==
    /\ pod[p] = "running" /\ Fault
    /\ pod' = [pod EXCEPT ![p] = "terminating"]
    /\ UNCHANGED <<env, node, vol, overdue, main, ser, par, chan, how, result, refused>>

\* A volume is detached when its pods are gone.
Detaches(v) ==
    /\ vol[v] = "here"
    /\ LET users == {p \in Pod : v \in env.vols[p]}
       IN  users # {} /\ \A p \in users : pod[p] = "gone"
    /\ vol' = [vol EXCEPT ![v] = "detached"]
    /\ UNCHANGED <<env, node, pod, overdue, main, ser, par, chan, how, result, refused, faults>>

\* dispatch: an event that does not fit is discarded.
dispatch(e) ==
    CASE ~chan.open                             -> chan
      [] chan.open /\ Len(chan.buf) < ChanSize  -> [chan EXCEPT !.buf = Append(@, e)]
      [] OTHER                                  -> [chan EXCEPT !.lost = TRUE]

\* It is attached to another node, announced first.  Without a handler nobody looks.
Attaches(v) ==
    /\ env.csi
    /\ \/ vol[v] = "detached" /\ vol' = [vol EXCEPT ![v] = "attaching"]
       \/ vol[v] = "attaching" /\ vol' = [vol EXCEPT ![v] = "elsewhere"]
    /\ chan' = dispatch([vol |-> v, attached |-> vol'[v] = "elsewhere"])
    /\ UNCHANGED <<env, node, pod, overdue, main, ser, par, how, result, refused, faults>>

NodeLost ==
    /\ node /\ Fault
    /\ node' = FALSE
    /\ UNCHANGED <<env, pod, vol, overdue, main, ser, par, chan, how, result, refused>>

DeadlinePasses ==
    /\ ~overdue
    /\ overdue' = TRUE
    /\ UNCHANGED <<env, node, pod, vol, main, ser, par, chan, how, result, refused, faults>>

Others ==
    \/ \E p \in Pod : Terminates(p) \/ DeletedByOthers(p)
    \/ \E v \in Volume : Detaches(v) \/ Attaches(v)
    \/ NodeLost \/ DeadlinePasses

\* What happens after the drain is left out.
Next ==
    \/ Caller \/ Serial \/ \E p \in Pod : Parallel(p)
    \/ main.at # "done" /\ Others

Spec == Init /\ [][Next]_vars

\* Goroutines run, calls return and timeouts elapse.
FairSpec == Spec /\ WF_vars(Caller) /\ WF_vars(Serial) /\ \A p \in Pod : WF_vars(Parallel(p))

-----------------------------------------------------------------------------
(* Properties *)

\* Type invariant (checked as part of ResultsAccounted); the channel of a worker never
\* holds more than its capacity.
TypeOK ==
    /\ env \in Scenarios
    /\ node \in BOOLEAN /\ overdue \in BOOLEAN
    /\ pod \in [Pod -> {"running", "terminating", "gone"}]
    /\ vol \in [Volume -> {"here", "detached", "attaching", "elsewhere"}]
    /\ main \in [at: {"cordon", "list", "wait", "done"}, pods: Nat, count: Nat, ok: BOOLEAN]
    /\ ser \in [at: {"off", "start", "next", "call", "detach", "reattach", "rest", "end"},
                queue: Seq(Pod), retry: Seq(Pod), round: Nat, evict: BOOLEAN,
                vols: [Pod -> SUBSET Volume], pvs: [Pod -> SUBSET Volume],
                waiting: SUBSET Volume, known: SUBSET Pod]
    /\ par \in [Pod -> [at: {"off", "call", "wait", "end"}, tries: 0..env.retries]]
    /\ chan \in [open: BOOLEAN, buf: Seq(Event), lost: BOOLEAN] /\ Len(chan.buf) <= ChanSize
    /\ how \in [Pod -> Removals]
    /\ result \in [Pod -> {"none", "ok", "error"}]
    /\ refused \in [Pod -> 0..env.retries]
    /\ faults \in 0..env.maxFaults

\* MaxEvictRetries is 0 if so configured, and for a drain timeout below 20 seconds.
Retries == env.mode = "evict" => env.retries > 0

\* Results still to come.
Owed == Len(ser.queue) + Len(ser.retry) + Cardinality({p \in Pod : par[p].at \in {"call", "wait"}})

\* Every pod is reported exactly once, through all retries, timeouts and the fast track:
\* the loop of evictPods (drain.go:470) neither waits for a result that never comes nor
\* returns, and closes the channel, before all were sent.  Without retries the pods with
\* volumes are never reported (drain.go:586).
ResultsAccounted ==
    /\ TypeOK
    /\ Retries /\ main.at = "wait" => main.count + Owed = main.pods
    /\ Retries /\ main.at = "done" => Owed = 0

\* The volumes of a pod that the drain has to wait for: doAccountingOfPvs leaves out the
\* volumes of several pods and those of a pod that it could not find (drain.go:772-813).
Awaited(p) ==
    IF p \in ser.known THEN {v \in env.vols[p] : \A q \in Pod \ {p} : v \notin env.vols[q]}
                       ELSE {}

\* A pod with volumes is removed only when, of every pod the drain knows it removed before,
\* all volumes no other pod uses have left the node, or the wait for them was given up with
\* an error (drain.go:667-730).  Not waited for, contrary to docs/FAQ.md:162, are volumes of
\* several pods, those of a pod whose volumes were not found (drain.go:809-813), and those
\* of a pod whose eviction took effect without an answer: it is tried again after the other
\* pods (drain.go:702-706).
VolumesSerial ==
    [][\A p \in Pod : HasPv(p) /\ env.mode # "force" /\ how[p] = "none" /\ how'[p] # "none" =>
          \A q \in Pod \ {p} : Answered(q) =>
              result[q] = "error" \/ \A v \in Awaited(q) : vol[v] # "here"]_vars

\* A pod is deleted without regard to its disruption budget only after MaxEvictRetries
\* evictions of it failed (drain.go:603, 981; docs/FAQ.md:146).
BudgetRespected ==
    [][\A p \in Pod :
          env.mode = "evict" /\ how[p] = "none" /\ how'[p] \in {"deleted", "deletedUnseen"} =>
              refused[p] = env.retries]_vars

\* While a reattachment is waited for, it has not been announced already and missed: the
\* worker is added before the pod is evicted (drain.go:669), as long as its channel did
\* not overflow.
ReattachmentSeen ==
    ser.at = "reattach" /\ chan.open /\ ~chan.lost =>
        \A v \in ser.waiting : vol[v] = "elsewhere" =>
            \E i \in DOMAIN chan.buf : chan.buf[i] = [vol |-> v, attached |-> TRUE]

\* RunDrain returns without error only when every pod is gone, or is on its way and has
\* only volumes that the drain does not wait for: volumes of several pods, or that it could
\* not find (drain.go:809-813), which may still be attached, contrary to docs/FAQ.md:162.  Of
\* the pods that the drain knows it removed, all other volumes have left the node.  Unless
\* the node is gone, the time is over, or the older copy skipped the node (drain.go:207, 470).
DrainedMeansMoved ==
    main.at = "done" /\ main.ok /\ main.pods > 0 /\ node /\ ~overdue /\ env.mode # "force" =>
        \A p \in Pod \ env.kept :
            /\ \/ pod[p] = "gone"
               \/ HasPv(p) /\ pod[p] = "terminating" /\ Awaited(p) = {}
            /\ result[p] = "ok" /\ Answered(p) => \A v \in Awaited(p) : vol[v] # "here"

\* The drain returns, although pods may refuse to go and volumes to move for ever; with no
\* retries it does not if a pod has volumes.
DrainReturns == <>(Retries => main.at = "done")
=============================================================================
