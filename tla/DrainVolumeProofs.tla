-------------------------- MODULE DrainVolumeProofs --------------------------
(***************************************************************************)
(* The invariant VInv on top of IInv (DrainProofs): what a result says of  *)
(* its pod, which pods are counted, where the volumes of the removed pods  *)
(* are, and which attachments have been announced; and the theorems, which *)
(* hold for every number of pods, volumes, retries, faults and any         *)
(* priorities.                                                             *)
(***************************************************************************)
EXTENDS DrainProofs

\* The pods in the lists of the serial goroutine.
Listed ==
    {p \in Pod : \/ \E i \in 1..Len(ser.queue) : ser.queue[i] = p
                 \/ \E i \in 1..Len(ser.retry) : ser.retry[i] = p}

Reported == {p \in Pod : result[p] # "none"}

\* Nothing has been done before the list.
Fresh ==
    main.at \in {"cordon", "list"} =>
        /\ main.pods = 0 /\ \A p \in Pod : how[p] = "none" /\ result[p] = "none"

\* Pods in the lists have volumes and no result yet; the other goroutines have the pods
\* without volumes.  A list that is only reported has no pod twice either.
Pending ==
    /\ \A p \in Listed : HasPv(p) /\ env.mode # "force" /\ result[p] = "none"
    /\ \A p \in InParallel : result[p] = "none"
    /\ \A p \in Pod : par[p].at # "off" /\ env.mode # "force" => ~HasPv(p)
    /\ ser.at \in {"off", "start"} /\ env.mode # "force" =>
          \A p \in Pod : HasPv(p) => how[p] = "none" /\ result[p] = "none"
    /\ ser.at = "rest" => Distinct(ser.queue) /\ ser.retry = <<>>

\* The results counted are those of the pods listed in the beginning, each once; the pods
\* not listed then were gone.
CountsPods(pods) ==
    /\ main.pods = Cardinality(pods) /\ main.count = Cardinality(Reported)
    /\ Reported \cup Listed \cup InParallel \subseteq pods
    /\ \A p \in Pod \ (pods \cup env.kept) : pod[p] = "gone"
    /\ main.at = "done" => Reported = pods

Counted ==
    \/ main.pods = 0 /\ Listed = {} /\ InParallel = {}
    \/ \E pods \in SUBSET Pod : CountsPods(pods)

\* A volume leaves the node after its pods.
GoneFirst == \A p \in Pod : \A v \in env.vols[p] : vol[v] # "here" => pod[p] = "gone"

\* The pod is gone, or its volumes are not known.
Moved(p) == pod[p] = "gone" \/ (HasPv(p) /\ pod[p] = "terminating" /\ ser.vols[p] = {})

\* The volumes of a pod known to be removed have left the node.
Left(p) == HasPv(p) /\ Answered(p) => StillAttached(p) = {}

\* What a result says of its pod.
Truthful ==
    /\ node /\ ~overdue /\ env.mode # "force" =>
          \A p \in Pod : result[p] = "ok" => Moved(p) /\ Left(p)
    /\ main.ok => \A p \in Pod : result[p] # "error"

\* The state of the pod that is worked on.
Progress ==
    /\ \A p \in Pod : /\ ser.vols[p] \subseteq env.vols[p] /\ ser.pvs[p] \subseteq env.vols[p]
                      /\ Awaited(p) \subseteq ser.vols[p]
    /\ ser.at \in {"detach", "reattach"} => pod[Current] # "running"
    /\ ser.at = "reattach" => StillAttached(Current) = {}
    /\ ser.at = "rest" /\ ser.evict /\ ser.queue # <<>> => ~node \/ overdue

\* Of the pods known to be removed, only the current one may have volumes on the node, or
\* one that was given up with an error.
OneAtATime ==
    Busy \/ ser.at = "next" =>
        \A p \in Pod : HasPv(p) /\ env.mode # "force" /\ Answered(p) =>
            \/ result[p] = "error" \/ StillAttached(p) = {}
            \/ ser.at = "detach" /\ p = Current

Announced(vols) ==
    chan.open /\ ~chan.lost =>
        \A v \in vols : vol[v] = "elsewhere" =>
            \E i \in 1..Len(chan.buf) : chan.buf[i] = [vol |-> v, attached |-> TRUE]

\* Since the removal of the pod all attachments are in the channel or were received.
Seen ==
    /\ ser.at = "detach" => Announced(ser.pvs[Current])
    /\ ser.at = "reattach" => Announced(ser.waiting)

VInv == Fresh /\ Pending /\ Counted /\ GoneFirst /\ Truthful /\ Progress /\ OneAtATime /\ Seen

-----------------------------------------------------------------------------
(* Steps that are not taken back *)

Onwards ==
    /\ env' = env /\ (node' => node) /\ (overdue => overdue')
    /\ \A p \in Pod : /\ pod[p] = "gone" => pod'[p] = "gone"
                      /\ pod[p] # "running" => pod'[p] # "running"
    /\ \A v \in Volume : vol[v] # "here" => vol'[v] # "here"

LEMMA LastOf == \A n \in Nat : n + 1 \in 1..(n + 1) /\ \A i \in 1..n : i \in 1..(n + 1)
OBVIOUS

LEMMA PositiveNonzero == \A n : n > 0 => n # 0
OBVIOUS

LEMMA RemovedOnwards ==
    ASSUME WorldTyped, NEW p \in Pod, NEW evict,
           \/ (Removed(p, evict) \/ RemovedUnseen(p, evict)) /\ pod[p] # "gone"
           \/ NotRemoved
    PROVE  /\ \A q \in Pod : /\ pod[q] = "gone" => pod'[q] = "gone"
                             /\ pod[q] # "running" => pod'[q] # "running"
           /\ \A q \in Pod : q # p => how'[q] = how[q]
BY DEF WorldTyped, Removed, RemovedUnseen, NotRemoved

\* Pods that are gone do not come back, nor do volumes, the node or the time.
LEMMA StepsOnwards ==
    ASSUME IInv, [Next]_vars
    PROVE  Onwards
<1>1. Core /\ WorldTyped
  BY DEF IInv
<1>2. CASE Caller
  <2>1. UNCHANGED <<env, node, pod, vol, overdue>>
    BY <1>2, Zenon DEF Caller, Cordon, SkipNode, evictPods, ListFails, AllReported, world
  <2>. QED  BY <2>1 DEF Onwards
<1>3. CASE Serial
  <2>1. CASE SerialCall
    <3>1. Current \in Pod
      BY <1>1, <2>1, CurrentFacts DEF SerialCall, Working, Busy
    <3>2. /\ UNCHANGED <<env, node, vol, overdue>>
          /\ \/ /\ Removed(Current, ser.evict) \/ RemovedUnseen(Current, ser.evict)
                /\ pod[Current] # "gone"
             \/ NotRemoved
      BY <2>1, Zenon DEF SerialCall
    <3>3. \A q \in Pod : /\ pod[q] = "gone" => pod'[q] = "gone"
                         /\ pod[q] # "running" => pod'[q] # "running"
      BY <1>1, <3>1, <3>2, RemovedOnwards
    <3>. QED  BY <3>2, <3>3 DEF Onwards
  <2>2. CASE ~SerialCall
    <3>1. UNCHANGED <<env, node, pod, vol, overdue>>
      BY <1>3, <2>2, Zenon
         DEF Serial, evictPodsWithPv, NextPass, ReportRest, NextPod, SerialRefused,
                        SerialBlocked, DetachedInTree, Detached, NotDetached, ReceiveEvent,
                        NotReattached, world
    <3>. QED  BY <3>1 DEF Onwards
  <2>. QED  BY <2>1, <2>2
<1>4. ASSUME NEW p \in Pod, Parallel(p) PROVE Onwards
  <2>1. /\ UNCHANGED <<env, node, vol, overdue>>
        /\ \/ /\ Removed(p, ParallelEvicts(p)) \/ RemovedUnseen(p, ParallelEvicts(p))
              /\ pod[p] # "gone"
           \/ NotRemoved
    BY <1>4, Zenon
       DEF Parallel, ParallelCall, ParallelRefused, ParallelBlocked, ParallelWait, NotRemoved,
                world
  <2>2. \A q \in Pod : /\ pod[q] = "gone" => pod'[q] = "gone"
                       /\ pod[q] # "running" => pod'[q] # "running"
    BY <1>1, <2>1, RemovedOnwards
  <2>. QED  BY <2>1, <2>2 DEF Onwards
<1>5. CASE Others
  <2>0. env' = env /\ (node' = FALSE \/ node' = node) /\ (overdue' = TRUE \/ overdue' = overdue)
    BY <1>5, Zenon
       DEF Others, Terminates, DeletedByOthers, Detaches, Attaches, NodeLost, DeadlinePasses
  <2>1. ASSUME NEW q \in Pod, Terminates(q) \/ DeletedByOthers(q)
        PROVE  \A p \in Pod : /\ pod[p] = "gone" => pod'[p] = "gone"
                              /\ pod[p] # "running" => pod'[p] # "running"
    BY <1>1, <2>1 DEF WorldTyped, Terminates, DeletedByOthers
  <2>2. \A p \in Pod : /\ pod[p] = "gone" => pod'[p] = "gone"
                       /\ pod[p] # "running" => pod'[p] # "running"
    <3>1. (\E q \in Pod : Terminates(q) \/ DeletedByOthers(q)) \/ UNCHANGED pod
      BY <1>5, Zenon DEF Others, Detaches, Attaches, NodeLost, DeadlinePasses
    <3>. QED  BY <2>1, <3>1
  <2>4. \/ UNCHANGED vol
        \/ \E v \in Volume, x \in {"detached", "attaching", "elsewhere"} :
              vol' = [vol EXCEPT ![v] = x]
    BY <1>5, Zenon
       DEF Others, Terminates, DeletedByOthers, Detaches, Attaches, NodeLost, DeadlinePasses
  <2>3. \A v \in Volume : vol[v] # "here" => vol'[v] # "here"
    BY <1>1, <2>4 DEF WorldTyped
  <2>. QED  BY <2>0, <2>2, <2>3 DEF Onwards
<1>6. CASE UNCHANGED vars
  BY <1>6 DEF vars, Onwards
<1>. QED  BY <1>2, <1>3, <1>4, <1>5, <1>6 DEF Next

LEMMA GoneFirstKept ==
    ASSUME IInv, GoneFirst, [Next]_vars
    PROVE  GoneFirst'
<1>1. Onwards /\ WorldTyped /\ Core
  BY StepsOnwards DEF IInv
<1>2. env.vols \in [Pod -> SUBSET Volume]
  BY <1>1, EnvTyped DEF Core
<1>3. ASSUME NEW p \in Pod, NEW v \in env.vols[p], vol[v] = "here", vol'[v] # "here"
      PROVE  pod'[p] = "gone"
  <2>1. v \in Volume
    BY <1>2
  <2>2. \E w \in Volume : Detaches(w) \/ Attaches(w)
    <3>1. vol' # vol
      BY <1>3
    <3>2. Caller \/ Serial \/ (\E q \in Pod : Parallel(q)) => UNCHANGED vol
      BY Zenon DEF Caller, Cordon, SkipNode, evictPods, ListFails, AllReported, world,
             Parallel, ParallelCall, ParallelRefused, ParallelBlocked, ParallelWait,
             Serial, evictPodsWithPv, NextPass, ReportRest, NextPod, SerialCall, SerialRefused,
             SerialBlocked, DetachedInTree, Detached, NotDetached, ReceiveEvent, NotReattached
    <3>. QED  BY <3>1, <3>2 DEF Next, vars, Others, Terminates, DeletedByOthers, NodeLost,
                                DeadlinePasses
  <2>3. PICK w \in Volume : Detaches(w) \/ Attaches(w)
    BY <2>2
  <2>4. w = v /\ Detaches(v)
    BY <1>1, <1>3, <2>1, <2>3 DEF WorldTyped, Detaches, Attaches
  <2>. QED  BY <1>3, <2>4 DEF Detaches
<1>. QED  BY <1>1, <1>2, <1>3 DEF GoneFirst, Onwards

-----------------------------------------------------------------------------
(* The lists *)

LEMMA PodDoneVolumes ==
    ASSUME ser \in SerialType, ser.queue # <<>>
    PROVE  PodDone.vols = ser.vols /\ PodDone.pvs = ser.pvs /\ PodDone.known = ser.known
BY HeadTailProperties DEF SerialType, PodDone

LEMMA RetriedVolumes ==
    ASSUME ser \in SerialType, ser.queue # <<>>
    PROVE  Retried.vols = ser.vols /\ Retried.pvs = ser.pvs /\ Retried.known = ser.known
<1>1. PodDone \in SerialType /\ PodDone.vols = ser.vols /\ PodDone.pvs = ser.pvs /\ PodDone.known = ser.known
  BY PodDoneFields, PodDoneVolumes
<1>. DEFINE d == PodDone
            again == Append(d.retry, Current)
<1>2. Retried = [d EXCEPT !.retry = again]
  BY DEF Retried
<1>. HIDE DEF d, again
<1>3. d \in SerialType /\ d.vols = ser.vols /\ d.pvs = ser.pvs /\  d.known = ser.known
  BY <1>1 DEF d
<1>. QED  BY <1>2, <1>3 DEF SerialType

LEMMA FastTrackLists ==
    ASSUME ser \in SerialType, ser.queue # <<>>
    PROVE  /\ FastTrack.queue = ser.retry \o Tail(ser.queue) /\ FastTrack.retry = <<>>
           /\ FastTrack.vols = ser.vols /\ FastTrack.pvs = ser.pvs /\ FastTrack.known = ser.known
           /\ FastTrack.evict = ser.evict
<1>. DEFINE rest == ser.retry \o Tail(ser.queue)
            none == <<>>
<1>1. FastTrack = [ser EXCEPT !.at = "rest", !.queue = rest, !.retry = none, !.waiting = {}]
  BY DEF FastTrack
<1>. HIDE DEF rest, none
<1>2. /\ FastTrack.queue = rest /\ FastTrack.retry = none
      /\ FastTrack.vols = ser.vols /\ FastTrack.pvs = ser.pvs /\ FastTrack.known = ser.known /\ FastTrack.evict = ser.evict
  BY <1>1 DEF SerialType
<1>. QED  BY <1>2 DEF rest, none

\* The current pod leaves the lists with its result.
LEMMA DoneLeaves ==
    ASSUME Core, Working, ser'.queue = Tail(ser.queue), ser'.retry = ser.retry
    PROVE  Current \in Listed /\ Listed' = Listed \ {Current}
<1>. DEFINE q == ser.queue  r == ser.retry  t == Tail(ser.queue)  n == Len(q)
<1>1. /\ Current \in Pod /\ Current = q[1] /\ n \in Nat \ {0} /\ Len(t) = n - 1
      /\ \A i \in 1..Len(t) : i + 1 \in 1..n /\ t[i] = q[i + 1]
      /\ \A i \in 2..n : q[i] # Current
      /\ \A j \in 1..Len(r) : r[j] # Current
  BY CurrentFacts
<1>2. Listed = {p \in Pod : (\E i \in 1..n : q[i] = p) \/ (\E i \in 1..Len(r) : r[i] = p)}
  BY DEF Listed
<1>3. Listed' = {p \in Pod : (\E i \in 1..Len(t) : t[i] = p) \/ (\E i \in 1..Len(r) : r[i] = p)}
  BY DEF Listed
<1>. HIDE DEF q, r, t, n
<1>4. Current \in Listed
  BY <1>1, <1>2
<1>5. ASSUME NEW p \in Pod
      PROVE  (\E i \in 1..Len(t) : t[i] = p) <=> (p # Current /\ \E i \in 1..n : q[i] = p)
  <2>1. ASSUME NEW i \in 1..Len(t), t[i] = p PROVE p # Current /\ \E k \in 1..n : q[k] = p
    <3>1. i + 1 \in 2..n /\ q[i + 1] = p
      BY <1>1, <2>1
    <3>. QED  BY <1>1, <3>1
  <2>2. ASSUME p # Current, NEW i \in 1..n, q[i] = p PROVE \E k \in 1..Len(t) : t[k] = p
    <3>1. i # 1 /\ i - 1 \in 1..Len(t) /\ (i - 1) + 1 = i
      BY <1>1, <2>2
    <3>. QED  BY <1>1, <2>2, <3>1, Zenon
  <2>. QED  BY <2>1, <2>2
<1>. QED  BY <1>1, <1>2, <1>3, <1>4, <1>5

LEMMA RetriedStays ==
    ASSUME Core, Working, ser' = Retried
    PROVE  Listed' = Listed
<1>. DEFINE q == ser.queue  r == ser.retry  t == Tail(ser.queue)  n == Len(q)
            a == Append(r, Current)
<1>1. /\ Current \in Pod /\ Current = q[1] /\ n \in Nat \ {0} /\ Len(t) = n - 1
      /\ \A i \in 1..Len(t) : i + 1 \in 1..n /\ t[i] = q[i + 1]
      /\ r \in Seq(Pod) /\ Len(r) \in Nat
  BY CurrentFacts
<1>2. ser'.queue = t /\ ser'.retry = a
  BY CurrentFacts, RetriedFields DEF Core, CoreTyped
<1>3. /\ Len(a) = Len(r) + 1 /\ a[Len(r) + 1] = Current
      /\ \A j \in 1..Len(r) : a[j] = r[j]
  BY <1>1, AppendProperties
<1>4. Listed = {p \in Pod : (\E i \in 1..n : q[i] = p) \/ (\E i \in 1..Len(r) : r[i] = p)}
  BY DEF Listed
<1>5. Listed' = {p \in Pod : (\E i \in 1..Len(t) : t[i] = p) \/ (\E i \in 1..Len(a) : a[i] = p)}
  BY <1>2 DEF Listed
<1>. HIDE DEF q, r, t, n, a
<1>6. ASSUME NEW p \in Pod
      PROVE  (\E i \in 1..n : q[i] = p) <=> (p = Current \/ \E i \in 1..Len(t) : t[i] = p)
  <2>1. ASSUME NEW i \in 1..Len(t), t[i] = p PROVE \E k \in 1..n : q[k] = p
    BY <1>1, <2>1
  <2>2. ASSUME p # Current, NEW i \in 1..n, q[i] = p PROVE \E k \in 1..Len(t) : t[k] = p
    <3>1. i # 1 /\ i - 1 \in 1..Len(t) /\ (i - 1) + 1 = i
      BY <1>1, <2>2
    <3>. QED  BY <1>1, <2>2, <3>1, Zenon
  <2>3. 1 \in 1..n /\ q[1] = Current
    BY <1>1
  <2>. QED  BY <2>1, <2>2, <2>3
<1>7. ASSUME NEW p \in Pod
      PROVE  (\E i \in 1..Len(a) : a[i] = p) <=> (p = Current \/ \E i \in 1..Len(r) : r[i] = p)
  <2>1. \A i \in 1..Len(a) : i = Len(r) + 1 \/ i \in 1..Len(r)
    BY <1>1, <1>3
  <2>2. Len(r) + 1 \in 1..Len(a) /\ \A i \in 1..Len(r) : i \in 1..Len(a)
    BY <1>1, <1>3
  <2>. QED  BY <1>3, <2>1, <2>2
<1>. QED  BY <1>4, <1>5, <1>6, <1>7

LEMMA FastTrackLeaves ==
    ASSUME Core, Working, ser' = FastTrack
    PROVE  /\ Current \in Listed /\ Listed' = Listed \ {Current}
           /\ Distinct(ser'.queue) /\ ser'.retry = <<>>
<1>. DEFINE q == ser.queue  r == ser.retry  t == Tail(ser.queue)  n == Len(q)  m == Len(r)
            c == r \o t
<1>1. /\ Current \in Pod /\ Current = q[1] /\ n \in Nat \ {0} /\ Len(t) = n - 1
      /\ \A i \in 1..Len(t) : i + 1 \in 1..n /\ t[i] = q[i + 1]
      /\ \A i \in 2..n : q[i] # Current
      /\ \A j \in 1..m : r[j] # Current
      /\ r \in Seq(Pod) /\ t \in Seq(Pod) /\ m \in Nat
  BY CurrentFacts
<1>2. /\ Distinct(q) /\ Distinct(r)
      /\ \A i \in 1..n, j \in 1..m : q[i] # r[j]
  BY CurrentFacts DEF InPass
<1>3. ser'.queue = c /\ ser'.retry = <<>>
  BY CurrentFacts, FastTrackLists, Zenon DEF Core, CoreTyped
<1>4. /\ Len(c) = m + (n - 1)
      /\ \A i \in 1..Len(c) : c[i] = IF i <= m THEN r[i] ELSE t[i - m]
  <2>1. /\ Len(c) = m + Len(t)
        /\ \A i \in 1..(m + Len(t)) : c[i] = IF i <= m THEN r[i] ELSE t[i - m]
    <3>1. r \in Seq(Pod) /\ t \in Seq(Pod)
      BY <1>1
    <3>. HIDE DEF r, t
    <3>. QED  BY <3>1, ConcatProperties, Zenon DEF m
  <2>. QED  BY <1>1, <2>1, Zenon
<1>5. Listed = {p \in Pod : (\E i \in 1..n : q[i] = p) \/ (\E i \in 1..m : r[i] = p)}
  BY DEF Listed
<1>6. Listed' = {p \in Pod : \E i \in 1..Len(c) : c[i] = p}
  <2>1. Len(ser'.retry) = 0
    BY <1>3, EmptySeq
  <2>2. Listed' = {p \in Pod : (\E i \in 1..Len(c) : c[i] = p)
                               \/ (\E i \in 1..Len(ser'.retry) : ser'.retry[i] = p)}
    BY <1>3 DEF Listed
  <2>. HIDE DEF c
  <2>. QED  BY <2>1, <2>2
<1>. HIDE DEF q, r, t, n, m, c
<1>7. \A i \in 1..Len(c) : \/ i \in 1..m /\ c[i] = r[i]
                           \/ i - m + 1 \in 2..n /\ c[i] = q[i - m + 1]
  <2>. SUFFICES ASSUME NEW i \in 1..Len(c), ~(i <= m)
                PROVE  i - m + 1 \in 2..n /\ c[i] = q[i - m + 1]
    BY <1>1, <1>4
  <2>1. i - m \in 1..Len(t) /\ i - m + 1 \in 2..n
    BY <1>1, <1>4
  <2>2. c[i] = t[i - m]
    BY <1>4
  <2>. QED  BY <1>1, <2>1, <2>2
<1>8. \A i \in 1..m : i \in 1..Len(c) /\ c[i] = r[i]
  BY <1>1, <1>4
<1>9. \A i \in 2..n : i + m - 1 \in 1..Len(c) /\ c[i + m - 1] = q[i]
  <2>. SUFFICES ASSUME NEW i \in 2..n PROVE i + m - 1 \in 1..Len(c) /\ c[i + m - 1] = q[i]
    OBVIOUS
  <2>1. /\ i + m - 1 \in 1..Len(c) /\ ~(i + m - 1 <= m) /\ (i + m - 1) - m = i - 1
        /\ i - 1 \in 1..Len(t) /\ (i - 1) + 1 = i
    <3>1. m \in Nat /\ n \in Nat \ {0} /\ Len(t) = n - 1 /\ Len(c) = m + Len(t)
      BY <1>1, <1>4
    <3>2. Len(c) = m + n - 1
      BY <3>1
    <3>. QED  BY <3>1, <3>2
  <2>2. c[i + m - 1] = t[i - 1]
    BY <1>4, <2>1
  <2>. QED  BY <1>1, <2>1, <2>2
<1>10. Current \in Listed
  BY <1>1, <1>5
<1>11. ASSUME NEW p \in Pod
       PROVE  p \in Listed' <=> p \in Listed /\ p # Current
  <2>1. ASSUME NEW i \in 1..Len(c), c[i] = p PROVE p \in Listed /\ p # Current
    <3>1. CASE i \in 1..m /\ c[i] = r[i]
      BY <1>1, <1>5, <2>1, <3>1
    <3>2. CASE i - m + 1 \in 2..n /\ c[i] = q[i - m + 1]
      <4>1. PICK k \in 2..n : p = q[k]
        BY <2>1, <3>2
      <4>2. k \in 1..n
        BY <1>1, <4>1
      <4>. QED  BY <1>1, <1>5, <4>1, <4>2
    <3>. QED  BY <1>7, <3>1, <3>2
  <2>2. ASSUME NEW i \in 1..n, q[i] = p, p # Current PROVE \E k \in 1..Len(c) : c[k] = p
    <3>1. i \in 2..n
      BY <1>1, <2>2
    <3>. QED  BY <1>9, <2>2, <3>1
  <2>3. ASSUME NEW i \in 1..m, r[i] = p PROVE \E k \in 1..Len(c) : c[k] = p
    BY <1>8, <2>3
  <2>. QED  BY <1>5, <1>6, <2>1, <2>2, <2>3
<1>12. Distinct(c)
  <2>. SUFFICES ASSUME NEW i \in 1..Len(c), NEW j \in 1..Len(c), i # j PROVE c[i] # c[j]
    BY DEF Distinct
  <2>0. \A k \in 2..n : k \in 1..n
    OBVIOUS
  <2>1. CASE i \in 1..m /\ c[i] = r[i] /\ j \in 1..m /\ c[j] = r[j]
    BY <1>2, <2>1 DEF Distinct, m
  <2>2. CASE i \in 1..m /\ c[i] = r[i] /\ j - m + 1 \in 2..n /\ c[j] = q[j - m + 1]
    BY <1>2, <2>0, <2>2
  <2>3. CASE i - m + 1 \in 2..n /\ c[i] = q[i - m + 1] /\ j \in 1..m /\ c[j] = r[j]
    BY <1>2, <2>0, <2>3
  <2>4. CASE i - m + 1 \in 2..n /\ c[i] = q[i - m + 1] /\ j - m + 1 \in 2..n /\ c[j] = q[j - m + 1]
    <3>1. i - m + 1 # j - m + 1
      BY <1>1
    <3>2. i - m + 1 \in 1..n /\ j - m + 1 \in 1..n
      BY <2>0, <2>4
    <3>. QED  BY <1>2, <2>4, <3>1, <3>2 DEF Distinct, n
  <2>. QED  BY <1>7, <2>1, <2>2, <2>3, <2>4
<1>13. Listed' \subseteq Pod /\ Listed \subseteq Pod
  BY <1>5, <1>6
<1>. QED  BY <1>3, <1>10, <1>11, <1>12, <1>13

LEMMA PassListed ==
    ASSUME Core, NextPass
    PROVE  /\ Listed' = Listed /\ Distinct(ser'.queue) /\ ser'.retry = <<>>
           /\ ser'.vols = ser.vols /\ ser'.pvs = ser.pvs /\ ser'.known = ser.known /\ ser'.at \in {"rest", "next"}
           /\ ser'.at = "rest" => ser'.evict = ser.evict /\ (~ser'.evict \/ ser'.queue = <<>>)
<1>1. ser.at = "next" /\ ser.queue = <<>> /\ ser \in SerialType /\ Distinct(ser.retry)
  BY DEF NextPass, Core, CoreTyped, Passes, InPass
<1>. DEFINE none == <<>>
            e == EvictAgain
            n == ser.round + 1
<1>2. Len(ser.queue) = 0 /\ Len(none) = 0
  BY <1>1, EmptySeq
<1>3. CASE ser.retry = <<>> \/ ~ser.evict
  <2>1. ser' = [ser EXCEPT !.at = "rest", !.queue = ser.retry, !.retry = none]
    BY <1>3 DEF NextPass
  <2>. HIDE DEF none
  <2>2. /\ ser'.queue = ser.retry /\ ser'.retry = none /\ ser'.at = "rest"
        /\ ser'.vols = ser.vols /\ ser'.pvs = ser.pvs /\ ser'.known = ser.known /\ ser'.evict = ser.evict
    BY <1>1, <2>1 DEF SerialType
  <2>3. Listed' = Listed
    BY <1>2, <2>2 DEF Listed
  <2>. QED  BY <1>1, <1>3, <2>2, <2>3 DEF none
<1>4. CASE ~(ser.retry = <<>> \/ ~ser.evict)
  <2>1. ser' = [ser EXCEPT !.queue = ser.retry, !.retry = none, !.evict = e, !.round = n]
    BY <1>4 DEF NextPass
  <2>. HIDE DEF none, e, n
  <2>2. /\ ser'.queue = ser.retry /\ ser'.retry = none /\ ser'.at = "next"
        /\ ser'.vols = ser.vols /\ ser'.pvs = ser.pvs /\ ser'.known = ser.known
    BY <1>1, <2>1 DEF SerialType
  <2>3. Listed' = Listed
    BY <1>2, <2>2 DEF Listed
  <2>. QED  BY <1>1, <2>2, <2>3 DEF none
<1>. QED  BY <1>3, <1>4

\* A list without its first pod has the pods but this one.
LEMMA RestLeaves ==
    ASSUME Core, Pending, ser.at = "rest", ser.queue # <<>>,
           ser' = [ser EXCEPT !.queue = Tail(@)]
    PROVE  /\ Current \in Pod /\ Current \in Listed /\ Listed' = Listed \ {Current}
           /\ Distinct(ser'.queue) /\ ser'.retry = <<>> /\ ser'.at = "rest"
           /\ ser'.vols = ser.vols /\ ser'.pvs = ser.pvs /\ ser'.known = ser.known /\ ser'.evict = ser.evict
<1>. DEFINE q == ser.queue  t == Tail(ser.queue)  n == Len(q)
<1>1. ser \in SerialType /\ q \in Seq(Pod) /\ Distinct(q) /\ ser.retry = <<>> /\ Len(ser.retry) = 0
  BY EmptySeq DEF Core, CoreTyped, SerialType, Pending
<1>2. /\ n \in Nat \ {0} /\ Current = q[1] /\ q[1] \in Pod
      /\ Len(t) = n - 1
      /\ \A i \in 1..Len(t) : i + 1 \in 2..n /\ t[i] = q[i + 1]
  BY <1>1, TailFacts DEF Current
<1>3. /\ ser'.queue = t /\ ser'.retry = ser.retry /\ ser'.at = "rest"
      /\ ser'.vols = ser.vols /\ ser'.pvs = ser.pvs /\ ser'.known = ser.known /\ ser'.evict = ser.evict
  BY <1>1 DEF SerialType
<1>4. Listed = {p \in Pod : \E i \in 1..n : q[i] = p}
  BY <1>1 DEF Listed
<1>5. Listed' = {p \in Pod : \E i \in 1..Len(t) : t[i] = p}
  BY <1>1, <1>3 DEF Listed
<1>6. \A i, j \in 1..n : i # j => q[i] # q[j]
  BY <1>1 DEF Distinct
<1>. HIDE DEF q, t, n
<1>7. Current \in Listed
  BY <1>2, <1>4
<1>8. ASSUME NEW p \in Pod
      PROVE  (\E i \in 1..Len(t) : t[i] = p) <=> (p # Current /\ \E i \in 1..n : q[i] = p)
  <2>1. ASSUME NEW i \in 1..Len(t), t[i] = p PROVE p # Current /\ \E k \in 1..n : q[k] = p
    <3>1. i + 1 \in 1..n /\ q[i + 1] = p /\ i + 1 # 1 /\ 1 \in 1..n
      BY <1>2, <2>1
    <3>. QED  BY <1>2, <1>6, <3>1
  <2>2. ASSUME p # Current, NEW i \in 1..n, q[i] = p PROVE \E k \in 1..Len(t) : t[k] = p
    <3>1. i # 1 /\ i - 1 \in 1..Len(t) /\ (i - 1) + 1 = i
      BY <1>2, <2>2
    <3>. QED  BY <1>2, <2>2, <3>1
  <2>. QED  BY <2>1, <2>2
<1>9. Listed' = Listed \ {Current}
  BY <1>4, <1>5, <1>8
<1>10. Distinct(t)
  <2>. SUFFICES ASSUME NEW i \in 1..Len(t), NEW j \in 1..Len(t), i # j PROVE t[i] # t[j]
    BY DEF Distinct
  <2>1. i + 1 \in 1..n /\ j + 1 \in 1..n /\ i + 1 # j + 1
    BY <1>2
  <2>. QED  BY <1>2, <1>6, <2>1
<1>. QED  BY <1>1, <1>2, <1>3, <1>7, <1>9, <1>10, Zenon

LEMMA AccountedVolumes ==
    ASSUME Core, evictPodsWithPv
    PROVE  /\ UNCHANGED <<env, par, main, result, how, pod, vol, node, overdue, chan>>
           /\ Listed' \subseteq Listed /\ ser'.at \in {"next", "end"}
           /\ \A p \in Pod : ser'.vols[p] \subseteq env.vols[p] /\ ser'.pvs[p] \subseteq env.vols[p]
           /\ \A p \in Pod : Awaited(p)' \subseteq ser'.vols[p]
<1>1. /\ CoreTyped /\ ser.at = "start"
      /\ UNCHANGED <<env, par, main, result, how, pod, vol, node, overdue, chan>>
  BY DEF Core, evictPodsWithPv, world
<1>2. CASE env.mode = "evict" /\ env.retries = 0
  <2>. DEFINE none == <<>>
  <2>1. /\ ser'.queue = none /\ ser'.retry = none /\ ser'.at = "end"
        /\ ser'.vols = [p \in Pod |-> {}] /\ ser'.pvs = [p \in Pod |-> {}] /\ ser'.known = {}
    BY <1>2 DEF evictPodsWithPv, NoSerial
  <2>2. Len(none) = 0
    BY EmptySeq
  <2>. HIDE DEF none
  <2>3. Listed' = {}
    BY <2>1, <2>2 DEF Listed
  <2>4. \A p \in Pod : Awaited(p)' = {}
    BY <2>1 DEF Awaited
  <2>. QED  BY <1>1, <2>1, <2>3, <2>4
<1>3. CASE ~(env.mode = "evict" /\ env.retries = 0)
  <2>1. PICK bad \in Pod, lost \in {"none", "claims", "volumes", "ids"} :
          ser' = [doAccountingOfPvs(bad, lost) EXCEPT
                     !.at = "next", !.round = 1, !.evict = env.mode = "evict"]
    BY <1>3, Zenon DEF evictPodsWithPv
  <2>. DEFINE listed == {ser.queue[i] : i \in DOMAIN ser.queue}
              claimed == [p \in Pod |-> IF p \notin listed \/ (p = bad /\ lost = "claims")
                                        THEN {} ELSE env.vols[p]]
              unshared(p) == {v \in claimed[p] : \A q \in Pod \ {p} : v \notin claimed[q]}
              pvs == [p \in Pod |-> IF p = bad /\ lost = "ids" THEN {} ELSE unshared(p)]
              vols == [p \in Pod |-> IF p = bad /\ lost # "none" THEN {} ELSE unshared(p)]
              known == IF lost = "none" THEN listed ELSE listed \ {bad}
              own(p) == {v \in env.vols[p] : \A q \in Pod \ {p} : v \notin env.vols[q]}
              d == doAccountingOfPvs(bad, lost)
              e == env.mode = "evict"
  <2>2. d = [ser EXCEPT !.pvs = pvs, !.vols = vols, !.known = known]
    BY DEF doAccountingOfPvs
  <2>3. \A p \in Pod : claimed[p] \subseteq env.vols[p]
    OBVIOUS
  <2>4. \A p \in Pod : unshared(p) \subseteq env.vols[p]
    BY <2>3
  <2>12. ASSUME NEW p \in Pod, p \in known PROVE own(p) \subseteq unshared(p)
    <3>1. claimed[p] = env.vols[p]
      BY <2>12
    <3>. HIDE DEF claimed
    <3>. QED  BY <2>3, <3>1
  <2>13. \A p \in Pod : p \in known => ~(p = bad /\ lost # "none")
    OBVIOUS
  <2>. HIDE DEF unshared, own, known
  <2>5. \A p \in Pod : pvs[p] \subseteq env.vols[p] /\ vols[p] \subseteq env.vols[p]
    BY <2>4
  <2>14. \A p \in Pod : p \in known => own(p) \subseteq vols[p]
    BY <2>12, <2>13
  <2>. HIDE DEF pvs, vols
  <2>6. d \in SerialType /\ d.queue = ser.queue /\ d.retry = ser.retry
    BY <1>1, AccountingFields
  <2>7. ser \in SerialType
    BY <1>1 DEF CoreTyped
  <2>8. d.pvs = pvs /\ d.vols = vols /\ d.known = known
    BY <2>2, <2>7 DEF SerialType
  <2>9. ser' = [d EXCEPT !.at = "next", !.round = 1, !.evict = e]
    BY <2>1
  <2>. HIDE DEF d, e
  <2>10. /\ ser'.at = "next" /\ ser'.queue = ser.queue /\ ser'.retry = ser.retry
         /\ ser'.pvs = pvs /\ ser'.vols = vols /\ ser'.known = known
    BY <2>6, <2>8, <2>9 DEF SerialType
  <2>11. Listed' = Listed
    BY <2>10 DEF Listed
  <2>15. ASSUME NEW p \in Pod PROVE Awaited(p)' \subseteq ser'.vols[p]
    <3>1. Awaited(p)' = IF p \in known THEN own(p) ELSE {}
      BY <1>1, <2>10, Zenon DEF Awaited, own
    <3>. QED  BY <2>10, <2>14, <3>1
  <2>. QED  BY <1>1, <2>5, <2>10, <2>11, <2>15
<1>. QED  BY <1>2, <1>3

\* What a step of evictPodsWithPv does to the lists and the results.
SerialLists ==
    /\ UNCHANGED <<env, par>>
    /\ \/ UNCHANGED <<main, result>> /\ Listed' \subseteq Listed
       \/ \E ok \in BOOLEAN : /\ Send(Current, ok) /\ Current \in Listed
                              /\ Listed' = Listed \ {Current}
    /\ ser'.at \notin {"off", "start"}
    /\ ser'.at = "rest" => Distinct(ser'.queue) /\ ser'.retry = <<>>
    /\ ser.at # "start" => ser'.vols = ser.vols /\ ser'.pvs = ser.pvs

LEMMA DoneLists ==
    ASSUME Core, Working, ser' = PodDone, UNCHANGED <<env, par>>,
           NEW ok \in BOOLEAN, Send(Current, ok)
    PROVE  SerialLists
<1>1. ser \in SerialType /\ ser.queue # <<>>
  BY CurrentFacts DEF Core, CoreTyped
<1>2. /\ ser'.at = "next" /\ ser'.queue = Tail(ser.queue) /\ ser'.retry = ser.retry
      /\ ser'.vols = ser.vols /\ ser'.pvs = ser.pvs
  BY <1>1, PodDoneFields, PodDoneVolumes
<1>3. Current \in Listed /\ Listed' = Listed \ {Current}
  BY <1>2, DoneLeaves
<1>. QED  BY <1>2, <1>3 DEF SerialLists

LEMMA RetriedLists ==
    ASSUME Core, Working, ser' = Retried, UNCHANGED <<env, par, main, result>>
    PROVE  SerialLists
<1>1. ser \in SerialType /\ ser.queue # <<>>
  BY CurrentFacts DEF Core, CoreTyped
<1>2. ser'.at = "next" /\ ser'.vols = ser.vols /\ ser'.pvs = ser.pvs
  BY <1>1, RetriedFields, RetriedVolumes
<1>. QED  BY <1>2, RetriedStays DEF SerialLists

LEMMA GivenUpLists ==
    ASSUME Core, Working, ser' = FastTrack, UNCHANGED <<env, par>>, Send(Current, TRUE)
    PROVE  SerialLists
<1>1. ser \in SerialType /\ ser.queue # <<>>
  BY CurrentFacts DEF Core, CoreTyped
<1>2. ser'.at = "rest" /\ ser'.vols = ser.vols /\ ser'.pvs = ser.pvs
  BY <1>1, FastTrackFields, FastTrackLists
<1>3. /\ Current \in Listed /\ Listed' = Listed \ {Current}
      /\ Distinct(ser'.queue) /\ ser'.retry = <<>>
  BY FastTrackLeaves
<1>. QED  BY <1>2, <1>3, Zenon DEF SerialLists

LEMMA MovesLists ==
    ASSUME ser'.queue = ser.queue, ser'.retry = ser.retry, ser'.vols = ser.vols,
           ser'.pvs = ser.pvs, ser'.at \in {"call", "detach", "reattach", "end"},
           UNCHANGED <<env, par, main, result>>
    PROVE  SerialLists
BY DEF SerialLists, Listed

LEMMA SerialStepLists ==
    ASSUME Core, Pending, Serial
    PROVE  SerialLists
<1>1. ser \in SerialType /\ UNCHANGED <<env, par>>
  BY Zenon
     DEF Core, CoreTyped, Serial, evictPodsWithPv, NextPass, ReportRest, NextPod, SerialCall,
         SerialRefused, SerialBlocked, DetachedInTree, Detached, NotDetached, ReceiveEvent,
         NotReattached, world
<1>2. CASE evictPodsWithPv
  BY <1>2, AccountedVolumes, Zenon DEF SerialLists, evictPodsWithPv
<1>3. CASE NextPass
  <2>1. UNCHANGED <<main, result>>
    BY <1>3 DEF NextPass
  <2>. QED  BY <1>1, <1>3, <2>1, PassListed DEF SerialLists
<1>4. CASE ReportRest
  <2>1. CASE ser.queue = <<>>
    <3>1. ser' = [ser EXCEPT !.at = "end"] /\ UNCHANGED <<main, result>>
      BY <1>4, <2>1 DEF ReportRest, NoSend
    <3>2. /\ ser'.queue = ser.queue /\ ser'.retry = ser.retry /\ ser'.vols = ser.vols
          /\ ser'.pvs = ser.pvs /\ ser'.at = "end"
      BY <1>1, <3>1 DEF SerialType
    <3>. QED  BY <1>1, <3>1, <3>2, MovesLists
  <2>2. CASE ser.queue # <<>>
    <3>1. ser' = [ser EXCEPT !.queue = Tail(@)] /\ Send(Current, ser.evict) /\ ser.at = "rest"
      BY <1>4, <2>2 DEF ReportRest
    <3>2. ser.evict \in BOOLEAN
      BY <1>1 DEF SerialType
    <3>3. /\ Current \in Listed /\ Listed' = Listed \ {Current}
          /\ Distinct(ser'.queue) /\ ser'.retry = <<>> /\ ser'.at = "rest"
          /\ ser'.vols = ser.vols /\ ser'.pvs = ser.pvs
      BY <2>2, <3>1, RestLeaves
    <3>. QED  BY <1>1, <3>1, <3>2, <3>3 DEF SerialLists
  <2>. QED  BY <2>1, <2>2
<1>5. CASE NextPod
  <2>1. Working
    BY <1>5 DEF NextPod, Working
  <2>2. CASE overdue
    BY <1>1, <1>5, <2>1, <2>2, GivenUpLists DEF NextPod
  <2>3. CASE ~overdue
    <3>1. ser' = [ser EXCEPT !.at = "call"] /\ UNCHANGED <<main, result>>
      BY <1>5, <2>3 DEF NextPod, NoSend
    <3>2. /\ ser'.queue = ser.queue /\ ser'.retry = ser.retry /\ ser'.vols = ser.vols
          /\ ser'.pvs = ser.pvs /\ ser'.at = "call"
      BY <1>1, <3>1 DEF SerialType
    <3>. QED  BY <1>1, <3>1, <3>2, MovesLists
  <2>. QED  BY <2>2, <2>3
<1>6. CASE SerialCall
  <2>1. Working
    BY <1>6 DEF SerialCall, Working, Busy
  <2>2. CASE ser' = PodDone /\ Send(Current, TRUE)
    BY <1>1, <2>1, <2>2, DoneLists, Zenon
  <2>3. CASE ser' = [ser EXCEPT !.at = "detach"] /\ NoSend
    <3>1. /\ ser'.queue = ser.queue /\ ser'.retry = ser.retry /\ ser'.vols = ser.vols
          /\ ser'.pvs = ser.pvs /\ ser'.at = "detach"
      BY <1>1, <2>3 DEF SerialType
    <3>. QED  BY <1>1, <2>3, <3>1, MovesLists DEF NoSend
  <2>4. CASE ser' = Retried /\ NoSend
    BY <1>1, <2>1, <2>4, RetriedLists DEF NoSend
  <2>. QED  BY <1>6, <2>2, <2>3, <2>4, Zenon DEF SerialCall
<1>7. CASE SerialRefused
  BY <1>1, <1>7, RetriedLists DEF SerialRefused, NoSend, Working, Busy
<1>8. CASE SerialBlocked
  <2>1. Working /\ ser' = PodDone /\ Send(Current, FALSE)
    BY <1>8, Zenon DEF SerialBlocked, Working, Busy
  <2>. QED  BY <1>1, <2>1, DoneLists, Zenon
<1>9. CASE DetachedInTree
  <2>1. Working /\ ser' = PodDone /\ Send(Current, TRUE)
    BY <1>9, Zenon DEF DetachedInTree, Working, Busy
  <2>. QED  BY <1>1, <2>1, DoneLists, Zenon
<1>10. CASE Detached
  <2>1. CASE ser.pvs[Current] = {}
    <3>1. Working /\ ser' = PodDone /\ Send(Current, TRUE)
      BY <1>10, <2>1, Zenon DEF Detached, Working, Busy
    <3>. QED  BY <1>1, <3>1, DoneLists, Zenon
  <2>2. CASE ser.pvs[Current] # {}
    <3>. DEFINE w == ser.pvs[Current]
    <3>1. ser' = [ser EXCEPT !.at = "reattach", !.waiting = w] /\ UNCHANGED <<main, result>>
      BY <1>10, <2>2, Zenon DEF Detached, NoSend
    <3>. HIDE DEF w
    <3>2. /\ ser'.queue = ser.queue /\ ser'.retry = ser.retry /\ ser'.vols = ser.vols
          /\ ser'.pvs = ser.pvs /\ ser'.at = "reattach"
      BY <1>1, <3>1 DEF SerialType
    <3>. QED  BY <1>1, <3>1, <3>2, MovesLists
  <2>. QED  BY <2>1, <2>2
<1>11. CASE NotDetached
  <2>1. Working
    BY <1>11 DEF NotDetached, Working, Busy
  <2>2. CASE ser' = PodDone /\ Send(Current, FALSE)
    BY <1>1, <2>1, <2>2, DoneLists, Zenon
  <2>3. CASE ser' = FastTrack /\ Send(Current, TRUE)
    BY <1>1, <2>1, <2>3, GivenUpLists
  <2>. QED  BY <1>11, <2>2, <2>3, Zenon DEF NotDetached
<1>12. CASE ReceiveEvent
  <2>. DEFINE e == Head(chan.buf)
              w == IF e.attached THEN ser.waiting \ {e.vol} ELSE ser.waiting
  <2>1. ser.at = "reattach" /\ Working
    BY <1>12 DEF ReceiveEvent, Working, Busy
  <2>2. CASE w = {}
    <3>1. ser' = PodDone /\ Send(Current, TRUE)
      BY <1>12, <2>2, Zenon DEF ReceiveEvent
    <3>. QED  BY <1>1, <2>1, <3>1, DoneLists, Zenon
  <2>3. CASE w # {}
    <3>1. ser' = [ser EXCEPT !.waiting = w] /\ UNCHANGED <<main, result>>
      BY <1>12, <2>3, Zenon DEF ReceiveEvent, NoSend
    <3>. HIDE DEF w
    <3>2. /\ ser'.queue = ser.queue /\ ser'.retry = ser.retry /\ ser'.vols = ser.vols
          /\ ser'.pvs = ser.pvs /\ ser'.at = "reattach"
      BY <1>1, <2>1, <3>1 DEF SerialType
    <3>. QED  BY <1>1, <3>1, <3>2, MovesLists
  <2>. QED  BY <2>2, <2>3
<1>13. CASE NotReattached
  <2>1. Working /\ ser' = PodDone /\ Send(Current, TRUE)
    BY <1>13, Zenon DEF NotReattached, Working, Busy
  <2>. QED  BY <1>1, <2>1, DoneLists, Zenon
<1>. QED  BY <1>2, <1>3, <1>4, <1>5, <1>6, <1>7, <1>8, <1>9, <1>10, <1>11, <1>12, <1>13 DEF Serial

\* What a goroutine for a pod without volumes does to the results.
ParallelResult(p) ==
    /\ UNCHANGED <<env, ser, node, vol, overdue, chan>>
    /\ par[p].at \in {"call", "wait"} /\ p \in InParallel
    /\ \A q \in Pod : q # p => how'[q] = how[q]
    /\ \A q \in Pod : par'[q].at # "off" => par[q].at # "off"
    /\ \/ UNCHANGED <<main, result>> /\ InParallel' = InParallel
       \/ \E ok \in BOOLEAN : /\ Send(p, ok) /\ InParallel' = InParallel \ {p}
                              /\ ok /\ env.mode # "force" => pod'[p] = "gone"

LEMMA ParallelStepResult ==
    ASSUME Core, WorldTyped, NEW p \in Pod, Parallel(p)
    PROVE  ParallelResult(p)
<1>1. par \in [Pod -> GoroutineType] /\ UNCHANGED <<env, ser, node, vol, overdue, chan>>
  BY Zenon
     DEF Core, CoreTyped, Parallel, ParallelCall, ParallelRefused, ParallelBlocked, ParallelWait,
         world
<1>2. par[p].at \in {"call", "wait"} /\ p \in InParallel
  BY Zenon DEF Parallel, ParallelCall, ParallelRefused, ParallelBlocked, ParallelWait, InParallel
<1>3. \A q \in Pod : q # p => how'[q] = how[q]
  <2>1. \/ /\ Removed(p, ParallelEvicts(p)) \/ RemovedUnseen(p, ParallelEvicts(p))
           /\ pod[p] # "gone"
        \/ NotRemoved
    BY Zenon
       DEF Parallel, ParallelCall, ParallelRefused, ParallelBlocked, ParallelWait, NotRemoved, world
  <2>. QED  BY <2>1, RemovedOnwards
<1>4. ASSUME Ends(p)
      PROVE  /\ InParallel' = InParallel \ {p}
             /\ \A q \in Pod : par'[q].at # "off" => par[q].at # "off"
  <2>1. par'[p].at = "end" /\ \A q \in Pod : q # p => par'[q] = par[q]
    BY <1>1, <1>4 DEF Ends, GoroutineType
  <2>. QED  BY <1>2, <2>1 DEF InParallel
<1>5. ASSUME par' = [par EXCEPT ![p].at = "wait"] \/ par' = [par EXCEPT ![p].tries = @ + 1]
      PROVE  /\ InParallel' = InParallel
             /\ \A q \in Pod : par'[q].at # "off" => par[q].at # "off"
  <2>1. par'[p].at \in {"call", "wait"} /\ \A q \in Pod : q # p => par'[q] = par[q]
    BY <1>1, <1>2, <1>5 DEF GoroutineType
  <2>. QED  BY <1>2, <2>1 DEF InParallel
<1>6. CASE ParallelCall(p)
  <2>1. CASE pod[p] = "gone" /\ Send(p, TRUE) /\ Ends(p) /\ NotRemoved
    BY <1>1, <1>2, <1>3, <1>4, <2>1, Zenon DEF ParallelResult, NotRemoved
  <2>2. CASE env.mode = "force" /\ Send(p, TRUE) /\ Ends(p)
    BY <1>1, <1>2, <1>3, <1>4, <2>2, Zenon DEF ParallelResult
  <2>3. CASE NoSend /\ par' = [par EXCEPT ![p].at = "wait"]
    BY <1>1, <1>2, <1>3, <1>5, <2>3 DEF ParallelResult, NoSend
  <2>4. CASE Send(p, FALSE) /\ Ends(p)
    BY <1>1, <1>2, <1>3, <1>4, <2>4, Zenon DEF ParallelResult
  <2>. QED  BY <1>6, <2>1, <2>2, <2>3, <2>4, Zenon DEF ParallelCall
<1>7. CASE ParallelRefused(p)
  BY <1>1, <1>2, <1>3, <1>5, <1>7 DEF ParallelResult, ParallelRefused, NoSend
<1>8. CASE ParallelBlocked(p)
  <2>1. Send(p, FALSE) /\ Ends(p)
    BY <1>8, Zenon DEF ParallelBlocked
  <2>. QED  BY <1>1, <1>2, <1>3, <1>4, <2>1, Zenon DEF ParallelResult
<1>9. CASE ParallelWait(p)
  <2>1. PICK ok \in BOOLEAN : (ok => pod[p] = "gone") /\ Send(p, ok)
    BY <1>9 DEF ParallelWait
  <2>2. Ends(p) /\ UNCHANGED pod
    BY <1>9 DEF ParallelWait, world
  <2>. QED  BY <1>1, <1>2, <1>3, <1>4, <2>1, <2>2 DEF ParallelResult
<1>. QED  BY <1>6, <1>7, <1>8, <1>9 DEF Parallel

-----------------------------------------------------------------------------
(* Results *)

\* Only the result of the pod is changed.
LEMMA SendFacts ==
    ASSUME CoreTyped, NEW p \in Pod, NEW ok \in BOOLEAN, Send(p, ok)
    PROVE  /\ result'[p] = IF ok THEN "ok" ELSE "error"
           /\ \A q \in Pod : q # p => result'[q] = result[q]
           /\ main'.at = main.at /\ main'.pods = main.pods /\ main'.count = main.count + 1
           /\ main'.ok => main.ok /\ ok
           /\ Reported' = Reported \cup {p}
<1>1. /\ result'[p] = IF ok THEN "ok" ELSE "error"
      /\ \A q \in Pod : q # p => result'[q] = result[q]
  BY DEF CoreTyped, Send
<1>2. Reported' = Reported \cup {p}
  BY <1>1 DEF Reported
<1>. DEFINE both == main.ok /\ ok
            n == main.count + 1
<1>3. main' = [main EXCEPT !.count = n, !.ok = both]
  BY DEF Send
<1>. HIDE DEF both, n
<1>4. /\ main'.at = main.at /\ main'.pods = main.pods /\ main'.count = n /\ main'.ok = both
  BY <1>3 DEF CoreTyped
<1>. QED  BY <1>1, <1>2, <1>4, Zenon DEF both, n

LEMMA PendingSerial ==
    ASSUME Core, Pending, Serial
    PROVE  Pending'
<1>1. SerialLists /\ CoreTyped
  BY SerialStepLists DEF Core
<1>2. UNCHANGED <<env, par>> /\ \A p \in Pod : HasPv(p)' = HasPv(p)
  BY <1>1 DEF SerialLists, HasPv
<1>3. InParallel' = InParallel /\ InParallel \subseteq Pod
  BY <1>2 DEF InParallel
<1>4. CASE UNCHANGED <<main, result>> /\ Listed' \subseteq Listed
  <2>1. \A p \in Listed' : p \in Pod /\ HasPv(p)' /\ env'.mode # "force" /\ result'[p] = "none"
    BY <1>2, <1>4 DEF Pending, Listed
  <2>2. \A p \in InParallel' : result'[p] = "none"
    BY <1>3, <1>4 DEF Pending
  <2>3. \A p \in Pod : par'[p].at # "off" /\ env'.mode # "force" => ~HasPv(p)'
    BY <1>2 DEF Pending
  <2>. QED  BY <1>1, <2>1, <2>2, <2>3, Zenon DEF Pending, SerialLists
<1>5. ASSUME NEW ok \in BOOLEAN, Send(Current, ok), Current \in Listed, Listed' = Listed \ {Current}
      PROVE  Pending'
  <2>0. Current \in Pod /\ HasPv(Current) /\ env.mode # "force"
    BY <1>5 DEF Listed, Pending
  <2>1. \A q \in Pod : q # Current => result'[q] = result[q]
    BY <1>1, <1>5, <2>0, SendFacts, SMTT(30)
  <2>2. \A p \in Listed' : p \in Pod /\ HasPv(p)' /\ env'.mode # "force" /\ result'[p] = "none"
    BY <1>2, <1>5, <2>1 DEF Pending, Listed
  <2>3. Current \notin InParallel
    BY <2>0 DEF Pending, InParallel
  <2>4. \A p \in InParallel' : result'[p] = "none"
    BY <1>3, <2>1, <2>3 DEF Pending
  <2>5. \A p \in Pod : par'[p].at # "off" /\ env'.mode # "force" => ~HasPv(p)'
    BY <1>2 DEF Pending
  <2>. QED  BY <1>1, <2>2, <2>4, <2>5 DEF Pending, SerialLists
<1>. QED  BY <1>1, <1>4, <1>5 DEF SerialLists

LEMMA PendingParallel ==
    ASSUME Core, WorldTyped, Pending, NEW p \in Pod, Parallel(p)
    PROVE  Pending'
<1>1. ParallelResult(p) /\ CoreTyped
  BY ParallelStepResult DEF Core
<1>2. /\ UNCHANGED <<env, ser>> /\ \A q \in Pod : HasPv(q)' = HasPv(q)
      /\ Listed' = Listed /\ Listed \subseteq Pod
  BY <1>1 DEF ParallelResult, HasPv, Listed
<1>3. p \in InParallel /\ par[p].at # "off" /\ InParallel' \subseteq InParallel
  BY <1>1 DEF ParallelResult, InParallel
<1>4. env.mode # "force" => ~HasPv(p)
  BY <1>3 DEF Pending
<1>5. /\ \A q \in Pod : q # p => result'[q] = result[q]
      /\ p \in InParallel' => UNCHANGED result
  BY <1>1, SendFacts DEF ParallelResult
<1>6. \A q \in Listed' : HasPv(q)' /\ env'.mode # "force" /\ result'[q] = "none"
  BY <1>2, <1>4, <1>5, Zenon DEF Pending
<1>7. \A q \in InParallel' : result'[q] = "none"
  BY <1>3, <1>5 DEF Pending, InParallel
<1>8. \A q \in Pod : par'[q].at # "off" /\ env'.mode # "force" => ~HasPv(q)'
  BY <1>1, <1>2, Zenon DEF Pending, ParallelResult
<1>9. ser'.at \in {"off", "start"} /\ env'.mode # "force" =>
          \A q \in Pod : HasPv(q)' => how'[q] = "none" /\ result'[q] = "none"
  BY <1>1, <1>2, <1>4, <1>5, Zenon DEF Pending, ParallelResult
<1>10. ser'.at = "rest" => Distinct(ser'.queue) /\ ser'.retry = <<>>
  BY <1>2 DEF Pending
<1>. QED  BY <1>6, <1>7, <1>8, <1>9, <1>10 DEF Pending

\* The list: each pod is in a list or has a goroutine.
LEMMA ListTaken ==
    ASSUME Core, evictPods, PodsForDeletion # {}
    PROVE  /\ UNCHANGED <<env, result, how, pod>> /\ main.at = "list"
           /\ main' = [main EXCEPT !.at = "wait", !.pods = Cardinality(PodsForDeletion)]
           /\ ser'.at = (IF env.mode = "force" THEN "off" ELSE "start")
           /\ ser'.retry = <<>> /\ Listed' \subseteq PodsWithPv(PodsForDeletion)
           /\ \A p \in Pod : par'[p].at = IF p \in PodsForDeletion \ PodsWithPv(PodsForDeletion)
                                          THEN "call" ELSE "off"
<1>. DEFINE pods == PodsForDeletion
            pv == PodsWithPv(pods)
            at == IF env.mode = "force" THEN "off" ELSE "start"
            none == <<>>
<1>1. /\ main.at = "list" /\ UNCHANGED <<env, result, how, pod>>
      /\ main' = [main EXCEPT !.at = "wait", !.pods = Cardinality(pods)]
      /\ \E s \in Sorted(pv) : ser' = [ser EXCEPT !.at = at, !.queue = s]
      /\ par' = [p \in Pod |-> IF p \in pods \ pv THEN [NoGoroutine EXCEPT !.at = "call"]
                                              ELSE NoGoroutine]
  BY Zenon DEF evictPods, world
<1>2. CoreTyped /\ ser = NoSerial /\ ser \in SerialType
  BY <1>1 DEF Core, CoreTyped, Idle
<1>3. ser.retry = none /\ Len(none) = 0
  BY <1>2, EmptySeq DEF NoSerial
<1>4. pv \subseteq Pod
  BY DEF PodsForDeletion, PodsWithPv
<1>5. \A p \in Pod : par'[p].at = IF p \in pods \ pv THEN "call" ELSE "off"
  BY <1>1 DEF NoGoroutine
<1>. HIDE DEF pods, pv, at, none
<1>6. PICK s \in Sorted(pv) : ser' = [ser EXCEPT !.at = at, !.queue = s]
  BY <1>1, Zenon
<1>7. ser'.at = at /\ ser'.queue = s /\ ser'.retry = none
  BY <1>2, <1>3, <1>6 DEF SerialType
<1>8. \A i \in 1..Len(s) : s[i] \in pv
  BY <1>2, <1>4, SortedFacts
<1>9. Listed' \subseteq pv
  BY <1>3, <1>7, <1>8 DEF Listed
<1>. QED  BY <1>1, <1>5, <1>7, <1>9 DEF pods, pv, at, none

\* Other steps of the caller change nothing of the goroutines.
LEMMA CallerReturns ==
    ASSUME Core, Caller, ~(evictPods /\ PodsForDeletion # {})
    PROVE  /\ UNCHANGED <<env, ser, par, result, how, pod, vol, node, overdue, chan>>
           /\ \/ main.at = "cordon" /\ main' = [main EXCEPT !.at = "list"]
              \/ main.at \in {"cordon", "list"} /\ \E ok \in BOOLEAN : Return(ok)
              \/ main.at = "wait" /\ main.count = main.pods /\ Return(main.ok)
<1>1. UNCHANGED <<env, ser, par, result, how, pod, vol, node, overdue, chan>>
  BY Zenon DEF Caller, Cordon, SkipNode, evictPods, ListFails, AllReported, world
<1>2. \/ main.at = "cordon" /\ main' = [main EXCEPT !.at = "list"]
      \/ main.at \in {"cordon", "list"} /\ (Return(TRUE) \/ Return(FALSE))
      \/ main.at = "wait" /\ main.count = main.pods /\ Return(main.ok)
  BY Zenon DEF Caller, Cordon, SkipNode, evictPods, ListFails, AllReported
<1>. QED  BY <1>1, <1>2, Zenon

LEMMA PendingUnchanged ==
    ASSUME Pending, UNCHANGED <<env, ser, par, result, how>>
    PROVE  Pending'
BY DEF Pending, Listed, InParallel, HasPv, Distinct

LEMMA PendingCaller ==
    ASSUME Core, Fresh, Pending, Caller
    PROVE  Pending'
<1>1. CASE ~(evictPods /\ PodsForDeletion # {})
  BY <1>1, CallerReturns, PendingUnchanged, SMTT(30)
<1>2. CASE evictPods /\ PodsForDeletion # {}
  <2>. DEFINE pods == PodsForDeletion
              pv == PodsWithPv(pods)
  <2>1. /\ UNCHANGED <<env, result, how>> /\ main.at = "list"
        /\ ser'.at \in {"off", "start"} /\ Listed' \subseteq pv
        /\ \A p \in Pod : par'[p].at = IF p \in pods \ pv THEN "call" ELSE "off"
    BY <1>2, ListTaken
  <2>2. /\ \A p \in Pod : how[p] = "none" /\ result[p] = "none"
    BY <2>1 DEF Fresh
  <2>3. /\ pods \subseteq Pod /\ pv \subseteq pods
        /\ \A p \in pods : p \in pv <=> env.mode # "force" /\ HasPv(p)
    BY DEF PodsForDeletion, PodsWithPv
  <2>4. \A p \in Pod : HasPv(p)' = HasPv(p)
    BY <2>1 DEF HasPv
  <2>5. InParallel' \subseteq Pod
    BY DEF InParallel
  <2>. HIDE DEF pods, pv
  <2>. QED  BY <2>1, <2>2, <2>3, <2>4, <2>5 DEF Pending
<1>. QED  BY <1>1, <1>2

LEMMA FreshKept ==
    ASSUME IInv, Fresh, [Next]_vars
    PROVE  Fresh'
<1>1. Core /\ CoreTyped /\ WorldTyped
  BY DEF IInv, Core
<1>2. CASE Caller
  <2>1. CASE evictPods /\ PodsForDeletion # {}
    <3>1. main'.at = "wait"
      BY <1>1, <2>1, ListTaken, Zenon DEF CoreTyped
    <3>. QED  BY <3>1 DEF Fresh
  <2>2. CASE ~(evictPods /\ PodsForDeletion # {})
    <3>1. UNCHANGED <<how, result>> /\ main'.pods = main.pods
      BY <1>1, <1>2, <2>2, CallerReturns, Zenon DEF Return, CoreTyped
    <3>2. main'.at \in {"cordon", "list"} => main.at \in {"cordon", "list"}
      BY <1>1, <1>2, <2>2, CallerReturns, Zenon DEF Return, CoreTyped
    <3>. QED  BY <3>1, <3>2 DEF Fresh
  <2>. QED  BY <2>1, <2>2
<1>3. CASE Serial
  <2>1. ser.at # "off"
    BY <1>3, Zenon DEF Serial, evictPodsWithPv, NextPass, ReportRest, NextPod, SerialCall,
         SerialRefused, SerialBlocked, DetachedInTree, Detached, NotDetached, ReceiveEvent,
         NotReattached
  <2>2. main.at \notin {"cordon", "list"}
    BY <1>1, <2>1 DEF Core, Idle, NoSerial
  <2>3. ser.at = "start" \/ ser.at \in {"next", "rest"} \/ Busy
    BY <1>3, Zenon DEF Serial, evictPodsWithPv, NextPass, ReportRest, NextPod, SerialCall,
         SerialRefused, SerialBlocked, DetachedInTree, Detached, NotDetached, ReceiveEvent,
         NotReattached, Busy
  <2>4. main'.at = main.at
    <3>1. \/ UNCHANGED main
          \/ \E ok \in BOOLEAN : main' = [main EXCEPT !.count = @ + 1, !.ok = @ /\ ok]
      <4>1. ser.evict \in BOOLEAN
        BY <1>1 DEF CoreTyped, SerialType
      <4>2. UNCHANGED main \/ \E ok \in {TRUE, FALSE, ser.evict} : Send(Current, ok)
        BY <1>3, Zenon DEF Serial, evictPodsWithPv, NextPass, ReportRest, NextPod, SerialCall,
           SerialRefused, SerialBlocked, DetachedInTree, Detached, NotDetached, ReceiveEvent,
           NotReattached, NoSend
      <4>. QED  BY <4>1, <4>2, Zenon DEF Send
    <3>. QED  BY <1>1, <3>1, Zenon DEF CoreTyped
  <2>. QED  BY <2>2, <2>4 DEF Fresh
<1>4. ASSUME NEW p \in Pod, Parallel(p) PROVE Fresh'
  <2>1. ParallelResult(p)
    BY <1>1, <1>4, ParallelStepResult
  <2>2. main.at \notin {"cordon", "list"}
    BY <1>1, <2>1, ParallelFacts, Zenon DEF ParallelResult
  <2>3. main'.at = main.at
    BY <1>1, <2>1, SendFacts DEF ParallelResult
  <2>. QED  BY <2>2, <2>3 DEF Fresh
<1>5. CASE Others
  <2>1. UNCHANGED <<main, how, result>>
    BY <1>5, Zenon
       DEF Others, Terminates, DeletedByOthers, Detaches, Attaches, NodeLost, DeadlinePasses
  <2>. QED  BY <2>1 DEF Fresh
<1>6. CASE UNCHANGED vars
  BY <1>6 DEF vars, Fresh
<1>. QED  BY <1>2, <1>3, <1>4, <1>5, <1>6 DEF Next

LEMMA PendingKept ==
    ASSUME IInv, Fresh, Pending, [Next]_vars
    PROVE  Pending'
<1>1. Core /\ WorldTyped
  BY DEF IInv
<1>2. CASE Caller
  BY <1>1, <1>2, PendingCaller
<1>3. CASE Serial
  BY <1>1, <1>3, PendingSerial
<1>4. ASSUME NEW p \in Pod, Parallel(p) PROVE Pending'
  BY <1>1, <1>4, PendingParallel
<1>5. CASE Others
  <2>1. UNCHANGED <<env, ser, par, result, how>>
    BY <1>5, Zenon
       DEF Others, Terminates, DeletedByOthers, Detaches, Attaches, NodeLost, DeadlinePasses
  <2>. QED  BY <2>1, PendingUnchanged
<1>6. CASE UNCHANGED vars
  BY <1>6, PendingUnchanged DEF vars
<1>. QED  BY <1>2, <1>3, <1>4, <1>5, <1>6 DEF Next

-----------------------------------------------------------------------------
(* The count *)

LEMMA ReportCounted ==
    ASSUME CoreTyped, Counted, NEW p \in Listed \cup InParallel, result[p] = "none",
           NEW ok \in BOOLEAN, Send(p, ok), Onwards,
           Listed' \subseteq Listed, InParallel' \subseteq InParallel
    PROVE  Counted'
<1>1. p \in Pod
  BY DEF Listed, InParallel
<1>2. PICK pods \in SUBSET Pod : CountsPods(pods)
  BY DEF Counted
<1>3. /\ main'.at = main.at /\ main'.pods = main.pods /\ main'.count = main.count + 1
      /\ Reported' = Reported \cup {p}
  BY <1>1, SendFacts
<1>4. Reported \subseteq Pod /\ p \notin Reported
  BY DEF Reported
<1>5. Cardinality(Reported \cup {p}) = Cardinality(Reported) + 1
  BY <1>1, <1>4 DEF CoreTyped, Counting
<1>6. main'.pods = Cardinality(pods) /\ main'.count = Cardinality(Reported')
  BY <1>2, <1>3, <1>5, Zenon DEF CountsPods
<1>7. /\ Reported' \cup Listed' \cup InParallel' \subseteq pods
      /\ main'.at = "done" => Reported' = pods
  BY <1>2, <1>3 DEF CountsPods
<1>8. \A q \in Pod \ (pods \cup env'.kept) : pod'[q] = "gone"
  BY <1>2 DEF CountsPods, Onwards
<1>9. CountsPods(pods)'
  BY <1>6, <1>7, <1>8 DEF CountsPods
<1>. QED  BY <1>9 DEF Counted

LEMMA NothingCounted ==
    ASSUME Counted, UNCHANGED <<main, result>>, Onwards,
           Listed' \subseteq Listed, InParallel' \subseteq InParallel
    PROVE  Counted'
<1>1. CASE main.pods = 0 /\ Listed = {} /\ InParallel = {}
  BY <1>1 DEF Counted
<1>2. ASSUME NEW pods \in SUBSET Pod, CountsPods(pods) PROVE Counted'
  <2>1. Reported' = Reported
    BY DEF Reported
  <2>2. \A q \in Pod \ (pods \cup env'.kept) : pod'[q] = "gone"
    BY <1>2 DEF CountsPods, Onwards
  <2>3. CountsPods(pods)'
    BY <1>2, <2>1, <2>2 DEF CountsPods
  <2>. QED  BY <2>3 DEF Counted
<1>. QED  BY <1>1, <1>2 DEF Counted

LEMMA CallerCounted ==
    ASSUME Core, Fresh, Counted, Caller
    PROVE  Counted'
<1>0. CoreTyped
  BY DEF Core
<1>1. CASE evictPods /\ PodsForDeletion # {}
  <2>. DEFINE pods == PodsForDeletion
              pv == PodsWithPv(pods)
  <2>1. /\ UNCHANGED <<env, result, how, pod>> /\ main.at = "list"
        /\ main' = [main EXCEPT !.at = "wait", !.pods = Cardinality(pods)]
        /\ Listed' \subseteq pv
        /\ \A p \in Pod : par'[p].at = IF p \in pods \ pv THEN "call" ELSE "off"
    BY <1>1, ListTaken
  <2>2. /\ pods \subseteq Pod /\ pv \subseteq pods
        /\ \A p \in Pod \ (pods \cup env.kept) : pod[p] = "gone"
    BY DEF PodsForDeletion, PodsWithPv
  <2>. HIDE DEF pods, pv
  <2>3. main'.at = "wait" /\ main'.pods = Cardinality(pods) /\ main'.count = main.count
    BY <1>0, <2>1 DEF CoreTyped
  <2>4. main.count = 0
    BY <2>1 DEF Core, Idle
  <2>5. Reported' = {}
    BY <2>1 DEF Fresh, Reported
  <2>6. Cardinality(Reported') = 0
    BY <1>0, <2>5 DEF CoreTyped, Counting
  <2>7. InParallel' \subseteq pods
    BY <2>1 DEF InParallel
  <2>8. main'.count = Cardinality(Reported')
    BY <2>3, <2>4, <2>6, Zenon
  <2>9. PICK all \in SUBSET Pod : all = pods
    BY <2>2
  <2>10. CountsPods(all)'
    BY <2>1, <2>2, <2>3, <2>5, <2>7, <2>8, <2>9 DEF CountsPods
  <2>. QED  BY <2>10 DEF Counted
<1>2. CASE ~(evictPods /\ PodsForDeletion # {})
  <2>1. /\ UNCHANGED <<env, ser, par, result, pod>>
        /\ \/ main.at = "cordon" /\ main' = [main EXCEPT !.at = "list"]
           \/ main.at \in {"cordon", "list"} /\ \E ok \in BOOLEAN : Return(ok)
           \/ main.at = "wait" /\ main.count = main.pods /\ Return(main.ok)
    BY <1>2, CallerReturns
  <2>2. /\ Listed' = Listed /\ InParallel' = InParallel /\ Reported' = Reported
        /\ main'.pods = main.pods /\ main'.count = main.count
    BY <1>0, <2>1, Zenon DEF Listed, InParallel, Reported, Return, CoreTyped
  <2>3. CASE main.pods = 0 /\ Listed = {} /\ InParallel = {}
    BY <2>2, <2>3 DEF Counted
  <2>4. ASSUME NEW pods \in SUBSET Pod, CountsPods(pods),
               ~(main.pods = 0 /\ Listed = {} /\ InParallel = {})
        PROVE  Counted'
    <3>1. main.at \notin {"cordon", "list"}
      <4>1. SUFFICES ASSUME main.at \in {"cordon", "list"} PROVE FALSE
        OBVIOUS
      <4>2. main.pods = 0
        BY <4>1 DEF Fresh
      <4>3. ser = NoSerial /\ par = [p \in Pod |-> NoGoroutine]
        BY <4>1 DEF Core, Idle
      <4>4. Len(ser.queue) = 0 /\ Len(ser.retry) = 0
        BY <4>3, EmptySeq DEF NoSerial
      <4>5. Listed = {} /\ InParallel = {}
        BY <4>3, <4>4 DEF Listed, InParallel, NoGoroutine
      <4>. QED  BY <2>4, <4>2, <4>5
    <3>2. Cardinality(pods) = Cardinality(Reported) /\ Reported \subseteq pods
      BY <2>1, <2>4, <3>1 DEF CountsPods
    <3>3. pods = Reported
      BY <1>0, <2>1, <2>4, <3>2, Zenon DEF CoreTyped, Counting
    <3>4. CountsPods(pods)'
      BY <2>1, <2>2, <2>4, <3>3, SMTT(30) DEF CountsPods
    <3>. QED  BY <3>4 DEF Counted
  <2>. QED  BY <2>3, <2>4 DEF Counted
<1>. QED  BY <1>1, <1>2

LEMMA CountedKept ==
    ASSUME IInv, Fresh, Pending, Counted, [Next]_vars
    PROVE  Counted'
<1>1. Core /\ CoreTyped /\ WorldTyped /\ Onwards
  BY StepsOnwards DEF IInv, Core
<1>2. CASE Caller
  BY <1>1, <1>2, CallerCounted
<1>3. CASE Serial
  <2>1. SerialLists
    BY <1>1, <1>3, SerialStepLists
  <2>2. InParallel' = InParallel
    BY <2>1 DEF SerialLists, InParallel
  <2>3. CASE UNCHANGED <<main, result>> /\ Listed' \subseteq Listed
    BY <1>1, <2>2, <2>3, NothingCounted, SMTT(30)
  <2>4. ASSUME NEW ok \in BOOLEAN, Send(Current, ok), Current \in Listed,
               Listed' = Listed \ {Current}
        PROVE  Counted'
    <3>1. result[Current] = "none"
      BY <2>4 DEF Pending
    <3>. QED  BY <1>1, <2>2, <2>4, <3>1, ReportCounted
  <2>. QED  BY <2>1, <2>3, <2>4 DEF SerialLists
<1>4. ASSUME NEW p \in Pod, Parallel(p) PROVE Counted'
  <2>1. ParallelResult(p)
    BY <1>1, <1>4, ParallelStepResult
  <2>2. Listed' = Listed
    BY <2>1 DEF ParallelResult, Listed
  <2>3. CASE UNCHANGED <<main, result>> /\ InParallel' = InParallel
    BY <1>1, <2>2, <2>3, NothingCounted, SMTT(30)
  <2>4. ASSUME NEW ok \in BOOLEAN, Send(p, ok), InParallel' = InParallel \ {p} PROVE Counted'
    <3>1. p \in InParallel /\ result[p] = "none"
      BY <2>1 DEF Pending, ParallelResult
    <3>. QED  BY <1>1, <2>2, <2>4, <3>1, ReportCounted
  <2>. QED  BY <2>1, <2>3, <2>4 DEF ParallelResult
<1>5. CASE Others \/ UNCHANGED vars
  <2>1. UNCHANGED <<main, result, ser, par>>
    BY <1>5, Zenon
       DEF Others, Terminates, DeletedByOthers, Detaches, Attaches, NodeLost, DeadlinePasses,
                vars
  <2>2. Listed' = Listed /\ InParallel' = InParallel
    BY <2>1 DEF Listed, InParallel
  <2>. QED  BY <1>1, <2>1, <2>2, NothingCounted
<1>. QED  BY <1>2, <1>3, <1>4, <1>5 DEF Next

-----------------------------------------------------------------------------
(* Pods, volumes and results *)

Volumes == Truthful /\ Progress /\ OneAtATime /\ Seen

\* A step, and what is known before it.
Step == IInv /\ IInv' /\ Onwards /\ Pending /\ GoneFirst /\ Volumes

LEMMA StepTyped ==
    ASSUME Step
    PROVE  /\ CoreTyped /\ WorldTyped /\ WorldTyped' /\ ser \in SerialType /\ ser' \in SerialType
           /\ env' = env /\ env.vols \in [Pod -> SUBSET Volume]
           /\ \A p \in Pod : HasPv(p)' = HasPv(p)
<1>1. CoreTyped /\ WorldTyped /\ WorldTyped' /\ CoreTyped' /\ env' = env
  BY DEF Step, IInv, Core, Onwards
<1>. QED  BY <1>1, EnvTyped DEF CoreTyped, HasPv

LEMMA MovedKept ==
    ASSUME Step, NEW p \in Pod, Moved(p), ser'.vols[p] = ser.vols[p] \/ pod[p] = "gone"
    PROVE  Moved(p)'
<1>1. pod[p] = "gone" => pod'[p] = "gone"
  BY Zenon DEF Step, Onwards
<1>2. pod[p] = "terminating" => pod'[p] \in {"terminating", "gone"}
  BY StepTyped DEF Step, Onwards, WorldTyped
<1>. QED  BY <1>1, <1>2, StepTyped, Zenon DEF Moved

LEMMA LeftKept ==
    ASSUME Step, NEW p \in Pod, Left(p), ser'.vols[p] = ser.vols[p] \/ ~HasPv(p), how'[p] = how[p]
    PROVE  Left(p)'
<1>1. ser.vols[p] \subseteq Volume
  BY StepTyped DEF SerialType
<1>2. StillAttached(p) = {} /\ ser'.vols[p] = ser.vols[p] => StillAttached(p)' = {}
  BY <1>1, Zenon DEF StillAttached, Step, Onwards
<1>. QED  BY <1>2, StepTyped, Zenon DEF Left, Answered

LEMMA AttachedLess ==
    ASSUME Step, NEW p \in Pod, ser'.vols[p] = ser.vols[p], StillAttached(p) = {}
    PROVE  StillAttached(p)' = {}
<1>1. ser.vols[p] \subseteq Volume
  BY StepTyped DEF SerialType
<1>. QED  BY <1>1, Zenon DEF StillAttached, Step, Onwards

\* The volumes of a removed pod have left the node: so has the pod, unless its volumes are
\* not known.
LEMMA DetachedMoved ==
    ASSUME Step, ser.at \in {"detach", "reattach"}, StillAttached(Current) = {}
    PROVE  Moved(Current)
<1>1. Working /\ Current \in Pod /\ Current \in Listed
  <2>1. Core /\ Working
    BY DEF Step, IInv, Working, Busy
  <2>2. Current \in Pod /\ Current = ser.queue[1] /\ Len(ser.queue) \in Nat \ {0}
    BY <2>1, CurrentFacts, Zenon
  <2>3. 1 \in 1..Len(ser.queue)
    BY <2>2, SMTT(30)
  <2>. QED  BY <2>1, <2>2, <2>3 DEF Listed
<1>2. HasPv(Current)
  BY <1>1, Zenon DEF Step, Pending
<1>3. pod[Current] \in {"terminating", "gone"}
  BY <1>1, StepTyped, ZenonT(60) DEF Step, Volumes, Progress, WorldTyped
<1>4. CASE ser.vols[Current] # {}
  <2>1. PICK v \in ser.vols[Current] : TRUE
    BY <1>4
  <2>2. vol[v] # "here" /\ v \in env.vols[Current]
    BY <1>1, <2>1, ZenonT(60) DEF StillAttached, Step, Volumes, Progress
  <2>. QED  BY <1>1, <2>2, Zenon DEF Step, GoneFirst, Moved
<1>. QED  BY <1>2, <1>3, <1>4 DEF Moved

LEMMA NothingReported ==
    ASSUME Step, UNCHANGED result, main'.ok => (main.ok \/ \A p \in Pod : result[p] = "none"),
           ser.at # "start" => ser'.vols = ser.vols,
           \A p \in Pod : result[p] = "ok" /\ HasPv(p) /\ env.mode # "force" => how'[p] = how[p]
    PROVE  Truthful'
<1>1. ASSUME node', ~overdue', env'.mode # "force", NEW p \in Pod, result'[p] = "ok"
      PROVE  Moved(p)' /\ Left(p)'
  <2>1. Moved(p) /\ Left(p) /\ env.mode # "force"
    BY <1>1, Zenon DEF Step, Volumes, Truthful, Onwards
  <2>2. ser.at = "start" => pod[p] = "gone" /\ ~HasPv(p)
    BY <1>1, <2>1, StepTyped DEF Step, Pending, Moved
  <2>3. ~HasPv(p) => Left(p)'
    BY StepTyped, Zenon DEF Left
  <2>4. HasPv(p) => how'[p] = how[p]
    BY <1>1, <2>1
  <2>. QED  BY <2>1, <2>2, <2>3, <2>4, MovedKept, LeftKept, Zenon
<1>2. main'.ok => \A p \in Pod : result'[p] # "error"
  BY DEF Step, Volumes, Truthful
<1>. QED  BY <1>1, <1>2, ZenonT(60) DEF Truthful

LEMMA TruthReported ==
    ASSUME Step, NEW p \in Pod, NEW ok \in BOOLEAN, Send(p, ok), ser'.vols = ser.vols,
           \A q \in Pod : q # p => how'[q] = how[q],
           ok /\ node' /\ ~overdue' /\ env.mode # "force" => Moved(p)' /\ Left(p)'
    PROVE  Truthful'
<1>1. /\ result'[p] = IF ok THEN "ok" ELSE "error"
      /\ \A q \in Pod : q # p => result'[q] = result[q]
      /\ main'.ok => main.ok /\ ok
  BY StepTyped, SendFacts, Zenon
<1>2. ASSUME node', ~overdue', env'.mode # "force", NEW q \in Pod, result'[q] = "ok"
      PROVE  Moved(q)' /\ Left(q)'
  <2>1. CASE q = p
    <3>1. ok
      BY <1>1, <1>2, <2>1, Zenon
    <3>. QED  BY <1>2, <2>1, <3>1, StepTyped
  <2>2. CASE q # p
    <3>1. Moved(q) /\ Left(q)
      BY <1>1, <1>2, <2>2, Zenon DEF Step, Volumes, Truthful, Onwards
    <3>. QED  BY <2>2, <3>1, MovedKept, LeftKept, Zenon
  <2>. QED  BY <2>1, <2>2
<1>3. main'.ok => \A q \in Pod : result'[q] # "error"
  BY <1>1, Zenon DEF Step, Volumes, Truthful
<1>. QED  BY <1>2, <1>3 DEF Truthful

\* Only one pod was changed, and it does not break the order.
LEMMA OrderKept ==
    ASSUME Step, Busy \/ ser.at = "next", ser'.vols = ser.vols, NEW p \in Pod,
           ser.at = "detach" => p = Current,
           \A q \in Pod : q # p => how'[q] = how[q] /\ result'[q] = result[q],
           Answered(p)' =>
              \/ result'[p] = "error" \/ StillAttached(p)' = {}
              \/ ser'.at = "detach" /\ p = Current'
    PROVE  OneAtATime'
<1>1. ASSUME NEW q \in Pod, q # p, HasPv(q)', env'.mode # "force", Answered(q)'
      PROVE  result'[q] = "error" \/ StillAttached(q)' = {}
  <2>1. result[q] = "error" \/ StillAttached(q) = {}
    BY <1>1, StepTyped, Zenon DEF Step, Volumes, OneAtATime, Answered
  <2>. QED  BY <1>1, <2>1, AttachedLess, Zenon
<1>. QED  BY <1>1 DEF OneAtATime

LEMMA ProgressKept ==
    ASSUME Step, ser'.vols = ser.vols, ser'.pvs = ser.pvs /\ ser'.known = ser.known,
           ser'.at \in {"detach", "reattach"} => pod'[Current'] # "running",
           ser'.at = "reattach" => StillAttached(Current)' = {},
           ser'.at = "rest" /\ ser'.evict /\ ser'.queue # <<>> => ~node' \/ overdue'
    PROVE  Progress'
<1>1. \A p \in Pod : ser'.vols[p] \subseteq env'.vols[p] /\ ser'.pvs[p] \subseteq env'.vols[p]
  BY StepTyped DEF Step, Volumes, Progress
<1>2. ser'.at = "reattach" => (StillAttached(Current) = {})'
  OBVIOUS
<1>3. \A p \in Pod : Awaited(p)' = Awaited(p)
  BY StepTyped, Zenon DEF Awaited
<1>4. \A p \in Pod : Awaited(p)' \subseteq ser'.vols[p]
  BY <1>3, Zenon DEF Step, Volumes, Progress
<1>. QED  BY <1>1, <1>2, <1>4, Zenon DEF Progress

\* Of the pod that is worked on.
LEMMA CurrentPod ==
    ASSUME Step, Working
    PROVE  /\ Current \in Pod /\ HasPv(Current) /\ env.mode # "force" /\ result[Current] = "none"
           /\ ser.queue # <<>>
           /\ ser.at # "detach" /\ Answered(Current) => StillAttached(Current) = {}
<1>1. Core
  BY DEF Step, IInv
<1>2. /\ Current \in Pod /\ Current = ser.queue[1] /\ Len(ser.queue) \in Nat \ {0}
      /\ ser.queue # <<>>
  BY <1>1, CurrentFacts
<1>3. 1 \in 1..Len(ser.queue)
  BY <1>2
<1>4. Current \in Listed
  BY <1>2, <1>3 DEF Listed
<1>5. HasPv(Current) /\ env.mode # "force" /\ result[Current] = "none"
  BY <1>4 DEF Step, Pending
<1>6. ser.at # "detach" /\ Answered(Current) => StillAttached(Current) = {}
  BY <1>2, <1>5 DEF Step, Volumes, OneAtATime, Working
<1>. QED  BY <1>2, <1>5, <1>6

\* A pod is done with, and truthfully reported.
LEMMA VolumesDone ==
    ASSUME Step, Working, ser' = PodDone, NEW ok \in BOOLEAN, Send(Current, ok), UNCHANGED how,
           ok => /\ node /\ ~overdue => Moved(Current)
                 /\ Answered(Current) => StillAttached(Current) = {}
    PROVE  Volumes'
<1>1. PICK p \in Pod : p = Current
  BY CurrentPod, Zenon
<1>2. /\ ser'.at = "next" /\ ser'.vols = ser.vols /\ ser'.pvs = ser.pvs /\ ser'.known = ser.known
  BY CurrentPod, StepTyped, PodDoneFields, PodDoneVolumes
<1>3. Truthful'
  <2>1. ok /\ node' /\ ~overdue' /\ env.mode # "force" => Moved(p)'
    BY <1>1, <1>2, MovedKept, Zenon DEF Step, Onwards
  <2>2. ok => Left(p)
    BY <1>1, Zenon DEF Left
  <2>3. ok => Left(p)'
    BY <1>2, <2>2, LeftKept, Zenon
  <2>. QED  BY <1>1, <1>2, <2>1, <2>3, TruthReported, Zenon
<1>4. Progress'
  BY <1>2, ProgressKept
<1>5. OneAtATime'
  <2>1. /\ result'[p] = IF ok THEN "ok" ELSE "error"
        /\ \A q \in Pod : q # p => result'[q] = result[q]
    BY <1>1, StepTyped, SendFacts, Zenon
  <2>2. Answered(p)' => result'[p] = "error" \/ StillAttached(p)' = {}
    <3>1. Answered(p)' => Answered(p)
      BY Zenon DEF Answered
    <3>. QED  BY <1>1, <1>2, <2>1, <3>1, AttachedLess
  <2>3. Busy \/ ser.at = "next"
    BY DEF Working
  <2>. QED  BY <1>1, <1>2, <2>1, <2>2, <2>3, OrderKept, Zenon
<1>6. Seen'
  BY <1>2, Zenon DEF Seen
<1>. QED  BY <1>3, <1>4, <1>5, <1>6 DEF Volumes

LEMMA VolumesRetried ==
    ASSUME Step, Working, ser.at = "call", ser' = Retried, UNCHANGED <<main, result>>,
           UNCHANGED how \/ RemovedUnseen(Current, ser.evict)
    PROVE  Volumes'
<1>1. PICK p \in Pod : p = Current
  BY CurrentPod
<1>2. /\ ser'.at = "next" /\ ser'.vols = ser.vols /\ ser'.pvs = ser.pvs /\ ser'.known = ser.known
  BY CurrentPod, StepTyped, RetriedFields, RetriedVolumes
<1>7. /\ \A q \in Pod : q # p => how'[q] = how[q]
      /\ how'[p] = how[p] \/ how'[p] \in {"evictedUnseen", "deletedUnseen"}
  BY <1>1, StepTyped DEF RemovedUnseen, WorldTyped
<1>8. result[p] = "none"
  BY <1>1, CurrentPod
<1>3. Truthful'
  <2>1. \A q \in Pod : result[q] = "ok" => how'[q] = how[q]
    BY <1>7, <1>8
  <2>. QED  BY <1>2, <2>1, NothingReported, Zenon
<1>4. Progress'
  BY <1>2, ProgressKept
<1>5. OneAtATime'
  <2>3. Answered(p)' => Answered(p)
    BY <1>7 DEF Answered
  <2>1. Answered(p)' => StillAttached(p)' = {}
    BY <1>1, <1>2, <2>3, CurrentPod, AttachedLess
  <2>2. Busy \/ ser.at = "next"
    BY DEF Working
  <2>. QED  BY <1>1, <1>2, <1>7, <2>1, <2>2, OrderKept, Zenon
<1>6. Seen'
  BY <1>2 DEF Seen
<1>. QED  BY <1>3, <1>4, <1>5, <1>6 DEF Volumes

LEMMA VolumesGivenUp ==
    ASSUME Step, Working, ser' = FastTrack, Send(Current, TRUE), UNCHANGED how, ~node \/ overdue
    PROVE  Volumes'
<1>1. Current \in Pod /\ ser.queue # <<>>
  BY CurrentPod
<1>2. ser'.at = "rest" /\ ser'.vols = ser.vols /\ ser'.pvs = ser.pvs /\ ser'.known = ser.known
  BY <1>1, StepTyped, FastTrackFields, FastTrackLists
<1>3. ~node' \/ overdue'
  BY DEF Step, Onwards
<1>4. Truthful'
  BY <1>1, <1>2, <1>3, TruthReported, Zenon
<1>5. Progress'
  BY <1>2, <1>3, ProgressKept, Zenon
<1>6. OneAtATime' /\ Seen'
  BY <1>2 DEF OneAtATime, Seen, Busy
<1>. QED  BY <1>4, <1>5, <1>6 DEF Volumes

\* The pod is removed: its volumes were on the node until then.
LEMMA VolumesRemoved ==
    ASSUME Step, ser.at = "call", pod[Current] # "gone", Removed(Current, ser.evict),
           ser' = [ser EXCEPT !.at = "detach"], UNCHANGED <<main, result, vol, chan>>
    PROVE  Volumes'
<1>0. Working
  BY DEF Working, Busy
<1>1. PICK p \in Pod : p = Current
  BY <1>0, CurrentPod
<1>2. /\ ser'.at = "detach" /\ ser'.vols = ser.vols /\ ser'.pvs = ser.pvs /\ ser'.known = ser.known
      /\ ser'.queue = ser.queue
  BY StepTyped DEF SerialType
<1>3. Current' = p
  BY <1>1, <1>2 DEF Current
<1>4. pod'[p] # "running" /\ \A q \in Pod : q # p => how'[q] = how[q]
  BY <1>1, StepTyped DEF Removed, WorldTyped
<1>5. Truthful'
  <2>1. result[p] = "none"
    BY <1>0, <1>1, CurrentPod
  <2>2. \A q \in Pod : result[q] = "ok" => how'[q] = how[q]
    BY <1>4, <2>1
  <2>. QED  BY <1>2, <2>2, NothingReported, Zenon
<1>6. Progress'
  BY <1>2, <1>3, <1>4, ProgressKept
<1>7. OneAtATime'
  <2>1. Busy
    BY DEF Busy
  <2>. QED  BY <1>2, <1>3, <1>4, <2>1, OrderKept
<1>8. Seen'
  <2>1. \A v \in ser.pvs[p] : vol[v] = "here"
    BY <1>1 DEF Step, GoneFirst, Volumes, Progress
  <2>2. Announced(ser.pvs[Current])'
    BY <1>2, <1>3, <2>1 DEF Announced
  <2>. QED  BY <1>2, <2>2 DEF Seen
<1>. QED  BY <1>5, <1>6, <1>7, <1>8 DEF Volumes

\* All volumes have left: wait for them to come elsewhere.
LEMMA VolumesAwaited ==
    ASSUME Step, ser.at = "detach", StillAttached(Current) = {},
           ser' = [ser EXCEPT !.at = "reattach", !.waiting = ser.pvs[Current]],
           UNCHANGED <<main, result, how, pod, vol, chan>>
    PROVE  Volumes'
<1>0. Working
  BY DEF Working, Busy
<1>1. PICK p \in Pod : p = Current
  BY <1>0, CurrentPod
<1>. DEFINE w == ser.pvs[Current]
<1>2. ser' = [ser EXCEPT !.at = "reattach", !.waiting = w]
  OBVIOUS
<1>. HIDE DEF w
<1>3. /\ ser'.at = "reattach" /\ ser'.vols = ser.vols /\ ser'.pvs = ser.pvs /\ ser'.known = ser.known
      /\ ser'.queue = ser.queue /\ ser'.waiting = w
  BY <1>2, StepTyped, Zenon DEF SerialType
<1>4. Current' = p
  BY <1>1, <1>3 DEF Current
<1>5. StillAttached(p)' = {}
  BY <1>1, <1>3, AttachedLess
<1>6. Truthful'
  BY <1>3, NothingReported
<1>7. Progress'
  <2>1. pod'[p] # "running"
    BY <1>1 DEF Step, Volumes, Progress
  <2>2. StillAttached(Current)' = {}
    BY <1>4, <1>5 DEF StillAttached
  <2>. QED  BY <1>3, <1>4, <2>1, <2>2, ProgressKept
<1>8. OneAtATime'
  <2>1. Busy
    BY DEF Busy
  <2>. QED  BY <1>1, <1>3, <1>5, <2>1, OrderKept
<1>9. Seen'
  <2>1. Announced(w)
    BY DEF w, Step, Volumes, Seen
  <2>2. Announced(ser.waiting)'
    BY <1>3, <2>1, Zenon DEF Announced
  <2>. QED  BY <1>3, <2>2 DEF Seen
<1>. QED  BY <1>6, <1>7, <1>8, <1>9 DEF Volumes

\* An event is received: those that are still in the channel are of the other volumes.
LEMMA VolumesReceived ==
    ASSUME Step, ser.at = "reattach", chan.buf # <<>>, chan' = Received,
           ser' = [ser EXCEPT !.waiting = IF Head(chan.buf).attached
                                          THEN ser.waiting \ {Head(chan.buf).vol} ELSE ser.waiting],
           UNCHANGED <<main, result, how, pod, vol>>
    PROVE  Volumes'
<1>0. Working
  BY DEF Working, Busy
<1>1. PICK p \in Pod : p = Current
  BY <1>0, CurrentPod
<1>. DEFINE e == Head(chan.buf)
            w == IF e.attached THEN ser.waiting \ {e.vol} ELSE ser.waiting
<1>2. ser' = [ser EXCEPT !.waiting = w]
  OBVIOUS
<1>3. \A v \in w : v \in ser.waiting /\ e # [vol |-> v, attached |-> TRUE]
  OBVIOUS
<1>. HIDE DEF w
<1>4. /\ ser'.at = "reattach" /\ ser'.vols = ser.vols /\ ser'.pvs = ser.pvs /\ ser'.known = ser.known
      /\ ser'.queue = ser.queue /\ ser'.waiting = w
  BY <1>2, StepTyped DEF SerialType
<1>5. Current' = p
  BY <1>1, <1>4 DEF Current
<1>6. StillAttached(p)' = {}
  BY <1>1, <1>4, AttachedLess DEF Step, Volumes, Progress
<1>7. Truthful'
  BY <1>4, NothingReported
<1>8. Progress'
  <2>1. pod'[p] # "running"
    BY <1>1 DEF Step, Volumes, Progress
  <2>2. StillAttached(Current)' = {}
    BY <1>5, <1>6 DEF StillAttached
  <2>. QED  BY <1>4, <1>5, <2>1, <2>2, ProgressKept
<1>9. OneAtATime'
  <2>1. Busy
    BY DEF Busy
  <2>. QED  BY <1>1, <1>4, <1>6, <2>1, OrderKept
<1>10. Seen'
  <2>. DEFINE b == chan.buf  t == Tail(b)
  <2>1. b \in Seq(Event) /\ chan \in [open: BOOLEAN, buf: Seq(Event), lost: BOOLEAN]
    BY StepTyped DEF WorldTyped
  <2>2. /\ Len(b) \in Nat \ {0} /\ e = b[1] /\ Len(t) = Len(b) - 1
        /\ \A i \in 1..Len(t) : t[i] = b[i + 1]
    BY <2>1, HeadTailProperties, EmptySeq
  <2>3. chan' = [chan EXCEPT !.buf = t]
    BY DEF Received
  <2>. HIDE DEF b, t, e
  <2>4. chan'.buf = t /\ chan'.open = chan.open /\ chan'.lost = chan.lost
    BY <2>1, <2>3
  <2>5. ASSUME chan.open, ~chan.lost, NEW v \in w, vol[v] = "elsewhere"
        PROVE  \E i \in 1..Len(t) : t[i] = [vol |-> v, attached |-> TRUE]
    <3>1. PICK i \in 1..Len(b) : b[i] = [vol |-> v, attached |-> TRUE]
      BY <1>3, <2>5 DEF Step, Volumes, Seen, Announced, b
    <3>2. i # 1
      BY <1>3, <2>2, <3>1
    <3>3. i - 1 \in 1..Len(t) /\ (i - 1) + 1 = i
      BY <2>2, <3>2
    <3>4. t[i - 1] = b[i]
      BY <2>2, <3>3
    <3>. QED  BY <3>1, <3>3, <3>4
  <2>6. Announced(ser.waiting)'
    BY <1>4, <2>4, <2>5, Zenon DEF Announced
  <2>. QED  BY <1>4, <2>6 DEF Seen
<1>. QED  BY <1>7, <1>8, <1>9, <1>10 DEF Volumes

\* The next pod.
LEMMA VolumesTaken ==
    ASSUME Step, NextPod
    PROVE  Volumes'
<1>0. Working
  BY DEF NextPod, Working
<1>1. CASE overdue
  BY <1>0, <1>1, VolumesGivenUp, SMTT(30) DEF NextPod
<1>2. CASE ~overdue
  <2>1. ser' = [ser EXCEPT !.at = "call"] /\ UNCHANGED <<main, result, how>>
    BY <1>2 DEF NextPod, NoSend
  <2>2. PICK p \in Pod : p = Current
    BY <1>0, CurrentPod
  <2>3. ser'.at = "call" /\ ser'.vols = ser.vols /\ ser'.pvs = ser.pvs /\ ser'.known = ser.known
    BY <2>1, StepTyped DEF SerialType
  <2>7. Answered(p)' => Answered(p)
    BY <2>1, Zenon DEF Answered
  <2>4. Answered(p)' => StillAttached(p)' = {}
    BY <1>0, <2>1, <2>2, <2>3, <2>7, CurrentPod, AttachedLess DEF NextPod
  <2>5. OneAtATime'
    BY <2>1, <2>2, <2>3, <2>4, OrderKept DEF NextPod
  <2>6. Truthful' /\ Progress'
    BY <2>1, <2>3, NothingReported, ProgressKept
  <2>. QED  BY <2>3, <2>5, <2>6, SMTT(30) DEF Volumes, Seen
<1>. QED  BY <1>1, <1>2

LEMMA VolumesPass ==
    ASSUME Step, NextPass
    PROVE  Volumes'
<1>1. /\ UNCHANGED <<main, result, how>> /\ ser.at = "next"
      /\ ser'.vols = ser.vols /\ ser'.pvs = ser.pvs /\ ser'.known = ser.known /\ ser'.at \in {"rest", "next"}
      /\ ser'.at = "rest" => ser'.evict = ser.evict /\ (~ser'.evict \/ ser'.queue = <<>>)
  BY PassListed DEF NextPass, Step, IInv
<1>2. Truthful' /\ Progress'
  BY <1>1, NothingReported, ProgressKept, Zenon
<1>3. OneAtATime'
  <2>1. ASSUME NEW p \in Pod, HasPv(p)', env'.mode # "force", Answered(p)'
        PROVE  result'[p] = "error" \/ StillAttached(p)' = {}
    <3>2. Answered(p)
      BY <1>1, <2>1, Zenon DEF Answered
    <3>1. result[p] = "error" \/ StillAttached(p) = {}
      BY <1>1, <2>1, <3>2, StepTyped DEF Step, Volumes, OneAtATime
    <3>. QED  BY <1>1, <3>1, AttachedLess, Zenon
  <2>. QED  BY <2>1 DEF OneAtATime
<1>. QED  BY <1>1, <1>2, <1>3 DEF Volumes, Seen

LEMMA VolumesRest ==
    ASSUME Step, ReportRest
    PROVE  Volumes'
<1>1. CASE ser.queue = <<>>
  <2>1. /\ UNCHANGED <<main, result, how>> /\ ser' = [ser EXCEPT !.at = "end"]
    BY <1>1 DEF ReportRest, NoSend
  <2>2. ser'.at = "end" /\ ser'.vols = ser.vols /\ ser'.pvs = ser.pvs /\ ser'.known = ser.known
    BY <2>1, StepTyped DEF SerialType
  <2>3. Truthful' /\ Progress'
    BY <2>1, <2>2, NothingReported, ProgressKept, Zenon
  <2>. QED  BY <2>2, <2>3 DEF Volumes, Seen, OneAtATime, Busy
<1>2. CASE ser.queue # <<>>
  <2>1. /\ ser.at = "rest" /\ ser' = [ser EXCEPT !.queue = Tail(@)] /\ Send(Current, ser.evict)
    BY <1>2 DEF ReportRest
  <2>2. /\ Current \in Pod /\ ser'.at = "rest" /\ ser'.evict = ser.evict
        /\ ser'.vols = ser.vols /\ ser'.pvs = ser.pvs /\ ser'.known = ser.known
    BY <1>2, <2>1, RestLeaves DEF Step, IInv
  <2>3. ser.evict => ~node' \/ overdue'
    BY <1>2, <2>1 DEF Step, Volumes, Progress, Onwards
  <2>4. ser.evict \in BOOLEAN
    BY StepTyped DEF SerialType
  <2>7. UNCHANGED how
    BY DEF ReportRest
  <2>5. Truthful'
    BY <2>1, <2>2, <2>3, <2>4, <2>7, TruthReported
  <2>6. Progress'
    BY <2>2, <2>3, ProgressKept
  <2>. QED  BY <2>2, <2>5, <2>6 DEF Volumes, Seen, OneAtATime, Busy
<1>. QED  BY <1>1, <1>2

\* doAccountingOfPvs: no pod with volumes has been removed yet.
LEMMA VolumesAccounted ==
    ASSUME Step, evictPodsWithPv
    PROVE  Volumes'
<1>1. /\ UNCHANGED <<main, result, how>> /\ ser'.at \in {"next", "end"} /\ ser.at = "start"
      /\ \A p \in Pod : ser'.vols[p] \subseteq env.vols[p] /\ ser'.pvs[p] \subseteq env.vols[p]
      /\ \A p \in Pod : Awaited(p)' \subseteq ser'.vols[p]
  BY AccountedVolumes, Zenon DEF Step, IInv, evictPodsWithPv
<1>2. Truthful'
  BY <1>1, NothingReported
<1>3. Progress'
  BY <1>1, StepTyped, ZenonT(60) DEF Progress
<1>4. OneAtATime'
  BY <1>1, StepTyped DEF OneAtATime, Step, Pending, Answered
<1>. QED  BY <1>1, <1>2, <1>3, <1>4 DEF Volumes, Seen

LEMMA VolumesCall ==
    ASSUME Step, SerialCall
    PROVE  Volumes'
<1>0. Working /\ ser.at = "call"
  BY DEF SerialCall, Working, Busy
<1>1. CASE pod[Current] = "gone" /\ ser' = PodDone /\ Send(Current, TRUE) /\ NotRemoved
  BY <1>0, <1>1, CurrentPod, VolumesDone, Zenon DEF Moved, NotRemoved
<1>2. CASE /\ pod[Current] # "gone" /\ Removed(Current, ser.evict)
           /\ ser' = [ser EXCEPT !.at = "detach"] /\ NoSend /\ UNCHANGED <<vol, chan>>
  BY <1>0, <1>2, VolumesRemoved DEF NoSend
<1>3. CASE ser' = Retried /\ NoSend /\ (NotRemoved \/ RemovedUnseen(Current, ser.evict))
  BY <1>0, <1>3, VolumesRetried, Zenon DEF NoSend, NotRemoved
<1>. QED  BY <1>1, <1>2, <1>3, Zenon DEF SerialCall

LEMMA VolumesWaits ==
    ASSUME Step, DetachedInTree \/ Detached \/ NotDetached \/ ReceiveEvent \/ NotReattached
    PROVE  Volumes'
<1>0. Working /\ ser.at \in {"detach", "reattach"} /\ UNCHANGED <<how, pod, vol>>
  BY Zenon
     DEF DetachedInTree, Detached, NotDetached, ReceiveEvent, NotReattached, Working, Busy, world
<1>1. ASSUME StillAttached(Current) = {}, ser' = PodDone, Send(Current, TRUE)
      PROVE  Volumes'
  <2>1. Moved(Current)
    BY <1>0, <1>1, DetachedMoved
  <2>. QED  BY <1>0, <1>1, <2>1, VolumesDone, Zenon
<1>2. ser.vols[Current] = {} \/ DetachSeen => StillAttached(Current) = {}
  BY DEF StillAttached, DetachSeen
<1>3. ser.at = "reattach" => StillAttached(Current) = {}
  BY DEF Step, Volumes, Progress
<1>4. CASE DetachedInTree
  BY <1>1, <1>2, <1>4, Zenon DEF DetachedInTree
<1>5. CASE Detached
  <2>1. CASE ser.pvs[Current] = {}
    BY <1>1, <1>2, <1>5, <2>1 DEF Detached
  <2>2. CASE ser.pvs[Current] # {}
    BY <1>0, <1>2, <1>5, <2>2, VolumesAwaited, Zenon DEF Detached, NoSend
  <2>. QED  BY <2>1, <2>2
<1>6. CASE NotDetached
  <2>1. CASE ser' = PodDone /\ Send(Current, FALSE)
    BY <1>0, <2>1, VolumesDone, Zenon
  <2>2. CASE ~node /\ ser' = FastTrack /\ Send(Current, TRUE)
    BY <1>0, <2>2, VolumesGivenUp
  <2>. QED  BY <1>6, <2>1, <2>2, Zenon DEF NotDetached
<1>7. CASE ReceiveEvent
  <2>. DEFINE e == Head(chan.buf)
              w == IF e.attached THEN ser.waiting \ {e.vol} ELSE ser.waiting
  <2>1. CASE w = {}
    BY <1>1, <1>3, <1>7, <2>1 DEF ReceiveEvent
  <2>2. CASE w # {}
    BY <1>0, <1>7, <2>2, VolumesReceived, Zenon DEF ReceiveEvent, NoSend
  <2>. QED  BY <2>1, <2>2
<1>8. CASE NotReattached
  BY <1>1, <1>3, <1>8 DEF NotReattached
<1>. QED  BY <1>4, <1>5, <1>6, <1>7, <1>8

LEMMA VolumesSerialKept ==
    ASSUME Step, Serial
    PROVE  Volumes'
<1>1. CASE SerialRefused
  BY <1>1, VolumesRetried DEF SerialRefused, NoSend, Working, Busy
<1>2. CASE SerialBlocked
  BY <1>2, VolumesDone, Zenon DEF SerialBlocked, Working, Busy
<1>. QED  BY <1>1, <1>2, VolumesAccounted, VolumesPass, VolumesRest, VolumesTaken, VolumesCall,
             VolumesWaits, ZenonT(60) DEF Serial

\* The serial goroutine does not move.
LEMMA SerialWaits ==
    ASSUME Step, UNCHANGED ser
    PROVE  /\ Progress'
           /\ (\A p \in Pod : HasPv(p) /\ env.mode # "force" =>
                                  how'[p] = how[p] /\ result'[p] = result[p]) => OneAtATime'
<1>1. ser'.vols = ser.vols /\ Current' = Current
  BY Zenon DEF Current
<1>2. Progress'
  <2>1. ser.at \in {"detach", "reattach"} => Current \in Pod
    BY CurrentPod DEF Working, Busy
  <2>2. ser'.at \in {"detach", "reattach"} => pod'[Current'] # "running"
    BY <1>1, <2>1 DEF Step, Volumes, Progress, Onwards
  <2>3. ser'.at = "reattach" => StillAttached(Current)' = {}
    <3>1. ASSUME ser.at = "reattach" PROVE StillAttached(Current)' = {}
      <4>1. PICK p \in Pod : p = Current
        BY <2>1, <3>1, Zenon
      <4>2. StillAttached(p)' = {}
        BY <1>1, <3>1, <4>1, AttachedLess, ZenonT(60) DEF Step, Volumes, Progress
      <4>. QED  BY <1>1, <4>1, <4>2 DEF StillAttached
    <3>. QED  BY <3>1
  <2>4. ser'.at = "rest" /\ ser'.evict /\ ser'.queue # <<>> => ~node' \/ overdue'
    BY DEF Step, Volumes, Progress, Onwards
  <2>. QED  BY <2>2, <2>3, <2>4, ProgressKept, Zenon
<1>3. ASSUME \A p \in Pod : HasPv(p) /\ env.mode # "force" =>
                                how'[p] = how[p] /\ result'[p] = result[p],
             NEW p \in Pod, Busy' \/ ser'.at = "next", HasPv(p)', env'.mode # "force",
             Answered(p)'
      PROVE  \/ result'[p] = "error" \/ StillAttached(p)' = {}
             \/ ser'.at = "detach" /\ p = Current'
  <2>1. \/ result[p] = "error" \/ StillAttached(p) = {}
        \/ ser.at = "detach" /\ p = Current
    BY <1>3, StepTyped, Zenon DEF Step, Volumes, OneAtATime, Busy, Answered
  <2>. QED  BY <1>1, <1>3, <2>1, AttachedLess, StepTyped, Zenon
<1>. QED  BY <1>2, <1>3 DEF OneAtATime

\* Nothing but the world moves.
LEMMA VolumesWorld ==
    ASSUME Step, UNCHANGED <<main, ser, how, result>>, Seen'
    PROVE  Volumes'
BY SerialWaits, NothingReported, ZenonT(60) DEF Volumes

LEMMA SeenUnchanged ==
    ASSUME Step, UNCHANGED <<ser, vol, chan>>
    PROVE  Seen'
BY DEF Step, Volumes, Seen, Announced, Current

\* An attachment is put into the channel, or lost.
LEMMA AnnouncedKept ==
    ASSUME Step, NEW v \in Volume, Attaches(v), NEW vols \in SUBSET Volume, Announced(vols)
    PROVE  chan'.open /\ ~chan'.lost =>
               \A u \in vols : vol'[u] = "elsewhere" =>
                   \E i \in 1..Len(chan'.buf) : chan'.buf[i] = [vol |-> u, attached |-> TRUE]
<1>. DEFINE e == [vol |-> v, attached |-> vol'[v] = "elsewhere"]
            b == chan.buf
            longer == Append(b, e)
<1>1. /\ chan \in [open: BOOLEAN, buf: Seq(Event), lost: BOOLEAN] /\ b \in Seq(Event)
      /\ vol \in [Volume -> {"here", "detached", "attaching", "elsewhere"}]
  BY StepTyped, Zenon DEF WorldTyped
<1>2. e \in Event /\ chan' = dispatch(e)
  BY DEF Attaches, Event
<1>3. \A u \in Volume : u # v => vol'[u] = vol[u]
  BY <1>1 DEF Attaches
<1>4. vol'[v] = "elsewhere" => e = [vol |-> v, attached |-> TRUE]
  BY ZenonT(60)
<1>5. /\ Len(b) \in Nat /\ Len(longer) = Len(b) + 1 /\ longer[Len(b) + 1] = e
      /\ \A i \in 1..Len(b) : longer[i] = b[i]
  <2>1. Len(b) \in Nat
    BY <1>1, LenProperties, Zenon
  <2>2. /\ Len(longer) = Len(b) + 1 /\ longer[Len(b) + 1] = e
        /\ \A i \in 1..Len(b) : longer[i] = b[i]
    <3>1. b \in Seq(Event) /\ e \in Event
      BY <1>1, <1>2, Zenon
    <3>. HIDE DEF b, e
    <3>. QED  BY <3>1, AppendProperties
  <2>. QED  BY <2>1, <2>2, Zenon
<1>6. \/ ~chan.open /\ chan' = chan
      \/ chan' = [chan EXCEPT !.buf = longer]
      \/ chan' = [chan EXCEPT !.lost = TRUE]
  BY <1>2 DEF dispatch
<1>. HIDE DEF longer, e, b
<1>7. chan'.open /\ ~chan'.lost => chan'.buf = longer /\ chan.open /\ ~chan.lost
  BY <1>1, <1>6
<1>8. ASSUME chan'.open, ~chan'.lost, NEW u \in vols, vol'[u] = "elsewhere"
      PROVE  \E i \in 1..Len(longer) : longer[i] = [vol |-> u, attached |-> TRUE]
  <2>1. CASE u = v
    <3>1. Len(b) + 1 \in 1..Len(longer)
      BY <1>5, LastOf, Zenon
    <3>. QED  BY <1>4, <1>5, <1>8, <2>1, <3>1, Zenon
  <2>2. CASE u # v
    <3>1. PICK i \in 1..Len(b) : b[i] = [vol |-> u, attached |-> TRUE]
      BY <1>3, <1>7, <1>8, <2>2 DEF Announced, b
    <3>2. i \in 1..Len(longer)
      BY <1>5, LastOf, Zenon
    <3>. QED  BY <1>5, <3>1, <3>2, ZenonT(60)
  <2>. QED  BY <2>1, <2>2, Zenon
<1>. QED  BY <1>7, <1>8, Zenon

LEMMA VolumesOthers ==
    ASSUME Step, Others \/ UNCHANGED vars
    PROVE  Volumes'
<1>1. UNCHANGED <<main, ser, how, result>>
  BY Zenon
     DEF Others, Terminates, DeletedByOthers, Detaches, Attaches, NodeLost, DeadlinePasses, vars
<1>2. \/ UNCHANGED <<vol, chan>>
      \/ \E v \in Volume : Detaches(v) \/ Attaches(v)
  BY DEF Others, Terminates, DeletedByOthers, NodeLost, DeadlinePasses, vars
<1>3. CASE UNCHANGED <<vol, chan>>
  BY <1>1, <1>3, SeenUnchanged, VolumesWorld
<1>4. ser.waiting \in SUBSET Volume /\ (ser.at = "detach" => ser.pvs[Current] \in SUBSET Volume)
  BY StepTyped, CurrentPod, Zenon DEF SerialType, Working, Busy
<1>5. ASSUME NEW v \in Volume, Detaches(v) PROVE Volumes'
  <2>1. chan' = chan /\ \A u \in Volume : vol'[u] = "elsewhere" => vol[u] = "elsewhere"
    BY <1>5, StepTyped, ZenonT(60) DEF Detaches, WorldTyped
  <2>2. Seen'
    BY <1>1, <1>4, <2>1, Zenon DEF Step, Volumes, Seen, Announced, Current
  <2>. QED  BY <1>1, <2>2, VolumesWorld, ZenonT(60)
<1>6. ASSUME NEW v \in Volume, Attaches(v) PROVE Volumes'
  <2>1. ASSUME ser.at = "detach" PROVE Announced(ser.pvs[Current])'
    <3>1. PICK now \in SUBSET Volume : now = ser.pvs[Current]
      BY <1>4, <2>1
    <3>2. Announced(now)
      BY <2>1, <3>1 DEF Step, Volumes, Seen
    <3>3. (ser.pvs[Current])' = now
      BY <1>1, <3>1 DEF Current
    <3>. QED  BY <1>6, <3>2, <3>3, AnnouncedKept, Zenon DEF Announced
  <2>2. ASSUME ser.at = "reattach" PROVE Announced(ser.waiting)'
    <3>1. PICK now \in SUBSET Volume : now = ser.waiting
      BY <1>4
    <3>2. Announced(now)
      BY <2>2, <3>1 DEF Step, Volumes, Seen
    <3>. QED  BY <1>1, <1>6, <3>1, <3>2, AnnouncedKept, Zenon DEF Announced
  <2>3. Seen'
    BY <1>1, <2>1, <2>2 DEF Seen
  <2>. QED  BY <1>1, <2>3, VolumesWorld
<1>. QED  BY <1>2, <1>3, <1>5, <1>6

LEMMA VolumesParallel ==
    ASSUME Step, NEW p \in Pod, Parallel(p)
    PROVE  Volumes'
<1>1. ParallelResult(p) /\ par[p].at # "off"
  BY ParallelStepResult, ZenonT(60) DEF Step, IInv, ParallelResult
<1>2. env.mode # "force" => ~HasPv(p)
  BY <1>1 DEF Step, Pending
<1>3. /\ UNCHANGED <<ser, vol, chan>>
      /\ \A q \in Pod : q # p => how'[q] = how[q] /\ result'[q] = result[q]
  BY <1>1, StepTyped, SendFacts, Zenon DEF ParallelResult
<1>4. Truthful'
  <2>1. CASE UNCHANGED <<main, result>>
    BY <1>2, <1>3, <2>1, NothingReported
  <2>2. ASSUME NEW ok \in BOOLEAN, Send(p, ok), ok /\ env.mode # "force" => pod'[p] = "gone"
        PROVE  Truthful'
    <3>1. env.mode # "force" => Left(p)'
      BY <1>2, StepTyped, Zenon DEF Left
    <3>. QED  BY <1>3, <2>2, <3>1, TruthReported, ZenonT(60) DEF Moved
  <2>. QED  BY <1>1, <2>1, <2>2, Zenon DEF ParallelResult
<1>5. OneAtATime' /\ Progress' /\ Seen'
  BY <1>2, <1>3, SerialWaits, SeenUnchanged
<1>. QED  BY <1>4, <1>5, Zenon DEF Volumes

LEMMA VolumesCaller ==
    ASSUME Step, Fresh, Caller
    PROVE  Volumes'
<1>1. Core /\ main \in [at: {"cordon", "list", "wait", "done"}, pods: Nat, count: Nat, ok: BOOLEAN]
  BY DEF Step, IInv, Core, CoreTyped
<1>2. CASE evictPods /\ PodsForDeletion # {}
  <2>1. /\ UNCHANGED <<result, how>> /\ ser'.at \in {"off", "start"} /\ main'.ok = main.ok
    BY <1>1, <1>2, ListTaken, Zenon
  <2>2. ser'.vols = ser.vols /\ ser'.pvs = ser.pvs /\ ser'.known = ser.known
    BY <1>2, StepTyped, Zenon DEF evictPods, SerialType
  <2>3. Truthful' /\ Progress'
    BY <2>1, <2>2, NothingReported, ProgressKept, Zenon
  <2>. QED  BY <2>1, <2>3, Zenon DEF Volumes, Seen, OneAtATime, Busy
<1>3. CASE ~(evictPods /\ PodsForDeletion # {})
  <2>1. UNCHANGED <<ser, result, how, vol, chan>>
    BY <1>1, <1>3, CallerReturns
  <2>2. main'.ok => (main.ok \/ \A p \in Pod : result[p] = "none")
    BY <1>1, <1>3, CallerReturns, Zenon DEF Fresh, Return
  <2>3. Truthful' /\ Progress' /\ OneAtATime' /\ Seen'
    BY <2>1, <2>2, NothingReported, SerialWaits, SeenUnchanged
  <2>. QED  BY <2>3 DEF Volumes
<1>. QED  BY <1>2, <1>3, SMTT(30)

-----------------------------------------------------------------------------
(* The invariant, and what it says of a state and of a step *)

LEMMA InitV ==
    ASSUME Counting, Init
    PROVE  VInv
<1>1. /\ main = Waiting /\ ser = NoSerial /\ \A p \in Pod : par[p] = NoGoroutine
      /\ \A p \in Pod : how[p] = "none" /\ result[p] = "none" /\ pod[p] = "running"
      /\ (\A v \in Volume : vol[v] = "here") /\ env.vols \in [Pod -> SUBSET Volume]
  BY InitInv, EnvTyped DEF Init, IInv, Core
<1>2. Len(ser.queue) = 0 /\ Len(ser.retry) = 0 /\ ser.at = "off"
  BY <1>1, EmptySeq, ZenonT(60) DEF NoSerial
<1>3. \A p \in Pod : par[p].at = "off"
  <2>1. NoGoroutine.at = "off"
    BY DEF NoGoroutine
  <2>. QED  BY <1>1, <2>1, Zenon
<1>4. Listed = {} /\ InParallel = {}
  <2>1. 1..0 = {}
    OBVIOUS
  <2>. QED  BY <1>2, <1>3, <2>1, Zenon DEF Listed, InParallel
<1>5. Fresh /\ Counted
  BY <1>1, <1>4, Zenon DEF Fresh, Counted, Waiting
<1>6. Pending
  BY <1>1, <1>2, <1>3, <1>4, Zenon DEF Pending
<1>7. GoneFirst /\ Truthful
  BY <1>1 DEF GoneFirst, Truthful
<1>8. Progress
  <2>1. \A p \in Pod : Awaited(p) = {}
    BY <1>1, Zenon DEF Awaited, NoSerial
  <2>. QED  BY <1>1, <1>2, <2>1, ZenonT(60) DEF Progress, NoSerial
<1>9. OneAtATime /\ Seen
  BY <1>2 DEF OneAtATime, Seen, Busy
<1>. QED  BY <1>5, <1>6, <1>7, <1>8, <1>9, ZenonT(60) DEF VInv

LEMMA NextV ==
    ASSUME IInv, IInv', VInv, [Next]_vars
    PROVE  VInv'
<1>1. Onwards /\ Step
  BY StepsOnwards DEF Step, VInv, Volumes
<1>2. Volumes'
  <2>1. ASSUME NEW p \in Pod, Parallel(p) PROVE Volumes'
    BY <1>1, <2>1, VolumesParallel
  <2>. QED  BY <1>1, <2>1, VolumesCaller, VolumesSerialKept, VolumesOthers DEF Next, VInv
<1>3. Fresh' /\ Pending' /\ Counted' /\ GoneFirst'
  BY FreshKept, PendingKept, CountedKept, GoneFirstKept, ZenonT(60) DEF VInv
<1>. QED  BY <1>2, <1>3 DEF VInv, Volumes

\* The drain waits for the volumes it has accounted for.
LEMMA AwaitedLeft ==
    ASSUME VInv, NEW p \in Pod, StillAttached(p) = {}
    PROVE  \A v \in Awaited(p) : vol[v] # "here"
BY Zenon DEF VInv, Progress, StillAttached

LEMMA MovedAll == IInv /\ VInv => DrainedMeansMoved
<1>. SUFFICES ASSUME IInv, VInv, main.at = "done", main.ok, main.pods > 0, node, ~overdue,
                     env.mode # "force", NEW p \in Pod \ env.kept
              PROVE  /\ \/ pod[p] = "gone"
                        \/ HasPv(p) /\ pod[p] = "terminating" /\ Awaited(p) = {}
                     /\ result[p] = "ok" /\ Answered(p) => \A v \in Awaited(p) : vol[v] # "here"
  BY DEF DrainedMeansMoved
<1>1. PICK pods \in SUBSET Pod : CountsPods(pods)
  <2>1. main.pods # 0
    BY PositiveNonzero, Zenon
  <2>. QED  BY <2>1, Zenon DEF VInv, Counted
<1>2. p \in pods => result[p] \in {"ok", "error"}
  BY <1>1 DEF CountsPods, Reported, IInv, Core, CoreTyped
<1>3. p \notin pods => pod[p] = "gone" /\ result[p] = "none"
  BY <1>1, Zenon DEF CountsPods, Reported
<1>4. p \in pods => Moved(p) /\ Left(p)
  BY <1>2, Zenon DEF VInv, Truthful
<1>5. Awaited(p) \subseteq ser.vols[p]
  BY Zenon DEF VInv, Progress
<1>6. result[p] = "ok" /\ Answered(p) => \A v \in Awaited(p) : vol[v] # "here"
  <2>1. ~HasPv(p) => Awaited(p) = {}
    BY Zenon DEF HasPv, Awaited
  <2>. QED  BY <1>3, <1>4, <2>1, AwaitedLeft, Zenon DEF Left
<1>7. pod[p] = "gone" \/ (HasPv(p) /\ pod[p] = "terminating" /\ Awaited(p) = {})
  BY <1>3, <1>4, <1>5, Zenon DEF Moved
<1>. QED  BY <1>6, <1>7, Zenon

LEMMA AllSeen == IInv /\ VInv => ReattachmentSeen
<1>1. IInv => chan.buf \in Seq(Event)
  BY DEF IInv, WorldTyped
<1>2. IInv => DOMAIN chan.buf = 1..Len(chan.buf)
  BY <1>1, LenProperties
<1>. QED  BY <1>2, Zenon DEF VInv, Seen, Announced, ReattachmentSeen

\* What VolumesSerial says of a step.
InOrder ==
    \A p \in Pod : HasPv(p) /\ env.mode # "force" /\ how[p] = "none" /\ how'[p] # "none" =>
        \A q \in Pod \ {p} : Answered(q) =>
            result[q] = "error" \/ \A v \in Awaited(q) : vol[v] # "here"

LEMMA RemovedInOrder ==
    ASSUME IInv, VInv, [Next]_vars
    PROVE  InOrder
<1>1. CASE UNCHANGED how
  BY <1>1 DEF InOrder
<1>2. ASSUME NEW p \in Pod, Parallel(p) PROVE InOrder
  <2>1. ParallelResult(p) /\ par[p].at # "off"
    BY <1>2, ParallelStepResult, Zenon DEF IInv, ParallelResult
  <2>2. env.mode # "force" => ~HasPv(p)
    BY <2>1, Zenon DEF VInv, Pending
  <2>. QED  BY <2>1, <2>2, Zenon DEF ParallelResult, InOrder
<1>3. CASE SerialCall
  <2>1. ser.at = "call" /\ Busy
    BY <1>3, Zenon DEF SerialCall, Busy
  <2>2. ASSUME NEW q \in Pod, Answered(q), env.mode # "force", ~(result[q] = "error")
        PROVE  \A v \in Awaited(q) : vol[v] # "here"
    <3>1. CASE HasPv(q)
      <4>1. StillAttached(q) = {}
        BY <2>1, <2>2, <3>1 DEF VInv, OneAtATime
      <4>. QED  BY <4>1, AwaitedLeft
    <3>2. CASE ~HasPv(q)
      BY <3>2, Zenon DEF HasPv, Awaited
    <3>. QED  BY <3>1, <3>2
  <2>. QED  BY <2>2, Zenon DEF InOrder
<1>4. \/ \E p \in Pod : Parallel(p)
      \/ SerialCall
      \/ UNCHANGED how
  <2>1. Caller => UNCHANGED how
    BY Zenon DEF Caller, Cordon, SkipNode, evictPods, ListFails, AllReported
  <2>2. Serial => SerialCall \/ UNCHANGED how
    BY Zenon
       DEF Serial, evictPodsWithPv, NextPass, ReportRest, NextPod, SerialRefused, SerialBlocked,
           DetachedInTree, Detached, NotDetached, ReceiveEvent, NotReattached
  <2>3. Others => UNCHANGED how
    BY Zenon DEF Others, Terminates, DeletedByOthers, Detaches, Attaches, NodeLost, DeadlinePasses
  <2>4. UNCHANGED vars => UNCHANGED how
    BY DEF vars
  <2>. QED  BY <2>1, <2>2, <2>3, <2>4 DEF Next
<1>. QED  BY <1>1, <1>2, <1>3, <1>4

-----------------------------------------------------------------------------
\* The theorems on finite sets are needed from here on only.
INSTANCE FiniteSetTheorems

LEMMA CountingHolds == Counting
<1>. SUFFICES ASSUME NEW s \in SUBSET Pod
              PROVE  /\ Cardinality(s) \in Nat /\ (s = {} => Cardinality(s) = 0)
                     /\ \A p \in s : Cardinality(s \ {p}) = Cardinality(s) - 1
                     /\ \A p \in Pod \ s : Cardinality(s \cup {p}) = Cardinality(s) + 1
                     /\ \A t \in SUBSET s : /\ Cardinality(s \ t) = Cardinality(s) - Cardinality(t)
                                            /\ Cardinality(t) = Cardinality(s) => t = s
  BY Zenon DEF Counting
<1>1. IsFiniteSet(s)
  BY FiniteAssumption, FS_Subset
<1>2. Cardinality(s) \in Nat /\ (s = {} => Cardinality(s) = 0)
  BY <1>1, FS_CardinalityType, FS_EmptySet, ZenonT(60)
<1>3. \A p \in s : Cardinality(s \ {p}) = Cardinality(s) - 1
  BY <1>1, FS_RemoveElement, ZenonT(60)
<1>4. \A p \in Pod \ s : Cardinality(s \cup {p}) = Cardinality(s) + 1
  BY <1>1, FS_AddElement
<1>5. ASSUME NEW t \in SUBSET s
      PROVE  /\ Cardinality(s \ t) = Cardinality(s) - Cardinality(t)
             /\ Cardinality(t) = Cardinality(s) => t = s
  <2>1. s \cap t = t
    OBVIOUS
  <2>2. Cardinality(s \ t) = Cardinality(s) - Cardinality(s \cap t)
    BY <1>1, FS_Difference, SMTT(30)
  <2>. QED  BY <1>1, <2>1, <2>2, FS_Subset, ZenonT(60)
<1>. QED  BY <1>2, <1>3, <1>4, <1>5

LEMMA Reachable == Spec => [](IInv /\ VInv)
<1>1. Init => IInv /\ VInv
  BY CountingHolds, InitInv, InitV, ZenonT(60)
<1>2. IInv /\ VInv /\ [Next]_vars => IInv' /\ VInv'
  BY NextInv, NextV
<1>. QED  BY <1>1, <1>2, PTL DEF Spec

\* Through all retries, timeouts and the fast track, evictPods gets exactly one result for
\* every pod it waits for (drain.go:470-500).
THEOREM EveryPodReported == Spec => []ResultsAccounted
BY Reachable, ReportsOwed, PTL

\* A pod is deleted past its disruption budget only after exactly MaxEvictRetries evictions
\* of it have failed (drain.go:603, 981).
THEOREM BudgetKept == Spec => BudgetRespected
<1>. DEFINE Last == \A p \in Pod :
                       env.mode = "evict" /\ how[p] = "none" /\ how'[p] \in {"deleted", "deletedUnseen"} =>
                           refused[p] = env.retries
<1>1. IInv /\ [Next]_vars => [Last]_vars
  BY DeletedLast
<1>. QED  BY <1>1, Reachable, PTL DEF Spec, BudgetRespected

\* RunDrain returns without error only when every pod is gone, or is on its way and has only
\* volumes that the drain does not wait for (of several pods, or not found), and when all other
\* volumes of the pods it removed have left the node (drain.go:207, 470, 809-813): all results
\* have been counted, each is of a different pod, none is an error, and each says that its pod
\* has moved and its volumes have left.
THEOREM MovedWhenDrained == Spec => []DrainedMeansMoved
BY Reachable, MovedAll, PTL

\* While a reattachment is waited for, it has not been announced already and missed
\* (drain.go:669): the volumes of the pod are on the node until it is removed, and all
\* attachments since then are in the channel of the worker or have been received.
THEOREM NoneMissed == Spec => []ReattachmentSeen
BY Reachable, AllSeen, PTL

\* A pod with volumes is removed only when, of every pod the drain knows it removed before, all
\* volumes that were found and that no other pod uses have left the node, or the wait for them
\* was given up with an error (drain.go:667-730): it is removed by the serial goroutine only,
\* when no other pod is in between.
THEOREM OneAfterTheOther == Spec => VolumesSerial
<1>1. IInv /\ VInv /\ [Next]_vars => [InOrder]_vars
  BY RemovedInOrder
<1>. QED  BY <1>1, Reachable, PTL DEF Spec, VolumesSerial, InOrder
==============================================================================
