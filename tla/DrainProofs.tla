----------------------------- MODULE DrainProofs -----------------------------
(***************************************************************************)
(* The inductive invariant IInv of Drain: the types, the results that are  *)
(* still owed to the caller, and the refusals of every pod in the lists of *)
(* the serial goroutine.  DrainVolumeProofs draws the conclusions.         *)
(***************************************************************************)
EXTENDS Drain, TLAPS

-----------------------------------------------------------------------------
(* Sequences and numbers of pods *)

LEMMA EmptySeq ==
    ASSUME NEW S
    PROVE  /\ <<>> \in Seq(S) /\ Len(<<>>) = 0
           /\ \A s \in Seq(S) : s # <<>> => Len(s) \in Nat \ {0}
OBVIOUS

LEMMA LenProperties ==
    ASSUME NEW S, NEW s \in Seq(S)
    PROVE  Len(s) \in Nat /\ s \in [1..Len(s) -> S] /\ DOMAIN s = 1..Len(s)
OBVIOUS

LEMMA ElementOfSeq ==
    ASSUME NEW S, NEW s \in Seq(S), NEW n \in 1..Len(s)
    PROVE  s[n] \in S
OBVIOUS

LEMMA HeadTailProperties ==
    ASSUME NEW S, NEW s \in Seq(S), s # <<>>
    PROVE  /\ Head(s) \in S /\ Tail(s) \in Seq(S) /\ Len(Tail(s)) = Len(s) - 1
           /\ \A i \in 1..Len(Tail(s)) : Tail(s)[i] = s[i + 1]
OBVIOUS

LEMMA AppendProperties ==
    ASSUME NEW S, NEW s \in Seq(S), NEW e \in S
    PROVE  /\ Append(s, e) \in Seq(S) /\ Append(s, e) # <<>> /\ Len(Append(s, e)) = Len(s) + 1
           /\ \A i \in 1..Len(s) : Append(s, e)[i] = s[i]
           /\ Append(s, e)[Len(s) + 1] = e
OBVIOUS

LEMMA ConcatProperties ==
    ASSUME NEW S, NEW s \in Seq(S), NEW t \in Seq(S)
    PROVE  /\ s \o t \in Seq(S) /\ Len(s \o t) = Len(s) + Len(t)
           /\ \A i \in 1..(Len(s) + Len(t)) :
                 (s \o t)[i] = IF i <= Len(s) THEN s[i] ELSE t[i - Len(s)]
OBVIOUS

\* What the proofs need to know of numbers of pods; it is shown in DrainVolumeProofs.
Counting ==
    \A s \in SUBSET Pod :
        /\ Cardinality(s) \in Nat /\ (s = {} => Cardinality(s) = 0)
        /\ \A p \in s : Cardinality(s \ {p}) = Cardinality(s) - 1
        /\ \A p \in Pod \ s : Cardinality(s \cup {p}) = Cardinality(s) + 1
        /\ \A t \in SUBSET s : /\ Cardinality(s \ t) = Cardinality(s) - Cardinality(t)
                               /\ Cardinality(t) = Cardinality(s) => t = s

-----------------------------------------------------------------------------
(* The invariant *)

SerialType ==
    [at: {"off", "start", "next", "call", "detach", "reattach", "rest", "end"},
     queue: Seq(Pod), retry: Seq(Pod), round: Nat, evict: BOOLEAN,
     vols: [Pod -> SUBSET Volume], pvs: [Pod -> SUBSET Volume], waiting: SUBSET Volume,
     known: SUBSET Pod]

GoroutineType == [at: {"off", "call", "wait", "end"}, tries: 0..env.retries]

\* What the goroutines and the caller share.
CoreTyped ==
    /\ Counting
    /\ env \in Scenarios
    /\ main \in [at: {"cordon", "list", "wait", "done"}, pods: Nat, count: Nat, ok: BOOLEAN]
    /\ ser \in SerialType
    /\ par \in [Pod -> GoroutineType]
    /\ result \in [Pod -> {"none", "ok", "error"}]
    /\ refused \in [Pod -> 0..env.retries]

\* The rest of the state.
WorldTyped ==
    /\ node \in BOOLEAN /\ overdue \in BOOLEAN
    /\ pod \in [Pod -> {"running", "terminating", "gone"}]
    /\ vol \in [Volume -> {"here", "detached", "attaching", "elsewhere"}]
    /\ chan \in [open: BOOLEAN, buf: Seq(Event), lost: BOOLEAN] /\ Len(chan.buf) <= ChanSize
    /\ how \in [Pod -> Removals]
    /\ faults \in 0..env.maxFaults

\* Before the list no goroutine runs.
Idle ==
    main.at \in {"cordon", "list"} =>
        /\ ser = NoSerial /\ par = [p \in Pod |-> NoGoroutine]
        /\ main.count = 0 /\ refused = [p \in Pod |-> 0]

\* evictPodsWithPVInternal is busy with the first pod of its list.
Busy == ser.at \in {"call", "detach", "reattach"}

Held == Busy => ser.queue # <<>>

\* It has a pod to work on.
Working == Busy \/ (ser.at = "next" /\ ser.queue # <<>>)

\* The two conjuncts of ResultsAccounted besides the types.
Accounted ==
    Retries => /\ main.at = "wait" => main.count + Owed = main.pods
               /\ main.at = "done" => Owed = 0

Distinct(s) == \A i, j \in 1..Len(s) : i # j => s[i] # s[j]

\* The goroutines without volumes have none of the pods of the serial one.
Apart(s) == \A i \in 1..Len(s) : par[s[i]].at = "off"

Refusals(s, n) == \A i \in 1..Len(s) : refused[s[i]] = n

\* No pod is twice in the lists, and in each evict pass every pod is refused once before it
\* comes to the next one.
InPass ==
    /\ Distinct(ser.queue) /\ Apart(ser.queue)
    /\ Distinct(ser.retry) /\ Apart(ser.retry)
    /\ \A i \in 1..Len(ser.queue), j \in 1..Len(ser.retry) : ser.queue[i] # ser.retry[j]
    /\ ser.evict => /\ env.mode = "evict" /\ ser.round \in 1..env.retries
                    /\ Refusals(ser.queue, ser.round - 1)
                    /\ Refusals(ser.retry, ser.round)
    /\ ~ser.evict /\ env.mode = "evict" => Refusals(ser.queue, env.retries)

Passes ==
    /\ ser.at = "start" =>
          /\ Distinct(ser.queue) /\ Apart(ser.queue) /\ Refusals(ser.queue, 0)
          /\ ser.retry = <<>>
    /\ Busy \/ ser.at = "next" => InPass

Tries == \A p \in Pod : par[p].at = "call" => refused[p] = par[p].tries

Core == CoreTyped /\ Idle /\ Held /\ Accounted /\ Passes /\ Tries

IInv == WorldTyped /\ Core

-----------------------------------------------------------------------------
(* Types *)

\* A step that leaves the lists and what is said of their pods alone.
LEMMA PassKept ==
    ASSUME InPass, UNCHANGED <<env, par, refused>>, ser'.queue = ser.queue,
           ser'.retry = ser.retry, ser'.round = ser.round, ser'.evict = ser.evict
    PROVE  InPass'
<1>1. /\ Distinct(ser.queue)' /\ Distinct(ser.retry)'
      /\ (\A i \in 1..Len(ser.queue), j \in 1..Len(ser.retry) : ser.queue[i] # ser.retry[j])'
  BY DEF InPass, Distinct
<1>2. Apart(ser.queue)' /\ Apart(ser.retry)'
  BY DEF InPass, Apart
<1>3. ASSUME NEW n
      PROVE  /\ Refusals(ser.queue, n) =>
                   \A i \in 1..Len(ser'.queue) : refused'[ser'.queue[i]] = n
             /\ Refusals(ser.retry, n) =>
                   \A i \in 1..Len(ser'.retry) : refused'[ser'.retry[i]] = n
  BY DEF Refusals
<1>4. (ser.evict => /\ env.mode = "evict" /\ ser.round \in 1..env.retries
                    /\ Refusals(ser.queue, ser.round - 1)
                    /\ Refusals(ser.retry, ser.round))'
  BY <1>3 DEF InPass, Refusals
<1>5. (~ser.evict /\ env.mode = "evict" => Refusals(ser.queue, env.retries))'
  BY <1>3 DEF InPass, Refusals
<1>. QED  BY <1>1, <1>2, <1>4, <1>5, Zenon DEF InPass

LEMMA TypesSplit == CoreTyped /\ WorldTyped => TypeOK
BY Zenon DEF TypeOK, CoreTyped, WorldTyped, SerialType, GoroutineType

LEMMA EnvTyped ==
    ASSUME CoreTyped
    PROVE  /\ env.retries \in Nat /\ env.maxFaults \in Nat /\ env.mode \in Modes
           /\ env.inTree \in BOOLEAN /\ env.csi \in BOOLEAN /\ env.kept \subseteq Pod
           /\ env.vols \in [Pod -> SUBSET Volume]
BY ScenariosAssumption DEF CoreTyped, Scenario

LEMMA PodDoneFields ==
    ASSUME ser \in SerialType, ser.queue # <<>>
    PROVE  /\ PodDone \in SerialType
           /\ PodDone.at = "next" /\ PodDone.queue = Tail(ser.queue)
           /\ PodDone.retry = ser.retry /\ PodDone.round = ser.round
           /\ PodDone.evict = ser.evict
BY HeadTailProperties, Zenon DEF SerialType, PodDone

LEMMA RetriedFields ==
    ASSUME ser \in SerialType, ser.queue # <<>>
    PROVE  /\ Retried \in SerialType
           /\ Retried.at = "next" /\ Retried.queue = Tail(ser.queue)
           /\ Retried.retry = Append(ser.retry, Current) /\ Retried.round = ser.round
           /\ Retried.evict = ser.evict
<1>. DEFINE d == PodDone
            again == Append(ser.retry, Current)
<1>1. Current \in Pod
  BY HeadTailProperties DEF SerialType, Current
<1>2. again \in Seq(Pod)
  BY <1>1, AppendProperties DEF SerialType
<1>3. /\ d \in SerialType /\ d.at = "next" /\ d.queue = Tail(ser.queue)
      /\ d.retry = ser.retry /\ d.round = ser.round /\ d.evict = ser.evict
  BY PodDoneFields
<1>4. Retried = [d EXCEPT !.retry = again]
  BY <1>3 DEF Retried
<1>. HIDE DEF d, again
<1>5. /\ Retried \in SerialType /\ Retried.at = "next" /\ Retried.queue = Tail(ser.queue)
      /\ Retried.retry = again /\ Retried.round = ser.round /\ Retried.evict = ser.evict
  BY <1>2, <1>3, <1>4, Zenon DEF SerialType
<1>. QED  BY <1>5 DEF again

LEMMA FastTrackFields ==
    ASSUME ser \in SerialType, ser.queue # <<>>
    PROVE  /\ FastTrack \in SerialType /\ FastTrack.at = "rest"
           /\ Len(FastTrack.queue) = Len(ser.retry) + Len(ser.queue) - 1
           /\ Len(FastTrack.retry) = 0
<1>1. Tail(ser.queue) \in Seq(Pod) /\ Len(Tail(ser.queue)) = Len(ser.queue) - 1
  BY HeadTailProperties DEF SerialType
<1>2. /\ ser.retry \o Tail(ser.queue) \in Seq(Pod)
      /\ Len(ser.retry \o Tail(ser.queue)) = Len(ser.retry) + Len(Tail(ser.queue))
  BY <1>1, ConcatProperties DEF SerialType
<1>3. Len(ser.queue) \in Nat /\ Len(ser.retry) \in Nat
  BY LenProperties DEF SerialType
<1>. DEFINE rest == ser.retry \o Tail(ser.queue)
<1>4. FastTrack = [ser EXCEPT !.at = "rest", !.queue = rest, !.retry = <<>>, !.waiting = {}]
  BY DEF FastTrack
<1>5. rest \in Seq(Pod) /\ Len(rest) = Len(ser.retry) + Len(ser.queue) - 1
  BY <1>1, <1>2, <1>3, Zenon
<1>. HIDE DEF rest
<1>. QED  BY <1>4, <1>5, EmptySeq, Zenon DEF SerialType

\* A list without its first pod.
LEMMA TailFacts ==
    ASSUME NEW s \in Seq(Pod), s # <<>>
    PROVE  /\ Len(s) \in Nat \ {0} /\ Head(s) = s[1] /\ s[1] \in Pod
           /\ Tail(s) \in Seq(Pod) /\ Len(Tail(s)) = Len(s) - 1
           /\ \A i \in 1..Len(Tail(s)) : i + 1 \in 2..Len(s) /\ Tail(s)[i] = s[i + 1]
BY HeadTailProperties, EmptySeq, LenProperties

-----------------------------------------------------------------------------
(* Counting *)

InParallel == {p \in Pod : par[p].at \in {"call", "wait"}}

LEMMA OwedTyped ==
    CoreTyped =>
        /\ Len(ser.queue) \in Nat /\ Len(ser.retry) \in Nat
        /\ Cardinality(InParallel) \in Nat
        /\ Owed = Len(ser.queue) + Len(ser.retry) + Cardinality(InParallel)
        /\ Owed \in Nat
<1>. HAVE CoreTyped
<1>1. Len(ser.queue) \in Nat /\ Len(ser.retry) \in Nat
  BY LenProperties DEF CoreTyped, SerialType
<1>2. Cardinality(InParallel) \in Nat
  BY DEF InParallel, CoreTyped, Counting
<1>3. Owed = Len(ser.queue) + Len(ser.retry) + Cardinality(InParallel)
  BY DEF Owed, InParallel
<1>4. \A a, b, c \in Nat : a + b + c \in Nat
  OBVIOUS
<1>5. Owed \in Nat
  BY <1>1, <1>2, <1>3, <1>4, Zenon
<1>. QED  BY <1>1, <1>2, <1>3, <1>5, Zenon

LEMMA OwedTypedNext ==
    CoreTyped' =>
        /\ Len(ser'.queue) \in Nat /\ Len(ser'.retry) \in Nat
        /\ Cardinality(InParallel') \in Nat
        /\ Owed' = Len(ser'.queue) + Len(ser'.retry) + Cardinality(InParallel')
        /\ Owed' \in Nat
<1>1. (CoreTyped =>
         /\ Len(ser.queue) \in Nat /\ Len(ser.retry) \in Nat
         /\ Cardinality(InParallel) \in Nat
         /\ Owed = Len(ser.queue) + Len(ser.retry) + Cardinality(InParallel)
         /\ Owed \in Nat)'
  BY OwedTyped, PTL
<1>. QED  BY <1>1, Zenon

LEMMA OwedSame ==
    ASSUME CoreTyped, CoreTyped', UNCHANGED par,
           Len(ser.queue) + Len(ser.retry) = Len(ser'.queue) + Len(ser'.retry)
    PROVE  Owed' = Owed
<1>1. InParallel' = InParallel
  BY DEF InParallel
<1>. QED  BY <1>1, OwedTyped, OwedTypedNext, Zenon

\* A pod leaves the lists of the serial goroutine.
LEMMA OwedSerial ==
    ASSUME CoreTyped, CoreTyped', UNCHANGED par,
           Len(ser.queue) + Len(ser.retry) = Len(ser'.queue) + Len(ser'.retry) + 1
    PROVE  Owed = Owed' + 1
<1>. DEFINE q == Len(ser.queue)  r == Len(ser.retry)  c == Cardinality(InParallel)
            q1 == Len(ser'.queue)  r1 == Len(ser'.retry)
<1>1. InParallel' = InParallel
  BY DEF InParallel
<1>2. /\ q \in Nat /\ r \in Nat /\ c \in Nat /\ q1 \in Nat /\ r1 \in Nat
      /\ Owed = q + r + c /\ Owed' = q1 + r1 + c
  BY <1>1, OwedTyped, OwedTypedNext, Zenon
<1>3. q + r = q1 + r1 + 1
  BY Zenon
<1>. HIDE DEF q, r, c, q1, r1
<1>. QED  BY <1>2, <1>3

\* A goroutine without volumes ends.
LEMMA OwedParallel ==
    ASSUME CoreTyped, CoreTyped', UNCHANGED ser, NEW p \in InParallel,
           InParallel' = InParallel \ {p}
    PROVE  Owed = Owed' + 1
<1>. DEFINE q == Len(ser.queue)  r == Len(ser.retry)  c == Cardinality(InParallel)
            c1 == Cardinality(InParallel \ {p})
<1>1. InParallel \subseteq Pod
  BY DEF InParallel
<1>2. c1 = c - 1
  BY <1>1 DEF CoreTyped, Counting
<1>3. /\ q \in Nat /\ r \in Nat /\ c \in Nat
      /\ Owed = q + r + c /\ Owed' = q + r + c1
  BY OwedTyped, OwedTypedNext, Zenon
<1>. HIDE DEF q, r, c, c1
<1>. QED  BY <1>2, <1>3

\* A result that was owed is counted.
LEMMA CountedOnce ==
    ASSUME CoreTyped, CoreTyped', Accounted, UNCHANGED env,
           main.at \in {"wait", "done"}, Owed = Owed' + 1,
           NEW ok \in BOOLEAN, main' = [main EXCEPT !.count = @ + 1, !.ok = @ /\ ok]
    PROVE  Accounted'
<1>1. Owed' \in Nat
  BY OwedTypedNext, Zenon
<1>2. Retries' = Retries
  BY DEF Retries
<1>3. main'.at = main.at /\ main'.count = main.count + 1 /\ main'.pods = main.pods
  BY DEF CoreTyped
<1>4. main.count \in Nat /\ main.pods \in Nat
  BY DEF CoreTyped
<1>. QED  BY <1>1, <1>2, <1>3, <1>4 DEF Accounted

LEMMA CountKept ==
    ASSUME Accounted, UNCHANGED env, UNCHANGED main, Owed' = Owed
    PROVE  Accounted'
<1>1. Retries' = Retries
  BY DEF Retries
<1>. QED  BY <1>1 DEF Accounted

LEMMA SendTyped ==
    ASSUME CoreTyped, NEW p \in Pod, NEW ok \in BOOLEAN, Send(p, ok)
    PROVE  /\ main' \in [at: {"cordon", "list", "wait", "done"}, pods: Nat, count: Nat, ok: BOOLEAN]
           /\ main'.at = main.at
           /\ main' = [main EXCEPT !.count = @ + 1, !.ok = @ /\ ok]
           /\ result' \in [Pod -> {"none", "ok", "error"}]
<1>1. main' = [main EXCEPT !.count = @ + 1, !.ok = @ /\ ok]
  BY DEF Send
<1>. DEFINE both == main.ok /\ ok
            n == main.count + 1
<1>2. both \in BOOLEAN /\ n \in Nat
  BY DEF CoreTyped
<1>3. main' = [main EXCEPT !.count = n, !.ok = both]
  BY <1>1
<1>. HIDE DEF both, n
<1>4. /\ main' \in [at: {"cordon", "list", "wait", "done"}, pods: Nat, count: Nat, ok: BOOLEAN]
      /\ main'.at = main.at
  BY <1>2, <1>3, Zenon DEF CoreTyped
<1>5. result' \in [Pod -> {"none", "ok", "error"}]
  BY DEF CoreTyped, Send
<1>. QED  BY <1>1, <1>4, <1>5

-----------------------------------------------------------------------------
(* The goroutine evictPodsWithPv *)

\* The pod that is worked on occurs nowhere else in the lists.
LEMMA CurrentFacts ==
    ASSUME Core, Working
    PROVE  /\ InPass /\ ser.queue # <<>> /\ ser.queue \in Seq(Pod) /\ ser.retry \in Seq(Pod)
           /\ Current \in Pod /\ Current = ser.queue[1] /\ par[Current].at = "off"
           /\ main.at \in {"wait", "done"}
           /\ ser.evict => /\ refused[Current] = ser.round - 1
                           /\ refused[Current] + 1 \in 0..env.retries
           /\ Len(ser.queue) \in Nat \ {0} /\ Len(ser.retry) \in Nat
           /\ Tail(ser.queue) \in Seq(Pod) /\ Len(Tail(ser.queue)) = Len(ser.queue) - 1
           /\ \A i \in 1..Len(Tail(ser.queue)) :
                 i + 1 \in 1..Len(ser.queue) /\ Tail(ser.queue)[i] = ser.queue[i + 1]
           /\ \A i \in 2..Len(ser.queue) : ser.queue[i] # Current
           /\ \A j \in 1..Len(ser.retry) : ser.retry[j] # Current
<1>0. InPass
  BY DEF Core, Working, Passes
<1>1. ser.queue # <<>> /\ ser.queue \in Seq(Pod) /\ ser.retry \in Seq(Pod)
  BY DEF Core, CoreTyped, SerialType, Held, Working
<1>2. /\ Len(ser.queue) \in Nat \ {0} /\ Current = ser.queue[1] /\ Current \in Pod
      /\ Tail(ser.queue) \in Seq(Pod) /\ Len(Tail(ser.queue)) = Len(ser.queue) - 1
      /\ \A i \in 1..Len(Tail(ser.queue)) :
            i + 1 \in 2..Len(ser.queue) /\ Tail(ser.queue)[i] = ser.queue[i + 1]
  BY <1>1, TailFacts DEF Current
<1>3. Len(ser.retry) \in Nat
  BY <1>1, LenProperties
<1>4. main.at \in {"wait", "done"}
  BY DEF Core, CoreTyped, Idle, Busy, NoSerial, Working
<1>5. 1 \in 1..Len(ser.queue)
  BY <1>2
<1>6. par[Current].at = "off"
  BY <1>0, <1>2, <1>5 DEF InPass, Apart
<1>7. ser.evict => refused[Current] = ser.round - 1 /\ ser.round \in 1..env.retries
  BY <1>0, <1>2, <1>5 DEF InPass, Refusals
<1>8. env.retries \in Nat
  BY EnvTyped DEF Core
<1>9. ser.evict => refused[Current] = ser.round - 1 /\ refused[Current] + 1 \in 0..env.retries
  BY <1>7, <1>8
<1>10. \A i \in 2..Len(ser.queue) : ser.queue[i] # Current
  BY <1>0, <1>2, <1>5 DEF InPass, Distinct
<1>11. \A j \in 1..Len(ser.retry) : ser.retry[j] # Current
  BY <1>0, <1>2, <1>5 DEF InPass
<1>12. \A i \in 1..Len(Tail(ser.queue)) : /\ i + 1 \in 1..Len(ser.queue)
                                          /\ Tail(ser.queue)[i] = ser.queue[i + 1]
  BY <1>2
<1>. QED  BY <1>0, <1>1, <1>2, <1>3, <1>4, <1>6, <1>9, <1>10, <1>11, <1>12

\* The other pods keep their number of refusals.
LEMMA RefusedFacts ==
    ASSUME CoreTyped, UNCHANGED env, NEW p \in Pod,
           \/ UNCHANGED refused
           \/ Refuse(p) /\ refused[p] + 1 \in 0..env.retries
    PROVE  /\ refused' \in [Pod -> 0..env'.retries]
           /\ \A q \in Pod : q # p => refused'[q] = refused[q]
           /\ Refuse(p) => refused'[p] = refused[p] + 1
BY DEF CoreTyped, Refuse

\* The pod leaves the list with a result.
LEMMA SerialReports ==
    ASSUME Core, UNCHANGED <<env, par>>, Working, ser' = PodDone,
           NEW ok \in BOOLEAN, Send(Current, ok),
           UNCHANGED refused \/ (ser.evict /\ Refuse(Current))
    PROVE  Core'
<1>. DEFINE rest == Tail(ser.queue)
<1>1. CoreTyped
  BY DEF Core
<1>2. /\ refused' \in [Pod -> 0..env'.retries]
      /\ \A q \in Pod : q # Current => refused'[q] = refused[q]
  BY <1>1, CurrentFacts, RefusedFacts
<1>3. /\ ser' \in SerialType /\ ser'.at = "next" /\ ser'.queue = rest
      /\ ser'.retry = ser.retry /\ ser'.round = ser.round /\ ser'.evict = ser.evict
  BY <1>1, CurrentFacts, PodDoneFields DEF CoreTyped
<1>4. CoreTyped'
  <2>1. GoroutineType' = GoroutineType
    BY DEF GoroutineType
  <2>2. /\ main' \in [at: {"cordon", "list", "wait", "done"}, pods: Nat, count: Nat, ok: BOOLEAN]
        /\ result' \in [Pod -> {"none", "ok", "error"}]
    BY <1>1, CurrentFacts, SendTyped, Zenon
  <2>. QED  BY <1>1, <1>2, <1>3, <2>1, <2>2 DEF CoreTyped
<1>5. Accounted'
  <2>1. Len(ser.queue) + Len(ser.retry) = Len(ser'.queue) + Len(ser'.retry) + 1
    <3>. DEFINE q == Len(ser.queue)  r == Len(ser.retry)  t == Len(rest)
    <3>1. q \in Nat \ {0} /\ r \in Nat /\ t = q - 1
      BY CurrentFacts
    <3>2. Len(ser'.queue) = t /\ Len(ser'.retry) = r
      BY <1>3, Zenon
    <3>. HIDE DEF q, r, t
    <3>3. q + r = t + r + 1
      BY <3>1
    <3>. QED  BY <3>2, <3>3, Zenon DEF q, r
  <2>2. Owed = Owed' + 1
    BY <1>1, <1>4, <2>1, OwedSerial
  <2>. QED  BY <1>1, <1>4, <2>2, CurrentFacts, SendTyped, CountedOnce, Zenon DEF Core
<1>6. Idle' /\ Held'
  BY <1>1, <1>3, CurrentFacts, SendTyped, Zenon DEF Idle, Held, Busy
<1>7. Passes'
  <2>1. \A i \in 1..Len(rest) : /\ i + 1 \in 1..Len(ser.queue) /\ rest[i] = ser.queue[i + 1]
                                /\ rest[i] \in Pod /\ refused'[rest[i]] = refused[rest[i]]
    BY <1>2, CurrentFacts, ElementOfSeq
  <2>2. \A j \in 1..Len(ser.retry) : /\ ser.retry[j] \in Pod
                                     /\ refused'[ser.retry[j]] = refused[ser.retry[j]]
    BY <1>2, CurrentFacts, ElementOfSeq
  <2>3. InPass
    BY CurrentFacts
  <2>4. Distinct(rest)
    <3>1. Distinct(ser.queue)
      BY <2>3, Zenon DEF InPass
    <3>. HIDE DEF rest
    <3>2. ASSUME NEW i \in 1..Len(rest), NEW j \in 1..Len(rest), i # j
          PROVE  rest[i] # rest[j]
      <4>1. i + 1 # j + 1
        BY <3>2
      <4>2. i + 1 \in 1..Len(ser.queue) /\ j + 1 \in 1..Len(ser.queue)
            /\ rest[i] = ser.queue[i + 1] /\ rest[j] = ser.queue[j + 1]
        BY <2>1, Zenon
      <4>. QED  BY <3>1, <4>1, <4>2, Zenon DEF Distinct
    <3>. QED  BY <3>2, Zenon DEF Distinct
  <2>. HIDE DEF rest
  <2>5. Apart(ser.queue)' /\ Apart(ser.retry)'
    BY <1>3, <2>1, <2>3 DEF InPass, Apart
  <2>6. \A i \in 1..Len(rest), j \in 1..Len(ser.retry) : rest[i] # ser.retry[j]
    BY <2>1, <2>3 DEF InPass
  <2>7. ASSUME ser.evict
        PROVE  Refusals(ser.queue, ser.round - 1)' /\ Refusals(ser.retry, ser.round)'
    <3>1. Refusals(ser.queue, ser.round - 1) /\ Refusals(ser.retry, ser.round)
      BY <2>3, <2>7 DEF InPass
    <3>2. Refusals(ser.queue, ser.round - 1)'
      BY <1>3, <2>1, <3>1 DEF Refusals
    <3>3. Refusals(ser.retry, ser.round)'
      BY <1>3, <2>2, <3>1 DEF Refusals
    <3>. QED  BY <3>2, <3>3
  <2>8. ~ser.evict /\ env.mode = "evict" => Refusals(ser.queue, env.retries)'
    BY <1>3, <2>1, <2>3, SMTT(30) DEF InPass, Refusals
  <2>9. InPass'
    BY <1>3, <2>3, <2>4, <2>5, <2>6, <2>7, <2>8 DEF InPass
  <2>. QED  BY <1>3, <2>9 DEF Passes, Busy
<1>8. Tries'
  BY <1>2, CurrentFacts DEF Core, Tries
<1>. QED  BY <1>4, <1>5, <1>6, <1>7, <1>8 DEF Core

\* The pod is put on the list of the next pass.
LEMMA SerialRetries ==
    ASSUME Core, UNCHANGED <<env, par, main, result>>, Working, ser' = Retried,
           IF ser.evict THEN Refuse(Current) ELSE UNCHANGED refused
    PROVE  Core'
<1>. DEFINE rest == Tail(ser.queue)
            again == Append(ser.retry, Current)
<1>1. CoreTyped
  BY DEF Core
<1>2. /\ refused' \in [Pod -> 0..env'.retries]
      /\ \A q \in Pod : q # Current => refused'[q] = refused[q]
      /\ ser.evict => refused'[Current] = refused[Current] + 1
      /\ ~ser.evict => refused' = refused
  BY <1>1, CurrentFacts, RefusedFacts
<1>3. /\ ser' \in SerialType /\ ser'.at = "next" /\ ser'.queue = rest
      /\ ser'.retry = again /\ ser'.round = ser.round /\ ser'.evict = ser.evict
  BY <1>1, CurrentFacts, RetriedFields DEF CoreTyped
<1>4. CoreTyped'
  <2>1. GoroutineType' = GoroutineType
    BY DEF GoroutineType
  <2>. QED  BY <1>1, <1>2, <1>3, <2>1 DEF CoreTyped
<1>5. /\ Len(again) = Len(ser.retry) + 1
      /\ \A j \in 1..Len(again) : IF j = Len(again) THEN again[j] = Current
                                 ELSE j \in 1..Len(ser.retry) /\ again[j] = ser.retry[j]
  BY CurrentFacts, AppendProperties
<1>6. Accounted'
  <2>1. Len(ser.queue) + Len(ser.retry) = Len(ser'.queue) + Len(ser'.retry)
    <3>. DEFINE q == Len(ser.queue)  r == Len(ser.retry)  t == Len(rest)  u == Len(again)
    <3>1. q \in Nat \ {0} /\ r \in Nat /\ t = q - 1 /\ u = r + 1
      BY CurrentFacts, <1>5
    <3>2. Len(ser'.queue) = t /\ Len(ser'.retry) = u
      BY <1>3, Zenon
    <3>. HIDE DEF q, r, t, u
    <3>3. q + r = t + u
      BY <3>1
    <3>. QED  BY <3>2, <3>3, Zenon DEF q, r
  <2>2. Owed' = Owed
    BY <1>1, <1>4, <2>1, OwedSame
  <2>. QED  BY <2>2, CountKept DEF Core
<1>7. Idle' /\ Held'
  BY <1>1, <1>3, CurrentFacts DEF Idle, Held, Busy
<1>8. Passes'
  <2>1. \A i \in 1..Len(rest) : /\ i + 1 \in 1..Len(ser.queue) /\ rest[i] = ser.queue[i + 1]
                                /\ i + 1 \in 2..Len(ser.queue) /\ rest[i] # Current
                                /\ rest[i] \in Pod /\ refused'[rest[i]] = refused[rest[i]]
    BY <1>2, CurrentFacts, ElementOfSeq
  <2>2. \A j \in 1..Len(ser.retry) : /\ ser.retry[j] \in Pod /\ ser.retry[j] # Current
                                     /\ refused'[ser.retry[j]] = refused[ser.retry[j]]
    BY <1>2, CurrentFacts, ElementOfSeq
  <2>3. InPass
    BY CurrentFacts
  <2>4. Distinct(rest)
    <3>1. Distinct(ser.queue)
      BY <2>3, Zenon DEF InPass
    <3>. HIDE DEF rest
    <3>2. ASSUME NEW i \in 1..Len(rest), NEW j \in 1..Len(rest), i # j
          PROVE  rest[i] # rest[j]
      <4>1. i + 1 # j + 1
        BY <3>2
      <4>2. i + 1 \in 1..Len(ser.queue) /\ j + 1 \in 1..Len(ser.queue)
            /\ rest[i] = ser.queue[i + 1] /\ rest[j] = ser.queue[j + 1]
        BY <2>1, Zenon
      <4>. QED  BY <3>1, <4>1, <4>2, Zenon DEF Distinct
    <3>. QED  BY <3>2, Zenon DEF Distinct
  <2>5. par[Current].at = "off" /\ (ser.evict => refused'[Current] = ser.round)
    BY <1>1, <1>2, CurrentFacts DEF CoreTyped, SerialType
  <2>. HIDE DEF rest, again
  <2>6. Distinct(again)
    BY <1>5, <2>2, <2>3, ZenonT(60) DEF InPass, Distinct
  <2>7. Apart(ser.queue)' /\ Apart(ser.retry)'
    <3>1. Apart(ser.queue) /\ Apart(ser.retry)
      BY <2>3 DEF InPass
    <3>2. Apart(ser.queue)'
      BY <1>3, <2>1, <3>1 DEF Apart
    <3>3. Apart(ser.retry)'
      BY <1>3, <1>5, <2>5, <3>1 DEF Apart
    <3>. QED  BY <3>2, <3>3
  <2>8. \A i \in 1..Len(rest), j \in 1..Len(again) : rest[i] # again[j]
    <3>1. \A i \in 1..Len(ser.queue), j \in 1..Len(ser.retry) : ser.queue[i] # ser.retry[j]
      BY <2>3 DEF InPass
    <3>2. \A i \in 1..Len(rest), j \in 1..Len(ser.retry) : rest[i] # ser.retry[j]
      BY <2>1, <3>1
    <3>. QED  BY <1>5, <2>1, <3>2
  <2>9. ASSUME ser.evict
        PROVE  Refusals(ser.queue, ser.round - 1)' /\ Refusals(ser.retry, ser.round)'
    <3>1. Refusals(ser.queue, ser.round - 1) /\ Refusals(ser.retry, ser.round)
      BY <2>3, <2>9 DEF InPass
    <3>2. Refusals(ser.queue, ser.round - 1)'
      BY <1>3, <2>1, <3>1 DEF Refusals
    <3>3. Refusals(ser.retry, ser.round)'
      BY <1>3, <1>5, <2>2, <2>5, <2>9, <3>1 DEF Refusals
    <3>. QED  BY <3>2, <3>3
  <2>10. ~ser.evict /\ env.mode = "evict" => Refusals(ser.queue, env.retries)'
    BY <1>3, <2>1, <2>3, SMTT(30) DEF InPass, Refusals
  <2>11. InPass'
    BY <1>3, <2>3, <2>4, <2>6, <2>7, <2>8, <2>9, <2>10 DEF InPass
  <2>. QED  BY <1>3, <2>11 DEF Passes, Busy
<1>9. Tries'
  BY <1>2, CurrentFacts DEF Core, Tries
<1>. QED  BY <1>4, <1>6, <1>7, <1>8, <1>9 DEF Core

\* The pass is given up.
LEMMA SerialGivesUp ==
    ASSUME Core, UNCHANGED <<env, par, refused>>,
           Working,
           ser' = FastTrack, Send(Current, TRUE)
    PROVE  Core'
<1>1. CoreTyped
  BY DEF Core
<1>2. /\ ser' \in SerialType /\ ser'.at = "rest"
      /\ Len(ser'.queue) = Len(ser.retry) + Len(ser.queue) - 1 /\ Len(ser'.retry) = 0
  BY <1>1, CurrentFacts, FastTrackFields, Zenon DEF CoreTyped
<1>3. CoreTyped'
  <2>1. GoroutineType' = GoroutineType
    BY DEF GoroutineType
  <2>2. /\ main' \in [at: {"cordon", "list", "wait", "done"}, pods: Nat, count: Nat, ok: BOOLEAN]
        /\ result' \in [Pod -> {"none", "ok", "error"}]
    BY <1>1, CurrentFacts, SendTyped, Zenon
  <2>. QED  BY <1>1, <1>2, <2>1, <2>2 DEF CoreTyped
<1>4. Accounted'
  <2>2. Len(ser.queue) + Len(ser.retry) = Len(ser'.queue) + Len(ser'.retry) + 1
    <3>. DEFINE q == Len(ser.queue)  r == Len(ser.retry)
                q1 == Len(ser'.queue)  r1 == Len(ser'.retry)
    <3>1. q \in Nat /\ r \in Nat
      BY CurrentFacts
    <3>2. q1 = r + q - 1 /\ r1 = 0
      BY <1>2, Zenon
    <3>. HIDE DEF q, r, q1, r1
    <3>3. q + r = q1 + r1 + 1
      BY <3>1, <3>2
    <3>. QED  BY <3>3, Zenon DEF q, r, q1, r1
  <2>3. Owed = Owed' + 1
    BY <1>1, <1>3, <2>2, OwedSerial
  <2>. QED  BY <1>1, <1>3, <2>3, CurrentFacts, SendTyped, CountedOnce, Zenon DEF Core
<1>5. Idle' /\ Held' /\ Passes'
  BY <1>1, <1>2, CurrentFacts, SendTyped, Zenon DEF Idle, Held, Passes, Busy
<1>6. Tries'
  BY DEF Core, Tries
<1>. QED  BY <1>3, <1>4, <1>5, <1>6 DEF Core

\* The goroutine goes on with the same pod.
LEMMA SerialMoves ==
    ASSUME Core, UNCHANGED <<env, par, main, result, refused>>,
           Working,
           ser' \in SerialType, ser'.queue = ser.queue, ser'.retry = ser.retry,
           ser'.round = ser.round, ser'.evict = ser.evict, Busy'
    PROVE  Core'
<1>1. CoreTyped
  BY DEF Core
<1>2. CoreTyped'
  BY <1>1 DEF CoreTyped, GoroutineType
<1>3. Accounted'
  BY CountKept DEF Core, Owed
<1>4. Idle' /\ Held'
  BY CurrentFacts DEF Idle, Held
<1>5. Passes'
  <2>1. InPass'
    BY CurrentFacts, PassKept
  <2>. QED  BY <2>1, Zenon DEF Passes, Busy
<1>6. Tries'
  BY DEF Core, Tries
<1>. QED  BY <1>2, <1>3, <1>4, <1>5, <1>6 DEF Core

LEMMA AccountingFields ==
    ASSUME CoreTyped, NEW bad \in Pod, NEW lost
    PROVE  /\ doAccountingOfPvs(bad, lost) \in SerialType
           /\ doAccountingOfPvs(bad, lost).queue = ser.queue
           /\ doAccountingOfPvs(bad, lost).retry = ser.retry
<1>. DEFINE listed == {ser.queue[i] : i \in DOMAIN ser.queue}
            claimed == [p \in Pod |-> IF p \notin listed \/ (p = bad /\ lost = "claims")
                                      THEN {} ELSE env.vols[p]]
            unshared(p) == {v \in claimed[p] : \A q \in Pod \ {p} : v \notin claimed[q]}
            pvs == [p \in Pod |-> IF p = bad /\ lost = "ids" THEN {} ELSE unshared(p)]
            vols == [p \in Pod |-> IF p = bad /\ lost # "none" THEN {} ELSE unshared(p)]
            known == IF lost = "none" THEN listed ELSE listed \ {bad}
<1>1. doAccountingOfPvs(bad, lost) = [ser EXCEPT !.pvs = pvs, !.vols = vols, !.known = known]
  BY DEF doAccountingOfPvs
<1>2. \A p \in Pod : claimed[p] \subseteq Volume
  BY EnvTyped
<1>3. \A p \in Pod : unshared(p) \subseteq Volume
  BY <1>2
<1>. HIDE DEF unshared
<1>4. pvs \in [Pod -> SUBSET Volume] /\ vols \in [Pod -> SUBSET Volume]
  BY <1>3
<1>5. ser \in SerialType
  BY DEF CoreTyped
<1>7. known \in SUBSET Pod
  <2>1. listed \subseteq Pod
    BY <1>5, ElementOfSeq, LenProperties DEF SerialType
  <2>. QED  BY <2>1, Zenon
<1>. HIDE DEF pvs, vols, known
<1>6. /\ [ser EXCEPT !.pvs = pvs, !.vols = vols, !.known = known] \in SerialType
      /\ [ser EXCEPT !.pvs = pvs, !.vols = vols, !.known = known].queue = ser.queue
      /\ [ser EXCEPT !.pvs = pvs, !.vols = vols, !.known = known].retry = ser.retry
  BY <1>4, <1>5, <1>7, Zenon DEF SerialType
<1>. QED  BY <1>1, <1>6

\* The first pass begins, or there is none.
LEMMA FirstPass ==
    ASSUME Core, evictPodsWithPv
    PROVE  Core'
<1>1. CoreTyped /\ ser.at = "start" /\ UNCHANGED <<env, par, main, result, refused>>
  BY DEF Core, evictPodsWithPv, world
<1>2. main.at \in {"wait", "done"} /\ Tries'
  BY <1>1 DEF Core, CoreTyped, Idle, NoSerial, Tries
<1>3. CASE env.mode = "evict" /\ env.retries = 0
  <2>1. ser' = [NoSerial EXCEPT !.at = "end"]
    BY <1>3 DEF evictPodsWithPv
  <2>2. ser' \in SerialType /\ ser'.at = "end"
    BY <2>1, EmptySeq, Zenon DEF NoSerial, SerialType
  <2>3. CoreTyped'
    BY <1>1, <2>2 DEF CoreTyped, GoroutineType
  <2>4. Accounted'
    BY <1>1, <1>3 DEF Accounted, Retries
  <2>5. Idle' /\ Held' /\ Passes'
    BY <1>1, <1>2, <2>2 DEF Idle, Held, Passes, Busy
  <2>. QED  BY <1>2, <2>3, <2>4, <2>5 DEF Core
<1>4. CASE ~(env.mode = "evict" /\ env.retries = 0)
  <2>1. PICK bad \in Pod, lost \in {"none", "claims", "volumes", "ids"} :
          ser' = [doAccountingOfPvs(bad, lost) EXCEPT
                     !.at = "next", !.round = 1, !.evict = env.mode = "evict"]
    BY <1>4, Zenon DEF evictPodsWithPv
  <2>. DEFINE d == doAccountingOfPvs(bad, lost)
              e == env.mode = "evict"
  <2>2. d \in SerialType /\ d.queue = ser.queue /\ d.retry = ser.retry /\ e \in BOOLEAN
    BY <1>1, AccountingFields
  <2>3. ser' = [d EXCEPT !.at = "next", !.round = 1, !.evict = e]
    BY <2>1
  <2>. HIDE DEF d, e
  <2>4. /\ ser' \in SerialType /\ ser'.at = "next" /\ ser'.round = 1 /\ ser'.evict = e
        /\ ser'.queue = ser.queue /\ ser'.retry = ser.retry
    BY <2>2, <2>3, Zenon DEF SerialType
  <2>5. CoreTyped'
    BY <1>1, <2>4 DEF CoreTyped, GoroutineType
  <2>6. Accounted'
    BY <1>1, <2>4, CountKept DEF Core, Owed
  <2>7. Idle' /\ Held'
    BY <1>1, <1>2, <2>4 DEF Idle, Held, Busy
  <2>8. /\ Distinct(ser.queue) /\ Apart(ser.queue) /\ Refusals(ser.queue, 0)
        /\ ser.retry = <<>> /\ Len(ser.retry) = 0
    BY <1>1, EmptySeq DEF Core, Passes
  <2>9. Apart(ser.queue)' /\ Refusals(ser.queue, 0)'
    BY <1>1, <2>4, <2>8 DEF Apart, Refusals
  <2>10. Distinct(ser'.retry) /\ Apart(ser.retry)' /\ Refusals(ser.retry, ser.round)'
    BY <2>4, <2>8 DEF Distinct, Apart, Refusals
  <2>11. env.retries \in Nat
    BY <1>1, EnvTyped
  <2>12. ser'.evict => env'.mode = "evict" /\ ser'.round \in 1..env'.retries
    <3>1. ser'.evict => env.mode = "evict" /\ env.retries # 0
      BY <1>4, <2>4, Zenon DEF e
    <3>2. env.retries # 0 => 1 \in 1..env.retries
      BY <2>11
    <3>. QED  BY <1>1, <2>4, <3>1, <3>2, Zenon
  <2>13. ~(~ser'.evict /\ env'.mode = "evict")
    BY <1>1, <2>4, Zenon DEF e
  <2>14. Refusals(ser.queue, ser.round - 1)'
    BY <2>4, <2>9 DEF Refusals
  <2>15. InPass'
    BY <2>4, <2>8, <2>9, <2>10, <2>12, <2>13, <2>14 DEF InPass
  <2>16. Passes'
    BY <2>4, <2>15 DEF Passes, Busy
  <2>. QED  BY <1>2, <2>5, <2>6, <2>7, <2>16 DEF Core
<1>. QED  BY <1>3, <1>4

\* The list of the next pass, if there is one.
LEMMA PassEnds ==
    ASSUME Core, NextPass
    PROVE  Core'
<1>1. /\ CoreTyped /\ ser.at = "next" /\ ser.queue = <<>>
      /\ UNCHANGED <<env, par, main, result, refused>>
  BY DEF Core, NextPass, world
<1>2. main.at \in {"wait", "done"} /\ Tries' /\ InPass
  BY <1>1 DEF Core, CoreTyped, Idle, NoSerial, Tries, Passes
<1>3. /\ ser \in SerialType /\ ser.retry \in Seq(Pod) /\ ser.round \in Nat /\ <<>> \in Seq(Pod)
      /\ Len(ser.queue) = 0 /\ Len(<<>>) = 0 /\ Len(ser.retry) \in Nat
  BY <1>1, EmptySeq, LenProperties DEF CoreTyped, SerialType
<1>4. ASSUME ser' \in SerialType, ser'.queue = ser.retry, ser'.retry = <<>>
      PROVE  CoreTyped' /\ Accounted'
  <2>1. CoreTyped'
    BY <1>1, <1>4 DEF CoreTyped, GoroutineType
  <2>. DEFINE r == Len(ser.retry)
  <2>2. r + 0 = 0 + r
    BY <1>3
  <2>3. Len(ser.queue) + Len(ser.retry) = Len(ser'.queue) + Len(ser'.retry)
    BY <1>3, <1>4, <2>2, Zenon
  <2>4. Owed' = Owed
    BY <1>1, <2>1, <2>3, OwedSame
  <2>. QED  BY <1>1, <2>1, <2>4, CountKept DEF Core
<1>5. CASE ser.retry = <<>> \/ ~ser.evict
  <2>1. ser' = [ser EXCEPT !.at = "rest", !.queue = ser.retry, !.retry = <<>>]
    BY <1>5 DEF NextPass
  <2>2. ser' \in SerialType /\ ser'.at = "rest" /\ ser'.queue = ser.retry /\ ser'.retry = <<>>
    BY <1>3, <2>1, Zenon DEF SerialType
  <2>3. Idle' /\ Held' /\ Passes'
    BY <1>1, <1>2, <2>2 DEF Idle, Held, Passes, Busy
  <2>. QED  BY <1>2, <1>4, <2>2, <2>3 DEF Core
<1>6. CASE ~(ser.retry = <<>> \/ ~ser.evict)
  <2>. DEFINE e == EvictAgain
              n == ser.round + 1
  <2>1. ser' = [ser EXCEPT !.queue = ser.retry, !.retry = <<>>, !.evict = e, !.round = n]
    BY <1>6 DEF NextPass
  <2>2. e \in BOOLEAN /\ n \in Nat /\ n = ser.round + 1
    BY <1>3 DEF EvictAgain
  <2>. HIDE DEF e, n
  <2>3. /\ ser' \in SerialType /\ ser'.at = "next" /\ ser'.queue = ser.retry /\ ser'.retry = <<>>
        /\ ser'.evict = e /\ ser'.round = ser.round + 1
    BY <1>1, <1>3, <2>1, <2>2, Zenon DEF SerialType
  <2>4. /\ env.mode = "evict" /\ ser.round \in 1..env.retries /\ Refusals(ser.retry, ser.round)
        /\ Distinct(ser.retry) /\ Apart(ser.retry)
    BY <1>2, <1>6 DEF InPass
  <2>5. env.retries \in Nat
    BY <1>1, EnvTyped
  <2>6. e <=> ser.round < env.retries
    BY DEF e, EvictAgain
  <2>7. Apart(ser.queue)' /\ Refusals(ser.queue, ser.round - 1)'
    <3>1. Apart(ser.queue)'
      BY <1>1, <2>3, <2>4, Zenon DEF Apart
    <3>2. ser'.round - 1 = ser.round
      BY <2>3, <2>4
    <3>3. Refusals(ser.queue, ser.round - 1)'
      BY <1>1, <2>3, <2>4, <3>2, Zenon DEF Refusals
    <3>. QED  BY <3>1, <3>3, Zenon
  <2>8. Distinct(ser'.retry) /\ Apart(ser.retry)' /\ Refusals(ser.retry, ser.round)'
    BY <1>3, <2>3 DEF Distinct, Apart, Refusals
  <2>9. e => ser.round + 1 \in 1..env.retries
    BY <2>4, <2>5, <2>6
  <2>10. ~e => Refusals(ser.queue, env.retries)'
    <3>1. ~e => ser.round = env.retries
      BY <2>4, <2>5, <2>6
    <3>. QED  BY <1>1, <2>3, <2>4, <3>1 DEF Refusals
  <2>11. \A j \in 1..Len(ser'.retry) : FALSE
    BY <1>3, <2>3
  <2>12. InPass'
    BY <1>1, <2>3, <2>4, <2>7, <2>8, <2>9, <2>10, <2>11, Zenon DEF InPass
  <2>13. Idle' /\ Held' /\ Passes'
    BY <1>1, <1>2, <2>3, <2>12 DEF Idle, Held, Passes, Busy
  <2>. QED  BY <1>2, <1>4, <2>3, <2>13 DEF Core
<1>. QED  BY <1>5, <1>6

LEMMA RestReported ==
    ASSUME Core, ReportRest
    PROVE  Core'
<1>1. /\ CoreTyped /\ ser.at = "rest" /\ UNCHANGED <<env, par, refused>>
      /\ ser \in SerialType /\ ser.queue \in Seq(Pod)
  BY DEF Core, CoreTyped, SerialType, ReportRest, world
<1>2. main.at \in {"wait", "done"} /\ Tries'
  BY <1>1 DEF Core, CoreTyped, Idle, NoSerial, Tries
<1>3. CASE ser.queue = <<>>
  <2>1. ser' = [ser EXCEPT !.at = "end"] /\ UNCHANGED <<main, result>>
    BY <1>3 DEF ReportRest, NoSend
  <2>2. /\ ser' \in SerialType /\ ser'.at = "end"
        /\ ser'.queue = ser.queue /\ ser'.retry = ser.retry
    BY <1>1, <2>1, SMTT(30) DEF SerialType
  <2>3. CoreTyped'
    BY <1>1, <2>1, <2>2 DEF CoreTyped, GoroutineType
  <2>4. Accounted'
    BY <1>1, <2>1, <2>2, CountKept DEF Core, Owed
  <2>5. Idle' /\ Held' /\ Passes'
    BY <1>2, <2>1, <2>2 DEF Idle, Held, Passes, Busy
  <2>. QED  BY <1>2, <2>3, <2>4, <2>5 DEF Core
<1>4. CASE ser.queue # <<>>
  <2>1. ser' = [ser EXCEPT !.queue = Tail(@)] /\ Send(Current, ser.evict)
    BY <1>4 DEF ReportRest
  <2>. DEFINE rest == Tail(ser.queue)
  <2>2. /\ Len(ser.queue) \in Nat \ {0} /\ Current \in Pod /\ ser.evict \in BOOLEAN
        /\ rest \in Seq(Pod) /\ Len(rest) = Len(ser.queue) - 1
    BY <1>1, <1>4, TailFacts DEF Current, SerialType
  <2>3. ser' \in SerialType /\ ser'.at = "rest" /\ ser'.queue = rest /\ ser'.retry = ser.retry
    BY <1>1, <2>1, <2>2, Zenon DEF SerialType
  <2>4. CoreTyped'
    <3>1. GoroutineType' = GoroutineType
      BY <1>1 DEF GoroutineType
    <3>2. /\ main' \in [at: {"cordon", "list", "wait", "done"}, pods: Nat, count: Nat, ok: BOOLEAN]
          /\ result' \in [Pod -> {"none", "ok", "error"}]
      BY <1>1, <2>1, <2>2, SendTyped, Zenon
    <3>. QED  BY <1>1, <2>3, <3>1, <3>2 DEF CoreTyped
  <2>5. Owed = Owed' + 1
    <3>. DEFINE q == Len(ser.queue)  r == Len(ser.retry)  t == Len(rest)
    <3>1. q \in Nat \ {0} /\ r \in Nat /\ t = q - 1
      BY <1>1, <2>2, LenProperties DEF SerialType
    <3>2. Len(ser'.queue) = t /\ Len(ser'.retry) = r
      BY <2>3, Zenon
    <3>. HIDE DEF q, r, t
    <3>3. q + r = t + r + 1
      BY <3>1
    <3>4. Len(ser.queue) + Len(ser.retry) = Len(ser'.queue) + Len(ser'.retry) + 1
      BY <3>2, <3>3, Zenon DEF q, r
    <3>. QED  BY <1>1, <2>4, <3>4, OwedSerial
  <2>6. Accounted'
    BY <1>1, <1>2, <2>1, <2>2, <2>4, <2>5, SendTyped, CountedOnce, Zenon DEF Core
  <2>7. Idle' /\ Held' /\ Passes'
    <3>1. main'.at = main.at
      BY <1>1, <2>1, <2>2, SendTyped, Zenon
    <3>. QED  BY <1>2, <2>3, <3>1 DEF Idle, Held, Passes, Busy
  <2>. QED  BY <1>2, <2>4, <2>6, <2>7 DEF Core
<1>. QED  BY <1>3, <1>4

-----------------------------------------------------------------------------
(* The goroutines evictPodWithoutPVInternal *)

\* Their pods are in no list of the serial goroutine.
LEMMA ListsKept ==
    ASSUME Core, UNCHANGED <<env, ser>>, NEW p \in Pod, par[p].at # "off",
           \A q \in Pod : q # p => par'[q] = par[q] /\ refused'[q] = refused[q]
    PROVE  Held' /\ Passes'
<1>1. ser.queue \in Seq(Pod) /\ ser.retry \in Seq(Pod)
  BY DEF Core, CoreTyped, SerialType
<1>2. Held' /\ (Busy' <=> Busy)
  BY DEF Core, Held, Busy
<1>3. ASSUME NEW s \in {ser.queue, ser.retry}, Apart(s)
      PROVE  \A i \in 1..Len(s) : par'[s[i]] = par[s[i]] /\ refused'[s[i]] = refused[s[i]]
  BY <1>1, <1>3, ElementOfSeq DEF Apart
<1>4. ASSUME ser.at = "start"
      PROVE  Apart(ser.queue)' /\ Refusals(ser.queue, 0)'
  <2>1. Apart(ser.queue) /\ Refusals(ser.queue, 0)
    BY <1>4 DEF Core, Passes
  <2>. QED  BY <1>3, <2>1 DEF Apart, Refusals
<1>5. ASSUME InPass
      PROVE  InPass'
  <2>1. Apart(ser.queue) /\ Apart(ser.retry)
    BY <1>5 DEF InPass
  <2>2. Apart(ser.queue)' /\ Apart(ser.retry)'
    <3>1. Apart(ser.queue)'
      BY <1>3, <2>1 DEF Apart
    <3>2. Apart(ser.retry)'
      BY <1>3, <2>1 DEF Apart
    <3>. QED  BY <3>1, <3>2
  <2>3. \A n : Refusals(ser.queue, n) => \A i \in 1..Len(ser.queue) : refused'[ser.queue[i]] = n
    BY <1>3, <2>1 DEF Refusals
  <2>4. \A n : Refusals(ser.retry, n) => \A i \in 1..Len(ser.retry) : refused'[ser.retry[i]] = n
    BY <1>3, <2>1 DEF Refusals
  <2>5. ASSUME ser.evict
        PROVE  Refusals(ser.queue, ser.round - 1)' /\ Refusals(ser.retry, ser.round)'
    <3>. DEFINE n == ser.round - 1
    <3>1. Refusals(ser.queue, n) /\ Refusals(ser.retry, ser.round) /\ ser'.round - 1 = n
      BY <1>5, <2>5 DEF InPass
    <3>. HIDE DEF n
    <3>2. Refusals(ser.queue, ser.round - 1)'
      BY <2>3, <3>1 DEF Refusals
    <3>3. Refusals(ser.retry, ser.round)'
      BY <2>4, <3>1, Zenon DEF Refusals
    <3>. QED  BY <3>2, <3>3
  <2>6. ~ser.evict /\ env.mode = "evict" => Refusals(ser.queue, env.retries)'
    BY <1>5, <2>3, Zenon DEF InPass, Refusals
  <2>. QED  BY <1>5, <2>2, <2>5, <2>6 DEF InPass
<1>. QED  BY <1>2, <1>4, <1>5 DEF Core, Passes

LEMMA ParallelFacts ==
    ASSUME Core, NEW p \in Pod, par[p].at \in {"call", "wait"}
    PROVE  /\ main.at \in {"wait", "done"} /\ par[p].at # "off" /\ p \in InParallel
           /\ par[p].tries \in 0..env.retries /\ env.retries \in Nat
           /\ par[p].at = "call" => refused[p] = par[p].tries
<1>1. env.retries \in Nat
  BY EnvTyped DEF Core
<1>2. main.at \in {"wait", "done"}
  BY DEF Core, CoreTyped, Idle, NoGoroutine
<1>. QED  BY <1>1, <1>2 DEF Core, CoreTyped, GoroutineType, Tries, InParallel

\* A goroutine sends its result and ends.
LEMMA ParallelReports ==
    ASSUME Core, UNCHANGED <<env, ser>>, NEW p \in Pod, par[p].at \in {"call", "wait"},
           Ends(p), NEW ok \in BOOLEAN, Send(p, ok),
           \/ UNCHANGED refused
           \/ par[p].at = "call" /\ par[p].tries < env.retries /\ Refuse(p)
    PROVE  Core'
<1>1. CoreTyped
  BY DEF Core
<1>2. par[p].at = "call" /\ par[p].tries < env.retries => refused[p] + 1 \in 0..env.retries
  BY ParallelFacts
<1>3. /\ refused' \in [Pod -> 0..env'.retries]
      /\ \A q \in Pod : q # p => refused'[q] = refused[q]
  BY <1>1, <1>2, RefusedFacts
<1>4. GoroutineType' = GoroutineType
  BY DEF GoroutineType
<1>5. /\ par' \in [Pod -> GoroutineType] /\ par'[p].at = "end"
      /\ \A q \in Pod : q # p => par'[q] = par[q]
  BY <1>1 DEF CoreTyped, Ends, GoroutineType
<1>6. CoreTyped'
  <2>1. /\ main' \in [at: {"cordon", "list", "wait", "done"}, pods: Nat, count: Nat, ok: BOOLEAN]
        /\ result' \in [Pod -> {"none", "ok", "error"}]
    BY <1>1, SendTyped, Zenon
  <2>. QED  BY <1>1, <1>3, <1>4, <1>5, <2>1 DEF CoreTyped
<1>7. Accounted'
  <2>1. InParallel' = InParallel \ {p}
    BY <1>5 DEF InParallel
  <2>2. Owed = Owed' + 1
    BY <1>1, <1>6, <2>1, ParallelFacts, OwedParallel
  <2>. QED  BY <1>1, <1>6, <2>2, ParallelFacts, SendTyped, CountedOnce, Zenon DEF Core
<1>8. Idle'
  BY <1>1, ParallelFacts, SendTyped, Zenon DEF Idle
<1>9. Held' /\ Passes'
  BY <1>3, <1>5, ParallelFacts, ListsKept
<1>10. Tries'
  BY <1>3, <1>5 DEF Core, Tries
<1>. QED  BY <1>6, <1>7, <1>8, <1>9, <1>10 DEF Core

\* It has called, and waits or calls again.
LEMMA ParallelGoesOn ==
    ASSUME Core, UNCHANGED <<env, ser, main, result>>, NEW p \in Pod, par[p].at = "call",
           \/ par' = [par EXCEPT ![p].at = "wait"] /\ UNCHANGED refused
           \/ /\ par' = [par EXCEPT ![p].tries = @ + 1]
              /\ par[p].tries < env.retries /\ Refuse(p)
    PROVE  Core'
<1>1. CoreTyped
  BY DEF Core
<1>2. par[p].tries < env.retries => refused[p] + 1 \in 0..env.retries
  BY ParallelFacts
<1>3. /\ refused' \in [Pod -> 0..env'.retries]
      /\ \A q \in Pod : q # p => refused'[q] = refused[q]
      /\ Refuse(p) => refused'[p] = refused[p] + 1
  BY <1>1, <1>2, RefusedFacts
<1>4. GoroutineType' = GoroutineType
  BY DEF GoroutineType
<1>5. /\ par' \in [Pod -> GoroutineType]
      /\ \A q \in Pod : q # p => par'[q] = par[q]
      /\ \/ par'[p].at = "wait"
         \/ par'[p].at = "call" /\ par'[p].tries = par[p].tries + 1 /\ Refuse(p)
  <2>1. par[p] \in GoroutineType /\ par[p].tries \in 0..env.retries /\ env.retries \in Nat
    BY <1>1, ParallelFacts DEF CoreTyped
  <2>2. CASE par' = [par EXCEPT ![p].at = "wait"]
    BY <1>1, <2>1, <2>2 DEF CoreTyped, GoroutineType
  <2>3. CASE par' = [par EXCEPT ![p].tries = @ + 1] /\ par[p].tries < env.retries /\ Refuse(p)
    <3>. DEFINE n == par[p].tries + 1
    <3>1. n \in 0..env.retries
      BY <2>1, <2>3
    <3>2. par' = [par EXCEPT ![p].tries = n]
      BY <2>3
    <3>. HIDE DEF n
    <3>3. par' \in [Pod -> GoroutineType] /\ par'[p].at = "call" /\ par'[p].tries = n
      BY <1>1, <2>1, <3>1, <3>2 DEF CoreTyped, GoroutineType
    <3>. QED  BY <1>1, <2>3, <3>2, <3>3 DEF CoreTyped, n
  <2>. QED  BY <2>2, <2>3
<1>6. CoreTyped'
  BY <1>1, <1>3, <1>4, <1>5 DEF CoreTyped
<1>7. Accounted'
  <2>1. InParallel' = InParallel
    BY <1>5 DEF InParallel
  <2>2. Owed' = Owed
    BY <1>1, <1>6, <2>1, OwedTyped, OwedTypedNext, Zenon
  <2>. QED  BY <2>2, CountKept DEF Core
<1>8. Idle'
  BY ParallelFacts DEF Idle
<1>9. Held' /\ Passes'
  BY <1>3, <1>5, ParallelFacts, ListsKept
<1>10. Tries'
  <2>1. par'[p].at = "call" => refused'[p] = par'[p].tries
    BY <1>3, <1>5, ParallelFacts
  <2>. QED  BY <1>3, <1>5, <2>1 DEF Core, Tries
<1>. QED  BY <1>6, <1>7, <1>8, <1>9, <1>10 DEF Core

LEMMA ParallelSteps ==
    ASSUME Core, NEW p \in Pod, Parallel(p)
    PROVE  Core'
<1>1. CASE ParallelCall(p)
  <2>1. /\ par[p].at = "call" /\ UNCHANGED <<env, ser>>
        /\ \/ Send(p, TRUE) /\ Ends(p) /\ UNCHANGED refused
           \/ NoSend /\ par' = [par EXCEPT ![p].at = "wait"] /\ UNCHANGED refused
           \/ Send(p, FALSE) /\ Ends(p) /\ UNCHANGED refused
    BY <1>1, Zenon DEF ParallelCall
  <2>. QED  BY <2>1, ParallelReports, ParallelGoesOn, Zenon DEF NoSend
<1>2. CASE ParallelRefused(p)
  BY <1>2, ParallelGoesOn, Zenon DEF ParallelRefused, ParallelEvicts, NoSend, world
<1>3. CASE ParallelBlocked(p)
  <2>1. /\ par[p].at = "call" /\ UNCHANGED <<env, ser>> /\ Send(p, FALSE) /\ Ends(p)
        /\ par[p].tries < env.retries /\ Refuse(p)
    BY <1>3, Zenon DEF ParallelBlocked, ParallelEvicts, world
  <2>. QED  BY <2>1, ParallelReports, Zenon
<1>4. CASE ParallelWait(p)
  <2>1. PICK ok \in BOOLEAN : Send(p, ok)
    BY <1>4 DEF ParallelWait
  <2>. QED  BY <1>4, <2>1, ParallelReports, Zenon DEF ParallelWait, world
<1>. QED  BY <1>1, <1>2, <1>3, <1>4 DEF Parallel

-----------------------------------------------------------------------------
(* All steps of evictPodsWithPv *)

LEMMA SerialSteps ==
    ASSUME Core, Serial
    PROVE  Core'
<1>1. CoreTyped /\ ser \in SerialType
  BY DEF Core, CoreTyped
<1>2. CASE evictPodsWithPv
  BY <1>2, FirstPass
<1>3. CASE NextPass
  BY <1>3, PassEnds
<1>4. CASE ReportRest
  BY <1>4, RestReported
<1>5. CASE NextPod
  <2>1. Working /\ UNCHANGED <<env, par, refused>>
    BY <1>5 DEF NextPod, Working, world
  <2>2. CASE overdue
    BY <1>5, <2>1, <2>2, SerialGivesUp DEF NextPod
  <2>3. CASE ~overdue
    <3>1. ser' = [ser EXCEPT !.at = "call"] /\ UNCHANGED <<main, result>>
      BY <1>5, <2>3 DEF NextPod, NoSend
    <3>2. /\ ser' \in SerialType /\ ser'.queue = ser.queue /\ ser'.retry = ser.retry
          /\ ser'.round = ser.round /\ ser'.evict = ser.evict /\ Busy'
      BY <1>1, <3>1, Zenon DEF SerialType, Busy
    <3>. QED  BY <2>1, <3>1, <3>2, SerialMoves
  <2>. QED  BY <2>2, <2>3
<1>6. CASE SerialCall
  <2>1. Working /\ UNCHANGED <<env, par>>
    BY <1>6 DEF SerialCall, Working, Busy
  <2>2. CASE ser' = PodDone /\ Send(Current, TRUE) /\ UNCHANGED refused
    BY <2>1, <2>2, SerialReports, Zenon
  <2>3. CASE ser' = [ser EXCEPT !.at = "detach"] /\ NoSend /\ UNCHANGED refused
    <3>1. /\ ser' \in SerialType /\ ser'.queue = ser.queue /\ ser'.retry = ser.retry
          /\ ser'.round = ser.round /\ ser'.evict = ser.evict /\ Busy'
      BY <1>1, <2>3, Zenon DEF SerialType, Busy
    <3>. QED  BY <2>1, <2>3, <3>1, SerialMoves DEF NoSend
  <2>4. CASE ser' = Retried /\ NoSend /\ IF ser.evict THEN Refuse(Current) ELSE UNCHANGED refused
    BY <2>1, <2>4, SerialRetries DEF NoSend
  <2>. QED  BY <1>6, <2>2, <2>3, <2>4, Zenon DEF SerialCall
<1>7. CASE SerialRefused
  BY <1>7, SerialRetries DEF SerialRefused, NoSend, Working, Busy, world
<1>8. CASE SerialBlocked
  <2>1. /\ Working /\ UNCHANGED <<env, par>> /\ ser.evict /\ Refuse(Current)
        /\ ser' = PodDone /\ Send(Current, FALSE)
    BY <1>8, Zenon DEF SerialBlocked, Working, Busy, world
  <2>. QED  BY <2>1, SerialReports, Zenon
<1>9. CASE DetachedInTree
  <2>1. /\ Working /\ UNCHANGED <<env, par, refused>>
        /\ ser' = PodDone /\ Send(Current, TRUE)
    BY <1>9, Zenon DEF DetachedInTree, Working, Busy, world
  <2>. QED  BY <2>1, SerialReports, Zenon
<1>10. CASE Detached
  <2>1. Working /\ UNCHANGED <<env, par, refused>> /\ ser.at = "detach"
    BY <1>10 DEF Detached, Working, Busy, world
  <2>2. CASE ser.pvs[Current] = {}
    BY <1>10, <2>1, <2>2, SerialReports, Zenon DEF Detached
  <2>3. CASE ser.pvs[Current] # {}
    <3>. DEFINE w == ser.pvs[Current]
    <3>1. ser' = [ser EXCEPT !.at = "reattach", !.waiting = w] /\ UNCHANGED <<main, result>>
      BY <1>10, <2>3, Zenon DEF Detached, NoSend
    <3>2. w \in SUBSET Volume
      BY <1>1, <2>1, CurrentFacts DEF SerialType
    <3>. HIDE DEF w
    <3>3. /\ ser' \in SerialType /\ ser'.queue = ser.queue /\ ser'.retry = ser.retry
          /\ ser'.round = ser.round /\ ser'.evict = ser.evict /\ Busy'
      BY <1>1, <3>1, <3>2, Zenon DEF SerialType, Busy
    <3>. QED  BY <2>1, <3>1, <3>3, SerialMoves
  <2>. QED  BY <2>2, <2>3
<1>11. CASE NotDetached
  <2>1. Working /\ UNCHANGED <<env, par, refused>>
    BY <1>11 DEF NotDetached, Working, Busy, world
  <2>2. \/ ser' = PodDone /\ Send(Current, FALSE)
        \/ ser' = FastTrack /\ Send(Current, TRUE)
    BY <1>11, Zenon DEF NotDetached
  <2>. QED  BY <2>1, <2>2, SerialReports, SerialGivesUp, Zenon
<1>12. CASE ReceiveEvent
  <2>1. Working /\ UNCHANGED <<env, par, refused>> /\ ser.at = "reattach"
    BY <1>12 DEF ReceiveEvent, Working, Busy, world
  <2>. DEFINE e == Head(chan.buf)
              w == IF e.attached THEN ser.waiting \ {e.vol} ELSE ser.waiting
  <2>2. CASE w = {}
    <3>1. ser' = PodDone /\ Send(Current, TRUE)
      BY <1>12, <2>2, Zenon DEF ReceiveEvent
    <3>. QED  BY <2>1, <3>1, SerialReports, Zenon
  <2>3. CASE w # {}
    <3>1. ser' = [ser EXCEPT !.waiting = w] /\ UNCHANGED <<main, result>>
      BY <1>12, <2>3, Zenon DEF ReceiveEvent, NoSend
    <3>2. w \in SUBSET Volume
      BY <1>1 DEF SerialType
    <3>. HIDE DEF w
    <3>3. /\ ser' \in SerialType /\ ser'.queue = ser.queue /\ ser'.retry = ser.retry
          /\ ser'.round = ser.round /\ ser'.evict = ser.evict /\ Busy'
      BY <1>1, <2>1, <3>1, <3>2, Zenon DEF SerialType, Busy
    <3>. QED  BY <2>1, <3>1, <3>3, SerialMoves
  <2>. QED  BY <2>2, <2>3
<1>13. CASE NotReattached
  <2>1. /\ Working /\ UNCHANGED <<env, par, refused>>
        /\ ser' = PodDone /\ Send(Current, TRUE)
    BY <1>13, Zenon DEF NotReattached, Working, Busy, world
  <2>. QED  BY <2>1, SerialReports, Zenon
<1>. QED  BY <1>2, <1>3, <1>4, <1>5, <1>6, <1>7, <1>8, <1>9, <1>10, <1>11, <1>12, <1>13 DEF Serial

-----------------------------------------------------------------------------
(* The caller *)

MainType == [at: {"cordon", "list", "wait", "done"}, pods: Nat, count: Nat, ok: BOOLEAN]

\* Before the list nothing is owed.
LEMMA NothingOwed ==
    ASSUME CoreTyped, ser = NoSerial, par = [p \in Pod |-> NoGoroutine]
    PROVE  Owed = 0
<1>1. InParallel = {}
  BY DEF InParallel, NoGoroutine
<1>2. Len(ser.queue) = 0 /\ Len(ser.retry) = 0
  BY EmptySeq DEF NoSerial
<1>3. Cardinality(InParallel) = 0
  BY <1>1 DEF CoreTyped, Counting
<1>4. 0 + 0 + 0 = 0
  OBVIOUS
<1>. QED  BY <1>2, <1>3, <1>4, OwedTyped, Zenon

\* The caller returns: no goroutine runs yet, or all have reported.
LEMMA Returns ==
    ASSUME Core, UNCHANGED <<env, ser, par, result, refused>>, NEW ok \in BOOLEAN, Return(ok),
           Retries => Owed = 0
    PROVE  Core'
<1>1. CoreTyped
  BY DEF Core
<1>2. main' \in MainType /\ main'.at = "done"
  BY <1>1, Zenon DEF CoreTyped, Return, MainType
<1>3. CoreTyped'
  BY <1>1, <1>2 DEF CoreTyped, GoroutineType, MainType
<1>4. Owed' = Owed /\ Retries' = Retries
  BY DEF Owed, Retries
<1>5. Accounted'
  BY <1>2, <1>4, Zenon DEF Accounted
<1>6. Idle'
  BY <1>2, Zenon DEF Idle
<1>7. Held' /\ Tries'
  BY Zenon DEF Core, Held, Tries, Busy
<1>8. Passes'
  <2>1. Busy \/ ser.at = "next" => InPass'
    BY PassKept, Zenon DEF Core, Passes
  <2>2. ser.at = "start" => (/\ Distinct(ser.queue) /\ Apart(ser.queue) /\ Refusals(ser.queue, 0)
                             /\ ser.retry = <<>>)'
    BY DEF Core, Passes, Distinct, Apart, Refusals
  <2>. QED  BY <2>1, <2>2, Zenon DEF Passes, Busy
<1>. QED  BY <1>3, <1>5, <1>6, <1>7, <1>8 DEF Core

\* The result of the sort is a list of the pods, each once.
LEMMA SortedFacts ==
    ASSUME CoreTyped, NEW pods \in SUBSET Pod, NEW s \in Sorted(pods)
    PROVE  /\ s \in Seq(Pod) /\ Len(s) = Cardinality(pods) /\ Distinct(s)
           /\ \A i \in 1..Len(s) : s[i] \in pods
<1>. DEFINE n == Cardinality(pods)
<1>1. n \in Nat
  BY DEF CoreTyped, Counting
<1>2. s \in [1..n -> pods] /\ \A i, j \in DOMAIN s : i # j => s[i] # s[j]
  BY DEF Sorted
<1>. HIDE DEF n
<1>3. s \in Seq(Pod) /\ Len(s) = n
  BY <1>1, <1>2
<1>4. \A i \in 1..Len(s) : s[i] \in pods
  BY <1>2, <1>3
<1>5. Distinct(s)
  BY <1>2, <1>3 DEF Distinct
<1>. QED  BY <1>3, <1>4, <1>5 DEF n

\* The goroutines are started: each pod is either in the list or has a goroutine.
LEMMA EvictionStarts ==
    ASSUME Core, evictPods
    PROVE  Core'
<1>1. /\ CoreTyped /\ main.at = "list" /\ UNCHANGED <<env, result, refused>>
      /\ ser = NoSerial /\ par = [p \in Pod |-> NoGoroutine] /\ main.count = 0
      /\ refused = [p \in Pod |-> 0]
  BY Zenon DEF Core, Idle, evictPods, world
<1>2. CASE PodsForDeletion = {}
  <2>1. Return(TRUE) /\ UNCHANGED <<ser, par>>
    BY <1>2, Zenon DEF evictPods
  <2>2. Owed = 0
    BY <1>1, NothingOwed
  <2>. QED  BY <1>1, <2>1, <2>2, Returns, Zenon
<1>3. CASE PodsForDeletion # {}
  <2>. DEFINE pods == PodsForDeletion
              pv == PodsWithPv(pods)
              at == IF env.mode = "force" THEN "off" ELSE "start"
  <2>1. main' = [main EXCEPT !.at = "wait", !.pods = Cardinality(pods)]
    BY <1>3, Zenon DEF evictPods
  <2>2. PICK s \in Sorted(pv) : ser' = [ser EXCEPT !.at = at, !.queue = s]
    BY <1>3, Zenon DEF evictPods
  <2>3. par' = [p \in Pod |-> IF p \in pods \ pv THEN [NoGoroutine EXCEPT !.at = "call"]
                                               ELSE NoGoroutine]
    BY <1>3, Zenon DEF evictPods
  <2>4. pods \subseteq Pod /\ pv \subseteq pods
    BY DEF PodsForDeletion, PodsWithPv
  <2>5. at \in {"off", "start"}
    OBVIOUS
  <2>. HIDE DEF pods, pv, at
  <2>6. /\ s \in Seq(Pod) /\ Len(s) = Cardinality(pv) /\ Distinct(s)
        /\ \A i \in 1..Len(s) : s[i] \in pv
    BY <1>1, <2>4, SortedFacts
  <2>7. /\ Cardinality(pods) \in Nat /\ Cardinality(pv) \in Nat
        /\ Cardinality(pods \ pv) = Cardinality(pods) - Cardinality(pv)
    <3>1. pods \in SUBSET Pod /\ pv \in SUBSET Pod /\ pv \in SUBSET pods
      BY <2>4, Zenon
    <3>2. \A a \in SUBSET Pod : /\ Cardinality(a) \in Nat
                                /\ \A b \in SUBSET a : Cardinality(a \ b) = Cardinality(a) - Cardinality(b)
      BY <1>1, Zenon DEF CoreTyped, Counting
    <3>. QED  BY <3>1, <3>2, ZenonT(60)
  <2>8. /\ ser' \in SerialType /\ ser'.at \in {"off", "start"} /\ ser'.queue = s
        /\ ser'.retry = <<>>
    BY <1>1, <2>2, <2>5, <2>6, EmptySeq, Zenon DEF NoSerial, SerialType, CoreTyped
  <2>9. /\ main' \in MainType /\ main'.at = "wait" /\ main'.count = 0
        /\ main'.pods = Cardinality(pods)
    BY <1>1, <2>1, <2>7, Zenon DEF CoreTyped, MainType
  <2>10. env.retries \in Nat
    BY <1>1, EnvTyped
  <2>11. /\ par' \in [Pod -> GoroutineType]
         /\ \A p \in Pod : /\ par'[p].tries = 0
                            /\ par'[p].at = IF p \in pods \ pv THEN "call" ELSE "off"
    BY <2>3, <2>10 DEF NoGoroutine, GoroutineType
  <2>12. CoreTyped'
    <3>1. GoroutineType' = GoroutineType
      BY <1>1 DEF GoroutineType
    <3>. QED  BY <1>1, <2>8, <2>9, <2>11, <3>1 DEF CoreTyped, MainType
  <2>13. Accounted'
    <3>1. InParallel' = pods \ pv
      BY <2>4, <2>11 DEF InParallel
    <3>2. Len(ser'.queue) = Cardinality(pv) /\ Len(ser'.retry) = 0
      BY <2>6, <2>8, EmptySeq
    <3>. DEFINE a == Cardinality(pods)  b == Cardinality(pv)  c == Cardinality(pods \ pv)
    <3>3. a \in Nat /\ b \in Nat /\ c = a - b
      BY <2>7
    <3>4. Owed' = b + 0 + c
      BY <2>12, <3>1, <3>2, OwedTypedNext, Zenon
    <3>. HIDE DEF a, b, c
    <3>5. 0 + Owed' = a
      BY <3>3, <3>4
    <3>6. main'.count + Owed' = main'.pods
      BY <2>9, <3>5, Zenon DEF a
    <3>. QED  BY <2>9, <3>6 DEF Accounted
  <2>14. Idle' /\ Held'
    BY <2>8, <2>9 DEF Idle, Held, Busy
  <2>15. Passes'
    <3>1. Apart(ser.queue)'
      BY <2>4, <2>6, <2>8, <2>11 DEF Apart
    <3>2. Refusals(ser.queue, 0)'
      BY <1>1, <2>4, <2>6, <2>8 DEF Refusals
    <3>. QED  BY <2>6, <2>8, <3>1, <3>2 DEF Passes, Busy
  <2>16. Tries'
    BY <1>1, <2>11 DEF Tries
  <2>. QED  BY <2>12, <2>13, <2>14, <2>15, <2>16 DEF Core
<1>. QED  BY <1>2, <1>3

\* What the goroutines rely on does not depend on the caller.
LEMMA GoroutinesUntouched ==
    ASSUME Core, UNCHANGED <<env, ser, par, refused>>
    PROVE  Held' /\ Passes' /\ Tries'
<1>1. Held /\ Passes /\ Tries
  BY DEF Core
<1>2. Held' /\ Tries'
  BY <1>1 DEF Held, Busy, Tries
<1>3. /\ Distinct(ser.queue) => Distinct(ser.queue)'
      /\ Distinct(ser.retry) => Distinct(ser.retry)'
  BY DEF Distinct
<1>4. /\ Apart(ser.queue) => Apart(ser.queue)'
      /\ Apart(ser.retry) => Apart(ser.retry)'
  BY DEF Apart
<1>5. ASSUME NEW n
      PROVE  /\ Refusals(ser.queue, n) => \A i \in 1..Len(ser'.queue) : refused'[ser'.queue[i]] = n
             /\ Refusals(ser.retry, n) => \A i \in 1..Len(ser'.retry) : refused'[ser'.retry[i]] = n
  BY DEF Refusals
<1>6. ASSUME ser.at = "start" PROVE Refusals(ser.queue, 0)'
  BY <1>1, <1>5, <1>6, Zenon DEF Passes, Refusals
<1>7. ASSUME InPass PROVE InPass'
  <2>1. \A i \in 1..Len(ser'.queue), j \in 1..Len(ser'.retry) : ser'.queue[i] # ser'.retry[j]
    BY <1>7 DEF InPass
  <2>2. ser.evict => /\ Refusals(ser.queue, ser.round - 1)'
                     /\ Refusals(ser.retry, ser.round)'
    BY <1>5, <1>7, Zenon DEF InPass, Refusals
  <2>3. ~ser.evict /\ env.mode = "evict" => Refusals(ser.queue, env.retries)'
    BY <1>5, <1>7, Zenon DEF InPass, Refusals
  <2>. QED  BY <1>3, <1>4, <1>7, <2>1, <2>2, <2>3, Zenon DEF InPass
<1>8. Passes'
  BY <1>1, <1>3, <1>4, <1>6, <1>7, Zenon DEF Passes, Busy
<1>. QED  BY <1>2, <1>8

LEMMA CallerSteps ==
    ASSUME Core, Caller
    PROVE  Core'
<1>1. CoreTyped
  BY DEF Core
<1>2. main.at \in {"cordon", "list"} => Owed = 0
  BY <1>1, NothingOwed DEF Core, Idle
<1>3. CASE Cordon
  <2>1. main.at = "cordon" /\ UNCHANGED <<env, ser, par, result, refused>>
    BY <1>3 DEF Cordon, world
  <2>2. CASE main' = [main EXCEPT !.at = "list"]
    <3>1. main' \in MainType /\ main'.at = "list" /\ main'.count = main.count
      BY <1>1, <2>2 DEF CoreTyped, MainType
    <3>2. CoreTyped'
      BY <1>1, <2>1, <3>1 DEF CoreTyped, GoroutineType, MainType
    <3>3. Accounted'
      BY <3>1 DEF Accounted
    <3>4. Idle'
      BY <2>1, <3>1 DEF Core, Idle
    <3>5. Held' /\ Passes' /\ Tries'
      BY <2>1, GoroutinesUntouched
    <3>. QED  BY <3>2, <3>3, <3>4, <3>5 DEF Core
  <2>3. CASE Return(FALSE)
    BY <1>2, <2>1, <2>3, Returns, Zenon
  <2>. QED  BY <1>3, <2>2, <2>3, Zenon DEF Cordon
<1>4. CASE SkipNode
  <2>1. main.at = "cordon" /\ UNCHANGED <<env, ser, par, result, refused>> /\ Return(TRUE)
    BY <1>4, Zenon DEF SkipNode, world
  <2>. QED  BY <1>2, <2>1, Returns, Zenon
<1>5. CASE evictPods
  BY <1>5, EvictionStarts
<1>6. CASE ListFails
  <2>1. main.at = "list" /\ UNCHANGED <<env, ser, par, result, refused>> /\ Return(FALSE)
    BY <1>6, Zenon DEF ListFails, world
  <2>. QED  BY <1>2, <2>1, Returns, Zenon
<1>7. CASE AllReported
  <2>1. /\ main.at = "wait" /\ main.count = main.pods /\ main.ok \in BOOLEAN
        /\ UNCHANGED <<env, ser, par, result, refused>> /\ Return(main.ok)
    BY <1>1, <1>7 DEF AllReported, CoreTyped, world
  <2>2. Owed \in Nat /\ main.count \in Nat
    BY <1>1, OwedTyped, Zenon DEF CoreTyped
  <2>3. Retries => Owed = 0
    BY <2>1, <2>2 DEF Core, Accounted
  <2>. QED  BY <2>1, <2>3, Returns
<1>. QED  BY <1>3, <1>4, <1>5, <1>6, <1>7 DEF Caller

-----------------------------------------------------------------------------
(* The cluster *)

ChanType == {c \in [open: BOOLEAN, buf: Seq(Event), lost: BOOLEAN] : Len(c.buf) <= ChanSize}

LEMMA FaultTyped ==
    ASSUME CoreTyped, WorldTyped, UNCHANGED env, Fault \/ UNCHANGED faults
    PROVE  faults' \in 0..env'.maxFaults
BY EnvTyped DEF WorldTyped, Fault

LEMMA RemovedTyped ==
    ASSUME WorldTyped, NEW p \in Pod, NEW evict,
           Removed(p, evict) \/ RemovedUnseen(p, evict) \/ NotRemoved
    PROVE  /\ pod' \in [Pod -> {"running", "terminating", "gone"}]
           /\ how' \in [Pod -> Removals]
BY DEF WorldTyped, Removed, RemovedUnseen, NotRemoved, Removals

LEMMA ChanTyped ==
    ASSUME WorldTyped
    PROVE  /\ chan \in ChanType
           /\ \A b \in BOOLEAN : [NoWorker EXCEPT !.open = b] \in ChanType
           /\ NoWorker \in ChanType
           /\ chan.buf # <<>> => Received \in ChanType
           /\ \A e \in Event : dispatch(e) \in ChanType
<1>1. chan \in ChanType /\ chan.buf \in Seq(Event) /\ Len(chan.buf) <= ChanSize
  BY DEF WorldTyped, ChanType
<1>2. <<>> \in Seq(Event) /\ Len(<<>>) = 0 /\ ChanSize \in Nat
  BY EmptySeq, ChanSizeAssumption
<1>3. ASSUME NEW b \in BOOLEAN
      PROVE  [open |-> b, buf |-> <<>>, lost |-> FALSE] \in ChanType
  <2>. DEFINE s == <<>>
              w == [open |-> b, buf |-> s, lost |-> FALSE]
  <2>1. s \in Seq(Event) /\ Len(s) <= ChanSize
    BY <1>2
  <2>. HIDE DEF s
  <2>2. w \in [open: BOOLEAN, buf: Seq(Event), lost: BOOLEAN] /\ w.buf = s
    BY <2>1
  <2>. HIDE DEF w
  <2>3. w \in ChanType
    BY <2>1, <2>2 DEF ChanType
  <2>. QED  BY <2>3 DEF w, s
<1>4. NoWorker \in ChanType
  BY <1>3, Zenon DEF NoWorker
<1>5. \A b \in BOOLEAN : [NoWorker EXCEPT !.open = b] \in ChanType
  BY <1>3 DEF NoWorker
<1>6. ASSUME chan.buf # <<>> PROVE Received \in ChanType
  <2>. DEFINE t == Tail(chan.buf)
  <2>1. t \in Seq(Event) /\ Len(t) = Len(chan.buf) - 1 /\ Len(chan.buf) \in Nat
    BY <1>1, <1>6, HeadTailProperties, LenProperties
  <2>2. Len(t) <= ChanSize
    BY <1>1, <1>2, <2>1
  <2>3. Received = [chan EXCEPT !.buf = t]
    BY DEF Received
  <2>. HIDE DEF t
  <2>. QED  BY <1>1, <2>1, <2>2, <2>3 DEF ChanType
<1>7. ASSUME NEW e \in Event PROVE dispatch(e) \in ChanType
  <2>1. CASE ~chan.open
    BY <1>1, <2>1 DEF dispatch
  <2>2. CASE chan.open /\ Len(chan.buf) < ChanSize
    <3>. DEFINE t == Append(chan.buf, e)
    <3>1. t \in Seq(Event) /\ Len(t) = Len(chan.buf) + 1 /\ Len(chan.buf) \in Nat
      BY <1>1, AppendProperties, LenProperties
    <3>2. Len(t) <= ChanSize
      BY <1>2, <2>2, <3>1
    <3>3. dispatch(e) = [chan EXCEPT !.buf = t]
      BY <2>2 DEF dispatch
    <3>. HIDE DEF t
    <3>. QED  BY <1>1, <3>1, <3>2, <3>3 DEF ChanType
  <2>3. CASE chan.open /\ ~(Len(chan.buf) < ChanSize)
    <3>1. dispatch(e) = [chan EXCEPT !.lost = TRUE]
      BY <2>3 DEF dispatch
    <3>. QED  BY <1>1, <3>1, Zenon DEF ChanType
  <2>. QED  BY <2>1, <2>2, <2>3
<1>. QED  BY <1>1, <1>4, <1>5, <1>6, <1>7

\* The goroutines and the caller.
LEMMA WorldSteps ==
    ASSUME Core, WorldTyped, Caller \/ Serial \/ \E p \in Pod : Parallel(p)
    PROVE  WorldTyped'
<1>1. CoreTyped
  BY DEF Core
<1>2. ASSUME UNCHANGED <<env, node, vol, overdue>>, UNCHANGED <<pod, how>>,
             chan' \in ChanType, Fault \/ UNCHANGED faults
      PROVE  WorldTyped'
  <2>1. faults' \in 0..env'.maxFaults
    BY <1>1, <1>2, FaultTyped
  <2>. QED  BY <1>2, <2>1 DEF WorldTyped, ChanType
<1>3. ASSUME UNCHANGED <<env, node, vol, overdue>>, NEW p \in Pod, NEW evict,
             Removed(p, evict) \/ RemovedUnseen(p, evict) \/ NotRemoved,
             chan' \in ChanType, Fault \/ UNCHANGED faults
      PROVE  WorldTyped'
  <2>1. faults' \in 0..env'.maxFaults
    BY <1>1, <1>3, FaultTyped
  <2>2. /\ pod' \in [Pod -> {"running", "terminating", "gone"}]
        /\ how' \in [Pod -> Removals]
    BY <1>3, RemovedTyped
  <2>. QED  BY <1>3, <2>1, <2>2 DEF WorldTyped, ChanType
<1>4. ASSUME Caller PROVE WorldTyped'
  <2>1. UNCHANGED <<env, node, vol, overdue, pod, how, chan>> /\ (Fault \/ UNCHANGED faults)
    BY <1>4, Zenon DEF Caller, Cordon, SkipNode, evictPods, ListFails, AllReported, world
  <2>. QED  BY <1>2, <2>1, ChanTyped
<1>5. ASSUME NEW p \in Pod, Parallel(p) PROVE WorldTyped'
  <2>1. CASE ParallelCall(p)
    <3>1. /\ UNCHANGED <<env, node, vol, overdue, chan>>
          /\ \/ Removed(p, ParallelEvicts(p)) \/ RemovedUnseen(p, ParallelEvicts(p))
             \/ NotRemoved
          /\ Fault \/ UNCHANGED faults
      BY <2>1, Zenon DEF ParallelCall
    <3>. QED  BY <1>3, <3>1, ChanTyped
  <2>2. CASE ~ParallelCall(p)
    <3>1. UNCHANGED <<env, node, vol, overdue, pod, how, chan, faults>>
      BY <1>5, <2>2, Zenon DEF Parallel, ParallelRefused, ParallelBlocked, ParallelWait, world
    <3>. QED  BY <1>2, <3>1, ChanTyped
  <2>. QED  BY <2>1, <2>2
<1>6. ASSUME Serial PROVE WorldTyped'
  <2>1. CASE SerialCall
    <3>1. Current \in Pod
      BY <2>1, CurrentFacts DEF SerialCall, Working, Busy
    <3>2. /\ UNCHANGED <<env, node, vol, overdue>>
          /\ Removed(Current, ser.evict) \/ RemovedUnseen(Current, ser.evict) \/ NotRemoved
          /\ chan' = NoWorker \/ UNCHANGED chan
          /\ Fault \/ UNCHANGED faults
      BY <2>1, Zenon DEF SerialCall
    <3>. QED  BY <1>3, <3>1, <3>2, ChanTyped
  <2>2. CASE evictPodsWithPv
    <3>1. UNCHANGED <<env, node, vol, overdue, pod, how, chan>> /\ (Fault \/ UNCHANGED faults)
      BY <2>2 DEF evictPodsWithPv, world
    <3>. QED  BY <1>2, <3>1, ChanTyped
  <2>3. CASE NextPod
    <3>. DEFINE b == env.csi /\ ~env.inTree
    <3>1. /\ UNCHANGED <<env, node, vol, overdue, pod, how, faults>>
          /\ chan' = [NoWorker EXCEPT !.open = b] \/ UNCHANGED chan
      BY <2>3, Zenon DEF NextPod, world
    <3>2. b \in BOOLEAN
      OBVIOUS
    <3>. HIDE DEF b
    <3>. QED  BY <1>2, <3>1, <3>2, ChanTyped
  <2>4. CASE ReceiveEvent
    <3>1. /\ UNCHANGED <<env, node, vol, overdue, pod, how, faults>>
          /\ chan.buf # <<>> /\ (chan' = NoWorker \/ chan' = Received)
      BY <2>4, Zenon DEF ReceiveEvent, world
    <3>. QED  BY <1>2, <3>1, ChanTyped
  <2>5. CASE NextPass \/ ReportRest
    <3>1. UNCHANGED <<env, node, vol, overdue, pod, how, chan, faults>>
      BY <2>5 DEF NextPass, ReportRest, world
    <3>. QED  BY <1>2, <3>1, ChanTyped
  <2>6. CASE \/ SerialRefused \/ SerialBlocked \/ DetachedInTree \/ Detached \/ NotDetached
             \/ NotReattached
    <3>1. /\ UNCHANGED <<env, node, vol, overdue, pod, how, faults>>
          /\ chan' = NoWorker \/ UNCHANGED chan
      BY <2>6, Zenon DEF SerialRefused, SerialBlocked, DetachedInTree, Detached, NotDetached,
                  NotReattached, world
    <3>. QED  BY <1>2, <3>1, ChanTyped
  <2>. QED  BY <1>6, <2>1, <2>2, <2>3, <2>4, <2>5, <2>6 DEF Serial
<1>. QED  BY <1>4, <1>5, <1>6

LEMMA DrainUnchanged ==
    ASSUME Core, UNCHANGED <<env, main, ser, par, result, refused>>
    PROVE  Core'
<1>1. CoreTyped'
  BY DEF Core, CoreTyped, GoroutineType
<1>2. Idle'
  BY DEF Core, Idle
<1>3. Accounted'
  BY Zenon DEF Core, Accounted, Retries, Owed
<1>4. Held' /\ Passes' /\ Tries'
  BY GoroutinesUntouched
<1>. QED  BY <1>1, <1>2, <1>3, <1>4 DEF Core

\* Steps of others leave the drain alone.
LEMMA OtherSteps ==
    ASSUME IInv, Others
    PROVE  IInv'
<1>1. CoreTyped /\ WorldTyped /\ Core
  BY DEF IInv, Core
<1>2. UNCHANGED <<env, main, ser, par, result, refused>>
  BY Zenon DEF Others, Terminates, DeletedByOthers, Detaches, Attaches, NodeLost, DeadlinePasses
<1>3. Core'
  BY <1>1, <1>2, DrainUnchanged
<1>4. Fault \/ UNCHANGED faults
  BY Zenon DEF Others, Terminates, DeletedByOthers, Detaches, Attaches, NodeLost, DeadlinePasses
<1>5. faults' \in 0..env'.maxFaults
  BY <1>1, <1>2, <1>4, FaultTyped
<1>6. UNCHANGED how
  BY Zenon DEF Others, Terminates, DeletedByOthers, Detaches, Attaches, NodeLost, DeadlinePasses
<1>7. chan' \in ChanType
  <2>1. ASSUME NEW v \in Volume, Attaches(v) PROVE chan' \in ChanType
    <3>. DEFINE e == [vol |-> v, attached |-> vol'[v] = "elsewhere"]
    <3>1. e \in Event
      BY Zenon DEF Event
    <3>2. chan' = dispatch(e)
      BY <2>1 DEF Attaches
    <3>. QED  BY <1>1, <3>1, <3>2, ChanTyped
  <2>. QED  BY <1>1, <2>1, ChanTyped
            DEF Others, Terminates, DeletedByOthers, Detaches, NodeLost, DeadlinePasses
<1>8. node' \in BOOLEAN /\ overdue' \in BOOLEAN
  BY <1>1, Zenon
     DEF WorldTyped, Others, Terminates, DeletedByOthers, Detaches, Attaches, NodeLost,
              DeadlinePasses
<1>9. pod' \in [Pod -> {"running", "terminating", "gone"}]
  <2>1. UNCHANGED pod \/ \E p \in Pod, x \in {"terminating", "gone"} : pod' = [pod EXCEPT ![p] = x]
    BY Zenon DEF Others, Terminates, DeletedByOthers, Detaches, Attaches, NodeLost, DeadlinePasses
  <2>. QED  BY <1>1, <2>1 DEF WorldTyped
<1>10. vol' \in [Volume -> {"here", "detached", "attaching", "elsewhere"}]
  <2>1. \/ UNCHANGED vol
        \/ \E v \in Volume, x \in {"detached", "attaching", "elsewhere"} :
              vol' = [vol EXCEPT ![v] = x]
    BY Zenon DEF Others, Terminates, DeletedByOthers, Detaches, Attaches, NodeLost, DeadlinePasses
  <2>. QED  BY <1>1, <2>1, Zenon DEF WorldTyped
<1>11. WorldTyped'
  BY <1>1, <1>5, <1>6, <1>7, <1>8, <1>9, <1>10 DEF WorldTyped, ChanType
<1>. QED  BY <1>3, <1>11 DEF IInv

-----------------------------------------------------------------------------
(* The theorems *)

LEMMA InitInv == Counting /\ Init => IInv
<1>. HAVE Counting /\ Init
<1>1. env \in Scenarios /\ env.retries \in Nat /\ env.maxFaults \in Nat
  BY ScenariosAssumption DEF Init, Scenario
<1>2. <<>> \in Seq(Pod) /\ <<>> \in Seq(Event) /\ Len(<<>>) = 0
  BY EmptySeq
<1>3. ser \in SerialType
  BY <1>2 DEF Init, NoSerial, SerialType
<1>4. par \in [Pod -> GoroutineType]
  BY <1>1 DEF Init, NoGoroutine, GoroutineType
<1>5. CoreTyped
  BY <1>1, <1>3, <1>4 DEF Init, Waiting, CoreTyped
<1>6. WorldTyped
  <2>. DEFINE s == <<>>
  <2>1. s \in Seq(Event) /\ Len(s) <= ChanSize
    BY <1>2, ChanSizeAssumption
  <2>2. chan = [open |-> FALSE, buf |-> s, lost |-> FALSE]
    BY DEF Init, NoWorker
  <2>. HIDE DEF s
  <2>3. chan \in [open: BOOLEAN, buf: Seq(Event), lost: BOOLEAN] /\ Len(chan.buf) <= ChanSize
    BY <2>1, <2>2
  <2>4. faults \in 0..env.maxFaults
    BY <1>1 DEF Init
  <2>5. /\ pod \in [Pod -> {"running", "terminating", "gone"}]
        /\ vol \in [Volume -> {"here", "detached", "attaching", "elsewhere"}]
        /\ how \in [Pod -> Removals]
    BY DEF Init, Removals
  <2>6. node \in BOOLEAN /\ overdue \in BOOLEAN
    BY Zenon DEF Init
  <2>. QED  BY <2>3, <2>4, <2>5, <2>6 DEF WorldTyped
<1>7. Idle /\ Held /\ Accounted /\ Passes /\ Tries
  BY Zenon DEF Init, Waiting, NoSerial, NoGoroutine, Idle, Held, Accounted, Passes, Tries, Busy
<1>. QED  BY <1>5, <1>6, <1>7 DEF IInv, Core

LEMMA NextInv == IInv /\ [Next]_vars => IInv'
<1>. SUFFICES ASSUME IInv, [Next]_vars PROVE IInv'
  OBVIOUS
<1>1. Core /\ WorldTyped
  BY DEF IInv
<1>2. CASE Caller
  BY <1>1, <1>2, CallerSteps, WorldSteps DEF IInv
<1>3. CASE Serial
  BY <1>1, <1>3, SerialSteps, WorldSteps DEF IInv
<1>4. ASSUME NEW p \in Pod, Parallel(p) PROVE IInv'
  BY <1>1, <1>4, ParallelSteps, WorldSteps DEF IInv
<1>5. CASE Others
  BY <1>5, OtherSteps
<1>6. CASE UNCHANGED vars
  <2>1. Core'
    BY <1>1, <1>6, DrainUnchanged DEF vars
  <2>2. WorldTyped'
    BY <1>1, <1>6 DEF vars, WorldTyped
  <2>. QED  BY <2>1, <2>2 DEF IInv
<1>. QED  BY <1>2, <1>3, <1>4, <1>5, <1>6 DEF Next

-----------------------------------------------------------------------------
(* What the invariant says of a state and of a step *)

LEMMA ReportsOwed == IInv => ResultsAccounted
BY TypesSplit DEF IInv, Core, Accounted, ResultsAccounted

\* A pod is deleted, rather than evicted, after the last refusal only.
LEMMA DeletedLast ==
    ASSUME IInv, [Next]_vars, NEW p \in Pod,
           env.mode = "evict", how[p] = "none", how'[p] \in {"deleted", "deletedUnseen"}
    PROVE  refused[p] = env.retries
<1>1. Core /\ how \in [Pod -> Removals]
  BY DEF IInv, WorldTyped
<1>2. ASSUME NEW q \in Pod, NEW evict, Removed(q, evict) \/ RemovedUnseen(q, evict)
      PROVE  p = q /\ ~evict
  BY <1>1, <1>2 DEF Removed, RemovedUnseen
<1>3. ASSUME NEW q \in Pod, ParallelCall(q) PROVE refused[p] = env.retries
  <2>1. \/ Removed(q, ParallelEvicts(q)) \/ RemovedUnseen(q, ParallelEvicts(q))
        \/ UNCHANGED how
    BY <1>3, Zenon DEF ParallelCall, NotRemoved
  <2>2. p = q /\ ~ParallelEvicts(q) /\ par[q].at = "call"
    BY <1>2, <1>3, <2>1 DEF ParallelCall
  <2>3. /\ par[q].tries \in 0..env.retries /\ env.retries \in Nat /\ refused[p] = par[q].tries
        /\ ~(par[q].tries < env.retries)
    BY <1>1, <2>2, ParallelFacts, Zenon DEF ParallelEvicts
  <2>. QED  BY <2>3
<1>4. CASE SerialCall
  <2>1. Removed(Current, ser.evict) \/ RemovedUnseen(Current, ser.evict) \/ UNCHANGED how
    BY <1>4, Zenon DEF SerialCall, NotRemoved
  <2>2. Current \in Pod /\ InPass /\ Current = ser.queue[1] /\ Len(ser.queue) \in Nat \ {0}
    BY <1>1, <1>4, CurrentFacts, Zenon DEF SerialCall, Working, Busy
  <2>3. p = Current /\ ~ser.evict
    BY <1>2, <2>1, <2>2
  <2>4. 1 \in 1..Len(ser.queue)
    BY <2>2
  <2>. QED  BY <2>2, <2>3, <2>4, Zenon DEF InPass, Refusals
<1>5. CASE UNCHANGED how
  BY <1>5
<1>6. \/ \E q \in Pod : ParallelCall(q)
      \/ SerialCall
      \/ UNCHANGED how
  <2>1. Caller => UNCHANGED how
    BY Zenon DEF Caller, Cordon, SkipNode, evictPods, ListFails, AllReported
  <2>2. Serial => SerialCall \/ UNCHANGED how
    BY Zenon
       DEF Serial, evictPodsWithPv, NextPass, ReportRest, NextPod, SerialRefused, SerialBlocked,
           DetachedInTree, Detached, NotDetached, ReceiveEvent, NotReattached
  <2>3. \A q \in Pod : Parallel(q) => ParallelCall(q) \/ UNCHANGED how
    BY Zenon DEF Parallel, ParallelRefused, ParallelBlocked, ParallelWait
  <2>4. Others => UNCHANGED how
    BY Zenon
       DEF Others, Terminates, DeletedByOthers, Detaches, Attaches, NodeLost, DeadlinePasses
  <2>5. UNCHANGED vars => UNCHANGED how
    BY DEF vars
  <2>. QED  BY <2>1, <2>2, <2>3, <2>4, <2>5 DEF Next
<1>. QED  BY <1>3, <1>4, <1>5, <1>6
==============================================================================
