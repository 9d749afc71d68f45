------------------------- MODULE RunHostDutyProofs -------------------------
(***************************************************************************)
(* Who has each request and what is owed to it, for any number of          *)
(* requests, runs and tasks and any length of the queues: a start or an    *)
(* end is in one place between the host actor and its run worker, it is    *)
(* answered once, and every end that is due is owed by one of them.        *)
(***************************************************************************)
EXTENDS RunHostProofs

(* Who has each request: a start or an end, an errand, is in one place.    *)

Errand(x) == x.kind \in {"start", "finish"}
ErrandJobs(channel) == {x.job : x \in {y \in Range(channel) : Errand(y)}}

Apart(channel) ==
    \A i, k \in DOMAIN channel :
        (i # k /\ Errand(channel[i]) /\ Errand(channel[k])) => channel[i].job # channel[k].job
Distinct(list) == \A i, k \in DOMAIN list : i # k => list[i] # list[k]

Held == Range(HandJobs)
Waits(r) == Range(deferred[r])

EachApart ==
    /\ Apart(works) /\ Apart(outbox) /\ Apart(events)
    /\ Distinct(HandJobs) /\ \A r \in RunIds : Distinct(deferred[r])

OnePlace(j) ==
    /\ j \in ErrandJobs(works) =>
          /\ j \notin Held \union ErrandJobs(outbox) \union ErrandJobs(events)
          /\ \A r \in RunIds : j \notin Waits(r)
    /\ j \in Held =>
          /\ j \notin ErrandJobs(outbox) \union ErrandJobs(events)
          /\ \A r \in RunIds : j \notin Waits(r)
    /\ j \in ErrandJobs(outbox) =>
          /\ j \notin ErrandJobs(events)
          /\ \A r \in RunIds : j \notin Waits(r)
    /\ j \in ErrandJobs(events) => \A r \in RunIds : j \notin Waits(r)
    /\ \A q, r \in RunIds : j \in Waits(q) /\ j \in Waits(r) => q = r

Once == EachApart /\ \A j \in Jobs : OnePlace(j)

\* The worker's entries: of a start until its run has been reported, and of an
\* end.  What has a ticket is an entry, and the first request of a start is the
\* one its run was made for.
StartEntry(r) == pending[r] # NoTicket \/ active[r] = "owned"
EndEntry(r) == pending[r] = NoTicket /\ active[r] = "finishing"

Entries ==
    /\ registry # "open" => works = <<>> /\ outbox = <<>> /\ busy = NoRun /\ Deferred = {}
    /\ busy # NoRun => outbox = <<>> /\ deferred[busy.run] = <<>>
    /\ \A r \in Deferred : \/ pending[r] # NoTicket
                           \/ EndEntry(r) /\ Len(deferred[r]) = 1
    /\ busy # NoRun => \/ StartEntry(busy.run)
                       \/ EndEntry(busy.run) /\ Len(busy.jobs) = 1
    /\ \A r \in RunIds : InHand(r) \/ r \in Deferred => JobRun[Head(Waiting(r))] = r
    /\ \A r \in RunIds : pending[r] # NoTicket => InHand(r) \/ r \in Deferred

\* What is owed is counted, and nothing but the death of the worker leaves more
\* outstanding than there is.
Owing ==
    Len(works) + Len(HandJobs) + Cardinality(WaitPlaces)
        + Cardinality(Answering(outbox)) + Cardinality(Answering(events))

Whole == ~runsDead /\ outstanding = Owing

Counted ==
    /\ outstanding \in Int /\ Owing <= outstanding /\ IsFiniteSet(WaitPlaces)
    /\ registry \in {"down", "open"} => Whole

\* The slot of a start that has no answer, and of an end that was sent.
AwaitsStart(j) ==
    /\ jobs[j] = "pending" /\ slots[j].run = NoRun /\ slots[j].final = "pending"
    /\ ~launchDead => slots[j].preparing
AwaitsEnd(j, r) ==
    r \in RunIds /\ slots[j].run = r /\ slots[j].final = "inflight" /\ child[r] = NoTask

Awaited(x) ==
    /\ x.kind = "start" => AwaitsStart(x.job)
    /\ x.kind = "finish" => AwaitsEnd(x.job, x.run)

SlotsAwait ==
    /\ \A x \in Asked \union Told : Awaited(x)
    /\ \A r \in RunIds : (InHand(r) \/ r \in Deferred) =>
          /\ StartEntry(r) => \A i \in DOMAIN Waiting(r) : AwaitsStart(Waiting(r)[i])
          /\ EndEntry(r) => AwaitsEnd(Head(Waiting(r)), r)

\* A slot has the run that was made for its request.
OwnRuns ==
    /\ \A j \in KnownJobs : slots[j].run # NoRun => JobRun[j] = slots[j].run
    /\ \A e \in Told : (e.kind = "start" /\ e.run # NoRun) => JobRun[e.job] = e.run

\* An answer that settles its run, one that leaves a process to its slot, and
\* what the slots know of both.
InUseNow(r) == active[r] \in {"owned", "finishing"}
Settles(e) == \/ e.kind = "start" /\ e.confirmed /\ e.run # NoRun
              \/ e.kind = "finish" /\ e.ok

RunsFollowed ==
    /\ \A j \in KnownJobs : slots[j].run # NoRun =>
          jobs[j] # "pending" /\ (slots[j].runtime \/ child[slots[j].run] = NoTask)
    /\ \A e \in Told : /\ Settles(e) => ~InUseNow(e.run)
                       /\ (e.kind = "start" /\ e.run # NoRun /\ ~e.runtime)
                             => child[e.run] = NoTask /\ ~e.ok
    /\ \A r \in RunIds : child[r] # NoTask =>
          \/ InHand(r)
          \/ \E e \in Told : e.kind = "start" /\ e.runtime /\ e.run = r
          \/ \E j \in KnownJobs : slots[j].run = r /\ slots[j].runtime

Owed(r) ==
    \/ InHand(r)
    \/ \E e \in Told : e.kind = "start" /\ e.run = r
    \/ \E j \in KnownJobs : slots[j].run = r /\ slots[j].final # "done"

EndsOwed == ~LaunchMayDie => /\ ~launchDead
                             /\ \A r \in RunIds : InUseNow(r) => Owed(r)

PendingPlaced ==
    \A j \in KnownJobs : jobs[j] = "pending" =>
        \/ j \in ErrandJobs(works) \union Held \union ErrandJobs(outbox) \union ErrandJobs(events)
        \/ \E r \in RunIds : j \in Waits(r)

\* The registry's records under this worker: made here, each with an entry, and
\* saved before the entry is released.
Ledgered ==
    /\ registry = "down" => \A r \in RunIds : ledger[r] = NoRun
    /\ \A r \in RunIds : active[r] = "none" => runs[r] = NoRun
    /\ \A r \in RunIds : active[r] = "released" => ledger[r] \in {runs[r], NoRun}

DutyInv ==
    /\ Once /\ Entries /\ Counted /\ OwnRuns /\ Ledgered
    /\ Whole => SlotsAwait /\ RunsFollowed /\ EndsOwed /\ PendingPlaced
-----------------------------------------------------------------------------
(* Counting.                                                               *)

\* The items of a channel that are answers are numbered by their places.
LEMMA AnsweringFinite ==
    ASSUME NEW S, NEW s \in Seq(S)
    PROVE  IsFiniteSet(Answering(s)) /\ Cardinality(Answering(s)) \in Nat
<1>1. Len(s) \in Nat /\ DOMAIN s = 1..Len(s) /\ Answering(s) \in SUBSET (1..Len(s))
  BY DEF Answering
<1>2. IsFiniteSet(1..Len(s))
  BY <1>1, FS_Interval
<1> QED BY <1>1, <1>2, FS_Subset, FS_CardinalityType

\* The answers in two joined sequences.
LEMMA AnsweringConcat ==
    ASSUME NEW S, NEW s \in Seq(S), NEW t \in Seq(S)
    PROVE  Cardinality(Answering(s \o t)) = Cardinality(Answering(s)) + Cardinality(Answering(t))
<1> DEFINE n == Len(s)
           a == s \o t
           Moved == {i \in (n + 1)..(n + Len(t)) : Answers(t[i - n])}
           f == [i \in Answering(t) |-> n + i]
<1>0. /\ n \in Nat /\ Len(t) \in Nat /\ DOMAIN s = 1..n /\ DOMAIN t = 1..Len(t)
      /\ DOMAIN a = 1..(n + Len(t)) /\ \A i \in 1..(n + Len(t)) : a[i] = IF i <= n THEN s[i] ELSE t[i - n]
  BY ConcatProperties
<1>1. IsFiniteSet(Answering(s)) /\ IsFiniteSet(Answering(t))
      /\ Cardinality(Answering(s)) \in Nat /\ Cardinality(Answering(t)) \in Nat
  BY AnsweringFinite
<1> HIDE DEF a, n
<1>2. \A i \in Answering(t) : i \in 1..Len(t) /\ Answers(t[i])
  BY <1>0 DEF Answering
<1>3. \A i \in Answering(t) : n + i \in Moved
  <2>1. \A i \in Answering(t) : n + i \in (n + 1)..(n + Len(t)) /\ (n + i) - n = i
    BY <1>0, <1>2
  <2> QED BY <1>2, <2>1
<1>4. \A k \in Moved : k - n \in Answering(t) /\ n + (k - n) = k
  BY <1>0 DEF Answering
<1>5. f \in Bijection(Answering(t), Moved)
  <2>1. f \in [Answering(t) -> Moved]
    BY <1>3
  <2>2. \A i, k \in Answering(t) : f[i] = f[k] => i = k
    BY <1>0, <1>2
  <2>3. \A k \in Moved : \E i \in Answering(t) : f[i] = k
    BY <1>4
  <2> HIDE DEF f, Moved
  <2> QED BY <2>1, <2>2, <2>3 DEF Bijection, Injection, Surjection, IsInjective
<1>6. IsFiniteSet(Moved) /\ Cardinality(Moved) = Cardinality(Answering(t))
  <2>1. ExistsBijection(Answering(t), Moved)
    BY <1>5 DEF ExistsBijection
  <2> HIDE DEF Moved
  <2> QED BY <1>1, <2>1, FS_Bijection
<1>7. Answering(a) = Answering(s) \union Moved
  <2>1. \A i \in Answering(a) : i \in Answering(s) \union Moved
    BY <1>0 DEF Answering
  <2>2. \A i \in Answering(s) \union Moved : i \in Answering(a)
    BY <1>0 DEF Answering
  <2> HIDE DEF Moved
  <2> QED BY <2>1, <2>2
<1>8. Answering(s) \intersect Moved = {}
  BY <1>0 DEF Answering
<1> HIDE DEF Moved
<1>9. Cardinality(Answering(s) \intersect Moved) = 0
  BY <1>8, FS_EmptySet
<1>10. Cardinality(Answering(s) \union Moved)
          = Cardinality(Answering(s)) + Cardinality(Moved) - Cardinality(Answering(s) \intersect Moved)
  BY <1>1, <1>6, FS_Union
<1>11. Cardinality(Answering(a)) = Cardinality(Answering(s)) + Cardinality(Answering(t))
  BY <1>1, <1>6, <1>7, <1>9, <1>10
<1> QED BY <1>11 DEF a

\* An answer counts for one, a time-out for none.
LEMMA AnsweringOne ==
    /\ Cardinality(Answering(<<>>)) = 0
    /\ \A x : Cardinality(Answering(<<x>>)) = IF Answers(x) THEN 1 ELSE 0
<1>1. Answering(<<>>) = {}
  BY DEF Answering
<1>2. ASSUME NEW x PROVE Answering(<<x>>) = IF Answers(x) THEN {1} ELSE {}
  BY DEF Answering
<1> QED BY <1>1, <1>2, FS_EmptySet, FS_Singleton

\* One answer more at the end, one less at the head.
LEMMA AnsweringMoves ==
    ASSUME NEW S, NEW s \in Seq(S)
    PROVE  /\ \A x \in S : Cardinality(Answering(Append(s, x)))
                              = Cardinality(Answering(s)) + (IF Answers(x) THEN 1 ELSE 0)
           /\ s # <<>> => Cardinality(Answering(Tail(s)))
                              = Cardinality(Answering(s)) - (IF Answers(Head(s)) THEN 1 ELSE 0)
<1>1. ASSUME NEW x \in S
      PROVE  Cardinality(Answering(Append(s, x)))
                = Cardinality(Answering(s)) + (IF Answers(x) THEN 1 ELSE 0)
  <2> DEFINE one == <<x>>
  <2>1. one \in Seq(S) /\ Append(s, x) = s \o one
    BY AppendIsConcat
  <2>2. Cardinality(Answering(one)) = IF Answers(x) THEN 1 ELSE 0
    BY AnsweringOne
  <2> HIDE DEF one
  <2>3. Cardinality(Answering(s \o one)) = Cardinality(Answering(s)) + Cardinality(Answering(one))
    BY <2>1, AnsweringConcat
  <2> QED BY <2>1, <2>2, <2>3
<1>2. ASSUME s # <<>>
      PROVE  Cardinality(Answering(Tail(s)))
                = Cardinality(Answering(s)) - (IF Answers(Head(s)) THEN 1 ELSE 0)
  <2> DEFINE one == <<Head(s)>>
             rest == Tail(s)
  <2>0. /\ Head(s) = s[1] /\ Head(s) \in S /\ rest \in Seq(S) /\ Len(s) \in Nat \ {0}
        /\ Len(rest) = Len(s) - 1 /\ \A i \in 1..(Len(s) - 1) : rest[i] = s[i + 1]
    BY <1>2, HeadTailProperties, EmptySeq
  <2>a. one \in Seq(S) /\ Len(one) = 1 /\ one[1] = s[1]
    BY <2>0
  <2>b. one \o rest \in Seq(S) /\ Len(one \o rest) = Len(s)
        /\ \A i \in 1..Len(s) : (one \o rest)[i] = IF i <= 1 THEN one[i] ELSE rest[i - 1]
    <3> HIDE DEF one, rest
    <3>1. /\ one \o rest \in Seq(S) /\ Len(one \o rest) = Len(one) + Len(rest)
          /\ \A i \in 1..(Len(one) + Len(rest)) :
                (one \o rest)[i] = IF i <= Len(one) THEN one[i] ELSE rest[i - Len(one)]
      BY <2>0, <2>a, ConcatProperties
    <3> QED BY <2>0, <2>a, <3>1
  <2>1. one \in Seq(S) /\ rest \in Seq(S) /\ s = one \o rest
    <3> HIDE DEF one, rest
    <3>1. \A i \in 1..Len(s) : (one \o rest)[i] = s[i]
      <4> SUFFICES ASSUME NEW i \in 1..Len(s) PROVE (one \o rest)[i] = s[i]
        OBVIOUS
      <4>1. CASE i = 1
        BY <2>0, <2>a, <2>b, <4>1
      <4>2. CASE i # 1
        <5>1. i - 1 \in 1..(Len(s) - 1) /\ (i - 1) + 1 = i /\ ~(i <= 1)
          BY <2>0, <4>2
        <5> QED BY <2>0, <2>b, <5>1
      <4> QED BY <4>1, <4>2
    <3> QED BY <2>0, <2>a, <2>b, <3>1, SeqEqual
  <2>2. Cardinality(Answering(one)) = IF Answers(Head(s)) THEN 1 ELSE 0
    BY AnsweringOne
  <2> HIDE DEF one, rest
  <2>3. Cardinality(Answering(s)) = Cardinality(Answering(one)) + Cardinality(Answering(rest))
    BY <2>1, AnsweringConcat
  <2>4. Cardinality(Answering(rest)) \in Nat
    BY <2>1, AnsweringFinite
  <2>5. Cardinality(Answering(rest)) = Cardinality(Answering(s)) - (IF Answers(Head(s)) THEN 1 ELSE 0)
    BY <2>2, <2>3, <2>4
  <2> QED BY <2>5 DEF rest
<1> QED BY <1>1, <1>2

\* A sequence of answers has as many as its length.
LEMMA AllAnswer ==
    ASSUME NEW S, NEW s \in Seq(S), \A i \in 1..Len(s) : Answers(s[i])
    PROVE  Cardinality(Answering(s)) = Len(s)
<1>1. Len(s) \in Nat /\ Answering(s) = 1..Len(s)
  BY DEF Answering
<1>2. Cardinality(1..Len(s)) = IF 1 > Len(s) THEN 0 ELSE Len(s) - 1 + 1
  BY <1>1, FS_Interval
<1> QED BY <1>1, <1>2

\* A request that joins an entry, or makes one, takes one more place; ...
LEMMA WaitGrows ==
    ASSUME NEW S, deferred \in [RunIds -> Seq(S)], IsFiniteSet(WaitPlaces),
           NEW r \in RunIds, NEW j \in S, deferred' = [deferred EXCEPT ![r] = Append(@, j)]
    PROVE  /\ IsFiniteSet(WaitPlaces') /\ Cardinality(WaitPlaces') = Cardinality(WaitPlaces) + 1
           /\ deferred'[r] = Append(deferred[r], j) /\ \A q \in RunIds : q # r => deferred'[q] = deferred[q]
<1> DEFINE n == Len(deferred[r])
<1>0. deferred[r] \in Seq(S) /\ n \in Nat /\ \A q \in RunIds : DOMAIN deferred[q] = 1..Len(deferred[q])
  OBVIOUS
<1>1. deferred'[r] = Append(deferred[r], j) /\ \A q \in RunIds : q # r => deferred'[q] = deferred[q]
  OBVIOUS
<1>2. DOMAIN deferred'[r] = 1..(n + 1)
  BY <1>0, <1>1, AppendProperties
<1> HIDE DEF n
<1>3. WaitPlaces' = WaitPlaces \union {<<r, n + 1>>}
  <2>1. \A p \in WaitPlaces' : p \in WaitPlaces \union {<<r, n + 1>>}
    <3> SUFFICES ASSUME NEW q \in RunIds, NEW i \in DOMAIN deferred'[q]
                 PROVE  <<q, i>> \in WaitPlaces \union {<<r, n + 1>>}
      BY DEF WaitPlaces
    <3>1. CASE q # r
      BY <1>1, <3>1 DEF WaitPlaces
    <3>2. CASE q = r
      <4>1. i \in 1..n \/ i = n + 1
        BY <1>0, <1>2, <3>2
      <4>2. CASE i \in 1..n
        <5>1. i \in DOMAIN deferred[r]
          BY <1>0, <4>2 DEF n
        <5> QED BY <3>2, <5>1 DEF WaitPlaces
      <4> QED BY <3>2, <4>1, <4>2
    <3> QED BY <3>1, <3>2
  <2>2. \A p \in WaitPlaces : p \in WaitPlaces'
    <3> SUFFICES ASSUME NEW q \in RunIds, NEW i \in DOMAIN deferred[q]
                 PROVE  <<q, i>> \in WaitPlaces'
      BY DEF WaitPlaces
    <3>1. CASE q # r
      BY <1>1, <3>1 DEF WaitPlaces
    <3>2. CASE q = r
      <4>1. i \in DOMAIN deferred'[r]
        BY <1>0, <1>2, <3>2 DEF n
      <4> QED BY <3>2, <4>1 DEF WaitPlaces
    <3> QED BY <3>1, <3>2
  <2>3. n + 1 \in DOMAIN deferred'[r]
    BY <1>0, <1>2
  <2>4. <<r, n + 1>> \in WaitPlaces'
    BY <2>3 DEF WaitPlaces
  <2> QED BY <2>1, <2>2, <2>4
<1>4. <<r, n + 1>> \notin WaitPlaces
  <2> SUFFICES ASSUME <<r, n + 1>> \in WaitPlaces PROVE FALSE
    OBVIOUS
  <2>1. n + 1 \in DOMAIN deferred[r]
    BY DEF WaitPlaces
  <2> QED BY <1>0, <2>1 DEF n
<1> DEFINE p == <<r, n + 1>>
<1> HIDE DEF p
<1>5. WaitPlaces' = WaitPlaces \union {p} /\ p \notin WaitPlaces
  BY <1>3, <1>4 DEF p
<1> QED BY <1>1, <1>5, FS_AddElement

\* ... and an entry that leaves the list frees its own.
LEMMA WaitClears ==
    ASSUME NEW S, deferred \in [RunIds -> Seq(S)], IsFiniteSet(WaitPlaces),
           NEW r \in RunIds, deferred' = [deferred EXCEPT ![r] = <<>>]
    PROVE  /\ IsFiniteSet(WaitPlaces') /\ Cardinality(WaitPlaces') \in Nat
           /\ Cardinality(WaitPlaces) = Cardinality(WaitPlaces') + Len(deferred[r])
           /\ deferred'[r] = <<>> /\ \A q \in RunIds : q # r => deferred'[q] = deferred[q]
<1> DEFINE n == Len(deferred[r])
           Gone == {r} \X (1..n)
<1>0. deferred[r] \in Seq(S) /\ n \in Nat /\ DOMAIN deferred[r] = 1..n
  OBVIOUS
<1>1. deferred'[r] = <<>> /\ \A q \in RunIds : q # r => deferred'[q] = deferred[q]
  OBVIOUS
<1> HIDE DEF n
<1>2. WaitPlaces' = WaitPlaces \ Gone
  <2>1. \A p \in WaitPlaces' : p \in WaitPlaces \ Gone
    <3> SUFFICES ASSUME NEW q \in RunIds, NEW i \in DOMAIN deferred'[q]
                 PROVE  <<q, i>> \in WaitPlaces \ Gone
      BY DEF WaitPlaces
    <3>1. q # r
      BY <1>1
    <3> QED BY <1>1, <3>1 DEF WaitPlaces
  <2>2. \A p \in WaitPlaces \ Gone : p \in WaitPlaces'
    <3> SUFFICES ASSUME NEW q \in RunIds, NEW i \in DOMAIN deferred[q], <<q, i>> \notin Gone
                 PROVE  <<q, i>> \in WaitPlaces'
      BY DEF WaitPlaces
    <3>1. q # r
      BY <1>0
    <3> QED BY <1>1, <3>1 DEF WaitPlaces
  <2> QED BY <2>1, <2>2
<1>3. WaitPlaces \intersect Gone = Gone
  <2>1. \A i \in 1..n : <<r, i>> \in WaitPlaces
    BY <1>0 DEF WaitPlaces
  <2> QED BY <2>1
<1>4. Cardinality(Gone) = n
  <2>1. IsFiniteSet(1..n) /\ Cardinality(1..n) = n
    <3>1. IsFiniteSet(1..n) /\ Cardinality(1..n) = IF 1 > n THEN 0 ELSE n - 1 + 1
      BY <1>0, FS_Interval
    <3> QED BY <1>0, <3>1
  <2>2. Cardinality({r} \X (1..n)) = Cardinality({r}) * Cardinality(1..n)
    BY <2>1, FS_Singleton, FS_Product
  <2>3. Cardinality({r}) = 1
    BY FS_Singleton
  <2>4. Cardinality({r} \X (1..n)) = 1 * n
    BY <2>1, <2>2, <2>3
  <2>5. 1 * n = n
    BY <1>0
  <2> QED BY <2>4, <2>5
<1> HIDE DEF Gone
<1>5. /\ IsFiniteSet(WaitPlaces \ Gone)
      /\ Cardinality(WaitPlaces \ Gone) = Cardinality(WaitPlaces) - Cardinality(WaitPlaces \intersect Gone)
  BY FS_Difference
<1>6. Cardinality(WaitPlaces) \in Nat /\ Cardinality(WaitPlaces') \in Nat
  BY <1>2, <1>5, FS_CardinalityType
<1>7. Cardinality(WaitPlaces) = Cardinality(WaitPlaces') + n
  <2>1. Cardinality(WaitPlaces \intersect Gone) = n
    BY <1>3, <1>4
  <2>2. Cardinality(WaitPlaces \ Gone) = Cardinality(WaitPlaces')
    BY <1>2
  <2>3. Cardinality(WaitPlaces') = Cardinality(WaitPlaces) - n
    BY <1>5, <2>1, <2>2
  <2> QED BY <1>0, <1>6, <2>3
<1> QED BY <1>1, <1>2, <1>5, <1>6, <1>7 DEF n
-----------------------------------------------------------------------------
(* Errands in a channel.                                                   *)

\* The errands of a channel with one more item.
LEMMA ErrandsAppend ==
    ASSUME NEW S, NEW s \in Seq(S), NEW x \in S
    PROVE  /\ ErrandJobs(Append(s, x)) = ErrandJobs(s) \union (IF Errand(x) THEN {x.job} ELSE {})
           /\ Apart(s) /\ (Errand(x) => x.job \notin ErrandJobs(s)) => Apart(Append(s, x))
<1> DEFINE a == Append(s, x)
<1>0. /\ Len(s) \in Nat /\ DOMAIN s = 1..Len(s) /\ DOMAIN a = 1..(Len(s) + 1)
      /\ a[Len(s) + 1] = x /\ \A i \in 1..Len(s) : a[i] = s[i]
  BY AppendProperties
<1>1. Range(a) = Range(s) \union {x}
  BY RangeAppend
<1>2. \A i \in 1..Len(s) : Errand(s[i]) => s[i].job \in ErrandJobs(s)
  BY <1>0 DEF ErrandJobs, Range
<1> HIDE DEF a
<1>3. ErrandJobs(a) = ErrandJobs(s) \union (IF Errand(x) THEN {x.job} ELSE {})
  BY <1>1 DEF ErrandJobs
<1>4. ASSUME Apart(s), Errand(x) => x.job \notin ErrandJobs(s) PROVE Apart(a)
  <2> SUFFICES ASSUME NEW i \in DOMAIN a, NEW k \in DOMAIN a, i # k, Errand(a[i]), Errand(a[k])
               PROVE  a[i].job # a[k].job
    BY DEF Apart
  <2>1. (i \in 1..Len(s) \/ i = Len(s) + 1) /\ (k \in 1..Len(s) \/ k = Len(s) + 1)
    BY <1>0
  <2>2. CASE i \in 1..Len(s) /\ k \in 1..Len(s)
    BY <1>0, <1>4, <2>2 DEF Apart
  <2>3. CASE i \in 1..Len(s) /\ k = Len(s) + 1
    BY <1>0, <1>2, <1>4, <2>3
  <2>4. CASE k \in 1..Len(s) /\ i = Len(s) + 1
    BY <1>0, <1>2, <1>4, <2>4
  <2> QED BY <2>1, <2>2, <2>3, <2>4
<1> QED BY <1>3, <1>4 DEF a

\* The errands of a channel without its head.
LEMMA ErrandsTail ==
    ASSUME NEW S, NEW s \in Seq(S), s # <<>>
    PROVE  /\ ErrandJobs(s) = ErrandJobs(Tail(s)) \union (IF Errand(Head(s)) THEN {Head(s).job} ELSE {})
           /\ Apart(s) => Apart(Tail(s)) /\ (Errand(Head(s)) => Head(s).job \notin ErrandJobs(Tail(s)))
<1> DEFINE a == Tail(s)
<1>0. /\ Len(s) \in Nat \ {0} /\ DOMAIN s = 1..Len(s) /\ DOMAIN a = 1..(Len(s) - 1)
      /\ Head(s) = s[1] /\ \A i \in 1..(Len(s) - 1) : a[i] = s[i + 1] /\ i + 1 \in 1..Len(s)
  BY HeadTailProperties, EmptySeq
<1>1. Range(s) = Range(a) \union {Head(s)}
  BY SequenceRange
<1> HIDE DEF a
<1>2. ErrandJobs(s) = ErrandJobs(a) \union (IF Errand(Head(s)) THEN {Head(s).job} ELSE {})
  BY <1>1 DEF ErrandJobs
<1>3. ASSUME Apart(s) PROVE Apart(a)
  <2> SUFFICES ASSUME NEW i \in DOMAIN a, NEW k \in DOMAIN a, i # k, Errand(a[i]), Errand(a[k])
               PROVE  a[i].job # a[k].job
    BY DEF Apart
  <2>1. i + 1 # k + 1 /\ i + 1 \in DOMAIN s /\ k + 1 \in DOMAIN s /\ a[i] = s[i + 1] /\ a[k] = s[k + 1]
    BY <1>0
  <2> QED BY <1>3, <2>1 DEF Apart
<1>4. ASSUME Apart(s), Errand(Head(s)), Head(s).job \in ErrandJobs(a) PROVE FALSE
  <2>1. PICK i \in 1..(Len(s) - 1) : Errand(a[i]) /\ a[i].job = Head(s).job
    BY <1>0, <1>4 DEF ErrandJobs, Range
  <2>2. i + 1 \in DOMAIN s /\ 1 \in DOMAIN s /\ i + 1 # 1 /\ Errand(s[i + 1]) /\ Errand(s[1])
        /\ s[i + 1].job = s[1].job
    BY <1>0, <1>4, <2>1
  <2> QED BY <1>4, <2>2 DEF Apart
<1> QED BY <1>2, <1>3, <1>4 DEF a

\* Items that are no errands change nothing.
LEMMA ErrandsConcat ==
    ASSUME NEW S, NEW s \in Seq(S), NEW more \in Seq(S), \A x \in Range(more) : ~Errand(x)
    PROVE  ErrandJobs(s \o more) = ErrandJobs(s) /\ (Apart(s) => Apart(s \o more))
<1> DEFINE a == s \o more
           n == Len(s)
<1>0. /\ n \in Nat /\ Len(more) \in Nat /\ DOMAIN s = 1..n /\ DOMAIN a = 1..(n + Len(more))
      /\ \A i \in 1..(n + Len(more)) : a[i] = IF i <= n THEN s[i] ELSE more[i - n]
      /\ DOMAIN more = 1..Len(more)
  BY ConcatProperties
<1>1. Range(a) = Range(s) \union Range(more)
  BY SequenceRange
<1> HIDE DEF a, n
<1>2. ErrandJobs(a) = ErrandJobs(s)
  BY <1>1 DEF ErrandJobs
<1>3. \A i \in DOMAIN a : Errand(a[i]) => i \in DOMAIN s /\ a[i] = s[i]
  <2> SUFFICES ASSUME NEW i \in DOMAIN a, Errand(a[i]) PROVE i \in DOMAIN s /\ a[i] = s[i]
    OBVIOUS
  <2>1. CASE i <= n
    BY <1>0, <2>1
  <2>2. CASE ~(i <= n)
    <3>1. i - n \in 1..Len(more) /\ a[i] = more[i - n]
      BY <1>0, <2>2
    <3>2. more[i - n] \in Range(more)
      BY <1>0, <3>1 DEF Range
    <3> QED BY <3>1, <3>2
  <2> QED BY <2>1, <2>2
<1>4. Apart(s) => Apart(a)
  BY <1>3 DEF Apart
<1> QED BY <1>2, <1>4 DEF a

\* A channel with nothing or one item in it.
LEMMA ErrandsFew ==
    /\ Range(<<>>) = {} /\ ErrandJobs(<<>>) = {} /\ Apart(<<>>) /\ Distinct(<<>>)
    /\ \A x : /\ Range(<<x>>) = {x} /\ Apart(<<x>>) /\ Distinct(<<x>>)
              /\ ErrandJobs(<<x>>) = IF Errand(x) THEN {x.job} ELSE {}
<1>1. Range(<<>>) = {} /\ \A x : Range(<<x>>) = {x}
  BY DEF Range
<1>2. ErrandJobs(<<>>) = {} /\ \A x : ErrandJobs(<<x>>) = IF Errand(x) THEN {x.job} ELSE {}
  BY <1>1 DEF ErrandJobs
<1>3. Apart(<<>>) /\ \A x : Apart(<<x>>)
  BY DEF Apart
<1>4. Distinct(<<>>) /\ \A x : Distinct(<<x>>)
  BY DEF Distinct
<1> QED BY <1>1, <1>2, <1>3, <1>4

\* A list that one new request joins.
LEMMA DistinctAppend ==
    ASSUME NEW S, NEW s \in Seq(S), NEW x \in S, Distinct(s), x \notin Range(s)
    PROVE  Distinct(Append(s, x)) /\ Range(Append(s, x)) = Range(s) \union {x}
<1> DEFINE a == Append(s, x)
<1>0. /\ Len(s) \in Nat /\ DOMAIN s = 1..Len(s) /\ DOMAIN a = 1..(Len(s) + 1)
      /\ a[Len(s) + 1] = x /\ \A i \in 1..Len(s) : a[i] = s[i]
  BY AppendProperties
<1>1. Range(a) = Range(s) \union {x}
  BY RangeAppend
<1>2. \A i \in 1..Len(s) : s[i] # x
  BY <1>0 DEF Range
<1> HIDE DEF a
<1>3. Distinct(a)
  <2> SUFFICES ASSUME NEW i \in DOMAIN a, NEW k \in DOMAIN a, i # k PROVE a[i] # a[k]
    BY DEF Distinct
  <2>1. (i \in 1..Len(s) \/ i = Len(s) + 1) /\ (k \in 1..Len(s) \/ k = Len(s) + 1)
    BY <1>0
  <2> QED BY <1>0, <1>2, <2>1 DEF Distinct
<1> QED BY <1>1, <1>3 DEF a

\* What is told when an entry ends: each of its requests, once.
LEMMA StartEndsJobs ==
    ASSUME NEW list \in Seq(KnownJobs), list # <<>>, Distinct(list),
           NEW reply \in GoodEvent, Errand(reply), reply.job = Head(list), reply.ok \in BOOLEAN,
           StartEnds(reply, Tail(list))
    PROVE  /\ Len(outbox') = Len(list) /\ Apart(outbox') /\ ErrandJobs(outbox') = Range(list)
           /\ Cardinality(Answering(outbox')) = Len(list)
           /\ outbox' \in Seq(GoodEvent)
<1> DEFINE one == <<reply>>
           rest == Tail(list)
           shared == Shared(rest, reply.ok)
<1>0. /\ Len(list) \in Nat \ {0} /\ DOMAIN list = 1..Len(list) /\ Head(list) = list[1]
      /\ rest \in Seq(KnownJobs) /\ Len(rest) = Len(list) - 1
      /\ \A i \in 1..(Len(list) - 1) : rest[i] = list[i + 1]
  BY HeadTailProperties, EmptySeq
<1>1. one \in Seq(GoodEvent) /\ Len(one) = 1 /\ one[1] = reply
  OBVIOUS
<1>2. /\ shared \in Seq(GoodEvent) /\ Len(shared) = Len(rest)
      /\ \A i \in 1..Len(rest) : shared[i].kind = "start" /\ shared[i].job = rest[i]
  <2> HIDE DEF rest
  <2> QED BY <1>0, SharedGood
<1>3. outbox' = one \o shared
  BY DEF StartEnds
<1> HIDE DEF one, rest, shared
<1>4. /\ outbox' \in Seq(GoodEvent) /\ Len(outbox') = Len(list)
      /\ \A i \in 1..Len(list) : outbox'[i] = IF i <= 1 THEN reply ELSE shared[i - 1]
  <2>1. /\ one \o shared \in Seq(GoodEvent) /\ Len(one \o shared) = 1 + (Len(list) - 1)
        /\ \A i \in 1..(1 + (Len(list) - 1)) : (one \o shared)[i] = IF i <= 1 THEN one[i] ELSE shared[i - 1]
    <3>0. one \in Seq(GoodEvent) /\ shared \in Seq(GoodEvent)
      BY <1>1, <1>2
    <3>1. /\ one \o shared \in Seq(GoodEvent) /\ Len(one \o shared) = Len(one) + Len(shared)
          /\ \A i \in 1..(Len(one) + Len(shared)) :
                (one \o shared)[i] = IF i <= Len(one) THEN one[i] ELSE shared[i - Len(one)]
      BY <3>0, ConcatProperties
    <3>2. Len(one) = 1 /\ Len(shared) = Len(list) - 1
      BY <1>0, <1>1, <1>2
    <3> QED BY <3>1, <3>2
  <2>2. 1 + (Len(list) - 1) = Len(list) /\ \A i \in 1..Len(list) : i <= 1 => i = 1
    BY <1>0
  <2> QED BY <1>1, <1>3, <2>1, <2>2
<1>5. \A i \in 1..Len(list) : Errand(outbox'[i]) /\ outbox'[i].job = list[i]
  <2> SUFFICES ASSUME NEW i \in 1..Len(list) PROVE Errand(outbox'[i]) /\ outbox'[i].job = list[i]
    OBVIOUS
  <2>1. CASE i = 1
    BY <1>0, <1>4, <2>1
  <2>2. CASE i # 1
    <3>1. i - 1 \in 1..Len(rest) /\ (i - 1) + 1 = i /\ ~(i <= 1) /\ i - 1 \in 1..(Len(list) - 1)
      BY <1>0, <2>2
    <3>2. outbox'[i] = shared[i - 1] /\ rest[i - 1] = list[i]
      BY <1>0, <1>4, <3>1
    <3> QED BY <1>2, <3>1, <3>2 DEF Errand
  <2> QED BY <2>1, <2>2
<1>6. DOMAIN outbox' = 1..Len(list)
  BY <1>4
<1>7. Apart(outbox')
  BY <1>0, <1>5, <1>6 DEF Apart, Distinct
<1>8. ErrandJobs(outbox') = Range(list)
  BY <1>0, <1>5, <1>6 DEF ErrandJobs, Range
<1>9. \A i \in 1..Len(outbox') : Answers(outbox'[i])
  BY <1>4, <1>5 DEF Answers, Errand
<1>10. Cardinality(Answering(outbox')) = Len(outbox')
  BY <1>4, <1>9, AllAnswer
<1> QED BY <1>4, <1>7, <1>8, <1>10
-----------------------------------------------------------------------------
(* How the errands move.                                                   *)

\* A request that nobody has.
Nowhere(j) ==
    /\ j \notin ErrandJobs(works) \union Held \union ErrandJobs(outbox) \union ErrandJobs(events)
    /\ \A r \in RunIds : j \notin Waits(r)

\* Other work, cancellations, that is sent; and answers that are received.
Grows(received) ==
    /\ registry # "open" => UNCHANGED works
    /\ \E more \in Seq({w \in GoodWork : ~Errand(w)}) :
          works' = works \o more /\ outstanding' = outstanding + Len(more) - received

StayMove == Grows(0) /\ UNCHANGED <<events, outbox, busy, deferred>>

ArriveMove(w) ==
    /\ registry = "open" /\ w \in Work /\ Errand(w) /\ w.job \in Jobs /\ Nowhere(w.job)
    /\ works' = Append(works, w) /\ outstanding' = outstanding + 1
    /\ UNCHANGED <<events, outbox, busy, deferred>>

ReceiveMove ==
    /\ events # <<>> /\ events' = Tail(events)
    /\ Grows(IF Answers(Head(events)) THEN 1 ELSE 0)
    /\ UNCHANGED <<outbox, busy, deferred>>

SendMove ==
    /\ registry = "open" /\ outbox # <<>>
    /\ events' = Append(events, Head(outbox)) /\ outbox' = Tail(outbox)
    /\ UNCHANGED <<works, busy, deferred, outstanding>>

\* The worker takes an item and answers it, or tells of a time-out.
ReplyMove(e) ==
    /\ WorkerFree /\ works # <<>> /\ works' = Tail(works) /\ outbox' = <<e>>
    /\ Answers(e) /\ (Errand(e) <=> Errand(Head(works)))
    /\ Errand(e) => e.job = Head(works).job /\ e.kind = Head(works).kind
    /\ UNCHANGED <<events, busy, deferred, outstanding>>

TimeMove(e) ==
    /\ WorkerFree /\ outbox' = <<e>> /\ e.kind = "timeout"
    /\ UNCHANGED <<works, events, busy, deferred, outstanding>>

\* It takes one that becomes an entry, or joins one, or that it goes on with.
DeferMove(r) ==
    /\ WorkerFree /\ works # <<>> /\ works' = Tail(works) /\ Errand(Head(works))
    /\ deferred' = [deferred EXCEPT ![r] = Append(@, Head(works).job)]
    /\ UNCHANGED <<events, outbox, busy, outstanding>>

HandMove(r) ==
    /\ WorkerFree /\ works # <<>> /\ works' = Tail(works) /\ Errand(Head(works))
    /\ busy' = [run |-> r, jobs |-> <<Head(works).job>>] /\ deferred[r] = <<>>
    /\ UNCHANGED <<events, outbox, deferred, outstanding>>

\* An entry is taken from the list, and one ends with an answer to all its
\* requests.
LiftMove(r) ==
    /\ WorkerFree /\ r \in Deferred
    /\ busy' = [run |-> r, jobs |-> deferred[r]] /\ deferred' = [deferred EXCEPT ![r] = <<>>]
    /\ UNCHANGED <<works, events, outbox, outstanding>>

EndMove(r, e) ==
    /\ registry = "open"
    /\ e \in GoodEvent /\ Errand(e) /\ e.job = Head(Waiting(r)) /\ e.ok \in BOOLEAN
    /\ StartEnds(e, Tail(Waiting(r)))
    /\ \/ InHand(r) /\ UNCHANGED deferred
       \/ WorkerFree /\ r \in Deferred /\ deferred' = [deferred EXCEPT ![r] = <<>>]
    /\ UNCHANGED <<works, events, outstanding>>

DieMove ==
    /\ registry = "open" /\ registry' # "open"
    /\ works' = <<>> /\ outbox' = <<>> /\ busy' = NoRun /\ deferred' = [r \in RunIds |-> <<>>]
    /\ UNCHANGED <<events, outstanding, runsDead>>

Move ==
    \/ StayMove \/ ReceiveMove \/ SendMove \/ DieMove
    \/ \E w \in Work : ArriveMove(w)
    \/ \E e \in GoodEvent : ReplyMove(e) \/ TimeMove(e)
    \/ \E r \in RunIds : DeferMove(r) \/ HandMove(r) \/ LiftMove(r)
    \/ \E r \in RunIds, e \in GoodEvent : EndMove(r, e)

\* The places where an answer is owed are finitely many.
LEMMA OwingParts ==
    ASSUME HostShape, IsFiniteSet(WaitPlaces)
    PROVE  /\ Len(works) \in Nat /\ Len(HandJobs) \in Nat /\ Cardinality(WaitPlaces) \in Nat
           /\ Cardinality(Answering(outbox)) \in Nat /\ Cardinality(Answering(events)) \in Nat
           /\ Owing \in Nat
           /\ HandJobs \in Seq(KnownJobs)
<1>1. Len(works) \in Nat /\ outbox \in Seq(GoodEvent) /\ events \in Seq(GoodEvent)
  BY DEF HostShape, WorkerShape
<1>2. HandJobs \in Seq(KnownJobs) /\ Len(HandJobs) \in Nat
  BY DEF HostShape, WorkerShape, HandJobs, GoodBusy
<1>3. Cardinality(Answering(outbox)) \in Nat /\ Cardinality(Answering(events)) \in Nat
  BY <1>1, AnsweringFinite
<1>4. Cardinality(WaitPlaces) \in Nat
  BY FS_CardinalityType
<1> QED BY <1>1, <1>2, <1>3, <1>4 DEF Owing

\* What an entry that ends was, and the answers to it.
LEMMA EndMoves ==
    ASSUME HostShape, EachApart, Entries, NEW r \in RunIds, NEW e, EndMove(r, e)
    PROVE  /\ outbox = <<>> /\ Len(outbox') = Len(Waiting(r)) /\ Apart(outbox')
           /\ ErrandJobs(outbox') = Range(Waiting(r)) /\ busy' = NoRun
           /\ Cardinality(Answering(outbox')) = Len(Waiting(r))
           /\ InHand(r) => Waiting(r) = HandJobs /\ UNCHANGED deferred
           /\ ~InHand(r) => /\ Waiting(r) = deferred[r] /\ busy = NoRun
                            /\ deferred' = [deferred EXCEPT ![r] = <<>>]
<1> DEFINE list == Waiting(r)
<1>1. InHand(r) \/ r \in Deferred
  BY DEF EndMove
<1>2. list \in Seq(KnownJobs) /\ list # <<>>
  BY <1>1, WaitingShape DEF HostShape
<1>3. /\ InHand(r) => Waiting(r) = HandJobs /\ busy # NoRun
      /\ ~InHand(r) => Waiting(r) = deferred[r]
  BY DEF Waiting, HandJobs, InHand
<1>4. Distinct(list)
  BY <1>3 DEF EachApart
<1>5. busy' = NoRun
  BY DEF EndMove, StartEnds
<1>6. outbox = <<>>
  BY <1>1, <1>3 DEF EndMove, Entries, WorkerFree
<1>7. e \in GoodEvent /\ Errand(e) /\ e.job = Head(list) /\ e.ok \in BOOLEAN /\ StartEnds(e, Tail(list))
  BY DEF EndMove
<1> HIDE DEF list
<1>8. /\ Len(outbox') = Len(list) /\ Apart(outbox') /\ ErrandJobs(outbox') = Range(list)
      /\ Cardinality(Answering(outbox')) = Len(list)
  BY <1>2, <1>4, <1>7, StartEndsJobs
<1>9. /\ InHand(r) => UNCHANGED deferred
      /\ ~InHand(r) => busy = NoRun /\ deferred' = [deferred EXCEPT ![r] = <<>>]
  <2>1. WorkerFree => busy = NoRun /\ ~InHand(r)
    BY DEF WorkerFree, InHand
  <2> QED BY <2>1 DEF EndMove
<1> QED BY <1>3, <1>5, <1>6, <1>8, <1>9 DEF list

\* When every part changes as the sum does, the difference stays.
LEMMA SumsKept ==
    ASSUME NEW w \in Int, NEW h \in Int, NEW d \in Int, NEW o \in Int, NEW v \in Int, NEW n \in Int,
           NEW a \in Int, NEW b \in Int, NEW c \in Int, NEW k \in Int, NEW l \in Int
    PROVE  /\ (w + a) + (h + b) + (d + c) + (o + k) + (v + l) \in Int
           /\ n + (a + b + c + k + l) \in Int
           /\ (n + (a + b + c + k + l)) - ((w + a) + (h + b) + (d + c) + (o + k) + (v + l))
                 = n - (w + h + d + o + v)
OBVIOUS

\* Every step but the death of the worker keeps what is owed in step with what
\* is outstanding.
LEMMA Balance ==
    ASSUME HostShape, EachApart, Entries, Counted, Move, ~DieMove
    PROVE  /\ outstanding' \in Int /\ IsFiniteSet(WaitPlaces') /\ Owing' \in Int
           /\ outstanding' - Owing' = outstanding - Owing
<1> DEFINE W == Len(works)
           H == Len(HandJobs)
           D == Cardinality(WaitPlaces)
           O == Cardinality(Answering(outbox))
           V == Cardinality(Answering(events))
<1>0. /\ W \in Nat /\ H \in Nat /\ D \in Nat /\ O \in Nat /\ V \in Nat
      /\ Owing = W + H + D + O + V /\ Owing' = W' + H' + D' + O' + V'
      /\ outstanding \in Int /\ IsFiniteSet(WaitPlaces)
  BY OwingParts DEF Owing, Counted
<1>1. /\ works \in Seq(GoodWork) /\ outbox \in Seq(GoodEvent) /\ events \in Seq(GoodEvent)
      /\ deferred \in [RunIds -> Seq(KnownJobs)]
      /\ works \in Seq(Work) /\ KnownJobs \subseteq Jobs
  <2>1. GoodWork \subseteq Work
    BY DEF GoodWork
  <2> QED BY <2>1, SeqMonotonic DEF HostShape, WorkerShape, KnownJobs
<1>b. UNCHANGED busy => UNCHANGED H
  BY DEF HandJobs
<1>d. UNCHANGED deferred => UNCHANGED D /\ IsFiniteSet(WaitPlaces')
  BY <1>0 DEF WaitPlaces
<1>o. (UNCHANGED outbox => UNCHANGED O) /\ (UNCHANGED events => UNCHANGED V)
  OBVIOUS
<1>t. ASSUME works # <<>>, works' = Tail(works) PROVE W' = W - 1
  BY <1>1, <1>t, HeadTailProperties
<1>f. WorkerFree => H = 0 /\ O = 0
  BY AnsweringOne DEF WorkerFree, HandJobs
<1> HIDE DEF W, H, D, O, V
<1>g. ASSUME NEW received \in Int, Grows(received)
      PROVE  \E m \in Int : W' = W + m /\ outstanding' = outstanding + m - received
  <2>1. PICK more \in Seq({w \in GoodWork : ~Errand(w)}) :
           works' = works \o more /\ outstanding' = outstanding + Len(more) - received
    BY <1>g DEF Grows
  <2>2. more \in Seq(GoodWork) /\ Len(more) \in Nat
    BY SeqMonotonic
  <2>3. W' = W + Len(more)
    BY <1>1, <2>1, <2>2, ConcatProperties DEF W
  <2> QED BY <2>1, <2>2, <2>3
<1> DEFINE Delta(a, b, c, k, l) ==
              /\ W' = W + a /\ H' = H + b /\ D' = D + c /\ O' = O + k /\ V' = V + l
              /\ outstanding' = outstanding + (a + b + c + k + l)
<1>s. ASSUME NEW a \in Int, NEW b \in Int, NEW c \in Int, NEW k \in Int, NEW l \in Int,
             Delta(a, b, c, k, l), IsFiniteSet(WaitPlaces')
      PROVE  /\ outstanding' \in Int /\ IsFiniteSet(WaitPlaces') /\ Owing' \in Int
             /\ outstanding' - Owing' = outstanding - Owing
  <2>1. /\ W \in Int /\ H \in Int /\ D \in Int /\ O \in Int /\ V \in Int
        /\ Owing = W + H + D + O + V
        /\ Owing' = (W + a) + (H + b) + (D + c) + (O + k) + (V + l)
        /\ outstanding' = outstanding + (a + b + c + k + l) /\ outstanding \in Int
    BY <1>0, <1>s
  <2>2. /\ (W + a) + (H + b) + (D + c) + (O + k) + (V + l) \in Int
        /\ outstanding + (a + b + c + k + l) \in Int
        /\ (outstanding + (a + b + c + k + l)) - ((W + a) + (H + b) + (D + c) + (O + k) + (V + l))
              = outstanding - (W + H + D + O + V)
    BY <2>1, SumsKept
  <2> QED BY <1>s, <2>1, <2>2
<1>z. W = W + 0 /\ H = H + 0 /\ D = D + 0 /\ O = O + 0 /\ V = V + 0 /\ 0 \in Int
  BY <1>0
<1>2. CASE StayMove
  <2>1. H' = H /\ D' = D /\ O' = O /\ V' = V /\ IsFiniteSet(WaitPlaces')
    BY <1>2, <1>b, <1>d, <1>o DEF StayMove
  <2>2. 0 \in Int /\ Grows(0)
    BY <1>2 DEF StayMove
  <2> PICK m \in Int : W' = W + m /\ outstanding' = outstanding + m - 0
    BY <1>g, <2>2
  <2>3. outstanding' = outstanding + (m + 0 + 0 + 0 + 0)
    BY <1>0
  <2>4. Delta(m, 0, 0, 0, 0)
    BY <1>z, <2>1, <2>3
  <2> HIDE DEF Delta
  <2> QED BY <1>s, <1>z, <2>1, <2>4
<1>3. ASSUME NEW w \in Work, ArriveMove(w)
      PROVE  /\ outstanding' \in Int /\ IsFiniteSet(WaitPlaces') /\ Owing' \in Int
             /\ outstanding' - Owing' = outstanding - Owing
  <2>1. /\ H' = H /\ D' = D /\ O' = O /\ V' = V /\ IsFiniteSet(WaitPlaces')
        /\ outstanding' = outstanding + 1
    BY <1>3, <1>b, <1>d, <1>o DEF ArriveMove
  <2>2. W' = W + 1
    BY <1>1, <1>3, AppendProperties DEF ArriveMove, W
  <2> QED BY <1>0, <2>1, <2>2
<1>4. CASE ReceiveMove
  <2> DEFINE got == IF Answers(Head(events)) THEN 1 ELSE 0
  <2>1. H' = H /\ D' = D /\ O' = O /\ IsFiniteSet(WaitPlaces')
    BY <1>4, <1>b, <1>d, <1>o DEF ReceiveMove
  <2>2. V' = V - got
    BY <1>1, <1>4, AnsweringMoves DEF ReceiveMove, V
  <2>3. got \in Int
    OBVIOUS
  <2>a. Grows(got)
    BY <1>4 DEF ReceiveMove
  <2> HIDE DEF got
  <2> PICK m \in Int : W' = W + m /\ outstanding' = outstanding + m - got
    BY <1>g, <2>3, <2>a
  <2>4. 0 - got \in Int /\ V' = V + (0 - got)
    BY <1>0, <2>2, <2>3
  <2>5. outstanding' = outstanding + (m + 0 + 0 + 0 + (0 - got))
    BY <1>0, <2>3
  <2>6. Delta(m, 0, 0, 0, 0 - got)
    BY <1>z, <2>1, <2>4, <2>5
  <2> HIDE DEF Delta
  <2> QED BY <1>s, <1>z, <2>1, <2>4, <2>6
<1>5. CASE SendMove
  <2> DEFINE got == IF Answers(Head(outbox)) THEN 1 ELSE 0
  <2>1. /\ H' = H /\ D' = D /\ W' = W /\ IsFiniteSet(WaitPlaces') /\ outstanding' = outstanding
        /\ Head(outbox) \in GoodEvent
    BY <1>1, <1>5, <1>b, <1>d, HeadTailProperties DEF SendMove, W
  <2>2. O' = O - got
    BY <1>1, <1>5, AnsweringMoves DEF SendMove, O
  <2>3. V' = V + got
    BY <1>1, <1>5, <2>1, AnsweringMoves DEF SendMove, V
  <2>4. got \in Int
    OBVIOUS
  <2> HIDE DEF got
  <2>5. Owing' = W + H + D + (O - got) + (V + got) /\ Owing' \in Int
    BY <1>0, <2>1, <2>2, <2>3, <2>4
  <2>6. Owing' = Owing
    BY <1>0, <2>4, <2>5
  <2> QED BY <1>0, <2>1, <2>5, <2>6
<1>6. ASSUME NEW e \in GoodEvent, ReplyMove(e) \/ TimeMove(e)
      PROVE  /\ outstanding' \in Int /\ IsFiniteSet(WaitPlaces') /\ Owing' \in Int
             /\ outstanding' - Owing' = outstanding - Owing
  <2>0. WorkerFree /\ outbox' = <<e>> /\ O = 0
    BY <1>6, <1>f DEF ReplyMove, TimeMove
  <2>1. /\ H' = H /\ D' = D /\ V' = V /\ IsFiniteSet(WaitPlaces') /\ outstanding' = outstanding
    BY <1>6, <1>b, <1>d, <1>o DEF ReplyMove, TimeMove
  <2>2. O' = IF Answers(e) THEN 1 ELSE 0
    BY <2>0, AnsweringOne DEF O
  <2>3. CASE ReplyMove(e)
    <3>1. W' = W - 1 /\ Answers(e)
      BY <1>t, <2>3 DEF ReplyMove
    <3> QED BY <1>0, <2>0, <2>1, <2>2, <3>1
  <2>4. CASE TimeMove(e)
    <3>1. W' = W /\ ~Answers(e)
      BY <2>4 DEF TimeMove, Answers, W
    <3> QED BY <1>0, <2>0, <2>1, <2>2, <3>1
  <2> QED BY <1>6, <2>3, <2>4
<1>7. ASSUME NEW r \in RunIds, DeferMove(r)
      PROVE  /\ outstanding' \in Int /\ IsFiniteSet(WaitPlaces') /\ Owing' \in Int
             /\ outstanding' - Owing' = outstanding - Owing
  <2>1. /\ H' = H /\ O' = O /\ V' = V /\ outstanding' = outstanding
    BY <1>7, <1>b, <1>o DEF DeferMove
  <2>2. W' = W - 1
    BY <1>t, <1>7 DEF DeferMove
  <2>3. Head(works).job \in KnownJobs
    <3>1. Head(works) \in GoodWork /\ Errand(Head(works))
      BY <1>1, <1>7, HeadTailProperties DEF DeferMove
    <3> QED BY <3>1 DEF GoodWork, Errand
  <2>4. deferred' = [deferred EXCEPT ![r] = Append(@, Head(works).job)]
    BY <1>7 DEF DeferMove
  <2> PICK j \in KnownJobs : j = Head(works).job
    BY <2>3
  <2>5. IsFiniteSet(WaitPlaces') /\ Cardinality(WaitPlaces') = Cardinality(WaitPlaces) + 1
    <3>1. deferred' = [deferred EXCEPT ![r] = Append(@, j)]
      BY <2>4
    <3> QED BY <1>0, <1>1, <3>1, WaitGrows
  <2>6. D' = D + 1
    BY <2>5 DEF D
  <2> QED BY <1>0, <2>1, <2>2, <2>5, <2>6
<1>8. ASSUME NEW r \in RunIds, HandMove(r)
      PROVE  /\ outstanding' \in Int /\ IsFiniteSet(WaitPlaces') /\ Owing' \in Int
             /\ outstanding' - Owing' = outstanding - Owing
  <2>1. /\ D' = D /\ O' = O /\ V' = V /\ outstanding' = outstanding /\ IsFiniteSet(WaitPlaces')
    BY <1>8, <1>d, <1>o DEF HandMove
  <2>2. W' = W - 1 /\ H = 0
    BY <1>f, <1>t, <1>8 DEF HandMove
  <2>3. H' = 1
    <3>1. busy' \in Busy /\ busy'.jobs = <<Head(works).job>>
      <4>1. Head(works) \in GoodWork /\ Errand(Head(works))
        BY <1>1, <1>8, HeadTailProperties DEF HandMove
      <4>2. Head(works).job \in Jobs
        BY <1>1, <4>1 DEF GoodWork, Errand
      <4> QED BY <1>8, <4>2 DEF HandMove, Busy
    <3>2. busy' # NoRun
      BY <3>1, RunHostSentinels
    <3> QED BY <3>1, <3>2 DEF H, HandJobs
  <2> QED BY <1>0, <2>1, <2>2, <2>3
<1>9. ASSUME NEW r \in RunIds, LiftMove(r)
      PROVE  /\ outstanding' \in Int /\ IsFiniteSet(WaitPlaces') /\ Owing' \in Int
             /\ outstanding' - Owing' = outstanding - Owing
  <2>1. /\ W' = W /\ O' = O /\ V' = V /\ outstanding' = outstanding /\ H = 0
    BY <1>f, <1>9, <1>o DEF LiftMove, W
  <2>2. /\ IsFiniteSet(WaitPlaces') /\ D' \in Nat /\ D = D' + Len(deferred[r])
    BY <1>0, <1>1, <1>9, WaitClears DEF LiftMove, D
  <2>3. H' = Len(deferred[r])
    <3>1. busy' \in Busy /\ busy'.jobs = deferred[r]
      <4>1. deferred[r] \in Seq(Jobs)
        BY <1>1, SeqMonotonic
      <4> QED BY <1>9, <4>1 DEF LiftMove, Busy
    <3>2. busy' # NoRun
      BY <3>1, RunHostSentinels
    <3> QED BY <3>1, <3>2 DEF H, HandJobs
  <2>4. Len(deferred[r]) \in Nat
    BY <1>1
  <2> DEFINE n == Len(deferred[r])
  <2> HIDE DEF n
  <2>5. n \in Nat /\ D = D' + n /\ D' \in Nat /\ H' = n
    BY <2>2, <2>3, <2>4 DEF n
  <2>6. Owing' = W + n + D' + O + V /\ Owing' \in Int
    BY <1>0, <2>1, <2>5
  <2>7. Owing' = Owing
    BY <1>0, <2>1, <2>5, <2>6
  <2> QED BY <1>0, <2>1, <2>2, <2>6, <2>7
<1>10. ASSUME NEW r \in RunIds, NEW e \in GoodEvent, EndMove(r, e)
      PROVE  /\ outstanding' \in Int /\ IsFiniteSet(WaitPlaces') /\ Owing' \in Int
             /\ outstanding' - Owing' = outstanding - Owing
  <2>0. /\ outbox = <<>> /\ busy' = NoRun
        /\ Cardinality(Answering(outbox')) = Len(Waiting(r))
        /\ InHand(r) => Waiting(r) = HandJobs /\ UNCHANGED deferred
        /\ ~InHand(r) => /\ Waiting(r) = deferred[r] /\ busy = NoRun
                         /\ deferred' = [deferred EXCEPT ![r] = <<>>]
    BY <1>10, EndMoves
  <2>1. /\ W' = W /\ V' = V /\ outstanding' = outstanding
    BY <1>10, <1>o DEF EndMove, W
  <2>2. O = 0 /\ O' = Len(Waiting(r)) /\ H' = 0
    <3>1. O = 0
      BY <2>0, AnsweringOne DEF O
    <3>2. H' = 0
      BY <2>0 DEF H, HandJobs
    <3> QED BY <2>0, <3>1, <3>2 DEF O
  <2>3. CASE InHand(r)
    <3>1. D' = D /\ IsFiniteSet(WaitPlaces') /\ H = Len(Waiting(r))
      BY <1>d, <2>0, <2>3 DEF H
    <3> QED BY <1>0, <2>1, <2>2, <3>1
  <2>4. CASE ~InHand(r)
    <3>1. H = 0
      BY <2>0, <2>4 DEF H, HandJobs
    <3>2. IsFiniteSet(WaitPlaces') /\ D' \in Nat /\ D = D' + Len(Waiting(r))
      BY <1>0, <1>1, <2>0, <2>4, WaitClears DEF D
    <3>3. Len(Waiting(r)) \in Nat
      BY <1>1, <2>0, <2>4
    <3> DEFINE n == Len(Waiting(r))
    <3> HIDE DEF n
    <3>4. n \in Nat /\ O' = n /\ D = D' + n /\ D' \in Nat /\ O = 0 /\ H' = 0
      BY <2>2, <3>2, <3>3 DEF n
    <3>5. 0 - n \in Int /\ D' = D + (0 - n)
      <4>1. \A x \in Int : (x + n) + (0 - n) = x
        BY <3>4
      <4>2. D' \in Int /\ 0 - n \in Int /\ D = D' + n
        BY <3>4
      <4> QED BY <4>1, <4>2
    <3>7. O' = 0 + n /\ H' = H + 0 /\ 0 + 0 + (0 - n) + n + 0 = 0
      BY <3>1, <3>4
    <3>8. outstanding' = outstanding + (0 + 0 + (0 - n) + n + 0)
      BY <1>0, <2>1, <3>7
    <3>6. Delta(0, 0, 0 - n, n, 0)
      BY <1>z, <2>1, <3>4, <3>5, <3>7, <3>8
    <3> HIDE DEF Delta
    <3> QED BY <1>s, <1>z, <3>2, <3>4, <3>5, <3>6
  <2> QED BY <2>3, <2>4
<1> QED BY <1>2, <1>3, <1>4, <1>5, <1>6, <1>7, <1>8, <1>9, <1>10 DEF Move

\* Nothing is held of what the worker has taken, or been sent.
NothingHeld ==
    /\ works = <<>> /\ busy = NoRun /\ \A r \in RunIds : deferred[r] = <<>>
    /\ \A e \in Range(outbox) : ~Answers(e)

\* With the worker goes what it held: if nothing is owed too much after that,
\* it held nothing.
LEMMA DeathBalance ==
    ASSUME HostShape, Counted, DieMove
    PROVE  /\ outstanding' \in Int /\ IsFiniteSet(WaitPlaces') /\ Owing' <= outstanding'
           /\ (outstanding = Owing /\ outstanding' = Owing') => NothingHeld
<1> DEFINE W == Len(works)
           H == Len(HandJobs)
           D == Cardinality(WaitPlaces)
           O == Cardinality(Answering(outbox))
           V == Cardinality(Answering(events))
<1>0. /\ W \in Nat /\ H \in Nat /\ D \in Nat /\ O \in Nat /\ V \in Nat
      /\ Owing = W + H + D + O + V /\ Owing' = W' + H' + D' + O' + V'
      /\ outstanding \in Int /\ IsFiniteSet(WaitPlaces) /\ Owing <= outstanding
      /\ HandJobs \in Seq(KnownJobs)
  BY OwingParts DEF Owing, Counted
<1>1. /\ works \in Seq(GoodWork) /\ outbox \in Seq(GoodEvent)
      /\ deferred \in [RunIds -> Seq(KnownJobs)] /\ busy \in GoodBusy \union {NoRun}
  BY DEF HostShape, WorkerShape
<1>2. /\ works' = <<>> /\ outbox' = <<>> /\ busy' = NoRun /\ deferred' = [r \in RunIds |-> <<>>]
      /\ UNCHANGED <<events, outstanding>>
  BY DEF DieMove
<1>3. WaitPlaces' = {}
  <2>1. \A r \in RunIds : DOMAIN deferred'[r] = {}
    BY <1>2
  <2> QED BY <2>1 DEF WaitPlaces
<1>4. W' = 0 /\ H' = 0 /\ D' = 0 /\ O' = 0 /\ V' = V /\ IsFiniteSet(WaitPlaces')
  BY <1>2, <1>3, AnsweringOne, FS_EmptySet DEF HandJobs
<1>5. ASSUME W = 0, H = 0, D = 0, O = 0 PROVE NothingHeld
  <2>1. works = <<>>
    BY <1>1, <1>5, EmptySeq
  <2>2. busy = NoRun
    BY <1>1, <1>5, EmptySeq DEF GoodBusy, HandJobs
  <2>3. ASSUME NEW r \in RunIds PROVE deferred[r] = <<>>
    <3>1. WaitPlaces = {}
      BY <1>0, <1>5, FS_EmptySet
    <3>2. \A i \in DOMAIN deferred[r] : <<r, i>> \in WaitPlaces
      BY DEF WaitPlaces
    <3>3. deferred[r] \in Seq(KnownJobs)
      BY <1>1
    <3>4. Len(deferred[r]) \in Nat /\ DOMAIN deferred[r] = 1..Len(deferred[r])
      BY <3>3
    <3>5. 1 \notin DOMAIN deferred[r]
      BY <3>1, <3>2
    <3>6. Len(deferred[r]) = 0
      BY <3>4, <3>5
    <3> QED BY <3>3, <3>6, EmptySeq
  <2>4. ASSUME NEW e \in Range(outbox) PROVE ~Answers(e)
    <3>1. Answering(outbox) = {}
      <4>1. IsFiniteSet(Answering(outbox))
        BY <1>1, AnsweringFinite
      <4> QED BY <1>5, <4>1, FS_EmptySet
    <3> QED BY <3>1 DEF Answering, Range
  <2> QED BY <2>1, <2>2, <2>3, <2>4 DEF NothingHeld
<1> HIDE DEF W, H, D, O, V
<1>6. Owing' = V
  BY <1>0, <1>4
<1>7. V <= Owing /\ (Owing = V => W = 0 /\ H = 0 /\ D = 0 /\ O = 0)
  BY <1>0
<1>8. V <= outstanding
  BY <1>0, <1>7
<1> QED BY <1>0, <1>2, <1>4, <1>5, <1>6, <1>7, <1>8

\* The registry opens once and never again; the worker is found dead only when
\* it has been.
LEMMA Phases ==
    ASSUME [RunHostNext]_runHostVars
    PROVE  /\ registry' = "down" => registry = "down"
           /\ registry' = "open" => registry \in {"down", "open"}
           /\ registry \notin {"down", "open"} => registry' \notin {"down", "open"}
           /\ runsDead' /\ ~runsDead => registry' \notin {"down", "open"}
           /\ registry = "open" /\ registry' # "open" => WorkerDies
<1>1. ASSUME ClientStep PROVE UNCHANGED <<registry, runsDead>>
  <2>1. UNCHANGED vars /\ UNCHANGED runsDead
    BY <1>1 DEF ClientStep, SubmitStart, CancelJob, AskCancel, CloseAll, CloseSession, actorVars
  <2> QED BY <2>1 DEF vars, registryVars
<1>2. CASE MarkRunsDead
  <2>1. registry \notin {"down", "open"} /\ UNCHANGED registry
    BY <1>2 DEF MarkRunsDead, vars, registryVars
  <2> QED BY <2>1
<1>a. ASSUME TickStep, ~MarkRunsDead PROVE UNCHANGED <<registry, runsDead>>
  <2>1. UNCHANGED vars /\ UNCHANGED runsDead
    BY <1>a DEF TickStep, Receive, LaunchDies, RetryCancel, ForceAfterGrace, ObserveExit, Reap, SendFinish
  <2> QED BY <2>1 DEF vars, registryVars
<1>3. CASE TakeWork
  <2>1. UNCHANGED <<registry, runsDead>>
    BY <1>3 DEF TakeWork, JoinStart, RefuseStart, ReserveStart, BeginFinish, HandleCancel, actorVars,
       BeginRefused, HistoryCutFails, BeginReserve, FinishProbe, Cancel, vars, registryVars
  <2> QED BY <2>1
<1>4. ASSUME NEW r \in RunIds, AdvanceStart(r) PROVE UNCHANGED <<registry, runsDead>>
  BY <1>4 DEF AdvanceStart, CommitStart, FailPreparation, ReportUnspawned, RecordRunning,
     ReportSpawned, CreateProcess, BeginAbandon, BeginCommit, PreparationFails, FinishUnspawned,
     MarkRunning, Cancel, SpawnProcess, actorVars, vars, registryVars
<1>5. ASSUME NEW r \in RunIds, NEW ok \in BOOLEAN, TimeOut(r, ok) \/ CompleteFinish(r, ok)
      PROVE  UNCHANGED <<registry, runsDead>>
  BY <1>5 DEF TimeOut, CompleteFinish, Cancel, FinishObserved, actorVars
<1>6. CASE SendEvent \/ (\E r \in RunIds : ProcessesEnd(r)) \/ UNCHANGED runHostVars
  BY <1>6 DEF SendEvent, ProcessesEnd, ChildExits, runHostVars, actorVars, vars, registryVars
<1>7. CASE WorkerDies
  BY <1>7 DEF WorkerDies, WorkerEnds, actorVars
<1>8. CASE WorkerUnwinds
  BY <1>8 DEF WorkerUnwinds, CloseSources, DropActive, actorVars
<1>9. CASE HostStarts
  BY <1>9 DEF HostStarts, Open, actorVars
<1>10. ASSUME UNCHANGED <<registry, runsDead>>
       PROVE  /\ registry' = "down" => registry = "down"
              /\ registry' = "open" => registry \in {"down", "open"}
              /\ registry \notin {"down", "open"} => registry' \notin {"down", "open"}
              /\ runsDead' /\ ~runsDead => registry' \notin {"down", "open"}
              /\ registry = "open" /\ registry' # "open" => WorkerDies
  BY <1>10
<1> QED BY <1>1, <1>2, <1>a, <1>3, <1>4, <1>5, <1>6, <1>7, <1>8, <1>9, <1>10 DEF RunHostNext, WorkerLoop

\* What is owed stays counted.  Once too much is outstanding it stays so: what
\* is whole after a step was whole before, and a worker that leaves it whole
\* held nothing.
LEMMA CountedStep ==
    ASSUME HostShape, EachApart, Entries, Counted, Move, [RunHostNext]_runHostVars
    PROVE  Counted' /\ (Whole' => Whole /\ (DieMove => NothingHeld))
<1>1. /\ registry' \in {"down", "open"} => registry \in {"down", "open"}
      /\ runsDead' /\ ~runsDead => registry' \notin {"down", "open"}
      /\ runsDead => runsDead'
      /\ runsDead \in BOOLEAN /\ runsDead' \in BOOLEAN
  <2>1. runsDead' \in BOOLEAN /\ runsDead \in BOOLEAN
    BY HostShapeStep DEF HostShape
  <2> QED BY <2>1, Phases, DeadStays
<1>2. outstanding \in Int /\ Owing \in Int /\ Owing <= outstanding
  BY OwingParts DEF Counted
<1>3. CASE ~DieMove
  <2>1. /\ outstanding' \in Int /\ IsFiniteSet(WaitPlaces') /\ Owing' \in Int
        /\ outstanding' - Owing' = outstanding - Owing
    BY <1>3, Balance
  <2>a. \A n, m, k, l \in Int : n - m = k - l /\ l <= k => m <= n /\ (n = m <=> k = l)
    OBVIOUS
  <2>b. PICK n \in Int, m \in Int, k \in Int, l \in Int :
            n = outstanding' /\ m = Owing' /\ k = outstanding /\ l = Owing
    BY <1>2, <2>1
  <2>c. m <= n /\ (n = m <=> k = l)
    <3>1. n - m = k - l /\ l <= k
      BY <1>2, <2>1, <2>b
    <3> QED BY <2>a, <3>1
  <2>2. Owing' <= outstanding' /\ (outstanding' = Owing' <=> outstanding = Owing)
    BY <2>b, <2>c
  <2>3. Counted'
    BY <1>1, <2>1, <2>2 DEF Counted, Whole
  <2> QED BY <1>1, <1>3, <2>2, <2>3 DEF Whole
<1>4. CASE DieMove
  <2>1. /\ outstanding' \in Int /\ IsFiniteSet(WaitPlaces') /\ Owing' <= outstanding'
        /\ (outstanding = Owing /\ outstanding' = Owing') => NothingHeld
    BY <1>4, DeathBalance
  <2>2. registry = "open" /\ registry' # "open" /\ Whole
    BY <1>4 DEF DieMove, Counted
  <2>3. registry' # "down"
    BY <2>2, Phases
  <2>4. Counted'
    BY <2>1, <2>2, <2>3 DEF Counted
  <2> QED BY <2>1, <2>2, <2>4 DEF Whole
<1> QED BY <1>3, <1>4
-----------------------------------------------------------------------------
(* Every step of the host is one of these moves.                           *)

\* Whatever is on an errand was asked for.
LEMMA ErrandsKnown ==
    ASSUME HostShape
    PROVE  /\ ErrandJobs(works) \union Held \union ErrandJobs(outbox) \union ErrandJobs(events) \subseteq KnownJobs
           /\ \A r \in RunIds : Waits(r) \subseteq KnownJobs
<1>1. /\ works \in Seq(GoodWork) /\ outbox \in Seq(GoodEvent) /\ events \in Seq(GoodEvent)
      /\ deferred \in [RunIds -> Seq(KnownJobs)] /\ busy \in GoodBusy \union {NoRun}
  BY DEF HostShape, WorkerShape
<1>2. /\ \A w \in Range(works) : w \in GoodWork
      /\ \A e \in Range(outbox) \union Range(events) : e \in GoodEvent
      /\ \A r \in RunIds : Range(deferred[r]) \subseteq KnownJobs
  BY <1>1, SequenceRange
<1>3. HandJobs \in Seq(KnownJobs)
  BY <1>1 DEF HandJobs, GoodBusy
<1>4. Held \subseteq KnownJobs
  BY <1>3, SequenceRange DEF Held
<1>5. \A x \in GoodWork \union GoodEvent : Errand(x) => x.job \in KnownJobs
  BY DEF Errand, GoodWork, GoodEvent
<1> QED BY <1>2, <1>4, <1>5 DEF ErrandJobs, Waits

\* Who has a request awaits its answer, or that of its end.
LEMMA HolderAwaits ==
    ASSUME HostShape, Entries, SlotsAwait, NEW j, ~Nowhere(j)
    PROVE  AwaitsStart(j) \/ \E r \in RunIds : AwaitsEnd(j, r)
<1>1. ASSUME NEW x \in Asked \union Told, Errand(x), x.job = j
      PROVE  AwaitsStart(j) \/ \E r \in RunIds : AwaitsEnd(j, r)
  <2>1. Awaited(x)
    BY <1>1 DEF SlotsAwait
  <2>2. AwaitsEnd(j, x.run) => x.run \in RunIds
    BY DEF AwaitsEnd
  <2> QED BY <1>1, <2>1, <2>2 DEF Awaited, Errand
<1>2. ASSUME NEW r \in RunIds, InHand(r) \/ r \in Deferred, NEW i \in DOMAIN Waiting(r), Waiting(r)[i] = j
      PROVE  AwaitsStart(j) \/ \E q \in RunIds : AwaitsEnd(j, q)
  <2>1. StartEntry(r) \/ (EndEntry(r) /\ Len(Waiting(r)) = 1)
    BY <1>2 DEF Entries, InHand, Waiting, StartEntry
  <2>2. CASE StartEntry(r)
    BY <1>2, <2>2 DEF SlotsAwait
  <2>3. CASE EndEntry(r) /\ Len(Waiting(r)) = 1
    <3>1. Waiting(r) \in Seq(KnownJobs) /\ Waiting(r) # <<>>
      BY <1>2, WaitingShape DEF HostShape
    <3>2. i = 1 /\ Head(Waiting(r)) = Waiting(r)[1]
      BY <1>2, <2>3, <3>1
    <3>3. AwaitsEnd(j, r)
      BY <1>2, <2>3, <3>2 DEF SlotsAwait
    <3> QED BY <3>3
  <2> QED BY <2>1, <2>2, <2>3
<1>3. CASE j \in ErrandJobs(works) \union ErrandJobs(outbox) \union ErrandJobs(events)
  BY <1>1, <1>3 DEF ErrandJobs, Asked, Told
<1>4. CASE j \in Held
  <2>1. busy # NoRun /\ busy \in GoodBusy
    BY <1>4, ErrandsFew DEF Held, HandJobs, HostShape, WorkerShape
  <2>2. PICK i \in DOMAIN busy.jobs : busy.jobs[i] = j
    BY <1>4, <2>1 DEF Held, HandJobs, Range
  <2>3. busy.run \in RunIds /\ InHand(busy.run) /\ Waiting(busy.run) = busy.jobs
    BY <2>1 DEF GoodBusy, InHand, Waiting
  <2> QED BY <1>2, <2>2, <2>3
<1>5. ASSUME NEW r \in RunIds, j \in Waits(r)
      PROVE  AwaitsStart(j) \/ \E q \in RunIds : AwaitsEnd(j, q)
  <2>1. PICK i \in DOMAIN deferred[r] : deferred[r][i] = j
    BY <1>5 DEF Waits, Range
  <2>2. r \in Deferred
    BY <2>1 DEF Deferred
  <2>3. ~InHand(r)
    BY <2>2 DEF Entries, InHand, Deferred
  <2> QED BY <1>2, <2>1, <2>2, <2>3 DEF Waiting
<1> QED BY <1>3, <1>4, <1>5 DEF Nowhere

\* The actor's other work: nothing, or the cancellations it asks for.
LEMMA NoneGrows ==
    ASSUME HostShape, UNCHANGED works, outstanding \in Int, NEW received \in Int,
           Count(received) \/ (received = 0 /\ UNCHANGED outstanding)
    PROVE  Grows(received)
<1> DEFINE S == {w \in GoodWork : ~Errand(w)}
           more == <<>>
<1>1. more \in Seq(S) /\ works' = works \o more /\ Len(more) = 0 /\ Len(works') - Len(works) = 0
  BY DEF HostShape
<1>2. outstanding' = outstanding + Len(more) - received
  BY <1>1 DEF Count
<1> HIDE DEF more
<1> QED BY <1>1, <1>2 DEF Grows

\* One item of work is sent, and counted.
LEMMA OneGrows ==
    ASSUME HostShape, CanSend, NEW w \in GoodWork, ~Errand(w), Send(w), NEW received, Count(received)
    PROVE  Grows(received)
<1> DEFINE S == {v \in GoodWork : ~Errand(v)}
           more == <<w>>
<1>1. more \in Seq(S) /\ Len(more) = 1
  OBVIOUS
<1>2. works' = works \o more /\ Len(works') - Len(works) = 1
  BY <1>1, AppendProperties DEF HostShape, Send
<1>3. outstanding' = outstanding + Len(more) - received
  BY <1>1, <1>2 DEF Count
<1>4. registry = "open"
  BY DEF CanSend, Connected
<1> HIDE DEF more
<1> QED BY <1>1, <1>2, <1>3, <1>4 DEF Grows

\* Closing sends cancellations, and counts each.
LEMMA ClosingGrows ==
    ASSUME HostShape, NEW targets \in SUBSET Opened, NEW force \in BOOLEAN,
           CloseSlots(targets, force)
    PROVE  Grows(0)
<1> DEFINE S == {CancelWork(slots[j].run) : j \in {k \in targets : NeedsCancel(slots[k])}}
<1>1. PICK more \in Seq(S) : works' = works \o more
  BY Closings
<1>2. \A j \in Opened : SlotFine(slots[j])
  BY OpenedFine DEF HostShape
<1>3. S \subseteq {w \in GoodWork : ~Errand(w)}
  BY <1>2 DEF NeedsCancel, CancelWork, GoodWork, Work, SlotFine, Slot, Errand
<1>4. more \in Seq({w \in GoodWork : ~Errand(w)})
  BY <1>3, SeqMonotonic
<1>5. more \in Seq(GoodWork) /\ works \in Seq(GoodWork)
  BY <1>4, SeqMonotonic DEF HostShape
<1>6. Len(works') - Len(works) = Len(more)
  BY <1>1, <1>5, ConcatProperties
<1>7. outstanding' = outstanding + Len(more) - 0
  BY <1>6, Closings DEF Count
<1>8. ASSUME registry # "open" PROVE UNCHANGED works
  <2> DEFINE asking == {j \in targets : NeedsCancel(slots[j]) /\ ~slots[j].cancelling}
             Sent(s) == {CancelWork(slots[j].run) : j \in s}
  <2>1. PICK sent \in SUBSET asking :
          /\ Cardinality(sent) = Min({0, Cardinality(asking)})
          /\ works' = works \o SetToSeq(Sent(sent))
    BY <1>8 DEF CloseSlots, Connected
  <2>2. IsFiniteSet(asking) /\ IsFiniteSet(sent)
    BY FS_Subset, RunHostAssumption DEF Opened
  <2>3. Cardinality(asking) \in Nat
    BY <2>2, FS_CardinalityType
  <2> HIDE DEF asking
  <2>4. Min({0, Cardinality(asking)}) = 0
    BY <2>3 DEF Min
  <2>5. sent = {}
    BY <2>1, <2>2, <2>4, FS_EmptySet
  <2>6. Sent(sent) = {}
    BY <2>5
  <2> HIDE DEF Sent
  <2>7. Len(SetToSeq({})) = 0 /\ SetToSeq({}) \in Seq({})
    BY Listed, FS_EmptySet
  <2>8. SetToSeq({}) = <<>>
    BY <2>7, EmptySeq
  <2> QED BY <1>5, <2>1, <2>6, <2>8
<1> QED BY <1>1, <1>4, <1>7, <1>8 DEF Grows

\* A start of a new slot, an end that a slot owes, cancellations, and the
\* events the actor receives.
LEMMA ActorMoves ==
    ASSUME HostShape, Entries, Counted, Whole => SlotsAwait, ClientStep \/ TickStep
    PROVE  Move
<1>0. /\ SlotsShape /\ Opened = KnownJobs /\ \A j \in Opened : SlotFine(slots[j])
      /\ events # <<>> => Head(events) \in GoodEvent
  BY OpenedFine, HeadEvent DEF HostShape
<1>i. outstanding \in Int /\ 0 \in Int
  BY DEF Counted
<1>a. ASSUME Grows(0), UNCHANGED <<events, workerVars>> PROVE Move
  BY <1>a DEF Move, StayMove, workerVars
<1>b. ASSUME NEW w \in Work, Errand(w), w.job \in Jobs, Nowhere(w.job), CanSend, Send(w), Count(0),
             UNCHANGED <<events, workerVars>>
      PROVE  Move
  <2>1. Len(works') - Len(works) = 1
    BY <1>b, AppendProperties DEF HostShape, Send, GoodWork
  <2>2. outstanding' = outstanding + 1
    BY <1>b, <2>1 DEF Count
  <2>3. ArriveMove(w)
    BY <1>b, <2>2 DEF ArriveMove, Send, CanSend, Connected, workerVars
  <2> QED BY <2>3 DEF Move
<1>1. ASSUME NEW j \in Jobs, SubmitStart(j) PROVE Move
  <2> DEFINE w == [kind |-> "start", job |-> j, run |-> NoRun]
  <2>1. w \in Work /\ Errand(w) /\ w.job = j
    BY DEF Work, Errand
  <2>2. Nowhere(j)
    <3>1. j \notin KnownJobs
      BY <1>1 DEF SubmitStart, KnownJobs
    <3> QED BY <3>1, ErrandsKnown DEF Nowhere
  <2>3. CanSend /\ Send(w) /\ Count(0) /\ UNCHANGED <<events, workerVars>>
    BY <1>1 DEF SubmitStart
  <2> HIDE DEF w
  <2> QED BY <1>b, <2>1, <2>2, <2>3
<1>2. ASSUME NEW q \in RunIds, AskCancel(q) PROVE Move
  <2> DEFINE w == [kind |-> "ask", job |-> NoJob, run |-> q]
  <2>1. w \in GoodWork /\ ~Errand(w) /\ Send(w) /\ CanSend /\ Count(0)
    BY <1>2 DEF AskCancel, GoodWork, Work, Errand
  <2> HIDE DEF w
  <2>2. Grows(0)
    BY <2>1, OneGrows
  <2> QED BY <1>2, <1>a, <2>2 DEF AskCancel
<1>3. ASSUME NEW targets \in SUBSET Opened, NEW force \in BOOLEAN, CloseSlots(targets, force),
             UNCHANGED <<events, workerVars>>
      PROVE  Move
  BY <1>3, <1>a, ClosingGrows
<1>4. ASSUME NEW j \in Jobs, NEW force \in BOOLEAN, CloseSession(j, force) PROVE Move
  <2>1. {j} \in SUBSET Opened /\ CloseSlots({j}, force) /\ UNCHANGED <<events, workerVars>>
    BY <1>4 DEF CloseSession
  <2> QED BY <1>3, <2>1
<1>5. ASSUME NEW j \in Jobs, CancelJob(j) PROVE Move
  <2>1. j \in Opened
    BY <1>0, <1>5 DEF CancelJob, KnownJobs
  <2>2. CASE SlotLive(slots[j])
    <3>1. {j} \in SUBSET Opened /\ CloseSlots({j}, FALSE) /\ FALSE \in BOOLEAN /\ UNCHANGED <<events, workerVars>>
      BY <1>5, <2>1, <2>2 DEF CancelJob
    <3> QED BY <1>3, <3>1
  <2>3. CASE ~SlotLive(slots[j])
    <3>1. UNCHANGED <<works, outstanding, events, workerVars>>
      BY <1>5, <2>3 DEF CancelJob
    <3> QED BY <1>a, <1>i, <3>1, NoneGrows
  <2> QED BY <2>2, <2>3
<1>6. ASSUME NEW force \in BOOLEAN, CloseAll(force) PROVE Move
  <2> DEFINE all == {j \in Opened : SlotLive(slots[j])}
  <2>1. all \in SUBSET Opened /\ CloseSlots(all, force) /\ UNCHANGED <<events, workerVars>>
    BY <1>6 DEF CloseAll
  <2> HIDE DEF all
  <2> QED BY <1>3, <2>1
<1>7. CASE Receive
  <2> DEFINE e == Head(events)
             got == IF Answers(e) THEN 1 ELSE 0
  <2>1. e \in GoodEvent /\ events # <<>> /\ events' = Tail(events) /\ UNCHANGED workerVars /\ Count(got)
    BY <1>0, <1>7 DEF Receive, Answers
  <2>i. got \in Int
    OBVIOUS
  <2> HIDE DEF got
  <2>2. Grows(got)
    <3>1. CASE e.kind = "start" /\ ReceiveStart(e) /\ e.runtime
      <4>1. PICK recorded \in BOOLEAN, refused \in BOOLEAN : Accept(e, recorded, refused)
        BY <3>1 DEF ReceiveStart
      <4>2. UNCHANGED works \/ SendIfPossible(CancelWork(e.run))
        BY <4>1 DEF Accept
      <4>3. CancelWork(e.run) \in GoodWork /\ ~Errand(CancelWork(e.run))
        BY <2>1, <3>1 DEF CancelWork, GoodWork, Work, GoodEvent, Errand
      <4>4. UNCHANGED works \/ (CanSend /\ Send(CancelWork(e.run)))
        BY <4>2 DEF SendIfPossible
      <4> QED BY <1>i, <2>1, <2>i, <4>3, <4>4, NoneGrows, OneGrows
    <3>2. CASE (e.kind = "start" /\ ReceiveStart(e) /\ ~e.runtime) \/ ReceiveCancel(e) \/ ReceiveFinish(e)
      <4>1. UNCHANGED works
        BY <3>2 DEF ReceiveStart, ReceiveCancel, ReceiveFinish
      <4> QED BY <1>i, <2>1, <2>i, <4>1, NoneGrows
    <3> QED BY <1>7, <3>1, <3>2 DEF Receive
  <2>3. ReceiveMove
    BY <2>1, <2>2 DEF ReceiveMove, workerVars, got
  <2> QED BY <2>3 DEF Move
<1>8. ASSUME NEW j \in Jobs, RetryCancel(j) PROVE Move
  <2>1. slots[j].run \in RunIds /\ CanSend /\ Send(CancelWork(slots[j].run)) /\ Count(0)
    BY <1>0, <1>8 DEF RetryCancel, NeedsCancel, SlotFine, Slot
  <2>2. CancelWork(slots[j].run) \in GoodWork /\ ~Errand(CancelWork(slots[j].run))
    BY <2>1 DEF CancelWork, GoodWork, Work, Errand
  <2>3. Grows(0)
    BY <2>1, <2>2, OneGrows
  <2> QED BY <1>8, <1>a, <2>3 DEF RetryCancel
<1>9. ASSUME NEW j \in Jobs, SendFinish(j) PROVE Move
  <2> DEFINE w == [kind |-> "finish", job |-> j, run |-> slots[j].run]
  <2>1. w \in Work /\ Errand(w) /\ w.job = j
    BY <1>0, <1>9 DEF Work, Errand, SendFinish, SlotFine, Slot
  <2>2. Nowhere(j)
    <3>1. registry = "open" /\ slots[j].run # NoRun /\ slots[j].final = "pending"
      BY <1>9 DEF SendFinish, CanSend, Connected
    <3>2. SlotsAwait
      BY <3>1 DEF Counted
    <3> QED BY <3>1, <3>2, HolderAwaits DEF AwaitsStart, AwaitsEnd
  <2>3. CanSend /\ Send(w) /\ Count(0) /\ UNCHANGED <<events, workerVars>>
    BY <1>9 DEF SendFinish
  <2> HIDE DEF w
  <2> QED BY <1>b, <2>1, <2>2, <2>3
<1>10. CASE MarkRunsDead \/ LaunchDies \/ (\E j \in Jobs : ForceAfterGrace(j) \/ ObserveExit(j) \/ Reap(j))
  <2>1. UNCHANGED <<works, outstanding, events, workerVars>>
    BY <1>10 DEF MarkRunsDead, LaunchDies, ForceAfterGrace, ObserveExit, Reap
  <2> QED BY <1>a, <1>i, <2>1, NoneGrows
<1>11. Forces \subseteq BOOLEAN
  BY RunHostAssumption
<1> QED
  BY <1>1, <1>2, <1>4, <1>5, <1>6, <1>7, <1>8, <1>9, <1>10, <1>11 DEF ClientStep, TickStep

\* An item that the worker takes.
LEMMA TakeMoves ==
    ASSUME HostShape, NamesInv, Entries, Counted, Once, OwnRuns,
           Whole => SlotsAwait, TakeWork
    PROVE  Move
<1>0. /\ KnownJobs \subseteq Jobs /\ deferred \in [RunIds -> Seq(KnownJobs)]
      /\ \A w \in GoodWork : /\ w.kind \in {"start", "finish"} => w.job \in KnownJobs
                             /\ w.kind # "start" => w.run \in RunIds
  BY DEF KnownJobs, GoodWork, HostShape, WorkerShape
<1>t. ASSUME NEW kind, Taking(kind)
      PROVE  /\ WorkerFree /\ works # <<>> /\ works' = Tail(works)
             /\ Head(works) \in GoodWork /\ Head(works).kind = kind /\ Head(works) \in Asked
  BY <1>t, WorkTaken, WorkGone DEF Taking
<1>1. CASE JoinStart
  <2> DEFINE j == Head(works).job
  <2>1. /\ WorkerFree /\ works # <<>> /\ works' = Tail(works) /\ Head(works) \in GoodWork
        /\ Head(works).kind = "start" /\ j \in KnownJobs
        /\ UNCHANGED <<events, outstanding>>
    BY <1>0, <1>1, <1>t DEF JoinStart
  <2>2. PICK r \in Deferred :
           \/ deferred' = [deferred EXCEPT ![r] = Append(@, j)] /\ UNCHANGED <<outbox, busy>>
           \/ Replying(Reply("start", j, NoRun, FALSE))
    BY <1>1 DEF JoinStart
  <2>3. CASE deferred' = [deferred EXCEPT ![r] = Append(@, j)] /\ UNCHANGED <<outbox, busy>>
    <3>1. r \in RunIds /\ DeferMove(r)
      BY <2>1, <2>3 DEF Deferred, DeferMove, Errand
    <3> QED BY <3>1 DEF Move
  <2>4. CASE Replying(Reply("start", j, NoRun, FALSE))
    <3> DEFINE e == Reply("start", j, NoRun, FALSE)
    <3>1. e \in GoodEvent /\ e.kind = "start" /\ e.job = j
      BY <1>0, <2>1, RepliesGood DEF Reply
    <3>2. outbox' = <<e>> /\ UNCHANGED <<busy, deferred>>
      BY <2>4 DEF Replying
    <3> HIDE DEF e
    <3>3. ReplyMove(e)
      BY <2>1, <3>1, <3>2 DEF ReplyMove, Errand, Answers
    <3> QED BY <3>1, <3>3 DEF Move
  <2> QED BY <2>2, <2>3, <2>4
<1>2. CASE RefuseStart
  <2> DEFINE j == Head(works).job
  <2>1. /\ WorkerFree /\ works # <<>> /\ works' = Tail(works) /\ Head(works) \in GoodWork
        /\ Head(works).kind = "start" /\ j \in KnownJobs
        /\ UNCHANGED <<events, outstanding>>
    BY <1>0, <1>2, <1>t DEF RefuseStart
  <2>2. \/ Replying(Reply("start", j, NoRun, FALSE))
        \/ \E ok \in BOOLEAN : Replying([Reply("start", j, NoRun, ok) EXCEPT !.existing = ok])
    BY <1>2 DEF RefuseStart
  <2>3. \E e \in GoodEvent : e.kind = "start" /\ e.job = j /\ Replying(e)
    <3>1. /\ Reply("start", j, NoRun, FALSE) \in GoodEvent
          /\ \A ok \in BOOLEAN : [Reply("start", j, NoRun, ok) EXCEPT !.existing = ok] \in GoodEvent
      BY <1>0, <2>1, RepliesGood
    <3>2. /\ Reply("start", j, NoRun, FALSE).kind = "start" /\ Reply("start", j, NoRun, FALSE).job = j
          /\ \A ok \in BOOLEAN : /\ [Reply("start", j, NoRun, ok) EXCEPT !.existing = ok].kind = "start"
                                 /\ [Reply("start", j, NoRun, ok) EXCEPT !.existing = ok].job = j
      BY DEF Reply
    <3> QED BY <2>2, <3>1, <3>2
  <2> PICK e \in GoodEvent : e.kind = "start" /\ e.job = j /\ Replying(e)
    BY <2>3
  <2>4. ReplyMove(e)
    BY <2>1 DEF ReplyMove, Errand, Answers, Replying
  <2> QED BY <2>4 DEF Move
<1>3. CASE ReserveStart
  <2> DEFINE j == Head(works).job
             r == JobRun[j]
  <2>1. /\ WorkerFree /\ works # <<>> /\ works' = Tail(works) /\ Head(works) \in GoodWork
        /\ Head(works).kind = "start" /\ j \in KnownJobs /\ Head(works) \in Asked
        /\ UNCHANGED <<events, outbox, outstanding>> /\ r \in RunIds
    BY <1>0, <1>3, <1>t, RunHostAssumption DEF ReserveStart
  <2>2. deferred[r] = <<>>
    <3>1. Fresh(r)
      BY <2>1 DEF NamesInv
    <3> QED BY <2>1, <3>1 DEF Fresh, Entries, Deferred, EndEntry
  <2>3. \/ deferred' = [deferred EXCEPT ![r] = <<j>>] /\ UNCHANGED busy
        \/ busy' = [run |-> r, jobs |-> <<j>>] /\ UNCHANGED deferred
    BY <1>3 DEF ReserveStart
  <2>4. Append(deferred[r], j) = <<j>>
    BY <2>2
  <2>5. DeferMove(r) \/ HandMove(r)
    BY <2>1, <2>2, <2>3, <2>4 DEF DeferMove, HandMove, Errand
  <2> HIDE DEF r
  <2> QED BY <2>1, <2>5 DEF Move
<1>4. CASE BeginFinish
  <2> DEFINE w == Head(works)
             j == w.job
             r == w.run
  <2>1. /\ WorkerFree /\ works # <<>> /\ works' = Tail(works) /\ w \in GoodWork
        /\ w.kind = "finish" /\ j \in KnownJobs /\ w \in Asked
        /\ UNCHANGED <<events, outstanding>> /\ r \in RunIds
    BY <1>0, <1>4, <1>t DEF BeginFinish
  <2>2. \/ Replying(Reply("finish", j, r, FALSE))
        \/ deferred' = [deferred EXCEPT ![r] = <<j>>] /\ UNCHANGED <<busy, outbox>>
        \/ busy' = [run |-> r, jobs |-> <<j>>] /\ UNCHANGED <<deferred, outbox>>
    BY <1>4 DEF BeginFinish
  <2>3. CASE Replying(Reply("finish", j, r, FALSE))
    <3> DEFINE e == Reply("finish", j, r, FALSE)
    <3>1. e \in GoodEvent /\ e.kind = "finish" /\ e.job = j
      BY <1>0, <2>1, RepliesGood DEF Reply
    <3>2. outbox' = <<e>> /\ UNCHANGED <<busy, deferred>>
      BY <2>3 DEF Replying
    <3> HIDE DEF e
    <3>3. ReplyMove(e)
      BY <2>1, <3>1, <3>2 DEF ReplyMove, Errand, Answers
    <3> QED BY <3>1, <3>3 DEF Move
  <2>4. deferred[r] = <<>>
    <3> SUFFICES ASSUME deferred[r] # <<>> PROVE FALSE
      OBVIOUS
    <3>1. r \in Deferred /\ ~InHand(r) /\ Waiting(r) = deferred[r]
      BY <2>1 DEF Deferred, InHand, WorkerFree, Waiting
    <3>2. JobRun[Head(deferred[r])] = r /\ Head(deferred[r]) \in KnownJobs
      BY <2>1, <3>1, WaitingShape DEF Entries, HostShape
    <3>3. SlotsAwait
      BY <2>1 DEF Counted, WorkerFree, Idle
    <3>4. Named(r)
      BY <2>1 DEF Named
    <3>5. EndEntry(r)
      BY <2>1, <3>1, <3>4 DEF Entries, NamesInv
    <3>6. AwaitsEnd(Head(deferred[r]), r)
      BY <2>1, <3>1, <3>3, <3>5 DEF SlotsAwait
    <3>7. j \in ErrandJobs(works)
      BY <2>1 DEF ErrandJobs, Asked, Errand
    <3>8. Head(deferred[r]) # j
      <4>1. deferred[r] \in Seq(KnownJobs)
        BY <1>0, <2>1
      <4>2. Head(deferred[r]) \in Waits(r)
        BY <4>1, SequenceRange DEF Waits
      <4>3. j \notin Waits(r)
        BY <1>0, <2>1, <3>7 DEF Once, OnePlace
      <4> QED BY <4>2, <4>3
    <3>9. JobRun[j] = r
      <4>1. AwaitsEnd(j, r)
        BY <2>1, <3>3 DEF SlotsAwait, Awaited
      <4> QED BY <2>1, <4>1, RunHostSentinels DEF OwnRuns, AwaitsEnd
    <3> QED BY <1>0, <2>1, <3>2, <3>8, <3>9, RunHostAssumption
  <2>5. CASE deferred' = [deferred EXCEPT ![r] = <<j>>] /\ UNCHANGED <<busy, outbox>>
    <3>1. Append(deferred[r], j) = <<j>>
      BY <2>4
    <3>2. DeferMove(r)
      BY <2>1, <2>5, <3>1 DEF DeferMove, Errand
    <3> QED BY <2>1, <3>2 DEF Move
  <2>6. CASE busy' = [run |-> r, jobs |-> <<j>>] /\ UNCHANGED <<deferred, outbox>>
    <3>1. HandMove(r)
      BY <2>1, <2>4, <2>6 DEF HandMove, Errand
    <3> QED BY <2>1, <3>1 DEF Move
  <2> QED BY <2>2, <2>3, <2>5, <2>6
<1>5. ASSUME NEW ok \in BOOLEAN, HandleCancel(ok) PROVE Move
  <2> DEFINE w == Head(works)
             e == Reply(w.kind, NoJob, w.run, ok)
  <2>1. /\ WorkerFree /\ works # <<>> /\ works' = Tail(works) /\ w \in GoodWork
        /\ w.kind \in {"cancel", "ask"} /\ w.run \in RunIds
        /\ UNCHANGED <<events, outstanding>>
    BY <1>0, <1>5, <1>t DEF HandleCancel
  <2>2. e \in GoodEvent /\ e.kind = w.kind
    BY <2>1, RepliesGood DEF Reply
  <2>3. outbox' = <<e>> /\ UNCHANGED <<busy, deferred>>
    BY <1>5 DEF HandleCancel, Replying
  <2> HIDE DEF e
  <2>4. ReplyMove(e)
    BY <2>1, <2>2, <2>3 DEF ReplyMove, Errand, Answers
  <2> QED BY <2>2, <2>4 DEF Move
<1> QED BY <1>1, <1>2, <1>3, <1>4, <1>5 DEF TakeWork

\* A start under way, or an end.
LEMMA AdvanceMoves ==
    ASSUME HostShape, Entries, NEW r \in RunIds, NEW ok \in BOOLEAN,
           outstanding \in Int,
           \/ CommitStart(r, ok) \/ FailPreparation(r, ok) \/ ReportUnspawned(r, ok)
           \/ RecordRunning(r, ok) \/ ReportSpawned(r, ok) \/ CreateProcess(r)
           \/ TimeOut(r, ok) \/ CompleteFinish(r, ok)
    PROVE  Move
<1> DEFINE j == Head(Waiting(r))
<1>0. /\ deferred \in [RunIds -> Seq(KnownJobs)] /\ busy \in GoodBusy \union {NoRun}
      /\ WorkerShape /\ KnownJobs \subseteq Jobs
      /\ 0 \in Int /\ NoRun \in RunIds \union {NoRun}
  BY DEF HostShape, WorkerShape, KnownJobs
<1>1. InHand(r) => /\ busy \in GoodBusy /\ busy.run = r /\ busy.jobs = Waiting(r)
                   /\ registry = "open"
  BY <1>0, WaitingShape DEF InHand, Entries
<1>2. InHand(r) \/ r \in Deferred => j \in KnownJobs /\ Waiting(r) # <<>> /\ Waiting(r) \in Seq(KnownJobs)
  BY <1>0, WaitingShape
<1>c. Completing(r) => \/ InHand(r) /\ UNCHANGED deferred
                       \/ WorkerFree /\ r \in Deferred /\ deferred' = [deferred EXCEPT ![r] = <<>>]
  BY DEF Completing
<1>3. j \in KnownJobs =>
        /\ \A b \in BOOLEAN : /\ Reply("start", j, NoRun, b) \in GoodEvent
                              /\ Reply("finish", j, r, b) \in GoodEvent
                              /\ [Reply("start", j, r, FALSE) EXCEPT !.confirmed = b] \in GoodEvent
                              /\ \A c \in BOOLEAN : Spawned(j, r, b, c) \in GoodEvent
  BY <1>0, RepliesGood
<1>e. ASSUME NEW e \in GoodEvent, Errand(e), e.job = j, e.ok \in BOOLEAN, registry = "open",
             StartEnds(e, Tail(Waiting(r))),
             \/ InHand(r) /\ UNCHANGED deferred
             \/ WorkerFree /\ r \in Deferred /\ deferred' = [deferred EXCEPT ![r] = <<>>],
             UNCHANGED <<works, events, outstanding>>
      PROVE  Move
  <2>1. EndMove(r, e)
    BY <1>e DEF EndMove
  <2> QED BY <2>1 DEF Move
<1>s. ASSUME UNCHANGED <<works, events, workerVars, outstanding>> PROVE Move
  <2>1. Grows(0)
    BY <1>0, <1>s, NoneGrows
  <2> QED BY <1>s, <2>1 DEF Move, StayMove, workerVars
<1>4. CASE CommitStart(r, ok)
  <2>1. /\ Completing(r) /\ registry = "open" /\ UNCHANGED <<works, events, outstanding>>
    BY <1>4 DEF CommitStart, BeginAbandon, BeginCommit, Idle
  <2>2. CASE StartEnds(Reply("start", j, NoRun, FALSE), Tail(Waiting(r)))
    <3> DEFINE e == Reply("start", j, NoRun, FALSE)
    <3>1. e \in GoodEvent /\ Errand(e) /\ e.job = j /\ e.ok \in BOOLEAN
      BY <1>2, <1>3, <1>c, <2>1 DEF Reply, Errand
    <3> HIDE DEF e
    <3> QED BY <1>c, <1>e, <2>1, <2>2, <3>1 DEF e
  <2>3. CASE busy' = [run |-> r, jobs |-> Waiting(r)] /\ UNCHANGED outbox
    <3>1. CASE InHand(r) /\ UNCHANGED deferred
      <4>1. busy = [run |-> r, jobs |-> Waiting(r)]
        BY <1>1, <3>1 DEF GoodBusy
      <4> QED BY <1>s, <2>1, <2>3, <3>1, <4>1 DEF workerVars
    <3>2. CASE WorkerFree /\ r \in Deferred /\ deferred' = [deferred EXCEPT ![r] = <<>>]
      <4>1. Waiting(r) = deferred[r]
        BY <3>2 DEF WorkerFree, Waiting, InHand
      <4>2. LiftMove(r)
        BY <2>1, <2>3, <3>2, <4>1 DEF LiftMove
      <4> QED BY <4>2 DEF Move
    <3> QED BY <1>c, <2>1, <3>1, <3>2
  <2> QED BY <1>4, <2>2, <2>3 DEF CommitStart
<1>5. CASE FailPreparation(r, ok) \/ CreateProcess(r)
  BY <1>5, <1>s DEF FailPreparation, CreateProcess
<1>6. CASE ReportUnspawned(r, ok)
  <2> DEFINE e == [Reply("start", j, r, FALSE) EXCEPT !.confirmed = ok]
  <2>1. /\ InHand(r) /\ UNCHANGED <<works, events, deferred, outstanding>>
        /\ StartEnds(e, Tail(Waiting(r)))
    BY <1>1, <1>6 DEF ReportUnspawned
  <2>2. e \in GoodEvent /\ Errand(e) /\ e.job = j /\ e.ok \in BOOLEAN
    BY <1>2, <1>3, <2>1 DEF Reply, Errand
  <2> HIDE DEF e
  <2> QED BY <1>1, <1>e, <2>1, <2>2
<1>a. \A b, c \in BOOLEAN : Errand(Spawned(j, r, b, c)) /\ Spawned(j, r, b, c).job = j /\ Spawned(j, r, b, c).ok = b
  BY DEF Spawned, Reply, Errand
<1>7. CASE RecordRunning(r, ok)
  <2>1. InHand(r) /\ UNCHANGED <<works, events, deferred, outstanding>>
    BY <1>7 DEF RecordRunning
  <2>2. CASE ok
    BY <1>7, <1>s, <2>1, <2>2 DEF RecordRunning, workerVars
  <2>3. CASE ~ok
    <3> DEFINE e == Spawned(j, r, FALSE, FALSE)
    <3>1. StartEnds(e, Tail(Waiting(r)))
      BY <1>1, <1>7, <2>1, <2>3 DEF RecordRunning
    <3>2. e \in GoodEvent /\ Errand(e) /\ e.job = j /\ e.ok \in BOOLEAN
      BY <1>2, <1>3, <1>a, <2>1
    <3> HIDE DEF e
    <3> QED BY <1>1, <1>e, <2>1, <3>1, <3>2
  <2> QED BY <2>2, <2>3
<1>8. CASE ReportSpawned(r, ok)
  <2>1. InHand(r) /\ UNCHANGED <<works, events, deferred, outstanding>>
    BY <1>8 DEF ReportSpawned
  <2>2. \E b, c \in BOOLEAN : StartEnds(Spawned(j, r, b, c), Tail(Waiting(r)))
    BY <1>1, <1>8, <2>1 DEF ReportSpawned
  <2> PICK b \in BOOLEAN, c \in BOOLEAN : StartEnds(Spawned(j, r, b, c), Tail(Waiting(r)))
    BY <2>2
  <2> DEFINE e == Spawned(j, r, b, c)
  <2>3. e \in GoodEvent /\ Errand(e) /\ e.job = j /\ e.ok \in BOOLEAN /\ StartEnds(e, Tail(Waiting(r)))
    BY <1>2, <1>3, <1>a, <2>1
  <2> HIDE DEF e
  <2> QED BY <1>1, <1>e, <2>1, <2>3
<1>9. CASE TimeOut(r, ok)
  <2> DEFINE e == Reply("timeout", NoJob, r, ok)
  <2>1. /\ WorkerFree /\ outbox' = <<e>>
        /\ UNCHANGED <<works, events, busy, deferred, outstanding>>
    BY <1>9 DEF TimeOut, Replying
  <2>2. e \in GoodEvent /\ e.kind = "timeout"
    BY RepliesGood DEF Reply
  <2> HIDE DEF e
  <2>3. TimeMove(e)
    BY <2>1, <2>2 DEF TimeMove
  <2> QED BY <2>2, <2>3 DEF Move
<1>10. CASE CompleteFinish(r, ok)
  <2> DEFINE e == Reply("finish", j, r, ok)
  <2>1. /\ Completing(r) /\ UNCHANGED <<works, events, outstanding>> /\ registry = "open"
        /\ StartEnds(e, <<>>) /\ pending[r] = NoTicket /\ active[r] = "finishing"
    BY <1>10 DEF CompleteFinish, FinishObserved, Idle
  <2>2. Waiting(r) \in Seq(KnownJobs) /\ Waiting(r) # <<>> /\ j \in KnownJobs
    BY <1>2, <1>c, <2>1
  <2>3. Len(Waiting(r)) = 1
    <3>1. CASE InHand(r)
      BY <2>1, <3>1 DEF Entries, StartEntry, InHand, Waiting
    <3>2. CASE WorkerFree /\ r \in Deferred
      BY <2>1, <3>2 DEF Entries, WorkerFree, InHand, Waiting
    <3> QED BY <1>c, <2>1, <3>1, <3>2
  <2>4. Tail(Waiting(r)) = <<>>
    <3>1. Len(Tail(Waiting(r))) = 0 /\ Tail(Waiting(r)) \in Seq(KnownJobs)
      BY <2>2, <2>3, HeadTailProperties
    <3> QED BY <3>1, EmptySeq
  <2>5. e \in GoodEvent /\ Errand(e) /\ e.job = j /\ e.ok \in BOOLEAN
    BY <1>3, <2>2 DEF Reply, Errand
  <2> HIDE DEF e
  <2> QED BY <1>c, <1>e, <2>1, <2>4, <2>5
<1> QED BY <1>4, <1>5, <1>6, <1>7, <1>8, <1>9, <1>10

\* Every step is one of these moves.
LEMMA Moves ==
    ASSUME HostShape, NamesInv, Entries, Counted, Once, OwnRuns, Whole => SlotsAwait,
           [RunHostNext]_runHostVars
    PROVE  Move
<1>0. outstanding \in Int /\ 0 \in Int /\ TRUE \in BOOLEAN
  BY DEF Counted
<1>1. CASE ClientStep \/ TickStep
  BY <1>1, ActorMoves
<1>2. CASE TakeWork
  BY <1>2, TakeMoves
<1>3. ASSUME NEW r \in RunIds, AdvanceStart(r) PROVE Move
  BY <1>0, <1>3, AdvanceMoves DEF AdvanceStart
<1>4. ASSUME NEW r \in RunIds, NEW ok \in BOOLEAN, TimeOut(r, ok) \/ CompleteFinish(r, ok) PROVE Move
  BY <1>0, <1>4, AdvanceMoves
<1>5. CASE SendEvent
  <2>1. SendMove
    BY <1>5 DEF SendEvent, SendMove, Connected
  <2> QED BY <2>1 DEF Move
<1>6. CASE WorkerDies
  <2>1. DieMove
    BY <1>6 DEF WorkerDies, WorkerEnds, DieMove, actorVars
  <2> QED BY <2>1 DEF Move
<1>7. CASE WorkerUnwinds \/ HostStarts \/ (\E r \in RunIds : ProcessesEnd(r)) \/ UNCHANGED runHostVars
  <2>1. UNCHANGED <<works, events, workerVars, outstanding>>
    BY <1>7 DEF WorkerUnwinds, HostStarts, ProcessesEnd, runHostVars, workerVars
  <2>2. Grows(0)
    BY <1>0, <2>1, NoneGrows
  <2> QED BY <2>1, <2>2 DEF Move, StayMove, workerVars
<1> QED BY <1>1, <1>2, <1>3, <1>4, <1>5, <1>6, <1>7 DEF RunHostNext, WorkerLoop
-----------------------------------------------------------------------------
(* No errand is lost or doubled on the way.                                *)

\* Each request stays in one place: what moves leaves where it was, and only an
\* answer that is received, or the death of the worker, leaves nobody with it.
LEMMA OnceStep ==
    ASSUME HostShape, Once, Entries, Move
    PROVE  /\ Once'
           /\ \A j \in Jobs : Nowhere(j)' =>
                 \/ Nowhere(j) \/ DieMove
                 \/ ReceiveMove /\ Errand(Head(events)) /\ j = Head(events).job
<1> DEFINE Leaves(j) == DieMove \/ (ReceiveMove /\ Errand(Head(events)) /\ j = Head(events).job)
           Stays == \A j \in Jobs : Nowhere(j)' => Nowhere(j) \/ Leaves(j)
<1> SUFFICES Once' /\ Stays
  OBVIOUS
<1> HIDE DEF Leaves
<1>0. /\ works \in Seq(GoodWork) /\ outbox \in Seq(GoodEvent) /\ events \in Seq(GoodEvent)
      /\ deferred \in [RunIds -> Seq(KnownJobs)] /\ works \in Seq(Work)
      /\ busy \in GoodBusy \union {NoRun}
  <2>1. GoodWork \subseteq Work
    BY DEF GoodWork
  <2> QED BY <2>1, SeqMonotonic DEF HostShape, WorkerShape
<1>a. /\ Apart(works) /\ Apart(outbox) /\ Apart(events) /\ Distinct(HandJobs)
      /\ \A r \in RunIds : Distinct(deferred[r])
      /\ \A j \in Jobs : OnePlace(j)
  BY DEF Once, EachApart
<1>k. /\ ErrandJobs(works) \subseteq Jobs /\ Held \subseteq Jobs /\ ErrandJobs(outbox) \subseteq Jobs
      /\ ErrandJobs(events) \subseteq Jobs /\ \A r \in RunIds : Range(deferred[r]) \subseteq Jobs
  BY ErrandsKnown DEF KnownJobs, Waits
<1>q. ASSUME Apart(works'), Apart(outbox'), Apart(events'), Distinct(HandJobs'),
             \A r \in RunIds : Distinct(deferred'[r]), \A j \in Jobs : OnePlace(j)'
      PROVE  Once'
  BY <1>q DEF Once, EachApart
<1>g. ASSUME NEW received, Grows(received)
      PROVE  ErrandJobs(works') = ErrandJobs(works) /\ Apart(works')
  <2>1. PICK more \in Seq({w \in GoodWork : ~Errand(w)}) : works' = works \o more
    BY <1>g DEF Grows
  <2>2. more \in Seq(GoodWork) /\ \A x \in Range(more) : ~Errand(x)
    <3>1. Range(more) \subseteq {w \in GoodWork : ~Errand(w)}
      BY SequenceRange
    <3> QED BY <3>1, SeqMonotonic
  <2> QED BY <1>0, <1>a, <2>1, <2>2, ErrandsConcat
<1>t. ASSUME works # <<>>, works' = Tail(works)
      PROVE  /\ ErrandJobs(works) = ErrandJobs(works') \union (IF Errand(Head(works)) THEN {Head(works).job} ELSE {})
             /\ Apart(works') /\ (Errand(Head(works)) => Head(works).job \notin ErrandJobs(works'))
  BY <1>0, <1>a, <1>t, ErrandsTail
<1>f. WorkerFree => Held = {} /\ ErrandJobs(outbox) = {} /\ busy = NoRun
  BY ErrandsFew DEF WorkerFree, Held, HandJobs
<1>b. UNCHANGED busy => UNCHANGED <<Held, HandJobs>>
  BY DEF Held, HandJobs
<1>n. busy' = NoRun => Held' = {} /\ Distinct(HandJobs')
  BY ErrandsFew DEF Held, HandJobs
<1>h. ASSUME NEW r \in RunIds, NEW list \in Seq(Jobs), busy' = [run |-> r, jobs |-> list]
      PROVE  Held' = Range(list) /\ HandJobs' = list
  <2>1. busy' \in Busy
    BY <1>h DEF Busy
  <2>2. HandJobs' = list
    BY <1>h, <2>1, RunHostSentinels DEF HandJobs
  <2> QED BY <2>2 DEF Held
<1>1. CASE StayMove
  <2>1. /\ ErrandJobs(works') = ErrandJobs(works) /\ Apart(works')
        /\ UNCHANGED <<events, outbox, busy, deferred, Held, HandJobs>>
    BY <1>1, <1>b, <1>g DEF StayMove
  <2>2. \A j \in Jobs : OnePlace(j)'
    BY <1>a, <2>1 DEF OnePlace, Waits
  <2>s. Stays
    BY <2>1 DEF Nowhere, Waits
  <2> QED BY <1>a, <1>q, <2>1, <2>2, <2>s
<1>2. ASSUME NEW w \in Work, ArriveMove(w) PROVE Once' /\ Stays
  <2>1. /\ Errand(w) /\ w.job \in Jobs /\ Nowhere(w.job) /\ works' = Append(works, w)
        /\ UNCHANGED <<events, outbox, busy, deferred, Held, HandJobs>>
    BY <1>2, <1>b DEF ArriveMove
  <2>2. ErrandJobs(works') = ErrandJobs(works) \union {w.job} /\ Apart(works')
    BY <1>0, <1>a, <2>1, ErrandsAppend DEF Nowhere
  <2>3. \A j \in Jobs : OnePlace(j)'
    BY <1>a, <2>1, <2>2 DEF OnePlace, Waits, Nowhere
  <2>s. Stays
    BY <2>1, <2>2 DEF Nowhere, Waits
  <2> QED BY <1>a, <1>q, <2>1, <2>2, <2>3, <2>s
<1>3. CASE ReceiveMove
  <2>1. /\ events # <<>> /\ events' = Tail(events)
        /\ UNCHANGED <<outbox, busy, deferred, Held, HandJobs>>
        /\ ErrandJobs(works') = ErrandJobs(works) /\ Apart(works')
    BY <1>3, <1>b, <1>g DEF ReceiveMove
  <2>2. ErrandJobs(events') \subseteq ErrandJobs(events) /\ Apart(events')
    BY <1>0, <1>a, <2>1, ErrandsTail
  <2>3. \A j \in Jobs : OnePlace(j)'
    BY <1>a, <2>1, <2>2 DEF OnePlace, Waits
  <2>3a. ErrandJobs(events) = ErrandJobs(events') \union (IF Errand(Head(events)) THEN {Head(events).job} ELSE {})
    BY <1>0, <2>1, ErrandsTail
  <2>s. Stays
    BY <1>3, <2>1, <2>3a DEF Nowhere, Waits, Leaves
  <2> QED BY <1>a, <1>q, <2>1, <2>2, <2>3, <2>s
<1>4. CASE SendMove
  <2> DEFINE e == Head(outbox)
             X == IF Errand(e) THEN {e.job} ELSE {}
  <2>1. /\ outbox # <<>> /\ events' = Append(events, e) /\ outbox' = Tail(outbox)
        /\ UNCHANGED <<works, busy, deferred, Held, HandJobs>> /\ e \in GoodEvent
    BY <1>0, <1>4, <1>b, HeadTailProperties DEF SendMove
  <2>2. /\ ErrandJobs(outbox) = ErrandJobs(outbox') \union X /\ Apart(outbox')
        /\ Errand(e) => e.job \notin ErrandJobs(outbox')
    BY <1>0, <1>a, <2>1, ErrandsTail
  <2>3. Errand(e) => e.job \in ErrandJobs(outbox) /\ e.job \in Jobs
    BY <1>k, <2>2
  <2>4. ErrandJobs(events') = ErrandJobs(events) \union X /\ Apart(events')
    <3>1. Errand(e) => e.job \notin ErrandJobs(events)
      BY <1>a, <2>3 DEF OnePlace
    <3> QED BY <1>0, <1>a, <2>1, <3>1, ErrandsAppend
  <2>5. \A x \in X : x \notin ErrandJobs(outbox')
    BY <2>2
  <2> HIDE DEF X, e
  <2>6. \A j \in Jobs : OnePlace(j)'
    BY <1>a, <2>1, <2>2, <2>4, <2>5 DEF OnePlace, Waits
  <2>s. Stays
    BY <2>1, <2>2, <2>4, <2>5 DEF Nowhere, Waits
  <2> QED BY <1>a, <1>q, <2>1, <2>2, <2>4, <2>6, <2>s
<1>5. ASSUME NEW e \in GoodEvent, ReplyMove(e) PROVE Once' /\ Stays
  <2>1. /\ WorkerFree /\ works # <<>> /\ works' = Tail(works) /\ outbox' = <<e>>
        /\ Errand(e) => e.job = Head(works).job
        /\ Errand(e) <=> Errand(Head(works))
        /\ UNCHANGED <<events, busy, deferred, Held, HandJobs>>
    BY <1>5, <1>b DEF ReplyMove
  <2>2. /\ ErrandJobs(outbox') = IF Errand(e) THEN {e.job} ELSE {}
        /\ Apart(outbox')
    BY <2>1, ErrandsFew
  <2>3. \A j \in Jobs : OnePlace(j)'
    BY <1>a, <1>f, <1>t, <2>1, <2>2 DEF OnePlace, Waits
  <2>s. Stays
    BY <1>f, <1>t, <2>1, <2>2 DEF Nowhere, Waits
  <2> QED BY <1>a, <1>q, <1>t, <2>1, <2>2, <2>3, <2>s
<1>6. ASSUME NEW e \in GoodEvent, TimeMove(e) PROVE Once' /\ Stays
  <2>1. /\ WorkerFree /\ outbox' = <<e>> /\ ~Errand(e)
        /\ UNCHANGED <<works, events, busy, deferred, Held, HandJobs>>
    BY <1>6, <1>b DEF TimeMove, Errand
  <2>2. ErrandJobs(outbox') = {} /\ Apart(outbox')
    BY <2>1, ErrandsFew
  <2>3. \A j \in Jobs : OnePlace(j)'
    BY <1>a, <2>1, <2>2 DEF OnePlace, Waits
  <2>s. Stays
    BY <1>f, <2>1, <2>2 DEF Nowhere, Waits
  <2> QED BY <1>a, <1>q, <2>1, <2>2, <2>3, <2>s
<1>7. ASSUME NEW r \in RunIds, DeferMove(r) PROVE Once' /\ Stays
  <2> DEFINE x == Head(works).job
  <2>1. /\ WorkerFree /\ works # <<>> /\ works' = Tail(works) /\ Errand(Head(works))
        /\ deferred' = [deferred EXCEPT ![r] = Append(@, x)]
        /\ UNCHANGED <<events, outbox, busy, Held, HandJobs>>
    BY <1>7, <1>b DEF DeferMove
  <2>2. /\ ErrandJobs(works) = ErrandJobs(works') \union {x} /\ x \notin ErrandJobs(works')
        /\ Apart(works') /\ x \in ErrandJobs(works) /\ x \in KnownJobs /\ x \in Jobs
    <3>1. ErrandJobs(works) = ErrandJobs(works') \union {x} /\ x \notin ErrandJobs(works') /\ Apart(works')
      BY <1>t, <2>1
    <3> QED BY <1>k, <3>1, ErrandsKnown
  <2>3. \A q \in RunIds : x \notin Range(deferred[q])
    BY <1>a, <2>2 DEF OnePlace, Waits
  <2>4. deferred'[r] = Append(deferred[r], x) /\ \A q \in RunIds : q # r => deferred'[q] = deferred[q]
    BY <1>0, <2>1
  <2>5. deferred[r] \in Seq(KnownJobs)
    BY <1>0
  <2> HIDE DEF x
  <2>6. Range(deferred'[r]) = Range(deferred[r]) \union {x} /\ Distinct(deferred'[r])
    BY <1>a, <2>2, <2>3, <2>4, <2>5, DistinctAppend
  <2>7. \A q \in RunIds : Range(deferred'[q]) = Range(deferred[q]) \union (IF q = r THEN {x} ELSE {})
    BY <2>4, <2>6
  <2>8. \A q \in RunIds : Distinct(deferred'[q])
    BY <1>a, <2>4, <2>6
  <2>9. \A j \in Jobs : OnePlace(j)'
    BY <1>a, <2>1, <2>2, <2>3, <2>7 DEF OnePlace, Waits
  <2>s. Stays
    BY <2>1, <2>2, <2>3, <2>7 DEF Nowhere, Waits
  <2> QED BY <1>a, <1>q, <2>1, <2>2, <2>8, <2>9, <2>s
<1>8. ASSUME NEW r \in RunIds, HandMove(r) PROVE Once' /\ Stays
  <2> DEFINE x == Head(works).job
             one == <<x>>
  <2>1. /\ WorkerFree /\ works # <<>> /\ works' = Tail(works) /\ Errand(Head(works))
        /\ busy' = [run |-> r, jobs |-> one]
        /\ UNCHANGED <<events, outbox, deferred>>
    BY <1>8 DEF HandMove
  <2>2. /\ ErrandJobs(works) = ErrandJobs(works') \union {x} /\ x \notin ErrandJobs(works')
        /\ Apart(works') /\ x \in Jobs
    <3>1. ErrandJobs(works) = ErrandJobs(works') \union {x} /\ x \notin ErrandJobs(works') /\ Apart(works')
      BY <1>t, <2>1
    <3> QED BY <1>k, <3>1
  <2>3. one \in Seq(Jobs) /\ Range(one) = {x} /\ Distinct(one)
    BY <2>2, ErrandsFew
  <2> HIDE DEF one, x
  <2>4. Held' = {x} /\ Distinct(HandJobs')
    BY <1>h, <2>1, <2>3
  <2>5. \A j \in Jobs : OnePlace(j)'
    BY <1>a, <1>f, <2>1, <2>2, <2>4 DEF OnePlace, Waits
  <2>s. Stays
    BY <1>f, <2>1, <2>2, <2>4 DEF Nowhere, Waits
  <2> QED BY <1>a, <1>q, <2>1, <2>2, <2>4, <2>5, <2>s
<1>9. ASSUME NEW r \in RunIds, LiftMove(r) PROVE Once' /\ Stays
  <2>1. /\ WorkerFree /\ busy' = [run |-> r, jobs |-> deferred[r]] /\ deferred' = [deferred EXCEPT ![r] = <<>>]
        /\ UNCHANGED <<works, events, outbox>>
    BY <1>9 DEF LiftMove
  <2>2. deferred[r] \in Seq(Jobs)
    <3>1. deferred[r] \in Seq(KnownJobs) /\ KnownJobs \subseteq Jobs
      BY <1>0 DEF KnownJobs
    <3> QED BY <3>1, SeqMonotonic
  <2>3. Held' = Range(deferred[r]) /\ Distinct(HandJobs')
    BY <1>a, <1>h, <2>1, <2>2
  <2>4. deferred'[r] = <<>> /\ \A q \in RunIds : q # r => deferred'[q] = deferred[q]
    BY <1>0, <2>1
  <2>5. \A q \in RunIds : Range(deferred'[q]) = IF q = r THEN {} ELSE Range(deferred[q])
    BY <2>4, ErrandsFew
  <2>6. \A q \in RunIds : Distinct(deferred'[q])
    BY <1>a, <2>4, ErrandsFew
  <2>7. \A j \in Jobs : OnePlace(j)'
    BY <1>a, <1>f, <2>1, <2>3, <2>5 DEF OnePlace, Waits
  <2>s. Stays
    BY <1>f, <2>1, <2>3, <2>5 DEF Nowhere, Waits
  <2> QED BY <1>a, <1>q, <2>1, <2>3, <2>6, <2>7, <2>s
<1>10. ASSUME NEW r \in RunIds, NEW e \in GoodEvent, EndMove(r, e) PROVE Once' /\ Stays
  <2>1. /\ outbox = <<>> /\ Apart(outbox') /\ ErrandJobs(outbox') = Range(Waiting(r)) /\ busy' = NoRun
        /\ InHand(r) => Waiting(r) = HandJobs /\ UNCHANGED deferred
        /\ ~InHand(r) => /\ Waiting(r) = deferred[r] /\ busy = NoRun
                         /\ deferred' = [deferred EXCEPT ![r] = <<>>]
        /\ UNCHANGED <<works, events>>
    BY <1>10, <1>a, EndMoves DEF EachApart, EndMove
  <2>2. ErrandJobs(outbox) = {} /\ Held' = {} /\ Distinct(HandJobs')
    BY <1>n, <2>1, ErrandsFew
  <2>3. CASE InHand(r)
    <3>1. ErrandJobs(outbox') = Held /\ UNCHANGED deferred
      BY <2>1, <2>3 DEF Held
    <3>2. \A j \in Jobs : OnePlace(j)'
      BY <1>a, <2>1, <2>2, <3>1 DEF OnePlace, Waits
    <3>s. Stays
      BY <2>1, <2>2, <3>1 DEF Nowhere, Waits
    <3> QED BY <1>a, <1>q, <2>1, <2>2, <3>1, <3>2, <3>s
  <2>4. CASE ~InHand(r)
    <3>1. ErrandJobs(outbox') = Range(deferred[r]) /\ Held = {}
      BY <2>1, <2>4, ErrandsFew DEF Held, HandJobs
    <3>2. deferred'[r] = <<>> /\ \A q \in RunIds : q # r => deferred'[q] = deferred[q]
      BY <1>0, <2>1, <2>4
    <3>3. \A q \in RunIds : Range(deferred'[q]) = IF q = r THEN {} ELSE Range(deferred[q])
      BY <3>2, ErrandsFew
    <3>4. \A q \in RunIds : Distinct(deferred'[q])
      BY <1>a, <3>2, ErrandsFew
    <3>5. \A j \in Jobs : OnePlace(j)'
      BY <1>a, <2>1, <2>2, <3>1, <3>3 DEF OnePlace, Waits
    <3>s. Stays
      BY <2>1, <2>2, <3>1, <3>3 DEF Nowhere, Waits
    <3> QED BY <1>a, <1>q, <2>1, <2>2, <3>4, <3>5, <3>s
  <2> QED BY <2>3, <2>4
<1>11. CASE DieMove
  <2>1. /\ works' = <<>> /\ outbox' = <<>> /\ busy' = NoRun /\ UNCHANGED events
        /\ \A r \in RunIds : deferred'[r] = <<>>
    BY <1>11 DEF DieMove
  <2>2. /\ ErrandJobs(works') = {} /\ ErrandJobs(outbox') = {} /\ Held' = {} /\ Apart(works')
        /\ Apart(outbox') /\ Distinct(HandJobs')
        /\ \A r \in RunIds : Range(deferred'[r]) = {} /\ Distinct(deferred'[r])
    BY <1>n, <2>1, ErrandsFew
  <2>3. \A j \in Jobs : OnePlace(j)'
    BY <1>a, <2>1, <2>2 DEF OnePlace, Waits
  <2>s. Stays
    BY <1>11 DEF Leaves
  <2> QED BY <1>a, <1>q, <2>1, <2>2, <2>3, <2>s
<1> QED
  BY <1>1, <1>2, <1>3, <1>4, <1>5, <1>6, <1>7, <1>8, <1>9, <1>10, <1>11 DEF Move
-----------------------------------------------------------------------------
(* The worker's entries stay what they are.                                *)

\* What is said of one entry.
EntryFine(r) ==
    /\ r \in Deferred => pending[r] # NoTicket \/ (EndEntry(r) /\ Len(deferred[r]) = 1)
    /\ InHand(r) => StartEntry(r) \/ (EndEntry(r) /\ Len(busy.jobs) = 1)
    /\ InHand(r) \/ r \in Deferred => JobRun[Head(Waiting(r))] = r
    /\ pending[r] # NoTicket => InHand(r) \/ r \in Deferred

\* A run keeps its ticket, and the entry that is in use.
EntryKept(r) == pending'[r] = pending[r] /\ (InUseNow(r) => active'[r] = active[r])

\* The entries are sound after a step when each is, and a worker that is gone
\* has none.
LEMMA EntriesLater ==
    ASSUME busy' \in GoodBusy' \union {NoRun},
           registry' # "open" => (works = <<>> /\ outbox = <<>> /\ busy = NoRun /\ Deferred = {})',
           (busy # NoRun => outbox = <<>> /\ deferred[busy.run] = <<>>)',
           \A r \in RunIds : EntryFine(r)'
    PROVE  Entries'
<1>1. \A r \in Deferred' : r \in RunIds
  BY DEF Deferred
<1>2. busy' # NoRun => \E r \in RunIds : r = busy'.run /\ InHand(r)'
  BY DEF GoodBusy, InHand
<1> QED BY <1>1, <1>2 DEF Entries, EntryFine

\* And each is when they are sound.
LEMMA EntriesOfRun ==
    ASSUME Entries, NEW r \in RunIds PROVE EntryFine(r)
BY DEF Entries, EntryFine, InHand

\* An entry that the step does not touch, and one that ended.
LEMMA EntryUntouched ==
    ASSUME NEW r \in RunIds, EntryFine(r), EntryKept(r), deferred'[r] = deferred[r],
           \/ UNCHANGED busy
           \/ ~InHand(r) /\ ~InHand(r)'
    PROVE  EntryFine(r)'
<1>1. /\ (r \in Deferred)' <=> r \in Deferred
      /\ InHand(r)' <=> InHand(r)
      /\ InHand(r) => busy' = busy
      /\ pending'[r] = pending[r]
  BY DEF Deferred, InHand, EntryKept
<1>2. Waiting(r)' = Waiting(r)
  BY <1>1 DEF Waiting
<1>3. /\ StartEntry(r) => StartEntry(r)'
      /\ EndEntry(r) => EndEntry(r)'
  BY DEF EntryKept, StartEntry, EndEntry, InUseNow
<1> QED BY <1>1, <1>2, <1>3 DEF EntryFine

\* A run without an entry, or anything in hand, has nothing to be fine.
LEMMA EntryGone ==
    ASSUME NEW r \in RunIds, busy' = NoRun, deferred'[r] = <<>>, pending'[r] = NoTicket
    PROVE  EntryFine(r)'
BY DEF EntryFine, Deferred, InHand

\* No work, no answer and no entry is left once the worker is gone; what it has
\* in hand has left the list, and it has sent what there was to send.
LEMMA HeldStep ==
    ASSUME HostShape, Entries, Move, [RunHostNext]_runHostVars
    PROVE  /\ registry' # "open" => (works = <<>> /\ outbox = <<>> /\ busy = NoRun /\ Deferred = {})'
           /\ (busy # NoRun => outbox = <<>> /\ deferred[busy.run] = <<>>)'
<1>1. ASSUME registry # "open" PROVE works' = <<>> /\ outbox' = <<>> /\ busy' = NoRun /\ (Deferred = {})'
  <2>1. works = <<>> /\ outbox = <<>> /\ busy = NoRun /\ Deferred = {}
    BY <1>1 DEF Entries
  <2>2. UNCHANGED <<works, outbox, busy, deferred>>
    BY <1>1 DEF Move, StayMove, ReceiveMove, Grows, SendMove, DieMove, ArriveMove, ReplyMove,
       TimeMove, DeferMove, HandMove, LiftMove, EndMove, WorkerFree, Idle
  <2> QED BY <2>1, <2>2 DEF Deferred
<1>2. ASSUME registry = "open", registry' # "open"
      PROVE  works' = <<>> /\ outbox' = <<>> /\ busy' = NoRun /\ (Deferred = {})'
  <2>1. WorkerDies
    BY <1>2, Phases
  <2> QED BY <2>1 DEF WorkerDies, Deferred
<1>3. (busy # NoRun => outbox = <<>> /\ deferred[busy.run] = <<>>)'
  <2>1. CASE \/ StayMove \/ ReceiveMove \/ (\E w \in Work : ArriveMove(w))
    BY <2>1 DEF StayMove, ReceiveMove, ArriveMove, Entries
  <2>2. CASE \/ SendMove \/ DieMove \/ (\E e \in GoodEvent : ReplyMove(e) \/ TimeMove(e))
             \/ (\E r \in RunIds : DeferMove(r))
    <3>1. busy' = NoRun
      BY <2>2 DEF SendMove, DieMove, ReplyMove, TimeMove, DeferMove, WorkerFree, Entries
    <3> QED BY <3>1
  <2>3. ASSUME NEW r \in RunIds, HandMove(r) PROVE outbox' = <<>> /\ deferred'[busy'.run] = <<>>
    BY <2>3 DEF HandMove, WorkerFree
  <2>4. ASSUME NEW r \in RunIds, LiftMove(r)
        PROVE  outbox' = <<>> /\ deferred'[busy'.run] = <<>>
    BY <2>4 DEF LiftMove, WorkerFree, HostShape, WorkerShape
  <2>5. ASSUME NEW r \in RunIds, NEW e \in GoodEvent, EndMove(r, e) PROVE busy' = NoRun
    BY <2>5 DEF EndMove, StartEnds
  <2> QED BY <2>1, <2>2, <2>3, <2>4, <2>5 DEF Move
<1> QED BY <1>1, <1>2, <1>3

\* An end that the worker takes is of a run without an entry, made for the
\* request that names it.
LEMMA TakenFinish ==
    ASSUME HostShape, NamesInv, Entries, Counted, Once, OwnRuns, Whole => SlotsAwait,
           Taking("finish"), NEW r \in RunIds, r = Head(works).run
    PROVE  deferred[r] = <<>> /\ pending[r] = NoTicket /\ JobRun[Head(works).job] = r
<1> DEFINE w == Head(works)
           j == w.job
<1>0. /\ w \in GoodWork /\ w \in Asked /\ w.kind = "finish" /\ j \in KnownJobs /\ w.run = r
      /\ KnownJobs \subseteq Jobs /\ deferred \in [RunIds -> Seq(KnownJobs)]
  <2>1. w \in GoodWork /\ w \in Asked
    BY WorkTaken, WorkGone
  <2> QED BY <2>1, WorkTaken DEF GoodWork, KnownJobs, HostShape, WorkerShape
<1> HIDE DEF w
<1>1. SlotsAwait /\ WorkerFree
  BY DEF Counted, Taking, WorkerFree, Idle
<1>2. Named(r)
  BY <1>0 DEF Named
<1>3. pending[r] = NoTicket
  BY <1>2 DEF NamesInv
<1>4. JobRun[j] = r
  <2>1. AwaitsEnd(j, r)
    BY <1>0, <1>1 DEF SlotsAwait, Awaited
  <2> QED BY <1>0, <2>1, RunHostSentinels DEF OwnRuns, AwaitsEnd
<1>5. ASSUME deferred[r] # <<>> PROVE FALSE
  <2>1. r \in Deferred /\ ~InHand(r) /\ Waiting(r) = deferred[r]
    BY <1>1, <1>5 DEF Deferred, InHand, WorkerFree, Waiting
  <2>2. JobRun[Head(deferred[r])] = r /\ Head(deferred[r]) \in KnownJobs
    BY <2>1, WaitingShape DEF Entries, HostShape
  <2>3. j \in ErrandJobs(works)
    BY <1>0 DEF ErrandJobs, Asked, Errand
  <2>4. Head(deferred[r]) # j
    <3>1. deferred[r] \in Seq(KnownJobs)
      BY <1>0
    <3>2. Head(deferred[r]) \in Waits(r)
      BY <1>5, <3>1, SequenceRange DEF Waits
    <3>3. j \notin Waits(r)
      BY <1>0, <2>3 DEF Once, OnePlace
    <3> QED BY <3>2, <3>3
  <2> QED BY <1>0, <1>4, <2>2, <2>4, RunHostAssumption
<1> QED BY <1>3, <1>4, <1>5 DEF w

\* What the entry of a run that is taken, or ends, was: it has no ticket.
LEMMA EntryTickets ==
    ASSUME SafetyInv, registry = "open", NEW r \in RunIds
    PROVE  /\ active[r] # "none" => pending[r] = NoTicket
           /\ \A step \in {"begun", "spawned", "failed"} : At(r, step) =>
                 active[r] = "owned" /\ pending[r] = NoTicket
<1>1. TicketsSound /\ StartSound
  BY DEF SafetyInv, BooksInv, RegistryInv, RecordsInv
<1> QED BY <1>1 DEF TicketsSound, StartSound

\* An item of work that the worker takes leaves the entries sound, and makes
\* one more.
LEMMA TakeEntries ==
    ASSUME HostBase, NamesInv, Entries, Counted, Once, OwnRuns, Whole => SlotsAwait, TakeWork,
           NEW r \in RunIds
    PROVE  EntryFine(r)'
<1>0. /\ HostShape /\ EntryFine(r) /\ RegistryInv /\ EntriesInv /\ SafetyInv
      /\ deferred \in [RunIds -> Seq(KnownJobs)]
      /\ active \in [RunIds -> ActiveState] /\ pending \in [RunIds -> Ticket \union {NoTicket}]
  BY EntriesOfRun DEF HostBase, SafetyInv, HostShape, WorkerShape, RegistryInv, RecordsInv, RecordsTypeOK
<1>f. ASSUME UNCHANGED <<busy, deferred, pending, active>> PROVE EntryFine(r)'
  BY <1>0, <1>f, EntryUntouched DEF EntryKept
<1>u. ASSUME UNCHANGED vars PROVE UNCHANGED <<pending, active>>
  BY <1>u DEF vars, registryVars
<1>c. ASSUME NEW gone \in SUBSET RunIds, HistoryCut(gone)
      PROVE  \A q \in RunIds : InUseNow(q) => active'[q] = active[q]
  BY <1>0, <1>c, CutEffect DEF InUseNow
<1>1. CASE JoinStart
  <2> DEFINE j == Head(works).job
  <2>1. WorkerFree /\ UNCHANGED <<pending, active>>
    BY <1>1 DEF JoinStart, Taking, vars, registryVars
  <2>2. PICK q \in Deferred :
           /\ pending[q] # NoTicket
           /\ \/ deferred' = [deferred EXCEPT ![q] = Append(@, j)] /\ UNCHANGED <<outbox, busy>>
              \/ Replying(Reply("start", j, NoRun, FALSE))
    BY <1>1 DEF JoinStart, Joins
  <2>3. CASE Replying(Reply("start", j, NoRun, FALSE))
    BY <1>f, <2>1, <2>3 DEF Replying
  <2>4. CASE deferred' = [deferred EXCEPT ![q] = Append(@, j)] /\ UNCHANGED <<outbox, busy>>
    <3>1. CASE q = r
      <4>1. deferred'[r] = Append(deferred[r], j) /\ r \in Deferred /\ pending[r] # NoTicket /\ ~InHand(r)
        BY <1>0, <2>1, <2>2, <2>4, <3>1 DEF Deferred, WorkerFree, InHand
      <4>2. ~InHand(r)' /\ pending'[r] # NoTicket
        BY <2>1, <2>4, <4>1 DEF InHand
      <4>3. deferred[r] \in Seq(KnownJobs) /\ deferred[r] # <<>> /\ j \in Jobs \union {NoJob}
        <5>1. Head(works) \in GoodWork
          BY <1>0, <1>1, WorkTaken DEF JoinStart
        <5> QED BY <1>0, <4>1, <5>1 DEF Deferred, GoodWork, Work
      <4>4. deferred'[r] # <<>> /\ Head(deferred'[r]) = Head(deferred[r])
        <5>1. KnownJobs \subseteq Jobs \union {NoJob}
          BY DEF KnownJobs
        <5>2. deferred[r] \in Seq(Jobs \union {NoJob})
          BY <4>3, <5>1, SeqMonotonic
        <5> HIDE DEF j
        <5> QED BY <4>1, <4>3, <5>2, AppendProperties, HeadTailProperties, EmptySeq
      <4>5. Waiting(r)' = deferred'[r] /\ Waiting(r) = deferred[r] /\ (r \in Deferred)'
        BY <4>1, <4>2, <4>4 DEF Waiting, Deferred
      <4> QED BY <1>0, <4>1, <4>2, <4>4, <4>5 DEF EntryFine
    <3>2. CASE q # r
      <4>1. deferred'[r] = deferred[r]
        BY <1>0, <2>2, <2>4, <3>2
      <4> QED BY <1>0, <2>1, <2>4, <4>1, EntryUntouched DEF EntryKept
    <3> QED BY <3>1, <3>2
  <2> QED BY <2>2, <2>3, <2>4
<1>2. CASE RefuseStart
  <2>1. UNCHANGED <<busy, deferred>>
    BY <1>2 DEF RefuseStart, Replying
  <2>2. \/ UNCHANGED <<pending, active>>
        \/ UNCHANGED pending /\ \E gone \in SUBSET RunIds : HistoryCut(gone)
    BY <1>2, <1>u DEF RefuseStart, BeginRefused, HistoryCutFails
  <2>3. EntryKept(r)
    BY <1>c, <2>2 DEF EntryKept
  <2> QED BY <1>0, <2>1, <2>3, EntryUntouched
<1>3. CASE ReserveStart
  <2> DEFINE j == Head(works).job
             q == JobRun[j]
  <2>1. /\ WorkerFree /\ Head(works) \in Asked /\ Head(works).kind = "start" /\ j \in Jobs
    <3>1. WorkerFree /\ works # <<>> /\ Head(works).kind = "start" /\ Head(works) \in GoodWork
      BY <1>0, <1>3, WorkTaken DEF ReserveStart, Taking
    <3>2. Head(works) \in Asked
      BY <1>0, <1>3, WorkGone DEF ReserveStart
    <3> QED BY <3>1, <3>2 DEF GoodWork, KnownJobs
  <2>2. q \in RunIds /\ Fresh(q)
    BY <2>1, RunHostAssumption DEF NamesInv
  <2>3. deferred[q] = <<>> /\ ~InHand(q)
    BY <2>1, <2>2 DEF Fresh, Entries, Deferred, EndEntry, WorkerFree, InHand
  <2>4. PICK gone \in SUBSET RunIds :
           BeginReserve(q, JobOperation[j], JobTask[j], j \in ParallelJobs, gone)
    BY <1>3 DEF ReserveStart
  <2>5. /\ pending' = [pending EXCEPT ![q] = [operation |-> JobOperation[j], task |-> JobTask[j]]]
        /\ \A k \in RunIds : InUseNow(k) => active'[k] = active[k]
    BY <1>c, <2>4 DEF BeginReserve
  <2>6. \/ deferred' = [deferred EXCEPT ![q] = <<j>>] /\ UNCHANGED busy
        \/ busy' = [run |-> q, jobs |-> <<j>>] /\ UNCHANGED deferred
    BY <1>3 DEF ReserveStart
  <2>7. JobOperation[j] \in RunOperations /\ JobTask[j] \in Tasks
    BY <2>1, RunHostAssumption
  <2>8. NoTicket \notin Ticket
    BY SentinelAssumption
  <2>9. CASE q = r
    <3>1. pending'[r] # NoTicket
      <4>1. pending'[r] = [operation |-> JobOperation[j], task |-> JobTask[j]]
        BY <1>0, <2>5, <2>9
      <4>2. [operation |-> JobOperation[j], task |-> JobTask[j]] \in Ticket
        BY <2>7 DEF Ticket
      <4> QED BY <2>8, <4>1, <4>2
    <3>2. busy = NoRun
      BY <2>1 DEF WorkerFree
    <3> DEFINE one == <<j>>
    <3>3. one # <<>> /\ Head(one) = j
      OBVIOUS
    <3>4. JobRun[Head(one)] = r
      BY <2>9, <3>3
    <3> HIDE DEF one
    <3>5. CASE deferred' = [deferred EXCEPT ![q] = one] /\ UNCHANGED busy
      <4>1. deferred'[r] = one /\ ~InHand(r)' /\ (r \in Deferred)'
        BY <1>0, <2>9, <3>2, <3>3, <3>5 DEF InHand, Deferred
      <4>2. Waiting(r)' = one
        BY <4>1 DEF Waiting
      <4> QED BY <3>1, <3>4, <4>1, <4>2 DEF EntryFine
    <3>6. CASE busy' = [run |-> q, jobs |-> one] /\ UNCHANGED deferred
      <4>1. busy' # NoRun /\ InHand(r)' /\ ~(r \in Deferred)' /\ busy'.jobs = one
        <5>1. [run |-> q, jobs |-> one] \in Busy
          BY <2>1, <2>2 DEF Busy, one
        <5>2. busy' # NoRun
          BY <3>6, <5>1, RunHostSentinels
        <5> QED BY <2>3, <2>9, <3>6, <5>2 DEF InHand, Deferred
      <4>2. Waiting(r)' = one
        BY <4>1 DEF Waiting
      <4> QED BY <3>1, <3>4, <4>1, <4>2 DEF EntryFine, StartEntry
    <3> QED BY <2>6, <3>5, <3>6 DEF one
  <2>10. CASE q # r
    <3>1. EntryKept(r) /\ deferred'[r] = deferred[r] /\ ~InHand(r)
      BY <1>0, <2>1, <2>5, <2>6, <2>10 DEF EntryKept, WorkerFree, InHand
    <3>2. UNCHANGED busy \/ ~InHand(r)'
      BY <2>6, <2>10 DEF InHand
    <3> QED BY <1>0, <3>1, <3>2, EntryUntouched
  <2> HIDE DEF q
  <2> QED BY <2>9, <2>10
<1>4. CASE BeginFinish
  <2> DEFINE w == Head(works)
             j == w.job
             q == w.run
  <2>1. Taking("finish") /\ WorkerFree /\ w \in GoodWork /\ w.kind = "finish"
    BY <1>0, <1>4, WorkTaken DEF BeginFinish, Taking
  <2>2. q \in RunIds /\ j \in KnownJobs
    BY <2>1 DEF GoodWork
  <2>3. deferred[q] = <<>> /\ pending[q] = NoTicket /\ JobRun[j] = q /\ ~InHand(r) /\ busy = NoRun
    BY <1>0, <2>1, <2>2, TakenFinish DEF WorkerFree, InHand
  <2>4. CASE UNCHANGED vars /\ Replying(Reply("finish", j, q, FALSE))
    BY <1>f, <1>u, <2>4 DEF Replying
  <2>5. CASE /\ FinishProbe(q)
             /\ \/ deferred' = [deferred EXCEPT ![q] = <<j>>] /\ UNCHANGED busy
                \/ busy' = [run |-> q, jobs |-> <<j>>] /\ UNCHANGED deferred
    <3>1. active' = [active EXCEPT ![q] = "finishing"] /\ UNCHANGED pending
      BY <2>5 DEF FinishProbe
    <3> DEFINE one == <<j>>
    <3>2. CASE q = r
      <4>1. EndEntry(r)'
        BY <1>0, <2>3, <3>1, <3>2 DEF EndEntry
      <4>2. one # <<>> /\ JobRun[Head(one)] = r /\ Len(one) = 1
        BY <2>3, <3>2
      <4>a. [run |-> q, jobs |-> one] \in Busy
        <5>1. j \in Jobs
          BY <2>2 DEF KnownJobs
        <5> QED BY <2>2, <5>1 DEF Busy
      <4>b. pending'[r] = NoTicket
        BY <2>3, <3>1, <3>2
      <4> HIDE DEF one
      <4>3. CASE deferred' = [deferred EXCEPT ![q] = one] /\ UNCHANGED busy
        <5>1. deferred'[r] = one /\ ~InHand(r)' /\ (r \in Deferred)'
          BY <1>0, <2>3, <3>2, <4>2, <4>3 DEF InHand, Deferred
        <5>2. Waiting(r)' = one
          BY <5>1 DEF Waiting
        <5> QED BY <4>1, <4>2, <4>b, <5>1, <5>2 DEF EntryFine
      <4>4. CASE busy' = [run |-> q, jobs |-> one] /\ UNCHANGED deferred
        <5>1. busy' # NoRun
          BY <4>4, <4>a, RunHostSentinels
        <5>2. InHand(r)' /\ ~(r \in Deferred)' /\ busy'.jobs = one
          BY <2>3, <3>2, <4>4, <5>1 DEF InHand, Deferred
        <5>3. Waiting(r)' = one
          BY <5>2 DEF Waiting
        <5> QED BY <4>1, <4>2, <4>b, <5>2, <5>3 DEF EntryFine
      <4> QED BY <2>5, <4>3, <4>4 DEF one
    <3>3. CASE q # r
      <4>1. EntryKept(r) /\ deferred'[r] = deferred[r]
        BY <1>0, <2>2, <2>5, <3>1, <3>3 DEF EntryKept
      <4>2. UNCHANGED busy \/ ~InHand(r)'
        BY <2>5, <3>3 DEF InHand
      <4> QED BY <1>0, <2>3, <4>1, <4>2, EntryUntouched
    <3> HIDE DEF w, j, q
    <3> QED BY <3>2, <3>3
  <2> QED BY <1>4, <2>4, <2>5 DEF BeginFinish
<1>5. ASSUME NEW ok \in BOOLEAN, HandleCancel(ok) PROVE EntryFine(r)'
  <2>1. UNCHANGED <<busy, deferred>>
    BY <1>5 DEF HandleCancel, Replying
  <2>2. UNCHANGED <<pending, active>>
    BY <1>5, <1>u DEF HandleCancel, Cancel
  <2> QED BY <1>f, <2>1, <2>2
<1> QED BY <1>1, <1>2, <1>3, <1>4, <1>5 DEF TakeWork

\* A start under way keeps its entry until it is told, and an end until its
\* outcome is known.
LEMMA AdvanceEntries ==
    ASSUME HostBase, Entries, NEW q \in RunIds, NEW ok \in BOOLEAN, NEW r \in RunIds,
           \/ CommitStart(q, ok) \/ FailPreparation(q, ok) \/ ReportUnspawned(q, ok)
           \/ RecordRunning(q, ok) \/ ReportSpawned(q, ok) \/ CreateProcess(q)
           \/ TimeOut(q, ok) \/ CompleteFinish(q, ok)
    PROVE  EntryFine(r)'
<1>0. /\ HostShape /\ EntryFine(r) /\ EntryFine(q) /\ SafetyInv
      /\ deferred \in [RunIds -> Seq(KnownJobs)] /\ busy \in GoodBusy \union {NoRun}
      /\ active \in [RunIds -> ActiveState] /\ pending \in [RunIds -> Ticket \union {NoTicket}]
  BY EntriesOfRun DEF HostBase, SafetyInv, HostShape, WorkerShape, RegistryInv, RecordsInv, RecordsTypeOK
<1>1. InHand(q) => registry = "open" /\ deferred[q] = <<>> /\ busy = [run |-> q, jobs |-> Waiting(q)]
  BY <1>0 DEF InHand, Entries, Waiting, GoodBusy
<1>c. Completing(q) => \/ InHand(q) /\ UNCHANGED deferred
                       \/ WorkerFree /\ q \in Deferred /\ deferred' = [deferred EXCEPT ![q] = <<>>]
  BY DEF Completing
<1>d. Completing(q) => /\ deferred'[q] = <<>> /\ \A k \in RunIds : k # q => deferred'[k] = deferred[k]
                       /\ \A k \in RunIds : k # q => ~InHand(k)
  BY <1>0, <1>1, <1>c DEF WorkerFree, InHand
<1>f. ASSUME UNCHANGED <<busy, deferred, pending, active>> PROVE EntryFine(r)'
  BY <1>0, <1>f, EntryUntouched DEF EntryKept
<1>e. ASSUME busy' = NoRun, Completing(q), pending'[q] = NoTicket, r # q => EntryKept(r)
      PROVE  EntryFine(r)'
  <2>1. CASE q = r
    BY <1>d, <1>e, <2>1, EntryGone
  <2>2. CASE q # r
    <3>1. ~InHand(r) /\ ~InHand(r)' /\ deferred'[r] = deferred[r]
      BY <1>d, <1>e, <2>2 DEF InHand
    <3> QED BY <1>0, <1>e, <2>2, <3>1, EntryUntouched
  <2> QED BY <2>1, <2>2
<1>t. registry = "open" => /\ active[q] # "none" => pending[q] = NoTicket
                           /\ \A step \in {"begun", "spawned", "failed"} : At(q, step) =>
                                 active[q] = "owned" /\ pending[q] = NoTicket
  BY <1>0, EntryTickets
<1>2. CASE CommitStart(q, ok)
  <2>1. Completing(q) /\ pending' = [pending EXCEPT ![q] = NoTicket]
        /\ active' \in {active, [active EXCEPT ![q] = "owned"]}
    BY <1>2 DEF CommitStart, BeginAbandon, BeginCommit
  <2>2. pending'[q] = NoTicket /\ (r # q => EntryKept(r))
    BY <1>0, <2>1 DEF EntryKept
  <2>3. CASE busy' = NoRun
    BY <1>e, <2>1, <2>2, <2>3
  <2>4. CASE busy' # NoRun
    <3>1. busy' = [run |-> q, jobs |-> Waiting(q)] /\ active' = [active EXCEPT ![q] = "owned"]
      BY <1>2, <2>4 DEF CommitStart, BeginCommit, StartEnds
    <3>2. CASE q = r
      <4>1. InHand(r)' /\ StartEntry(r)' /\ ~(r \in Deferred)' /\ Waiting(r)' = Waiting(r)
        BY <1>0, <1>d, <2>1, <2>4, <3>1, <3>2 DEF InHand, StartEntry, Deferred, Waiting
      <4>2. InHand(r) \/ r \in Deferred
        BY <2>1, <3>2 DEF Completing
      <4> QED BY <1>0, <2>2, <3>2, <4>1, <4>2 DEF EntryFine
    <3>3. CASE q # r
      <4>1. ~InHand(r) /\ ~InHand(r)' /\ deferred'[r] = deferred[r]
        BY <1>d, <2>1, <3>1, <3>3 DEF InHand
      <4> QED BY <1>0, <2>2, <3>3, <4>1, EntryUntouched
    <3> QED BY <3>2, <3>3
  <2> QED BY <2>3, <2>4
<1>3. CASE FailPreparation(q, ok) \/ CreateProcess(q)
  BY <1>3, <1>f DEF FailPreparation, CreateProcess, PreparationFails, SpawnProcess, workerVars
<1>4. CASE ReportUnspawned(q, ok)
  <2>1. InHand(q) /\ busy' = NoRun /\ UNCHANGED deferred /\ FinishUnspawned(q, ok)
    BY <1>4 DEF ReportUnspawned, StartEnds
  <2>2. /\ UNCHANGED pending /\ At(q, "failed")
        /\ active' \in {[active EXCEPT ![q] = "released"], [active EXCEPT ![q] = "finishing"]}
    BY <2>1 DEF FinishUnspawned, Finalize
  <2>3. pending'[q] = NoTicket /\ (r # q => EntryKept(r)) /\ Completing(q)
    BY <1>0, <1>1, <1>t, <2>1, <2>2 DEF EntryKept, Completing
  <2> QED BY <1>e, <2>1, <2>3
<1>5. CASE RecordRunning(q, ok)
  <2>1. /\ InHand(q) /\ UNCHANGED deferred /\ UNCHANGED <<pending, active>> /\ At(q, "spawned")
        /\ busy' = NoRun \/ UNCHANGED busy
    BY <1>5 DEF RecordRunning, MarkRunning, StartEnds
  <2>2. pending'[q] = NoTicket /\ (r # q => EntryKept(r)) /\ Completing(q)
    BY <1>0, <1>1, <1>t, <2>1 DEF EntryKept, Completing
  <2> QED BY <1>e, <1>f, <2>1, <2>2
<1>6. CASE ReportSpawned(q, ok)
  <2>1. /\ InHand(q) /\ UNCHANGED deferred /\ active[q] = "owned" /\ busy' = NoRun
        /\ UNCHANGED vars \/ Cancel(q, ok)
    BY <1>6 DEF ReportSpawned, StartEnds
  <2>2. UNCHANGED <<pending, active>>
    BY <2>1 DEF Cancel, vars, registryVars
  <2>3. pending'[q] = NoTicket /\ (r # q => EntryKept(r)) /\ Completing(q)
    BY <1>0, <1>1, <1>t, <2>1, <2>2 DEF EntryKept, Completing
  <2> QED BY <1>e, <2>1, <2>3
<1>7. CASE TimeOut(q, ok)
  BY <1>7, <1>f DEF TimeOut, Cancel, Replying
<1>8. CASE CompleteFinish(q, ok)
  <2>1. /\ pending[q] = NoTicket /\ Completing(q) /\ busy' = NoRun /\ UNCHANGED pending
        /\ active' \in {[active EXCEPT ![q] = "released"], [active EXCEPT ![q] = "finishing"]}
    BY <1>8 DEF CompleteFinish, FinishObserved, Finalize, StartEnds
  <2>2. pending'[q] = NoTicket /\ (r # q => EntryKept(r))
    BY <1>0, <2>1 DEF EntryKept
  <2> QED BY <1>e, <2>1, <2>2
<1> QED BY <1>2, <1>3, <1>4, <1>5, <1>6, <1>7, <1>8

\* Every step keeps the entries of the starts under way sound.
LEMMA EntriesStepSound ==
    ASSUME HostBase, NamesInv, Entries, Counted, Once, OwnRuns, Whole => SlotsAwait, Move,
           [RunHostNext]_runHostVars
    PROVE  Entries'
<1>0. HostShape /\ HostShape' /\ SafetyInv'
  BY HostBaseStep DEF HostBase
<1>1. /\ busy' \in GoodBusy' \union {NoRun}
      /\ registry' # "open" => (works = <<>> /\ outbox = <<>> /\ busy = NoRun /\ Deferred = {})'
      /\ (busy # NoRun => outbox = <<>> /\ deferred[busy.run] = <<>>)'
  BY <1>0, HeldStep DEF HostShape, WorkerShape
<1>2. ASSUME NEW r \in RunIds PROVE EntryFine(r)'
  <2>1. CASE registry' # "open"
    <3>1. registry' \in {"down", "dying", "unlisted", "lost"}
      BY <1>0, <2>1 DEF SafetyInv, RegistryInv, RecordsInv, RecordsTypeOK, RegistryState
    <3>2. pending'[r] = NoTicket
      BY <1>0, <3>1 DEF SafetyInv, Stopped, RegistryInv, RecordsInv, NothingKept
    <3>3. busy' = NoRun /\ deferred'[r] = <<>>
      BY <1>1, <2>1 DEF Deferred
    <3> QED BY <3>2, <3>3, EntryGone
  <2>2. CASE TakeWork
    BY <2>2, TakeEntries
  <2>3. ASSUME NEW q \in RunIds, AdvanceStart(q) PROVE EntryFine(r)'
    <3>1. TRUE \in BOOLEAN
      OBVIOUS
    <3> QED BY <2>3, <3>1, AdvanceEntries DEF AdvanceStart
  <2>4. ASSUME NEW q \in RunIds, NEW ok \in BOOLEAN, TimeOut(q, ok) \/ CompleteFinish(q, ok)
        PROVE  EntryFine(r)'
    BY <2>4, AdvanceEntries
  <2>5. CASE WorkerDies \/ WorkerUnwinds
    BY <2>1, <2>5 DEF WorkerDies, WorkerEnds, WorkerUnwinds, CloseSources, DropActive
  <2>6. ASSUME UNCHANGED <<busy, deferred, pending, active>> PROVE EntryFine(r)'
    BY <2>6, EntriesOfRun, EntryUntouched DEF EntryKept
  <2>7. ASSUME UNCHANGED <<busy, deferred>>, UNCHANGED vars PROVE EntryFine(r)'
    BY <2>6, <2>7 DEF vars, registryVars
  <2>8. CASE HostStarts \/ (\E q \in RunIds : ProcessesEnd(q))
    BY <2>6, <2>8 DEF HostStarts, Open, ProcessesEnd, ChildExits, workerVars
  <2>9. CASE ClientStep \/ TickStep \/ SendEvent \/ UNCHANGED runHostVars
    BY <2>7, <2>9 DEF ClientStep, SubmitStart, CancelJob, AskCancel, CloseAll, CloseSession, TickStep,
       Receive, MarkRunsDead, LaunchDies, RetryCancel, ForceAfterGrace, ObserveExit, Reap,
       SendFinish, SendEvent, runHostVars, workerVars
  <2> QED BY <2>2, <2>3, <2>4, <2>5, <2>8, <2>9 DEF RunHostNext, WorkerLoop
<1> QED
  <2>1. \A r \in RunIds : EntryFine(r)'
    BY <1>2
  <2> QED BY <1>1, <2>1, EntriesLater
-----------------------------------------------------------------------------
(* What the slots know of their runs.                                      *)

\* The entries of the registry under this worker (StepKinds): what an
\* execution leaves in runs.json when its entry is released is what is known
\* of it, and what has no entry has no record.
LEMMA LedgeredStep ==
    ASSUME HostBase, Ledgered, [RunHostNext]_runHostVars PROVE Ledgered'
<1>0. /\ RegistryInv /\ EntriesInv /\ TicketsSound /\ [RegistryNext]_vars
      /\ runs \in [RunIds -> RunRecord \union {NoRun}]
      /\ ledger \in [RunIds -> RunRecord \union {NoRun}]
      /\ active \in [RunIds -> ActiveState]
      /\ registry = "down" => \A r \in RunIds : active[r] = "none"
  BY HostRegistryStep DEF HostBase, SafetyInv, BooksInv, RegistryInv, RecordsInv, RecordsTypeOK, NothingKept
<1>1. registry' = "down" => registry = "down"
  BY Phases
<1>s. \A r \in RunIds : /\ active[r] = "none" => runs[r] = NoRun
                        /\ active[r] = "released" => ledger[r] \in {runs[r], NoRun}
  BY DEF Ledgered
<1>f. ASSUME registry' # "down",
             \A r \in RunIds : \/ runs'[r] = runs[r] /\ active'[r] = active[r] /\ ledger'[r] \in {ledger[r], runs[r], NoRun}
                               \/ active'[r] = "released" /\ ledger'[r] = runs'[r]
                               \/ active'[r] \in {"owned", "finishing"}
                               \/ active'[r] = "none" /\ runs'[r] = NoRun
      PROVE  Ledgered'
  BY <1>s, <1>f DEF Ledgered
<1>2. CASE Quiet
  BY <1>1, <1>2, QuietKeeps DEF Ledgered
<1>3. ASSUME NEW q \in RunIds, NEW run \in RunRecord, Rewrites(q, run) PROVE Ledgered'
  <2>1. /\ registry' # "down" /\ active[q] \in {"owned", "finishing"} /\ run # NoRun
        /\ runs' \in {runs, [runs EXCEPT ![q] = run]} /\ ledger' \in {ledger, [runs EXCEPT ![q] = run]}
        /\ \/ UNCHANGED active \/ active' = [active EXCEPT ![q] = "finishing"]
           \/ /\ active' = [active EXCEPT ![q] = "released"]
              /\ ledger' = [runs EXCEPT ![q] = run] /\ runs' = [runs EXCEPT ![q] = run]
    BY <1>0, <1>3, <1>s, SentinelAssumption DEF Rewrites, ActiveState
  <2>2. ASSUME NEW r \in RunIds, r # q
        PROVE  runs'[r] = runs[r] /\ active'[r] = active[r] /\ ledger'[r] \in {ledger[r], runs[r], NoRun}
    <3>1. runs'[r] = runs[r] /\ ledger'[r] \in {ledger[r], runs[r]}
      BY <1>0, <2>1, <2>2
    <3>2. active'[r] = active[r]
      BY <1>0, <2>1, <2>2
    <3> QED BY <3>1, <3>2
  <2>3. \/ active'[q] \in {"owned", "finishing"}
        \/ active'[q] = "released" /\ ledger'[q] = runs'[q]
    <3>1. UNCHANGED active \/ active' = [active EXCEPT ![q] = "finishing"] => active'[q] \in {"owned", "finishing"}
      BY <1>0, <2>1
    <3>2. active' = [active EXCEPT ![q] = "released"] => active'[q] = "released"
      BY <1>0
    <3>3. active' = [active EXCEPT ![q] = "released"] /\ ~UNCHANGED active
              /\ active' # [active EXCEPT ![q] = "finishing"] => ledger'[q] = runs'[q]
      BY <2>1
    <3> QED BY <2>1, <3>1, <3>2, <3>3
  <2> QED BY <1>f, <2>1, <2>2, <2>3
<1>4. ASSUME NEW gone \in SUBSET RunIds, HistoryCut(gone), registry' # "down" PROVE Ledgered'
  <2>1. /\ runs' = Without(runs, gone) /\ ledger' \in {ledger, runs, Without(runs, gone)}
        /\ \A r \in RunIds : r \notin gone => runs'[r] = runs[r] /\ active'[r] = active[r]
        /\ \A r \in gone : runs'[r] = NoRun /\ active'[r] = "none"
    BY <1>0, <1>4, CutEffect
  <2>2. \A r \in RunIds : ledger'[r] \in {ledger[r], runs[r], NoRun}
    BY <2>1 DEF Without
  <2> QED BY <1>4, <1>f, <2>1, <2>2
<1>5. ASSUME NEW q \in RunIds, NEW op \in RunOperations, NEW t \in Tasks,
             NEW parallel \in BOOLEAN, HistoryCutFails(op, t, parallel, q)
      PROVE  Ledgered'
  BY <1>5, <1>f DEF HistoryCutFails, Save, Without, Idle
<1>6. ASSUME NEW q \in RunIds, BeginAbandon(q) \/ FinishProbe(q) PROVE Ledgered'
  <2>1. /\ registry' # "down" /\ UNCHANGED <<runs, ledger>>
        /\ UNCHANGED active \/ active' = [active EXCEPT ![q] = "finishing"]
    BY <1>6 DEF BeginAbandon, FinishProbe, Idle
  <2>2. \A r \in RunIds : active'[r] = active[r] \/ active'[r] = "finishing"
    BY <1>0, <2>1
  <2> QED BY <1>f, <2>1, <2>2
<1>7. ASSUME NEW q \in RunIds, NEW ok \in BOOLEAN, BeginCommit(q, ok) PROVE Ledgered'
  <2> DEFINE run == [operation |-> pending[q].operation, task |-> pending[q].task,
                     state |-> "Preparing", cancel_requested |-> FALSE,
                     cleanup_confirmed |-> FALSE]
             book == [runs EXCEPT ![q] = run]
  <2>1. /\ registry' # "down" /\ ledger' \in {ledger, book}
        /\ \/ ok /\ runs' = book /\ active' = [active EXCEPT ![q] = "owned"]
           \/ UNCHANGED <<runs, active>>
        /\ active[q] = "none" /\ runs[q] = NoRun
    BY <1>0, <1>7 DEF BeginCommit, Save, Idle, TicketsSound
  <2> HIDE DEF run
  <2>2. \A r \in RunIds : r # q => runs'[r] = runs[r] /\ ledger'[r] \in {ledger[r], runs[r], NoRun}
    BY <1>0, <2>1
  <2>3. \A r \in RunIds : r # q => active'[r] = active[r]
    BY <1>0, <2>1
  <2>4. active'[q] = "owned" \/ (active'[q] = "none" /\ runs'[q] = NoRun)
    BY <1>0, <2>1
  <2> QED BY <1>f, <2>1, <2>2, <2>3, <2>4
<1>8. ASSUME NEW gone \in SUBSET RunIds, NEW ok \in BOOLEAN, Open(gone, ok) PROVE Ledgered'
  <2>1. \A r \in RunIds : ledger[r] = NoRun /\ active[r] = "none" /\ runs[r] = NoRun
    BY <1>0, <1>8 DEF Ledgered, Open
  <2>2. \A r \in RunIds : Without(Recovered, gone)[r] = NoRun
    BY <2>1 DEF Without, Recovered
  <2>3. \A r \in RunIds : ledger'[r] = NoRun /\ runs'[r] = NoRun /\ active'[r] = "none"
    BY <1>8, <2>1, <2>2 DEF Open, Save
  <2> QED BY <2>3 DEF Ledgered
<1>9. CASE WorkerEnds \/ DropActive
  BY <1>9, <1>f DEF WorkerEnds, DropActive
<1>10. CASE Crash
  BY <1>1, <1>10 DEF Crash, RegistryLost
<1>11. ASSUME NEW q \in RunIds, NEW op \in RunOperations, NEW t \in Tasks,
              NEW parallel \in BOOLEAN, NEW gone \in SUBSET RunIds,
              BeginReserve(q, op, t, parallel, gone)
       PROVE  Ledgered'
  BY <1>4, <1>11 DEF BeginReserve, Idle
<1>12. ASSUME NEW op \in RunOperations, NEW t \in Tasks,
              NEW parallel \in BOOLEAN, NEW gone \in SUBSET RunIds,
              BeginRefused(op, t, parallel, gone)
       PROVE  Ledgered'
  BY <1>4, <1>12 DEF BeginRefused, Idle
<1>13. RegistryInv /\ EntriesInv /\ [RegistryNext]_vars
  BY <1>0
<1> QED BY <1>2, <1>3, <1>5, <1>6, <1>7, <1>8, <1>9, <1>10, <1>11, <1>12, <1>13, StepKinds

\* A slot of which nothing changes that is owed to it or by it.
SlotSame(j) ==
    /\ jobs'[j] = jobs[j]
    /\ slots'[j].run = slots[j].run /\ slots'[j].final = slots[j].final
    /\ slots'[j].runtime = slots[j].runtime
    /\ slots'[j].preparing = slots[j].preparing \/ launchDead'

\* Most steps change nothing of a slot; the end that a slot reports and the
\* process that is reaped change theirs only.
LEMMA SlotMoves ==
    ASSUME HostShape, [RunHostNext]_runHostVars, ~MarkRunsDead, ~Receive, NEW j \in KnownJobs
    PROVE  SlotSame(j) \/ SendFinish(j) \/ Reap(j)
<1>0. /\ SlotsShape /\ Opened = KnownJobs /\ j \in Jobs /\ jobs[j] # "none"
      /\ \A i \in KnownJobs : SlotFine(slots[i]) /\ i \in Jobs
      /\ slots \in [Jobs -> Slot \union {NoSlot}] /\ jobs \in [Jobs -> JobState]
  BY OpenedFine DEF HostShape, KnownJobs, SlotsShape
<1>u. ASSUME UNCHANGED <<slots, jobs>> PROVE SlotSame(j)
  BY <1>u DEF SlotSame
<1>a. ASSUME UNCHANGED actorVars PROVE SlotSame(j)
  BY <1>a, <1>u DEF actorVars
<1>c. ASSUME NEW targets \in SUBSET Opened, NEW force \in BOOLEAN, CloseSlots(targets, force), UNCHANGED jobs
      PROVE  SlotSame(j)
  <2>1. \/ slots'[j] = slots[j]
        \/ \E sent \in BOOLEAN : slots'[j] = Closing(slots[j], force, sent)
    BY <1>0, <1>c, Closings
  <2> QED BY <1>0, <1>c, <2>1, ClosingFine DEF SlotSame
<1>1. ASSUME NEW i \in Jobs, SubmitStart(i) PROVE SlotSame(j)
  <2>1. i # j
    BY <1>0, <1>1 DEF SubmitStart
  <2>2. slots'[j] = slots[j] /\ jobs'[j] = jobs[j]
    BY <1>0, <1>1, <2>1 DEF SubmitStart
  <2> QED BY <2>2 DEF SlotSame
<1>2. ASSUME NEW i \in Jobs, CancelJob(i) PROVE SlotSame(j)
  <2>1. CASE SlotLive(slots[i])
    <3>1. {i} \in SUBSET Opened /\ FALSE \in BOOLEAN /\ CloseSlots({i}, FALSE) /\ UNCHANGED jobs
      BY <1>0, <1>2, <2>1 DEF CancelJob, KnownJobs
    <3> QED BY <1>c, <3>1
  <2>2. CASE ~SlotLive(slots[i])
    <3> DEFINE to == [slots[i] EXCEPT !.cancel = TRUE]
    <3>1. slots' = [slots EXCEPT ![i] = to] /\ UNCHANGED jobs
      BY <1>2, <2>2 DEF CancelJob
    <3>2. i = j => to.run = slots[j].run /\ to.final = slots[j].final /\ to.runtime = slots[j].runtime
                   /\ to.preparing = slots[j].preparing
      BY <1>0 DEF SlotFine, Slot
    <3>3. slots'[j] = IF i = j THEN to ELSE slots[j]
      BY <1>0, <3>1
    <3> HIDE DEF to
    <3> QED BY <3>1, <3>2, <3>3 DEF SlotSame
  <2> QED BY <2>1, <2>2
<1>3. ASSUME NEW force \in BOOLEAN, CloseAll(force) PROVE SlotSame(j)
  <2> DEFINE all == {i \in Opened : SlotLive(slots[i])}
  <2>1. all \in SUBSET Opened /\ CloseSlots(all, force) /\ UNCHANGED jobs
    BY <1>3 DEF CloseAll
  <2> HIDE DEF all
  <2> QED BY <1>c, <2>1
<1>4. ASSUME NEW i \in Jobs, NEW force \in BOOLEAN, CloseSession(i, force) PROVE SlotSame(j)
  <2>1. {i} \in SUBSET Opened /\ CloseSlots({i}, force) /\ UNCHANGED jobs
    BY <1>4 DEF CloseSession
  <2> QED BY <1>c, <2>1
<1>5. ASSUME NEW q \in RunIds, AskCancel(q) PROVE SlotSame(j)
  BY <1>5, <1>a DEF AskCancel
<1>6. CASE ClientStep
  BY <1>1, <1>2, <1>3, <1>4, <1>5, <1>6, RunHostAssumption DEF ClientStep
<1>7. CASE LaunchDies
  <2> DEFINE to == [slots[j] EXCEPT !.preparing = FALSE, !.state = "ended"]
  <2>1. launchDead' /\ UNCHANGED jobs /\ slots'[j] \in {slots[j], to}
    BY <1>0, <1>7 DEF LaunchDies
  <2>2. to.run = slots[j].run /\ to.runtime = slots[j].runtime /\ to.final = slots[j].final
    BY <1>0, UnpreparedFine
  <2> HIDE DEF to
  <2> QED BY <2>1, <2>2 DEF SlotSame
<1>e. ASSUME NEW i \in Opened, NEW to, slots' = [slots EXCEPT ![i] = to], UNCHANGED jobs,
             to.run = slots[i].run, to.final = slots[i].final, to.runtime = slots[i].runtime,
             to.preparing = slots[i].preparing
      PROVE  SlotSame(j)
  <2>1. slots'[j] = IF i = j THEN to ELSE slots[j]
    BY <1>0, <1>e
  <2> QED BY <1>e, <2>1 DEF SlotSame
<1>8. ASSUME NEW i \in Jobs, RetryCancel(i) \/ ForceAfterGrace(i) \/ ObserveExit(i) PROVE SlotSame(j)
  <2> DEFINE asked == [slots[i] EXCEPT !.cancelling = TRUE]
             forced == [slots[i] EXCEPT !.force = TRUE]
             seen == [slots[i] EXCEPT !.state = "closing"]
  <2>1. /\ i \in Opened /\ slots[i] \in Slot /\ UNCHANGED jobs
        /\ \/ slots' = [slots EXCEPT ![i] = asked]
           \/ slots' = [slots EXCEPT ![i] = forced]
           \/ slots' = [slots EXCEPT ![i] = seen]
    BY <1>0, <1>8 DEF RetryCancel, ForceAfterGrace, ObserveExit, SlotFine
  <2>2. \A to \in {asked, forced, seen} :
           to.run = slots[i].run /\ to.final = slots[i].final /\ to.runtime = slots[i].runtime
           /\ to.preparing = slots[i].preparing
    BY <2>1 DEF Slot
  <2> HIDE DEF asked, forced, seen
  <2> QED BY <1>e, <2>1, <2>2
<1>9. ASSUME NEW i \in Jobs, SendFinish(i) \/ Reap(i) PROVE SlotSame(j) \/ SendFinish(j) \/ Reap(j)
  <2>1. ASSUME i # j PROVE slots'[j] = slots[j] /\ jobs'[j] = jobs[j]
    BY <1>0, <1>9, <2>1 DEF SendFinish, Reap
  <2> QED BY <1>9, <2>1 DEF SlotSame
<1>10. CASE TickStep
  BY <1>7, <1>8, <1>9, <1>10 DEF TickStep
<1>11. ASSUME NEW q \in RunIds, NEW ok \in BOOLEAN, RecordRunning(q, ok) PROVE SlotSame(j)
  <2>1. CASE ok
    BY <1>11, <1>u, <2>1 DEF RecordRunning
  <2>2. CASE ~ok
    <3>1. Head(busy.jobs) \in Opened
      BY <1>0, <1>11, WaitingShape DEF RecordRunning, HostShape
    <3> DEFINE i == Head(busy.jobs)
               to == [slots[i] EXCEPT !.cancel = TRUE]
    <3>2. slots' = [slots EXCEPT ![i] = to] /\ UNCHANGED jobs
      BY <1>11, <2>2 DEF RecordRunning
    <3>3. to.run = slots[i].run /\ to.final = slots[i].final /\ to.runtime = slots[i].runtime
          /\ to.preparing = slots[i].preparing
      BY <1>0, <3>1 DEF SlotFine, Slot
    <3> HIDE DEF i, to
    <3> QED BY <1>e, <3>1, <3>2, <3>3 DEF i
  <2> QED BY <2>1, <2>2
<1>12. ASSUME NEW q \in RunIds, AdvanceStart(q) PROVE SlotSame(j)
  BY <1>a, <1>11, <1>12 DEF AdvanceStart, CommitStart, FailPreparation, ReportUnspawned,
     ReportSpawned, CreateProcess
<1>13. CASE TakeWork \/ SendEvent \/ WorkerDies \/ WorkerUnwinds \/ HostStarts
  BY <1>a, <1>13 DEF TakeWork, JoinStart, RefuseStart, ReserveStart, BeginFinish, HandleCancel,
     SendEvent, WorkerDies, WorkerUnwinds, HostStarts
<1>14. ASSUME NEW q \in RunIds, NEW ok \in BOOLEAN, TimeOut(q, ok) \/ CompleteFinish(q, ok)
       PROVE  SlotSame(j)
  BY <1>14, <1>a DEF TimeOut, CompleteFinish
<1>15. CASE (\E q \in RunIds : ProcessesEnd(q)) \/ UNCHANGED runHostVars
  BY <1>15, <1>a DEF ProcessesEnd, runHostVars
<1> QED
  BY <1>6, <1>10, <1>12, <1>13, <1>14, <1>15 DEF RunHostNext, WorkerLoop

\* What a slot makes of an event.
LEMMA ReceiveMoves ==
    ASSUME HostShape, Receive, NEW e, e = Head(events), NEW j \in KnownJobs
    PROVE  \/ SlotSame(j) /\ (e.kind = "start" => e.job # j)
           \/ /\ e.kind = "start" /\ e.job = j /\ jobs'[j] = "answered"
              /\ \/ e.runtime /\ slots'[j].run = e.run /\ slots'[j].runtime
                    /\ slots'[j].final = slots[j].final
                 \/ /\ ~e.runtime /\ slots'[j].runtime = slots[j].runtime
                    /\ \/ e.ok /\ slots'[j].run = slots[j].run
                       \/ slots'[j].run = slots[j].run /\ slots'[j].final = slots[j].final /\ ~slots[j].preparing
                       \/ /\ slots'[j].run = e.run /\ slots[j].preparing
                          /\ e.run # NoRun /\ ~e.confirmed => slots'[j].final = "pending"
           \/ /\ e.kind = "finish" /\ e.job = j /\ jobs'[j] = jobs[j]
              /\ slots'[j].run = slots[j].run /\ slots'[j].runtime = slots[j].runtime
              /\ slots'[j].final = Finalization(e.ok)
<1>0. /\ SlotsShape /\ Opened = KnownJobs /\ j \in Jobs /\ jobs[j] # "none"
      /\ \A i \in KnownJobs : SlotFine(slots[i]) /\ i \in Jobs
      /\ slots \in [Jobs -> Slot \union {NoSlot}] /\ jobs \in [Jobs -> JobState]
      /\ e \in GoodEvent /\ UNCHANGED launchDead
  BY OpenedFine, HeadEvent DEF HostShape, KnownJobs, SlotsShape, Receive
<1>1. CASE e.kind = "start" /\ ReceiveStart(e)
  <2>0. e.job \in KnownJobs /\ jobs' = [jobs EXCEPT ![e.job] = "answered"]
    BY <1>0, <1>1 DEF ReceiveStart, GoodEvent
  <2>1. \E to : /\ slots' = [slots EXCEPT ![e.job] = to]
                /\ \/ e.runtime /\ to.run = e.run /\ to.runtime /\ to.final = slots[e.job].final
                   \/ ~e.runtime /\ to = Answered(slots[e.job], e)
    <3>1. CASE e.runtime
      <4>1. PICK recorded \in BOOLEAN, refused \in BOOLEAN : Accept(e, recorded, refused)
        BY <1>1, <3>1 DEF ReceiveStart
      <4>2. SlotsShape /\ e \in GoodEvent /\ e.kind = "start" /\ e.runtime
        BY <1>0, <1>1, <3>1
      <4>3. PICK to : /\ slots' = [slots EXCEPT ![e.job] = to]
                      /\ to.run = e.run /\ to.runtime /\ to.final = slots[e.job].final
        BY <4>1, <4>2, AcceptEffect
      <4> QED BY <3>1, <4>3
    <3>2. CASE ~e.runtime
      BY <1>1, <3>2 DEF ReceiveStart
    <3> QED BY <3>1, <3>2
  <2> PICK to : /\ slots' = [slots EXCEPT ![e.job] = to]
                /\ \/ e.runtime /\ to.run = e.run /\ to.runtime /\ to.final = slots[e.job].final
                   \/ ~e.runtime /\ to = Answered(slots[e.job], e)
    BY <2>1
  <2>2. CASE e.job # j
    <3>1. slots'[j] = slots[j] /\ jobs'[j] = jobs[j]
      BY <1>0, <2>0, <2>2
    <3> QED BY <2>2, <3>1 DEF SlotSame
  <2>3. CASE e.job = j
    <3>1. jobs'[j] = "answered" /\ slots'[j] = to
      BY <1>0, <2>0, <2>3
    <3>2. ASSUME ~e.runtime, to = Answered(slots[j], e)
          PROVE  /\ to.runtime = slots[j].runtime
                 /\ \/ e.ok /\ to.run = slots[j].run
                    \/ to.run = slots[j].run /\ to.final = slots[j].final /\ ~slots[j].preparing
                    \/ /\ to.run = e.run /\ slots[j].preparing
                       /\ e.run # NoRun /\ ~e.confirmed => to.final = "pending"
      <4>0. slots[j] \in Slot
        BY <1>0 DEF SlotFine
      <4>1. CASE e.ok /\ e.existing
        BY <3>2, <4>0, <4>1 DEF Answered, Slot
      <4>2. CASE ~(e.ok /\ e.existing) /\ slots[j].preparing
        BY <3>2, <4>0, <4>2 DEF Answered, Slot
      <4>3. CASE ~(e.ok /\ e.existing) /\ ~slots[j].preparing
        BY <3>2, <4>0, <4>3 DEF Answered
      <4> QED BY <4>1, <4>2, <4>3
    <3>3. e.kind = "start"
      BY <1>1
    <3> QED BY <2>3, <3>1, <3>2, <3>3
  <2> QED BY <2>2, <2>3
<1>2. CASE e.kind \in {"cancel", "ask", "timeout"} /\ ReceiveCancel(e)
  <2>1. \/ slots'[j] = slots[j]
        \/ j \in Owners(e.run) /\ slots'[j] \in {CancelRecorded(slots[j]), CancelFailed(slots[j])}
    BY <1>0, <1>2 DEF ReceiveCancel
  <2>2. UNCHANGED jobs /\ e.run \in RunIds /\ SlotFine(slots[j])
    BY <1>0, <1>2 DEF ReceiveCancel, GoodEvent
  <2>3. j \in Owners(e.run) => slots[j].run \in RunIds
    BY <2>2 DEF Owners
  <2>4. SlotSame(j)
    BY <2>1, <2>2, <2>3, CancelRecordedFine, CancelFailedFine DEF SlotSame
  <2> QED BY <1>2, <2>4
<1>3. CASE e.kind = "finish" /\ ReceiveFinish(e)
  <2> DEFINE to == [slots[e.job] EXCEPT !.final = Finalization(e.ok)]
  <2>1. slots' = [slots EXCEPT ![e.job] = to] /\ UNCHANGED jobs
    BY <1>3 DEF ReceiveFinish
  <2>2. CASE e.job # j
    <3>1. slots'[j] = slots[j]
      BY <1>0, <2>1, <2>2
    <3> QED BY <1>3, <2>1, <3>1 DEF SlotSame
  <2>3. CASE e.job = j
    <3>1. to.run = slots[j].run /\ to.runtime = slots[j].runtime /\ to.final = Finalization(e.ok)
      BY <1>0, <2>3 DEF SlotFine, Slot
    <3>2. slots'[j] = to
      BY <1>0, <2>1, <2>3
    <3> HIDE DEF to
    <3> QED BY <1>3, <2>1, <2>3, <3>1, <3>2
  <2> QED BY <2>2, <2>3
<1> QED BY <1>1, <1>2, <1>3 DEF Receive

\* Who sends a new errand: a client's start, and the slot that owes an end.
LEMMA NewErrands ==
    ASSUME HostShape, [RunHostNext]_runHostVars, NEW x \in Asked', Errand(x), x \notin Asked
    PROVE  \/ x.kind = "start" /\ x.job \in Jobs /\ SubmitStart(x.job)
           \/ x.kind = "finish" /\ x.job \in Jobs /\ SendFinish(x.job) /\ x.run = slots[x.job].run
<1>0. /\ works \in Seq(GoodWork) /\ GoodWork \subseteq Work
      /\ works # <<>> => Range(Tail(works)) \subseteq Range(works)
  <2>1. works \in Seq(GoodWork) /\ GoodWork \subseteq Work
    BY DEF HostShape, GoodWork
  <2> QED BY <2>1, SequenceRange
<1>s. /\ works' # works
      /\ works' # <<>>
      /\ works # <<>> => works' # Tail(works)
  <2>1. works' # works
    BY DEF Asked
  <2>2. works' # <<>>
    BY ErrandsFew DEF Asked
  <2>3. works # <<>> => works' # Tail(works)
    BY <1>0 DEF Asked
  <2> QED BY <2>1, <2>2, <2>3
<1>a. ASSUME NEW w \in Work, works' = Append(works, w) PROVE x = w
  <2>1. works \in Seq(Work)
    BY <1>0, SeqMonotonic
  <2> QED BY <1>a, <2>1, WorkAdded
<1>g. ASSUME NEW more \in Seq({w \in GoodWork : ~Errand(w)}), works' = works \o more PROVE FALSE
  <2> DEFINE Others == {w \in GoodWork : ~Errand(w)}
  <2>1. more \in Seq(GoodWork) /\ more \in Seq(Others) /\ Range(more) \subseteq Others
    <3>1. Others \subseteq GoodWork /\ more \in Seq(Others)
      BY <1>g
    <3> HIDE DEF Others
    <3> QED BY <3>1, SeqMonotonic, SequenceRange
  <2>2. Asked' = Asked \union Range(more)
    BY <1>0, <1>g, <2>1, SequenceRange DEF Asked
  <2> QED BY <2>1, <2>2
<1>c. ASSUME NEW targets \in SUBSET Opened, NEW force \in BOOLEAN, CloseSlots(targets, force) PROVE FALSE
  <2>1. \E more \in Seq({w \in GoodWork : ~Errand(w)}) : works' = works \o more
    BY <1>c, ClosingGrows DEF Grows
  <2> QED BY <1>g, <2>1
<1>k. \A w \in RunIds \union {NoRun} : CancelWork(w) \in Work /\ ~Errand(CancelWork(w))
  BY DEF CancelWork, Work, Errand
<1>1. ASSUME NEW j \in Jobs, SubmitStart(j)
      PROVE  x.kind = "start" /\ x.job \in Jobs /\ SubmitStart(x.job)
  <2> DEFINE w == [kind |-> "start", job |-> j, run |-> NoRun]
  <2>1. w \in Work /\ w.kind = "start" /\ w.job = j /\ works' = Append(works, w)
    BY <1>1 DEF Work, SubmitStart, Send
  <2> HIDE DEF w
  <2>2. x = w
    BY <1>a, <2>1
  <2> QED BY <1>1, <2>1, <2>2
<1>2. ASSUME NEW j \in Jobs, SendFinish(j)
      PROVE  x.kind = "finish" /\ x.job \in Jobs /\ SendFinish(x.job) /\ x.run = slots[x.job].run
  <2> DEFINE w == [kind |-> "finish", job |-> j, run |-> slots[j].run]
  <2>1. slots[j].run \in RunIds \union {NoRun}
    <3>1. SlotFine(slots[j])
      BY <1>2, OpenedFine DEF SendFinish, HostShape
    <3> QED BY <3>1 DEF SlotFine, Slot
  <2>2. w \in Work /\ w.kind = "finish" /\ w.job = j /\ w.run = slots[j].run /\ works' = Append(works, w)
    BY <1>2, <2>1 DEF Work, SendFinish, Send
  <2> HIDE DEF w
  <2>3. x = w
    BY <1>a, <2>2
  <2> QED BY <1>2, <2>2, <2>3
<1>3. ASSUME NEW r \in RunIds, AskCancel(r) PROVE FALSE
  <2> DEFINE w == [kind |-> "ask", job |-> NoJob, run |-> r]
  <2>1. w \in Work /\ ~Errand(w) /\ works' = Append(works, w)
    BY <1>3 DEF Work, AskCancel, Send, Errand
  <2> HIDE DEF w
  <2> QED BY <1>a, <2>1
<1>4. ASSUME NEW j \in Jobs, CancelJob(j) PROVE FALSE
  <2>1. {j} \in SUBSET Opened
    <3>1. jobs[j] # "none"
      BY <1>4 DEF CancelJob
    <3> QED BY <3>1, OpenedFine DEF HostShape, KnownJobs
  <2> QED BY <1>4, <1>c, <1>s, <2>1 DEF CancelJob
<1>5. ASSUME NEW j \in Jobs, NEW force \in Forces, CloseSession(j, force) PROVE FALSE
  <2>1. {j} \in SUBSET Opened /\ force \in BOOLEAN
    BY <1>5, RunHostAssumption DEF CloseSession
  <2> QED BY <1>5, <1>c, <2>1 DEF CloseSession
<1>6. ASSUME NEW force \in Forces, CloseAll(force) PROVE FALSE
  <2>1. {k \in Opened : SlotLive(slots[k])} \in SUBSET Opened /\ force \in BOOLEAN
    BY <1>6, RunHostAssumption
  <2> QED BY <1>6, <1>c, <2>1 DEF CloseAll
<1>7. ASSUME NEW j \in Jobs, RetryCancel(j) PROVE FALSE
  <2>1. slots[j].run \in RunIds \union {NoRun}
    <3>1. SlotFine(slots[j])
      BY <1>7, OpenedFine DEF RetryCancel, HostShape
    <3> QED BY <3>1 DEF SlotFine, Slot
  <2> DEFINE w == CancelWork(slots[j].run)
  <2>2. w \in Work /\ ~Errand(w) /\ works' = Append(works, w)
    BY <1>7, <1>k, <2>1 DEF RetryCancel, Send
  <2> HIDE DEF w
  <2> QED BY <1>a, <2>2
<1>8. ASSUME Receive PROVE FALSE
  <2> DEFINE e == Head(events)
  <2>1. e \in GoodEvent
    BY <1>8, HeadEvent DEF Receive
  <2>2. e.run \in RunIds \union {NoRun}
    BY <2>1 DEF GoodEvent, Event
  <2>3. works' \in {works, Append(works, CancelWork(e.run))}
    <3>1. CASE UNCHANGED works
      BY <3>1
    <3>2. CASE ~UNCHANGED works
      <4>1. e.kind = "start" /\ e.runtime /\ \E recorded, refused \in BOOLEAN : Accept(e, recorded, refused)
        BY <1>8, <3>2 DEF Receive, ReceiveStart, ReceiveCancel, ReceiveFinish
      <4>2. PICK recorded \in BOOLEAN, refused \in BOOLEAN : Accept(e, recorded, refused)
        BY <4>1
      <4>3. SlotsShape
        BY DEF HostShape
      <4> HIDE DEF e
      <4> QED BY <2>1, <4>1, <4>2, <4>3, AcceptEffect
    <3> QED BY <3>1, <3>2
  <2> DEFINE w == CancelWork(e.run)
  <2>4. w \in Work /\ ~Errand(w) /\ works' = Append(works, w)
    BY <1>k, <1>s, <2>2, <2>3
  <2> HIDE DEF w
  <2> QED BY <1>a, <2>4
<1>9. ~TakeWork
  BY <1>s DEF TakeWork, JoinStart, RefuseStart, ReserveStart, BeginFinish, HandleCancel, Taking
<1>10. ~\E r \in RunIds : AdvanceStart(r)
  BY <1>s DEF AdvanceStart, CommitStart, FailPreparation, ReportUnspawned, RecordRunning, ReportSpawned,
     CreateProcess
<1>11. ~(\E r \in RunIds, ok \in BOOLEAN : TimeOut(r, ok) \/ CompleteFinish(r, ok))
  BY <1>s DEF TimeOut, CompleteFinish
<1>12. ~(SendEvent \/ WorkerDies \/ WorkerUnwinds \/ HostStarts \/ \E r \in RunIds : ProcessesEnd(r))
  BY <1>s DEF SendEvent, WorkerDies, WorkerUnwinds, HostStarts, ProcessesEnd
<1>13. ~(MarkRunsDead \/ LaunchDies \/ \E j \in Jobs : ForceAfterGrace(j) \/ ObserveExit(j) \/ Reap(j))
  BY <1>s DEF MarkRunsDead, LaunchDies, ForceAfterGrace, ObserveExit, Reap
<1>14. RunHostNext
  BY <1>s DEF runHostVars
<1>15. CASE ClientStep
  BY <1>1, <1>3, <1>4, <1>5, <1>6, <1>15 DEF ClientStep
<1>16. CASE TickStep
  BY <1>2, <1>7, <1>8, <1>13, <1>16 DEF TickStep
<1>17. CASE WorkerLoop
  BY <1>9, <1>10, <1>11, <1>12, <1>17 DEF WorkerLoop
<1> QED BY <1>12, <1>14, <1>15, <1>16, <1>17 DEF RunHostNext

\* What the worker tells of an errand: the answer to the one it takes, ...
TookStart(x) ==
    /\ Taking("start") /\ x.kind = "start" /\ x.job = Head(works).job
    /\ x.run = NoRun /\ ~x.runtime
TookFinish(x) ==
    /\ Taking("finish") /\ x.kind = "finish" /\ x.job = Head(works).job
    /\ x.run = Head(works).run /\ ~x.ok

\* ... that to a start, whose first request is told of the run and what it left,
\* ...
HeldStart(q, x) ==
    /\ InHand(q) \/ q \in Deferred
    /\ StartEntry(q) /\ x.kind = "start" /\ x.job \in Range(Waiting(q))
    /\ \/ x.run = NoRun /\ ~x.runtime
       \/ /\ x.run = q /\ x.job = Head(Waiting(q))
          /\ x.runtime => ~x.confirmed
          /\ ~x.runtime => ~x.ok /\ child'[q] = NoTask
          /\ x.confirmed => active'[q] = "released"

\* ... and that to an end.
HeldFinish(q, x) ==
    /\ InHand(q) \/ q \in Deferred
    /\ EndEntry(q) /\ x.kind = "finish" /\ x.job = Head(Waiting(q)) /\ x.run = q
    /\ x.ok => active'[q] = "released"

NewAnswer(x) ==
    \/ TookStart(x) \/ TookFinish(x)
    \/ \E q \in RunIds : HeldStart(q, x) \/ HeldFinish(q, x)

\* The answers to what the worker takes.
LEMMA TakeTold ==
    ASSUME HostShape, TakeWork, NEW x \in Told', Errand(x), x \notin Told PROVE NewAnswer(x)
<1>r. ASSUME NEW reply, outbox' = <<reply>>, UNCHANGED events PROVE x = reply
  <2>1. Told' = Range(<<reply>>) \union Range(events)
    BY <1>r DEF Told
  <2> QED BY <2>1, ErrandsFew DEF Told
<1>s. ~UNCHANGED <<outbox, events>>
  BY DEF Told
<1>1. CASE JoinStart
  <2>1. Taking("start") /\ UNCHANGED events
    BY <1>1 DEF JoinStart
  <2>2. Replying(Reply("start", Head(works).job, NoRun, FALSE))
    BY <1>1, <1>s DEF JoinStart
  <2>3. x = Reply("start", Head(works).job, NoRun, FALSE)
    BY <1>r, <2>1, <2>2 DEF Replying
  <2> QED BY <2>1, <2>3 DEF NewAnswer, TookStart, Reply
<1>2. CASE RefuseStart
  <2>1. Taking("start") /\ UNCHANGED events
    BY <1>2 DEF RefuseStart
  <2>2. \/ Replying(Reply("start", Head(works).job, NoRun, FALSE))
        \/ \E ok \in BOOLEAN : Replying([Reply("start", Head(works).job, NoRun, ok) EXCEPT !.existing = ok])
    BY <1>2 DEF RefuseStart
  <2>3. \/ x = Reply("start", Head(works).job, NoRun, FALSE)
        \/ \E ok \in BOOLEAN : x = [Reply("start", Head(works).job, NoRun, ok) EXCEPT !.existing = ok]
    BY <1>r, <2>1, <2>2 DEF Replying
  <2>4. x.kind = "start" /\ x.job = Head(works).job /\ x.run = NoRun /\ ~x.runtime
    <3> DEFINE j == Head(works).job
    <3>1. \A ok \in BOOLEAN : LET e == [Reply("start", j, NoRun, ok) EXCEPT !.existing = ok] IN
             e.kind = "start" /\ e.job = j /\ e.run = NoRun /\ ~e.runtime
      BY DEF Reply
    <3>2. LET e == Reply("start", j, NoRun, FALSE) IN
             e.kind = "start" /\ e.job = j /\ e.run = NoRun /\ ~e.runtime
      BY DEF Reply
    <3> HIDE DEF j
    <3> QED BY <2>3, <3>1, <3>2 DEF j
  <2>5. TookStart(x)
    BY <2>1, <2>4 DEF TookStart
  <2> QED BY <2>5 DEF NewAnswer
<1>3. CASE ReserveStart
  BY <1>3, <1>s DEF ReserveStart
<1>4. CASE BeginFinish
  <2>1. Taking("finish") /\ UNCHANGED events
    BY <1>4 DEF BeginFinish
  <2>2. Replying(Reply("finish", Head(works).job, Head(works).run, FALSE))
    BY <1>4, <1>s DEF BeginFinish
  <2>3. x = Reply("finish", Head(works).job, Head(works).run, FALSE)
    BY <1>r, <2>1, <2>2 DEF Replying
  <2> QED BY <2>1, <2>3 DEF NewAnswer, TookFinish, Reply
<1>5. ASSUME NEW ok \in BOOLEAN, HandleCancel(ok) PROVE FALSE
  <2>1. Replying(Reply(Head(works).kind, NoJob, Head(works).run, ok)) /\ UNCHANGED events
        /\ Head(works).kind \in {"cancel", "ask"}
    BY <1>5 DEF HandleCancel, Taking
  <2>2. x = Reply(Head(works).kind, NoJob, Head(works).run, ok)
    BY <1>r, <2>1 DEF Replying
  <2> QED BY <2>1, <2>2 DEF Reply, Errand
<1> QED BY <1>1, <1>2, <1>3, <1>4, <1>5 DEF TakeWork

\* The requests of an entry, when it ends.
LEMMA EndTold ==
    ASSUME NEW list \in Seq(KnownJobs), list # <<>>, NEW reply \in GoodEvent, reply.ok \in BOOLEAN,
           StartEnds(reply, Tail(list)), UNCHANGED events, NEW x \in Told', x \notin Told
    PROVE  x = reply \/ (SharedReply(x) /\ x.job \in Range(list))
<1>1. Tail(list) \in Seq(KnownJobs) /\ Range(Tail(list)) \subseteq Range(list)
  BY SequenceRange, HeadTailProperties
<1> DEFINE t == Tail(list)
           s == Shared(t, reply.ok)
<1> HIDE DEF t
<1>2. /\ s \in Seq(GoodEvent) /\ Len(s) = Len(t)
      /\ \A i \in 1..Len(t) : SharedReply(s[i]) /\ s[i].job = t[i]
  <2>1. t \in Seq(KnownJobs)
    BY <1>1 DEF t
  <2>2. /\ s \in Seq(GoodEvent) /\ Len(s) = Len(t)
        /\ \A i \in 1..Len(t) :
              /\ s[i].kind = "start" /\ s[i].job = t[i] /\ s[i].run = NoRun
              /\ ~s[i].runtime /\ ~s[i].requested /\ s[i].existing = s[i].ok
    BY <2>1, SharedGood
  <2> HIDE DEF s
  <2> QED BY <2>2 DEF SharedReply
<1>3. outbox' = <<reply>> \o s
  BY DEF StartEnds, t
<1> HIDE DEF s
<1>4. \A e \in Range(s) : SharedReply(e) /\ e.job \in Range(t)
  <2> SUFFICES ASSUME NEW i \in DOMAIN s PROVE SharedReply(s[i]) /\ s[i].job \in Range(t)
    BY DEF Range
  <2>1. i \in 1..Len(t) /\ i \in DOMAIN t
    BY <1>1, <1>2 DEF t
  <2> QED BY <1>2, <2>1 DEF Range
<1>5. <<reply>> \in Seq(GoodEvent)
  OBVIOUS
<1>6. Range(outbox') = Range(<<reply>>) \union Range(s)
  <2> DEFINE one == <<reply>>
  <2>1. one \in Seq(GoodEvent) /\ outbox' = one \o s
    BY <1>3, <1>5
  <2> HIDE DEF one
  <2>2. Range(one \o s) = Range(one) \union Range(s)
    BY <1>2, <2>1, SequenceRange
  <2> QED BY <2>1, <2>2 DEF one
<1>7. x \in Range(outbox')
  BY DEF Told
<1> QED BY <1>1, <1>4, <1>6, <1>7, ErrandsFew DEF t

\* The answers to a start under way, and to an end.
LEMMA AdvanceTold ==
    ASSUME HostBase, Entries, NEW q \in RunIds, NEW ok \in BOOLEAN,
           \/ CommitStart(q, ok) \/ FailPreparation(q, ok) \/ ReportUnspawned(q, ok)
           \/ RecordRunning(q, ok) \/ ReportSpawned(q, ok) \/ CreateProcess(q)
           \/ TimeOut(q, ok) \/ CompleteFinish(q, ok),
           NEW x \in Told', Errand(x), x \notin Told
    PROVE  HeldStart(q, x) \/ HeldFinish(q, x)
<1> DEFINE list == Waiting(q)
           j == Head(list)
<1>0. HostShape /\ WorkerShape /\ EntryFine(q) /\ NoRun \notin RunIds
  BY EntriesOfRun, RunHostSentinels DEF HostBase, HostShape
<1>s. ~UNCHANGED <<outbox, events>>
  BY DEF Told
<1>1. InHand(q) => registry = "open" /\ busy.jobs = list
  BY <1>0 DEF InHand, Entries, Waiting
<1>2. InHand(q) \/ q \in Deferred => j \in KnownJobs /\ list \in Seq(KnownJobs) /\ list # <<>> /\ j \in Range(list)
  BY <1>0, WaitingShape, SequenceRange
<1>3. j \in KnownJobs =>
        \A b, c \in BOOLEAN : /\ Reply("start", j, NoRun, b) \in GoodEvent
                              /\ Reply("finish", j, q, b) \in GoodEvent
                              /\ [Reply("start", j, q, FALSE) EXCEPT !.confirmed = b] \in GoodEvent
                              /\ Spawned(j, q, b, c) \in GoodEvent
  <2>1. KnownJobs \subseteq Jobs
    BY DEF KnownJobs
  <2> QED BY <2>1, RepliesGood
<1>e. ASSUME NEW reply \in GoodEvent, reply.ok \in BOOLEAN, StartEnds(reply, Tail(list)),
             UNCHANGED events, InHand(q) \/ q \in Deferred
      PROVE  x = reply \/ (SharedReply(x) /\ x.job \in Range(list))
  BY <1>2, <1>e, EndTold
<1> HIDE DEF list, j
<1>t. registry = "open" => /\ active[q] # "none" => pending[q] = NoTicket
                           /\ \A step \in {"begun", "spawned", "failed"} : At(q, step) =>
                                 active[q] = "owned" /\ pending[q] = NoTicket
  BY EntryTickets DEF HostBase
<1>w. (InHand(q) \/ q \in Deferred) /\ StartEntry(q) /\ SharedReply(x) /\ x.job \in Range(list) => HeldStart(q, x)
  BY DEF HeldStart, SharedReply, list
<1>4. CASE CommitStart(q, ok)
  <2>1. pending[q] # NoTicket /\ Completing(q) /\ UNCHANGED events
    BY <1>4 DEF CommitStart
  <2>2. (InHand(q) \/ q \in Deferred) /\ StartEntry(q)
    BY <2>1 DEF Completing, StartEntry
  <2>3. StartEnds(Reply("start", j, NoRun, FALSE), Tail(list))
    BY <1>4, <1>s DEF CommitStart, j, list
  <2>4. Reply("start", j, NoRun, FALSE) \in GoodEvent /\ Reply("start", j, NoRun, FALSE).ok \in BOOLEAN
    BY <1>2, <1>3, <2>2 DEF Reply
  <2>5. x = Reply("start", j, NoRun, FALSE) \/ (SharedReply(x) /\ x.job \in Range(list))
    BY <1>e, <2>1, <2>2, <2>3, <2>4
  <2>6. x = Reply("start", j, NoRun, FALSE) => HeldStart(q, x)
    BY <1>2, <2>2 DEF HeldStart, Reply, list
  <2> QED BY <1>w, <2>2, <2>5, <2>6
<1>5. CASE FailPreparation(q, ok) \/ CreateProcess(q)
  BY <1>5, <1>s DEF FailPreparation, CreateProcess, workerVars
<1>6. CASE ReportUnspawned(q, ok)
  <2> DEFINE e == [Reply("start", j, q, FALSE) EXCEPT !.confirmed = ok]
  <2>1. /\ InHand(q) /\ UNCHANGED events /\ FinishUnspawned(q, ok) /\ At(q, "failed")
        /\ StartEnds(e, Tail(list))
    BY <1>1, <1>6 DEF ReportUnspawned, FinishUnspawned, j
  <2>2. StartEntry(q) /\ child'[q] = NoTask /\ (ok => active'[q] = "released")
    <3>1. child[q] = NoTask /\ UNCHANGED child
      BY <2>1 DEF FinishUnspawned, HostBase, SafetyInv, RegistryInv, RecordsInv, StartSound
    <3>2. active \in [RunIds -> ActiveState]
      BY DEF HostBase, SafetyInv, RegistryInv, RecordsInv, RecordsTypeOK
    <3>3. ok => active'[q] = "released"
      BY <2>1, <3>2 DEF FinishUnspawned, Finalize
    <3> QED BY <1>1, <1>t, <2>1, <3>1, <3>3 DEF StartEntry
  <2>3. e \in GoodEvent /\ e.ok \in BOOLEAN /\ e.kind = "start" /\ e.job = j /\ e.run = q /\ ~e.ok
        /\ ~e.runtime /\ e.confirmed = ok
    BY <1>2, <1>3, <2>1 DEF Reply
  <2> HIDE DEF e
  <2>4. x = e \/ (SharedReply(x) /\ x.job \in Range(list))
    BY <1>e, <2>1, <2>3
  <2>5. x = e => HeldStart(q, x)
    BY <1>2, <2>1, <2>2, <2>3 DEF HeldStart, list, j
  <2> QED BY <1>w, <2>1, <2>2, <2>4, <2>5
<1>a. \A b, c \in BOOLEAN : LET e == Spawned(j, q, b, c) IN
         /\ e.kind = "start" /\ e.job = j /\ e.run = q /\ e.ok = b /\ e.runtime /\ ~e.confirmed
  BY DEF Spawned, Reply
<1>h. ASSUME NEW b \in BOOLEAN, NEW c \in BOOLEAN, StartEnds(Spawned(j, q, b, c), Tail(list)),
             UNCHANGED events, InHand(q), StartEntry(q)
      PROVE  HeldStart(q, x)
  <2> DEFINE e == Spawned(j, q, b, c)
  <2>1. /\ e \in GoodEvent /\ e.ok \in BOOLEAN
        /\ e.kind = "start" /\ e.job = j /\ e.run = q /\ e.ok = b /\ e.runtime /\ ~e.confirmed
        /\ StartEnds(e, Tail(list))
    BY <1>2, <1>3, <1>a, <1>h
  <2> HIDE DEF e
  <2>2. x = e \/ (SharedReply(x) /\ x.job \in Range(list))
    BY <1>e, <1>h, <2>1
  <2>3. x = e => HeldStart(q, x)
    BY <1>2, <1>h, <2>1 DEF HeldStart, list, j
  <2> QED BY <1>h, <1>w, <2>2, <2>3
<1>7. CASE RecordRunning(q, ok)
  <2>1. InHand(q) /\ UNCHANGED events /\ At(q, "spawned")
    BY <1>7 DEF RecordRunning, MarkRunning
  <2>2. StartEntry(q)
    BY <1>1, <1>t, <2>1 DEF StartEntry
  <2>3. StartEnds(Spawned(j, q, FALSE, FALSE), Tail(list))
    BY <1>1, <1>7, <1>s, <2>1 DEF RecordRunning, j
  <2> QED BY <1>h, <2>1, <2>2, <2>3
<1>8. CASE ReportSpawned(q, ok)
  <2>1. InHand(q) /\ UNCHANGED events /\ StartEntry(q)
    BY <1>8 DEF ReportSpawned, StartEntry
  <2>2. StartEnds(Spawned(j, q, ok, ok), Tail(list)) \/ StartEnds(Spawned(j, q, TRUE, FALSE), Tail(list))
    BY <1>1, <1>8, <2>1 DEF ReportSpawned, j
  <2> QED BY <1>h, <2>1, <2>2
<1>9. CASE TimeOut(q, ok)
  <2> DEFINE e == Reply("timeout", NoJob, q, ok)
  <2>1. outbox' = <<e>> /\ UNCHANGED events
    BY <1>9 DEF TimeOut, Replying
  <2>2. Told' = Range(<<e>>) \union Range(events)
    BY <2>1 DEF Told
  <2>3. x = e
    BY <2>2, ErrandsFew DEF Told
  <2> QED BY <2>3 DEF Reply, Errand
<1>10. CASE CompleteFinish(q, ok)
  <2> DEFINE e == Reply("finish", j, q, ok)
  <2>1. /\ pending[q] = NoTicket /\ Completing(q) /\ UNCHANGED events
        /\ outbox' = <<e>> \o Shared(<<>>, e.ok) /\ FinishObserved(q, ok)
    BY <1>10 DEF CompleteFinish, StartEnds, j, list
  <2>2. (InHand(q) \/ q \in Deferred) /\ EndEntry(q)
    BY <2>1 DEF Completing, EndEntry, FinishObserved
  <2>3. e \in GoodEvent /\ e.ok = ok /\ e.kind = "finish" /\ e.job = j /\ e.run = q
    BY <1>2, <1>3, <2>2 DEF Reply
  <2>4. ok => active'[q] = "released"
    <3>2. active \in [RunIds -> ActiveState]
      BY DEF HostBase, SafetyInv, RegistryInv, RecordsInv, RecordsTypeOK
    <3> QED BY <2>1, <3>2 DEF FinishObserved, Finalize
  <2> HIDE DEF e
  <2>5. x = e
    <3>1. <<>> \in Seq(KnownJobs) /\ e.ok \in BOOLEAN
      BY <2>3
    <3>2. Shared(<<>>, e.ok) \in Seq(GoodEvent) /\ Len(Shared(<<>>, e.ok)) = 0
      BY <3>1, SharedGood
    <3>3. Shared(<<>>, e.ok) = <<>>
      BY <3>2, EmptySeq
    <3>4. outbox' = <<e>>
      <4> DEFINE one == <<e>>
      <4>1. one \in Seq(GoodEvent)
        BY <2>3
      <4>2. outbox' = one \o Shared(<<>>, e.ok)
        BY <2>1
      <4> HIDE DEF one
      <4>3. one \o <<>> = one
        BY <4>1, ConcatEmptySeq
      <4> QED BY <3>3, <4>2, <4>3 DEF one
    <3>5. Told' = Range(<<e>>) \union Range(events)
      BY <2>1, <3>4 DEF Told
    <3> QED BY <3>5, ErrandsFew DEF Told
  <2> QED BY <2>2, <2>3, <2>4, <2>5 DEF HeldFinish, list, j
<1> QED BY <1>4, <1>5, <1>6, <1>7, <1>8, <1>9, <1>10

\* Whatever is told of an errand is one of these answers.
LEMMA NewTold ==
    ASSUME HostBase, Entries, [RunHostNext]_runHostVars, NEW x \in Told', Errand(x), x \notin Told
    PROVE  NewAnswer(x)
<1>0. HostShape
  BY DEF HostBase
<1>1. CASE TakeWork
  BY <1>0, <1>1, TakeTold
<1>2. ASSUME NEW q \in RunIds, AdvanceStart(q) PROVE NewAnswer(x)
  <2>1. \E ok \in BOOLEAN :
           \/ CommitStart(q, ok) \/ FailPreparation(q, ok) \/ ReportUnspawned(q, ok)
           \/ RecordRunning(q, ok) \/ ReportSpawned(q, ok) \/ CreateProcess(q)
    BY <1>2 DEF AdvanceStart
  <2>2. HeldStart(q, x) \/ HeldFinish(q, x)
    BY <2>1, AdvanceTold
  <2> QED BY <2>2 DEF NewAnswer
<1>3. ASSUME NEW q \in RunIds, NEW ok \in BOOLEAN, TimeOut(q, ok) \/ CompleteFinish(q, ok)
      PROVE  NewAnswer(x)
  <2>1. HeldStart(q, x) \/ HeldFinish(q, x)
    BY <1>3, AdvanceTold
  <2> QED BY <2>1 DEF NewAnswer
<1>4. ~UNCHANGED <<outbox, events>>
  BY DEF Told
<1>5. ~Receive
  BY <1>0, HeadTold
<1>6. ~SendEvent
  <2> SUFFICES ASSUME SendEvent PROVE FALSE
    OBVIOUS
  <2>1. outbox \in Seq(GoodEvent) /\ events \in Seq(GoodEvent) /\ outbox # <<>>
    BY <1>0 DEF HostShape, WorkerShape, SendEvent
  <2>2. Head(outbox) \in GoodEvent /\ Head(outbox) \in Range(outbox) /\ Range(Tail(outbox)) \subseteq Range(outbox)
    BY <2>1, SequenceRange, HeadTailProperties
  <2>3. Range(events') = Range(events) \union {Head(outbox)} /\ Range(outbox') \subseteq Range(outbox)
    BY <2>1, <2>2, RangeAppend DEF SendEvent
  <2> QED BY <2>2, <2>3 DEF Told
<1>7. ~WorkerDies
  BY ErrandsFew DEF WorkerDies, Told
<1>8. ~(WorkerUnwinds \/ HostStarts \/ (\E q \in RunIds : ProcessesEnd(q)) \/ ClientStep \/ UNCHANGED runHostVars)
  BY <1>4 DEF ClientStep, SubmitStart, CancelJob, AskCancel, CloseAll, CloseSession, WorkerUnwinds,
     HostStarts, ProcessesEnd, runHostVars, workerVars
<1>9. ~(MarkRunsDead \/ LaunchDies \/ \E j \in Jobs : RetryCancel(j) \/ ForceAfterGrace(j) \/ ObserveExit(j)
                                                      \/ Reap(j) \/ SendFinish(j))
  BY <1>4 DEF MarkRunsDead, LaunchDies, RetryCancel, ForceAfterGrace, ObserveExit, Reap, SendFinish, workerVars
<1> QED BY <1>1, <1>2, <1>3, <1>5, <1>6, <1>7, <1>8, <1>9 DEF RunHostNext, WorkerLoop, TickStep

\* Where an entry comes from: it was there, with the same requests; or one more
\* joined it; or it is made of the start or the end that the worker takes.
HasEntry(r) == InHand(r) \/ r \in Deferred

KeepsEntry(r) ==
    /\ HasEntry(r) /\ Waiting(r)' = Waiting(r)
    /\ StartEntry(r)' => StartEntry(r)
    /\ EndEntry(r)' => EndEntry(r)
JoinsEntry(r) ==
    /\ r \in Deferred /\ StartEntry(r) /\ Taking("start") /\ ~EndEntry(r)'
    /\ Waiting(r)' = Append(Waiting(r), Head(works).job)
MakesStart(r) ==
    /\ Taking("start") /\ ~EndEntry(r)' /\ Waiting(r)' = <<Head(works).job>>
MakesEnd(r) ==
    /\ Taking("finish") /\ r = Head(works).run /\ ~StartEntry(r)'
    /\ Waiting(r)' = <<Head(works).job>>

NewEntry(r) == KeepsEntry(r) \/ JoinsEntry(r) \/ MakesStart(r) \/ MakesEnd(r)

\* An entry that the step does not touch is kept.
LEMMA EntryStays ==
    ASSUME NEW r \in RunIds, EntryFine(r), EntryKept(r), deferred'[r] = deferred[r],
           UNCHANGED busy \/ (~InHand(r) /\ ~InHand(r)'), HasEntry(r)'
    PROVE  KeepsEntry(r)
<1>1. InHand(r)' = InHand(r) /\ (r \in Deferred)' = (r \in Deferred)
  BY DEF InHand, Deferred
<1>2. Waiting(r)' = Waiting(r)
  BY <1>1 DEF Waiting, InHand
<1>3. HasEntry(r)
  BY <1>1 DEF HasEntry
<1>4. pending[r] # NoTicket \/ InUseNow(r)
  BY <1>3 DEF EntryFine, HasEntry, StartEntry, EndEntry, InUseNow
<1> QED BY <1>2, <1>3, <1>4 DEF KeepsEntry, EntryKept, InUseNow, StartEntry, EndEntry

\* The entries after the worker has taken an item.
LEMMA TakeMakes ==
    ASSUME HostBase, NamesInv, Entries, Counted, Once, OwnRuns, Whole => SlotsAwait, TakeWork,
           NEW r \in RunIds, HasEntry(r)'
    PROVE  NewEntry(r)
<1>0. /\ HostShape /\ EntryFine(r) /\ RegistryInv /\ EntriesInv
      /\ deferred \in [RunIds -> Seq(KnownJobs)]
      /\ active \in [RunIds -> ActiveState] /\ pending \in [RunIds -> Ticket \union {NoTicket}]
  BY EntriesOfRun DEF HostBase, SafetyInv, HostShape, WorkerShape, RegistryInv, RecordsInv, RecordsTypeOK
<1>f. ASSUME UNCHANGED <<busy, deferred, pending, active>> PROVE NewEntry(r)
  BY <1>0, <1>f, EntryStays DEF EntryKept, NewEntry
<1>u. ASSUME UNCHANGED vars PROVE UNCHANGED <<pending, active>>
  BY <1>u DEF vars, registryVars
<1>c. ASSUME NEW gone \in SUBSET RunIds, HistoryCut(gone)
      PROVE  \A q \in RunIds : InUseNow(q) => active'[q] = active[q]
  BY <1>0, <1>c, CutEffect DEF InUseNow
<1>1. CASE JoinStart
  <2> DEFINE j == Head(works).job
  <2>1. Taking("start") /\ WorkerFree /\ UNCHANGED <<pending, active>>
    BY <1>1 DEF JoinStart, Taking, vars, registryVars
  <2>2. PICK q \in Deferred :
           /\ pending[q] # NoTicket
           /\ \/ deferred' = [deferred EXCEPT ![q] = Append(@, j)] /\ UNCHANGED <<outbox, busy>>
              \/ Replying(Reply("start", j, NoRun, FALSE))
    BY <1>1 DEF JoinStart, Joins
  <2>3. CASE Replying(Reply("start", j, NoRun, FALSE))
    BY <1>f, <2>1, <2>3 DEF Replying
  <2>4. CASE deferred' = [deferred EXCEPT ![q] = Append(@, j)] /\ UNCHANGED <<outbox, busy>>
    <3>1. CASE q = r
      <4>1. deferred'[r] = Append(deferred[r], j) /\ r \in Deferred /\ pending[r] # NoTicket /\ ~InHand(r)
        BY <1>0, <2>1, <2>2, <2>4, <3>1 DEF Deferred, WorkerFree, InHand
      <4>2. ~InHand(r)' /\ pending'[r] # NoTicket
        BY <2>1, <2>4, <4>1 DEF InHand
      <4>3. Waiting(r)' = deferred'[r] /\ Waiting(r) = deferred[r]
        BY <4>1, <4>2 DEF Waiting
      <4>4. JoinsEntry(r)
        BY <2>1, <4>1, <4>2, <4>3 DEF JoinsEntry, StartEntry, EndEntry
      <4> QED BY <4>4 DEF NewEntry
    <3>2. CASE q # r
      <4>1. deferred'[r] = deferred[r]
        BY <1>0, <2>2, <2>4, <3>2
      <4> QED BY <1>0, <2>1, <2>4, <4>1, EntryStays DEF EntryKept, NewEntry
    <3> QED BY <3>1, <3>2
  <2> QED BY <2>2, <2>3, <2>4
<1>2. CASE RefuseStart
  <2>1. UNCHANGED <<busy, deferred>>
    BY <1>2 DEF RefuseStart, Replying
  <2>2. \/ UNCHANGED <<pending, active>>
        \/ UNCHANGED pending /\ \E gone \in SUBSET RunIds : HistoryCut(gone)
    BY <1>2, <1>u DEF RefuseStart, BeginRefused, HistoryCutFails
  <2>3. EntryKept(r)
    BY <1>c, <2>2 DEF EntryKept
  <2> QED BY <1>0, <2>1, <2>3, EntryStays DEF NewEntry
<1>3. CASE ReserveStart
  <2> DEFINE j == Head(works).job
             q == JobRun[j]
             one == <<j>>
  <2>1. /\ Taking("start") /\ WorkerFree /\ Head(works) \in Asked /\ Head(works).kind = "start" /\ j \in Jobs
    <3>1. Taking("start") /\ WorkerFree /\ works # <<>> /\ Head(works).kind = "start" /\ Head(works) \in GoodWork
      BY <1>0, <1>3, WorkTaken DEF ReserveStart, Taking
    <3>2. Head(works) \in Asked
      BY <1>0, <1>3, WorkGone DEF ReserveStart
    <3> QED BY <3>1, <3>2 DEF GoodWork, KnownJobs
  <2>2. q \in RunIds /\ Fresh(q)
    BY <2>1, RunHostAssumption DEF NamesInv
  <2>3. deferred[q] = <<>> /\ busy = NoRun
    BY <2>1, <2>2 DEF Fresh, Entries, Deferred, EndEntry, WorkerFree, InHand
  <2>4. PICK gone \in SUBSET RunIds :
           BeginReserve(q, JobOperation[j], JobTask[j], j \in ParallelJobs, gone)
    BY <1>3 DEF ReserveStart
  <2>5. /\ pending' = [pending EXCEPT ![q] = [operation |-> JobOperation[j], task |-> JobTask[j]]]
        /\ \A k \in RunIds : InUseNow(k) => active'[k] = active[k]
    BY <1>c, <2>4 DEF BeginReserve
  <2>6. \/ deferred' = [deferred EXCEPT ![q] = one] /\ UNCHANGED busy
        \/ busy' = [run |-> q, jobs |-> one] /\ UNCHANGED deferred
    BY <1>3 DEF ReserveStart
  <2>7. pending'[q] # NoTicket
    <3>1. pending'[q] = [operation |-> JobOperation[j], task |-> JobTask[j]]
      BY <1>0, <2>2, <2>5
    <3>2. [operation |-> JobOperation[j], task |-> JobTask[j]] \in Ticket
      BY <2>1, RunHostAssumption DEF Ticket
    <3> QED BY <3>1, <3>2, SentinelAssumption
  <2>8. [run |-> q, jobs |-> one] # NoRun
    <3>1. [run |-> q, jobs |-> one] \in Busy
      BY <2>1, <2>2 DEF Busy
    <3> QED BY <3>1, RunHostSentinels
  <2> HIDE DEF one
  <2>9. CASE q = r
    <3>1. Waiting(r)' = one
      BY <1>0, <2>3, <2>6, <2>8, <2>9 DEF Waiting, InHand
    <3>2. MakesStart(r)
      BY <2>1, <2>7, <2>9, <3>1 DEF MakesStart, EndEntry, one
    <3> QED BY <3>2 DEF NewEntry
  <2>10. CASE q # r
    <3>1. EntryKept(r) /\ deferred'[r] = deferred[r] /\ ~InHand(r)
      BY <1>0, <2>3, <2>5, <2>6, <2>10 DEF EntryKept, InHand
    <3>2. UNCHANGED busy \/ ~InHand(r)'
      BY <2>6, <2>10 DEF InHand
    <3> QED BY <1>0, <3>1, <3>2, EntryStays DEF NewEntry
  <2> HIDE DEF q
  <2> QED BY <2>9, <2>10
<1>4. CASE BeginFinish
  <2> DEFINE w == Head(works)
             j == w.job
             q == w.run
             one == <<j>>
  <2>1. Taking("finish") /\ WorkerFree /\ w \in GoodWork /\ w.kind = "finish"
    BY <1>0, <1>4, WorkTaken DEF BeginFinish, Taking
  <2>2. q \in RunIds /\ j \in KnownJobs /\ KnownJobs \subseteq Jobs
    BY <2>1 DEF GoodWork, KnownJobs
  <2>3. deferred[q] = <<>> /\ pending[q] = NoTicket /\ ~InHand(r) /\ busy = NoRun
    BY <1>0, <2>1, <2>2, TakenFinish DEF WorkerFree, InHand
  <2>4. CASE UNCHANGED vars /\ Replying(Reply("finish", j, q, FALSE))
    BY <1>f, <1>u, <2>4 DEF Replying
  <2>5. CASE /\ FinishProbe(q)
             /\ \/ deferred' = [deferred EXCEPT ![q] = one] /\ UNCHANGED busy
                \/ busy' = [run |-> q, jobs |-> one] /\ UNCHANGED deferred
    <3>1. active' = [active EXCEPT ![q] = "finishing"] /\ UNCHANGED pending
      BY <2>5 DEF FinishProbe
    <3>2. [run |-> q, jobs |-> one] # NoRun
      <4>1. [run |-> q, jobs |-> one] \in Busy
        BY <2>2 DEF Busy
      <4> QED BY <4>1, RunHostSentinels
    <3> HIDE DEF one
    <3>3. CASE q = r
      <4>1. Waiting(r)' = one
        BY <1>0, <2>2, <2>3, <2>5, <3>2, <3>3 DEF Waiting, InHand
      <4>2. ~StartEntry(r)'
        BY <1>0, <2>2, <2>3, <3>1, <3>3 DEF StartEntry
      <4>3. MakesEnd(r)
        BY <2>1, <3>3, <4>1, <4>2 DEF MakesEnd, one
      <4> QED BY <4>3 DEF NewEntry
    <3>4. CASE q # r
      <4>1. EntryKept(r) /\ deferred'[r] = deferred[r]
        BY <1>0, <2>2, <2>5, <3>1, <3>4 DEF EntryKept
      <4>2. UNCHANGED busy \/ ~InHand(r)'
        BY <2>5, <3>4 DEF InHand
      <4> QED BY <1>0, <2>3, <4>1, <4>2, EntryStays DEF NewEntry
    <3> QED BY <3>3, <3>4
  <2>6. \/ UNCHANGED vars /\ Replying(Reply("finish", j, q, FALSE))
        \/ /\ FinishProbe(q)
           /\ \/ deferred' = [deferred EXCEPT ![q] = one] /\ UNCHANGED busy
              \/ busy' = [run |-> q, jobs |-> one] /\ UNCHANGED deferred
    BY <1>4 DEF BeginFinish
  <2> HIDE DEF q, j, w, one
  <2> QED BY <2>4, <2>5, <2>6
<1>5. ASSUME NEW ok \in BOOLEAN, HandleCancel(ok) PROVE NewEntry(r)
  <2>1. UNCHANGED <<busy, deferred>>
    BY <1>5 DEF HandleCancel, Replying
  <2>2. UNCHANGED <<pending, active>>
    BY <1>5, <1>u DEF HandleCancel, Cancel
  <2> QED BY <1>f, <2>1, <2>2
<1> QED BY <1>1, <1>2, <1>3, <1>4, <1>5 DEF TakeWork

\* The entries after a stretch of a start, or of an end.
LEMMA AdvanceKeeps ==
    ASSUME HostBase, Entries, NEW q \in RunIds, NEW ok \in BOOLEAN, NEW r \in RunIds,
           \/ CommitStart(q, ok) \/ FailPreparation(q, ok) \/ ReportUnspawned(q, ok)
           \/ RecordRunning(q, ok) \/ ReportSpawned(q, ok) \/ CreateProcess(q)
           \/ TimeOut(q, ok) \/ CompleteFinish(q, ok),
           HasEntry(r)'
    PROVE  KeepsEntry(r)
<1>0. /\ HostShape /\ EntryFine(r) /\ EntryFine(q)
      /\ deferred \in [RunIds -> Seq(KnownJobs)] /\ busy \in GoodBusy \union {NoRun}
      /\ active \in [RunIds -> ActiveState] /\ pending \in [RunIds -> Ticket \union {NoTicket}]
  BY EntriesOfRun DEF HostBase, SafetyInv, HostShape, WorkerShape, RegistryInv, RecordsInv, RecordsTypeOK
<1>1. InHand(q) => registry = "open" /\ deferred[q] = <<>>
  BY <1>0 DEF InHand, Entries
<1>c. Completing(q) => \/ InHand(q) /\ UNCHANGED deferred
                       \/ WorkerFree /\ q \in Deferred /\ deferred' = [deferred EXCEPT ![q] = <<>>]
  BY DEF Completing
<1>d. Completing(q) => /\ deferred'[q] = <<>> /\ \A k \in RunIds : k # q => deferred'[k] = deferred[k]
                       /\ \A k \in RunIds : k # q => ~InHand(k)
  BY <1>0, <1>1, <1>c DEF WorkerFree, InHand
<1>f. ASSUME UNCHANGED <<busy, deferred, pending, active>> PROVE KeepsEntry(r)
  BY <1>0, <1>f, EntryStays DEF EntryKept
<1>e. ASSUME busy' = NoRun, Completing(q), r # q => EntryKept(r)
      PROVE  KeepsEntry(r)
  <2>1. q # r
    BY <1>d, <1>e DEF HasEntry, InHand, Deferred
  <2>2. ~InHand(r) /\ ~InHand(r)' /\ deferred'[r] = deferred[r]
    BY <1>d, <1>e, <2>1 DEF InHand
  <2> QED BY <1>0, <1>e, <2>1, <2>2, EntryStays
<1>2. CASE CommitStart(q, ok)
  <2>1. /\ Completing(q) /\ pending' = [pending EXCEPT ![q] = NoTicket] /\ pending[q] # NoTicket
        /\ active' \in {active, [active EXCEPT ![q] = "owned"]}
    BY <1>2 DEF CommitStart, BeginAbandon, BeginCommit
  <2>2. r # q => EntryKept(r)
    BY <1>0, <2>1 DEF EntryKept
  <2>3. CASE busy' = NoRun
    BY <1>e, <2>1, <2>2, <2>3
  <2>4. CASE busy' # NoRun
    <3>1. busy' = [run |-> q, jobs |-> Waiting(q)] /\ active' = [active EXCEPT ![q] = "owned"]
      BY <1>2, <2>4 DEF CommitStart, BeginCommit, StartEnds
    <3>2. CASE q = r
      <4>1. Waiting(r)' = Waiting(r) /\ active'[r] = "owned"
        BY <1>0, <2>4, <3>1, <3>2 DEF InHand, Waiting
      <4>2. HasEntry(r) /\ StartEntry(r)
        BY <2>1, <3>2 DEF Completing, HasEntry, StartEntry
      <4>3. ~EndEntry(r)'
        BY <4>1 DEF EndEntry
      <4> QED BY <4>1, <4>2, <4>3 DEF KeepsEntry
    <3>3. CASE q # r
      <4>1. ~InHand(r) /\ ~InHand(r)' /\ deferred'[r] = deferred[r]
        BY <1>d, <2>1, <3>1, <3>3 DEF InHand
      <4> QED BY <1>0, <2>2, <3>3, <4>1, EntryStays
    <3> QED BY <3>2, <3>3
  <2> QED BY <2>3, <2>4
<1>3. CASE FailPreparation(q, ok) \/ CreateProcess(q)
  BY <1>3, <1>f DEF FailPreparation, CreateProcess, PreparationFails, SpawnProcess, workerVars
<1>4. CASE ReportUnspawned(q, ok)
  <2>1. InHand(q) /\ busy' = NoRun /\ UNCHANGED deferred /\ FinishUnspawned(q, ok)
    BY <1>4 DEF ReportUnspawned, StartEnds
  <2>2. /\ UNCHANGED pending
        /\ active' \in {[active EXCEPT ![q] = "released"], [active EXCEPT ![q] = "finishing"]}
    BY <2>1 DEF FinishUnspawned, Finalize
  <2>3. (r # q => EntryKept(r)) /\ Completing(q)
    BY <1>0, <2>1, <2>2 DEF EntryKept, Completing
  <2> QED BY <1>e, <2>1, <2>3
<1>5. CASE RecordRunning(q, ok)
  <2>1. /\ InHand(q) /\ UNCHANGED deferred /\ UNCHANGED <<pending, active>>
        /\ busy' = NoRun \/ UNCHANGED busy
    BY <1>5 DEF RecordRunning, MarkRunning, StartEnds
  <2>2. (r # q => EntryKept(r)) /\ Completing(q)
    BY <2>1 DEF EntryKept, Completing
  <2> QED BY <1>e, <1>f, <2>1, <2>2
<1>6. CASE ReportSpawned(q, ok)
  <2>1. /\ InHand(q) /\ UNCHANGED deferred /\ busy' = NoRun
        /\ UNCHANGED vars \/ Cancel(q, ok)
    BY <1>6 DEF ReportSpawned, StartEnds
  <2>2. UNCHANGED <<pending, active>>
    BY <2>1 DEF Cancel, vars, registryVars
  <2>3. (r # q => EntryKept(r)) /\ Completing(q)
    BY <2>1, <2>2 DEF EntryKept, Completing
  <2> QED BY <1>e, <2>1, <2>3
<1>7. CASE TimeOut(q, ok)
  BY <1>7, <1>f DEF TimeOut, Cancel, Replying
<1>8. CASE CompleteFinish(q, ok)
  <2>1. /\ Completing(q) /\ busy' = NoRun /\ UNCHANGED pending
        /\ active' \in {[active EXCEPT ![q] = "released"], [active EXCEPT ![q] = "finishing"]}
    BY <1>8 DEF CompleteFinish, FinishObserved, Finalize, StartEnds
  <2>2. r # q => EntryKept(r)
    BY <1>0, <2>1 DEF EntryKept
  <2> QED BY <1>e, <2>1, <2>2
<1> QED BY <1>2, <1>3, <1>4, <1>5, <1>6, <1>7, <1>8

\* Whatever entry there is after a step comes from one of these.
LEMMA NewEntries ==
    ASSUME HostBase, NamesInv, Entries, Counted, Once, OwnRuns, Whole => SlotsAwait,
           [RunHostNext]_runHostVars, NEW r \in RunIds, HasEntry(r)'
    PROVE  NewEntry(r)
<1>1. CASE TakeWork
  BY <1>1, TakeMakes
<1>2. ASSUME NEW q \in RunIds, AdvanceStart(q) PROVE NewEntry(r)
  <2>1. \E ok \in BOOLEAN :
           \/ CommitStart(q, ok) \/ FailPreparation(q, ok) \/ ReportUnspawned(q, ok)
           \/ RecordRunning(q, ok) \/ ReportSpawned(q, ok) \/ CreateProcess(q)
    BY <1>2 DEF AdvanceStart
  <2>2. KeepsEntry(r)
    BY <2>1, AdvanceKeeps
  <2> QED BY <2>2 DEF NewEntry
<1>3. ASSUME NEW q \in RunIds, NEW ok \in BOOLEAN, TimeOut(q, ok) \/ CompleteFinish(q, ok)
      PROVE  NewEntry(r)
  <2>1. KeepsEntry(r)
    BY <1>3, AdvanceKeeps
  <2> QED BY <2>1 DEF NewEntry
<1>4. ~WorkerDies
  BY DEF WorkerDies, HasEntry, InHand, Deferred
<1>5. ASSUME UNCHANGED <<busy, deferred, pending, active>> PROVE NewEntry(r)
  BY <1>5, EntriesOfRun, EntryStays DEF EntryKept, NewEntry
<1>6. ASSUME UNCHANGED <<busy, deferred>>, UNCHANGED vars PROVE NewEntry(r)
  BY <1>5, <1>6 DEF vars, registryVars
<1>7. CASE WorkerUnwinds
  <2>1. UNCHANGED <<busy, deferred>> /\ (CloseSources \/ DropActive)
    BY <1>7 DEF WorkerUnwinds, workerVars
  <2>2. busy = NoRun /\ Deferred = {}
    BY <2>1 DEF Entries, CloseSources, DropActive
  <2> QED BY <2>1, <2>2 DEF HasEntry, InHand, Deferred
<1>8. CASE HostStarts \/ (\E q \in RunIds : ProcessesEnd(q))
  BY <1>5, <1>8 DEF HostStarts, Open, ProcessesEnd, ChildExits, workerVars
<1>9. CASE ClientStep \/ TickStep \/ SendEvent \/ UNCHANGED runHostVars
  BY <1>6, <1>9 DEF ClientStep, SubmitStart, CancelJob, AskCancel, CloseAll, CloseSession, TickStep,
     Receive, MarkRunsDead, LaunchDies, RetryCancel, ForceAfterGrace, ObserveExit, Reap,
     SendFinish, SendEvent, runHostVars, workerVars
<1> QED BY <1>1, <1>2, <1>3, <1>4, <1>7, <1>8, <1>9 DEF RunHostNext, WorkerLoop

\* Who has a request after the step.
LEMMA PlacesLater ==
    /\ \A x \in Asked' \union Told' : Errand(x) => ~Nowhere(x.job)'
    /\ \A r \in RunIds : HasEntry(r)' => \A j \in Range(Waiting(r)') : ~Nowhere(j)'
<1>1. ASSUME NEW x \in Asked' \union Told', Errand(x) PROVE ~Nowhere(x.job)'
  <2>1. x.job \in ErrandJobs(works)' \union ErrandJobs(outbox)' \union ErrandJobs(events)'
    BY <1>1 DEF Asked, Told, ErrandJobs
  <2> QED BY <2>1 DEF Nowhere
<1>2. ASSUME NEW r \in RunIds, HasEntry(r)', NEW j \in Range(Waiting(r)') PROVE ~Nowhere(j)'
  <2>1. CASE InHand(r)'
    <3>1. j \in Held'
      BY <1>2, <2>1 DEF Waiting, Held, HandJobs, InHand
    <3> QED BY <3>1 DEF Nowhere
  <2>2. CASE ~InHand(r)'
    <3>1. j \in Waits(r)'
      BY <1>2, <2>2 DEF Waiting, Waits
    <3> QED BY <3>1 DEF Nowhere
  <2> QED BY <2>1, <2>2
<1> QED BY <1>1, <1>2

\* Nobody has the request whose answer the actor receives.
LEMMA ReceivedNowhere ==
    ASSUME HostShape, Once, Receive, [RunHostNext]_runHostVars, Errand(Head(events)),
           NEW j, j = Head(events).job
    PROVE  Nowhere(j)'
<1> DEFINE e == Head(events)
<1>0. /\ events \in Seq(GoodEvent) /\ events # <<>> /\ events' = Tail(events)
      /\ UNCHANGED <<outbox, busy, deferred>> /\ e \in GoodEvent
  BY HeadEvent DEF HostShape, Receive, workerVars
<1>1. j \in Jobs /\ j \in ErrandJobs(events)
  <2>1. e \in Range(events)
    BY <1>0, SequenceRange
  <2> QED BY <1>0, <2>1 DEF ErrandJobs, GoodEvent, Errand, KnownJobs
<1>2. /\ j \notin ErrandJobs(works) \union Held \union ErrandJobs(outbox)
      /\ \A r \in RunIds : j \notin Waits(r)
  BY <1>1 DEF Once, OnePlace
<1>3. j \notin ErrandJobs(events)'
  <2>1. j \notin ErrandJobs(Tail(events))
    BY <1>0, ErrandsTail DEF Once, EachApart
  <2>2. ErrandJobs(events)' = ErrandJobs(events')
    BY DEF ErrandJobs
  <2> QED BY <1>0, <2>1, <2>2
<1>4. j \notin ErrandJobs(works)'
  <2> SUFFICES ASSUME NEW x \in Asked', Errand(x), x.job = j PROVE FALSE
    BY DEF ErrandJobs, Asked
  <2>1. x \notin Asked
    BY <1>2 DEF ErrandJobs, Asked
  <2>2. events' # events
    BY <1>0
  <2>3. ~SubmitStart(x.job) /\ ~SendFinish(x.job)
    BY <2>2 DEF SubmitStart, SendFinish
  <2> QED BY <2>1, <2>3, NewErrands
<1>5. UNCHANGED <<Held, ErrandJobs(outbox)>> /\ \A r \in RunIds : Waits(r)' = Waits(r)
  BY <1>0 DEF Held, HandJobs, Waits, ErrandJobs
<1> QED BY <1>2, <1>3, <1>4, <1>5 DEF Nowhere

\* A process is created for the start in hand.
LEMMA ChildBorn ==
    ASSUME HostBase, [RunHostNext]_runHostVars, NEW r \in RunIds, child[r] = NoTask, child'[r] # NoTask
    PROVE  CreateProcess(r) /\ InHand(r) /\ InHand(r)' /\ StartEntry(r)
<1>0. /\ child \in [RunIds -> Tasks \union {NoTask}] /\ (registry = "open" => StartSound)
  BY DEF HostBase, SafetyInv, RegistryInv, RecordsInv, RecordsTypeOK
<1>1. ~UNCHANGED child
  OBVIOUS
<1>2. ~UNCHANGED vars
  BY <1>1 DEF vars, registryVars
<1>3. ~(ClientStep \/ TickStep \/ SendEvent \/ HostStarts \/ WorkerDies \/ WorkerUnwinds \/ UNCHANGED runHostVars)
  BY <1>1, <1>2 DEF ClientStep, SubmitStart, CancelJob, AskCancel, CloseAll, CloseSession, TickStep,
     Receive, MarkRunsDead, LaunchDies, RetryCancel, ForceAfterGrace, ObserveExit, Reap,
     SendFinish, SendEvent, HostStarts, Open, WorkerDies, WorkerEnds, WorkerUnwinds, CloseSources,
     DropActive, runHostVars
<1>4. ~TakeWork
  BY <1>1, <1>2 DEF TakeWork, JoinStart, RefuseStart, ReserveStart, BeginFinish, HandleCancel,
     BeginRefused, HistoryCutFails, BeginReserve, FinishProbe, Cancel
<1>5. ~(\E q \in RunIds, ok \in BOOLEAN : TimeOut(q, ok) \/ CompleteFinish(q, ok))
  BY <1>1 DEF TimeOut, CompleteFinish, Cancel, FinishObserved
<1>6. ~\E q \in RunIds : ProcessesEnd(q)
  <2> SUFFICES ASSUME NEW q \in RunIds, ProcessesEnd(q) PROVE FALSE
    OBVIOUS
  <2>1. child' = [child EXCEPT ![q] = NoTask]
    BY DEF ProcessesEnd, ChildExits
  <2> QED BY <1>0, <2>1
<1>7. PICK q \in RunIds : AdvanceStart(q)
  BY <1>3, <1>4, <1>5, <1>6 DEF RunHostNext, WorkerLoop
<1>8. CreateProcess(q)
  BY <1>1, <1>2, <1>7 DEF AdvanceStart, CommitStart, FailPreparation, ReportUnspawned, RecordRunning,
     ReportSpawned, BeginAbandon, BeginCommit, PreparationFails, FinishUnspawned, MarkRunning, Cancel
<1>9. child' = [child EXCEPT ![q] = runs[q].task] /\ At(q, "begun") /\ InHand(q) /\ UNCHANGED busy
      /\ registry = "open"
  BY <1>8 DEF CreateProcess, SpawnProcess, workerVars
<1>10. q = r
  BY <1>0, <1>9
<1>11. active[r] = "owned"
  BY <1>0, <1>9, <1>10 DEF StartSound
<1> QED BY <1>8, <1>9, <1>10, <1>11 DEF StartEntry, InHand

\* A slot whose run has no process any more gets none.
LEMMA ReapedStays ==
    ASSUME HostBase, Entries, OwnRuns, SlotsAwait, [RunHostNext]_runHostVars,
           NEW j \in KnownJobs, NEW r \in RunIds, slots[j].run = r, child[r] = NoTask
    PROVE  child'[r] = NoTask
<1> SUFFICES ASSUME child'[r] # NoTask PROVE FALSE
  OBVIOUS
<1>1. InHand(r) /\ StartEntry(r)
  BY ChildBorn
<1>2. /\ Waiting(r) \in Seq(KnownJobs) /\ Waiting(r) # <<>> /\ Head(Waiting(r)) \in KnownJobs
      /\ KnownJobs \subseteq Jobs
  BY <1>1, WaitingShape DEF HostBase, HostShape, KnownJobs
<1>3. JobRun[Head(Waiting(r))] = r
  BY <1>1 DEF Entries
<1>4. JobRun[j] = r
  BY RunHostSentinels DEF OwnRuns
<1>5. Head(Waiting(r)) = j
  BY <1>2, <1>3, <1>4, RunHostAssumption
<1>6. 1 \in DOMAIN Waiting(r) /\ Waiting(r)[1] = j
  BY <1>2, <1>5, EmptySeq
<1>7. AwaitsStart(j)
  BY <1>1, <1>6 DEF SlotsAwait
<1> QED BY <1>7, RunHostSentinels DEF AwaitsStart

\* Who waits for an answer waits on until it is received.
LEMMA AwaitsStays ==
    ASSUME HostBase, Once, Entries, OwnRuns, SlotsAwait, [RunHostNext]_runHostVars, ~MarkRunsDead,
           NEW j \in KnownJobs, ~Nowhere(j)'
    PROVE  /\ AwaitsStart(j) => AwaitsStart(j)'
           /\ \A r \in RunIds : AwaitsEnd(j, r) => AwaitsEnd(j, r)'
<1>0. HostShape /\ SlotFine(slots[j]) /\ jobs[j] # "none" /\ slots[j] # NoSlot /\ NoRun \notin RunIds
  BY RunHostSentinels DEF HostBase, HostShape, SlotsShape, KnownJobs, SlotFine
<1>1. launchDead => launchDead'
  BY DEF HostStarts, RunHostNext, ClientStep, SubmitStart, CancelJob, AskCancel, CloseAll, CloseSession,
     TickStep, Receive, MarkRunsDead, LaunchDies, RetryCancel, ForceAfterGrace, ObserveExit, Reap, SendFinish,
     WorkerLoop, TakeWork, JoinStart, RefuseStart, ReserveStart, BeginFinish, HandleCancel, SendEvent,
     AdvanceStart, CommitStart, FailPreparation, ReportUnspawned, RecordRunning, ReportSpawned,
     CreateProcess, TimeOut, CompleteFinish, WorkerDies, WorkerUnwinds, ProcessesEnd, actorVars, runHostVars
<1>2. \A r \in RunIds : AwaitsEnd(j, r) => child'[r] = NoTask
  BY ReapedStays DEF AwaitsEnd
<1>3. CASE SlotSame(j)
  <2>1. AwaitsStart(j) => AwaitsStart(j)'
    BY <1>1, <1>3 DEF SlotSame, AwaitsStart
  <2>2. \A r \in RunIds : AwaitsEnd(j, r) => AwaitsEnd(j, r)'
    BY <1>2, <1>3 DEF SlotSame, AwaitsEnd
  <2> QED BY <2>1, <2>2
<1>4. CASE SendFinish(j)
  <2>1. ~AwaitsStart(j) /\ \A r \in RunIds : ~AwaitsEnd(j, r)
    BY <1>4 DEF SendFinish, AwaitsStart, AwaitsEnd
  <2> QED BY <2>1
<1>5. CASE Reap(j)
  <2>1. slots[j].run \in RunIds
    BY <1>0, <1>5 DEF Reap, SlotFine
  <2>2. ~AwaitsStart(j)
    BY <1>0, <2>1 DEF AwaitsStart
  <2>3. slots'[j].run = slots[j].run /\ slots'[j].final = slots[j].final
    <3>1. j \in Jobs /\ slots \in [Jobs -> Slot \union {NoSlot}]
      BY <1>0 DEF HostShape, SlotsShape, KnownJobs
    <3>2. slots'[j] = [slots[j] EXCEPT !.runtime = FALSE, !.state = "ended"]
      BY <1>5, <3>1 DEF Reap
    <3> QED BY <1>0, <3>2 DEF SlotFine, Slot
  <2> QED BY <1>2, <2>2, <2>3 DEF AwaitsEnd
<1>6. CASE Receive
  <2>1. ~(Errand(Head(events)) /\ Head(events).job = j)
    BY <1>0, <1>6, ReceivedNowhere
  <2>2. SlotSame(j)
    <3> DEFINE e == Head(events)
    <3>1. SlotSame(j) \/ (e.kind = "start" /\ e.job = j) \/ (e.kind = "finish" /\ e.job = j)
      BY <1>0, <1>6, ReceiveMoves
    <3> QED BY <2>1, <3>1 DEF Errand
  <2> QED BY <1>3, <2>2
<1> QED BY <1>0, <1>3, <1>4, <1>5, <1>6, SlotMoves

\* The slots of those that wait for an answer go on waiting for it.
LEMMA SlotsAwaitStep ==
    ASSUME HostBase, NamesInv, Once, Entries, Counted, OwnRuns, SlotsAwait, RunsFollowed,
           [RunHostNext]_runHostVars, ~MarkRunsDead
    PROVE  SlotsAwait'
<1>0. /\ HostShape /\ KnownJobs \subseteq Jobs
      /\ works \in Seq(GoodWork) /\ \A w \in GoodWork : Errand(w) => w.job \in KnownJobs
      /\ \A e \in GoodEvent : Errand(e) => e.job \in KnownJobs
  BY DEF HostBase, HostShape, KnownJobs, GoodWork, GoodEvent, Errand
<1>1. /\ Asked \subseteq GoodWork /\ Told \subseteq GoodEvent
  BY <1>0, SequenceRange DEF Asked, Told, HostShape, WorkerShape
<1>2. \A j \in KnownJobs : ~Nowhere(j)' =>
         /\ AwaitsStart(j) => AwaitsStart(j)'
         /\ \A r \in RunIds : AwaitsEnd(j, r) => AwaitsEnd(j, r)'
  BY AwaitsStays
<1>3. \A x \in Asked' \union Told' : Errand(x) => ~Nowhere(x.job)'
  BY PlacesLater
<1>4. ASSUME NEW x \in Asked \union Told, x \in Asked' \union Told' PROVE Awaited(x)'
  <2>1. CASE ~Errand(x)
    BY <2>1 DEF Errand, Awaited
  <2>2. CASE Errand(x)
    <3>1. x.job \in KnownJobs /\ ~Nowhere(x.job)' /\ Awaited(x)
      BY <1>0, <1>1, <1>3, <1>4, <2>2 DEF SlotsAwait
    <3>2. x.kind = "start" => AwaitsStart(x.job)'
      BY <1>2, <3>1 DEF Awaited
    <3>3. x.kind = "finish" => AwaitsEnd(x.job, x.run)'
      <4>1. x.kind = "finish" => AwaitsEnd(x.job, x.run) /\ x.run \in RunIds
        BY <3>1 DEF Awaited, AwaitsEnd
      <4> QED BY <1>2, <3>1, <4>1
    <3> QED BY <3>2, <3>3 DEF Awaited
  <2> QED BY <2>1, <2>2
<1>w. ASSUME NEW kind, Taking(kind)
      PROVE  Head(works) \in Asked /\ Head(works).kind = kind /\ Awaited(Head(works))
             /\ (kind \in {"start", "finish"} => Head(works).job \in KnownJobs)
  <2>1. Head(works) \in Asked /\ Head(works).kind = kind /\ Head(works) \in GoodWork
    BY <1>0, <1>w, WorkTaken, WorkGone
  <2> QED BY <1>0, <2>1 DEF SlotsAwait, Errand
<1>5. ASSUME NEW x \in Asked', x \notin Asked PROVE Awaited(x)'
  <2>1. CASE ~Errand(x)
    BY <2>1 DEF Errand, Awaited
  <2>2. CASE x.kind = "start" /\ x.job \in Jobs /\ SubmitStart(x.job)
    <3>1. slots'[x.job] = NewSlot /\ jobs'[x.job] = "pending"
      BY <1>0, <2>2 DEF SubmitStart, HostShape, SlotsShape
    <3>2. AwaitsStart(x.job)'
      BY <3>1 DEF AwaitsStart, NewSlot
    <3> QED BY <2>2, <3>2 DEF Awaited
  <2>3. CASE x.kind = "finish" /\ x.job \in Jobs /\ SendFinish(x.job) /\ x.run = slots[x.job].run
    <3>1. x.job \in KnownJobs /\ SlotFine(slots[x.job]) /\ slots \in [Jobs -> Slot \union {NoSlot}]
      BY <1>0, <2>3, OpenedFine DEF SendFinish, HostShape, SlotsShape
    <3>2. x.run \in RunIds /\ ~slots[x.job].runtime
      BY <2>3, <3>1 DEF SendFinish, SlotFine, Slot
    <3>3. child[x.run] = NoTask
      BY <2>3, <3>1, <3>2, RunHostSentinels DEF RunsFollowed
    <3>4. UNCHANGED child /\ slots' = [slots EXCEPT ![x.job].final = "inflight"]
      BY <2>3 DEF SendFinish, vars, registryVars
    <3>5. slots'[x.job].run = x.run /\ slots'[x.job].final = "inflight"
      BY <2>3, <3>1, <3>4 DEF SlotFine, Slot
    <3>6. AwaitsEnd(x.job, x.run)'
      BY <3>2, <3>3, <3>4, <3>5 DEF AwaitsEnd
    <3> QED BY <2>3, <3>6 DEF Awaited
  <2> QED BY <1>0, <1>5, <2>1, <2>2, <2>3, NewErrands
<1>6. ASSUME NEW x \in Told', x \notin Told PROVE Awaited(x)'
  <2>1. CASE ~Errand(x)
    BY <2>1 DEF Errand, Awaited
  <2>2. CASE Errand(x)
    <3>0. ~Nowhere(x.job)'
      BY <1>3, <1>6, <2>2
    <3>1. NewAnswer(x)
      BY <1>6, <2>2, NewTold
    <3>2. CASE TookStart(x)
      <4>1. x.job \in KnownJobs /\ AwaitsStart(x.job) /\ x.kind = "start"
        BY <1>w, <3>2 DEF TookStart, Awaited
      <4> QED BY <1>2, <3>0, <4>1 DEF Awaited
    <3>3. CASE TookFinish(x)
      <4>1. x.job \in KnownJobs /\ AwaitsEnd(x.job, x.run) /\ x.kind = "finish" /\ x.run \in RunIds
        BY <1>w, <3>3 DEF TookFinish, Awaited, AwaitsEnd
      <4> QED BY <1>2, <3>0, <4>1 DEF Awaited
    <3>4. ASSUME NEW q \in RunIds, HeldStart(q, x) PROVE Awaited(x)'
      <4>1. /\ HasEntry(q) /\ StartEntry(q) /\ x.kind = "start" /\ x.job \in Range(Waiting(q))
        BY <3>4 DEF HeldStart, HasEntry
      <4>2. AwaitsStart(x.job)
        BY <4>1 DEF SlotsAwait, HasEntry, Range
      <4>3. x.job \in KnownJobs
        <5>1. Waiting(q) \in Seq(KnownJobs)
          BY <1>0, <4>1, WaitingShape DEF HasEntry, HostShape
        <5> QED BY <4>1, <5>1, SequenceRange
      <4> QED BY <1>2, <3>0, <4>1, <4>2, <4>3 DEF Awaited
    <3>5. ASSUME NEW q \in RunIds, HeldFinish(q, x) PROVE Awaited(x)'
      <4>1. /\ HasEntry(q) /\ EndEntry(q) /\ x.kind = "finish" /\ x.job = Head(Waiting(q)) /\ x.run = q
        BY <3>5 DEF HeldFinish, HasEntry
      <4>2. AwaitsEnd(x.job, x.run)
        BY <4>1 DEF SlotsAwait, HasEntry
      <4>3. x.job \in KnownJobs
        BY <1>0, <4>1, WaitingShape DEF HasEntry, HostShape
      <4> QED BY <1>2, <3>0, <4>1, <4>2, <4>3 DEF Awaited
    <3> QED BY <3>1, <3>2, <3>3, <3>4, <3>5 DEF NewAnswer
  <2> QED BY <2>1, <2>2
<1>7. \A x \in Asked' \union Told' : Awaited(x)'
  BY <1>4, <1>5, <1>6
<1>8. ASSUME NEW r \in RunIds, HasEntry(r)'
      PROVE  /\ StartEntry(r)' => \A j \in Range(Waiting(r)') : AwaitsStart(j)'
             /\ EndEntry(r)' => AwaitsEnd(Head(Waiting(r)), r)'
  <2>0. \A j \in Range(Waiting(r)') : ~Nowhere(j)'
    BY <1>8, PlacesLater
  <2>1. NewEntry(r)
    BY <1>8, NewEntries
  <2>2. HasEntry(r) => /\ Waiting(r) \in Seq(KnownJobs) /\ Waiting(r) # <<>>
                       /\ Head(Waiting(r)) \in Range(Waiting(r)) /\ Range(Waiting(r)) \subseteq KnownJobs
    <3>1. HasEntry(r) => Waiting(r) \in Seq(KnownJobs) /\ Waiting(r) # <<>>
      BY <1>0, WaitingShape DEF HasEntry, HostShape
    <3> QED BY <3>1, SequenceRange
  <2>3. HasEntry(r) /\ StartEntry(r) => \A j \in Range(Waiting(r)) : AwaitsStart(j)
    BY DEF SlotsAwait, HasEntry, Range
  <2>4. CASE KeepsEntry(r)
    <3>1. HasEntry(r) /\ Waiting(r)' = Waiting(r)
      BY <2>4 DEF KeepsEntry
    <3>2. StartEntry(r)' => \A j \in Range(Waiting(r)') : AwaitsStart(j)'
      <4> SUFFICES ASSUME StartEntry(r)', NEW j \in Range(Waiting(r)') PROVE AwaitsStart(j)'
        OBVIOUS
      <4>1. StartEntry(r) /\ j \in Range(Waiting(r)) /\ j \in KnownJobs /\ ~Nowhere(j)'
        BY <2>0, <2>2, <2>4, <3>1 DEF KeepsEntry
      <4> QED BY <1>2, <2>3, <3>1, <4>1
    <3>3. EndEntry(r)' => AwaitsEnd(Head(Waiting(r)), r)'
      <4> SUFFICES ASSUME EndEntry(r)' PROVE AwaitsEnd(Head(Waiting(r)), r)'
        OBVIOUS
      <4>1. PICK j \in KnownJobs : j = Head(Waiting(r)) /\ j \in Range(Waiting(r))
        BY <2>2, <3>1
      <4>2. AwaitsEnd(j, r) /\ ~Nowhere(j)'
        BY <2>0, <2>4, <3>1, <4>1 DEF KeepsEntry, SlotsAwait, HasEntry
      <4>3. AwaitsEnd(j, r)'
        BY <1>2, <4>2
      <4>4. Head(Waiting(r))' = j
        BY <3>1, <4>1
      <4> QED BY <4>3, <4>4
    <3> QED BY <3>2, <3>3
  <2>5. CASE JoinsEntry(r)
    <3>1. /\ HasEntry(r) /\ StartEntry(r) /\ ~EndEntry(r)' /\ Taking("start")
          /\ Waiting(r)' = Append(Waiting(r), Head(works).job)
      BY <2>5 DEF JoinsEntry, HasEntry
    <3>2. PICK j \in KnownJobs : j = Head(works).job /\ AwaitsStart(j)
      BY <1>w, <3>1 DEF Awaited
    <3>3. Range(Waiting(r)') = Range(Waiting(r)) \union {j}
      BY <2>2, <3>1, <3>2, RangeAppend
    <3> QED BY <1>2, <2>0, <2>2, <2>3, <3>1, <3>2, <3>3
  <2>6. CASE MakesStart(r)
    <3>1. Taking("start") /\ ~EndEntry(r)' /\ Waiting(r)' = <<Head(works).job>>
      BY <2>6 DEF MakesStart
    <3>2. PICK j \in KnownJobs : j = Head(works).job /\ AwaitsStart(j)
      BY <1>w, <3>1 DEF Awaited
    <3>3. Range(Waiting(r)') = {j}
      BY <3>1, <3>2, ErrandsFew
    <3> QED BY <1>2, <2>0, <3>1, <3>2, <3>3
  <2>7. CASE MakesEnd(r)
    <3>1. Taking("finish") /\ ~StartEntry(r)' /\ Waiting(r)' = <<Head(works).job>> /\ r = Head(works).run
      BY <2>7 DEF MakesEnd
    <3>2. PICK j \in KnownJobs : j = Head(works).job /\ AwaitsEnd(j, r)
      BY <1>w, <3>1 DEF Awaited
    <3>3. Range(Waiting(r)') = {j} /\ Head(Waiting(r))' = j
      BY <3>1, <3>2, ErrandsFew
    <3>4. AwaitsEnd(j, r)'
      BY <1>2, <2>0, <3>2, <3>3
    <3> QED BY <3>1, <3>3, <3>4
  <2> QED BY <2>1, <2>4, <2>5, <2>6, <2>7 DEF NewEntry
<1>9. ASSUME NEW r \in RunIds, HasEntry(r)'
      PROVE  /\ StartEntry(r)' => (\A i \in DOMAIN Waiting(r) : AwaitsStart(Waiting(r)[i]))'
             /\ EndEntry(r)' => AwaitsEnd(Head(Waiting(r)), r)'
  <2>1. StartEntry(r)' => \A j \in Range(Waiting(r)') : AwaitsStart(j)'
    BY <1>8, <1>9
  <2>2. EndEntry(r)' => AwaitsEnd(Head(Waiting(r)), r)'
    BY <1>8, <1>9
  <2>3. \A i \in DOMAIN Waiting(r)' : (Waiting(r)')[i] \in Range(Waiting(r)')
    BY DEF Range
  <2>4. StartEntry(r)' => (\A i \in DOMAIN Waiting(r) : AwaitsStart(Waiting(r)[i]))'
    BY <2>1, <2>3 DEF AwaitsStart
  <2> QED BY <2>2, <2>4
<1> QED BY <1>7, <1>9 DEF SlotsAwait, HasEntry

\* A request becomes known when a client submits it.
LEMMA NewKnown ==
    ASSUME HostShape, [RunHostNext]_runHostVars, NEW j \in KnownJobs', j \notin KnownJobs
    PROVE  SubmitStart(j) /\ slots'[j] = NewSlot
<1>0. j \in Jobs /\ jobs[j] = "none" /\ jobs'[j] # "none" /\ jobs \in [Jobs -> JobState]
      /\ slots \in [Jobs -> Slot \union {NoSlot}]
  BY DEF KnownJobs, HostShape, SlotsShape
<1>1. ~Receive
  <2> SUFFICES ASSUME Receive PROVE FALSE
    OBVIOUS
  <2> DEFINE e == Head(events)
  <2>1. e \in GoodEvent
    BY HeadEvent DEF Receive
  <2>2. UNCHANGED jobs \/ (e.kind = "start" /\ jobs' = [jobs EXCEPT ![e.job] = "answered"])
    BY DEF Receive, ReceiveStart, ReceiveCancel, ReceiveFinish
  <2>3. e.kind = "start" => jobs[e.job] # "none"
    BY <2>1 DEF GoodEvent, KnownJobs
  <2> HIDE DEF e
  <2> QED BY <1>0, <2>2, <2>3
<1>2. ~MarkRunsDead
  BY <1>0 DEF MarkRunsDead, Lost
<1>3. ~UNCHANGED jobs
  BY <1>0
<1>4. PICK k \in Jobs : SubmitStart(k)
  BY <1>1, <1>2, <1>3 DEF HostStarts, RunHostNext, ClientStep, CancelJob, AskCancel, CloseAll, CloseSession,
     TickStep, LaunchDies, RetryCancel, ForceAfterGrace, ObserveExit, Reap, SendFinish,
     WorkerLoop, TakeWork, JoinStart, RefuseStart, ReserveStart, BeginFinish, HandleCancel, SendEvent,
     AdvanceStart, CommitStart, FailPreparation, ReportUnspawned, RecordRunning, ReportSpawned,
     CreateProcess, TimeOut, CompleteFinish, WorkerDies, WorkerUnwinds, ProcessesEnd, actorVars, runHostVars
<1>5. k = j
  BY <1>0, <1>4 DEF SubmitStart
<1> QED BY <1>0, <1>4, <1>5 DEF SubmitStart

\* What the two steps that change one slot leave of it.
LEMMA OneSlotMoves ==
    ASSUME HostShape, NEW j \in KnownJobs
    PROVE  /\ SendFinish(j) => /\ UNCHANGED <<jobs, child>> /\ ~slots[j].runtime
                               /\ slots'[j].run = slots[j].run /\ slots'[j].final = "inflight"
                               /\ slots'[j].runtime = slots[j].runtime
           /\ Reap(j) => /\ UNCHANGED <<jobs, child>> /\ slots[j].run \in RunIds
                         /\ child[slots[j].run] = NoTask
                         /\ slots'[j].run = slots[j].run /\ slots'[j].final = slots[j].final
<1>0. /\ j \in Jobs /\ slots \in [Jobs -> Slot \union {NoSlot}] /\ SlotFine(slots[j]) /\ slots[j] \in Slot
  BY DEF HostShape, SlotsShape, KnownJobs, SlotFine
<1>1. ASSUME SendFinish(j)
      PROVE  /\ UNCHANGED <<jobs, child>> /\ ~slots[j].runtime
             /\ slots'[j].run = slots[j].run /\ slots'[j].final = "inflight"
             /\ slots'[j].runtime = slots[j].runtime
  <2>1. UNCHANGED <<jobs, child>> /\ ~slots[j].runtime /\ slots' = [slots EXCEPT ![j].final = "inflight"]
    BY <1>1 DEF SendFinish, vars, registryVars
  <2>2. slots'[j] = [slots[j] EXCEPT !.final = "inflight"]
    BY <1>0, <2>1
  <2> QED BY <1>0, <2>1, <2>2 DEF Slot
<1>2. ASSUME Reap(j)
      PROVE  /\ UNCHANGED <<jobs, child>> /\ slots[j].run \in RunIds
             /\ child[slots[j].run] = NoTask
             /\ slots'[j].run = slots[j].run /\ slots'[j].final = slots[j].final
  <2>1. /\ UNCHANGED <<jobs, child>> /\ slots[j].runtime /\ child[slots[j].run] = NoTask
        /\ slots' = [slots EXCEPT ![j].runtime = FALSE, ![j].state = "ended"]
    BY <1>2 DEF Reap, vars, registryVars
  <2>2. slots'[j] = [slots[j] EXCEPT !.runtime = FALSE, !.state = "ended"]
    BY <1>0, <2>1
  <2> QED BY <1>0, <2>1, <2>2 DEF Slot, SlotFine
<1> QED BY <1>1, <1>2

\* A slot only ever has the run that was made for its request.
LEMMA OwnRunsStep ==
    ASSUME HostBase, Entries, OwnRuns, [RunHostNext]_runHostVars PROVE OwnRuns'
<1>0. HostShape /\ NoRun \notin RunIds
  BY RunHostSentinels DEF HostBase
<1>1. ASSUME NEW j \in KnownJobs', slots'[j].run # NoRun PROVE JobRun[j] = slots'[j].run
  <2>0. j \in KnownJobs
    <3>1. NewSlot.run = NoRun
      BY DEF NewSlot
    <3> QED BY <1>0, <1>1, <3>1, NewKnown
  <2>1. SlotFine(slots[j]) /\ j \in Jobs /\ slots[j] # NoSlot
    BY <1>0, <2>0, RunHostSentinels DEF HostShape, SlotsShape, KnownJobs, SlotFine
  <2>s. CASE slots'[j].run = slots[j].run
    BY <1>1, <2>0, <2>s DEF OwnRuns
  <2>2. CASE MarkRunsDead
    <3>1. slots'[j] = Orphaned(slots[j])
      BY <2>1, <2>2 DEF MarkRunsDead, Opened
    <3> QED BY <2>1, <2>s, <3>1, OrphanedFine
  <2>3. CASE Receive
    <3> DEFINE e == Head(events)
    <3>1. slots'[j].run = slots[j].run \/ (slots'[j].run = e.run /\ e.kind = "start" /\ e.job = j)
      BY <1>0, <2>0, <2>3, ReceiveMoves DEF SlotSame
    <3>2. e \in Told
      BY <1>0, <2>3, HeadTold
    <3> HIDE DEF e
    <3>3. CASE slots'[j].run = e.run /\ e.kind = "start" /\ e.job = j
      <4>1. JobRun[e.job] = e.run
        BY <1>1, <3>2, <3>3 DEF OwnRuns
      <4> QED BY <3>3, <4>1
    <3> QED BY <2>s, <3>1, <3>3
  <2>4. CASE ~MarkRunsDead /\ ~Receive
    <3>1. SlotSame(j) \/ SendFinish(j) \/ Reap(j)
      BY <1>0, <2>0, <2>4, SlotMoves
    <3>2. slots'[j].run = slots[j].run
      BY <1>0, <2>0, <3>1, OneSlotMoves DEF SlotSame
    <3> QED BY <2>s, <3>2
  <2> QED BY <2>2, <2>3, <2>4
<1>2. ASSUME NEW x \in Told', x.kind = "start", x.run # NoRun PROVE JobRun[x.job] = x.run
  <2>1. CASE x \in Told
    BY <1>2, <2>1 DEF OwnRuns
  <2>2. CASE x \notin Told
    <3>1. NewAnswer(x)
      BY <1>2, <2>2, NewTold DEF Errand
    <3>2. PICK q \in RunIds : HeldStart(q, x)
      BY <1>2, <3>1 DEF NewAnswer, TookStart, TookFinish, HeldFinish
    <3> QED BY <1>2, <3>2 DEF HeldStart, Entries
  <2> QED BY <2>1, <2>2
<1> QED BY <1>1, <1>2 DEF OwnRuns

\* An entry comes into use when its start is committed, in the worker's hand.
LEMMA UseBegins ==
    ASSUME HostBase, [RunHostNext]_runHostVars, NEW r \in RunIds, ~InUseNow(r), InUseNow(r)'
    PROVE  pending[r] # NoTicket /\ InHand(r)'
<1>0. /\ RegistryInv /\ EntriesInv /\ active \in [RunIds -> ActiveState]
      /\ registry = "open" => StartSound
  BY DEF HostBase, SafetyInv, RegistryInv, RecordsInv, RecordsTypeOK
<1>1. active'[r] # active[r]
  BY DEF InUseNow
<1>2. ~UNCHANGED vars /\ ~UNCHANGED active
  BY <1>1 DEF vars, registryVars
<1>3. ~(ClientStep \/ TickStep \/ SendEvent \/ HostStarts \/ WorkerDies \/ UNCHANGED runHostVars
          \/ \E q \in RunIds : ProcessesEnd(q))
  BY <1>2 DEF ClientStep, SubmitStart, CancelJob, AskCancel, CloseAll, CloseSession, TickStep,
     Receive, MarkRunsDead, LaunchDies, RetryCancel, ForceAfterGrace, ObserveExit, Reap,
     SendFinish, SendEvent, HostStarts, Open, WorkerDies, WorkerEnds, ProcessesEnd, ChildExits, runHostVars
<1>4. ~WorkerUnwinds
  BY <1>2 DEF WorkerUnwinds, CloseSources, DropActive, InUseNow
<1>c. ASSUME NEW gone \in SUBSET RunIds, HistoryCut(gone) PROVE FALSE
  BY <1>0, <1>1, <1>c, CutEffect DEF InUseNow
<1>5. ~TakeWork
  <2>1. ~(JoinStart \/ \E ok \in BOOLEAN : HandleCancel(ok))
    BY <1>2 DEF JoinStart, HandleCancel, Cancel
  <2>2. ~RefuseStart
    BY <1>2, <1>c DEF RefuseStart, BeginRefused, HistoryCutFails
  <2>3. ~ReserveStart
    BY <1>c DEF ReserveStart, BeginReserve
  <2>4. ~BeginFinish
    <3> SUFFICES ASSUME BeginFinish PROVE FALSE
      OBVIOUS
    <3> DEFINE q == Head(works).run
    <3>1. active[q] \in {"owned", "finishing"} /\ active' = [active EXCEPT ![q] = "finishing"]
      BY <1>2 DEF BeginFinish, FinishProbe
    <3> HIDE DEF q
    <3> QED BY <1>0, <1>1, <3>1 DEF InUseNow
  <2> QED BY <2>1, <2>2, <2>3, <2>4 DEF TakeWork
<1>6. ASSUME NEW q \in RunIds, NEW ok \in BOOLEAN, TimeOut(q, ok) \/ CompleteFinish(q, ok) PROVE FALSE
  <2>1. CompleteFinish(q, ok)
    BY <1>2, <1>6 DEF TimeOut, Cancel
  <2>2. /\ active[q] = "finishing"
        /\ active' \in {[active EXCEPT ![q] = "released"], [active EXCEPT ![q] = "finishing"]}
    BY <2>1 DEF CompleteFinish, FinishObserved, Finalize
  <2> QED BY <1>0, <1>1, <2>2 DEF InUseNow
<1>7. PICK q \in RunIds : AdvanceStart(q)
  BY <1>3, <1>4, <1>5, <1>6 DEF RunHostNext, WorkerLoop
<1>8. ASSUME NEW ok \in BOOLEAN, ReportUnspawned(q, ok) PROVE FALSE
  <2>1. /\ At(q, "failed") /\ registry = "open"
        /\ active' \in {[active EXCEPT ![q] = "released"], [active EXCEPT ![q] = "finishing"]}
    BY <1>8 DEF ReportUnspawned, FinishUnspawned, Finalize
  <2>2. active[q] = "owned"
    BY <1>0, <2>1 DEF StartSound
  <2> QED BY <1>0, <1>1, <2>1, <2>2 DEF InUseNow
<1>9. ASSUME NEW ok \in BOOLEAN, CommitStart(q, ok) PROVE pending[r] # NoTicket /\ InHand(r)'
  <2>1. pending[q] # NoTicket /\ BeginCommit(q, ok) /\ ok
    BY <1>2, <1>9 DEF CommitStart, BeginAbandon, BeginCommit
  <2>2. active' = [active EXCEPT ![q] = "owned"]
    BY <2>1 DEF BeginCommit
  <2>3. q = r
    BY <1>0, <1>1, <2>2
  <2>4. busy' = [run |-> q, jobs |-> Waiting(q)]
    BY <1>2, <1>9 DEF CommitStart, BeginAbandon, BeginCommit
  <2>5. [run |-> q, jobs |-> Waiting(q)] \in GoodBusy
    <3>1. WorkerShape /\ (InHand(q) \/ q \in Deferred)
      BY <1>9 DEF HostBase, HostShape, CommitStart, Completing
    <3>2. Waiting(q) \in Seq(KnownJobs) /\ Waiting(q) # <<>>
      BY <3>1, WaitingShape
    <3> QED BY <3>2, BusyGood
  <2>6. busy' # NoRun
    <3>1. KnownJobs \subseteq Jobs
      BY DEF KnownJobs
    <3>2. Seq(KnownJobs) \subseteq Seq(Jobs)
      BY <3>1, SeqMonotonic
    <3>3. [run |-> q, jobs |-> Waiting(q)] \in Busy
      BY <2>5, <3>2 DEF GoodBusy, Busy
    <3> QED BY <2>4, <3>3, RunHostSentinels
  <2> QED BY <2>1, <2>3, <2>4, <2>6 DEF InHand
<1>10. ~(CreateProcess(q) \/ \E ok \in BOOLEAN : FailPreparation(q, ok) \/ RecordRunning(q, ok) \/ ReportSpawned(q, ok))
  BY <1>2 DEF FailPreparation, RecordRunning, ReportSpawned, CreateProcess, PreparationFails, MarkRunning,
     Cancel, SpawnProcess
<1> QED BY <1>7, <1>8, <1>9, <1>10 DEF AdvanceStart

\* What the actor has been told stays until it is received, or the worker dies
\* with it unsent.
LEMMA ToldStays ==
    ASSUME HostShape, Entries, [RunHostNext]_runHostVars, NEW x \in Told, x \notin Told'
    PROVE  \/ Receive /\ x = Head(events)
           \/ WorkerDies /\ x \in Range(outbox)
<1>0. outbox \in Seq(GoodEvent) /\ events \in Seq(GoodEvent)
  BY DEF HostShape, WorkerShape
<1>1. ~UNCHANGED <<outbox, events>>
  BY DEF Told
<1>2. outbox = <<>> => ~UNCHANGED events
  BY ErrandsFew DEF Told
<1>3. ~TakeWork
  BY <1>2 DEF TakeWork, JoinStart, RefuseStart, ReserveStart, BeginFinish, HandleCancel, Taking, WorkerFree
<1>4. \A q \in RunIds : InHand(q) \/ Completing(q) => outbox = <<>>
  BY DEF InHand, Completing, WorkerFree, Entries
<1>5. ~\E q \in RunIds : AdvanceStart(q)
  BY <1>1, <1>2, <1>4 DEF AdvanceStart, CommitStart, FailPreparation, ReportUnspawned, RecordRunning,
     ReportSpawned, CreateProcess, workerVars
<1>6. ~\E q \in RunIds, ok \in BOOLEAN : TimeOut(q, ok) \/ CompleteFinish(q, ok)
  BY <1>2, <1>4 DEF TimeOut, CompleteFinish, WorkerFree
<1>7. ~SendEvent
  <2> SUFFICES ASSUME SendEvent PROVE FALSE
    OBVIOUS
  <2>1. outbox # <<>> /\ Head(outbox) \in GoodEvent /\ Range(outbox) = Range(Tail(outbox)) \union {Head(outbox)}
    BY <1>0, SequenceRange, HeadTailProperties DEF SendEvent
  <2>2. Range(events') = Range(events) \union {Head(outbox)} /\ outbox' = Tail(outbox)
    BY <1>0, <2>1, RangeAppend DEF SendEvent
  <2> QED BY <2>1, <2>2 DEF Told
<1>8. ~(WorkerUnwinds \/ HostStarts \/ (\E q \in RunIds : ProcessesEnd(q)) \/ ClientStep \/ UNCHANGED runHostVars)
  BY <1>1 DEF ClientStep, SubmitStart, CancelJob, AskCancel, CloseAll, CloseSession, WorkerUnwinds,
     HostStarts, ProcessesEnd, runHostVars, workerVars
<1>9. ~(MarkRunsDead \/ LaunchDies \/ \E j \in Jobs : RetryCancel(j) \/ ForceAfterGrace(j) \/ ObserveExit(j)
                                                      \/ Reap(j) \/ SendFinish(j))
  BY <1>1 DEF MarkRunsDead, LaunchDies, RetryCancel, ForceAfterGrace, ObserveExit, Reap, SendFinish, workerVars
<1>10. CASE Receive
  BY <1>10, HeadTold
<1>11. CASE WorkerDies
  BY <1>11 DEF WorkerDies, Told
<1> QED BY <1>3, <1>5, <1>6, <1>7, <1>8, <1>9, <1>10, <1>11 DEF RunHostNext, WorkerLoop, TickStep

\* The answer that ends a start is told.
LEMMA StartEndsTells ==
    ASSUME NEW reply \in GoodEvent, reply.ok \in BOOLEAN, NEW waiting \in Seq(KnownJobs),
           StartEnds(reply, waiting)
    PROVE  reply \in Told' /\ busy' = NoRun
<1>1. Shared(waiting, reply.ok) \in Seq(GoodEvent)
  BY SharedGood
<1> DEFINE s == Shared(waiting, reply.ok)
           one == <<reply>>
<1>2. one \in Seq(GoodEvent) /\ outbox' = one \o s /\ busy' = NoRun /\ reply \in Range(one)
  BY ErrandsFew DEF StartEnds
<1> HIDE DEF s, one
<1>3. Range(one \o s) = Range(one) \union Range(s)
  BY <1>1, <1>2, SequenceRange DEF s
<1> QED BY <1>2, <1>3 DEF Told

\* When the worker is done with what it has in hand, it tells of the run, or
\* nothing of it is in use.
LEMMA HandEnds ==
    ASSUME HostBase, Entries, [RunHostNext]_runHostVars, NEW r \in RunIds, InHand(r), ~InHand(r)', ~WorkerDies
    PROVE  \/ EndEntry(r) /\ child'[r] = NoTask /\ UNCHANGED <<slots, jobs>>
           \/ \E x \in Told' : x.kind = "start" /\ x.run = r /\ (x.runtime \/ child'[r] = NoTask)
           \/ ~InUseNow(r)' /\ child'[r] = NoTask
<1>0. /\ HostShape /\ WorkerShape /\ TicketsSound /\ active \in [RunIds -> ActiveState]
      /\ registry = "open" => StartSound /\ EntriesSound
  BY DEF HostBase, HostShape, SafetyInv, BooksInv, RegistryInv, RecordsInv, RecordsTypeOK
<1>1. registry = "open" /\ busy # NoRun /\ ~WorkerFree /\ busy.jobs = Waiting(r)
  BY DEF Entries, InHand, WorkerFree, Waiting
<1>2. ~UNCHANGED busy
  BY DEF InHand
<1>3. ~(ClientStep \/ TickStep \/ SendEvent \/ HostStarts \/ WorkerUnwinds \/ UNCHANGED runHostVars
          \/ \E q \in RunIds : ProcessesEnd(q))
  BY <1>2 DEF ClientStep, SubmitStart, CancelJob, AskCancel, CloseAll, CloseSession, TickStep,
     Receive, MarkRunsDead, LaunchDies, RetryCancel, ForceAfterGrace, ObserveExit, Reap,
     SendFinish, SendEvent, HostStarts, WorkerUnwinds, ProcessesEnd, runHostVars, workerVars
<1>4. ~TakeWork /\ ~\E q \in RunIds, ok \in BOOLEAN : TimeOut(q, ok)
  BY <1>1 DEF TakeWork, JoinStart, RefuseStart, ReserveStart, BeginFinish, HandleCancel, TimeOut, Taking
<1>q. \A q \in RunIds : InHand(q) \/ Completing(q) => q = r
  BY <1>1 DEF InHand, Completing
<1>5. PICK ok \in BOOLEAN : \/ CommitStart(r, ok) \/ ReportUnspawned(r, ok) \/ RecordRunning(r, ok)
                            \/ ReportSpawned(r, ok) \/ CompleteFinish(r, ok)
  <2>1. CASE \E q \in RunIds : AdvanceStart(q)
    <3>1. PICK q \in RunIds : AdvanceStart(q)
      BY <2>1
    <3>2. q = r
      BY <1>q, <3>1 DEF AdvanceStart, CommitStart, FailPreparation, ReportUnspawned, RecordRunning,
         ReportSpawned, CreateProcess
    <3> QED BY <1>2, <3>1, <3>2 DEF AdvanceStart, FailPreparation, CreateProcess, workerVars
  <2>2. CASE \E q \in RunIds, ok \in BOOLEAN : CompleteFinish(q, ok)
    BY <1>q, <2>2 DEF CompleteFinish
  <2> QED BY <1>3, <1>4, <2>1, <2>2 DEF RunHostNext, WorkerLoop
<1> DEFINE j == Head(busy.jobs)
           t == Tail(busy.jobs)
<1>6. j \in KnownJobs /\ t \in Seq(KnownJobs)
  BY <1>0, <1>1, WaitingShape
<1>7. \A b, c \in BOOLEAN : /\ [Reply("start", j, r, FALSE) EXCEPT !.confirmed = b] \in GoodEvent
                            /\ Spawned(j, r, b, c) \in GoodEvent
  <2>1. KnownJobs \subseteq Jobs
    BY DEF KnownJobs
  <2> QED BY <1>6, <2>1, RepliesGood
<1> HIDE DEF j, t
<1>8. \A b, c \in BOOLEAN : LET e == Spawned(j, r, b, c) IN
         e.kind = "start" /\ e.run = r /\ e.ok = b /\ e.runtime
  BY DEF Spawned, Reply
<1>s. ASSUME NEW b \in BOOLEAN, NEW c \in BOOLEAN, StartEnds(Spawned(j, r, b, c), t)
      PROVE  \E x \in Told' : x.kind = "start" /\ x.run = r /\ (x.runtime \/ child'[r] = NoTask)
  <2> DEFINE e == Spawned(j, r, b, c)
  <2>1. e \in GoodEvent /\ e.ok \in BOOLEAN /\ e.kind = "start" /\ e.run = r /\ e.runtime /\ StartEnds(e, t)
    BY <1>7, <1>8, <1>s
  <2> HIDE DEF e
  <2>2. e \in Told'
    BY <1>6, <2>1, StartEndsTells
  <2> QED BY <2>1, <2>2
<1>9. CASE CommitStart(r, ok)
  <2>1. pending[r] # NoTicket /\ (BeginAbandon(r) \/ (BeginCommit(r, ok) /\ (ok => busy' = [run |-> r, jobs |-> Waiting(r)])))
    BY <1>9 DEF CommitStart
  <2>2. active[r] = "none" /\ child[r] = NoTask
    BY <1>0, <1>1, <2>1 DEF TicketsSound, EntriesSound
  <2>3. UNCHANGED child
    BY <2>1 DEF BeginAbandon, BeginCommit
  <2>4. active'[r] = "none"
    <3>1. CASE UNCHANGED active
      BY <2>2, <3>1
    <3>2. CASE ~UNCHANGED active
      <4>1. InUseNow(r)' \/ active'[r] = "none"
        BY <1>0, <2>1, <2>2, <3>2 DEF BeginAbandon, BeginCommit, InUseNow
      <4> QED BY <2>2, <4>1, UseBegins DEF InUseNow
    <3> QED BY <3>1, <3>2
  <2> QED BY <2>2, <2>3, <2>4 DEF InUseNow
<1>10. CASE ReportUnspawned(r, ok)
  <2> DEFINE e == [Reply("start", j, r, FALSE) EXCEPT !.confirmed = ok]
  <2>1. StartEnds(e, t) /\ FinishUnspawned(r, ok) /\ At(r, "failed")
    BY <1>10 DEF ReportUnspawned, FinishUnspawned, j, t
  <2>2. child'[r] = NoTask
    BY <1>0, <1>1, <2>1 DEF StartSound, FinishUnspawned
  <2>3. e \in GoodEvent /\ e.ok \in BOOLEAN /\ e.kind = "start" /\ e.run = r
    BY <1>7 DEF Reply
  <2> HIDE DEF e
  <2>4. e \in Told'
    BY <1>6, <2>1, <2>3, StartEndsTells
  <2> QED BY <2>2, <2>3, <2>4
<1>11. CASE RecordRunning(r, ok)
  <2>1. StartEnds(Spawned(j, r, FALSE, FALSE), t)
    BY <1>2, <1>11 DEF RecordRunning, j, t
  <2> QED BY <1>s, <2>1
<1>12. CASE ReportSpawned(r, ok)
  <2>1. StartEnds(Spawned(j, r, ok, ok), t) \/ StartEnds(Spawned(j, r, TRUE, FALSE), t)
    BY <1>12 DEF ReportSpawned, j, t
  <2> QED BY <1>s, <2>1
<1>13. CASE CompleteFinish(r, ok)
  <2>1. pending[r] = NoTicket /\ active[r] = "finishing" /\ UNCHANGED <<child, slots, jobs>>
    BY <1>13 DEF CompleteFinish, FinishObserved, actorVars
  <2> QED BY <1>0, <1>1, <2>1 DEF EndEntry, EntriesSound
<1> QED BY <1>5, <1>9, <1>10, <1>11, <1>12, <1>13

\* What the slots and the answers say of the processes stays true.
LEMMA RunsFollowedStep ==
    ASSUME HostBase, NamesInv, Once, Entries, OwnRuns, SlotsAwait, RunsFollowed,
           [RunHostNext]_runHostVars, ~MarkRunsDead, WorkerDies => NothingHeld
    PROVE  RunsFollowed'
<1>0. /\ HostShape /\ NoRun \notin RunIds /\ KnownJobs \subseteq KnownJobs' /\ KnownJobs \subseteq Jobs
      /\ \A e \in GoodEvent : /\ Errand(e) => e.job \in KnownJobs
                              /\ e.run \in RunIds \union {NoRun}
                              /\ e.kind # "start" => e.run \in RunIds /\ ~e.runtime
      /\ active \in [RunIds -> ActiveState]
  BY JobsKnown, RunHostSentinels
     DEF HostBase, SafetyInv, RegistryInv, RecordsInv, RecordsTypeOK, KnownJobs, GoodEvent, Event, Errand
<1>1. Told \subseteq GoodEvent
  BY <1>0, SequenceRange DEF Told, HostShape, WorkerShape
<1>2. \A j \in KnownJobs : SlotFine(slots[j]) /\ slots[j].run \in RunIds \union {NoRun} /\ slots[j] # NoSlot
  BY <1>0, RunHostSentinels DEF HostShape, SlotsShape, KnownJobs, SlotFine, Slot
<1>r. Receive => /\ Head(events) \in Told /\ UNCHANGED child /\ Awaited(Head(events))
                 /\ Head(events) \in GoodEvent
  BY <1>0, HeadTold DEF Receive, vars, registryVars, SlotsAwait
<1>3. ASSUME NEW j \in KnownJobs', slots'[j].run # NoRun
      PROVE  jobs'[j] # "pending" /\ (slots'[j].runtime \/ child'[slots'[j].run] = NoTask)
  <2>0. j \in KnownJobs
    <3>1. NewSlot.run = NoRun
      BY DEF NewSlot
    <3> QED BY <1>0, <1>3, <3>1, NewKnown
  <2>1. slots[j].run # NoRun => /\ jobs[j] # "pending" /\ slots[j].run \in RunIds
                                /\ slots[j].runtime \/ child[slots[j].run] = NoTask
    BY <1>2, <2>0 DEF RunsFollowed
  <2>2. slots[j].run \in RunIds /\ child[slots[j].run] = NoTask => child'[slots[j].run] = NoTask
    BY <2>0, ReapedStays
  <2>3. CASE SlotSame(j)
    BY <1>3, <2>1, <2>2, <2>3 DEF SlotSame
  <2>4. CASE SendFinish(j)
    <3>1. /\ UNCHANGED jobs /\ slots'[j].run = slots[j].run /\ slots'[j].runtime = slots[j].runtime
      BY <1>0, <2>0, <2>4, OneSlotMoves
    <3> QED BY <1>3, <2>1, <2>2, <3>1
  <2>5. CASE Reap(j)
    <3>1. /\ UNCHANGED <<jobs, child>> /\ slots'[j].run = slots[j].run /\ child[slots[j].run] = NoTask
      BY <1>0, <2>0, <2>5, OneSlotMoves
    <3> QED BY <1>3, <2>1, <3>1
  <2>6. CASE Receive
    <3> DEFINE e == Head(events)
    <3>1. /\ e \in Told /\ UNCHANGED child
      BY <1>r, <2>6
    <3>2. CASE e.kind = "start" /\ e.job = j /\ jobs'[j] = "answered" /\ e.runtime /\ slots'[j].runtime
      BY <3>2
    <3>3. CASE /\ e.kind = "start" /\ e.job = j /\ jobs'[j] = "answered" /\ ~e.runtime
               /\ slots'[j].runtime = slots[j].runtime
               /\ slots'[j].run \in {slots[j].run, e.run}
      <4>1. CASE slots'[j].run = slots[j].run
        BY <1>3, <2>1, <3>1, <3>3, <4>1
      <4>2. CASE slots'[j].run = e.run
        <5>1. child[e.run] = NoTask
          BY <1>3, <3>1, <3>3, <4>2 DEF RunsFollowed
        <5> QED BY <3>1, <3>3, <4>2, <5>1
      <4> QED BY <3>3, <4>1, <4>2
    <3>4. CASE /\ e.kind = "finish" /\ e.job = j /\ jobs'[j] = jobs[j]
               /\ slots'[j].run = slots[j].run /\ slots'[j].runtime = slots[j].runtime
      BY <1>3, <2>1, <3>1, <3>4
    <3>5. \/ SlotSame(j)
          \/ e.kind = "start" /\ e.job = j /\ jobs'[j] = "answered" /\ e.runtime /\ slots'[j].runtime
          \/ /\ e.kind = "start" /\ e.job = j /\ jobs'[j] = "answered" /\ ~e.runtime
             /\ slots'[j].runtime = slots[j].runtime /\ slots'[j].run \in {slots[j].run, e.run}
          \/ /\ e.kind = "finish" /\ e.job = j /\ jobs'[j] = jobs[j]
             /\ slots'[j].run = slots[j].run /\ slots'[j].runtime = slots[j].runtime
      BY <1>0, <2>0, <2>6, ReceiveMoves
    <3> HIDE DEF e
    <3> QED BY <2>3, <3>2, <3>3, <3>4, <3>5
  <2> QED BY <1>0, <2>0, <2>3, <2>4, <2>5, <2>6, SlotMoves
<1>4. ASSUME NEW x \in Told', Settles(x) PROVE ~InUseNow(x.run)'
  <2>1. CASE x \in Told
    <3>1. PICK r \in RunIds : r = x.run
      BY <1>0, <1>1, <1>4, <2>1 DEF Settles
    <3>2. ~InUseNow(r)
      BY <1>4, <2>1, <3>1 DEF RunsFollowed
    <3>3. pending[r] = NoTicket
      BY <2>1, <3>1 DEF NamesInv, Named
    <3>4. ~InUseNow(r)'
      BY <3>2, <3>3, UseBegins
    <3> QED BY <3>1, <3>4 DEF InUseNow
  <2>2. CASE x \notin Told
    <3>1. NewAnswer(x)
      BY <1>4, <2>2, NewTold DEF Settles, Errand
    <3>2. active'[x.run] = "released"
      BY <1>4, <3>1 DEF Settles, NewAnswer, TookStart, TookFinish, HeldStart, HeldFinish
    <3> QED BY <3>2 DEF InUseNow
  <2> QED BY <2>1, <2>2
<1>5. ASSUME NEW x \in Told', x.kind = "start", x.run # NoRun, ~x.runtime
      PROVE  child'[x.run] = NoTask /\ ~x.ok
  <2>1. CASE x \in Told
    <3>1. PICK r \in RunIds : r = x.run
      BY <1>0, <1>1, <1>5, <2>1
    <3>2. child[r] = NoTask /\ ~x.ok
      BY <1>5, <2>1, <3>1 DEF RunsFollowed
    <3>3. child'[r] = NoTask
      <4> SUFFICES ASSUME child'[r] # NoTask PROVE FALSE
        OBVIOUS
      <4>1. InHand(r)
        BY <3>2, ChildBorn
      <4>2. JobRun[Head(Waiting(r))] = r /\ JobRun[x.job] = r
        BY <1>5, <2>1, <3>1, <4>1 DEF Entries, OwnRuns
      <4>3. /\ Waiting(r) = busy.jobs /\ busy # NoRun /\ Waiting(r) \in Seq(KnownJobs) /\ Waiting(r) # <<>>
            /\ Head(Waiting(r)) \in KnownJobs
        BY <1>0, <4>1, WaitingShape DEF HostShape, InHand
      <4>4. x.job \in KnownJobs
        BY <1>0, <1>1, <1>5, <2>1 DEF Errand
      <4>5. x.job = Head(Waiting(r))
        BY <1>0, <4>2, <4>3, <4>4, RunHostAssumption
      <4>6. x.job \in Held
        BY <4>3, <4>5, SequenceRange DEF Held, HandJobs
      <4>7. x.job \in ErrandJobs(outbox) \union ErrandJobs(events)
        BY <1>5, <2>1 DEF Told, ErrandJobs, Errand
      <4> QED BY <1>0, <4>4, <4>6, <4>7 DEF Once, OnePlace
    <3> QED BY <3>1, <3>2, <3>3
  <2>2. CASE x \notin Told
    <3>1. NewAnswer(x)
      BY <1>5, <2>2, NewTold DEF Errand
    <3> QED BY <1>5, <3>1 DEF NewAnswer, TookStart, TookFinish, HeldStart, HeldFinish
  <2> QED BY <2>1, <2>2
<1>6. ASSUME NEW r \in RunIds, child'[r] # NoTask
      PROVE  \/ InHand(r)'
             \/ \E e \in Told' : e.kind = "start" /\ e.runtime /\ e.run = r
             \/ \E j \in KnownJobs' : slots'[j].run = r /\ slots'[j].runtime
  <2>1. CASE child[r] = NoTask
    BY <1>6, <2>1, ChildBorn
  <2>2. CASE child[r] # NoTask /\ InHand(r)
    <3>1. ~WorkerDies
      BY <2>2 DEF NothingHeld, InHand
    <3> QED BY <1>6, <2>2, <3>1, HandEnds
  <2>3. ASSUME NEW x \in Told, x.kind = "start", x.runtime, x.run = r
        PROVE  \/ \E e \in Told' : e.kind = "start" /\ e.runtime /\ e.run = r
               \/ \E j \in KnownJobs' : slots'[j].run = r /\ slots'[j].runtime
    <3>1. CASE x \in Told'
      BY <2>3, <3>1
    <3>2. CASE x \notin Told'
      <4>1. ~(WorkerDies /\ x \in Range(outbox))
        BY <2>3 DEF NothingHeld, Answers
      <4>2. Receive /\ x = Head(events)
        BY <1>0, <3>2, <4>1, ToldStays
      <4>3. PICK j \in KnownJobs : j = x.job
        BY <1>0, <1>1, <2>3 DEF Errand
      <4>4. slots'[j].run = r /\ slots'[j].runtime
        BY <1>0, <2>3, <4>2, <4>3, ReceiveMoves
      <4> QED BY <1>0, <4>4
    <3> QED BY <3>1, <3>2
  <2>4. ASSUME child[r] # NoTask, NEW j \in KnownJobs, slots[j].run = r, slots[j].runtime
        PROVE  slots'[j].run = r /\ slots'[j].runtime
    <3>1. CASE SlotSame(j)
      BY <2>4, <3>1 DEF SlotSame
    <3>2. ~SendFinish(j) /\ ~Reap(j)
      BY <2>4 DEF SendFinish, Reap
    <3>3. CASE Receive
      <4> DEFINE e == Head(events)
      <4>1. Awaited(e)
        BY <1>r, <3>3
      <4>2. ~(e.kind = "start" /\ e.job = j)
        BY <1>0, <2>4, <4>1 DEF Awaited, AwaitsStart
      <4>3. SlotSame(j) \/ (slots'[j].run = slots[j].run /\ slots'[j].runtime = slots[j].runtime)
        BY <1>0, <3>3, <4>2, ReceiveMoves
      <4> QED BY <2>4, <3>1, <4>3
    <3> QED BY <1>0, <3>1, <3>2, <3>3, SlotMoves
  <2>5. CASE child[r] # NoTask
    <3>1. \/ InHand(r)
          \/ \E e \in Told : e.kind = "start" /\ e.runtime /\ e.run = r
          \/ \E j \in KnownJobs : slots[j].run = r /\ slots[j].runtime
      BY <2>5 DEF RunsFollowed
    <3> QED BY <1>0, <2>2, <2>3, <2>4, <2>5, <3>1
  <2> QED BY <2>1, <2>5
<1> QED BY <1>3, <1>4, <1>5, <1>6 DEF RunsFollowed

\* What the registry has in use stays owed to it: the start in hand hands it to
\* the answer, the answer to the slot, and the slot keeps it until its end is on
\* record.
LEMMA EndsOwedStep ==
    ASSUME HostBase, NamesInv, Once, Entries, OwnRuns, SlotsAwait, RunsFollowed, EndsOwed,
           [RunHostNext]_runHostVars, ~MarkRunsDead, WorkerDies => NothingHeld
    PROVE  EndsOwed'
<1> SUFFICES ASSUME ~LaunchMayDie PROVE launchDead' = FALSE /\ \A r \in RunIds : InUseNow(r)' => Owed(r)'
  BY DEF EndsOwed
<1>0. /\ HostShape /\ NoRun \notin RunIds /\ KnownJobs \subseteq KnownJobs' /\ KnownJobs \subseteq Jobs
      /\ \A e \in GoodEvent : Errand(e) => e.job \in KnownJobs
  BY JobsKnown, RunHostSentinels DEF HostBase, KnownJobs, GoodEvent, Errand
<1>1. Told \subseteq GoodEvent
  BY <1>0, SequenceRange DEF Told, HostShape, WorkerShape
<1>2. ~launchDead /\ launchDead' = FALSE
  <2>1. launchDead = FALSE
    BY DEF EndsOwed, HostBase, HostShape
  <2> QED BY <2>1 DEF HostStarts, RunHostNext, ClientStep, SubmitStart, CancelJob, AskCancel, CloseAll,
       CloseSession, TickStep, Receive, MarkRunsDead, LaunchDies, RetryCancel, ForceAfterGrace, ObserveExit,
       Reap, SendFinish, WorkerLoop, TakeWork, JoinStart, RefuseStart, ReserveStart, BeginFinish, HandleCancel,
       SendEvent, AdvanceStart, CommitStart, FailPreparation, ReportUnspawned, RecordRunning, ReportSpawned,
       CreateProcess, TimeOut, CompleteFinish, WorkerDies, WorkerUnwinds, ProcessesEnd, actorVars, runHostVars
<1>r. Receive => /\ Head(events) \in Told /\ Head(events) \in GoodEvent /\ UNCHANGED active
                 /\ Awaited(Head(events)) /\ \A r : InUseNow(r)' <=> InUseNow(r)
  BY <1>0, HeadTold DEF Receive, vars, registryVars, SlotsAwait, InUseNow
<1>3. ASSUME NEW r \in RunIds, InUseNow(r)' PROVE Owed(r)'
  <2>1. CASE InHand(r)'
    BY <2>1 DEF Owed
  <2>2. CASE InHand(r) /\ ~InHand(r)'
    <3>1. ~WorkerDies
      BY <2>2 DEF NothingHeld, InHand
    <3>2. CASE EndEntry(r) /\ UNCHANGED <<slots, jobs>>
      <4>1. AwaitsEnd(Head(Waiting(r)), r)
        BY <2>2, <3>2 DEF SlotsAwait
      <4>2. Head(Waiting(r)) \in KnownJobs
        BY <1>0, <2>2, WaitingShape DEF HostShape
      <4>3. PICK j \in KnownJobs : slots[j].run = r /\ slots[j].final = "inflight"
        BY <4>1, <4>2 DEF AwaitsEnd
      <4> QED BY <1>0, <3>2, <4>3 DEF Owed
    <3>3. CASE \E x \in Told' : x.kind = "start" /\ x.run = r
      BY <3>3 DEF Owed
    <3> QED BY <1>3, <2>2, <3>1, <3>2, <3>3, HandEnds
  <2>3. ASSUME NEW x \in Told, x.kind = "start", x.run = r, InUseNow(r) PROVE Owed(r)'
    <3>1. CASE x \in Told'
      BY <2>3, <3>1 DEF Owed
    <3>2. CASE x \notin Told'
      <4>1. ~(WorkerDies /\ x \in Range(outbox))
        BY <2>3 DEF NothingHeld, Answers
      <4>2. Receive /\ x = Head(events)
        BY <1>0, <3>2, <4>1, ToldStays
      <4>3. PICK j \in KnownJobs : j = x.job
        BY <1>0, <1>1, <2>3 DEF Errand
      <4>4. slots[j].final = "pending" /\ slots[j].preparing /\ slots[j].run = NoRun
        BY <1>2, <1>r, <2>3, <4>2, <4>3 DEF Awaited, AwaitsStart
      <4>5. ~x.confirmed
        BY <1>0, <2>3 DEF RunsFollowed, Settles
      <4>6. ~x.runtime => ~x.ok
        BY <1>0, <2>3 DEF RunsFollowed
      <4>7. slots'[j].run = r /\ slots'[j].final = "pending"
        <5>1. x.run # NoRun
          BY <1>0, <2>3
        <5>2. \/ x.runtime /\ slots'[j].run = x.run /\ slots'[j].final = slots[j].final
              \/ /\ ~x.runtime
                 /\ \/ x.ok
                    \/ ~slots[j].preparing
                    \/ slots'[j].run = x.run /\ (x.run # NoRun /\ ~x.confirmed => slots'[j].final = "pending")
          BY <1>0, <2>3, <4>2, <4>3, ReceiveMoves
        <5> QED BY <2>3, <4>4, <4>5, <4>6, <5>1, <5>2
      <4> QED BY <1>0, <4>7 DEF Owed
    <3> QED BY <3>1, <3>2
  <2>4. ASSUME NEW j \in KnownJobs, slots[j].run = r, slots[j].final # "done", InUseNow(r) PROVE Owed(r)'
    <3> SUFFICES slots'[j].run = r /\ slots'[j].final # "done"
      BY <1>0 DEF Owed
    <3>1. CASE SlotSame(j)
      BY <2>4, <3>1 DEF SlotSame
    <3>2. CASE SendFinish(j) \/ Reap(j)
      BY <1>0, <2>4, <3>2, OneSlotMoves
    <3>3. CASE Receive
      <4> DEFINE e == Head(events)
      <4>1. Awaited(e) /\ e \in Told
        BY <1>r, <3>3
      <4>2. ~(e.kind = "start" /\ e.job = j)
        BY <1>0, <2>4, <4>1 DEF Awaited, AwaitsStart
      <4>3. CASE SlotSame(j)
        BY <3>1, <4>3
      <4>4. CASE /\ e.kind = "finish" /\ e.job = j /\ slots'[j].run = slots[j].run
                 /\ slots'[j].final = Finalization(e.ok)
        <5>1. e.run = r
          BY <2>4, <4>1, <4>4 DEF Awaited, AwaitsEnd
        <5>2. ~e.ok
          BY <2>4, <4>1, <4>4, <5>1 DEF RunsFollowed, Settles
        <5> QED BY <2>4, <4>4, <5>2 DEF Finalization
      <4>5. SlotSame(j) \/ (/\ e.kind = "finish" /\ e.job = j /\ slots'[j].run = slots[j].run
                            /\ slots'[j].final = Finalization(e.ok))
        BY <1>0, <3>3, <4>2, ReceiveMoves
      <4> QED BY <4>3, <4>4, <4>5
    <3> QED BY <1>0, <3>1, <3>2, <3>3, SlotMoves
  <2>5. CASE InUseNow(r)
    <3>1. Owed(r)
      BY <2>5 DEF EndsOwed
    <3> QED BY <2>1, <2>2, <2>3, <2>4, <2>5, <3>1 DEF Owed
  <2>6. CASE ~InUseNow(r)
    BY <1>3, <2>1, <2>6, UseBegins
  <2> QED BY <2>5, <2>6
<1> QED BY <1>2, <1>3

\* A job that is pending has someone who will answer it, until the actor does.
LEMMA PendingPlacedStep ==
    ASSUME HostBase, Once, Entries, SlotsAwait, RunsFollowed, PendingPlaced, Move,
           [RunHostNext]_runHostVars, ~MarkRunsDead, DieMove => NothingHeld
    PROVE  PendingPlaced'
<1>0. /\ HostShape /\ NoRun \notin RunIds /\ KnownJobs \subseteq Jobs
      /\ \A e \in GoodEvent : Errand(e) => e.job \in KnownJobs
  BY RunHostSentinels DEF HostBase, KnownJobs, GoodEvent, Errand
<1> SUFFICES ASSUME NEW j \in KnownJobs', jobs'[j] = "pending", Nowhere(j)' PROVE FALSE
  BY DEF PendingPlaced, Nowhere
<1>1. j \in KnownJobs
  <2> SUFFICES ASSUME j \notin KnownJobs PROVE FALSE
    OBVIOUS
  <2> DEFINE w == [kind |-> "start", job |-> j, run |-> NoRun]
  <2>1. works \in Seq(GoodWork) /\ SubmitStart(j) /\ j \in Jobs
    <3>1. SubmitStart(j)
      BY <1>0, NewKnown
    <3> QED BY <1>0, <3>1 DEF HostShape, KnownJobs
  <2>2. works' = Append(works, w) /\ works \in Seq(Work) /\ w \in Work
    <3>1. GoodWork \subseteq Work
      BY DEF GoodWork
    <3> QED BY <2>1, <3>1, SeqMonotonic DEF SubmitStart, Send, Work
  <2>3. w.job = j /\ Errand(w)
    BY DEF Errand
  <2> HIDE DEF w
  <2>4. j \in ErrandJobs(works')
    BY <2>2, <2>3, ErrandsAppend
  <2> QED BY <2>4 DEF Nowhere
<1>2. jobs[j] = "pending"
  <2>1. CASE Receive
    BY <1>0, <1>1, <2>1, ReceiveMoves DEF SlotSame
  <2>2. CASE SendFinish(j) \/ Reap(j)
    BY <1>0, <1>1, <2>2, OneSlotMoves
  <2>3. CASE SlotSame(j)
    BY <2>3 DEF SlotSame
  <2> QED BY <1>0, <1>1, <2>1, <2>2, <2>3, SlotMoves
<1>3. ~Nowhere(j) /\ j \in Jobs
  BY <1>0, <1>1, <1>2 DEF PendingPlaced, Nowhere
<1>4. CASE DieMove
  <2>1. NothingHeld /\ UNCHANGED events /\ (j \notin ErrandJobs(events))'
    BY <1>4 DEF DieMove, Nowhere
  <2>2. ErrandJobs(works) = {} /\ Held = {} /\ \A r \in RunIds : Waits(r) = {}
    BY <2>1, ErrandsFew DEF NothingHeld, Held, HandJobs, Waits
  <2>3. ErrandJobs(outbox) = {}
    BY <2>1 DEF NothingHeld, ErrandJobs, Errand, Answers
  <2> QED BY <1>3, <2>1, <2>2, <2>3 DEF Nowhere
<1>5. CASE ReceiveMove /\ Errand(Head(events)) /\ j = Head(events).job
  <2> DEFINE e == Head(events)
  <2>1. events \in Seq(GoodEvent) /\ events # <<>> /\ events' = Tail(events)
    BY <1>0, <1>5 DEF HostShape, ReceiveMove
  <2>2. Receive
    <3>1. events' # events /\ \A x : events' # Append(events, x)
      BY <2>1
    <3> QED BY <3>1 DEF HostStarts, RunHostNext, ClientStep, SubmitStart, CancelJob, AskCancel, CloseAll,
         CloseSession, TickStep, MarkRunsDead, LaunchDies, RetryCancel, ForceAfterGrace, ObserveExit,
         Reap, SendFinish, WorkerLoop, TakeWork, JoinStart, RefuseStart, ReserveStart, BeginFinish, HandleCancel,
         SendEvent, AdvanceStart, CommitStart, FailPreparation, ReportUnspawned, RecordRunning, ReportSpawned,
         CreateProcess, TimeOut, CompleteFinish, WorkerDies, WorkerUnwinds, ProcessesEnd, runHostVars
  <2>3. e \in Told /\ Awaited(e)
    BY <1>0, <2>2, HeadTold DEF SlotsAwait
  <2>4. CASE e.kind = "start"
    <3>1. jobs'[j] = "answered"
      BY <1>0, <1>1, <1>5, <2>2, <2>4, ReceiveMoves
    <3> QED BY <3>1
  <2>5. CASE e.kind = "finish"
    <3>1. slots[j].run # NoRun
      BY <1>0, <1>5, <2>3, <2>5 DEF Awaited, AwaitsEnd
    <3> QED BY <1>1, <1>2, <3>1 DEF RunsFollowed
  <2> QED BY <1>5, <2>4, <2>5 DEF Errand
<1>6. Nowhere(j) \/ DieMove \/ (ReceiveMove /\ Errand(Head(events)) /\ j = Head(events).job)
  <2>1. HostShape /\ Once /\ Entries /\ Move
    BY <1>0
  <2> QED BY <1>3, <2>1, OnceStep
<1> QED BY <1>3, <1>4, <1>5, <1>6

\* At first nobody is owed anything.
LEMMA DutyInvInit == RunHostInit => DutyInv
<1> SUFFICES ASSUME RunHostInit PROVE DutyInv
  OBVIOUS
<1>1. /\ works = <<>> /\ outbox = <<>> /\ events = <<>> /\ busy = NoRun /\ HandJobs = <<>>
      /\ deferred = [r \in RunIds |-> <<>>] /\ \A r \in RunIds : deferred[r] = <<>>
      /\ jobs = [j \in Jobs |-> "none"] /\ outstanding = 0 /\ ~runsDead /\ launchDead = FALSE
  BY DEF RunHostInit, HandJobs
<1>2. /\ registry = "down"
      /\ \A r \in RunIds : /\ pending[r] = NoTicket /\ active[r] = "none" /\ child[r] = NoTask
                           /\ runs[r] = NoRun /\ ledger[r] = NoRun
  BY DEF RunHostInit, RegistryInit
<1>3. /\ Asked = {} /\ Told = {} /\ Held = {} /\ ErrandJobs(works) = {} /\ ErrandJobs(outbox) = {}
      /\ ErrandJobs(events) = {} /\ \A r \in RunIds : Waits(r) = {}
  BY <1>1, ErrandsFew DEF Asked, Told, Held, Waits
<1>4. KnownJobs = {} /\ \A r \in RunIds : ~InHand(r) /\ r \notin Deferred
  BY <1>1 DEF KnownJobs, InHand, Deferred
<1>5. Once
  <2>1. EachApart
    BY <1>1, ErrandsFew DEF EachApart
  <2> QED BY <1>3, <2>1 DEF Once, OnePlace
<1>6. Entries
  <2>1. Deferred = {}
    BY <1>1 DEF Deferred
  <2> QED BY <1>1, <1>2, <1>4, <2>1 DEF Entries
<1>7. Counted
  <2>1. WaitPlaces = {}
    BY <1>1 DEF WaitPlaces
  <2>2. IsFiniteSet(WaitPlaces) /\ Cardinality(WaitPlaces) = 0
    BY <2>1, FS_EmptySet
  <2>3. Cardinality(Answering(outbox)) = 0 /\ Cardinality(Answering(events)) = 0
    BY <1>1, AnsweringOne
  <2>4. Len(works) = 0 /\ Len(HandJobs) = 0
    BY <1>1
  <2>5. Owing = 0
    BY <2>2, <2>3, <2>4 DEF Owing
  <2> QED BY <1>1, <2>2, <2>5 DEF Counted, Whole
<1>8. OwnRuns /\ Ledgered
  BY <1>2, <1>3, <1>4 DEF OwnRuns, Ledgered
<1>9. SlotsAwait
  BY <1>3, <1>4 DEF SlotsAwait
<1>10. RunsFollowed /\ EndsOwed /\ PendingPlaced
  BY <1>1, <1>2, <1>3, <1>4 DEF RunsFollowed, EndsOwed, PendingPlaced, InUseNow
<1> QED BY <1>5, <1>6, <1>7, <1>8, <1>9, <1>10 DEF DutyInv

\* Every step keeps what is owed, and to whom.
LEMMA DutyInvStep ==
    ASSUME HostBase, NamesInv, DutyInv, [RunHostNext]_runHostVars PROVE DutyInv'
<1>1. /\ HostShape /\ Once /\ EachApart /\ Entries /\ Counted /\ OwnRuns /\ Ledgered
      /\ Whole => SlotsAwait /\ RunsFollowed /\ EndsOwed /\ PendingPlaced
  BY DEF DutyInv, Once, HostBase
<1>2. Move
  BY <1>1, Moves
<1>3. Once' /\ Entries' /\ OwnRuns' /\ Ledgered'
  <2>1. Once'
    BY <1>1, <1>2, OnceStep
  <2>2. Entries'
    BY <1>1, <1>2, EntriesStepSound
  <2>3. OwnRuns'
    BY <1>1, OwnRunsStep
  <2>4. Ledgered'
    BY <1>1, LedgeredStep
  <2> QED BY <2>1, <2>2, <2>3, <2>4
<1>4. Counted' /\ (Whole' => Whole /\ (DieMove => NothingHeld))
  BY <1>1, <1>2, CountedStep
<1>5. ASSUME Whole' PROVE SlotsAwait' /\ RunsFollowed' /\ EndsOwed' /\ PendingPlaced'
  <2>1. SlotsAwait /\ RunsFollowed /\ EndsOwed /\ PendingPlaced /\ (DieMove => NothingHeld)
    BY <1>1, <1>4, <1>5
  <2>2. ~MarkRunsDead
    BY <1>5 DEF Whole, MarkRunsDead
  <2>3. WorkerDies => NothingHeld
    BY <2>1 DEF WorkerDies, WorkerEnds, DieMove, actorVars
  <2>4. SlotsAwait'
    BY <1>1, <2>1, <2>2, SlotsAwaitStep
  <2>5. RunsFollowed'
    BY <1>1, <2>1, <2>2, <2>3, RunsFollowedStep
  <2>6. EndsOwed'
    BY <1>1, <2>1, <2>2, <2>3, EndsOwedStep
  <2>7. PendingPlaced'
    BY <1>1, <1>2, <2>1, <2>2, PendingPlacedStep
  <2> QED BY <2>4, <2>5, <2>6, <2>7
<1> QED BY <1>3, <1>4, <1>5 DEF DutyInv

\* What the actor and the worker owe each other is kept account of: every request
\* in one place, every item counted, and, as long as the worker has lost nothing,
\* every slot, answer and entry in step with the rest (Bridge, RunRegistry).
THEOREM HostDuties == RunHostSafety => [](HostBase /\ NamesInv /\ DutyInv)
<1> USE DEF RunHostSafety
<1>1. RunHostInit => HostBase /\ NamesInv /\ DutyInv
  BY HostBaseInit, NamesInvInit, DutyInvInit
<1>2. HostBase /\ NamesInv /\ DutyInv /\ [RunHostNext]_runHostVars => (HostBase /\ NamesInv /\ DutyInv)'
  BY HostBaseStep, NamesInvStep, DutyInvStep
<1> QED BY <1>1, <1>2, PTL
-----------------------------------------------------------------------------
(* What the account gives.                                                 *)

\* Whoever has a request has it in its channel, or waits for it.
LEMMA PlacesKnown ==
    ASSUME HostShape, Entries, NEW j, ~Nowhere(j)
    PROVE  \/ \E i \in DOMAIN works : works[i].job = j
           \/ \E r \in RunIds : \E i \in DOMAIN Waiting(r) : Waiting(r)[i] = j
           \/ \E i \in DOMAIN (outbox \o events) : (outbox \o events)[i].job = j
<1>0. outbox \in Seq(GoodEvent) /\ events \in Seq(GoodEvent) /\ deferred \in [RunIds -> Seq(KnownJobs)]
      /\ busy \in GoodBusy \union {NoRun}
  BY DEF HostShape, WorkerShape
<1>1. CASE j \in ErrandJobs(works)
  BY <1>1 DEF ErrandJobs, Range
<1>2. CASE j \in Held
  <2>1. busy # NoRun /\ busy.run \in RunIds
    <3>1. busy # NoRun
      BY <1>2, ErrandsFew DEF Held, HandJobs
    <3> QED BY <1>0, <3>1 DEF GoodBusy
  <2>2. Waiting(busy.run) = HandJobs
    BY <2>1 DEF Waiting, InHand, HandJobs
  <2> QED BY <1>2, <2>1, <2>2 DEF Held, Range
<1>3. CASE j \in ErrandJobs(outbox)
  <2>1. PICK i \in DOMAIN outbox : outbox[i].job = j
    BY <1>3 DEF ErrandJobs, Range
  <2>2. i \in DOMAIN (outbox \o events) /\ (outbox \o events)[i] = outbox[i]
    BY <1>0, <2>1
  <2> QED BY <2>1, <2>2
<1>4. CASE j \in ErrandJobs(events)
  <2>1. PICK i \in DOMAIN events : events[i].job = j
    BY <1>4 DEF ErrandJobs, Range
  <2>2. Len(outbox) + i \in DOMAIN (outbox \o events) /\ (outbox \o events)[Len(outbox) + i] = events[i]
    BY <1>0, <2>1
  <2> QED BY <2>1, <2>2
<1>5. ASSUME NEW r \in RunIds, j \in Waits(r) PROVE \E i \in DOMAIN Waiting(r) : Waiting(r)[i] = j
  <2>1. deferred[r] # <<>>
    BY <1>5, ErrandsFew DEF Waits
  <2>2. ~InHand(r)
    BY <2>1 DEF Entries, InHand
  <2> QED BY <1>5, <2>2 DEF Waits, Waiting, Range
<1> QED BY <1>1, <1>2, <1>3, <1>4, <1>5 DEF Nowhere

\* A worker that owes nothing has nothing: no start, no answer and no entry.
LEMMA NothingOwed ==
    ASSUME HostShape, Entries, Counted, outstanding = 0, ~runsDead
    PROVE  /\ Whole /\ \A r \in RunIds : ~InHand(r) /\ r \notin Deferred
           /\ \A e \in Told : ~Answers(e)
<1>0. /\ busy \in GoodBusy \union {NoRun} /\ IsFiniteSet(WaitPlaces)
      /\ outbox \in Seq(GoodEvent) /\ events \in Seq(GoodEvent)
  BY DEF HostShape, WorkerShape, Counted
<1>1. /\ Len(works) \in Nat /\ Len(HandJobs) \in Nat /\ Cardinality(WaitPlaces) \in Nat
      /\ Cardinality(Answering(outbox)) \in Nat /\ Cardinality(Answering(events)) \in Nat
      /\ HandJobs \in Seq(KnownJobs) /\ Owing <= 0
  BY <1>0, OwingParts DEF Counted
<1>2. /\ Owing = 0 /\ Len(HandJobs) = 0 /\ Cardinality(WaitPlaces) = 0
      /\ Cardinality(Answering(outbox)) = 0 /\ Cardinality(Answering(events)) = 0
  BY <1>1 DEF Owing
<1>3. busy = NoRun
  <2>1. HandJobs = <<>>
    BY <1>1, <1>2
  <2> QED BY <1>0, <2>1 DEF HandJobs, GoodBusy
<1>4. \A r \in RunIds : deferred[r] = <<>>
  <2>1. WaitPlaces = {}
    BY <1>0, <1>2, FS_EmptySet
  <2>2. ASSUME NEW r \in RunIds PROVE deferred[r] = <<>>
    <3>1. deferred[r] \in Seq(KnownJobs)
      BY DEF HostShape, WorkerShape
    <3>2. DOMAIN deferred[r] = {}
      <4>1. \A i \in DOMAIN deferred[r] : <<r, i>> \in WaitPlaces
        BY DEF WaitPlaces
      <4> QED BY <2>1, <4>1
    <3>3. Len(deferred[r]) = 0
      <4>1. DOMAIN deferred[r] = 1..Len(deferred[r]) /\ Len(deferred[r]) \in Nat
        BY <3>1
      <4>2. 1 \notin 1..Len(deferred[r])
        BY <3>2, <4>1
      <4> QED BY <4>1, <4>2
    <3> QED BY <3>1, <3>3
  <2> QED BY <2>2
<1>5. \A e \in Told : ~Answers(e)
  <2>1. Answering(outbox) = {} /\ Answering(events) = {}
    BY <1>0, <1>2, AnsweringFinite, FS_EmptySet
  <2> QED BY <2>1 DEF Answering, Told, Range
<1> QED BY <1>2, <1>3, <1>4, <1>5 DEF Whole, InHand, Deferred

\* The end of a run is reported when its last process is reaped.
LEMMA EndsAfterReap ==
    ASSUME HostBase, DutyInv PROVE FinishAfterReap
<1> SUFFICES ASSUME NEW i \in DOMAIN works, works[i].kind = "finish" PROVE child[works[i].run] = NoTask
  BY DEF FinishAfterReap
<1>1. works # <<>> /\ works[i] \in Asked
  BY DEF Asked, Range
<1>2. SlotsAwait
  BY <1>1 DEF DutyInv, Entries, Counted
<1> QED BY <1>1, <1>2 DEF SlotsAwait, Awaited, AwaitsEnd

\* While the worker lives, what is in use has someone who will end it.
LEMMA UseOwed ==
    ASSUME HostBase, DutyInv, ~LaunchMayDie PROVE OwedFinish
<1> SUFFICES ASSUME registry = "open", NEW r \in RunIds, InUseNow(r)
             PROVE  \/ InHand(r) \/ InFlight({"start"}, r)
                    \/ \E j \in Owners(r) : slots[j].final # "done"
  BY DEF OwedFinish, InUseNow
<1>1. Owed(r)
  BY DEF DutyInv, Counted, EndsOwed
<1>2. (\E e \in Told : e.kind = "start" /\ e.run = r) => InFlight({"start"}, r)
  BY DEF Told, Range, InFlight
<1>3. \A j \in KnownJobs : slots[j].run = r => j \in Owners(r)
  BY OpenedFine DEF HostBase, HostShape, Owners
<1> QED BY <1>1, <1>2, <1>3 DEF Owed

\* A host that ends with its worker alive has lost nothing of a run.
LEMMA EndLosesNothing ==
    ASSUME HostBase, DutyInv, ~LaunchMayDie PROVE FinishedLosesNothing
<1> SUFFICES ASSUME Finished, ~runsDead, NEW r \in RunIds
             PROVE  /\ pending[r] = NoTicket /\ child[r] = NoTask
                    /\ active[r] \in {"none", "released"}
                    /\ runs[r] # NoRun => ~Live(runs[r]) /\ ledger[r] \in {runs[r], NoRun}
  BY DEF FinishedLosesNothing
<1>1. /\ Whole /\ ~InHand(r) /\ r \notin Deferred /\ \A e \in Told : ~Answers(e)
      /\ HostShape /\ Entries /\ NoRun \notin RunIds
  <2>1. HostShape /\ Entries /\ Counted /\ outstanding = 0
    BY DEF HostBase, DutyInv, Finished
  <2>2. /\ Whole /\ \A q \in RunIds : ~InHand(q) /\ q \notin Deferred
        /\ \A e \in Told : ~Answers(e)
    BY <2>1, NothingOwed
  <2> QED BY <2>1, <2>2, RunHostSentinels
<1>2. \A j \in KnownJobs : slots[j].run = r => ~slots[j].runtime /\ slots[j].final = "done"
  <2>1. KnownJobs = Opened
    BY <1>1, OpenedFine DEF HostShape
  <2> QED BY <1>1, <2>1 DEF Finished
<1>3. \A e \in Told : e.kind # "start"
  BY <1>1 DEF Answers
<1>4. pending[r] = NoTicket
  BY <1>1 DEF Entries
<1>5. child[r] = NoTask
  BY <1>1, <1>2, <1>3 DEF DutyInv, RunsFollowed
<1>6. active[r] \in {"none", "released"}
  <2>1. ~InUseNow(r)
    BY <1>1, <1>2, <1>3 DEF DutyInv, EndsOwed, Owed
  <2>2. active[r] \in ActiveState
    BY DEF HostBase, SafetyInv, RegistryInv, RecordsInv, RecordsTypeOK
  <2> QED BY <2>1, <2>2 DEF InUseNow, ActiveState
<1>7. runs[r] # NoRun => ~Live(runs[r]) /\ ledger[r] \in {runs[r], NoRun}
  BY <1>6 DEF DutyInv, Ledgered, HostBase, SafetyInv, EntriesInv, EntryMatches
<1> QED BY <1>4, <1>5, <1>6, <1>7

\* A run that the worker has in use has someone who will end it, as long as it
\* lives: the worker itself, an answer on its way, or the slot that owes the
\* Finish (run_jobs.rs, "the original owner still owes Finish").
THEOREM TaskOwedFinishHolds == ~LaunchMayDie => (RunHostSafety => []TaskOwedFinish)
<1> SUFFICES ASSUME ~LaunchMayDie PROVE RunHostSafety => []TaskOwedFinish
  OBVIOUS
<1>1. HostBase /\ NamesInv /\ DutyInv => TaskOwedFinish
  BY UseOwed DEF TaskOwedFinish
<1> QED BY <1>1, HostDuties, PTL

\* The count of outstanding work is exact, no pending job is forgotten, and an
\* end is reported only after the last process is reaped, for shells, too
\* (Bridge::submit, Bridge::poll, final_runs).
THEOREM HostAccounts ==
    RunHostSafety => [](OutstandingCounts /\ JobsNotForgotten /\ FinishAfterReap)
<1>1. HostBase /\ NamesInv /\ DutyInv => OutstandingCounts /\ JobsNotForgotten /\ FinishAfterReap
  <2> SUFFICES ASSUME HostBase, DutyInv PROVE OutstandingCounts /\ JobsNotForgotten /\ FinishAfterReap
    OBVIOUS
  <2>1. registry = "open" => Whole /\ PendingPlaced /\ HostShape /\ Entries
    BY DEF DutyInv, Counted, HostBase
  <2>2. OutstandingCounts
    BY <2>1 DEF OutstandingCounts, Whole, Owing
  <2>3. JobsNotForgotten
    <3> SUFFICES ASSUME registry = "open", NEW j \in Jobs, jobs[j] = "pending"
                 PROVE  \/ \E i \in DOMAIN works : works[i].job = j
                        \/ \E r \in RunIds : \E i \in DOMAIN Waiting(r) : Waiting(r)[i] = j
                        \/ \E i \in DOMAIN (outbox \o events) : (outbox \o events)[i].job = j
      BY DEF JobsNotForgotten
    <3>1. ~Nowhere(j)
      BY <2>1 DEF PendingPlaced, Nowhere, KnownJobs
    <3> QED BY <2>1, <3>1, PlacesKnown
  <2> QED BY <2>2, <2>3, EndsAfterReap
<1> QED BY <1>1, HostDuties, PTL

\* The actor and the worker agree on the jobs under way, and a host that ends
\* leaves nothing of a run behind (Actor::finished).
THEOREM HostBookkeepingHolds == ~LaunchMayDie => (RunHostSafety => []HostBookkeeping)
<1> SUFFICES ASSUME ~LaunchMayDie PROVE RunHostSafety => []HostBookkeeping
  OBVIOUS
<1>1. HostBase /\ NamesInv /\ DutyInv => FinishedLosesNothing
  BY EndLosesNothing
<1>2. (OutstandingCounts /\ JobsNotForgotten /\ FinishAfterReap) /\ FinishedLosesNothing => HostBookkeeping
  BY DEF HostBookkeeping, TaskFinishedLosesNothing
<1> QED BY <1>1, <1>2, HostDuties, HostAccounts, PTL
=============================================================================
