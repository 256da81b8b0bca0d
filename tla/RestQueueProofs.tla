-------------------------- MODULE RestQueueProofs --------------------------
(***************************************************************************)
(* What the REST queues promise, for any number of requests, endpoints,    *)
(* queues and posting threads.                                             *)
(*                                                                         *)
(* VectorSound holds whatever the threads do: VectorInv says where each    *)
(* posted request is and that every vector is sorted and has no element    *)
(* twice.  That a request is run once needs LoopInv, and that the event    *)
(* loop's thread is the only one that posts (Users = {}): its snapshot is  *)
(* then a part of requests_in that nobody else runs, and a request is in   *)
(* one stage of its life, waiting, in flight, with a job or called back.   *)
(***************************************************************************)
EXTENDS RestQueue, SequenceTheorems, FiniteSetTheorems, WellFoundedInduction, TLAPS

-----------------------------------------------------------------------------
(* Vectors.                                                                *)

\* Every set of numbers that is not empty has a least element.
LEMMA LeastNumber ==
    ASSUME NEW T, T \subseteq Nat, T # {}
    PROVE  \E x \in T : \A y \in T : x <= y
<1>1. PICK x \in T : \A y \in T : ~ (<<y, x>> \in OpToRel(<, Nat))
  BY NatLessThanWellFounded, WFMin
<1>2. \A y \in T : ~ (y < x)
  BY <1>1 DEF OpToRel
<1>3. \A y \in T : x <= y
  BY <1>2
<1> QED BY <1>3

\* vector::insert
LEMMA InsertFacts ==
    ASSUME NEW S, NEW s \in Seq(S), NEW e \in S, NEW i \in 1..(Len(s) + 1)
    PROVE  LET z == InsertAt(s, i, e)
           IN  /\ z \in Seq(S) /\ Len(z) = Len(s) + 1
               /\ \A k \in 1..(i - 1) : z[k] = s[k]
               /\ z[i] = e
               /\ \A k \in (i + 1)..(Len(s) + 1) : z[k] = s[k - 1]
<1> DEFINE a == SubSeq(s, 1, i - 1)
           m == <<e>>
           c == SubSeq(s, i, Len(s))
<1>1. Len(s) \in Nat
  BY LenProperties
<1>2. a \in Seq(S) /\ Len(a) = i - 1 /\ \A k \in 1..(i - 1) : a[k] = s[k]
  BY <1>1
<1>3. m \in Seq(S) /\ Len(m) = 1 /\ m[1] = e
  OBVIOUS
<1>4. c \in Seq(S) /\ Len(c) = Len(s) - i + 1 /\ \A k \in 1..(Len(s) - i + 1) : c[k] = s[i + k - 1]
  BY <1>1
<1> HIDE DEF a, m, c
<1>5. /\ a \o m \in Seq(S) /\ Len(a \o m) = i
      /\ \A k \in 1..i : (a \o m)[k] = IF k < i THEN s[k] ELSE e
  <2>1. /\ a \o m \in Seq(S) /\ Len(a \o m) = Len(a) + Len(m)
        /\ \A k \in 1..(Len(a) + Len(m)) :
              (a \o m)[k] = IF k <= Len(a) THEN a[k] ELSE m[k - Len(a)]
    BY <1>2, <1>3, ConcatProperties, Zenon
  <2> QED BY <1>1, <1>2, <1>3, <2>1
<1> DEFINE b == a \o m
<1> HIDE DEF b
<1>6. /\ b \o c \in Seq(S) /\ Len(b \o c) = Len(s) + 1
      /\ \A k \in 1..(Len(s) + 1) :
            (b \o c)[k] = IF k < i THEN s[k] ELSE IF k = i THEN e ELSE s[k - 1]
  <2>1. /\ b \in Seq(S) /\ Len(b) = i
        /\ \A k \in 1..i : b[k] = IF k < i THEN s[k] ELSE e
    BY <1>5 DEF b
  <2>2. /\ b \o c \in Seq(S) /\ Len(b \o c) = Len(b) + Len(c)
        /\ \A k \in 1..(Len(b) + Len(c)) :
              (b \o c)[k] = IF k <= Len(b) THEN b[k] ELSE c[k - Len(b)]
    BY <1>4, <2>1, ConcatProperties, Zenon
  <2> QED BY <1>1, <1>4, <2>1, <2>2
<1>7. InsertAt(s, i, e) = b \o c
  BY DEF InsertAt, a, b, c, m
<1> QED BY <1>1, <1>6, <1>7

\* vector::erase
LEMMA EraseFacts ==
    ASSUME NEW S, NEW s \in Seq(S), NEW i \in 1..Len(s)
    PROVE  LET z == RemoveAt(s, i)
           IN  /\ z \in Seq(S) /\ Len(z) = Len(s) - 1
               /\ \A k \in 1..Len(z) : z[k] = IF k < i THEN s[k] ELSE s[k + 1]
<1> DEFINE a == SubSeq(s, 1, i - 1)
           c == SubSeq(s, i + 1, Len(s))
<1>1. Len(s) \in Nat
  BY LenProperties
<1>2. a \in Seq(S) /\ Len(a) = i - 1 /\ \A k \in 1..(i - 1) : a[k] = s[k]
  BY <1>1
<1>3. c \in Seq(S) /\ Len(c) = Len(s) - i /\ \A k \in 1..(Len(s) - i) : c[k] = s[i + k]
  BY <1>1
<1> HIDE DEF a, c
<1>4. /\ a \o c \in Seq(S) /\ Len(a \o c) = Len(s) - 1
      /\ \A k \in 1..(Len(s) - 1) : (a \o c)[k] = IF k < i THEN s[k] ELSE s[k + 1]
  <2>1. /\ a \o c \in Seq(S) /\ Len(a \o c) = Len(a) + Len(c)
        /\ \A k \in 1..(Len(a) + Len(c)) :
              (a \o c)[k] = IF k <= Len(a) THEN a[k] ELSE c[k - Len(a)]
    BY <1>2, <1>3, ConcatProperties, Zenon
  <2>2. ASSUME NEW k \in 1..(Len(s) - 1), k >= i
        PROVE  (a \o c)[k] = s[k + 1]
    <3>1. k - Len(a) \in 1..(Len(s) - i) /\ i + (k - Len(a)) = k + 1 /\ ~ (k <= Len(a))
      BY <1>1, <1>2, <2>2
    <3>2. k \in 1..(Len(a) + Len(c))
      BY <1>1, <1>2, <1>3
    <3> QED BY <1>3, <2>1, <3>1, <3>2
  <2>3. ASSUME NEW k \in 1..(Len(s) - 1), k < i
        PROVE  (a \o c)[k] = s[k]
    BY <1>1, <1>2, <1>3, <2>1, <2>3
  <2> QED BY <1>1, <1>2, <1>3, <2>1, <2>2, <2>3
<1> QED BY <1>4 DEF RemoveAt, a, c

\* std::lower_bound finds a place to insert at.
LEMMA LowerBoundFacts ==
    ASSUME NEW s \in Seq(Requests), NEW e \in Nat, \A r \in Requests : endpoint[r] \in Nat
    PROVE  /\ LowerBound(s, e) \in 1..(Len(s) + 1)
           /\ \A j \in 1..(LowerBound(s, e) - 1) : endpoint[s[j]] < e
           /\ LowerBound(s, e) <= Len(s) => endpoint[s[LowerBound(s, e)]] >= e
<1> DEFINE T == {i \in 1..(Len(s) + 1) : i <= Len(s) => endpoint[s[i]] >= e}
<1>1. Len(s) \in Nat /\ \A i \in 1..Len(s) : endpoint[s[i]] \in Nat
  BY LenProperties, ElementOfSeq
<1>2. T \subseteq Nat /\ Len(s) + 1 \in T
  BY <1>1
<1>3. PICK i \in T : \A j \in T : i <= j
  BY <1>2, LeastNumber
<1>4. \A j \in 1..(i - 1) : endpoint[s[j]] < e
  BY <1>1, <1>3
<1>5. \E k \in 1..(Len(s) + 1) : /\ \A j \in 1..(k - 1) : endpoint[s[j]] < e
                                 /\ k <= Len(s) => endpoint[s[k]] >= e
  BY <1>3, <1>4
<1> QED BY <1>5 DEF LowerBound

-----------------------------------------------------------------------------
(* Types.                                                                  *)

TypeInv ==
    /\ TypeOK
    /\ \A t \in Threads : pc[t] \in {"send", "run", "remove"} => requests_view[t] # <<>>
    /\ \A r \in inflight : runs[r] >= 1

\* Endpoints are compared as numbers, posted or not.
LEMMA EndpointNumbers ==
    ASSUME TypeOK
    PROVE  \A r \in Requests : endpoint[r] \in Nat
<1>1. Endpoints \union {NotPosted} \subseteq Nat
  BY RestQueueAssumption DEF NotPosted
<1>2. \A r \in Requests : endpoint[r] \in Endpoints \union {NotPosted}
  BY DEF TypeOK
<1> QED BY <1>1, <1>2

\* AfterErase returns a vector, whatever it is given.
LEMMA EraseType ==
    ASSUME NEW s \in Seq(Requests), NEW r
    PROVE  AfterErase(s, r) \in Seq(Requests)
<1>1. CASE r \in ToSet(s)
  <2>1. (CHOOSE i \in 1..Len(s) : s[i] = r) \in 1..Len(s)
    BY <1>1 DEF ToSet
  <2> QED BY <1>1, <2>1, EraseFacts DEF AfterErase
<1>2. CASE r \notin ToSet(s)
  BY <1>2 DEF AfterErase
<1> QED BY <1>1, <1>2

LEMMA TypeStep ==
    ASSUME TypeInv, [Next]_vars
    PROVE  TypeInv'
<1> USE RestQueueAssumption DEF TypeInv, TypeOK
<1>1. CASE Second
  <2>1. clock' \in 0..(PurgePeriod - 1)
    BY <1>1 DEF Second
  <2>2. globally_limited_until' \in 0..(MaxWait + 1)
    BY <1>1 DEF Second, Minus1
  <2>3. ASSUME NEW e \in Endpoints
        PROVE  [buckets[e] EXCEPT !.left = Minus1(@)] \in Bucket
    <3>1. buckets[e] \in Bucket
      OBVIOUS
    <3>2. Minus1(buckets[e].left) \in 0..(MaxWait + 1)
      BY <3>1 DEF Bucket, Minus1
    <3> HIDE DEF TypeInv, TypeOK
    <3> QED BY <3>1, <3>2, Zenon DEF Bucket
  <2>4. buckets' \in [Endpoints -> Bucket]
    BY <1>1, <2>3 DEF Second
  <2>5. due' \in [Queues -> Nat]
    BY <1>1 DEF Second
  <2>6. UNCHANGED <<requests_in, removals, globally_ratelimited, terminating, pc, queue,
                    requests_view, in_timer, inflight, jobs, captured, completed, freed,
                    endpoint, runs, called>>
    BY <1>1 DEF Second, tickVars, jobVars, histVars
  <2> QED BY <2>1, <2>2, <2>4, <2>5, <2>6
<1>2. ASSUME NEW t \in Threads, NEW r \in Requests, NEW e \in Endpoints, PostRequest(t, r, e)
      PROVE  TypeInv'
  <2>1. requests_in' \in [Queues -> Seq(Requests)]
    <3> DEFINE s == requests_in[QueueOf(e)]
    <3>1. s \in Seq(Requests) /\ e \in Nat
      OBVIOUS
    <3>2. \A x \in Requests : endpoint[x] \in Nat
      BY EndpointNumbers DEF TypeInv
    <3>3. InsertAt(s, LowerBound(s, e), r) \in Seq(Requests)
      BY <3>1, <3>2, LowerBoundFacts, InsertFacts
    <3> QED BY <1>2, <3>3 DEF PostRequest
  <2> QED BY <1>2, <2>1 DEF PostRequest, timeVars, limitVars, jobVars
<1>3. ASSUME NEW q \in Queues, TimerTick(q)
      PROVE  TypeInv'
  BY <1>3 DEF TimerTick, limitVars, jobVars, histVars, Threads
<1>4. ASSUME NEW t \in Threads, Gather(t)
      PROVE  TypeInv'
  <2>1. /\ pc' \in [Threads -> {"idle", "gather", "send", "run", "remove", "purge"}]
        /\ requests_view' \in [Threads -> Seq(Requests)]
        /\ \A u \in Threads : pc'[u] \in {"send", "run", "remove"} => requests_view'[u] # <<>>
    BY <1>4 DEF Gather, Returned
  <2>2. globally_ratelimited' \in BOOLEAN
    BY <1>4 DEF Gather
  <2> QED BY <1>4, <2>1, <2>2 DEF Gather, timeVars, jobVars, histVars
<1>5. ASSUME NEW t \in Threads, SendRequest(t)
      PROVE  TypeInv'
  <2>1. runs' \in [Requests -> Nat] /\ inflight' \subseteq Requests
        /\ \A r \in inflight' : runs'[r] >= 1
    <3> DEFINE r == Head(requests_view[t])
    <3>1. r \in Requests
      BY <1>5 DEF SendRequest
    <3>2. runs' = [runs EXCEPT ![r] = @ + 1] /\ inflight' \subseteq inflight \union {r}
      BY <1>5 DEF SendRequest, Run
    <3> HIDE DEF r
    <3> QED BY <3>1, <3>2
  <2>2. /\ pc' = [pc EXCEPT ![t] = "remove"] /\ pc[t] = "run"
        /\ UNCHANGED <<clock, due, requests_in, removals, buckets, globally_ratelimited,
                       globally_limited_until, terminating, queue, requests_view, in_timer,
                       jobs, captured, completed, freed, endpoint, called>>
    BY <1>5 DEF SendRequest, timeVars, limitVars
  <2> QED BY <2>1, <2>2
<1>6. ASSUME NEW t \in Threads, PassBucket(t) \/ HoldBack(t)
      PROVE  TypeInv'
  <2>1. UNCHANGED <<clock, due, requests_in, removals, buckets, globally_ratelimited,
                    globally_limited_until, terminating, queue, in_timer, inflight, jobs,
                    captured, completed, freed, endpoint, runs, called>>
    BY <1>6 DEF PassBucket, HoldBack, timeVars, limitVars, jobVars, histVars
  <2>2. CASE PassBucket(t)
    BY <2>1, <2>2 DEF PassBucket
  <2>3. CASE HoldBack(t)
    BY <2>1, <2>3 DEF HoldBack, Returned
  <2> QED BY <1>6, <2>2, <2>3
<1>7. ASSUME NEW t \in Threads, RemoveRequest(t)
      PROVE  TypeInv'
  <2>1. queue[t] \in Queues /\ requests_view[t] \in Seq(Requests) /\ requests_view[t] # <<>>
    BY <1>7 DEF RemoveRequest
  <2>2. Head(requests_view[t]) \in Requests /\ Tail(requests_view[t]) \in Seq(Requests)
    BY <2>1
  <2>3. requests_in' \in [Queues -> Seq(Requests)]
    BY <1>7, <2>1, EraseType DEF RemoveRequest
  <2>4. removals' \in [Queues -> SUBSET Requests]
    BY <1>7, <2>1, <2>2 DEF RemoveRequest
  <2>5. /\ requests_view' \in [Threads -> Seq(Requests)]
        /\ pc' \in [Threads -> {"idle", "gather", "send", "run", "remove", "purge"}]
        /\ \A u \in Threads : pc'[u] \in {"send", "run", "remove"} => requests_view'[u] # <<>>
    BY <1>7, <2>1, <2>2 DEF RemoveRequest, Returned
  <2> QED BY <1>7, <2>3, <2>4, <2>5 DEF RemoveRequest, timeVars, limitVars, jobVars, histVars
<1>8. CASE Purge
  BY <1>8 DEF Purge, Purged, timeVars, limitVars, jobVars, histVars, Threads
<1>9. ASSUME NEW r \in Requests, AnyReply(r)
      PROVE  TypeInv'
  <2>1. PICK m \in 0..MaxRemaining, w \in 0..MaxWait, g \in BOOLEAN : Reply(r, m, w, g)
    BY <1>9 DEF AnyReply
  <2>2. NewBucket(m, w) \in Bucket
    BY DEF NewBucket, Bucket
  <2>3. buckets' \in [Endpoints -> Bucket]
    BY <2>1, <2>2 DEF Reply
  <2>4. /\ runs[r] \in Nat \ {0} /\ inflight' = inflight \ {r}
        /\ jobs' = jobs \union {[request |-> r, nth |-> runs[r], at |-> "queued"]}
    BY <2>1 DEF Reply
  <2>5. jobs' \subseteq Job
    BY <2>4 DEF Job
  <2>6. ~ globally_ratelimited' /\ globally_ratelimited' \in BOOLEAN
        /\ globally_limited_until' = globally_limited_until
    BY <2>1 DEF Reply, Limited
  <2> HIDE DEF Job, Bucket
  <2> QED BY <2>1, <2>3, <2>4, <2>5, <2>6 DEF Reply, timeVars, tickVars
<1>10. ASSUME NEW j \in jobs, JobStep(j)
       PROVE  TypeInv'
  <2>1. j \in Job /\ j.request \in Requests
    BY DEF Job
  <2>2. \A w \in {"called", "notify"} : [j EXCEPT !.at = w] \in Job
    BY <2>1 DEF Job
  <2>3. jobs' \subseteq Job /\ captured' \subseteq Requests
    <3>1. CASE CallBack(j)
      BY <2>1, <2>2, <3>1 DEF CallBack
    <3>2. CASE Release(j)
      BY <2>1, <2>2, <3>2 DEF Release
    <3>3. CASE Notify(j)
      BY <3>3 DEF Notify
    <3> QED BY <1>10, <3>1, <3>2, <3>3 DEF JobStep
  <2>4. called' \in [Requests -> Nat] /\ completed' \subseteq Requests
    <3>1. CASE CallBack(j)
      BY <2>1, <3>1 DEF CallBack
    <3>2. CASE Release(j) \/ Notify(j)
      BY <3>2 DEF Release, Notify, histVars
    <3> QED BY <1>10, <3>1, <3>2 DEF JobStep
  <2> QED BY <1>10, <2>3, <2>4
       DEF JobStep, CallBack, Release, Notify, timeVars, limitVars, tickVars, histVars
<1>11. CASE Terminate
  BY <1>11 DEF Terminate, timeVars, limitVars, tickVars, jobVars, histVars
<1>12. CASE UNCHANGED vars
  BY <1>12 DEF vars, timeVars, limitVars, tickVars, jobVars, histVars
<1> QED BY <1>1, <1>2, <1>3, <1>4, <1>5, <1>6, <1>7, <1>8, <1>9, <1>10, <1>11, <1>12
     DEF Next, TickStep

-----------------------------------------------------------------------------
(* Owned exactly once.                                                     *)

Posted(r) == endpoint[r] # NotPosted
In(s, r) == \E i \in 1..Len(s) : s[i] = r
NoDup(s) == \A i, j \in 1..Len(s) : s[i] = s[j] => i = j
Sorted(s) == \A i, j \in 1..Len(s) : i < j => endpoint[s[i]] <= endpoint[s[j]]

\* Whoever owns a request is its endpoint's queue, in one place of it, and has
\* not freed it.
HomeInv ==
    \A q \in Queues, r \in Requests :
        In(requests_in[q], r) \/ r \in removals[q] =>
            /\ Posted(r) /\ QueueOf(endpoint[r]) = q
            /\ r \notin freed
            /\ ~ (In(requests_in[q], r) /\ r \in removals[q])

\* No request is lost.
KeptInv ==
    \A r \in Requests :
        /\ r \in freed => Posted(r)
        /\ Posted(r) => \/ r \in freed
                        \/ r \in removals[QueueOf(endpoint[r])]
                        \/ In(requests_in[QueueOf(endpoint[r])], r)

OrderInv == \A q \in Queues : NoDup(requests_in[q]) /\ Sorted(requests_in[q])

VectorInv == HomeInv /\ KeptInv /\ OrderInv

\* An element put at its lower bound: nothing else changes, no element appears
\* twice, and the order is kept, also by the endpoint of the new element.
LEMMA InsertKeeps ==
    ASSUME NEW s \in Seq(Requests), NEW r \in Requests, NEW e \in Nat,
           \A x \in Requests : endpoint[x] \in Nat,
           NEW ep, ep[r] = e, \A x \in Requests \ {r} : ep[x] = endpoint[x],
           ~ In(s, r), NoDup(s), Sorted(s),
           NEW z, z = InsertAt(s, LowerBound(s, e), r)
    PROVE  /\ z \in Seq(Requests)
           /\ \A x : In(z, x) <=> In(s, x) \/ x = r
           /\ NoDup(z)
           /\ \A j, k \in 1..Len(z) : j < k => ep[z[j]] <= ep[z[k]]
<1> DEFINE i == LowerBound(s, e)
<1>1. /\ i \in 1..(Len(s) + 1) /\ Len(s) \in Nat
      /\ \A j \in 1..(i - 1) : endpoint[s[j]] < e
      /\ i <= Len(s) => endpoint[s[i]] >= e
  BY LowerBoundFacts, LenProperties
<1> HIDE DEF i
<1>2. /\ z \in Seq(Requests) /\ Len(z) = Len(s) + 1
      /\ \A k \in 1..(i - 1) : z[k] = s[k]
      /\ z[i] = r
      /\ \A k \in (i + 1)..(Len(s) + 1) : z[k] = s[k - 1]
  <2>1. z = InsertAt(s, i, r)
    BY DEF i
  <2>2. /\ InsertAt(s, i, r) \in Seq(Requests) /\ Len(InsertAt(s, i, r)) = Len(s) + 1
        /\ \A k \in 1..(i - 1) : InsertAt(s, i, r)[k] = s[k]
        /\ InsertAt(s, i, r)[i] = r
        /\ \A k \in (i + 1)..(Len(s) + 1) : InsertAt(s, i, r)[k] = s[k - 1]
    BY <1>1, InsertFacts
  <2> QED BY <2>1, <2>2, Zenon
<1>3. /\ \A k \in 1..(i - 1) : z[k] = s[k] /\ k \in 1..Len(s)
      /\ z[i] = r /\ i \in 1..Len(z)
      /\ \A k \in (i + 1)..Len(z) : z[k] = s[k - 1] /\ k - 1 \in 1..Len(s)
  BY <1>1, <1>2
<1>4. Len(z) \in Nat /\ Len(z) = Len(s) + 1 /\ i \in Nat
  BY <1>1, <1>2
<1>5. \A k \in 1..Len(s) : s[k] \in Requests /\ s[k] # r
  BY ElementOfSeq DEF In
<1>6. ASSUME NEW x PROVE In(z, x) <=> In(s, x) \/ x = r
  <2>1. ASSUME In(z, x) PROVE In(s, x) \/ x = r
    <3>1. PICK k \in 1..Len(z) : z[k] = x
      BY <2>1 DEF In
    <3>2. k \in 1..(i - 1) \/ k = i \/ k \in (i + 1)..Len(z)
      BY <1>4
    <3> QED BY <1>3, <3>1, <3>2 DEF In
  <2>2. ASSUME In(s, x) PROVE In(z, x)
    <3>1. PICK k \in 1..Len(s) : s[k] = x
      BY <2>2 DEF In
    <3>2. CASE k < i
      <4>1. k \in 1..(i - 1) /\ k \in 1..Len(z)
        BY <1>4, <3>2, <1>1
      <4> QED BY <1>3, <3>1, <4>1 DEF In
    <3>3. CASE k >= i
      <4>1. k + 1 \in (i + 1)..Len(z) /\ (k + 1) - 1 = k /\ k + 1 \in 1..Len(z)
        BY <1>4, <3>3, <1>1
      <4>2. z[k + 1] = s[k]
        BY <1>3, <4>1
      <4> QED BY <3>1, <4>1, <4>2 DEF In
    <3> QED BY <1>4, <1>1, <3>2, <3>3
  <2> QED BY <1>3, <2>1, <2>2 DEF In
<1>7. NoDup(z)
  <2>1. ASSUME NEW j \in 1..Len(z), NEW k \in 1..Len(z), j < k, z[j] = z[k]
        PROVE  FALSE
    <3>1. CASE k \in 1..(i - 1)
      <4>1. j \in 1..(i - 1) /\ s[j] = s[k] /\ j \in 1..Len(s) /\ k \in 1..Len(s)
        BY <1>3, <1>4, <2>1, <3>1
      <4> QED BY <2>1, <4>1 DEF NoDup
    <3>2. CASE k = i
      <4>1. j \in 1..(i - 1) /\ s[j] = r /\ j \in 1..Len(s)
        BY <1>3, <1>4, <2>1, <3>2
      <4> QED BY <1>5, <4>1
    <3>3. CASE k \in (i + 1)..Len(z)
      <4>1. z[k] = s[k - 1] /\ k - 1 \in 1..Len(s)
        BY <1>3, <3>3
      <4>2. CASE j = i
        BY <1>5, <1>3, <2>1, <4>1, <4>2
      <4>3. CASE j \in 1..(i - 1)
        <5>1. s[j] = s[k - 1] /\ j \in 1..Len(s) /\ j # k - 1
          BY <1>3, <1>4, <2>1, <3>3, <4>1, <4>3
        <5> QED BY <4>1, <5>1 DEF NoDup
      <4>4. CASE j \in (i + 1)..Len(z)
        <5>1. s[j - 1] = s[k - 1] /\ j - 1 \in 1..Len(s) /\ j - 1 # k - 1
          BY <1>3, <1>4, <2>1, <4>1, <4>4
        <5> QED BY <4>1, <5>1 DEF NoDup
      <4> QED BY <1>4, <4>2, <4>3, <4>4
    <3> QED BY <1>4, <3>1, <3>2, <3>3
  <2>2. ASSUME NEW j \in 1..Len(z), NEW k \in 1..Len(z), z[j] = z[k], j # k
        PROVE  FALSE
    <3>1. j < k \/ k < j
      BY <1>4, <2>2
    <3> QED BY <2>1, <2>2, <3>1
  <2> QED BY <2>2 DEF NoDup
<1>8. \A j, k \in 1..Len(z) : j < k => ep[z[j]] <= ep[z[k]]
  <2> SUFFICES ASSUME NEW j \in 1..Len(z), NEW k \in 1..Len(z), j < k
               PROVE  ep[z[j]] <= ep[z[k]]
    OBVIOUS
  <2>1. ep[r] = e /\ \A x \in Requests \ {r} : ep[x] = endpoint[x]
    OBVIOUS
  <2>2. \A m \in 1..Len(s) : ep[s[m]] = endpoint[s[m]] /\ endpoint[s[m]] \in Nat
    BY <1>5, <2>1
  <2>3. CASE k \in 1..(i - 1)
    <3>1. j \in 1..(i - 1) /\ z[j] = s[j] /\ z[k] = s[k] /\ j \in 1..Len(s) /\ k \in 1..Len(s)
      BY <1>3, <1>4, <2>3
    <3> QED BY <2>2, <3>1 DEF Sorted
  <2>4. CASE k = i
    <3>1. j \in 1..(i - 1) /\ z[j] = s[j] /\ j \in 1..Len(s) /\ z[k] = r
      BY <1>3, <1>4, <2>4
    <3>2. endpoint[s[j]] < e
      BY <1>1, <3>1
    <3> QED BY <2>1, <2>2, <3>1, <3>2
  <2>5. CASE k \in (i + 1)..Len(z)
    <3>1. k - 1 \in 1..Len(s) /\ z[k] = s[k - 1] /\ i \in 1..Len(s) /\ i <= k - 1
      BY <1>3, <1>4, <2>5
    <3>2. CASE j \in 1..(i - 1)
      <4>1. z[j] = s[j] /\ j \in 1..Len(s) /\ j < k - 1
        BY <1>3, <1>4, <3>1, <3>2
      <4> QED BY <2>2, <3>1, <4>1 DEF Sorted
    <3>3. CASE j = i
      <4>1. endpoint[s[i]] >= e
        BY <1>1, <1>4, <3>1
      <4>2. endpoint[s[i]] <= endpoint[s[k - 1]]
        <5>1. CASE i = k - 1
          BY <2>2, <3>1, <5>1
        <5>2. CASE i < k - 1
          BY <3>1, <5>2 DEF Sorted
        <5> QED BY <1>4, <3>1, <5>1, <5>2
      <4>3. ep[z[j]] = e /\ ep[z[k]] = endpoint[s[k - 1]]
        BY <1>3, <2>1, <2>2, <3>1, <3>3
      <4>4. endpoint[s[i]] \in Nat /\ endpoint[s[k - 1]] \in Nat
        BY <2>2, <3>1
      <4> QED BY <4>1, <4>2, <4>3, <4>4
    <3>4. CASE j \in (i + 1)..Len(z)
      <4>1. z[j] = s[j - 1] /\ j - 1 \in 1..Len(s) /\ j - 1 < k - 1
        BY <1>3, <1>4, <3>4
      <4> QED BY <2>2, <3>1, <4>1 DEF Sorted
    <3> QED BY <1>4, <3>2, <3>3, <3>4
  <2> QED BY <1>4, <2>3, <2>4, <2>5
<1> QED BY <1>2, <1>6, <1>7, <1>8

\* An element erased: nothing else changes.
LEMMA EraseKeeps ==
    ASSUME NEW s \in Seq(Requests), NEW r, NoDup(s), Sorted(s),
           NEW z, z = AfterErase(s, r)
    PROVE  /\ \A x : In(z, x) <=> In(s, x) /\ x # r
           /\ NoDup(z)
           /\ Sorted(z)
<1>1. CASE ~ In(s, r)
  <2>1. z = s
    BY <1>1 DEF AfterErase, ToSet, In
  <2> QED BY <1>1, <2>1
<1>2. CASE In(s, r)
  <2> DEFINE i == CHOOSE k \in 1..Len(s) : s[k] = r
  <2>1. i \in 1..Len(s) /\ s[i] = r /\ Len(s) \in Nat /\ z = RemoveAt(s, i)
    BY <1>2 DEF AfterErase, ToSet, In
  <2> HIDE DEF i
  <2>2. /\ Len(z) = Len(s) - 1
        /\ \A k \in 1..Len(z) : z[k] = IF k < i THEN s[k] ELSE s[k + 1]
    BY <2>1, EraseFacts, Zenon
  <2>3. ASSUME NEW x PROVE In(z, x) <=> In(s, x) /\ x # r
    <3>1. ASSUME In(z, x) PROVE In(s, x) /\ x # r
      <4>1. PICK k \in 1..Len(z) : z[k] = x
        BY <3>1 DEF In
      <4>2. CASE k < i
        BY <2>1, <2>2, <4>1, <4>2 DEF In, NoDup
      <4>3. CASE k >= i
        BY <2>1, <2>2, <4>1, <4>3 DEF In, NoDup
      <4> QED BY <2>1, <2>2, <4>2, <4>3
    <3>2. ASSUME In(s, x), x # r PROVE In(z, x)
      <4>1. PICK k \in 1..Len(s) : s[k] = x
        BY <3>2 DEF In
      <4>2. CASE k < i
        BY <2>1, <2>2, <4>1, <4>2 DEF In
      <4>3. CASE k > i
        <5>1. k - 1 \in 1..Len(z) /\ z[k - 1] = s[k]
          BY <2>1, <2>2, <4>3
        <5> QED BY <4>1, <5>1 DEF In
      <4> QED BY <2>1, <3>2, <4>1, <4>2, <4>3
    <3> QED BY <3>1, <3>2
  <2>4. NoDup(z)
    BY <2>1, <2>2 DEF NoDup
  <2>5. Sorted(z)
    BY <2>1, <2>2 DEF Sorted
  <2> QED BY <2>3, <2>4, <2>5
<1> QED BY <1>1, <1>2

LEMMA VectorStep ==
    ASSUME TypeInv, VectorInv, [Next]_vars
    PROVE  VectorInv'
<1> USE DEF VectorInv
<1>1. CASE UNCHANGED <<requests_in, removals, freed, endpoint>>
  BY <1>1 DEF HomeInv, KeptInv, OrderInv, Posted, Sorted
<1>2. ASSUME NEW t \in Threads, NEW r \in Requests, NEW e \in Endpoints, PostRequest(t, r, e)
      PROVE  VectorInv'
  <2> DEFINE q0 == QueueOf(e)
             z == InsertAt(requests_in[q0], LowerBound(requests_in[q0], e), r)
  <2>1. /\ q0 \in Queues /\ e \in Nat /\ e # NotPosted /\ ~ Posted(r)
        /\ requests_in' = [requests_in EXCEPT ![q0] = z]
        /\ endpoint' = [endpoint EXCEPT ![r] = e]
        /\ UNCHANGED <<removals, freed>>
    BY <1>2, RestQueueAssumption DEF PostRequest, Posted, NotPosted
  <2>2. /\ requests_in \in [Queues -> Seq(Requests)] /\ \A x \in Requests : endpoint[x] \in Nat
        /\ endpoint \in [Requests -> Nat]
    BY EndpointNumbers DEF TypeInv, TypeOK
  <2>3. \A q \in Queues : ~ In(requests_in[q], r) /\ r \notin removals[q]
    BY <2>1 DEF HomeInv
  <2>4. r \notin freed
    BY <2>1 DEF KeptInv
  <2>5. /\ \A x : In(z, x) <=> In(requests_in[q0], x) \/ x = r
        /\ NoDup(z)
        /\ \A j, k \in 1..Len(z) : j < k => endpoint'[z[j]] <= endpoint'[z[k]]
    <3>1. /\ requests_in[q0] \in Seq(Requests) /\ NoDup(requests_in[q0])
          /\ Sorted(requests_in[q0]) /\ ~ In(requests_in[q0], r)
      BY <2>1, <2>2, <2>3 DEF OrderInv
    <3>2. endpoint'[r] = e /\ \A x \in Requests \ {r} : endpoint'[x] = endpoint[x]
      BY <2>1, <2>2
    <3>3. z = InsertAt(requests_in[q0], LowerBound(requests_in[q0], e), r) /\ e \in Nat
      BY <2>1
    <3> HIDE DEF q0, z
    <3> QED BY <2>2, <3>1, <3>2, <3>3, InsertKeeps
  <2> HIDE DEF z
  <2>6. \A q \in Queues : requests_in'[q] = IF q = q0 THEN z ELSE requests_in[q]
    BY <2>1, <2>2
  <2>7. \A x \in Requests : endpoint'[x] = IF x = r THEN e ELSE endpoint[x]
    BY <2>1, <2>2
  <2> HIDE DEF q0
  <2>8. HomeInv'
    BY <2>1, <2>3, <2>4, <2>5, <2>6, <2>7 DEF HomeInv, Posted, q0
  <2>9. KeptInv'
    BY <2>1, <2>4, <2>5, <2>6, <2>7, RestQueueAssumption DEF KeptInv, Posted, q0
  <2>10. OrderInv'
    <3> SUFFICES ASSUME NEW q \in Queues
                 PROVE  (NoDup(requests_in[q]) /\ Sorted(requests_in[q]))'
      BY DEF OrderInv
    <3>1. CASE q = q0
      BY <2>5, <2>6, <3>1 DEF NoDup, Sorted
    <3>2. CASE q # q0
      <4>1. requests_in'[q] = requests_in[q] /\ NoDup(requests_in[q]) /\ Sorted(requests_in[q])
        BY <2>6, <3>2 DEF OrderInv
      <4>2. \A i \in 1..Len(requests_in[q]) : endpoint'[requests_in[q][i]] = endpoint[requests_in[q][i]]
        <5>1. \A i \in 1..Len(requests_in[q]) : requests_in[q][i] \in Requests
          BY <2>2
        <5> QED BY <2>3, <2>7, <5>1 DEF In
      <4> QED BY <4>1, <4>2 DEF NoDup, Sorted
    <3> QED BY <3>1, <3>2
  <2> QED BY <2>8, <2>9, <2>10
<1>3. ASSUME NEW t \in Threads, RemoveRequest(t)
      PROVE  VectorInv'
  <2> DEFINE q0 == queue[t]
             r == Head(requests_view[t])
             z == AfterErase(requests_in[q0], r)
  <2>1. /\ q0 \in Queues /\ requests_in \in [Queues -> Seq(Requests)]
        /\ removals \in [Queues -> SUBSET Requests]
        /\ requests_in' = [requests_in EXCEPT ![q0] = z]
        /\ removals' = [removals EXCEPT ![q0] =
                            IF r \in ToSet(requests_in[q0]) THEN @ \union {r} ELSE @]
        /\ UNCHANGED <<freed, endpoint>>
    BY <1>3 DEF RemoveRequest, TypeInv, TypeOK, histVars
  <2>2. r \in ToSet(requests_in[q0]) <=> In(requests_in[q0], r)
    <3>1. requests_in[q0] \in Seq(Requests)
      BY <2>1
    <3> HIDE DEF r, q0
    <3> QED BY <3>1 DEF ToSet, In
  <2>3. /\ \A x : In(z, x) <=> In(requests_in[q0], x) /\ x # r
        /\ NoDup(z) /\ Sorted(z)
    BY <2>1, EraseKeeps DEF OrderInv
  <2> HIDE DEF z, r, q0
  <2>4. \A q \in Queues : requests_in'[q] = IF q = q0 THEN z ELSE requests_in[q]
    BY <2>1
  <2>5. \A q \in Queues : removals'[q] =
            IF q = q0 /\ In(requests_in[q0], r) THEN removals[q] \union {r} ELSE removals[q]
    BY <2>1, <2>2
  <2>6. HomeInv'
    BY <2>1, <2>3, <2>4, <2>5 DEF HomeInv, Posted
  <2>7. KeptInv'
    <3> SUFFICES ASSUME NEW x \in Requests, Posted(x), x \notin freed
                 PROVE  \/ x \in removals'[QueueOf(endpoint[x])]
                        \/ In(requests_in'[QueueOf(endpoint[x])], x)
      BY <2>1 DEF KeptInv, Posted
    <3>1. QueueOf(endpoint[x]) \in Queues
      BY RestQueueAssumption DEF Posted, TypeInv, TypeOK
    <3>2. x \in removals[QueueOf(endpoint[x])] \/ In(requests_in[QueueOf(endpoint[x])], x)
      BY DEF KeptInv
    <3> QED BY <2>3, <2>4, <2>5, <3>1, <3>2
  <2>8. OrderInv'
    BY <2>1, <2>3, <2>4 DEF OrderInv, Sorted
  <2> QED BY <2>6, <2>7, <2>8
<1>4. CASE Purge
  <2> DEFINE q0 == queue[Loop]
  <2>1. /\ q0 \in Queues /\ UNCHANGED <<requests_in, endpoint>>
        /\ removals \in [Queues -> SUBSET Requests] /\ Purged(q0) \subseteq removals[q0]
        /\ removals' = [removals EXCEPT ![q0] = @ \ Purged(q0)]
        /\ freed' = freed \union Purged(q0)
    BY <1>4 DEF Purge, Purged, TypeInv, TypeOK, histVars, Threads
  <2> HIDE DEF q0
  <2>2. \A q \in Queues : removals'[q] = IF q = q0 THEN removals[q] \ Purged(q0) ELSE removals[q]
    BY <2>1
  <2>3. HomeInv'
    BY <2>1, <2>2 DEF HomeInv, Posted
  <2>4. KeptInv'
    BY <2>1, <2>2, RestQueueAssumption DEF KeptInv, HomeInv, Posted
  <2>5. OrderInv'
    BY <2>1 DEF OrderInv, Sorted
  <2> QED BY <2>3, <2>4, <2>5
<1>5. CASE Second \/ Terminate \/ UNCHANGED vars
  BY <1>1, <1>5 DEF Second, Terminate, vars, histVars
<1>6. CASE \E q \in Queues : TimerTick(q)
  BY <1>1, <1>6 DEF TimerTick, histVars
<1>7. CASE \E t \in Threads : Gather(t) \/ PassBucket(t) \/ HoldBack(t) \/ SendRequest(t)
  BY <1>1, <1>7 DEF Gather, PassBucket, HoldBack, SendRequest, histVars
<1>8. CASE \E r \in Requests : AnyReply(r)
  BY <1>1, <1>8 DEF AnyReply, Reply
<1>9. CASE \E j \in jobs : JobStep(j)
  BY <1>1, <1>9 DEF JobStep, CallBack, Release, Notify, histVars
<1> QED BY <1>2, <1>3, <1>4, <1>5, <1>6, <1>7, <1>8, <1>9 DEF Next, TickStep

\* The pieces say what VectorSound says.
LEMMA VectorIsSound ==
    ASSUME TypeInv, VectorInv
    PROVE  VectorSound
<1>1. SortedByEndpoint
  <2>1. \A q \in Queues : DOMAIN requests_in[q] = 1..Len(requests_in[q])
    BY DEF TypeInv, TypeOK
  <2> QED BY <2>1 DEF VectorInv, OrderInv, Sorted, SortedByEndpoint
<1>2. ASSUME NEW r \in Requests, endpoint[r] # NotPosted, NEW q, q = QueueOf(endpoint[r])
      PROVE  /\ Cardinality({i \in DOMAIN requests_in[q] : requests_in[q][i] = r})
                  + (IF r \in removals[q] THEN 1 ELSE 0)
                  + (IF r \in freed THEN 1 ELSE 0) = 1
             /\ \A p \in Queues \ {q} : r \notin removals[p] \union ToSet(requests_in[p])
  <2> DEFINE places == {i \in DOMAIN requests_in[q] : requests_in[q][i] = r}
  <2>1. q \in Queues
    BY <1>2, RestQueueAssumption DEF TypeInv, TypeOK
  <2>2. \A p \in Queues : requests_in[p] \in Seq(Requests)
                          /\ DOMAIN requests_in[p] = 1..Len(requests_in[p])
    BY DEF TypeInv, TypeOK
  <2>3. ASSUME In(requests_in[q], r)
        PROVE  Cardinality(places) = 1 /\ r \notin removals[q] /\ r \notin freed
    <3>1. PICK k \in 1..Len(requests_in[q]) : requests_in[q][k] = r
      BY <2>3 DEF In
    <3>2. places = {k}
      BY <2>1, <2>2, <3>1 DEF VectorInv, OrderInv, NoDup
    <3>3. r \notin removals[q] /\ r \notin freed
      BY <2>1, <2>3 DEF VectorInv, HomeInv
    <3> QED BY <3>2, <3>3, FS_Singleton
  <2>4. ASSUME ~ In(requests_in[q], r)
        PROVE  /\ Cardinality(places) = 0
               /\ (r \in removals[q] /\ r \notin freed) \/ (r \notin removals[q] /\ r \in freed)
    <3>1. places = {}
      BY <2>1, <2>2, <2>4 DEF In
    <3>2. (r \in removals[q] /\ r \notin freed) \/ (r \notin removals[q] /\ r \in freed)
      BY <1>2, <2>1, <2>4 DEF VectorInv, HomeInv, KeptInv, Posted
    <3> QED BY <3>1, <3>2, FS_EmptySet
  <2>5. ASSUME NEW p \in Queues \ {q}
        PROVE  r \notin removals[p] \union ToSet(requests_in[p])
    <3>1. ~ In(requests_in[p], r) /\ r \notin removals[p]
      BY <1>2 DEF VectorInv, HomeInv
    <3> QED BY <2>2, <3>1 DEF In, ToSet
  <2>6. Cardinality(places) + (IF r \in removals[q] THEN 1 ELSE 0)
                            + (IF r \in freed THEN 1 ELSE 0) = 1
    <3> HIDE DEF places
    <3> QED BY <2>3, <2>4
  <2> QED BY <2>5, <2>6
<1>3. OwnedOnce
  BY <1>2 DEF OwnedOnce
<1> QED BY <1>1, <1>3 DEF VectorSound

-----------------------------------------------------------------------------
(* At most once, when only the event loop's thread posts.                  *)

\* The snapshot is a part of requests_in, without repetitions.
ViewInv ==
    pc[Loop] \in {"send", "run", "remove"} =>
        /\ NoDup(requests_view[Loop])
        /\ \A i \in 1..Len(requests_view[Loop]) :
              In(requests_in[queue[Loop]], requests_view[Loop][i])

\* What waits has not been run, except the one that is about to be removed.
WaitingInv ==
    \A q \in Queues, r \in Requests :
        In(requests_in[q], r) =>
            runs[r] = 0 \/ (pc[Loop] = "remove" /\ r = Head(requests_view[Loop]))

\* The life of a request: run, in flight, replied to, called back, released.
LifeInv ==
    \A r \in Requests :
        /\ runs[r] <= 1 /\ called[r] <= 1
        /\ Posted(r) \/ runs[r] = 0
        /\ runs[r] = 0 => called[r] = 0 /\ r \notin inflight /\ \A j \in jobs : j.request # r
        /\ r \in inflight => called[r] = 0 /\ \A j \in jobs : j.request # r
        /\ r \in captured => \E j \in jobs : j.request = r /\ j.at # "notify"
        /\ r \in completed => called[r] = 1
        /\ r \in freed => called[r] = 1 /\ r \notin captured

JobInv ==
    /\ \A j \in jobs : j.at = "queued" <=> called[j.request] = 0
    /\ \A j \in jobs : j.at # "notify" => j.request \in captured
    /\ \A j, k \in jobs : j.request = k.request => j = k

LoopInv == ViewInv /\ WaitingInv /\ LifeInv /\ JobInv

\* A step that leaves the lives of the requests alone.
LEMMA SameLife ==
    ASSUME LifeInv, JobInv, UNCHANGED <<runs, called, inflight, jobs, captured, completed, freed>>,
           \A r \in Requests : Posted(r) => Posted(r)'
    PROVE  LifeInv' /\ JobInv'
BY DEF LifeInv, JobInv

LEMMA LoopStep ==
    ASSUME Users = {}, TypeInv, VectorInv, LoopInv, [Next]_vars
    PROVE  LoopInv'
<1> USE DEF LoopInv
<1>1. Threads = {Loop}
  BY DEF Threads
<1>3. CASE Second \/ Terminate \/ UNCHANGED vars
  <2>1. UNCHANGED <<requests_in, pc, queue, requests_view, endpoint, runs, called, inflight, jobs,
                    captured, completed, freed>>
    BY <1>3 DEF Second, Terminate, vars, tickVars, jobVars, histVars
  <2> QED BY <2>1, SameLife DEF ViewInv, WaitingInv, Posted
<1>4. ASSUME NEW r \in Requests, NEW e \in Endpoints, PostRequest(Loop, r, e)
      PROVE  LoopInv'
  <2>1. /\ pc[Loop] = "idle" /\ pc'[Loop] = "gather" /\ ~ Posted(r)
        /\ endpoint' = [endpoint EXCEPT ![r] = e] /\ endpoint \in [Requests -> Endpoints \union {NotPosted}]
        /\ requests_in' = [requests_in EXCEPT ![QueueOf(e)] =
                                InsertAt(@, LowerBound(@, e), r)]
        /\ UNCHANGED <<runs, called, inflight, jobs, captured, completed, freed>>
    BY <1>1, <1>4 DEF PostRequest, Posted, jobVars, TypeInv, TypeOK
  <2>2. \A x \in Requests : Posted(x) => Posted(x)'
    BY <2>1, RestQueueAssumption DEF Posted, NotPosted
  <2>3. ViewInv'
    BY <2>1 DEF ViewInv
  <2>4. ASSUME NEW q \in Queues, NEW x \in Requests, In(requests_in[q], x)'
        PROVE  runs[x] = 0
    <3>1. CASE x = r
      BY <2>1, <3>1 DEF LifeInv
    <3>2. CASE In(requests_in[q], x)
      BY <2>1, <3>2 DEF WaitingInv
    <3>3. In(requests_in[q], x) \/ x = r
      <4>1. CASE q # QueueOf(e)
        BY <2>1, <2>4, <4>1 DEF In, TypeInv, TypeOK
      <4>2. CASE q = QueueOf(e)
        <5> DEFINE s == requests_in[q]
                   i == LowerBound(s, e)
        <5>1. s \in Seq(Requests) /\ e \in Nat /\ requests_in'[q] = InsertAt(s, i, r)
          BY <2>1, <4>2, RestQueueAssumption DEF TypeInv, TypeOK
        <5>2. \A y \in Requests : endpoint[y] \in Nat
          BY EndpointNumbers DEF TypeInv
        <5>3. i \in 1..(Len(s) + 1) /\ Len(s) \in Nat
          BY <5>1, <5>2, LowerBoundFacts
        <5> HIDE DEF s, i
        <5>4. /\ Len(InsertAt(s, i, r)) = Len(s) + 1
              /\ \A k \in 1..(i - 1) : InsertAt(s, i, r)[k] = s[k]
              /\ InsertAt(s, i, r)[i] = r
              /\ \A k \in (i + 1)..(Len(s) + 1) : InsertAt(s, i, r)[k] = s[k - 1]
          BY <5>1, <5>3, InsertFacts
        <5>5. PICK k \in 1..(Len(s) + 1) : InsertAt(s, i, r)[k] = x
          BY <2>4, <5>1, <5>4 DEF In
        <5>6. x = r \/ \E m \in 1..Len(s) : s[m] = x
          BY <5>3, <5>4, <5>5
        <5> QED BY <5>6 DEF In, s
      <4> QED BY <4>1, <4>2
    <3> QED BY <3>1, <3>2, <3>3
  <2>5. WaitingInv'
    BY <2>1, <2>4 DEF WaitingInv
  <2> QED BY <2>1, <2>2, <2>3, <2>5, SameLife
<1>5. ASSUME NEW q \in Queues, TimerTick(q)
      PROVE  LoopInv'
  <2>1. /\ pc[Loop] = "idle" /\ pc'[Loop] = "gather"
        /\ UNCHANGED <<requests_in, endpoint, runs, called, inflight, jobs, captured, completed,
                       freed>>
    BY <1>1, <1>5 DEF TimerTick, jobVars, histVars, TypeInv, TypeOK
  <2> QED BY <2>1, SameLife DEF ViewInv, WaitingInv, Posted
<1>6. CASE Gather(Loop)
  <2>1. /\ pc[Loop] = "gather" /\ pc'[Loop] \notin {"run", "remove"}
        /\ pc'[Loop] = "send" => requests_view'[Loop] = requests_in[queue[Loop]]
        /\ UNCHANGED <<requests_in, queue, endpoint, runs, called, inflight, jobs, captured,
                       completed, freed>>
    BY <1>1, <1>6 DEF Gather, Returned, jobVars, histVars, TypeInv, TypeOK
  <2>2. ViewInv'
    BY <1>1, <2>1 DEF ViewInv, VectorInv, OrderInv, In, TypeInv, TypeOK
  <2>3. WaitingInv'
    BY <2>1 DEF WaitingInv
  <2> QED BY <2>1, <2>2, <2>3, SameLife DEF Posted
<1>7. CASE SendRequest(Loop)
  <2> DEFINE r == Head(requests_view[Loop])
  <2>1. /\ pc[Loop] = "run" /\ pc'[Loop] = "remove" /\ requests_view[Loop] # <<>>
        /\ requests_view[Loop] \in Seq(Requests) /\ queue[Loop] \in Queues
        /\ runs \in [Requests -> Nat]
        /\ runs' = [runs EXCEPT ![r] = @ + 1] /\ inflight' \subseteq inflight \union {r}
        /\ UNCHANGED <<requests_in, queue, requests_view, jobs, captured, completed, freed,
                       endpoint, called>>
    BY <1>1, <1>7 DEF SendRequest, Run, TypeInv, TypeOK
  <2>2. r \in Requests /\ r = requests_view[Loop][1] /\ 1 \in 1..Len(requests_view[Loop])
    BY <2>1
  <2>3. In(requests_in[queue[Loop]], r)
    BY <2>1, <2>2 DEF ViewInv
  <2>4. runs[r] = 0 /\ Posted(r)
    BY <2>1, <2>2, <2>3 DEF WaitingInv, VectorInv, HomeInv
  <2> HIDE DEF r
  <2>5. runs'[r] = 1 /\ \A x \in Requests \ {r} : runs'[x] = runs[x]
    BY <2>1, <2>2, <2>4
  <2>6. ViewInv'
    BY <2>1 DEF ViewInv
  <2>7. WaitingInv'
    BY <2>1, <2>5 DEF WaitingInv, r
  <2>8. LifeInv'
    BY <2>1, <2>2, <2>4, <2>5 DEF LifeInv, Posted
  <2>9. JobInv'
    BY <2>1 DEF JobInv
  <2> QED BY <2>6, <2>7, <2>8, <2>9
<1>13. CASE PassBucket(Loop)
  <2>1. /\ pc[Loop] = "send" /\ pc'[Loop] = "run"
        /\ UNCHANGED <<requests_in, queue, requests_view, endpoint, runs, called, inflight, jobs,
                       captured, completed, freed>>
    BY <1>1, <1>13 DEF PassBucket, jobVars, histVars, TypeInv, TypeOK
  <2> QED BY <2>1, SameLife DEF ViewInv, WaitingInv, Posted
<1>8. CASE HoldBack(Loop)
  <2>1. /\ pc[Loop] = "send" /\ pc'[Loop] \notin {"send", "run", "remove"}
        /\ UNCHANGED <<requests_in, endpoint, runs, called, inflight, jobs, captured,
                       completed, freed>>
    BY <1>1, <1>8 DEF HoldBack, Returned, jobVars, histVars, TypeInv, TypeOK
  <2> QED BY <2>1, SameLife DEF ViewInv, WaitingInv, Posted
<1>9. CASE RemoveRequest(Loop)
  <2> DEFINE q0 == queue[Loop]
             view == requests_view[Loop]
             r == Head(view)
             z == AfterErase(requests_in[q0], r)
  <2>1. /\ pc[Loop] = "remove" /\ pc'[Loop] \notin {"run", "remove"} /\ view # <<>> /\ view \in Seq(Requests)
        /\ q0 \in Queues /\ requests_in \in [Queues -> Seq(Requests)]
        /\ requests_in' = [requests_in EXCEPT ![q0] = z]
        /\ requests_view'[Loop] = Tail(view)
        /\ UNCHANGED <<queue, endpoint, runs, called, inflight, jobs, captured, completed, freed>>
    BY <1>1, <1>9 DEF RemoveRequest, Returned, jobVars, histVars, TypeInv, TypeOK
  <2>2. /\ r \in Requests /\ r = view[1] /\ 1 \in 1..Len(view)
        /\ Len(Tail(view)) = Len(view) - 1 /\ \A i \in 1..(Len(view) - 1) : Tail(view)[i] = view[i + 1]
    BY <2>1
  <2>3. /\ In(requests_in[q0], r) /\ NoDup(view)
        /\ \A i \in 1..Len(view) : In(requests_in[q0], view[i])
    BY <2>1, <2>2 DEF ViewInv
  <2>4. \A x : In(z, x) <=> In(requests_in[q0], x) /\ x # r
    BY <2>1, EraseKeeps DEF VectorInv, OrderInv
  <2> HIDE DEF z, r
  <2>5. \A q \in Queues : requests_in'[q] = IF q = q0 THEN z ELSE requests_in[q]
    BY <2>1
  <2>6. ViewInv'
    <3>1. ASSUME NEW i \in 1..(Len(view) - 1)
          PROVE  i + 1 \in 1..Len(view) /\ view[i + 1] # r
      <4>1. Len(view) \in Nat
        BY <2>1
      <4>2. i + 1 \in 1..Len(view) /\ i + 1 # 1
        BY <4>1
      <4> HIDE DEF view
      <4> QED BY <2>2, <2>3, <4>2 DEF NoDup
    <3>2. NoDup(Tail(view))
      <4>1. Len(view) \in Nat
        BY <2>1
      <4> DEFINE tl == Tail(view)
      <4> HIDE DEF view, tl
      <4>2. Len(tl) = Len(view) - 1 /\ \A i \in 1..(Len(view) - 1) : tl[i] = view[i + 1]
        BY <2>2 DEF tl
      <4>3. ASSUME NEW i \in 1..(Len(view) - 1), NEW j \in 1..(Len(view) - 1), tl[i] = tl[j]
            PROVE  i = j
        <5>1. i + 1 \in 1..Len(view) /\ j + 1 \in 1..Len(view)
          BY <4>1
        <5>2. view[i + 1] = view[j + 1]
          BY <4>2, <4>3
        <5>3. i + 1 = j + 1
          BY <2>3, <5>1, <5>2 DEF NoDup
        <5> QED BY <5>3
      <4>4. NoDup(tl)
        BY <4>2, <4>3 DEF NoDup
      <4> QED BY <4>4 DEF tl
    <3>3. \A i \in 1..(Len(view) - 1) : In(z, Tail(view)[i])
      BY <2>2, <2>3, <2>4, <3>1
    <3> QED BY <2>1, <2>2, <2>5, <3>2, <3>3 DEF ViewInv
  <2>7. WaitingInv'
    <3>1. ASSUME NEW q \in Queues, NEW x \in Requests, In(requests_in[q], x)'
          PROVE  In(requests_in[q], x) /\ x # r
      BY <2>2, <2>3, <2>4, <2>5, <3>1, <2>1 DEF VectorInv, HomeInv
    <3> QED BY <2>1, <3>1 DEF WaitingInv, r
  <2> QED BY <2>1, <2>6, <2>7, SameLife DEF Posted
<1>10. CASE Purge
  <2>1. /\ pc[Loop] = "purge" /\ pc'[Loop] = "idle"
        /\ freed' = freed \union Purged(queue[Loop]) /\ Purged(queue[Loop]) \intersect captured = {}
        /\ UNCHANGED <<requests_in, endpoint, runs, called, inflight, jobs, captured, completed>>
    BY <1>1, <1>10 DEF Purge, jobVars, histVars, TypeInv, TypeOK
  <2>2. ViewInv' /\ WaitingInv' /\ JobInv'
    BY <2>1 DEF ViewInv, WaitingInv, JobInv
  <2>3. LifeInv'
    BY <2>1 DEF LifeInv, Posted, Purged
  <2> QED BY <2>2, <2>3
<1>11. ASSUME NEW r \in Requests, AnyReply(r)
       PROVE  LoopInv'
  <2> DEFINE j == [request |-> r, nth |-> runs[r], at |-> "queued"]
  <2>1. /\ r \in inflight /\ inflight' = inflight \ {r} /\ captured' = captured \union {r}
        /\ jobs' = jobs \union {j}
        /\ UNCHANGED <<requests_in, pc, queue, requests_view, endpoint, runs, called, completed,
                       freed>>
    BY <1>11 DEF AnyReply, Reply, tickVars
  <2>2. j.request = r /\ j.at = "queued"
    OBVIOUS
  <2> HIDE DEF j
  <2>3. ViewInv' /\ WaitingInv'
    BY <2>1 DEF ViewInv, WaitingInv
  <2>4. called[r] = 0 /\ r \notin freed /\ runs[r] # 0 /\ \A k \in jobs : k.request # r
    BY <2>1 DEF LifeInv
  <2>5. LifeInv'
    BY <2>1, <2>2, <2>4 DEF LifeInv, Posted
  <2>6. JobInv'
    BY <2>1, <2>2, <2>4 DEF JobInv
  <2> QED BY <2>3, <2>5, <2>6
<1>12. ASSUME NEW j \in jobs, JobStep(j)
       PROVE  LoopInv'
  <2>1. UNCHANGED <<requests_in, pc, queue, requests_view, endpoint, runs, inflight, freed>>
    BY <1>12 DEF JobStep, CallBack, Release, Notify, tickVars, histVars
  <2>2. ViewInv' /\ WaitingInv'
    BY <2>1 DEF ViewInv, WaitingInv
  <2>3. j \in Job /\ j.request \in Requests /\ called \in [Requests -> Nat]
    BY DEF TypeInv, TypeOK, Job
  <2>4. ASSUME NEW w \in {"called", "notify"}
        PROVE  [j EXCEPT !.at = w].request = j.request /\ [j EXCEPT !.at = w].at = w
    BY <2>3 DEF Job
  <2>5. CASE CallBack(j)
    <3> DEFINE k == [j EXCEPT !.at = "called"]
    <3>1. /\ j.at = "queued" /\ jobs' = (jobs \ {j}) \union {k} /\ completed' = completed \union {j.request}
          /\ called' = [called EXCEPT ![j.request] = @ + 1] /\ UNCHANGED captured
      BY <2>5 DEF CallBack
    <3>2. k.request = j.request /\ k.at = "called"
      BY <2>4
    <3> HIDE DEF k
    <3>3. called[j.request] = 0 /\ called'[j.request] = 1
          /\ \A x \in Requests \ {j.request} : called'[x] = called[x]
      BY <2>3, <3>1 DEF JobInv
    <3>4. LifeInv'
      BY <2>1, <2>3, <3>1, <3>2, <3>3 DEF LifeInv, JobInv, Posted
    <3>5. JobInv'
      BY <2>3, <3>1, <3>2, <3>3 DEF JobInv, TypeInv, TypeOK, Job
    <3> QED BY <2>2, <3>4, <3>5
  <2>6. CASE Release(j)
    <3> DEFINE k == [j EXCEPT !.at = "notify"]
    <3>1. /\ j.at = "called" /\ jobs' = (jobs \ {j}) \union {k} /\ captured' = captured \ {j.request}
          /\ UNCHANGED <<called, completed>>
      BY <2>6 DEF Release, histVars
    <3>2. k.request = j.request /\ k.at = "notify"
      BY <2>4
    <3> HIDE DEF k
    <3>3. LifeInv'
      BY <2>1, <2>3, <3>1, <3>2 DEF LifeInv, JobInv, Posted
    <3>4. JobInv'
      BY <2>3, <3>1, <3>2 DEF JobInv
    <3> QED BY <2>2, <3>3, <3>4
  <2>7. CASE Notify(j)
    <3>1. j.at = "notify" /\ jobs' = jobs \ {j} /\ UNCHANGED <<captured, called, completed>>
      BY <2>7 DEF Notify, histVars
    <3>2. LifeInv'
      BY <2>1, <3>1 DEF LifeInv, JobInv, Posted
    <3>3. JobInv'
      BY <3>1 DEF JobInv
    <3> QED BY <2>2, <3>2, <3>3
  <2> QED BY <1>12, <2>5, <2>6, <2>7 DEF JobStep
<1> QED BY <1>1, <1>3, <1>4, <1>5, <1>6, <1>7, <1>8, <1>9, <1>10, <1>11, <1>12, <1>13
     DEF Next, TickStep

-----------------------------------------------------------------------------
(* The theorems.                                                           *)

\* What the constructors leave.
LEMMA InitTypes == ASSUME Init PROVE TypeInv
<1>1. clock \in 0..(PurgePeriod - 1)
  BY RestQueueAssumption DEF Init
<1>2. NoBucket \in Bucket
  BY RestQueueAssumption DEF Bucket, NoBucket
<1>3. buckets \in [Endpoints -> Bucket]
  BY <1>2 DEF Init
<1>4. (CHOOSE q \in Queues : TRUE) \in Queues
  BY RestQueueAssumption
<1>5. queue \in [Threads -> Queues]
  BY <1>4 DEF Init
<1>6. globally_limited_until \in 0..(MaxWait + 1)
  BY RestQueueAssumption DEF Init
<1>7. /\ requests_in \in [Queues -> Seq(Requests)]
      /\ requests_view \in [Threads -> Seq(Requests)]
      /\ removals \in [Queues -> SUBSET Requests]
      /\ pc \in [Threads -> {"idle", "gather", "send", "run", "remove", "purge"}]
  BY DEF Init
<1>8. /\ endpoint \in [Requests -> Endpoints \union {NotPosted}]
      /\ runs \in [Requests -> Nat] /\ called \in [Requests -> Nat]
  BY DEF Init
<1>9. /\ due \in [Queues -> Nat] /\ inflight \subseteq Requests /\ jobs \subseteq Job
      /\ captured \subseteq Requests /\ completed \subseteq Requests /\ freed \subseteq Requests
      /\ globally_ratelimited \in BOOLEAN /\ terminating \in BOOLEAN /\ in_timer \in BOOLEAN
  BY DEF Init
<1>10. TypeOK
  BY <1>1, <1>3, <1>5, <1>6, <1>7, <1>8, <1>9 DEF TypeOK
<1> QED BY <1>10 DEF Init, TypeInv

LEMMA InitVector == ASSUME Init PROVE VectorInv
BY DEF Init, VectorInv, HomeInv, KeptInv, OrderInv, Posted, In, NoDup, Sorted

\* The types hold; with the strengthening that a thread that sends has
\* something to send, and that what is in flight has been run.
THEOREM TypeCorrect == Spec => []TypeOK
<1>1. Init => TypeInv
  BY InitTypes
<1>2. TypeInv /\ [Next]_vars => TypeInv'
  BY TypeStep
<1>3. TypeInv => TypeOK
  BY DEF TypeInv
<1> QED BY <1>1, <1>2, <1>3, PTL DEF Spec

\* Whoever posts and whichever threads run tick_and_deliver_requests at the same
\* time, a posted request is owned exactly once, by requests_in or removals of
\* its endpoint's queue, or freed; and requests_in stays sorted by endpoint.
THEOREM OwnedAndSorted == Spec => []VectorSound
<1>1. Init => TypeInv /\ VectorInv
  BY InitTypes, InitVector
<1>2. (TypeInv /\ VectorInv) /\ [Next]_vars => (TypeInv /\ VectorInv)'
  BY TypeStep, VectorStep
<1>3. TypeInv /\ VectorInv => VectorSound
  BY VectorIsSound
<1> QED BY <1>1, <1>2, <1>3, PTL DEF Spec

OnceInv == TypeInv /\ VectorInv /\ LoopInv

\* The inductive invariant behind the next two theorems.
LEMMA OnceInvariant == Users = {} => (Spec => []OnceInv)
<1> SUFFICES ASSUME Users = {} PROVE Spec => []OnceInv
  OBVIOUS
<1>1. Init => OnceInv
  <2> SUFFICES ASSUME Init PROVE OnceInv
    OBVIOUS
  <2>1. TypeInv
    BY InitTypes
  <2>2. VectorInv
    BY InitVector
  <2>3. LoopInv
    BY DEF Init, LoopInv, ViewInv, WaitingInv, LifeInv, JobInv, In, Threads
  <2> QED BY <2>1, <2>2, <2>3 DEF OnceInv
<1>2. OnceInv /\ [Next]_vars => OnceInv'
  BY TypeStep, VectorStep, LoopStep DEF OnceInv
<1> QED BY <1>1, <1>2, PTL DEF Spec

\* When only the event loop's thread posts, a request is run and its callback is
\* called at most once, whatever the rate limits do and however the timer's
\* ticks, replies and callbacks interleave.
THEOREM AtMostOnceAlone == Users = {} => (Spec => []AtMostOnce)
<1>1. OnceInv => AtMostOnce
  BY DEF OnceInv, LoopInv, LifeInv, AtMostOnce
<1> QED BY <1>1, OnceInvariant, PTL

\* Then, too, the purge destroys a request only when its callback has returned,
\* no reply, no snapshot and no job uses it any more, but for a job whose
\* notify_all is still to come.
THEOREM FreedAlone == Users = {} => (Spec => []FreedWhenDone)
<1> SUFFICES ASSUME Users = {} PROVE Spec => []FreedWhenDone
  OBVIOUS
<1>1. OnceInv => FreedWhenDone
  <2> SUFFICES ASSUME OnceInv, NEW r \in freed
               PROVE  /\ called[r] >= 1 /\ r \notin inflight /\ r \notin captured
                      /\ \A j \in jobs : j.request = r => j.at = "notify"
                      /\ \A t \in Threads : pc[t] \in {"send", "run", "remove"} =>
                            r \notin ToSet(requests_view[t])
    BY DEF FreedWhenDone
  <2>1. r \in Requests
    BY DEF OnceInv, TypeInv, TypeOK
  <2>2. called[r] >= 1 /\ r \notin inflight /\ r \notin captured
    BY <2>1 DEF OnceInv, LoopInv, LifeInv
  <2>3. \A j \in jobs : j.request = r => j.at = "notify"
    BY <2>2 DEF OnceInv, LoopInv, JobInv
  <2>4. ASSUME NEW t \in Threads, pc[t] \in {"send", "run", "remove"},
               r \in ToSet(requests_view[t])
        PROVE  FALSE
    <3>1. t = Loop /\ requests_view[t] \in Seq(Requests) /\ queue[t] \in Queues
      BY DEF Threads, OnceInv, TypeInv, TypeOK
    <3>2. PICK i \in 1..Len(requests_view[Loop]) : requests_view[Loop][i] = r
      BY <2>4, <3>1 DEF ToSet
    <3>3. In(requests_in[queue[Loop]], r)
      BY <2>4, <3>1, <3>2 DEF OnceInv, LoopInv, ViewInv
    <3> QED BY <2>1, <3>1, <3>3 DEF OnceInv, VectorInv, HomeInv
  <2> QED BY <2>2, <2>3, <2>4
<1>2. Spec => []OnceInv
  BY OnceInvariant
<1> QED BY <1>1, <1>2, PTL

=============================================================================
