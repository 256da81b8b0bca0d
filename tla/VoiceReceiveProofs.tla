------------------------- MODULE VoiceReceiveProofs -------------------------
(***************************************************************************)
(* What the voice courier promises, for any number of speakers and packets *)
(* and any modulus of the sequence number that is larger than the longest  *)
(* run of lost packets.                                                    *)
(*                                                                         *)
(* PlaceInv says where each payload that was parked is.  OrderInv is about *)
(* a speaker whose packets came in order: with lo its first packet, the    *)
(* courier has come to packet lo + Len(heard), flush_data holds what is    *)
(* between it and min_timestamp, parked_payloads what comes after, and     *)
(* position is the courier's packet modulo SeqMod; two packets that follow *)
(* one another are at most MaxGap + 1 apart, so that a payload is never    *)
(* taken for one of an earlier turn of the sequence number.                *)
(***************************************************************************)
EXTENDS VoiceReceive, Integers, SequenceTheorems, FiniteSetTheorems, WellFoundedInduction, TLAPS

-----------------------------------------------------------------------------
(* Numbers.                                                                *)

\* A set of numbers that is not empty has a least element.
LEMMA LowestOf ==
    ASSUME NEW S \in SUBSET Nat, S # {}
    PROVE  Lowest(S) \in S /\ \A j \in S : Lowest(S) <= j
<1>1. PICK x \in S : \A y \in S : ~ (<<y, x>> \in OpToRel(<, Nat))
  BY NatLessThanWellFounded, WFMin
<1>2. \A y \in S : ~ (y < x)
  BY <1>1 DEF OpToRel
<1>3. \A y \in S : x <= y
  BY <1>2
<1> QED BY <1>3 DEF Lowest

LEMMA LowestIs ==
    ASSUME NEW S \in SUBSET Nat, NEW m \in S, \A j \in S : m <= j
    PROVE  Lowest(S) = m
<1>1. Lowest(S) \in S /\ \A j \in S : Lowest(S) <= j
  BY LowestOf
<1>2. Lowest(S) \in Nat /\ m \in Nat /\ Lowest(S) <= m /\ m <= Lowest(S)
  BY <1>1
<1> QED BY <1>2

LEMMA HighestIs ==
    ASSUME NEW S \in SUBSET Nat, NEW m \in S, \A j \in S : j <= m
    PROVE  Highest(S) = m
<1>1. \E i \in S : \A j \in S : j <= i
  OBVIOUS
<1>2. Highest(S) \in S /\ \A j \in S : j <= Highest(S)
  BY <1>1 DEF Highest
<1>3. Highest(S) \in Nat /\ m \in Nat /\ Highest(S) <= m /\ m <= Highest(S)
  BY <1>2
<1> QED BY <1>3

\* Multiples are a modulus apart.
LEMMA Multiples ==
    ASSUME NEW M \in Nat \ {0}, NEW q \in Nat, NEW p \in Nat, p < q
    PROVE  M * q >= M * p + M
<1>1. q - p >= 1
  OBVIOUS
<1>2. M * (q - p) >= M
  BY <1>1
<1>3. M * (q - p) = M * q - M * p
  OBVIOUS
<1> QED BY <1>2, <1>3

LEMMA Division ==
    ASSUME NEW M \in Nat \ {0}, NEW a \in Nat
    PROVE  /\ a \div M \in Nat
           /\ a % M \in 0..(M - 1)
           /\ a = M * (a \div M) + (a % M)
OBVIOUS

LEMMA Remainder ==
    ASSUME NEW M \in Nat \ {0}, NEW a \in Nat, NEW q \in Nat, NEW r \in 0..(M - 1), a = M * q + r
    PROVE  a % M = r
<1> DEFINE p == a \div M
           s == a % M
<1>1. p \in Nat /\ s \in 0..(M - 1) /\ a = M * p + s
  BY Division
<1> HIDE DEF p, s
<1>2. CASE p < q
  <2>1. M * q >= M * p + M
    BY <1>1, <1>2, Multiples
  <2> QED BY <1>1, <2>1
<1>3. CASE q < p
  <2>1. M * p >= M * q + M
    BY <1>1, <1>3, Multiples
  <2> QED BY <1>1, <2>1
<1>4. CASE p = q
  BY <1>1, <1>4 DEF s
<1> QED BY <1>1, <1>2, <1>3, <1>4

\* Less than a modulus apart, two packets have two sequence numbers.
LEMMA Distinct ==
    ASSUME NEW M \in Nat \ {0}, NEW a \in Nat, NEW b \in Nat, a < b, b - a < M
    PROVE  a % M # b % M
<1> SUFFICES ASSUME a % M = b % M PROVE FALSE
  OBVIOUS
<1> DEFINE p == a \div M
           q == b \div M
           s == a % M
<1>1. p \in Nat /\ s \in 0..(M - 1) /\ a = M * p + s
  BY Division
<1>2. q \in Nat /\ b = M * q + s
  BY Division
<1> HIDE DEF p, q, s
<1>3. CASE p < q
  <2>1. M * q >= M * p + M
    BY <1>1, <1>2, <1>3, Multiples
  <2> QED BY <1>1, <1>2, <2>1
<1>4. CASE q < p
  <2>1. M * p >= M * q + M
    BY <1>1, <1>2, <1>4, Multiples
  <2> QED BY <1>1, <1>2, <2>1
<1>5. CASE p = q
  BY <1>1, <1>2, <1>5
<1> QED BY <1>1, <1>2, <1>3, <1>4, <1>5

\* The next sequence number is that of the next packet.
LEMMA Successor ==
    ASSUME NEW M \in Nat \ {0}, NEW a \in Nat
    PROVE  ((a % M) + 1) % M = (a + 1) % M
<1> DEFINE p == a \div M
           s == a % M
<1>1. p \in Nat /\ s \in 0..(M - 1) /\ a = M * p + s
  BY Division
<1> HIDE DEF p, s
<1>2. CASE s + 1 < M
  <2>1. a + 1 = M * p + (s + 1) /\ s + 1 \in 0..(M - 1)
    BY <1>1, <1>2
  <2>2. (a + 1) % M = s + 1
    BY <1>1, <2>1, Remainder
  <2>3. s + 1 = M * 0 + (s + 1)
    BY <1>1
  <2>4. (s + 1) % M = s + 1
    BY <1>1, <2>1, <2>3, Remainder
  <2> QED BY <2>2, <2>4 DEF s
<1>3. CASE s + 1 = M
  <2>1. M * (p + 1) = M * p + M
    BY <1>1
  <2>2. a + 1 = M * (p + 1) + 0 /\ p + 1 \in Nat /\ 0 \in 0..(M - 1) /\ a + 1 \in Nat
    BY <1>1, <1>3, <2>1
  <2>3. (a + 1) % M = 0
    BY <2>2, Remainder
  <2>4. M = M * 1 + 0 /\ M \in Nat /\ 1 \in Nat
    OBVIOUS
  <2>5. (s + 1) % M = 0
    BY <1>3, <2>2, <2>4, Remainder
  <2> QED BY <2>3, <2>5 DEF s
<1> QED BY <1>1, <1>2, <1>3

-----------------------------------------------------------------------------
(* Types.                                                                  *)

SeqNumber == 0..(SeqMod - 1)

LEMMA SeqNoType == \A i \in Nat : SeqNo(i) \in SeqNumber
BY VoiceAssumption, Division DEF SeqNo, SeqNumber

\* The turn of the delivery loop for speaker s, whose oldest payload is top.
Delivers(s, top) ==
    /\ top \in flush[s] /\ \A i \in flush[s] : top <= i
    /\ heard' = [heard EXCEPT ![s] = Append(@, IF SeqNo(top) = position[s] THEN top ELSE Lost)]
    /\ flush' = [flush EXCEPT ![s] = IF SeqNo(top) = position[s] THEN @ \ {top} ELSE @]
    /\ position' = [position EXCEPT ![s] = (@ + 1) % SeqMod]

LEMMA DeliverFacts ==
    ASSUME TypeOK, CourierDeliver
    PROVE  \E s \in Speaker, top \in Packet : Delivers(s, top)
<1> DEFINE s == Lowest(Speaking)
           top == Lowest(flush[s])
<1>1. s \in Speaker /\ flush[s] # {}
  <2>1. Speaking \in SUBSET Nat /\ Speaking # {}
    BY VoiceAssumption DEF CourierDeliver, Speaking
  <2>2. s \in Speaking
    BY <2>1, LowestOf
  <2> QED BY <2>2 DEF Speaking
<1> HIDE DEF s
<1>2. flush[s] \in SUBSET Packet /\ Packet \subseteq Nat
  BY <1>1, VoiceAssumption DEF TypeOK, Packet
<1>3. top \in flush[s] /\ \A i \in flush[s] : top <= i
  BY <1>1, <1>2, LowestOf
<1>4. Delivers(s, top)
  BY <1>3 DEF CourierDeliver, Delivers, s
<1> HIDE DEF top
<1> QED BY <1>1, <1>2, <1>3, <1>4

\* What the callers of cleanup do.
Cleans == \E c \in Caller : Cleanup(c) \/ CleanupStep(c)

LEMMA TypeStep ==
    ASSUME TypeOK, [Next]_vars
    PROVE  TypeOK'
<1> USE VoiceAssumption
<1>1. CASE UNCHANGED vars
  BY <1>1 DEF vars, rangeVars, courierVars, cleanVars, netVars, TypeOK
<1>2. ASSUME NEW s \in Speaker, NEW i \in MayArrive(s), ReadReady(s, i)
      PROVE  TypeOK'
  <2>1. i \in Packet /\ i \in 0..MaxPackets /\ i \in 0..(MaxPackets + 1) /\ SeqNo(i) \in 0..(SeqMod - 1)
    BY <1>2, SeqNoType DEF MayArrive, Packet, SeqNumber
  <2>2. CASE TooLate(s, i)
    BY <1>2, <2>1, <2>2 DEF ReadReady, rangeVars, courierVars, cleanVars, TypeOK
  <2>3. CASE ~ TooLate(s, i)
    <3>1. parked' \in [Speaker -> SUBSET Packet]
      <4>1. parked' = [parked EXCEPT ![s] = @ \union {i}]
        BY <1>2, <2>3 DEF ReadReady
      <4> QED BY <2>1, <4>1 DEF TypeOK
    <3>2. arrived' \in [Speaker -> SUBSET Packet] /\ accepted' \in [Speaker -> SUBSET Packet]
      <4>1. /\ arrived' = [arrived EXCEPT ![s] = @ \union {i}]
            /\ accepted' = [accepted EXCEPT ![s] = @ \union {i}]
        BY <1>2, <2>3 DEF ReadReady
      <4> QED BY <2>1, <4>1 DEF TypeOK
    <3>3. decoder' \in [Speaker -> BOOLEAN] /\ jumbled' \in [Speaker -> BOOLEAN]
      BY <1>2, <2>1, <2>3 DEF ReadReady, TypeOK
    <3>4. min_seq' \in [Speaker -> 0..(SeqMod - 1)] /\ max_seq' \in [Speaker -> 0..(SeqMod - 1)]
      <4>1. /\ min_seq' = [min_seq EXCEPT ![s] = IF decoder[s] THEN @ ELSE SeqNo(i)]
            /\ max_seq' = [max_seq EXCEPT ![s] = SeqNo(i)]
        BY <1>2, <2>3 DEF ReadReady
      <4> QED BY <2>1, <4>1 DEF TypeOK
    <3>5. /\ min_timestamp' \in [Speaker -> 0..(MaxPackets + 1)]
          /\ max_timestamp' \in [Speaker -> 0..MaxPackets]
      <4>1. /\ min_timestamp' = [min_timestamp EXCEPT ![s] = IF decoder[s] THEN @ ELSE i]
            /\ max_timestamp' = [max_timestamp EXCEPT ![s] = i]
        BY <1>2, <2>3 DEF ReadReady
      <4> QED BY <2>1, <4>1 DEF TypeOK
    <3> QED BY <1>2, <2>3, <3>1, <3>2, <3>3, <3>4, <3>5 DEF ReadReady, courierVars, cleanVars, TypeOK
  <2> QED BY <2>2, <2>3
<1>3. CASE Cleans
  <2>1. PICK c \in Caller : Cleanup(c) \/ CleanupStep(c)
    BY <1>3 DEF Cleans
  <2>2. CASE Cleanup(c)
    <3>1. cleanups' \in 0..MaxCleanups
      BY <2>2 DEF Cleanup, TypeOK
    <3>2. cleaner' \in [Caller -> {"idle", "terminate", "notify", "join", "leave"}]
      BY <2>2 DEF Cleanup, TypeOK
    <3> QED BY <2>2, <3>1, <3>2 DEF Cleanup, rangeVars, courierVars, netVars, TypeOK
  <2>3. CASE CleanupTerminate(c)
    BY <2>3 DEF CleanupTerminate, rangeVars, courierVars, netVars, TypeOK
  <2>4. CASE CleanupNotify(c) \/ CleanupJoin(c)
    BY <2>4 DEF CleanupNotify, CleanupJoin, Notified, rangeVars, netVars, TypeOK
  <2>5. CASE CleanupLeave(c)
    BY <2>5 DEF CleanupLeave, rangeVars, courierVars, netVars, TypeOK
  <2> QED BY <2>1, <2>2, <2>3, <2>4, <2>5 DEF CleanupStep
<1>4. CASE LoopStep \/ JoinedTwice \/ CourierSpurious \/ CourierWakes \/ CourierFlushed
  <2>1. CASE UsedDestroyed \/ JoinedTwice
    BY <2>1 DEF UsedDestroyed, JoinedTwice, rangeVars, courierVars, netVars, TypeOK
  <2>2. CASE NotifyCourier \/ StartCourier
    BY <2>2 DEF NotifyCourier, StartCourier, Notified, rangeVars, cleanVars, netVars, TypeOK
  <2>3. CASE CourierSpurious \/ CourierWakes \/ CourierFlushed
    BY <2>3 DEF CourierSpurious, CourierWakes, CourierFlushed, rangeVars, cleanVars, netVars, TypeOK
  <2> QED BY <1>4, <2>1, <2>2, <2>3 DEF LoopStep
<1>5. CASE CourierCollect
  <2>1. \A s \in Speaker : NextMinSeq(s) \in 0..(SeqMod - 1)
    <3>1. ASSUME NEW s \in Speaker PROVE NextMinSeq(s) \in 0..(SeqMod - 1)
      <4>1. max_seq[s] + 1 \in Nat
        BY DEF TypeOK
      <4> QED BY <4>1, Division DEF NextMinSeq
    <3> QED BY <3>1
  <2>2. \A s \in Speaker : max_timestamp[s] + 1 \in 0..(MaxPackets + 1)
    BY DEF TypeOK
  <2>3. min_seq' \in [Speaker -> 0..(SeqMod - 1)]
    BY <1>5, <2>1 DEF CourierCollect, TypeOK
  <2>4. min_timestamp' \in [Speaker -> 0..(MaxPackets + 1)]
    BY <1>5, <2>2 DEF CourierCollect, TypeOK
  <2> QED BY <1>5, <2>3, <2>4 DEF CourierCollect, cleanVars, netVars, TypeOK
<1>6. CASE CourierDeliver
  <2>1. PICK s \in Speaker, top \in Packet : Delivers(s, top)
    BY <1>6, DeliverFacts
  <2>2. (position[s] + 1) % SeqMod \in 0..(SeqMod - 1)
    <3>1. position[s] + 1 \in Nat
      BY DEF TypeOK
    <3> QED BY <3>1, Division
  <2>3. position' \in [Speaker -> 0..(SeqMod - 1)]
    BY <2>1, <2>2 DEF Delivers, TypeOK
  <2>4. flush' \in [Speaker -> SUBSET Packet]
    BY <2>1 DEF Delivers, TypeOK
  <2>5. heard' \in [Speaker -> Seq(Packet \union {Lost})]
    <3> DEFINE x == IF SeqNo(top) = position[s] THEN top ELSE Lost
    <3>1. x \in Packet \union {Lost} /\ heard[s] \in Seq(Packet \union {Lost})
      BY DEF TypeOK
    <3>2. heard' = [heard EXCEPT ![s] = Append(heard[s], x)]
      BY <2>1 DEF Delivers
    <3> HIDE DEF x
    <3>3. Append(heard[s], x) \in Seq(Packet \union {Lost})
      BY <3>1, AppendProperties
    <3> QED BY <3>2, <3>3 DEF TypeOK
  <2> QED BY <1>6, <2>3, <2>4, <2>5 DEF CourierDeliver, rangeVars, cleanVars, netVars, TypeOK
<1>7. CASE CourierFails
  BY <1>7 DEF CourierFails, rangeVars, cleanVars, netVars, TypeOK
<1> QED BY <1>1, <1>2, <1>3, <1>4, <1>5, <1>6, <1>7 DEF Next, Cleans, CourierStep

-----------------------------------------------------------------------------
(* Where a payload is.                                                     *)

\* The payloads that have left for the handlers.
Gone(s) == accepted[s] \ (parked[s] \union flush[s])

PlacesOf(s) ==
    /\ flush[s] \subseteq accepted[s] /\ flush[s] \intersect parked[s] = {}
    /\ \A k \in 1..Len(heard[s]) : heard[s][k] # Lost => heard[s][k] \in Gone(s)
    /\ \A i \in Gone(s) : \E k \in 1..Len(heard[s]) : heard[s][k] = i
    /\ \A j, k \in 1..Len(heard[s]) : heard[s][j] = heard[s][k] /\ heard[s][k] # Lost => j = k

PlaceInv ==
    /\ courier # "deliver" => \A s \in Speaker : flush[s] = {}
    /\ \A s \in Speaker : accepted[s] \subseteq arrived[s] /\ parked[s] \subseteq accepted[s]
    /\ ~ failed => \A s \in Speaker : PlacesOf(s)

\* The steps that only move the two threads on.
Quiet ==
    /\ UNCHANGED <<parked, rangeVars, flush, position, netVars, heard, failed>>
    /\ courier' # "deliver" => courier # "deliver" \/ Speaking = {}

LEMMA QuietSteps ==
    ASSUME \/ Cleans \/ LoopStep \/ JoinedTwice
           \/ CourierSpurious \/ CourierWakes \/ CourierFlushed \/ UNCHANGED vars
    PROVE  Quiet
<1>1. CASE JoinedTwice \/ CourierSpurious \/ CourierWakes \/ CourierFlushed \/ UNCHANGED vars
  BY <1>1 DEF JoinedTwice, CourierSpurious, CourierWakes, CourierFlushed, vars, courierVars, Quiet
<1>2. CASE LoopStep
  BY <1>2 DEF LoopStep, NotifyCourier, StartCourier, UsedDestroyed, Notified, courierVars, Quiet
<1>3. CASE Cleans
  <2>1. PICK c \in Caller : Cleanup(c) \/ CleanupStep(c)
    BY <1>3 DEF Cleans
  <2>2. CASE Cleanup(c) \/ CleanupTerminate(c) \/ CleanupLeave(c)
    BY <2>2 DEF Cleanup, CleanupTerminate, CleanupLeave, courierVars, Quiet
  <2>3. CASE CleanupNotify(c) \/ CleanupJoin(c)
    BY <2>3 DEF CleanupNotify, CleanupJoin, Notified, Quiet
  <2> QED BY <2>1, <2>2, <2>3 DEF CleanupStep
<1> QED BY <1>1, <1>2, <1>3

\* What the delivery of a payload, or of an event for a lost one, adds.
LEMMA HeardMore ==
    ASSUME TypeOK, NEW s \in Speaker, NEW top \in Packet, Delivers(s, top)
    PROVE  LET x == IF SeqNo(top) = position[s] THEN top ELSE Lost
               n == Len(heard[s])
           IN  /\ n \in Nat /\ Len(heard'[s]) = n + 1 /\ heard'[s][n + 1] = x
               /\ \A k \in 1..n : heard'[s][k] = heard[s][k]
               /\ \A t \in Speaker \ {s} : heard'[t] = heard[t]
<1> DEFINE x == IF SeqNo(top) = position[s] THEN top ELSE Lost
<1>1. heard[s] \in Seq(Packet \union {Lost}) /\ x \in Packet \union {Lost}
  BY DEF TypeOK
<1>2. heard' = [heard EXCEPT ![s] = Append(heard[s], x)]
  BY DEF Delivers
<1> HIDE DEF x
<1>3. heard'[s] = Append(heard[s], x) /\ \A t \in Speaker \ {s} : heard'[t] = heard[t]
  BY <1>2 DEF TypeOK
<1>4. /\ Len(heard[s]) \in Nat /\ Len(Append(heard[s], x)) = Len(heard[s]) + 1
      /\ Append(heard[s], x)[Len(heard[s]) + 1] = x
      /\ \A k \in 1..Len(heard[s]) : Append(heard[s], x)[k] = heard[s][k]
  BY <1>1, AppendProperties, LenProperties
<1> QED BY <1>3, <1>4 DEF x

LEMMA PlaceStep ==
    ASSUME TypeOK, PlaceInv, [Next]_vars
    PROVE  PlaceInv'
<1>1. CASE \/ Cleans \/ LoopStep \/ JoinedTwice
           \/ CourierSpurious \/ CourierWakes \/ CourierFlushed \/ UNCHANGED vars
  <2>1. /\ UNCHANGED <<parked, flush, arrived, accepted, heard, failed>>
        /\ courier' # "deliver" => courier # "deliver" \/ Speaking = {}
    BY <1>1, QuietSteps DEF Quiet, netVars
  <2>2. \A s \in Speaker : PlacesOf(s) => PlacesOf(s)'
    BY <2>1 DEF PlacesOf, Gone
  <2>3. Speaking = {} => \A s \in Speaker : flush[s] = {}
    BY DEF Speaking
  <2> QED BY <2>1, <2>2, <2>3 DEF PlaceInv
<1>2. ASSUME NEW s \in Speaker, NEW i \in MayArrive(s), ReadReady(s, i)
      PROVE  PlaceInv'
  <2>1. /\ UNCHANGED <<courier, flush, heard, failed>> /\ i \notin arrived[s]
        /\ \A t \in Speaker : arrived'[t] = IF t = s THEN arrived[s] \union {i} ELSE arrived[t]
    BY <1>2 DEF ReadReady, MayArrive, courierVars, TypeOK
  <2>2. CASE TooLate(s, i)
    <3>1. UNCHANGED <<parked, accepted>>
      BY <1>2, <2>2 DEF ReadReady
    <3>2. \A t \in Speaker : PlacesOf(t) => PlacesOf(t)'
      BY <2>1, <3>1 DEF PlacesOf, Gone
    <3> QED BY <2>1, <3>1, <3>2 DEF PlaceInv
  <2>3. CASE ~ TooLate(s, i)
    <3>1. \A t \in Speaker :
             /\ parked'[t] = IF t = s THEN parked[s] \union {i} ELSE parked[t]
             /\ accepted'[t] = IF t = s THEN accepted[s] \union {i} ELSE accepted[t]
      BY <1>2, <2>3 DEF ReadReady, TypeOK
    <3>2. i \notin accepted[s]
      BY <2>1 DEF PlaceInv
    <3>3. ASSUME NEW t \in Speaker, PlacesOf(t) PROVE PlacesOf(t)'
      <4>1. CASE t # s
        BY <2>1, <3>1, <3>3, <4>1 DEF PlacesOf, Gone
      <4>2. CASE t = s
        <5>1. Gone(s)' = Gone(s)
          BY <2>1, <3>1, <3>2, <3>3, <4>2 DEF PlacesOf, Gone
        <5> QED BY <2>1, <3>1, <3>2, <3>3, <4>2, <5>1 DEF PlacesOf
      <4> QED BY <4>1, <4>2
    <3> QED BY <2>1, <3>1, <3>3 DEF PlaceInv
  <2> QED BY <2>2, <2>3
<1>3. CASE CourierCollect
  <2>1. /\ courier = "collect" /\ UNCHANGED <<heard, failed, arrived, accepted>>
        /\ flush' = parked /\ \A s \in Speaker : parked'[s] = {}
        /\ courier' # "deliver" => ~ HasPayload
    BY <1>3 DEF CourierCollect, netVars
  <2>2. \A s \in Speaker : flush[s] = {}
    BY <2>1 DEF PlaceInv
  <2>3. ASSUME NEW s \in Speaker, PlacesOf(s) PROVE PlacesOf(s)'
    <3>1. Gone(s)' = Gone(s)
      BY <2>1, <2>2 DEF Gone
    <3> QED BY <2>1, <2>2, <2>3, <3>1 DEF PlaceInv, PlacesOf
  <2>4. courier' # "deliver" => \A s \in Speaker : flush'[s] = {}
    BY <2>1 DEF HasPayload
  <2> QED BY <2>1, <2>3, <2>4 DEF PlaceInv
<1>4. CASE CourierDeliver
  <2>1. PICK s \in Speaker, top \in Packet : Delivers(s, top)
    BY <1>4, DeliverFacts
  <2>2. /\ courier = "deliver" /\ UNCHANGED <<courier, parked, arrived, accepted, failed>>
    BY <1>4 DEF CourierDeliver, netVars
  <2> DEFINE due == SeqNo(top) = position[s]
             n == Len(heard[s])
             x == IF due THEN top ELSE Lost
  <2>3. /\ top \in flush[s]
        /\ flush'[s] = (IF due THEN flush[s] \ {top} ELSE flush[s])
        /\ \A t \in Speaker \ {s} : flush'[t] = flush[t]
    BY <2>1 DEF Delivers, TypeOK
  <2>4. /\ n \in Nat /\ Len(heard'[s]) = n + 1 /\ heard'[s][n + 1] = x
        /\ \A k \in 1..n : heard'[s][k] = heard[s][k]
        /\ \A t \in Speaker \ {s} : heard'[t] = heard[t]
    BY <2>1, HeardMore
  <2>5. top # Lost
    BY VoiceAssumption DEF Packet, Lost
  <2> HIDE DEF due, n
  <2>6. ASSUME NEW t \in Speaker, PlacesOf(t) PROVE PlacesOf(t)'
    <3>1. CASE t # s
      BY <2>2, <2>3, <2>4, <2>6, <3>1 DEF PlacesOf, Gone
    <3>2. CASE t = s
      <4>1. Gone(s)' = IF due THEN Gone(s) \union {top} ELSE Gone(s)
        BY <2>2, <2>3, <2>6, <3>2 DEF PlacesOf, Gone
      <4>2. top \notin Gone(s)
        BY <2>3 DEF Gone
      <4>3. /\ \A k \in 1..n : heard[s][k] # Lost => heard[s][k] \in Gone(s)
            /\ \A i \in Gone(s) : \E k \in 1..n : heard[s][k] = i
            /\ \A j, k \in 1..n : heard[s][j] = heard[s][k] /\ heard[s][k] # Lost => j = k
        BY <2>6, <3>2 DEF PlacesOf, n
      <4>4. \A k \in 1..(n + 1) : k \in 1..n \/ k = n + 1
        BY <2>4
      <4>5. 1..n \subseteq 1..(n + 1) /\ n + 1 \in 1..(n + 1)
        BY <2>4
      <4>6. \A k \in 1..(n + 1) : heard'[s][k] # Lost => heard'[s][k] \in Gone(s)'
        BY <2>4, <4>1, <4>3, <4>4
      <4>7. \A i \in Gone(s)' : \E k \in 1..(n + 1) : heard'[s][k] = i
        BY <2>4, <4>1, <4>3, <4>5
      <4>8. ASSUME NEW j \in 1..(n + 1), NEW k \in 1..(n + 1), heard'[s][j] = heard'[s][k], heard'[s][k] # Lost
            PROVE  j = k
        <5>1. CASE j \in 1..n /\ k \in 1..n
          BY <2>4, <4>3, <4>8, <5>1
        <5>2. CASE j = n + 1 /\ k \in 1..n
          BY <2>4, <4>2, <4>3, <4>8, <5>2
        <5>3. CASE k = n + 1 /\ j \in 1..n
          BY <2>4, <4>2, <4>3, <4>8, <5>3
        <5> QED BY <4>4, <5>1, <5>2, <5>3
      <4>9. flush'[s] \subseteq accepted[s] /\ flush'[s] \intersect parked[s] = {}
        BY <2>3, <2>6, <3>2 DEF PlacesOf
      <4> QED BY <2>2, <2>4, <3>2, <4>6, <4>7, <4>8, <4>9 DEF PlacesOf
    <3> QED BY <3>1, <3>2
  <2> QED BY <2>2, <2>6 DEF PlaceInv
<1>5. CASE CourierFails
  BY <1>5 DEF CourierFails, netVars, PlaceInv
<1> QED BY <1>1, <1>2, <1>3, <1>4, <1>5 DEF Next, Cleans, CourierStep

-----------------------------------------------------------------------------
(* The order of a stream whose packets came in order.                      *)

Fresh(s) == ~ decoder[s] /\ heard[s] = <<>> /\ accepted[s] = {}

\* The packet of the stream the courier has come to.
Come(s, lo) == lo + Len(heard[s])

Ranges(s, lo) ==
    /\ decoder[s]
    /\ \A i \in accepted[s] : lo <= i /\ i <= max_timestamp[s]
    /\ max_timestamp[s] \in accepted[s] /\ max_seq[s] = SeqNo(max_timestamp[s])
    /\ Come(s, lo) <= min_timestamp[s] /\ min_timestamp[s] <= max_timestamp[s] + 1
    /\ min_seq[s] = SeqNo(min_timestamp[s])

NearBy(s, lo) ==
    \A i \in accepted[s] : i # lo => \E b \in accepted[s] : b < i /\ i <= b + MaxGap + 1

Batches(s, lo) ==
    /\ parked[s] = {i \in accepted[s] : min_timestamp[s] <= i}
    /\ flush[s] = {i \in accepted[s] : Come(s, lo) <= i /\ i < min_timestamp[s]}
    /\ Come(s, lo) < min_timestamp[s] =>
        min_timestamp[s] - 1 \in accepted[s] /\ position[s] = SeqNo(Come(s, lo))

Events(s, lo) ==
    \A k \in 1..Len(heard[s]) :
        heard[s][k] = IF lo + k - 1 \in accepted[s] THEN lo + k - 1 ELSE Lost

InOrder(s, lo) == Ranges(s, lo) /\ NearBy(s, lo) /\ Batches(s, lo) /\ Events(s, lo)

OrderOf(s) ==
    /\ arrived[s] = accepted[s]
    /\ Fresh(s) \/ \E lo \in accepted[s] : InOrder(s, lo)

OrderInv == ~ failed => \A s \in Speaker : ~ jumbled[s] => OrderOf(s)

\* A step that leaves a speaker alone.
LEMMA OrderKept ==
    ASSUME NEW s \in Speaker, OrderOf(s),
           <<parked[s], decoder[s], min_seq[s], max_seq[s], min_timestamp[s], max_timestamp[s]>>' =
               <<parked[s], decoder[s], min_seq[s], max_seq[s], min_timestamp[s], max_timestamp[s]>>,
           <<flush[s], position[s], arrived[s], accepted[s], heard[s]>>' =
               <<flush[s], position[s], arrived[s], accepted[s], heard[s]>>
    PROVE  OrderOf(s)'
<1>1. CASE Fresh(s)
  BY <1>1 DEF OrderOf, Fresh
<1>2. ASSUME NEW lo \in accepted[s], InOrder(s, lo)
      PROVE  InOrder(s, lo)'
  BY <1>2 DEF InOrder, Ranges, NearBy, Batches, Events, Come
<1> QED BY <1>1, <1>2 DEF OrderOf

\* A packet arrives after all those before it.
LEMMA OrderReads ==
    ASSUME TypeOK, PlaceInv, NEW s \in Speaker, OrderOf(s), ~ failed,
           NEW i \in MayArrive(s), ReadReady(s, i), ~ jumbled'[s]
    PROVE  OrderOf(s)'
<1> USE VoiceAssumption
<1>1. /\ i \in Packet /\ i \in Nat /\ i \notin arrived[s] /\ i <= Highest(arrived[s]) + 1 + MaxGap
      /\ ~ (i < Highest(arrived[s])) /\ arrived'[s] = arrived[s] \union {i}
      /\ UNCHANGED <<flush, position, heard>>
  <2>1. /\ i \in Packet /\ i \notin arrived[s] /\ i <= Highest(arrived[s]) + 1 + MaxGap
        /\ arrived' = [arrived EXCEPT ![s] = @ \union {i}]
        /\ jumbled' = [jumbled EXCEPT ![s] = @ \/ i < Highest(arrived[s])]
        /\ UNCHANGED <<flush, position, heard>>
    BY DEF MayArrive, ReadReady, courierVars
  <2>2. arrived'[s] = arrived[s] \union {i}
    BY <2>1 DEF TypeOK
  <2>3. jumbled'[s] = (jumbled[s] \/ i < Highest(arrived[s]))
    BY <2>1, Zenon DEF TypeOK
  <2>4. i \in Nat
    BY <2>1 DEF Packet
  <2> QED BY <2>1, <2>2, <2>3, <2>4
<1>2. accepted[s] \in SUBSET Nat /\ arrived[s] = accepted[s] /\ Len(heard[s]) \in Nat
      /\ min_timestamp[s] \in Nat /\ max_timestamp[s] \in Nat
  BY LenProperties DEF TypeOK, Packet, OrderOf
<1>3. CASE Fresh(s)
  <2>1. ~ TooLate(s, i)
    BY <1>3 DEF Fresh, TooLate
  <2>2. /\ parked'[s] = parked[s] \union {i} /\ decoder'[s] /\ accepted'[s] = accepted[s] \union {i}
        /\ min_seq'[s] = SeqNo(i) /\ min_timestamp'[s] = i
        /\ max_seq'[s] = SeqNo(i) /\ max_timestamp'[s] = i
    BY <1>3, <2>1 DEF ReadReady, TypeOK, Fresh
  <2>3. accepted[s] = {} /\ heard[s] = <<>> /\ Len(heard[s]) = 0 /\ flush[s] = {} /\ parked[s] = {}
    BY <1>3 DEF Fresh, PlaceInv, PlacesOf
  <2>4. InOrder(s, i)'
    BY <1>1, <2>2, <2>3 DEF InOrder, Ranges, NearBy, Batches, Events, Come
  <2> QED BY <1>1, <1>2, <2>2, <2>3, <2>4 DEF OrderOf
<1>4. ASSUME NEW lo \in accepted[s], InOrder(s, lo)
      PROVE  OrderOf(s)'
  <2> DEFINE m == max_timestamp[s]
             T == min_timestamp[s]
  <2>1. m \in accepted[s] /\ \A j \in accepted[s] : lo <= j /\ j <= m
    BY <1>4 DEF InOrder, Ranges
  <2>2. Highest(arrived[s]) = m
    BY <1>2, <2>1, HighestIs
  <2>3. m < i /\ i <= m + 1 + MaxGap /\ m \in Nat /\ T \in Nat /\ lo \in Nat
    BY <1>1, <1>2, <2>1, <2>2
  <2>4. T <= m + 1 /\ T <= i /\ ~ TooLate(s, i) /\ decoder[s]
    <3>1. T <= m + 1 /\ decoder[s]
      BY <1>4 DEF InOrder, Ranges
    <3>2. T <= i /\ ~ (i < T)
      BY <1>1, <2>3, <3>1
    <3> QED BY <3>1, <3>2 DEF TooLate
  <2>5. /\ parked'[s] = parked[s] \union {i} /\ decoder'[s] /\ accepted'[s] = accepted[s] \union {i}
        /\ min_seq'[s] = min_seq[s] /\ min_timestamp'[s] = T
        /\ max_seq'[s] = SeqNo(i) /\ max_timestamp'[s] = i
    BY <2>4 DEF ReadReady, TypeOK
  <2> HIDE DEF m, T
  <2>6. Come(s, lo)' = Come(s, lo) /\ Come(s, lo) \in Nat /\ Come(s, lo) <= T
    BY <1>1, <1>2, <1>4, <2>3 DEF Come, InOrder, Ranges, T
  <2>7. Ranges(s, lo)'
    <3>1. \A j \in accepted'[s] : lo <= j /\ j <= i
      <4>1. \A j \in accepted[s] : j \in Nat /\ lo <= j /\ j <= m
        BY <1>2, <2>1
      <4>2. lo <= m
        BY <4>1
      <4> QED BY <2>3, <2>5, <4>1, <4>2, <1>1
    <3>2. i \in accepted'[s] /\ T <= i + 1
      BY <1>1, <2>3, <2>4, <2>5
    <3>3. min_seq[s] = SeqNo(T)
      BY <1>4 DEF InOrder, Ranges, T
    <3> QED BY <2>5, <2>6, <3>1, <3>2, <3>3 DEF Ranges
  <2>8. NearBy(s, lo)'
    <3>1. m < i /\ i <= m + MaxGap + 1
      BY <2>3
    <3> QED BY <1>4, <2>1, <2>5, <3>1 DEF InOrder, NearBy
  <2>9. Batches(s, lo)'
    <3>1. parked'[s] = {j \in accepted'[s] : T <= j}
      BY <1>4, <2>4, <2>5 DEF InOrder, Batches, T
    <3>2. flush'[s] = {j \in accepted'[s] : Come(s, lo) <= j /\ j < T}
      <4>1. flush[s] = {j \in accepted[s] : Come(s, lo) <= j /\ j < T}
        BY <1>4 DEF InOrder, Batches, T
      <4>2. ~ (i < T)
        BY <1>1, <2>3, <2>4
      <4> QED BY <1>1, <2>5, <4>1, <4>2
    <3>3. Come(s, lo) < T => T - 1 \in accepted'[s] /\ position'[s] = SeqNo(Come(s, lo))
      BY <1>1, <1>4, <2>5 DEF InOrder, Batches, T
    <3> QED BY <2>5, <2>6, <3>1, <3>2, <3>3 DEF Batches
  <2>10. Events(s, lo)'
    <3>1. ASSUME NEW k \in 1..Len(heard[s]) PROVE lo + k - 1 # i
      BY <1>2, <2>3, <2>4, <2>6, <1>1 DEF Come
    <3> QED BY <1>1, <1>4, <2>5, <3>1 DEF InOrder, Events
  <2>11. lo \in accepted'[s] /\ arrived'[s] = accepted'[s]
    BY <1>1, <1>2, <2>5
  <2> QED BY <2>7, <2>8, <2>9, <2>10, <2>11 DEF OrderOf, InOrder
<1> QED BY <1>3, <1>4 DEF OrderOf

\* The courier takes what is parked.
LEMMA OrderCollects ==
    ASSUME TypeOK, PlaceInv, NEW s \in Speaker, OrderOf(s), ~ failed, CourierCollect
    PROVE  OrderOf(s)'
<1> USE VoiceAssumption
<1>1. /\ UNCHANGED <<decoder, max_seq, max_timestamp, arrived, accepted, heard>>
      /\ flush' = parked /\ parked'[s] = {} /\ position' = min_seq
      /\ min_seq'[s] = IF decoder[s] THEN NextMinSeq(s) ELSE min_seq[s]
      /\ min_timestamp'[s] = IF decoder[s] THEN max_timestamp[s] + 1 ELSE min_timestamp[s]
  BY DEF CourierCollect, netVars
<1>2. accepted[s] \in SUBSET Nat /\ Len(heard[s]) \in Nat
      /\ min_timestamp[s] \in Nat /\ max_timestamp[s] \in Nat
  BY LenProperties DEF TypeOK, Packet
<1>3. flush[s] = {}
  BY DEF CourierCollect, PlaceInv
<1>4. CASE Fresh(s)
  BY <1>1, <1>4 DEF Fresh, OrderOf
<1>5. ASSUME NEW lo \in accepted[s], InOrder(s, lo)
      PROVE  OrderOf(s)'
  <2> DEFINE m == max_timestamp[s]
             T == min_timestamp[s]
             p == Come(s, lo)
  <2>1. /\ m \in Nat /\ T \in Nat /\ lo \in Nat /\ p \in Nat
        /\ p <= T /\ T <= m + 1 /\ m \in accepted[s] /\ decoder[s]
        /\ \A j \in accepted[s] : lo <= j /\ j <= m
    BY <1>2, <1>5 DEF InOrder, Ranges, Come
  <2>2. p = T
    <3>1. p < T => T - 1 \in flush[s]
      <4>1. p < T => p <= T - 1 /\ T - 1 < T /\ T - 1 \in accepted[s]
        BY <1>5, <2>1 DEF InOrder, Batches
      <4> QED BY <1>5, <4>1 DEF InOrder, Batches
    <3> QED BY <1>3, <2>1, <3>1
  <2>3. min_timestamp'[s] = m + 1 /\ min_seq'[s] = SeqNo(m + 1)
    BY <1>1, <1>5, <2>1, Successor DEF NextMinSeq, SeqNo, InOrder, Ranges
  <2>4. Come(s, lo)' = p
    BY <1>1 DEF Come
  <2> HIDE DEF m, T, p
  <2>5. Ranges(s, lo)'
    <3>1. p <= m + 1
      BY <2>1, <2>2
    <3> QED BY <1>1, <1>5, <2>1, <2>3, <2>4, <3>1 DEF InOrder, Ranges, m
  <2>6. NearBy(s, lo)' /\ Events(s, lo)'
    BY <1>1, <1>5 DEF InOrder, NearBy, Events
  <2>7. parked'[s] = {j \in accepted[s] : m + 1 <= j}
    BY <1>1, <1>2, <2>1
  <2>8. flush'[s] = {j \in accepted[s] : p <= j /\ j < m + 1}
    BY <1>1, <1>2, <1>5, <2>1, <2>2 DEF InOrder, Batches, T
  <2>9. position'[s] = SeqNo(p) /\ m + 1 - 1 \in accepted[s]
    BY <1>1, <1>5, <2>1, <2>2 DEF InOrder, Ranges, T
  <2>10. Batches(s, lo)'
    <3> DEFINE q == Come(s, lo)'
               U == min_timestamp'[s]
    <3>1. q = p /\ U = m + 1 /\ accepted'[s] = accepted[s]
      BY <1>1, <2>3, <2>4
    <3> HIDE DEF q, U
    <3>2. parked'[s] = {j \in accepted'[s] : U <= j}
      BY <2>7, <3>1
    <3>3. flush'[s] = {j \in accepted'[s] : q <= j /\ j < U}
      BY <2>8, <3>1
    <3>4. U - 1 \in accepted'[s] /\ position'[s] = SeqNo(q)
      <4>1. U - 1 = m
        BY <2>1, <3>1
      <4> QED BY <2>1, <2>9, <3>1, <4>1
    <3> QED BY <3>2, <3>3, <3>4 DEF Batches, q, U
  <2> QED BY <1>1, <2>5, <2>6, <2>10 DEF OrderOf, InOrder
<1> QED BY <1>4, <1>5 DEF OrderOf

\* One turn of the delivery loop, for the speaker it serves.
LEMMA OrderDelivers ==
    ASSUME TypeOK, NEW s \in Speaker, NEW top \in Packet, Delivers(s, top), OrderOf(s),
           flush[s] \subseteq accepted[s], UNCHANGED <<parked, rangeVars, netVars>>
    PROVE  OrderOf(s)'
<1> USE VoiceAssumption
<1> DEFINE T == min_timestamp[s]
           n == Len(heard[s])
           due == SeqNo(top) = position[s]
<1>1. /\ accepted[s] \in SUBSET Nat /\ n \in Nat /\ top \in Nat
      /\ T \in Nat /\ max_timestamp[s] \in Nat
  BY LenProperties DEF TypeOK, Packet
<1>2. /\ UNCHANGED <<parked, decoder, min_seq, max_seq, min_timestamp, max_timestamp, arrived, accepted>>
      /\ top \in flush[s] /\ \A i \in flush[s] : top <= i
      /\ flush'[s] = IF due THEN flush[s] \ {top} ELSE flush[s]
      /\ position'[s] = (position[s] + 1) % SeqMod
  BY DEF Delivers, rangeVars, netVars, TypeOK
<1>3. /\ Len(heard'[s]) = n + 1 /\ heard'[s][n + 1] = (IF due THEN top ELSE Lost)
      /\ \A k \in 1..n : heard'[s][k] = heard[s][k]
  BY HeardMore
<1> HIDE DEF due, n, T
<1>4. ASSUME NEW lo \in accepted[s], InOrder(s, lo)
      PROVE  OrderOf(s)'
  <2> DEFINE p == lo + n
  <2>1. lo \in Nat /\ p \in Nat /\ p + 1 \in Nat /\ lo <= p /\ Come(s, lo) = p /\ Come(s, lo)' = p + 1
    <3>1. Come(s, lo) = p /\ Come(s, lo)' = lo + (n + 1)
      BY <1>3 DEF Come, n
    <3>2. lo \in Nat
      BY <1>1
    <3> QED BY <1>1, <3>1, <3>2
  <2>2. flush[s] = {i \in accepted[s] : p <= i /\ i < T}
    BY <1>4, <2>1 DEF InOrder, Batches, T
  <2> HIDE DEF p
  <2>3. top \in accepted[s] /\ p <= top /\ top < T /\ p < T /\ p + 1 <= T
    BY <1>1, <1>2, <2>1, <2>2
  <2>4. T - 1 \in accepted[s] /\ position[s] = SeqNo(p) /\ position'[s] = SeqNo(p + 1)
    <3>1. T - 1 \in accepted[s] /\ position[s] = SeqNo(p)
      BY <1>4, <2>1, <2>3 DEF InOrder, Batches, T
    <3> QED BY <1>2, <2>1, <3>1, Successor DEF SeqNo
  <2>5. /\ due <=> p \in accepted[s]
        /\ due => top = p
    <3>1. CASE top = p
      BY <2>3, <2>4, <3>1 DEF due
    <3>2. CASE top # p
      <4>1. p < top /\ lo # top
        BY <1>1, <2>1, <2>3, <3>2
      <4>2. p \notin accepted[s]
        BY <1>1, <1>2, <2>1, <2>2, <2>3, <4>1
      <4>3. PICK b \in accepted[s] : b < top /\ top <= b + MaxGap + 1
        BY <1>4, <2>3, <4>1 DEF InOrder, NearBy
      <4>4. b \in Nat /\ ~ (p <= b)
        BY <1>1, <1>2, <2>1, <2>2, <2>3, <4>3
      <4>5. top - p < SeqMod
        BY <1>1, <2>1, <4>3, <4>4
      <4>6. SeqNo(p) # SeqNo(top)
        BY <1>1, <2>1, <4>1, <4>5, Distinct DEF SeqNo
      <4> QED BY <2>4, <4>2, <4>6 DEF due
    <3> QED BY <3>1, <3>2
  <2>6. Ranges(s, lo)'
    BY <1>2, <1>4, <2>1, <2>3 DEF InOrder, Ranges, T
  <2>7. NearBy(s, lo)'
    BY <1>2, <1>4 DEF InOrder, NearBy
  <2>8. Batches(s, lo)'
    <3>1. parked'[s] = {i \in accepted'[s] : min_timestamp'[s] <= i}
      BY <1>2, <1>4 DEF InOrder, Batches
    <3>2. flush'[s] = {i \in accepted'[s] : p + 1 <= i /\ i < T}
      <4>1. \A i \in accepted[s] : p + 1 <= i <=> p <= i /\ i # p
        BY <1>1, <2>1
      <4>2. CASE due
        BY <1>2, <2>2, <2>5, <4>1, <4>2
      <4>3. CASE ~ due
        BY <1>2, <2>2, <2>5, <4>1, <4>3
      <4> QED BY <4>2, <4>3
    <3>3. T - 1 \in accepted'[s] /\ position'[s] = SeqNo(p + 1) /\ min_timestamp'[s] = T
      BY <1>2, <2>4 DEF T
    <3> QED BY <2>1, <3>1, <3>2, <3>3 DEF Batches
  <2>9. Events(s, lo)'
    <3>1. ASSUME NEW k \in 1..(n + 1)
          PROVE  heard'[s][k] = IF lo + k - 1 \in accepted[s] THEN lo + k - 1 ELSE Lost
      <4>1. CASE k \in 1..n
        BY <1>3, <1>4, <4>1 DEF InOrder, Events, n
      <4>2. CASE k = n + 1
        <5>1. lo + k - 1 = p
          BY <1>1, <2>1, <4>2 DEF p
        <5> QED BY <1>3, <2>5, <4>2, <5>1
      <4> QED BY <1>1, <4>1, <4>2
    <3> QED BY <1>2, <1>3, <3>1 DEF Events
  <2> QED BY <1>2, <2>6, <2>7, <2>8, <2>9 DEF InOrder, OrderOf
<1>5. ~ Fresh(s)
  BY <1>2 DEF Fresh
<1> QED BY <1>4, <1>5 DEF OrderOf

LEMMA OrderStep ==
    ASSUME TypeOK, PlaceInv, OrderInv, [Next]_vars
    PROVE  OrderInv'
<1> SUFFICES ASSUME ~ failed', NEW s \in Speaker, ~ jumbled'[s]
             PROVE  OrderOf(s)'
  BY DEF OrderInv
<1>1. CASE \/ Cleans \/ LoopStep \/ JoinedTwice
           \/ CourierSpurious \/ CourierWakes \/ CourierFlushed \/ UNCHANGED vars
  <2>1. UNCHANGED <<parked, rangeVars, flush, position, netVars, heard, failed>>
    BY <1>1, QuietSteps DEF Quiet
  <2>2. OrderOf(s)
    BY <2>1 DEF OrderInv, netVars
  <2> QED BY <2>1, <2>2, OrderKept DEF rangeVars, netVars
<1>2. ASSUME NEW t \in Speaker, NEW i \in MayArrive(t), ReadReady(t, i)
      PROVE  OrderOf(s)'
  <2>1. UNCHANGED <<flush, position, heard, failed>>
    BY <1>2 DEF ReadReady, courierVars
  <2>2. jumbled' = [jumbled EXCEPT ![t] = @ \/ i < Highest(arrived[t])]
    BY <1>2 DEF ReadReady
  <2>3. ~ jumbled[s]
    BY <2>2, Zenon DEF TypeOK
  <2>4. OrderOf(s)
    BY <2>1, <2>3 DEF OrderInv
  <2>5. CASE t = s
    BY <1>2, <2>1, <2>4, <2>5, OrderReads
  <2>6. CASE t # s
    <3>1. /\ parked'[s] = parked[s] /\ arrived'[s] = arrived[s] /\ accepted'[s] = accepted[s]
          /\ decoder'[s] = decoder[s] /\ min_seq'[s] = min_seq[s] /\ max_seq'[s] = max_seq[s]
          /\ min_timestamp'[s] = min_timestamp[s] /\ max_timestamp'[s] = max_timestamp[s]
      BY <1>2, <2>6 DEF ReadReady, rangeVars, TypeOK
    <3> QED BY <2>1, <2>4, <3>1, OrderKept
  <2> QED BY <2>5, <2>6
<1>3. CASE CourierCollect
  <2>1. UNCHANGED <<failed, jumbled>>
    BY <1>3 DEF CourierCollect, netVars
  <2> QED BY <1>3, <2>1, OrderCollects DEF OrderInv
<1>4. CASE CourierDeliver
  <2>1. PICK t \in Speaker, top \in Packet : Delivers(t, top)
    BY <1>4, DeliverFacts
  <2>2. UNCHANGED <<parked, rangeVars, netVars, failed>>
    BY <1>4 DEF CourierDeliver
  <2>3. OrderOf(s)
    BY <2>2 DEF OrderInv, netVars
  <2>4. CASE t = s
    <3>1. flush[s] \subseteq accepted[s]
      BY <2>2 DEF PlaceInv, PlacesOf
    <3> QED BY <2>1, <2>2, <2>3, <2>4, <3>1, OrderDelivers
  <2>5. CASE t # s
    <3>1. heard'[s] = heard[s] /\ flush'[s] = flush[s] /\ position'[s] = position[s]
      BY <2>1, <2>5 DEF Delivers, TypeOK
    <3> QED BY <2>2, <2>3, <3>1, OrderKept DEF rangeVars, netVars
  <2> QED BY <2>4, <2>5
<1>5. CASE CourierFails
  BY <1>5 DEF CourierFails
<1> QED BY <1>1, <1>2, <1>3, <1>4, <1>5 DEF Next, Cleans, CourierStep

-----------------------------------------------------------------------------
(* The theorems.                                                           *)

IInv == TypeOK /\ PlaceInv /\ OrderInv

LEMMA Invariant == Spec => []IInv
<1>1. Init => IInv
  <2> SUFFICES ASSUME Init PROVE IInv
    OBVIOUS
  <2>1. 0 \in 0..(SeqMod - 1) /\ 0 \in 0..(MaxPackets + 1) /\ 0 \in 0..MaxPackets /\ 0 \in 0..MaxCleanups
    BY VoiceAssumption
  <2>2. /\ parked \in [Speaker -> SUBSET Packet] /\ flush \in [Speaker -> SUBSET Packet]
        /\ arrived \in [Speaker -> SUBSET Packet] /\ accepted \in [Speaker -> SUBSET Packet]
        /\ decoder \in [Speaker -> BOOLEAN] /\ jumbled \in [Speaker -> BOOLEAN]
    BY DEF Init
  <2>3. /\ min_seq \in [Speaker -> 0..(SeqMod - 1)] /\ max_seq \in [Speaker -> 0..(SeqMod - 1)]
        /\ position \in [Speaker -> 0..(SeqMod - 1)]
        /\ min_timestamp \in [Speaker -> 0..(MaxPackets + 1)]
        /\ max_timestamp \in [Speaker -> 0..MaxPackets]
    BY <2>1 DEF Init
  <2>4. heard \in [Speaker -> Seq(Packet \union {Lost})]
    BY DEF Init
  <2>5. TypeOK
    BY <2>1, <2>2, <2>3, <2>4 DEF Init, TypeOK
  <2>6. PlaceInv
    BY DEF Init, PlaceInv, PlacesOf, Gone
  <2>7. OrderInv
    BY DEF Init, OrderInv, OrderOf, Fresh
  <2> QED BY <2>5, <2>6, <2>7 DEF IInv
<1>2. IInv /\ [Next]_vars => IInv'
  BY TypeStep, PlaceStep, OrderStep DEF IInv
<1> QED BY <1>1, <1>2, PTL DEF Spec

\* Every variable of the receiving side keeps its type, whatever is lost, delayed
\* or cleaned up: ranges and position stay sequence numbers below SeqMod, and what
\* read_ready parks and the courier takes are packets.
THEOREM TypeCorrect == Spec => []TypeOK
BY Invariant, PTL DEF IInv

\* A packet is counted once where it is.
LEMMA CountOnce ==
    ASSUME TypeOK, NEW s \in Speaker, PlacesOf(s), parked[s] \subseteq accepted[s], NEW i \in Packet
    PROVE  Places(s, i) = IF i \in accepted[s] THEN 1 ELSE 0
<1> DEFINE K == {k \in 1..Len(heard[s]) : heard[s][k] = i}
<1>1. i # Lost
  BY VoiceAssumption DEF Packet, Lost
<1>2. CASE i \in Gone(s)
  <2>1. PICK k \in 1..Len(heard[s]) : heard[s][k] = i
    BY <1>2 DEF PlacesOf
  <2>2. K = {k}
    BY <1>1, <2>1 DEF PlacesOf
  <2>3. Times(s, i) = 1
    BY <2>2, FS_Singleton DEF Times
  <2> QED BY <1>2, <2>3 DEF Places, Gone
<1>3. CASE i \notin Gone(s)
  <2>1. K = {}
    BY <1>1, <1>3 DEF PlacesOf
  <2>2. Times(s, i) = 0
    BY <2>1, FS_EmptySet DEF Times
  <2> QED BY <1>3, <2>2 DEF Places, Gone, PlacesOf
<1> QED BY <1>2, <1>3

\* Between read_ready, the courier and the callers of cleanup no payload parked is
\* lost or handed over twice, and when a speaker's packets come in order the
\* handlers get one event per packet in that order, the payload or a lost one in
\* its place, however often the sequence number wraps around.
THEOREM HeardAsSent == Spec => []HeardFaithfully
<1>1. IInv => HeardFaithfully
  <2> SUFFICES ASSUME TypeOK, PlaceInv, OrderInv, ~ failed, NEW s \in Speaker
               PROVE  /\ \A i \in Packet : Places(s, i) = IF i \in accepted[s] THEN 1 ELSE 0
                      /\ ~ jumbled[s] /\ accepted[s] # {} =>
                          \A k \in 1..Len(heard[s]) :
                              heard[s][k] = LET i == Lowest(accepted[s]) + k - 1
                                            IN  IF i \in accepted[s] THEN i ELSE Lost
    BY DEF IInv, HeardFaithfully
  <2>1. \A i \in Packet : Places(s, i) = IF i \in accepted[s] THEN 1 ELSE 0
    BY CountOnce DEF PlaceInv
  <2>2. ASSUME ~ jumbled[s], accepted[s] # {}, NEW k \in 1..Len(heard[s])
        PROVE  heard[s][k] = LET i == Lowest(accepted[s]) + k - 1
                             IN  IF i \in accepted[s] THEN i ELSE Lost
    <3>1. PICK lo \in accepted[s] : InOrder(s, lo)
      BY <2>2 DEF OrderInv, OrderOf, Fresh
    <3>2. accepted[s] \in SUBSET Nat
      BY VoiceAssumption DEF TypeOK, Packet
    <3>3. \A i \in accepted[s] : lo <= i
      BY <3>1 DEF InOrder, Ranges
    <3>4. Lowest(accepted[s]) = lo
      BY <3>2, <3>3, LowestIs
    <3> QED BY <3>1, <3>4 DEF InOrder, Events
  <2> QED BY <2>1, <2>2
<1> QED BY <1>1, Invariant, PTL

=============================================================================
