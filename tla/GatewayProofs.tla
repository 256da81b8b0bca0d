--------------------------- MODULE GatewayProofs ---------------------------
(***************************************************************************)
(* Theorems about Gateway, for any number of shards and of events, and any *)
(* bound on frames and lag: types, no shard is forgotten, the session that *)
(* a client would resume is the one whose events were handled, and these   *)
(* are neither lost, repeated nor reordered.                               *)
(*                                                                         *)
(* The argument is about one shard at a time.  Good relates its client, the*)
(* frames on their way, the request, the gateway's session and the history *)
(* as plain values: the frames continue what the client has handled, number*)
(* by number (Counted), up to where the gateway's session stands or to the *)
(* news that it is over.  Each operation has a lemma Good... on values and *)
(* a lemma ...Step that applies it to the action.  What the shards share   *)
(* (timers, reconnections, the starting thread) is in the step lemmas.     *)
(***************************************************************************)
EXTENDS Gateway, SequenceTheorems, WellFoundedInduction, TLAPS

\* A set of numbers that is not empty has a least one.
LEMMA LeastNumber ==
    ASSUME NEW T, T \subseteq Nat, T # {}
    PROVE  \E x \in T : \A y \in T : x <= y
<1>1. PICK x \in T : \A y \in T : ~ (<<y, x>> \in OpToRel(<, Nat))
  BY NatLessThanWellFounded, WFMin
<1>2. \A y \in T : ~ (y < x)
  BY <1>1 DEF OpToRel
<1>3. \A y \in T : x <= y
  BY <1>2
<1> QED BY <1>3

\* The frames of w carry the events of session id after number a, up to z:
\* n[i] is the number of the last event in the first i frames.
CountedBy(w, id, a, z, n) ==
    /\ n \in [0..Len(w) -> Nat]
    /\ n[0] = a /\ n[Len(w)] = z
    /\ \A i \in 1..Len(w) :
        \/ /\ w[i].op = "ready" /\ n[i - 1] = 0
           /\ n[i] = 1 /\ w[i].seq = 1 /\ w[i].session = id
        \/ /\ w[i].op = "event" /\ n[i - 1] # 0
           /\ n[i] = n[i - 1] + 1 /\ w[i].seq = n[i] /\ w[i].session = id
        \/ w[i].op \in {"resumed", "ack", "reconnect"} /\ n[i] = n[i - 1]
Counted(w, id, a, z) == \E n : CountedBy(w, id, a, z, n)

\* No frames carry no event.
LEMMA CountedEmpty ==
    ASSUME NEW id, NEW a \in Nat
    PROVE  Counted(<<>>, id, a, a)
<1>1. CountedBy(<<>>, id, a, a, [i \in 0..0 |-> a])
  BY DEF CountedBy
<1> QED BY <1>1 DEF Counted

\* The elements of a tail.
LEMMA TailAt ==
    ASSUME NEW X, NEW w \in Seq(X), w # <<>>
    PROVE  /\ Tail(w) \in Seq(X) /\ Head(w) \in X /\ Head(w) = w[1] /\ Len(w) \in Nat
           /\ 1 \in 1..Len(w) /\ Len(Tail(w)) = Len(w) - 1
           /\ \A i \in 1..(Len(w) - 1) : Tail(w)[i] = w[i + 1]
<1>1. /\ Head(w) \in X /\ Tail(w) \in Seq(X) /\ Len(Tail(w)) = Len(w) - 1
      /\ \A i \in 1..Len(Tail(w)) : Tail(w)[i] = w[i + 1]
  BY HeadTailProperties
<1>2. Len(w) \in Nat \ {0}
  BY EmptySeq
<1> QED BY <1>1, <1>2

\* The first of the counted frames is the next event, or carries none; the rest
\* is counted from there.
LEMMA CountedTail ==
    ASSUME NEW w \in Seq(Frame), w # <<>>, NEW id, NEW a \in Nat, NEW z, Counted(w, id, a, z)
    PROVE  LET f == Head(w) IN
           \/ /\ f.op = "ready" /\ a = 0 /\ f.seq = 1 /\ f.session = id
              /\ Counted(Tail(w), id, 1, z)
           \/ /\ f.op = "event" /\ a # 0 /\ f.seq = a + 1 /\ f.session = id
              /\ Counted(Tail(w), id, a + 1, z)
           \/ /\ f.op \in {"resumed", "ack", "reconnect"}
              /\ Counted(Tail(w), id, a, z)
<1>1. PICK n : CountedBy(w, id, a, z, n)
  BY DEF Counted
<1>2. /\ n \in [0..Len(w) -> Nat] /\ n[0] = a /\ n[Len(w)] = z
      /\ \A i \in 1..Len(w) :
        \/ /\ w[i].op = "ready" /\ n[i - 1] = 0
           /\ n[i] = 1 /\ w[i].seq = 1 /\ w[i].session = id
        \/ /\ w[i].op = "event" /\ n[i - 1] # 0
           /\ n[i] = n[i - 1] + 1 /\ w[i].seq = n[i] /\ w[i].session = id
        \/ w[i].op \in {"resumed", "ack", "reconnect"} /\ n[i] = n[i - 1]
  BY <1>1 DEF CountedBy
<1>3. /\ Tail(w) \in Seq(Frame) /\ Head(w) = w[1] /\ Len(w) \in Nat
      /\ 1 \in 1..Len(w) /\ Len(Tail(w)) = Len(w) - 1
      /\ \A i \in 1..(Len(w) - 1) : Tail(w)[i] = w[i + 1]
  BY TailAt
<1> DEFINE v == Tail(w)
           m == [i \in 0..Len(v) |-> n[i + 1]]
<1> HIDE DEF v
<1>4. Len(v) = Len(w) - 1 /\ \A i \in 1..(Len(w) - 1) : v[i] = w[i + 1]
  BY <1>3 DEF v
<1>5. CountedBy(v, id, n[1], z, m)
  <2>1. m \in [0..Len(v) -> Nat] /\ m[0] = n[1] /\ m[Len(v)] = z
    BY <1>2, <1>3, <1>4
  <2>2. ASSUME NEW i \in 1..Len(v)
        PROVE  v[i] = w[i + 1] /\ m[i] = n[i + 1] /\ m[i - 1] = n[(i + 1) - 1] /\ i + 1 \in 1..Len(w)
    BY <1>3, <1>4
  <2> HIDE DEF m
  <2> QED BY <1>2, <2>1, <2>2 DEF CountedBy
<1>6. Counted(v, id, n[1], z)
  BY <1>5 DEF Counted
<1>7. \/ /\ w[1].op = "ready" /\ a = 0
         /\ n[1] = 1 /\ w[1].seq = 1 /\ w[1].session = id
      \/ /\ w[1].op = "event" /\ a # 0
         /\ n[1] = a + 1 /\ w[1].seq = n[1] /\ w[1].session = id
      \/ w[1].op \in {"resumed", "ack", "reconnect"} /\ n[1] = a
  BY <1>2, <1>3
<1> QED BY <1>3, <1>6, <1>7 DEF v

\* A sequence with one more element.
LEMMA OneMore ==
    ASSUME NEW X, NEW w \in Seq(X), NEW f \in X
    PROVE  /\ w \o <<f>> \in Seq(X) /\ Len(w) \in Nat /\ Len(w \o <<f>>) = Len(w) + 1
           /\ \A i \in 1..Len(w) : (w \o <<f>>)[i] = w[i]
           /\ (w \o <<f>>)[Len(w) + 1] = f
<1>1. <<f>> \in Seq(X) /\ Len(<<f>>) = 1 /\ <<f>>[1] = f
  OBVIOUS
<1>2. Len(w) \in Nat
  BY LenProperties
<1> DEFINE g == <<f>>
<1> HIDE DEF g
<1>3. /\ w \o g \in Seq(X) /\ Len(w \o g) = Len(w) + Len(g)
      /\ \A i \in 1..Len(w) + Len(g) : (w \o g)[i] = IF i <= Len(w) THEN w[i] ELSE g[i - Len(w)]
  <2>1. g \in Seq(X)
    BY <1>1 DEF g
  <2> QED BY <2>1, ConcatProperties
<1>4. Len(g) = 1 /\ g[1] = f
  BY <1>1 DEF g
<1>5. \A i \in 1..Len(w) : (w \o g)[i] = w[i]
  BY <1>2, <1>3, <1>4
<1>6. (w \o g)[Len(w) + 1] = f
  BY <1>2, <1>3, <1>4
<1> QED BY <1>2, <1>3, <1>4, <1>5, <1>6 DEF g

\* One more event, or one more frame without a number, at the end.
LEMMA CountedMore ==
    ASSUME NEW w \in Seq(Frame), NEW id, NEW a, NEW z \in Nat, Counted(w, id, a, z),
           NEW f \in Frame, NEW y \in Nat,
           \/ f.op = "event" /\ z # 0 /\ f.seq = z + 1 /\ f.session = id /\ y = z + 1
           \/ f.op \in {"resumed", "ack", "reconnect"} /\ y = z
    PROVE  Counted(w \o <<f>>, id, a, y)
<1>1. PICK n : CountedBy(w, id, a, z, n)
  BY DEF Counted
<1>2. /\ n \in [0..Len(w) -> Nat] /\ n[0] = a /\ n[Len(w)] = z
      /\ \A i \in 1..Len(w) :
        \/ /\ w[i].op = "ready" /\ n[i - 1] = 0
           /\ n[i] = 1 /\ w[i].seq = 1 /\ w[i].session = id
        \/ /\ w[i].op = "event" /\ n[i - 1] # 0
           /\ n[i] = n[i - 1] + 1 /\ w[i].seq = n[i] /\ w[i].session = id
        \/ w[i].op \in {"resumed", "ack", "reconnect"} /\ n[i] = n[i - 1]
  BY <1>1 DEF CountedBy
<1> DEFINE v == w \o <<f>>
           m == [i \in 0..Len(v) |-> IF i = Len(v) THEN y ELSE n[i]]
<1>3. /\ Len(w) \in Nat /\ Len(v) = Len(w) + 1
      /\ \A i \in 1..Len(w) : v[i] = w[i]
      /\ v[Len(w) + 1] = f
  BY OneMore
<1> HIDE DEF v
<1>4. m \in [0..Len(v) -> Nat] /\ m[0] = a /\ m[Len(v)] = y
  BY <1>2, <1>3
<1>5. \A i \in 0..Len(w) : m[i] = n[i]
  BY <1>3
<1>6. m[Len(w) + 1] = y
  BY <1>3
<1> HIDE DEF m
<1>7. ASSUME NEW i \in 1..Len(v)
      PROVE  \/ /\ v[i].op = "ready" /\ m[i - 1] = 0
                /\ m[i] = 1 /\ v[i].seq = 1 /\ v[i].session = id
             \/ /\ v[i].op = "event" /\ m[i - 1] # 0
                /\ m[i] = m[i - 1] + 1 /\ v[i].seq = m[i] /\ v[i].session = id
             \/ v[i].op \in {"resumed", "ack", "reconnect"} /\ m[i] = m[i - 1]
  <2>1. CASE i \in 1..Len(w)
    <3>1. v[i] = w[i] /\ m[i] = n[i] /\ m[i - 1] = n[i - 1]
      BY <1>3, <1>5, <2>1
    <3> QED BY <1>2, <2>1, <3>1
  <2>2. CASE i \notin 1..Len(w)
    <3>1. i = Len(w) + 1
      BY <1>3, <2>2
    <3>2. v[i] = f /\ m[i] = y /\ m[i - 1] = z
      BY <1>2, <1>3, <1>5, <1>6, <3>1
    <3> QED BY <3>2
  <2> QED BY <2>1, <2>2
<1>8. CountedBy(v, id, a, y, m)
  BY <1>4, <1>7 DEF CountedBy
<1> QED BY <1>8 DEF Counted, v


\* The number of the last event never falls.
LEMMA CountedUp ==
    ASSUME NEW w \in Seq(Frame), NEW id, NEW a \in Nat, NEW z \in Nat, Counted(w, id, a, z)
    PROVE  a <= z
<1>1. PICK n : CountedBy(w, id, a, z, n)
  BY DEF Counted
<1>2. Len(w) \in Nat
  BY LenProperties
<1>3. n \in [0..Len(w) -> Nat] /\ n[0] = a /\ n[Len(w)] = z
  BY <1>1 DEF CountedBy
<1>4. \A i \in 1..Len(w) : n[i - 1] <= n[i]
  BY <1>1, <1>2 DEF CountedBy
<1> DEFINE T == {i \in 0..Len(w) : n[i] < a}
<1>5. SUFFICES ASSUME z < a PROVE FALSE
  OBVIOUS
<1>6. T \subseteq Nat /\ T # {}
  BY <1>2, <1>3, <1>5
<1> HIDE DEF T
<1>7. PICK i \in T : \A j \in T : i <= j
  BY <1>6, LeastNumber
<1>8. i \in 1..Len(w) /\ n[i] < a
  BY <1>2, <1>3, <1>7 DEF T
<1>9. i - 1 \in 0..Len(w) /\ i - 1 \notin T
  BY <1>2, <1>6, <1>7, <1>8
<1>10. ~ (n[i - 1] < a) /\ n[i - 1] \in Nat /\ n[i] \in Nat
  BY <1>3, <1>8, <1>9 DEF T
<1> QED BY <1>4, <1>8, <1>10

\* The larger of a number and zero.
LEMMA MaxZero ==
    ASSUME NEW k \in Nat
    PROVE  Max({k, 0}) = k
<1>1. \E x \in {k, 0} : \A y \in {k, 0} : x >= y
  OBVIOUS
<1> QED BY <1>1 DEF Max

\* What the gateway sends on a resume from event a: the events up to z.
LEMMA CountedReplay ==
    ASSUME NEW id \in Sessions \union {NoSession}, NEW a \in Nat, a # 0, NEW z \in Nat, a <= z
    PROVE  LET w == [i \in 1..Max({z - a, 0}) |-> FrameOf("event", id, a + i)]
                        \o <<FrameOf("resumed", id, 0)>>
           IN  w \in Seq(Frame) /\ w # <<>> /\ Counted(w, id, a, z)
<1>1. z - a \in Nat /\ Max({z - a, 0}) = z - a
  BY MaxZero
<1>2. PICK k \in Nat : k = z - a
  BY <1>1
<1> DEFINE v == [i \in 1..k |-> FrameOf("event", id, a + i)]
           f == FrameOf("resumed", id, 0)
<1>3. f \in Frame /\ f.op = "resumed"
  BY DEF FrameOf, Frame
<1>4. \A i \in 1..k : /\ FrameOf("event", id, a + i) \in Frame
                      /\ FrameOf("event", id, a + i).op = "event"
                      /\ FrameOf("event", id, a + i).seq = a + i
                      /\ FrameOf("event", id, a + i).session = id
  BY DEF FrameOf, Frame
<1>5. v \in Seq(Frame) /\ Len(v) = k
  BY <1>4
<1>6. \A i \in 1..k : v[i].op = "event" /\ v[i].seq = a + i /\ v[i].session = id
  BY <1>4
<1> HIDE DEF v, f
<1> DEFINE n == [i \in 0..k |-> a + i]
<1>7. n \in [0..Len(v) -> Nat] /\ n[0] = a /\ n[Len(v)] = z
  BY <1>2, <1>5
<1>8. ASSUME NEW i \in 1..k
      PROVE  n[i] = a + i /\ n[i - 1] = a + i - 1 /\ n[i - 1] # 0 /\ n[i] = n[i - 1] + 1
  OBVIOUS
<1> HIDE DEF n
<1>9. CountedBy(v, id, a, z, n)
  BY <1>5, <1>6, <1>7, <1>8 DEF CountedBy
<1>10. Counted(v, id, a, z)
  BY <1>9 DEF Counted
<1>11. Counted(v \o <<f>>, id, a, z)
  BY <1>3, <1>5, <1>10, CountedMore
<1>12. v \o <<f>> \in Seq(Frame) /\ Len(v \o <<f>>) = Len(v) + 1
  BY <1>3, <1>5, OneMore
<1>13. v \o <<f>> # <<>>
  BY <1>5, <1>12
<1> QED BY <1>1, <1>2, <1>11, <1>12, <1>13 DEF v, f

\* The answer to an identify.
LEMMA CountedReady ==
    ASSUME NEW id \in Sessions
    PROVE  LET w == <<FrameOf("ready", id, 1)>>
           IN  w \in Seq(Frame) /\ w # <<>> /\ Counted(w, id, 0, 1)
<1>1. PICK f : f = FrameOf("ready", id, 1)
  OBVIOUS
<1>2. f \in Frame /\ f.op = "ready" /\ f.seq = 1 /\ f.session = id
  BY <1>1 DEF FrameOf, Frame
<1>3. CountedBy(<<f>>, id, 0, 1, [i \in 0..1 |-> i])
  BY <1>2 DEF CountedBy
<1>4. Counted(<<f>>, id, 0, 1)
  BY <1>3 DEF Counted
<1> QED BY <1>1, <1>2, <1>4

\* The first frame of a sequence that ends with f.
LEMMA TailOneMore ==
    ASSUME NEW X, NEW w \in Seq(X), NEW f \in X
    PROVE  /\ w \o <<f>> # <<>>
           /\ w = <<>> => Head(w \o <<f>>) = f /\ Tail(w \o <<f>>) = <<>>
           /\ w # <<>> => Head(w \o <<f>>) = Head(w) /\ Tail(w \o <<f>>) = Tail(w) \o <<f>>
<1> DEFINE v == w \o <<f>>
<1>1. /\ v \in Seq(X) /\ Len(w) \in Nat /\ Len(v) = Len(w) + 1
      /\ \A i \in 1..Len(w) : v[i] = w[i]
      /\ v[Len(w) + 1] = f
  BY OneMore
<1> HIDE DEF v
<1>2. v # <<>>
  BY <1>1
<1>3. /\ Tail(v) \in Seq(X) /\ Head(v) = v[1] /\ Len(Tail(v)) = Len(v) - 1
      /\ \A i \in 1..(Len(v) - 1) : Tail(v)[i] = v[i + 1]
  BY <1>1, <1>2, TailAt
<1>4. ASSUME w = <<>> PROVE Head(v) = f /\ Tail(v) = <<>>
  <2>1. Len(w) = 0
    BY <1>4
  <2>2. Head(v) = f /\ Len(Tail(v)) = 0
    BY <1>1, <1>3, <2>1
  <2> QED BY <1>3, <2>2, EmptySeq
<1>5. ASSUME w # <<>> PROVE Head(v) = Head(w) /\ Tail(v) = Tail(w) \o <<f>>
  <2>1. /\ Tail(w) \in Seq(X) /\ Head(w) = w[1] /\ 1 \in 1..Len(w) /\ Len(Tail(w)) = Len(w) - 1
        /\ \A i \in 1..(Len(w) - 1) : Tail(w)[i] = w[i + 1]
    BY <1>5, TailAt
  <2> DEFINE t == Tail(w)
             u == t \o <<f>>
             tv == Tail(v)
  <2> HIDE DEF t
  <2>2. t \in Seq(X) /\ Len(t) = Len(w) - 1 /\ \A i \in 1..(Len(w) - 1) : t[i] = w[i + 1]
    BY <2>1 DEF t
  <2>3. /\ u \in Seq(X) /\ Len(u) = Len(t) + 1
        /\ \A i \in 1..Len(t) : u[i] = t[i]
        /\ u[Len(t) + 1] = f
    BY <2>2, OneMore
  <2> HIDE DEF u, tv
  <2>4. tv \in Seq(X) /\ Len(tv) = Len(w) /\ \A i \in 1..Len(w) : tv[i] = v[i + 1]
    BY <1>1, <1>3 DEF tv
  <2>5. Len(u) = Len(w)
    BY <1>1, <2>2, <2>3
  <2>6. ASSUME NEW i \in 1..Len(w) PROVE tv[i] = u[i]
    <3>1. CASE i = Len(w)
      BY <1>1, <2>2, <2>3, <2>4, <3>1
    <3>2. CASE i # Len(w)
      <4>1. i \in 1..(Len(w) - 1) /\ i + 1 \in 1..Len(w)
        BY <1>1, <3>2
      <4> QED BY <1>1, <2>2, <2>3, <2>4, <4>1
    <3> QED BY <3>1, <3>2
  <2>7. tv = u
    <3>1. \A i \in 1..Len(tv) : tv[i] = u[i]
      BY <2>4, <2>6
    <3> QED BY <2>3, <2>4, <2>5, <3>1, SeqEqual
  <2>8. Head(v) = Head(w)
    BY <1>1, <1>3, <2>1
  <2> QED BY <2>7, <2>8 DEF t, u, tv
<1> QED BY <1>2, <1>4, <1>5 DEF v


-----------------------------------------------------------------------------
(* One shard: its client, the frames and the request on their way, the     *)
(* gateway's session of it, its history and its live identify timers.      *)

Ids == Sessions \union {NoSession}
History == [session : Ids, events : Seq(Nat)]

Typed(c, w, rq, id, sq, at, sn) ==
    /\ c \in Client /\ w \in Seq(Frame) /\ rq \in Request
    /\ id \in Ids /\ sq \in Nat /\ at \in BOOLEAN /\ sn \in History

Fresh(c) == c.sessionid = NoSession
Online(c) == c.sock = "open" /\ c.state = "CONNECTED"
Quiet(w, rq, at) == w = <<>> /\ rq.op = "none" /\ at = FALSE

\* A shard that was not started, or whose connection is being made, waits for
\* no timer, and no shard ever waits for two.
TimersFit(c, tm) ==
    /\ \A t, u \in tm : t = u
    /\ c.sock = "absent" => tm = {}
    /\ c.sock = "open" /\ c.state = "HTTP_HEADERS" => tm = {}

\* The client's session and sequence are those of the events it has handled.
SeenFits(c, sn) ==
    /\ sn.session = c.sessionid
    /\ Len(sn.events) = c.last_seq
    /\ \A i \in 1..Len(sn.events) : sn.events[i] = i
    /\ Fresh(c) <=> c.last_seq = 0
    /\ c.sock \in {"absent", "null"} => Fresh(c)

\* The gateway's session is the client's and is at or ahead of it.
SessionFits(c, id, sq) ==
    id # NoSession =>
        /\ sq # 0
        /\ Fresh(c) \/ (c.sessionid = id /\ c.last_seq <= sq)

\* The frames on their way continue what the client has handled.
Carried(c, w, id, z) ==
    /\ id # NoSession
    /\ Fresh(c) \/ c.sessionid = id
    /\ Counted(w, id, c.last_seq, z)

InvalidFrame == FrameOf("invalid_session", NoSession, 0)
HelloFrame == FrameOf("hello", NoSession, 0)

\* The same, up to the news that the session is over.
Doomed(c, w) ==
    \E v \in Seq(Frame), id \in Sessions, z \in Nat :
        w = v \o <<InvalidFrame>> /\ Carried(c, v, id, z)

LinkFits(c, w, rq, id, sq, at, tm) ==
    /\ ~ Online(c) => Quiet(w, rq, at)
    /\ Online(c) /\ tm # {} => Quiet(w, rq, at) /\ Fresh(c)
    /\ rq.op # "none" => w = <<>> /\ at = FALSE
    /\ rq.op = "identify" => Fresh(c)
    /\ rq.op = "resume" => ~ Fresh(c) /\ rq.session = c.sessionid /\ rq.seq = c.last_seq
    /\ at = TRUE => Carried(c, w, id, sq)
    /\ w # <<>> /\ at = FALSE => w = <<HelloFrame>> \/ (id = NoSession /\ Doomed(c, w))

Good(c, w, rq, id, sq, at, sn, tm) ==
    /\ Typed(c, w, rq, id, sq, at, sn)
    /\ TimersFit(c, tm)
    /\ SeenFits(c, sn)
    /\ SessionFits(c, id, sq)
    /\ LinkFits(c, w, rq, id, sq, at, tm)

\* A shard before it is started.
LEMMA GoodInit ==
    Good(NoClient("absent"), <<>>, NoRequest, NoSession, 0, FALSE, Nothing, {})
<1>1. NoClient("absent") \in Client /\ NoRequest \in Request
  BY GatewayAssumption DEF NoClient, Client, NoRequest, Request, Sessions
<1>2. Nothing \in History /\ Nothing.session = NoSession /\ Len(Nothing.events) = 0
  BY DEF Nothing, History, Ids
<1>3. <<>> \in Seq(Frame)
  OBVIOUS
<1>4. Typed(NoClient("absent"), <<>>, NoRequest, NoSession, 0, FALSE, Nothing)
  BY <1>1, <1>2, <1>3 DEF Typed, Ids
<1>5. SeenFits(NoClient("absent"), Nothing)
  BY <1>2 DEF SeenFits, Fresh, NoClient
<1>6. TimersFit(NoClient("absent"), {}) /\ SessionFits(NoClient("absent"), NoSession, 0)
  BY DEF TimersFit, SessionFits
<1>7. LinkFits(NoClient("absent"), <<>>, NoRequest, NoSession, 0, FALSE, {})
  BY DEF LinkFits, Online, NoClient, Quiet, NoRequest
<1> QED BY <1>4, <1>5, <1>6, <1>7 DEF Good

\* A client that replaces one without a connection: it takes over the session
\* or there is none.
LEMMA GoodNew ==
    ASSUME NEW c, NEW w, NEW rq, NEW id, NEW sq, NEW at, NEW sn, NEW tm,
           Good(c, w, rq, id, sq, at, sn, tm), ~ Online(c)
    PROVE  /\ Good(Successor(c), w, rq, id, sq, at, sn, {})
           /\ Good(NoClient("null"), w, rq, id, sq, at, Nothing, {})
           /\ c.sock = "absent" => Good(NewClient(0, NoSession), w, rq, id, sq, at, sn, tm)
<1>1. c \in Client /\ w \in Seq(Frame) /\ rq \in Request
      /\ id \in Ids /\ sq \in Nat /\ at \in BOOLEAN /\ sn \in History
  BY DEF Good, Typed
<1>2. Quiet(w, rq, at) /\ w = <<>> /\ rq.op = "none" /\ at = FALSE
  BY DEF Good, LinkFits, Quiet
<1> DEFINE n == NoClient("null")
           u == Successor(c)
<1>3. u \in Client /\ u.sock = "open" /\ u.state = "HTTP_HEADERS"
      /\ u.last_seq = c.last_seq /\ u.sessionid = c.sessionid
  BY <1>1, GatewayAssumption DEF Successor, NewClient, Client
<1>4. n \in Client /\ n.sock = "null" /\ n.last_seq = 0 /\ n.sessionid = NoSession
  BY GatewayAssumption DEF NoClient, Client, Sessions
<1>5. Nothing \in History /\ Nothing.session = NoSession /\ Len(Nothing.events) = 0
  BY DEF Nothing, History, Ids
<1> HIDE DEF n, u
<1>6. Good(u, w, rq, id, sq, at, sn, {})
  <2>1. Typed(u, w, rq, id, sq, at, sn)
    BY <1>1, <1>3 DEF Typed
  <2>2. TimersFit(u, {})
    BY DEF TimersFit
  <2>3. SeenFits(u, sn)
    BY <1>3 DEF Good, SeenFits, Fresh
  <2>4. SessionFits(u, id, sq)
    BY <1>3 DEF Good, SessionFits, Fresh
  <2>5. LinkFits(u, w, rq, id, sq, at, {})
    BY <1>2 DEF LinkFits
  <2> QED BY <2>1, <2>2, <2>3, <2>4, <2>5 DEF Good
<1>7. Good(n, w, rq, id, sq, at, Nothing, {})
  <2>1. Typed(n, w, rq, id, sq, at, Nothing)
    BY <1>1, <1>4, <1>5 DEF Typed
  <2>2. TimersFit(n, {})
    BY DEF TimersFit
  <2>3. SeenFits(n, Nothing)
    BY <1>4, <1>5 DEF SeenFits, Fresh
  <2>4. SessionFits(n, id, sq)
    BY <1>4 DEF Good, SessionFits, Fresh
  <2>5. LinkFits(n, w, rq, id, sq, at, {})
    BY <1>2 DEF LinkFits
  <2> QED BY <2>1, <2>2, <2>3, <2>4, <2>5 DEF Good
<1>8. ASSUME c.sock = "absent" PROVE NewClient(0, NoSession) = u /\ tm = {}
  <2>1. c.sessionid = NoSession /\ c.last_seq = 0 /\ tm = {}
    BY <1>1, <1>8 DEF Good, SeenFits, TimersFit, Fresh
  <2> QED BY <2>1 DEF u, Successor
<1> QED BY <1>6, <1>7, <1>8 DEF n, u

\* The connection ends: closed, or its descriptor is lost.
LEMMA GoodEnd ==
    ASSUME NEW c, NEW w, NEW rq, NEW id, NEW sq, NEW at, NEW sn, NEW tm,
           Good(c, w, rq, id, sq, at, sn, tm), c.sock = "open", NEW d \in Client,
           d.sock \in {"closed", "lost"}, d.last_seq = c.last_seq, d.sessionid = c.sessionid
    PROVE  Good(d, <<>>, NoRequest, id, sq, FALSE, sn, tm)
<1>1. c \in Client /\ id \in Ids /\ sq \in Nat /\ sn \in History
  BY DEF Good, Typed
<1>2. NoRequest \in Request /\ NoRequest.op = "none" /\ <<>> \in Seq(Frame)
  BY DEF NoRequest, Request
<1>3. Typed(d, <<>>, NoRequest, id, sq, FALSE, sn)
  BY <1>1, <1>2 DEF Typed
<1>4. TimersFit(d, tm)
  BY DEF Good, TimersFit
<1>5. SeenFits(d, sn)
  BY DEF Good, SeenFits, Fresh
<1>6. SessionFits(d, id, sq)
  BY DEF Good, SessionFits, Fresh
<1>7. LinkFits(d, <<>>, NoRequest, id, sq, FALSE, tm)
  BY <1>2 DEF LinkFits, Online, Quiet
<1> QED BY <1>3, <1>4, <1>5, <1>6, <1>7 DEF Good

\* Nothing but the age of the last ack and the readiness changes.
LEMMA GoodSame ==
    ASSUME NEW c, NEW w, NEW rq, NEW id, NEW sq, NEW at, NEW sn, NEW tm, NEW tn,
           Good(c, w, rq, id, sq, at, sn, tm), NEW d \in Client,
           d.sock = c.sock, d.state = c.state, d.last_seq = c.last_seq,
           d.sessionid = c.sessionid,
           tm = {} => tn = {}, \A t, u \in tn : t = u
    PROVE  Good(d, w, rq, id, sq, at, sn, tn)
<1>1. Typed(d, w, rq, id, sq, at, sn)
  BY DEF Good, Typed
<1>2. TimersFit(d, tn)
  BY DEF Good, TimersFit
<1>3. SeenFits(d, sn)
  BY DEF Good, SeenFits, Fresh
<1>4. SessionFits(d, id, sq)
  BY DEF Good, SessionFits, Fresh
<1>5. \A v, i, z : Carried(c, v, i, z) <=> Carried(d, v, i, z)
  BY DEF Carried, Fresh
<1>6. Doomed(c, w) => Doomed(d, w)
  BY <1>5 DEF Doomed
<1>7. LinkFits(c, w, rq, id, sq, at, tm)
  BY DEF Good
<1>8. (Online(c) <=> Online(d)) /\ (Fresh(c) <=> Fresh(d))
  BY DEF Online, Fresh
<1>9. LinkFits(d, w, rq, id, sq, at, tn)
  BY <1>5, <1>6, <1>7, <1>8 DEF LinkFits
<1> QED BY <1>1, <1>2, <1>3, <1>4, <1>9 DEF Good


\* What the first frame on its way to a client can be.
LEMMA WireShape ==
    ASSUME NEW c, NEW w, NEW rq, NEW id, NEW sq, NEW at, NEW sn, NEW tm,
           Good(c, w, rq, id, sq, at, sn, tm), w # <<>>
    PROVE  /\ Online(c) /\ tm = {} /\ rq.op = "none"
           /\ \/ at = FALSE /\ Head(w).op = "hello" /\ Tail(w) = <<>>
              \/ /\ at = FALSE /\ id = NoSession
                 /\ Head(w).op = "invalid_session" /\ Tail(w) = <<>>
              \/ /\ at = FALSE /\ id = NoSession
                 /\ \E v \in Seq(Frame), k \in Sessions, z \in Nat :
                        /\ v # <<>> /\ Head(w) = Head(v)
                        /\ Tail(w) = Tail(v) \o <<InvalidFrame>>
                        /\ Carried(c, v, k, z)
              \/ at = TRUE /\ id \in Sessions /\ Carried(c, w, id, sq)
<1>1. w \in Seq(Frame) /\ rq \in Request /\ id \in Ids /\ at \in BOOLEAN
  BY DEF Good, Typed
<1>2. LinkFits(c, w, rq, id, sq, at, tm)
  BY DEF Good
<1>3. Online(c) /\ tm = {} /\ rq.op = "none"
  BY <1>2 DEF LinkFits, Quiet
<1>4. InvalidFrame \in Frame /\ InvalidFrame.op = "invalid_session" /\ HelloFrame.op = "hello"
  BY DEF InvalidFrame, HelloFrame, FrameOf, Frame
<1>5. CASE at = TRUE
  BY <1>1, <1>2, <1>3, <1>5 DEF LinkFits, Carried, Ids
<1>6. CASE at = FALSE
  <2>1. CASE w = <<HelloFrame>>
    <3>1. Head(w).op = "hello" /\ Tail(w) = <<>>
      BY <1>4, <2>1
    <3> QED BY <1>3, <1>6, <3>1
  <2>2. CASE id = NoSession /\ Doomed(c, w)
    <3>1. PICK v \in Seq(Frame), k \in Sessions, z \in Nat :
            w = v \o <<InvalidFrame>> /\ Carried(c, v, k, z)
      BY <2>2 DEF Doomed
    <3> DEFINE f == InvalidFrame
    <3> HIDE DEF f
    <3>2. f \in Frame /\ f.op = "invalid_session" /\ w = v \o <<f>>
      BY <1>4, <3>1 DEF f
    <3>3. /\ v = <<>> => Head(v \o <<f>>) = f /\ Tail(v \o <<f>>) = <<>>
          /\ v # <<>> => Head(v \o <<f>>) = Head(v) /\ Tail(v \o <<f>>) = Tail(v) \o <<f>>
      BY <3>2, TailOneMore, Zenon
    <3>4. CASE v = <<>>
      BY <1>3, <1>6, <2>2, <3>2, <3>3, <3>4
    <3>5. CASE v # <<>>
      <4>1. /\ v # <<>> /\ Head(w) = Head(v)
            /\ Tail(w) = Tail(v) \o <<InvalidFrame>>
            /\ Carried(c, v, k, z)
        BY <3>1, <3>2, <3>3, <3>5 DEF f
      <4> QED BY <1>3, <1>6, <2>2, <4>1
    <3> QED BY <3>4, <3>5
  <2> QED BY <1>2, <1>6, <2>1, <2>2 DEF LinkFits
<1> QED BY <1>1, <1>5, <1>6

\* The first of the frames that continue what the client has handled.
LEMMA CarriedTail ==
    ASSUME NEW c \in Client, Fresh(c) <=> c.last_seq = 0,
           NEW w \in Seq(Frame), w # <<>>, NEW k, NEW z, Carried(c, w, k, z)
    PROVE  \/ /\ Head(w).op = "ready" /\ Fresh(c) /\ Head(w).seq = 1 /\ Head(w).session = k
              /\ \A d : d.sessionid = k /\ d.last_seq = 1 => Carried(d, Tail(w), k, z)
           \/ /\ Head(w).op = "event" /\ ~ Fresh(c) /\ c.sessionid = k
              /\ Head(w).seq = c.last_seq + 1 /\ Head(w).session = k
              /\ \A d : d.sessionid = k /\ d.last_seq = c.last_seq + 1
                            => Carried(d, Tail(w), k, z)
           \/ /\ Head(w).op \in {"resumed", "ack", "reconnect"}
              /\ Carried(c, Tail(w), k, z)
<1>1. k # NoSession /\ (Fresh(c) \/ c.sessionid = k) /\ Counted(w, k, c.last_seq, z)
  BY DEF Carried
<1>2. PICK a \in Nat : a = c.last_seq
  BY DEF Client
<1>3. Counted(w, k, a, z)
  BY <1>1, <1>2
<1>4. \/ /\ Head(w).op = "ready" /\ a = 0 /\ Head(w).seq = 1 /\ Head(w).session = k
         /\ Counted(Tail(w), k, 1, z)
      \/ /\ Head(w).op = "event" /\ a # 0 /\ Head(w).seq = a + 1 /\ Head(w).session = k
         /\ Counted(Tail(w), k, a + 1, z)
      \/ /\ Head(w).op \in {"resumed", "ack", "reconnect"}
         /\ Counted(Tail(w), k, a, z)
  BY <1>3, CountedTail
<1> QED BY <1>1, <1>2, <1>4 DEF Carried

\* The frames without a number: RESUMED and the heartbeat ack.
LEMMA GoodSkip ==
    ASSUME NEW c, NEW w, NEW rq, NEW id, NEW sq, NEW at, NEW sn, NEW tm,
           Good(c, w, rq, id, sq, at, sn, tm), w # <<>>, NEW d \in Client,
           Head(w).op \in {"resumed", "ack"},
           d.sock = c.sock, d.state = c.state, d.last_seq = c.last_seq,
           d.sessionid = c.sessionid
    PROVE  Good(d, Tail(w), rq, id, sq, at, sn, tm)
<1>1. c \in Client /\ w \in Seq(Frame) /\ rq \in Request
      /\ id \in Ids /\ sq \in Nat /\ at \in BOOLEAN /\ sn \in History
      /\ (Fresh(c) <=> c.last_seq = 0)
  BY DEF Good, Typed, SeenFits
<1>2. Tail(w) \in Seq(Frame)
  BY <1>1, TailAt
<1>3. Typed(c, Tail(w), rq, id, sq, at, sn)
  BY <1>1, <1>2 DEF Typed
<1>4. Online(c) /\ tm = {} /\ rq.op = "none"
  BY WireShape
<1>5. LinkFits(c, Tail(w), rq, id, sq, at, tm)
  <2>1. CASE at = TRUE
    <3>1. id \in Sessions /\ Carried(c, w, id, sq)
      BY <2>1, WireShape
    <3>2. Carried(c, Tail(w), id, sq)
      BY <1>1, <3>1, CarriedTail
    <3> QED BY <1>4, <2>1, <3>2 DEF LinkFits
  <2>2. CASE at = FALSE
    <3>1. /\ id = NoSession
          /\ \E v \in Seq(Frame), k \in Sessions, z \in Nat :
                /\ v # <<>> /\ Head(w) = Head(v)
                /\ Tail(w) = Tail(v) \o <<InvalidFrame>>
                /\ Carried(c, v, k, z)
      BY <2>2, WireShape
    <3>2. PICK v \in Seq(Frame), k \in Sessions, z \in Nat :
                /\ v # <<>> /\ Head(w) = Head(v)
                /\ Tail(w) = Tail(v) \o <<InvalidFrame>>
                /\ Carried(c, v, k, z)
      BY <3>1
    <3>3. Tail(v) \in Seq(Frame)
      BY <3>2, TailAt
    <3>4. Carried(c, Tail(v), k, z)
      BY <1>1, <3>2, CarriedTail
    <3>5. Doomed(c, Tail(w))
      BY <3>2, <3>3, <3>4 DEF Doomed
    <3> QED BY <1>4, <2>2, <3>1, <3>5 DEF LinkFits
  <2> QED BY <1>1, <2>1, <2>2
<1>6. Good(c, Tail(w), rq, id, sq, at, sn, tm)
  BY <1>3, <1>5 DEF Good
<1>7. \A t, u \in tm : t = u
  BY <1>4
<1> QED BY <1>6, <1>7, GoodSame

\* A history is built from a session and the numbers of its events.
LEMMA HistoryOf ==
    ASSUME NEW k \in Ids, NEW e \in Seq(Nat), NEW sm, sm = [session |-> k, events |-> e]
    PROVE  sm \in History /\ sm.events = e
BY DEF History

\* READY and the events that carry a number.
LEMMA GoodDispatch ==
    ASSUME NEW c, NEW w, NEW rq, NEW id, NEW sq, NEW at, NEW sn, NEW tm,
           Good(c, w, rq, id, sq, at, sn, tm), w # <<>>,
           Head(w).op \in {"ready", "event"}, NEW d \in Client,
           d.sock = c.sock, d.state = c.state, d.last_seq = Head(w).seq,
           d.sessionid = (IF Head(w).op = "ready" THEN Head(w).session ELSE c.sessionid),
           NEW sm,
           sm = [session |-> Head(w).session,
                 events |-> IF Head(w).session = sn.session
                            THEN Append(sn.events, Head(w).seq) ELSE <<Head(w).seq>>]
    PROVE  Good(d, Tail(w), rq, id, sq, at, sm, tm)
<1>1. c \in Client /\ w \in Seq(Frame) /\ rq \in Request
      /\ id \in Ids /\ sq \in Nat /\ at \in BOOLEAN /\ sn \in History
  BY DEF Good, Typed
<1>2. Tail(w) \in Seq(Frame) /\ Head(w) \in Frame
  BY <1>1, TailAt
<1>3. Online(c) /\ tm = {} /\ rq.op = "none"
  BY WireShape
<1>4. Online(d) /\ d.sock = "open"
  BY <1>3 DEF Online
<1>5. SeenFits(c, sn)
  BY DEF Good
<1>6. /\ sn.events \in Seq(Nat) /\ sn.session = c.sessionid /\ Len(sn.events) = c.last_seq
      /\ (Fresh(c) <=> c.last_seq = 0) /\ c.last_seq \in Nat /\ sn.session \in Ids
      /\ \A i \in 1..Len(sn.events) : sn.events[i] = i
  BY <1>1, <1>5 DEF SeenFits, History, Client
<1>7. Head(w).session \in Ids /\ Head(w).seq \in Nat
  BY <1>2 DEF Frame, Ids
<1>8. \* The history, for a frame that continues session k.
      ASSUME NEW k \in Sessions, Head(w).session = k,
             \/ Head(w).op = "ready" /\ Fresh(c) /\ Head(w).seq = 1
             \/ Head(w).op = "event" /\ c.sessionid = k /\ ~ Fresh(c)
                    /\ Head(w).seq = c.last_seq + 1
      PROVE  sm \in History /\ SeenFits(d, sm) /\ d.sessionid = k
  <2>1. k # NoSession /\ d.sessionid = k /\ sm.session = k /\ ~ Fresh(d)
    <3>1. k # NoSession
      BY DEF Sessions, NoSession
    <3>2. sm.session = k
      BY <1>8
    <3>3. d.sessionid = k
      BY <1>8
    <3> QED BY <3>1, <3>2, <3>3 DEF Fresh
  <2>2. CASE Head(w).op = "ready" /\ Fresh(c) /\ Head(w).seq = 1
    <3>1. sm = [session |-> k, events |-> <<1>>]
      BY <1>6, <1>8, <2>1, <2>2 DEF Fresh
    <3>2. <<1>> \in Seq(Nat) /\ Len(<<1>>) = 1 /\ \A i \in 1..1 : <<1>>[i] = i
      OBVIOUS
    <3>3. sm \in History /\ Len(sm.events) = 1 /\ \A i \in 1..Len(sm.events) : sm.events[i] = i
      <4>1. k \in Ids /\ <<1>> \in Seq(Nat)
        BY <3>2 DEF Ids
      <4>2. sm \in History /\ sm.events = <<1>>
        BY <3>1, <4>1, HistoryOf
      <4> QED BY <3>2, <4>2
    <3>4. d.last_seq = 1
      BY <2>2
    <3> QED BY <1>4, <2>1, <3>3, <3>4 DEF SeenFits
  <2>3. CASE Head(w).op = "event" /\ c.sessionid = k /\ ~ Fresh(c)
                    /\ Head(w).seq = c.last_seq + 1
    <3> DEFINE e == Append(sn.events, c.last_seq + 1)
    <3>1. sm = [session |-> k, events |-> e]
      BY <1>6, <1>8, <2>3
    <3>2. e \in Seq(Nat) /\ Len(e) = c.last_seq + 1 /\ \A i \in 1..Len(e) : e[i] = i
      <4>1. PICK v \in Seq(Nat), a \in Nat : v = sn.events /\ a = c.last_seq /\ Len(v) = a
        BY <1>6
      <4>2. \A i \in 1..a : v[i] = i
        BY <1>6, <4>1
      <4>3. Append(v, a + 1) \in Seq(Nat) /\ Len(Append(v, a + 1)) = a + 1
        BY <4>1
      <4>4. \A i \in 1..(a + 1) : Append(v, a + 1)[i] = i
        BY <4>1, <4>2
      <4> QED BY <4>1, <4>3, <4>4
    <3> HIDE DEF e
    <3>3. sm \in History /\ sm.events = e
      <4>1. k \in Ids
        BY DEF Ids
      <4> QED BY <3>1, <3>2, <4>1, HistoryOf
    <3>4. d.last_seq = c.last_seq + 1 /\ d.last_seq # 0
      BY <1>6, <2>3
    <3> QED BY <1>4, <2>1, <3>2, <3>3, <3>4 DEF SeenFits
  <2> QED BY <1>8, <2>2, <2>3
<1>9. TimersFit(d, tm)
  BY <1>3 DEF TimersFit
<1>10. CASE at = TRUE
  <2>1. id \in Sessions /\ Carried(c, w, id, sq)
    BY <1>10, WireShape
  <2>2. \/ /\ Head(w).op = "ready" /\ Fresh(c) /\ Head(w).seq = 1 /\ Head(w).session = id
           /\ \A b : b.sessionid = id /\ b.last_seq = 1 => Carried(b, Tail(w), id, sq)
        \/ /\ Head(w).op = "event" /\ ~ Fresh(c) /\ c.sessionid = id
           /\ Head(w).seq = c.last_seq + 1 /\ Head(w).session = id
           /\ \A b : b.sessionid = id /\ b.last_seq = c.last_seq + 1
                            => Carried(b, Tail(w), id, sq)
    BY <1>1, <1>6, <2>1, CarriedTail
  <2>3. sm \in History /\ SeenFits(d, sm) /\ d.sessionid = id
    BY <1>8, <2>1, <2>2
  <2>4. Carried(d, Tail(w), id, sq)
    BY <2>2, <2>3
  <2>5. d.last_seq <= sq /\ sq # 0
    <3>1. Counted(Tail(w), id, d.last_seq, sq) /\ d.last_seq \in Nat /\ d.last_seq # 0
      <4>1. d.last_seq \in Nat
        BY DEF Client
      <4>2. d.last_seq # 0
        BY <1>6, <2>2
      <4> QED BY <2>4, <4>1, <4>2 DEF Carried
    <3>2. d.last_seq <= sq
      BY <1>1, <1>2, <3>1, CountedUp
    <3> QED BY <1>1, <3>1, <3>2
  <2>6. SessionFits(d, id, sq)
    BY <2>3, <2>5 DEF SessionFits
  <2>7. LinkFits(d, Tail(w), rq, id, sq, at, tm)
    BY <1>3, <1>4, <1>10, <2>4 DEF LinkFits
  <2>8. Typed(d, Tail(w), rq, id, sq, at, sm)
    BY <1>1, <1>2, <2>3 DEF Typed
  <2> QED BY <1>9, <2>3, <2>6, <2>7, <2>8 DEF Good
<1>11. CASE at = FALSE
  <2>1. /\ id = NoSession
        /\ \E v \in Seq(Frame), k \in Sessions, z \in Nat :
                /\ v # <<>> /\ Head(w) = Head(v)
                /\ Tail(w) = Tail(v) \o <<InvalidFrame>>
                /\ Carried(c, v, k, z)
    BY <1>11, WireShape
  <2>2. PICK v \in Seq(Frame), k \in Sessions, z \in Nat :
                /\ v # <<>> /\ Head(w) = Head(v)
                /\ Tail(w) = Tail(v) \o <<InvalidFrame>>
                /\ Carried(c, v, k, z)
    BY <2>1
  <2>3. \/ /\ Head(v).op = "ready" /\ Fresh(c) /\ Head(v).seq = 1 /\ Head(v).session = k
           /\ \A b : b.sessionid = k /\ b.last_seq = 1 => Carried(b, Tail(v), k, z)
        \/ /\ Head(v).op = "event" /\ ~ Fresh(c) /\ c.sessionid = k
           /\ Head(v).seq = c.last_seq + 1 /\ Head(v).session = k
           /\ \A b : b.sessionid = k /\ b.last_seq = c.last_seq + 1
                            => Carried(b, Tail(v), k, z)
    BY <1>1, <1>6, <2>2, CarriedTail
  <2>4. sm \in History /\ SeenFits(d, sm) /\ d.sessionid = k
    BY <1>8, <2>2, <2>3
  <2>5. Carried(d, Tail(v), k, z)
    BY <2>2, <2>3, <2>4
  <2>6. Tail(v) \in Seq(Frame)
    BY <2>2, TailAt
  <2>7. Doomed(d, Tail(w))
    BY <2>2, <2>5, <2>6 DEF Doomed
  <2>8. SessionFits(d, id, sq)
    BY <2>1 DEF SessionFits
  <2>9. LinkFits(d, Tail(w), rq, id, sq, at, tm)
    BY <1>3, <1>4, <1>11, <2>1, <2>7 DEF LinkFits
  <2>10. Typed(d, Tail(w), rq, id, sq, at, sm)
    BY <1>1, <1>2, <2>4 DEF Typed
  <2> QED BY <1>9, <2>4, <2>8, <2>9, <2>10 DEF Good
<1> QED BY <1>1, <1>10, <1>11


Identify == [NoRequest EXCEPT !.op = "identify"]
ResumeOf(c) == [op |-> "resume", session |-> c.sessionid, seq |-> ResumeSeq(c)]

\* A client that was greeted resumes its session, or identifies at once or by
\* a timer when it has none.
LEMMA GoodGreeted ==
    ASSUME NEW d, NEW rq, NEW id, NEW sq, NEW sn, NEW at, at = FALSE, rq.op = "none",
           Typed(d, <<>>, rq, id, sq, at, sn), Online(d), SeenFits(d, sn),
           SessionFits(d, id, sq)
    PROVE  /\ ~ Fresh(d) => Good(d, <<>>, ResumeOf(d), id, sq, at, sn, {})
           /\ Fresh(d) => /\ Good(d, <<>>, Identify, id, sq, at, sn, {})
                          /\ \A t : Good(d, <<>>, rq, id, sq, at, sn, {t})
<1>1. d.sock = "open" /\ d.state = "CONNECTED" /\ d \in Client
  BY DEF Online, Typed
<1>2. TimersFit(d, {}) /\ \A t : TimersFit(d, {t})
  BY <1>1 DEF TimersFit
<1>3. Identify \in Request /\ Identify.op = "identify"
  BY DEF Identify, NoRequest, Request
<1>4. /\ ResumeOf(d) \in Request /\ ResumeOf(d).op = "resume"
      /\ ResumeOf(d).session = d.sessionid /\ ResumeOf(d).seq = d.last_seq
  BY <1>1 DEF ResumeOf, Request, ResumeSeq, Client
<1>5. ASSUME ~ Fresh(d) PROVE Good(d, <<>>, ResumeOf(d), id, sq, at, sn, {})
  <2>1. LinkFits(d, <<>>, ResumeOf(d), id, sq, at, {})
    BY <1>4, <1>5 DEF LinkFits
  <2>2. Typed(d, <<>>, ResumeOf(d), id, sq, at, sn)
    BY <1>4 DEF Typed
  <2> QED BY <1>2, <2>1, <2>2 DEF Good
<1>6. ASSUME Fresh(d) PROVE Good(d, <<>>, Identify, id, sq, at, sn, {})
  <2>1. LinkFits(d, <<>>, Identify, id, sq, at, {})
    BY <1>3, <1>6 DEF LinkFits
  <2>2. Typed(d, <<>>, Identify, id, sq, at, sn)
    BY <1>3 DEF Typed
  <2> QED BY <1>2, <2>1, <2>2 DEF Good
<1>7. ASSUME Fresh(d), NEW t PROVE Good(d, <<>>, rq, id, sq, at, sn, {t})
  <2>1. LinkFits(d, <<>>, rq, id, sq, at, {t})
    BY <1>7 DEF LinkFits, Quiet
  <2> QED BY <1>2, <2>1 DEF Good
<1> QED BY <1>5, <1>6, <1>7

\* The identify timer of a shard: the request is sent when it is connected.
LEMMA GoodTimer ==
    ASSUME NEW c, NEW w, NEW rq, NEW id, NEW sq, NEW at, NEW sn, NEW tm, tm # {},
           Good(c, w, rq, id, sq, at, sn, tm)
    PROVE  /\ Online(c) => Good(c, w, Identify, id, sq, at, sn, {})
           /\ ~ Online(c) => Good(c, w, rq, id, sq, at, sn, {})
<1>1. Typed(c, w, rq, id, sq, at, sn) /\ SeenFits(c, sn) /\ SessionFits(c, id, sq)
  BY DEF Good
<1>2. ASSUME Online(c) PROVE Good(c, w, Identify, id, sq, at, sn, {})
  <2>1. w = <<>> /\ at = FALSE /\ Fresh(c) /\ rq.op = "none"
    BY <1>2 DEF Good, LinkFits, Quiet
  <2> QED BY <1>1, <1>2, <2>1, GoodGreeted
<1>3. ASSUME ~ Online(c) PROVE Good(c, w, rq, id, sq, at, sn, {})
  <2>1. TimersFit(c, {})
    BY DEF TimersFit
  <2>2. LinkFits(c, w, rq, id, sq, at, {})
    BY <1>3 DEF Good, LinkFits
  <2> QED BY <1>1, <2>1, <2>2 DEF Good
<1> QED BY <1>2, <1>3

\* The handshake is over and hello is on its way.
LEMMA GoodUpgrade ==
    ASSUME NEW c, NEW w, NEW rq, NEW id, NEW sq, NEW at, NEW sn, NEW tm,
           Good(c, w, rq, id, sq, at, sn, tm), c.sock = "open", c.state = "HTTP_HEADERS",
           NEW d \in Client, d.sock = "open", d.state = "CONNECTED",
           d.last_seq = c.last_seq, d.sessionid = c.sessionid
    PROVE  Good(d, w \o <<HelloFrame>>, rq, id, sq, at, sn, tm)
<1>1. Typed(c, w, rq, id, sq, at, sn) /\ SeenFits(c, sn) /\ SessionFits(c, id, sq)
  BY DEF Good
<1>2. w = <<>> /\ rq.op = "none" /\ at = FALSE /\ tm = {}
  BY DEF Good, LinkFits, Quiet, TimersFit, Online
<1>3. HelloFrame \in Frame
  BY DEF HelloFrame, FrameOf, Frame
<1>4. w \o <<HelloFrame>> = <<HelloFrame>> /\ <<HelloFrame>> \in Seq(Frame)
  <2>1. <<HelloFrame>> \in Seq(Frame)
    BY <1>3
  <2> QED BY <1>2, <2>1, ConcatEmptySeq
<1>5. Typed(d, <<HelloFrame>>, rq, id, sq, at, sn)
  BY <1>1, <1>4 DEF Typed
<1>6. SeenFits(d, sn) /\ SessionFits(d, id, sq)
  BY <1>1 DEF SeenFits, SessionFits, Fresh
<1>7. TimersFit(d, tm)
  BY <1>2 DEF TimersFit
<1>8. LinkFits(d, <<HelloFrame>>, rq, id, sq, at, tm)
  BY <1>2 DEF LinkFits, Online
<1> QED BY <1>4, <1>5, <1>6, <1>7, <1>8 DEF Good

\* The gateway answers an identify with a new session.
LEMMA GoodAcceptIdentify ==
    ASSUME NEW c, NEW w, NEW rq, NEW id, NEW sq, NEW at, NEW sn, NEW tm,
           Good(c, w, rq, id, sq, at, sn, tm), rq.op = "identify", NEW k \in Sessions
    PROVE  Good(c, w \o <<FrameOf("ready", k, 1)>>, NoRequest, k, 1, TRUE, sn, tm)
<1>1. Typed(c, w, rq, id, sq, at, sn) /\ SeenFits(c, sn) /\ TimersFit(c, tm)
  BY DEF Good
<1>2. w = <<>> /\ at = FALSE /\ Fresh(c) /\ Online(c) /\ tm = {}
  BY DEF Good, LinkFits, Quiet
<1> DEFINE v == <<FrameOf("ready", k, 1)>>
<1>3. v \in Seq(Frame) /\ v # <<>> /\ Counted(v, k, 0, 1)
  BY CountedReady
<1> HIDE DEF v
<1>4. w \o v = v
  BY <1>2, <1>3, ConcatEmptySeq
<1>5. k # NoSession /\ c.last_seq = 0
  BY <1>1, <1>2 DEF Sessions, NoSession, SeenFits
<1>6. NoRequest \in Request /\ NoRequest.op = "none"
  BY DEF NoRequest, Request
<1>7. Typed(c, v, NoRequest, k, 1, TRUE, sn)
  BY <1>1, <1>3, <1>6 DEF Typed, Ids
<1>8. SessionFits(c, k, 1)
  BY <1>2 DEF SessionFits
<1>9. LinkFits(c, v, NoRequest, k, 1, TRUE, tm)
  BY <1>2, <1>3, <1>5, <1>6 DEF LinkFits, Carried
<1>10. Good(c, v, NoRequest, k, 1, TRUE, sn, tm)
  BY <1>1, <1>7, <1>8, <1>9 DEF Good
<1> QED BY <1>4, <1>10 DEF v

\* The gateway answers a resume with the events that were missed.
LEMMA GoodAcceptResume ==
    ASSUME NEW c, NEW w, NEW rq, NEW id, NEW sq, NEW at, NEW sn, NEW tm,
           Good(c, w, rq, id, sq, at, sn, tm), rq.op = "resume", rq.session = id
    PROVE  Good(c, w \o ([i \in 1..Max({sq - rq.seq, 0}) |->
                                FrameOf("event", rq.session, rq.seq + i)]
                           \o <<FrameOf("resumed", rq.session, 0)>>),
                NoRequest, id, sq, TRUE, sn, tm)
<1>1. /\ Typed(c, w, rq, id, sq, at, sn) /\ SeenFits(c, sn) /\ TimersFit(c, tm)
      /\ SessionFits(c, id, sq)
  BY DEF Good
<1>2. /\ w = <<>> /\ at = FALSE /\ ~ Fresh(c) /\ Online(c) /\ tm = {}
      /\ rq.session = c.sessionid /\ rq.seq = c.last_seq
  BY DEF Good, LinkFits, Quiet
<1>3. PICK a \in Nat : a = c.last_seq
  BY <1>1 DEF Typed, Client
<1>4. /\ c.sessionid = id /\ id # NoSession /\ id \in Ids /\ sq \in Nat /\ a # 0 /\ a <= sq
      /\ rq.seq = a
  BY <1>1, <1>2, <1>3 DEF Typed, SeenFits, SessionFits, Fresh
<1> DEFINE v == [i \in 1..Max({sq - a, 0}) |-> FrameOf("event", id, a + i)]
                        \o <<FrameOf("resumed", id, 0)>>
<1>5. v \in Seq(Frame) /\ v # <<>> /\ Counted(v, id, a, sq)
  <2>1. id \in Sessions \union {NoSession}
    BY <1>4 DEF Ids
  <2> QED BY <1>4, <2>1, CountedReplay
<1> HIDE DEF v
<1>6. w \o v = v
  BY <1>2, <1>5, ConcatEmptySeq
<1>7. NoRequest \in Request /\ NoRequest.op = "none"
  BY DEF NoRequest, Request
<1>8. Typed(c, v, NoRequest, id, sq, TRUE, sn)
  BY <1>1, <1>5, <1>7 DEF Typed
<1>9. Carried(c, v, id, sq)
  BY <1>3, <1>4, <1>5 DEF Carried
<1>10. LinkFits(c, v, NoRequest, id, sq, TRUE, tm)
  BY <1>2, <1>7, <1>9 DEF LinkFits
<1>11. Good(c, v, NoRequest, id, sq, TRUE, sn, tm)
  BY <1>1, <1>8, <1>10 DEF Good
<1>12. Good(c, w \o v, NoRequest, id, sq, TRUE, sn, tm)
  BY <1>6, <1>11
<1> QED BY <1>4, <1>12 DEF v

\* The gateway refuses, or ends the session.
LEMMA GoodInvalidate ==
    ASSUME NEW c, NEW w, NEW rq, NEW id, NEW sq, NEW at, NEW sn, NEW tm,
           Good(c, w, rq, id, sq, at, sn, tm), rq.op # "none" \/ at = TRUE
    PROVE  Good(c, w \o <<InvalidFrame>>, NoRequest, NoSession, 0, FALSE, sn, tm)
<1>1. Typed(c, w, rq, id, sq, at, sn) /\ SeenFits(c, sn) /\ TimersFit(c, tm)
  BY DEF Good
<1>2. Online(c) /\ tm = {}
  BY DEF Good, LinkFits, Quiet
<1>3. c \in Client /\ w \in Seq(Frame) /\ sq \in Nat /\ sn \in History /\ id \in Ids
  BY <1>1 DEF Typed
<1>4. \E k \in Sessions, z \in Nat : Carried(c, w, k, z)
  <2>1. CASE at = TRUE
    <3>1. Carried(c, w, id, sq) /\ id \in Sessions
      BY <1>3, <2>1 DEF Good, LinkFits, Carried, Ids
    <3> QED BY <1>3, <3>1
  <2>2. CASE at # TRUE
    <3>1. w = <<>>
      BY <2>2 DEF Good, LinkFits
    <3>2. PICK a \in Nat : a = c.last_seq
      BY <1>3 DEF Client
    <3>3. \A k : Counted(<<>>, k, a, a)
      BY <3>2, CountedEmpty
    <3>4. \E k \in Sessions : Fresh(c) \/ c.sessionid = k
      BY <1>3 DEF Client, Fresh, Sessions
    <3>5. PICK k \in Sessions : Fresh(c) \/ c.sessionid = k
      BY <3>4
    <3>6. k # NoSession
      BY DEF Sessions, NoSession
    <3>7. Carried(c, w, k, a)
      BY <3>1, <3>2, <3>3, <3>5, <3>6 DEF Carried
    <3> QED BY <3>2, <3>7
  <2> QED BY <2>1, <2>2
<1> DEFINE v == w \o <<InvalidFrame>>
<1>5. InvalidFrame \in Frame
  BY DEF InvalidFrame, FrameOf, Frame
<1>6. v \in Seq(Frame)
  BY <1>3, <1>5, OneMore
<1>7. Doomed(c, v)
  BY <1>3, <1>4 DEF Doomed
<1> HIDE DEF v
<1>8. NoRequest \in Request /\ NoRequest.op = "none"
  BY DEF NoRequest, Request
<1>9. Typed(c, v, NoRequest, NoSession, 0, FALSE, sn)
  BY <1>3, <1>6, <1>8 DEF Typed, Ids
<1>10. SessionFits(c, NoSession, 0)
  BY DEF SessionFits
<1>11. LinkFits(c, v, NoRequest, NoSession, 0, FALSE, tm)
  BY <1>2, <1>7, <1>8 DEF LinkFits
<1>12. Good(c, v, NoRequest, NoSession, 0, FALSE, sn, tm)
  BY <1>1, <1>9, <1>10, <1>11 DEF Good
<1> QED BY <1>12 DEF v

\* An event is numbered, and a frame without a number is sent.
LEMMA GoodSend ==
    ASSUME NEW c, NEW w, NEW rq, NEW id, NEW sq, NEW at, NEW sn, NEW tm,
           Good(c, w, rq, id, sq, at, sn, tm), at = TRUE, NEW f \in Frame, NEW y \in Nat,
           \/ f.op = "event" /\ f.seq = sq + 1 /\ f.session = id /\ y = sq + 1
           \/ f.op \in {"ack", "reconnect"} /\ y = sq
    PROVE  Good(c, w \o <<f>>, rq, id, y, at, sn, tm)
<1>1. /\ Typed(c, w, rq, id, sq, at, sn) /\ SeenFits(c, sn) /\ TimersFit(c, tm)
      /\ SessionFits(c, id, sq)
  BY DEF Good
<1>2. Online(c) /\ tm = {} /\ rq.op = "none" /\ Carried(c, w, id, sq)
  BY DEF Good, LinkFits, Quiet
<1>3. c \in Client /\ w \in Seq(Frame) /\ sq \in Nat /\ c.last_seq \in Nat
  BY <1>1 DEF Typed, Client
<1>4. id # NoSession /\ (Fresh(c) \/ c.sessionid = id) /\ Counted(w, id, c.last_seq, sq)
  BY <1>2 DEF Carried
<1>5. sq # 0
  BY <1>1, <1>4 DEF SessionFits
<1>6. Counted(w \o <<f>>, id, c.last_seq, y)
  BY <1>3, <1>4, <1>5, CountedMore
<1> DEFINE v == w \o <<f>>
<1>7. v \in Seq(Frame)
  BY <1>3, OneMore
<1>8. Counted(v, id, c.last_seq, y)
  BY <1>6
<1> HIDE DEF v
<1>9. Typed(c, v, rq, id, y, at, sn)
  BY <1>1, <1>7 DEF Typed
<1>10. SessionFits(c, id, y)
  BY <1>1, <1>3 DEF SessionFits
<1>11. LinkFits(c, v, rq, id, y, at, tm)
  BY <1>2, <1>4, <1>8 DEF LinkFits, Carried
<1>12. Good(c, v, rq, id, y, at, sn, tm)
  BY <1>1, <1>9, <1>10, <1>11 DEF Good
<1> QED BY <1>12 DEF v

\* An event happens while the shard is not attached: it is kept.
LEMMA GoodKept ==
    ASSUME NEW c, NEW w, NEW rq, NEW id, NEW sq, NEW at, NEW sn, NEW tm,
           Good(c, w, rq, id, sq, at, sn, tm), at = FALSE, id # NoSession
    PROVE  Good(c, w, rq, id, sq + 1, at, sn, tm)
<1>1. Typed(c, w, rq, id, sq, at, sn) /\ SessionFits(c, id, sq)
  BY DEF Good
<1>2. sq \in Nat /\ c.last_seq \in Nat
  BY <1>1 DEF Typed, Client
<1>3. Typed(c, w, rq, id, sq + 1, at, sn) /\ SessionFits(c, id, sq + 1)
  BY <1>1, <1>2 DEF Typed, SessionFits
<1>4. LinkFits(c, w, rq, id, sq + 1, at, tm)
  BY DEF Good, LinkFits
<1> QED BY <1>3, <1>4 DEF Good


-----------------------------------------------------------------------------
(* The inductive invariant.                                                *)

LiveTimers(s) == {t \in identify_timers : t.shard = s /\ ~ t.gone}

GoodShard(s) ==
    Good(shards[s], wire[s], request[s], session[s], session_seq[s], attached[s],
         seen[s], LiveTimers(s))

\* The shards that cluster::start has not come to do not exist yet.
NotStarted == \A s \in Shards : s >= start_next => shards[s].sock = "absent"

IInv ==
    /\ TypeOK
    /\ \A s \in Shards : GoodShard(s)
    /\ NotStarted
    /\ NoShardForgotten

\* The two halves of the type invariant.
ShardTypes ==
    /\ shards \in [Shards -> Client]
    /\ wire \in [Shards -> Seq(Frame)]
    /\ request \in [Shards -> Request]
    /\ session \in [Shards -> Ids]
    /\ session_seq \in [Shards -> Nat]
    /\ attached \in [Shards -> BOOLEAN]
    /\ seen \in [Shards -> History]

Timer == [shard : Shards, left : (-MaxLag)..Interval, gone : BOOLEAN]

OtherTypes ==
    /\ reconnections \in [Shards -> NotListed..Interval]
    /\ monitor_left \in (-MaxLag)..Period
    /\ identify_timers \subseteq Timer
    /\ since_identify \in 0..Interval
    /\ start_next \in 0..NumShards
    /\ start_left \in 0..Interval
    /\ crashed \in BOOLEAN

\* TypeOK and its two halves, before and after a step.
LEMMA Types == TypeOK <=> ShardTypes /\ OtherTypes
BY DEF TypeOK, ShardTypes, OtherTypes, Ids, History, Timer

\* The same after a step.
LEMMA TypesNext == TypeOK' <=> ShardTypes' /\ OtherTypes'
BY DEF TypeOK, ShardTypes, OtherTypes, Ids, History, Timer

\* What is stored at one place of a function.
LEMMA Stored ==
    ASSUME NEW R, NEW f \in [Shards -> R], NEW s \in Shards, NEW x \in R, NEW g,
           g = [f EXCEPT ![s] = x]
    PROVE  g \in [Shards -> R] /\ g[s] = x /\ \A p \in Shards : p # s => g[p] = f[p]
OBVIOUS

\* A step of one shard: the others stay good.
LEMMA OneShard ==
    ASSUME ShardTypes, \A p \in Shards : GoodShard(p), NEW s \in Shards,
           NEW c, NEW w, NEW rq, NEW id, NEW sq, NEW at, NEW sn, NEW tm,
           Good(c, w, rq, id, sq, at, sn, tm),
           shards' = [shards EXCEPT ![s] = c],
           wire' = [wire EXCEPT ![s] = w],
           request' = [request EXCEPT ![s] = rq],
           session' = [session EXCEPT ![s] = id],
           session_seq' = [session_seq EXCEPT ![s] = sq],
           attached' = [attached EXCEPT ![s] = at],
           seen' = [seen EXCEPT ![s] = sn],
           LiveTimers(s)' = tm,
           \A p \in Shards : p # s => LiveTimers(p)' = LiveTimers(p)
    PROVE  ShardTypes' /\ \A p \in Shards : GoodShard(p)'
<1>1. c \in Client /\ w \in Seq(Frame) /\ rq \in Request
      /\ id \in Ids /\ sq \in Nat /\ at \in BOOLEAN /\ sn \in History
  BY DEF Good, Typed
<1>2. /\ shards \in [Shards -> Client] /\ wire \in [Shards -> Seq(Frame)]
      /\ request \in [Shards -> Request] /\ session \in [Shards -> Ids]
      /\ session_seq \in [Shards -> Nat] /\ attached \in [Shards -> BOOLEAN]
      /\ seen \in [Shards -> History]
  BY DEF ShardTypes
<1>3. /\ shards' \in [Shards -> Client] /\ shards'[s] = c
      /\ \A p \in Shards : p # s => shards'[p] = shards[p]
  BY <1>1, <1>2, Stored
<1>4. /\ wire' \in [Shards -> Seq(Frame)] /\ wire'[s] = w
      /\ \A p \in Shards : p # s => wire'[p] = wire[p]
  BY <1>1, <1>2, Stored
<1>5. /\ request' \in [Shards -> Request] /\ request'[s] = rq
      /\ \A p \in Shards : p # s => request'[p] = request[p]
  BY <1>1, <1>2, Stored
<1>6. /\ session' \in [Shards -> Ids] /\ session'[s] = id
      /\ \A p \in Shards : p # s => session'[p] = session[p]
  BY <1>1, <1>2, Stored
<1>7. /\ session_seq' \in [Shards -> Nat] /\ session_seq'[s] = sq
      /\ \A p \in Shards : p # s => session_seq'[p] = session_seq[p]
  BY <1>1, <1>2, Stored
<1>8. /\ attached' \in [Shards -> BOOLEAN] /\ attached'[s] = at
      /\ \A p \in Shards : p # s => attached'[p] = attached[p]
  BY <1>1, <1>2, Stored
<1>9. /\ seen' \in [Shards -> History] /\ seen'[s] = sn
      /\ \A p \in Shards : p # s => seen'[p] = seen[p]
  BY <1>1, <1>2, Stored
<1>10. ShardTypes'
  BY <1>3, <1>4, <1>5, <1>6, <1>7, <1>8, <1>9 DEF ShardTypes
<1>11. GoodShard(s)'
  BY <1>3, <1>4, <1>5, <1>6, <1>7, <1>8, <1>9 DEF GoodShard
<1>12. ASSUME NEW p \in Shards, p # s PROVE GoodShard(p)'
  BY <1>3, <1>4, <1>5, <1>6, <1>7, <1>8, <1>9, <1>12 DEF GoodShard
<1> QED BY <1>10, <1>11, <1>12

\* A variable that a step leaves alone, seen as a store of what is there.
LEMMA Untouched ==
    ASSUME ShardTypes, NEW s \in Shards
    PROVE  /\ shards = [shards EXCEPT ![s] = shards[s]]
           /\ wire = [wire EXCEPT ![s] = wire[s]]
           /\ request = [request EXCEPT ![s] = request[s]]
           /\ session = [session EXCEPT ![s] = session[s]]
           /\ session_seq = [session_seq EXCEPT ![s] = session_seq[s]]
           /\ attached = [attached EXCEPT ![s] = attached[s]]
           /\ seen = [seen EXCEPT ![s] = seen[s]]
BY DEF ShardTypes

\* The timers of all shards are left alone.
LEMMA TimersKept ==
    ASSUME identify_timers' = identify_timers
    PROVE  \A p : LiveTimers(p)' = LiveTimers(p)
BY DEF LiveTimers


\* The parts of the invariant.
LEMMA Parts ==
    ASSUME IInv
    PROVE  /\ ShardTypes /\ OtherTypes /\ NotStarted /\ NoShardForgotten
           /\ \A p \in Shards : GoodShard(p)
           /\ \A p \in Shards : Good(shards[p], wire[p], request[p], session[p],
                                     session_seq[p], attached[p], seen[p], LiveTimers(p))
           /\ \A p \in Shards : shards[p] \in Client
BY Types DEF IInv, GoodShard, ShardTypes

\* The parts make up the invariant after a step.
LEMMA Whole ==
    ASSUME ShardTypes', OtherTypes', NotStarted', NoShardForgotten',
           \A p \in Shards : GoodShard(p)'
    PROVE  IInv'
BY TypesNext DEF IInv

\* No socket changes its condition, and nothing is listed or erased.
LEMMA ListKept ==
    ASSUME NotStarted, NoShardForgotten, start_next' = start_next,
           reconnections' = reconnections, crashed' = crashed,
           \A p \in Shards : shards'[p].sock = shards[p].sock
    PROVE  NotStarted' /\ NoShardForgotten'
<1>1. NotStarted'
  BY DEF NotStarted
<1>2. NoShardForgotten'
  BY DEF NoShardForgotten
<1> QED BY <1>1, <1>2

\* The connection of shard s is closed and the shard is listed.
LEMMA CloseStep ==
    ASSUME IInv, NEW s \in Shards, Up(s), Close(s),
           UNCHANGED <<clockVars, identify_timers, start_next, crashed, seen>>
    PROVE  IInv'
<1> DEFINE d == [shards[s] EXCEPT !.sock = "closed", !.state = "HTTP_HEADERS"]
<1>1. /\ ShardTypes /\ OtherTypes /\ NotStarted /\ NoShardForgotten
      /\ \A p \in Shards : GoodShard(p)
      /\ Good(shards[s], wire[s], request[s], session[s],
              session_seq[s], attached[s], seen[s], LiveTimers(s))
      /\ shards[s] \in Client /\ shards[s].sock = "open"
  BY Parts DEF Up
<1>2. /\ d \in Client /\ d.sock = "closed" /\ d.last_seq = shards[s].last_seq
      /\ d.sessionid = shards[s].sessionid
  BY <1>1 DEF Client
<1>3. shards' = [shards EXCEPT ![s] = d]
  BY DEF Close
<1> HIDE DEF d
<1>4. Good(d, <<>>, NoRequest, session[s], session_seq[s], FALSE, seen[s], LiveTimers(s))
  BY <1>1, <1>2, GoodEnd
<1>5. /\ wire' = [wire EXCEPT ![s] = <<>>] /\ request' = [request EXCEPT ![s] = NoRequest]
      /\ session' = session /\ session_seq' = session_seq
      /\ attached' = [attached EXCEPT ![s] = FALSE] /\ seen' = seen
      /\ identify_timers' = identify_timers
  BY DEF Close, Detached
<1>6. \A p : LiveTimers(p)' = LiveTimers(p)
  BY <1>5, TimersKept
<1>7. ShardTypes' /\ \A p \in Shards : GoodShard(p)'
  <2>1. /\ session' = [session EXCEPT ![s] = session[s]]
        /\ session_seq' = [session_seq EXCEPT ![s] = session_seq[s]]
        /\ seen' = [seen EXCEPT ![s] = seen[s]]
    BY <1>1, <1>5, Untouched
  <2>2. PICK c, id, sq, sn, tm : c = d /\ id = session[s] /\ sq = session_seq[s]
                                    /\ sn = seen[s] /\ tm = LiveTimers(s)
    OBVIOUS
  <2>3. /\ Good(c, <<>>, NoRequest, id, sq, FALSE, sn, tm)
        /\ shards' = [shards EXCEPT ![s] = c]
        /\ wire' = [wire EXCEPT ![s] = <<>>] /\ request' = [request EXCEPT ![s] = NoRequest]
        /\ session' = [session EXCEPT ![s] = id]
        /\ session_seq' = [session_seq EXCEPT ![s] = sq]
        /\ attached' = [attached EXCEPT ![s] = FALSE] /\ seen' = [seen EXCEPT ![s] = sn]
        /\ LiveTimers(s)' = tm
        /\ \A p \in Shards : p # s => LiveTimers(p)' = LiveTimers(p)
    BY <1>3, <1>4, <1>5, <1>6, <2>1, <2>2
  <2> QED BY <1>1, <2>3, OneShard
<1>8. reconnections' = [reconnections EXCEPT ![s] = Interval]
  BY DEF Close, AddReconnect
<1>9. OtherTypes'
  <2>1. Interval \in NotListed..Interval
    BY GatewayAssumption DEF NotListed
  <2>2. reconnections' \in [Shards -> NotListed..Interval]
    BY <1>1, <1>8, <2>1 DEF OtherTypes
  <2> QED BY <1>1, <2>2 DEF OtherTypes, clockVars
<1>10. shards \in [Shards -> Client] /\ reconnections \in [Shards -> NotListed..Interval]
  BY <1>1 DEF ShardTypes, OtherTypes
<1>11. /\ shards'[s].sock = "closed" /\ reconnections'[s] = Interval
       /\ \A p \in Shards : p # s => shards'[p] = shards[p] /\ reconnections'[p] = reconnections[p]
  BY <1>2, <1>3, <1>8, <1>10
<1>12. NotStarted'
  BY <1>1, <1>11 DEF NotStarted
<1>13. NoShardForgotten'
  <2>1. Interval # NotListed
    BY GatewayAssumption DEF NotListed
  <2> QED BY <1>1, <1>11, <2>1 DEF NoShardForgotten
<1> QED BY <1>7, <1>9, <1>12, <1>13, Whole

\* one_second_timer: the descriptor is closed and the shard is not listed.
LEMMA MissedAckStep ==
    ASSUME IInv, NEW s \in Shards, MissedAck(s)
    PROVE  IInv'
<1> DEFINE d == [shards[s] EXCEPT !.sock = "lost"]
<1>1. /\ ShardTypes /\ OtherTypes /\ NotStarted /\ NoShardForgotten
      /\ \A p \in Shards : GoodShard(p)
      /\ Good(shards[s], wire[s], request[s], session[s],
              session_seq[s], attached[s], seen[s], LiveTimers(s))
      /\ shards[s] \in Client /\ shards[s].sock = "open"
  BY Parts DEF MissedAck, Connected, Up
<1>2. /\ d \in Client /\ d.sock = "lost" /\ d.last_seq = shards[s].last_seq
      /\ d.sessionid = shards[s].sessionid
  BY <1>1 DEF Client
<1>3. shards' = [shards EXCEPT ![s] = d]
  BY DEF MissedAck
<1> HIDE DEF d
<1>4. Good(d, <<>>, NoRequest, session[s], session_seq[s], FALSE, seen[s], LiveTimers(s))
  BY <1>1, <1>2, GoodEnd
<1>5. /\ wire' = [wire EXCEPT ![s] = <<>>] /\ request' = [request EXCEPT ![s] = NoRequest]
      /\ session' = session /\ session_seq' = session_seq
      /\ attached' = [attached EXCEPT ![s] = FALSE] /\ seen' = seen
      /\ identify_timers' = identify_timers
  BY DEF MissedAck, Detached
<1>6. \A p : LiveTimers(p)' = LiveTimers(p)
  BY <1>5, TimersKept
<1>7. ShardTypes' /\ \A p \in Shards : GoodShard(p)'
  <2>1. /\ session' = [session EXCEPT ![s] = session[s]]
        /\ session_seq' = [session_seq EXCEPT ![s] = session_seq[s]]
        /\ seen' = [seen EXCEPT ![s] = seen[s]]
    BY <1>1, <1>5, Untouched
  <2>2. PICK c, id, sq, sn, tm : c = d /\ id = session[s] /\ sq = session_seq[s]
                                    /\ sn = seen[s] /\ tm = LiveTimers(s)
    OBVIOUS
  <2>3. /\ Good(c, <<>>, NoRequest, id, sq, FALSE, sn, tm)
        /\ shards' = [shards EXCEPT ![s] = c]
        /\ wire' = [wire EXCEPT ![s] = <<>>] /\ request' = [request EXCEPT ![s] = NoRequest]
        /\ session' = [session EXCEPT ![s] = id]
        /\ session_seq' = [session_seq EXCEPT ![s] = sq]
        /\ attached' = [attached EXCEPT ![s] = FALSE] /\ seen' = [seen EXCEPT ![s] = sn]
        /\ LiveTimers(s)' = tm
        /\ \A p \in Shards : p # s => LiveTimers(p)' = LiveTimers(p)
    BY <1>3, <1>4, <1>5, <1>6, <2>1, <2>2
  <2> QED BY <1>1, <2>3, OneShard
<1>8. OtherTypes' /\ reconnections' = reconnections /\ crashed' = crashed
      /\ start_next' = start_next
  BY <1>1 DEF OtherTypes, MissedAck, clockVars
<1>9. /\ shards'[s].sock = "lost"
      /\ \A p \in Shards : p # s => shards'[p] = shards[p]
  BY <1>1, <1>2, <1>3 DEF ShardTypes
<1>10. NotStarted'
  BY <1>1, <1>8, <1>9 DEF NotStarted
<1>11. NoShardForgotten'
  BY <1>1, <1>8, <1>9 DEF NoShardForgotten
<1> QED BY <1>7, <1>8, <1>10, <1>11, Whole

\* The steps of the gateway, and the frames without a number: nothing but
\* the shard's record, its frames and the gateway's side changes.
LEMMA LinkStep ==
    ASSUME IInv, NEW s \in Shards,
           NEW c, NEW w, NEW rq, NEW id, NEW sq, NEW at, NEW sn,
           Good(c, w, rq, id, sq, at, sn, LiveTimers(s)), c.sock = shards[s].sock,
           shards' = [shards EXCEPT ![s] = c],
           wire' = [wire EXCEPT ![s] = w],
           request' = [request EXCEPT ![s] = rq],
           session' = [session EXCEPT ![s] = id],
           session_seq' = [session_seq EXCEPT ![s] = sq],
           attached' = [attached EXCEPT ![s] = at],
           seen' = [seen EXCEPT ![s] = sn],
           UNCHANGED <<reconnections, clockVars, identify_timers, start_next, crashed>>
    PROVE  IInv'
<1>1. /\ ShardTypes /\ OtherTypes /\ NotStarted /\ NoShardForgotten
      /\ \A p \in Shards : GoodShard(p)
  BY Parts
<1>2. \A p : LiveTimers(p)' = LiveTimers(p)
  BY TimersKept
<1>3. ShardTypes' /\ \A p \in Shards : GoodShard(p)'
  BY <1>1, <1>2, OneShard
<1>4. OtherTypes'
  BY <1>1 DEF OtherTypes, clockVars
<1>5. \A p \in Shards : shards'[p].sock = shards[p].sock
  BY <1>1 DEF ShardTypes
<1>6. NotStarted' /\ NoShardForgotten'
  BY <1>1, <1>5, ListKept
<1> QED BY <1>3, <1>4, <1>6, Whole


\* The values of one shard, by name.
LEMMA Here ==
    ASSUME IInv, NEW s \in Shards
    PROVE  \E c, w, rq, id, sq, at, sn, tm :
            /\ c = shards[s] /\ w = wire[s] /\ rq = request[s] /\ id = session[s]
            /\ sq = session_seq[s] /\ at = attached[s] /\ sn = seen[s] /\ tm = LiveTimers(s)
            /\ Good(c, w, rq, id, sq, at, sn, tm)
            /\ c \in Client /\ w \in Seq(Frame) /\ sq \in Nat /\ at \in BOOLEAN
            /\ shards = [shards EXCEPT ![s] = c] /\ wire = [wire EXCEPT ![s] = w]
            /\ request = [request EXCEPT ![s] = rq] /\ session = [session EXCEPT ![s] = id]
            /\ session_seq = [session_seq EXCEPT ![s] = sq]
            /\ attached = [attached EXCEPT ![s] = at] /\ seen = [seen EXCEPT ![s] = sn]
<1>1. ShardTypes /\ Good(shards[s], wire[s], request[s], session[s],
                         session_seq[s], attached[s], seen[s], LiveTimers(s))
  BY Parts
<1>2. /\ shards[s] \in Client /\ wire[s] \in Seq(Frame) /\ session_seq[s] \in Nat
      /\ attached[s] \in BOOLEAN
  BY <1>1 DEF ShardTypes
<1> QED BY <1>1, <1>2, Untouched

\* The websocket handshake succeeds and hello is sent.
LEMMA UpgradeStep ==
    ASSUME IInv, NEW s \in Shards, Upgrade(s)
    PROVE  IInv'
<1>1. PICK c, w, rq, id, sq, at, sn, tm :
            /\ c = shards[s] /\ w = wire[s] /\ rq = request[s] /\ id = session[s]
            /\ sq = session_seq[s] /\ at = attached[s] /\ sn = seen[s] /\ tm = LiveTimers(s)
            /\ Good(c, w, rq, id, sq, at, sn, tm)
            /\ c \in Client /\ w \in Seq(Frame) /\ sq \in Nat /\ at \in BOOLEAN
            /\ shards = [shards EXCEPT ![s] = c] /\ wire = [wire EXCEPT ![s] = w]
            /\ request = [request EXCEPT ![s] = rq] /\ session = [session EXCEPT ![s] = id]
            /\ session_seq = [session_seq EXCEPT ![s] = sq]
            /\ attached = [attached EXCEPT ![s] = at] /\ seen = [seen EXCEPT ![s] = sn]
  BY Here
<1>2. PICK d : d = [c EXCEPT !.state = "CONNECTED"]
  OBVIOUS
<1>3. c.sock = "open" /\ c.state = "HTTP_HEADERS"
  BY <1>1 DEF Upgrade, Up
<1>4. /\ d \in Client /\ d.sock = "open" /\ d.state = "CONNECTED"
      /\ d.last_seq = c.last_seq /\ d.sessionid = c.sessionid
  BY <1>1, <1>2, <1>3 DEF Client
<1>5. Good(d, w \o <<HelloFrame>>, rq, id, sq, at, sn, tm)
  BY <1>1, <1>3, <1>4, GoodUpgrade
<1>6. shards' = [shards EXCEPT ![s] = d]
  BY <1>1, <1>2 DEF Upgrade
<1>7. wire' = [wire EXCEPT ![s] = w \o <<HelloFrame>>]
  BY <1>1 DEF Upgrade, Sent, HelloFrame
<1>8. UNCHANGED <<reconnections, clockVars, identify_timers, start_next, crashed>>
      /\ UNCHANGED <<request, session, session_seq, attached, seen>>
  BY DEF Upgrade
<1>9. /\ request' = [request EXCEPT ![s] = rq] /\ session' = [session EXCEPT ![s] = id]
      /\ session_seq' = [session_seq EXCEPT ![s] = sq]
      /\ attached' = [attached EXCEPT ![s] = at] /\ seen' = [seen EXCEPT ![s] = sn]
  BY <1>1, <1>8
<1>10. Good(d, w \o <<HelloFrame>>, rq, id, sq, at, sn, LiveTimers(s)) /\ d.sock = shards[s].sock
  BY <1>1, <1>3, <1>4, <1>5
<1>11. PICK v : v = w \o <<HelloFrame>>
  OBVIOUS
<1>12. Good(d, v, rq, id, sq, at, sn, LiveTimers(s)) /\ wire' = [wire EXCEPT ![s] = v]
  BY <1>7, <1>10, <1>11
<1>13. /\ Good(d, v, rq, id, sq, at, sn, LiveTimers(s)) /\ d.sock = shards[s].sock
       /\ shards' = [shards EXCEPT ![s] = d] /\ wire' = [wire EXCEPT ![s] = v]
       /\ request' = [request EXCEPT ![s] = rq] /\ session' = [session EXCEPT ![s] = id]
       /\ session_seq' = [session_seq EXCEPT ![s] = sq]
       /\ attached' = [attached EXCEPT ![s] = at] /\ seen' = [seen EXCEPT ![s] = sn]
       /\ UNCHANGED <<reconnections, clockVars, identify_timers, start_next, crashed>>
  BY <1>6, <1>8, <1>9, <1>10, <1>12
<1> QED BY <1>13, LinkStep

\* READY with a new session, numbered 1.
LEMMA AcceptIdentifyStep ==
    ASSUME IInv, NEW s \in Shards, AcceptIdentify(s)
    PROVE  IInv'
<1>1. PICK c, w, rq, id, sq, at, sn, tm :
            /\ c = shards[s] /\ w = wire[s] /\ rq = request[s] /\ id = session[s]
            /\ sq = session_seq[s] /\ at = attached[s] /\ sn = seen[s] /\ tm = LiveTimers(s)
            /\ Good(c, w, rq, id, sq, at, sn, tm)
            /\ c \in Client /\ w \in Seq(Frame) /\ sq \in Nat /\ at \in BOOLEAN
            /\ shards = [shards EXCEPT ![s] = c] /\ wire = [wire EXCEPT ![s] = w]
            /\ request = [request EXCEPT ![s] = rq] /\ session = [session EXCEPT ![s] = id]
            /\ session_seq = [session_seq EXCEPT ![s] = sq]
            /\ attached = [attached EXCEPT ![s] = at] /\ seen = [seen EXCEPT ![s] = sn]
  BY Here
<1>2. PICK k \in Sessions \ {session[s]} :
        /\ session' = [session EXCEPT ![s] = k]
        /\ Sent(s, <<FrameOf("ready", k, 1)>>)
  BY DEF AcceptIdentify
<1>3. PICK v : v = w \o <<FrameOf("ready", k, 1)>>
  OBVIOUS
<1>4. wire' = [wire EXCEPT ![s] = v]
  BY <1>1, <1>2, <1>3 DEF Sent
<1>5. rq.op = "identify" /\ k \in Sessions
  BY <1>1, <1>2 DEF AcceptIdentify
<1>6. Good(c, v, NoRequest, k, 1, TRUE, sn, LiveTimers(s)) /\ c.sock = shards[s].sock
  BY <1>1, <1>3, <1>5, GoodAcceptIdentify
<1>7. UNCHANGED <<reconnections, clockVars, identify_timers, start_next, crashed>>
      /\ UNCHANGED <<shards, seen>>
  BY DEF AcceptIdentify
<1>8. /\ shards' = [shards EXCEPT ![s] = c] /\ request' = [request EXCEPT ![s] = NoRequest]
      /\ session_seq' = [session_seq EXCEPT ![s] = 1]
      /\ attached' = [attached EXCEPT ![s] = TRUE] /\ seen' = [seen EXCEPT ![s] = sn]
  BY <1>1, <1>7 DEF AcceptIdentify
<1>9. /\ Good(c, v, NoRequest, k, 1, TRUE, sn, LiveTimers(s)) /\ c.sock = shards[s].sock
       /\ shards' = [shards EXCEPT ![s] = c] /\ wire' = [wire EXCEPT ![s] = v]
       /\ request' = [request EXCEPT ![s] = NoRequest] /\ session' = [session EXCEPT ![s] = k]
       /\ session_seq' = [session_seq EXCEPT ![s] = 1]
       /\ attached' = [attached EXCEPT ![s] = TRUE] /\ seen' = [seen EXCEPT ![s] = sn]
       /\ UNCHANGED <<reconnections, clockVars, identify_timers, start_next, crashed>>
  BY <1>2, <1>4, <1>6, <1>7, <1>8
<1> QED BY <1>9, LinkStep

\* The missed events and RESUMED.
LEMMA AcceptResumeStep ==
    ASSUME IInv, NEW s \in Shards, AcceptResume(s)
    PROVE  IInv'
<1>1. PICK c, w, rq, id, sq, at, sn, tm :
            /\ c = shards[s] /\ w = wire[s] /\ rq = request[s] /\ id = session[s]
            /\ sq = session_seq[s] /\ at = attached[s] /\ sn = seen[s] /\ tm = LiveTimers(s)
            /\ Good(c, w, rq, id, sq, at, sn, tm)
            /\ c \in Client /\ w \in Seq(Frame) /\ sq \in Nat /\ at \in BOOLEAN
            /\ shards = [shards EXCEPT ![s] = c] /\ wire = [wire EXCEPT ![s] = w]
            /\ request = [request EXCEPT ![s] = rq] /\ session = [session EXCEPT ![s] = id]
            /\ session_seq = [session_seq EXCEPT ![s] = sq]
            /\ attached = [attached EXCEPT ![s] = at] /\ seen = [seen EXCEPT ![s] = sn]
  BY Here
<1>2. PICK u : u = [i \in 1..Max({sq - rq.seq, 0}) |->
                                FrameOf("event", rq.session, rq.seq + i)]
                           \o <<FrameOf("resumed", rq.session, 0)>>
  OBVIOUS
<1>3. PICK v : v = w \o u
  OBVIOUS
<1>4. wire' = [wire EXCEPT ![s] = v]
  BY <1>1, <1>2, <1>3 DEF AcceptResume, Sent
<1>5. rq.op = "resume" /\ rq.session = id
  BY <1>1 DEF AcceptResume
<1>6. Good(c, v, NoRequest, id, sq, TRUE, sn, tm)
  <2>1. Good(c, w \o ([i \in 1..Max({sq - rq.seq, 0}) |->
                                FrameOf("event", rq.session, rq.seq + i)]
                           \o <<FrameOf("resumed", rq.session, 0)>>),
             NoRequest, id, sq, TRUE, sn, tm)
    <3>1. Good(c, w, rq, id, sq, at, sn, tm)
      BY <1>1
    <3> QED BY <1>5, <3>1, GoodAcceptResume, Zenon
  <2> QED BY <1>2, <1>3, <2>1
<1>7. Good(c, v, NoRequest, id, sq, TRUE, sn, LiveTimers(s)) /\ c.sock = shards[s].sock
  BY <1>1, <1>6
<1>8. UNCHANGED <<reconnections, clockVars, identify_timers, start_next, crashed>>
      /\ UNCHANGED <<shards, seen, session, session_seq>>
      /\ attached' = [attached EXCEPT ![s] = TRUE]
      /\ request' = [request EXCEPT ![s] = NoRequest]
  BY DEF AcceptResume
<1>9. /\ shards' = [shards EXCEPT ![s] = c] /\ session' = [session EXCEPT ![s] = id]
      /\ session_seq' = [session_seq EXCEPT ![s] = sq] /\ seen' = [seen EXCEPT ![s] = sn]
  BY <1>1, <1>8
<1>10. /\ Good(c, v, NoRequest, id, sq, TRUE, sn, LiveTimers(s)) /\ c.sock = shards[s].sock
       /\ shards' = [shards EXCEPT ![s] = c] /\ wire' = [wire EXCEPT ![s] = v]
       /\ request' = [request EXCEPT ![s] = NoRequest] /\ session' = [session EXCEPT ![s] = id]
       /\ session_seq' = [session_seq EXCEPT ![s] = sq]
       /\ attached' = [attached EXCEPT ![s] = TRUE] /\ seen' = [seen EXCEPT ![s] = sn]
       /\ UNCHANGED <<reconnections, clockVars, identify_timers, start_next, crashed>>
  BY <1>4, <1>7, <1>8, <1>9
<1> QED BY <1>10, LinkStep

\* The session is over; frames sent before still arrive.
LEMMA InvalidateStep ==
    ASSUME IInv, NEW s \in Shards, Invalidate(s)
    PROVE  IInv'
<1>1. PICK c, w, rq, id, sq, at, sn, tm :
            /\ c = shards[s] /\ w = wire[s] /\ rq = request[s] /\ id = session[s]
            /\ sq = session_seq[s] /\ at = attached[s] /\ sn = seen[s] /\ tm = LiveTimers(s)
            /\ Good(c, w, rq, id, sq, at, sn, tm)
            /\ c \in Client /\ w \in Seq(Frame) /\ sq \in Nat /\ at \in BOOLEAN
            /\ shards = [shards EXCEPT ![s] = c] /\ wire = [wire EXCEPT ![s] = w]
            /\ request = [request EXCEPT ![s] = rq] /\ session = [session EXCEPT ![s] = id]
            /\ session_seq = [session_seq EXCEPT ![s] = sq]
            /\ attached = [attached EXCEPT ![s] = at] /\ seen = [seen EXCEPT ![s] = sn]
  BY Here
<1>2. PICK v : v = w \o <<InvalidFrame>>
  OBVIOUS
<1>3. wire' = [wire EXCEPT ![s] = v]
  BY <1>1, <1>2 DEF Invalidate, Sent, InvalidFrame
<1>4. rq.op # "none" \/ at = TRUE
  BY <1>1 DEF Invalidate
<1>5. Good(c, v, NoRequest, NoSession, 0, FALSE, sn, tm)
  BY <1>1, <1>2, <1>4, GoodInvalidate
<1>6. Good(c, v, NoRequest, NoSession, 0, FALSE, sn, LiveTimers(s)) /\ c.sock = shards[s].sock
  BY <1>1, <1>5
<1>7. UNCHANGED <<reconnections, clockVars, identify_timers, start_next, crashed>>
      /\ UNCHANGED <<shards, seen>>
      /\ attached' = [attached EXCEPT ![s] = FALSE]
      /\ request' = [request EXCEPT ![s] = NoRequest]
      /\ session' = [session EXCEPT ![s] = NoSession]
      /\ session_seq' = [session_seq EXCEPT ![s] = 0]
  BY DEF Invalidate
<1>8. shards' = [shards EXCEPT ![s] = c] /\ seen' = [seen EXCEPT ![s] = sn]
  BY <1>1, <1>7
<1>9. /\ Good(c, v, NoRequest, NoSession, 0, FALSE, sn, LiveTimers(s)) /\ c.sock = shards[s].sock
       /\ shards' = [shards EXCEPT ![s] = c] /\ wire' = [wire EXCEPT ![s] = v]
       /\ request' = [request EXCEPT ![s] = NoRequest] /\ session' = [session EXCEPT ![s] = NoSession]
       /\ session_seq' = [session_seq EXCEPT ![s] = 0]
       /\ attached' = [attached EXCEPT ![s] = FALSE] /\ seen' = [seen EXCEPT ![s] = sn]
       /\ UNCHANGED <<reconnections, clockVars, identify_timers, start_next, crashed>>
  BY <1>3, <1>6, <1>7, <1>8
<1> QED BY <1>9, LinkStep

\* An event is sent, or kept for a resume.
LEMMA HappensStep ==
    ASSUME IInv, NEW s \in Shards, Happens(s)
    PROVE  IInv'
<1>1. PICK c, w, rq, id, sq, at, sn, tm :
            /\ c = shards[s] /\ w = wire[s] /\ rq = request[s] /\ id = session[s]
            /\ sq = session_seq[s] /\ at = attached[s] /\ sn = seen[s] /\ tm = LiveTimers(s)
            /\ Good(c, w, rq, id, sq, at, sn, tm)
            /\ c \in Client /\ w \in Seq(Frame) /\ sq \in Nat /\ at \in BOOLEAN
            /\ shards = [shards EXCEPT ![s] = c] /\ wire = [wire EXCEPT ![s] = w]
            /\ request = [request EXCEPT ![s] = rq] /\ session = [session EXCEPT ![s] = id]
            /\ session_seq = [session_seq EXCEPT ![s] = sq]
            /\ attached = [attached EXCEPT ![s] = at] /\ seen = [seen EXCEPT ![s] = sn]
  BY Here
<1>2. id # NoSession
  BY <1>1 DEF Happens
<1>3. UNCHANGED <<reconnections, clockVars, identify_timers, start_next, crashed>>
      /\ UNCHANGED <<shards, request, session, attached, seen>>
      /\ session_seq' = [session_seq EXCEPT ![s] = sq + 1]
  BY <1>1 DEF Happens
<1>4. /\ shards' = [shards EXCEPT ![s] = c] /\ seen' = [seen EXCEPT ![s] = sn]
      /\ request' = [request EXCEPT ![s] = rq] /\ session' = [session EXCEPT ![s] = id]
      /\ attached' = [attached EXCEPT ![s] = at]
  BY <1>1, <1>3
<1>5. \E v : /\ Good(c, v, rq, id, sq + 1, at, sn, LiveTimers(s))
             /\ wire' = [wire EXCEPT ![s] = v]
  <2>1. CASE at = TRUE
    <3>1. PICK f : f = FrameOf("event", id, sq + 1)
      OBVIOUS
    <3>2. id \in Sessions \union {NoSession} /\ sq + 1 \in Nat
      BY <1>1 DEF Good, Typed, Ids
    <3>3. f \in Frame /\ f.op = "event" /\ f.seq = sq + 1 /\ f.session = id
      BY <3>1, <3>2 DEF FrameOf, Frame
    <3>4. Good(c, w \o <<f>>, rq, id, sq + 1, at, sn, tm)
      BY <1>1, <2>1, <3>2, <3>3, GoodSend
    <3>5. Sent(s, <<f>>)
      BY <1>1, <2>1, <3>1 DEF Happens
    <3>6. wire' = [wire EXCEPT ![s] = w \o <<f>>]
      BY <1>1, <3>5 DEF Sent
    <3> QED BY <1>1, <3>4, <3>6
  <2>2. CASE at = FALSE
    <3>1. Good(c, w, rq, id, sq + 1, at, sn, tm)
      BY <1>1, <1>2, <2>2, GoodKept
    <3>2. wire' = wire
      BY <1>1, <2>2 DEF Happens
    <3>3. wire' = [wire EXCEPT ![s] = w]
      BY <1>1, <3>2
    <3> QED BY <1>1, <3>1, <3>3
  <2> QED BY <1>1, <2>1, <2>2
<1>6. PICK v : /\ Good(c, v, rq, id, sq + 1, at, sn, LiveTimers(s))
               /\ wire' = [wire EXCEPT ![s] = v]
  BY <1>5
<1>7. c.sock = shards[s].sock
  BY <1>1
<1>8. /\ Good(c, v, rq, id, sq + 1, at, sn, LiveTimers(s)) /\ c.sock = shards[s].sock
       /\ shards' = [shards EXCEPT ![s] = c] /\ wire' = [wire EXCEPT ![s] = v]
       /\ request' = [request EXCEPT ![s] = rq] /\ session' = [session EXCEPT ![s] = id]
       /\ session_seq' = [session_seq EXCEPT ![s] = sq + 1]
       /\ attached' = [attached EXCEPT ![s] = at] /\ seen' = [seen EXCEPT ![s] = sn]
       /\ UNCHANGED <<reconnections, clockVars, identify_timers, start_next, crashed>>
  BY <1>3, <1>4, <1>6, <1>7
<1> QED BY <1>8, LinkStep

\* A heartbeat ack or a request to reconnect is sent.
LEMMA SignalStep ==
    ASSUME IInv, NEW s \in Shards, Signal(s)
    PROVE  IInv'
<1>1. PICK c, w, rq, id, sq, at, sn, tm :
            /\ c = shards[s] /\ w = wire[s] /\ rq = request[s] /\ id = session[s]
            /\ sq = session_seq[s] /\ at = attached[s] /\ sn = seen[s] /\ tm = LiveTimers(s)
            /\ Good(c, w, rq, id, sq, at, sn, tm)
            /\ c \in Client /\ w \in Seq(Frame) /\ sq \in Nat /\ at \in BOOLEAN
            /\ shards = [shards EXCEPT ![s] = c] /\ wire = [wire EXCEPT ![s] = w]
            /\ request = [request EXCEPT ![s] = rq] /\ session = [session EXCEPT ![s] = id]
            /\ session_seq = [session_seq EXCEPT ![s] = sq]
            /\ attached = [attached EXCEPT ![s] = at] /\ seen = [seen EXCEPT ![s] = sn]
  BY Here
<1>2. UNCHANGED <<reconnections, clockVars, identify_timers, start_next, crashed>>
      /\ UNCHANGED <<shards, request, session, session_seq, attached, seen>>
  BY DEF Signal
<1>3. /\ shards' = [shards EXCEPT ![s] = c] /\ seen' = [seen EXCEPT ![s] = sn]
      /\ request' = [request EXCEPT ![s] = rq] /\ session' = [session EXCEPT ![s] = id]
      /\ attached' = [attached EXCEPT ![s] = at]
      /\ session_seq' = [session_seq EXCEPT ![s] = sq]
  BY <1>1, <1>2
<1>4. PICK op \in {"ack", "reconnect"} : Sent(s, <<FrameOf(op, NoSession, 0)>>)
  BY DEF Signal
<1>5. PICK f : f = FrameOf(op, NoSession, 0)
  OBVIOUS
<1>6. f \in Frame /\ f.op \in {"ack", "reconnect"}
  BY <1>5 DEF FrameOf, Frame
<1>7. at = TRUE
  BY <1>1 DEF Signal
<1>8. PICK v : v = w \o <<f>>
  OBVIOUS
<1>9. Good(c, w \o <<f>>, rq, id, sq, at, sn, tm)
  BY <1>1, <1>6, <1>7, GoodSend
<1>10. Good(c, v, rq, id, sq, at, sn, LiveTimers(s)) /\ c.sock = shards[s].sock
  BY <1>1, <1>8, <1>9
<1>11. wire' = [wire EXCEPT ![s] = v]
  BY <1>1, <1>4, <1>5, <1>8 DEF Sent
<1>12. /\ Good(c, v, rq, id, sq, at, sn, LiveTimers(s)) /\ c.sock = shards[s].sock
       /\ shards' = [shards EXCEPT ![s] = c] /\ wire' = [wire EXCEPT ![s] = v]
       /\ request' = [request EXCEPT ![s] = rq] /\ session' = [session EXCEPT ![s] = id]
       /\ session_seq' = [session_seq EXCEPT ![s] = sq]
       /\ attached' = [attached EXCEPT ![s] = at] /\ seen' = [seen EXCEPT ![s] = sn]
       /\ UNCHANGED <<reconnections, clockVars, identify_timers, start_next, crashed>>
  BY <1>2, <1>3, <1>10, <1>11
<1> QED BY <1>12, LinkStep


\* RESUMED: the shard is ready again.
LEMMA ResumedStep ==
    ASSUME IInv, NEW s \in Shards, Resumed(s)
    PROVE  IInv'
<1>1. PICK c, w, rq, id, sq, at, sn, tm :
            /\ c = shards[s] /\ w = wire[s] /\ rq = request[s] /\ id = session[s]
            /\ sq = session_seq[s] /\ at = attached[s] /\ sn = seen[s] /\ tm = LiveTimers(s)
            /\ Good(c, w, rq, id, sq, at, sn, tm)
            /\ c \in Client /\ w \in Seq(Frame) /\ sq \in Nat /\ at \in BOOLEAN
            /\ shards = [shards EXCEPT ![s] = c] /\ wire = [wire EXCEPT ![s] = w]
            /\ request = [request EXCEPT ![s] = rq] /\ session = [session EXCEPT ![s] = id]
            /\ session_seq = [session_seq EXCEPT ![s] = sq]
            /\ attached = [attached EXCEPT ![s] = at] /\ seen = [seen EXCEPT ![s] = sn]
  BY Here
<1>2. PICK d, v : d = [c EXCEPT !.ready = TRUE] /\ v = Tail(w)
  OBVIOUS
<1>3. w # <<>> /\ Head(w).op \in {"resumed", "ack"}
  BY <1>1 DEF Resumed, Receives
<1>4. /\ d \in Client /\ d.sock = c.sock /\ d.state = c.state
      /\ d.last_seq = c.last_seq /\ d.sessionid = c.sessionid
  <2>1. 0 \in 0..(AckLimit + 1)
    BY GatewayAssumption
  <2> QED BY <1>1, <1>2, <2>1 DEF Client
<1>5. Good(d, Tail(w), rq, id, sq, at, sn, tm)
  BY <1>1, <1>3, <1>4, GoodSkip
<1>6. shards' = [shards EXCEPT ![s] = d] /\ wire' = [wire EXCEPT ![s] = v]
  BY <1>1, <1>2 DEF Resumed, Taken
<1>7. /\ UNCHANGED <<request, session, session_seq, attached, seen>>
      /\ UNCHANGED <<reconnections, clockVars, identify_timers, start_next, crashed>>
  BY DEF Resumed
<1>8. /\ Good(d, v, rq, id, sq, at, sn, LiveTimers(s)) /\ d.sock = shards[s].sock
      /\ shards' = [shards EXCEPT ![s] = d] /\ wire' = [wire EXCEPT ![s] = v]
      /\ request' = [request EXCEPT ![s] = rq] /\ session' = [session EXCEPT ![s] = id]
      /\ session_seq' = [session_seq EXCEPT ![s] = sq]
      /\ attached' = [attached EXCEPT ![s] = at] /\ seen' = [seen EXCEPT ![s] = sn]
      /\ UNCHANGED <<reconnections, clockVars, identify_timers, start_next, crashed>>
  BY <1>1, <1>2, <1>4, <1>5, <1>6, <1>7
<1> QED BY <1>8, LinkStep

\* The age of the last ack starts again.
LEMMA HeartbeatAckStep ==
    ASSUME IInv, NEW s \in Shards, HeartbeatAck(s)
    PROVE  IInv'
<1>1. PICK c, w, rq, id, sq, at, sn, tm :
            /\ c = shards[s] /\ w = wire[s] /\ rq = request[s] /\ id = session[s]
            /\ sq = session_seq[s] /\ at = attached[s] /\ sn = seen[s] /\ tm = LiveTimers(s)
            /\ Good(c, w, rq, id, sq, at, sn, tm)
            /\ c \in Client /\ w \in Seq(Frame) /\ sq \in Nat /\ at \in BOOLEAN
            /\ shards = [shards EXCEPT ![s] = c] /\ wire = [wire EXCEPT ![s] = w]
            /\ request = [request EXCEPT ![s] = rq] /\ session = [session EXCEPT ![s] = id]
            /\ session_seq = [session_seq EXCEPT ![s] = sq]
            /\ attached = [attached EXCEPT ![s] = at] /\ seen = [seen EXCEPT ![s] = sn]
  BY Here
<1>2. PICK d, v : d = [c EXCEPT !.ack_age = 0] /\ v = Tail(w)
  OBVIOUS
<1>3. w # <<>> /\ Head(w).op \in {"resumed", "ack"}
  BY <1>1 DEF HeartbeatAck, Receives
<1>4. /\ d \in Client /\ d.sock = c.sock /\ d.state = c.state
      /\ d.last_seq = c.last_seq /\ d.sessionid = c.sessionid
  <2>1. 0 \in 0..(AckLimit + 1)
    BY GatewayAssumption
  <2> QED BY <1>1, <1>2, <2>1 DEF Client
<1>5. Good(d, Tail(w), rq, id, sq, at, sn, tm)
  BY <1>1, <1>3, <1>4, GoodSkip
<1>6. shards' = [shards EXCEPT ![s] = d] /\ wire' = [wire EXCEPT ![s] = v]
  BY <1>1, <1>2 DEF HeartbeatAck, Taken
<1>7. /\ UNCHANGED <<request, session, session_seq, attached, seen>>
      /\ UNCHANGED <<reconnections, clockVars, identify_timers, start_next, crashed>>
  BY DEF HeartbeatAck
<1>8. /\ Good(d, v, rq, id, sq, at, sn, LiveTimers(s)) /\ d.sock = shards[s].sock
      /\ shards' = [shards EXCEPT ![s] = d] /\ wire' = [wire EXCEPT ![s] = v]
      /\ request' = [request EXCEPT ![s] = rq] /\ session' = [session EXCEPT ![s] = id]
      /\ session_seq' = [session_seq EXCEPT ![s] = sq]
      /\ attached' = [attached EXCEPT ![s] = at] /\ seen' = [seen EXCEPT ![s] = sn]
      /\ UNCHANGED <<reconnections, clockVars, identify_timers, start_next, crashed>>
  BY <1>1, <1>2, <1>4, <1>5, <1>6, <1>7
<1> QED BY <1>8, LinkStep

\* READY and numbered events: the client and the history move on together.
LEMMA DispatchStep ==
    ASSUME IInv, NEW s \in Shards, Dispatch(s)
    PROVE  IInv'
<1>1. PICK c, w, rq, id, sq, at, sn, tm :
            /\ c = shards[s] /\ w = wire[s] /\ rq = request[s] /\ id = session[s]
            /\ sq = session_seq[s] /\ at = attached[s] /\ sn = seen[s] /\ tm = LiveTimers(s)
            /\ Good(c, w, rq, id, sq, at, sn, tm)
            /\ c \in Client /\ w \in Seq(Frame) /\ sq \in Nat /\ at \in BOOLEAN
            /\ shards = [shards EXCEPT ![s] = c] /\ wire = [wire EXCEPT ![s] = w]
            /\ request = [request EXCEPT ![s] = rq] /\ session = [session EXCEPT ![s] = id]
            /\ session_seq = [session_seq EXCEPT ![s] = sq]
            /\ attached = [attached EXCEPT ![s] = at] /\ seen = [seen EXCEPT ![s] = sn]
  BY Here
<1>2. PICK f, v : f = Head(w) /\ v = Tail(w)
  OBVIOUS
<1>3. w # <<>> /\ f.op \in {"ready", "event"}
  BY <1>1, <1>2 DEF Dispatch, Receives
<1>4. f \in Frame
  BY <1>1, <1>2, <1>3, TailAt
<1>5. f.seq \in Nat /\ f.session \in Sessions \union {NoSession}
  BY <1>4 DEF Frame
<1>6. PICK d : d = [shards[s] EXCEPT !.last_seq = Head(wire[s]).seq,
                    !.sessionid = IF Head(wire[s]).op = "ready" THEN Head(wire[s]).session ELSE @,
                    !.ready = @ \/ Head(wire[s]).op = "ready"]
  OBVIOUS
<1>7. PICK sm : sm = [session |-> Head(w).session,
                      events |-> IF Head(w).session = sn.session
                                 THEN Append(sn.events, Head(w).seq) ELSE <<Head(w).seq>>]
  OBVIOUS
<1>8. /\ d \in Client /\ d.sock = c.sock /\ d.state = c.state /\ d.last_seq = f.seq
      /\ d.sessionid = IF f.op = "ready" THEN f.session ELSE c.sessionid
  BY <1>1, <1>2, <1>5, <1>6 DEF Client
<1>9. Good(d, Tail(w), rq, id, sq, at, sm, tm)
  <2>1. /\ Head(w).op \in {"ready", "event"} /\ d.last_seq = Head(w).seq
        /\ d.sessionid = (IF Head(w).op = "ready" THEN Head(w).session ELSE c.sessionid)
        /\ d \in Client /\ d.sock = c.sock /\ d.state = c.state
        /\ Good(c, w, rq, id, sq, at, sn, tm) /\ w # <<>>
    BY <1>1, <1>2, <1>3, <1>8
  <2> QED BY <1>7, <2>1, GoodDispatch
<1>10. shards' = [shards EXCEPT ![s] = d]
  BY <1>6 DEF Dispatch
<1>11. wire' = [wire EXCEPT ![s] = v]
  BY <1>1, <1>2 DEF Dispatch, Taken
<1>12. seen' = [seen EXCEPT ![s] = sm]
  BY <1>1, <1>7 DEF Dispatch
<1>13. /\ UNCHANGED <<request, session, session_seq, attached>>
       /\ UNCHANGED <<reconnections, clockVars, identify_timers, start_next, crashed>>
  BY DEF Dispatch
<1>14. /\ Good(d, v, rq, id, sq, at, sm, LiveTimers(s)) /\ d.sock = shards[s].sock
       /\ shards' = [shards EXCEPT ![s] = d] /\ wire' = [wire EXCEPT ![s] = v]
       /\ request' = [request EXCEPT ![s] = rq] /\ session' = [session EXCEPT ![s] = id]
       /\ session_seq' = [session_seq EXCEPT ![s] = sq]
       /\ attached' = [attached EXCEPT ![s] = at] /\ seen' = [seen EXCEPT ![s] = sm]
       /\ UNCHANGED <<reconnections, clockVars, identify_timers, start_next, crashed>>
  BY <1>1, <1>2, <1>8, <1>9, <1>10, <1>11, <1>12, <1>13
<1> QED BY <1>14, LinkStep

\* hello, and an invalid session once it is forgotten: c is the client that
\* resumes or identifies.
LEMMA GreetedStep ==
    ASSUME IInv, NEW s \in Shards, NEW c \in Client, NEW rq, NEW id, NEW sq, NEW at, NEW sn,
           Greeted(s, c), Online(c), shards[s].sock = "open",
           wire[s] # <<>>, Tail(wire[s]) = <<>>, LiveTimers(s) = {},
           rq = request[s], id = session[s], sq = session_seq[s], at = attached[s],
           rq.op = "none", at = FALSE, SeenFits(c, sn), SessionFits(c, id, sq),
           Typed(c, <<>>, rq, id, sq, at, sn),
           seen' = [seen EXCEPT ![s] = sn],
           session' = [session EXCEPT ![s] = id], attached' = [attached EXCEPT ![s] = at],
           session_seq' = [session_seq EXCEPT ![s] = sq],
           UNCHANGED <<reconnections, monitor_left, start_next, start_left, crashed>>
    PROVE  IInv'
<1>1. PICK d : d = [c EXCEPT !.ack_age = 0]
  OBVIOUS
<1>2. /\ d \in Client /\ d.sock = c.sock /\ d.state = c.state /\ d.last_seq = c.last_seq
      /\ d.sessionid = c.sessionid
  <2>1. 0 \in 0..(AckLimit + 1)
    BY GatewayAssumption
  <2> QED BY <1>1, <2>1 DEF Client
<1>3. Typed(d, <<>>, rq, id, sq, at, sn)
  BY <1>2 DEF Typed
<1>4. Online(d) /\ SeenFits(d, sn) /\ SessionFits(d, id, sq) /\ (Fresh(d) <=> Fresh(c))
  BY <1>2 DEF Online, SeenFits, SessionFits, Fresh
<1>5. /\ ~ Fresh(d) => Good(d, <<>>, ResumeOf(d), id, sq, at, sn, {})
      /\ Fresh(d) => /\ Good(d, <<>>, Identify, id, sq, at, sn, {})
                     /\ \A t : Good(d, <<>>, rq, id, sq, at, sn, {t})
  BY <1>3, <1>4, GoodGreeted
<1>6. /\ ShardTypes /\ OtherTypes /\ NotStarted /\ NoShardForgotten
      /\ \A p \in Shards : GoodShard(p)
  BY Parts
<1>7. /\ shards' = [shards EXCEPT ![s] = d] /\ wire' = [wire EXCEPT ![s] = <<>>]
  BY <1>1 DEF Greeted, Taken
<1>9. request = [request EXCEPT ![s] = rq]
  BY <1>6, Untouched
<1>10. shards'[s].sock = "open" /\ \A p \in Shards : p # s => shards'[p] = shards[p]
  BY <1>2, <1>6, <1>7 DEF ShardTypes, Online
<1>11. \A p \in Shards : shards'[p].sock = shards[p].sock
  BY <1>10
<1>12. NotStarted' /\ NoShardForgotten'
  BY <1>6, <1>11, ListKept
<1>13. since_identify \in 0..Interval /\ identify_timers \subseteq Timer
  BY <1>6 DEF OtherTypes
<1>14. ASSUME NEW r, NEW tm, Good(d, <<>>, r, id, sq, at, sn, tm),
              request' = [request EXCEPT ![s] = r], LiveTimers(s)' = tm,
              \A p \in Shards : p # s => LiveTimers(p)' = LiveTimers(p),
              since_identify' \in 0..Interval, identify_timers' \subseteq Timer
       PROVE  IInv'
  <2>1. ShardTypes' /\ \A p \in Shards : GoodShard(p)'
    BY <1>6, <1>7, <1>14, OneShard
  <2>2. OtherTypes'
    BY <1>6, <1>14 DEF OtherTypes
  <2> QED BY <1>12, <2>1, <2>2, Whole
<1>15. CASE c.last_seq # 0 /\ c.sessionid # NoSession
  <2>1. ~ Fresh(d) /\ ResumeSeq(d) = ResumeSeq(c) /\ d.sessionid = c.sessionid
    BY <1>2, <1>15 DEF Fresh, ResumeSeq
  <2>2. request' = [request EXCEPT ![s] = ResumeOf(d)]
    BY <1>15, <2>1 DEF Greeted, ResumeOf
  <2>3. identify_timers' = identify_timers /\ since_identify' = since_identify
    BY <1>15 DEF Greeted
  <2>4. \A p : LiveTimers(p)' = LiveTimers(p)
    BY <2>3, TimersKept
  <2>5. PICK r : r = ResumeOf(d)
    OBVIOUS
  <2>6. Good(d, <<>>, r, id, sq, at, sn, {}) /\ request' = [request EXCEPT ![s] = r]
    BY <1>5, <2>1, <2>2, <2>5
  <2> QED BY <1>13, <1>14, <2>3, <2>4, <2>6
<1>16. CASE ~ (c.last_seq # 0 /\ c.sessionid # NoSession) /\ since_identify < Interval
  <2>1. Fresh(d)
    BY <1>2, <1>4, <1>16 DEF SeenFits, Fresh
  <2>2. PICK t : t = [shard |-> s, left |-> Interval - since_identify, gone |-> FALSE]
    OBVIOUS
  <2>3. /\ identify_timers' = identify_timers \union {t}
        /\ request' = request /\ since_identify' = since_identify
    BY <1>16, <2>2 DEF Greeted
  <2>4. t \in Timer /\ t.shard = s /\ ~ t.gone
    <3>1. Interval - since_identify \in (-MaxLag)..Interval
      BY <1>13, <1>16, GatewayAssumption
    <3> QED BY <2>2, <3>1 DEF Timer
  <2>5. LiveTimers(s)' = {t}
    BY <2>3, <2>4 DEF LiveTimers
  <2>6. \A p \in Shards : p # s => LiveTimers(p)' = LiveTimers(p)
    BY <2>3, <2>4 DEF LiveTimers
  <2>7. Good(d, <<>>, rq, id, sq, at, sn, {t}) /\ request' = [request EXCEPT ![s] = rq]
    BY <1>5, <1>9, <2>1, <2>3
  <2>8. since_identify' \in 0..Interval /\ identify_timers' \subseteq Timer
    BY <1>13, <2>3, <2>4
  <2> QED BY <1>14, <2>5, <2>6, <2>7, <2>8
<1>17. CASE ~ (c.last_seq # 0 /\ c.sessionid # NoSession) /\ ~ (since_identify < Interval)
  <2>1. Fresh(d)
    BY <1>2, <1>4, <1>17 DEF SeenFits, Fresh
  <2>2. /\ identify_timers' = identify_timers /\ since_identify' = 0
        /\ request' = [request EXCEPT ![s] = Identify]
    BY <1>17 DEF Greeted, Identify
  <2>3. \A p : LiveTimers(p)' = LiveTimers(p)
    BY <2>2, TimersKept
  <2>4. PICK r : r = Identify
    OBVIOUS
  <2>5. Good(d, <<>>, r, id, sq, at, sn, {}) /\ request' = [request EXCEPT ![s] = r]
    BY <1>5, <2>1, <2>2, <2>4
  <2>6. since_identify' \in 0..Interval /\ identify_timers' \subseteq Timer
    BY <1>13, <2>2, GatewayAssumption
  <2> QED BY <1>14, <2>3, <2>5, <2>6
<1> QED BY <1>15, <1>16, <1>17

\* ft_hello: resume with the session kept, or identify.
LEMMA HelloStep ==
    ASSUME IInv, NEW s \in Shards, Hello(s)
    PROVE  IInv'
<1>1. PICK c, w, rq, id, sq, at, sn, tm :
            /\ c = shards[s] /\ w = wire[s] /\ rq = request[s] /\ id = session[s]
            /\ sq = session_seq[s] /\ at = attached[s] /\ sn = seen[s] /\ tm = LiveTimers(s)
            /\ Good(c, w, rq, id, sq, at, sn, tm)
            /\ c \in Client /\ w \in Seq(Frame) /\ sq \in Nat /\ at \in BOOLEAN
            /\ shards = [shards EXCEPT ![s] = c] /\ wire = [wire EXCEPT ![s] = w]
            /\ request = [request EXCEPT ![s] = rq] /\ session = [session EXCEPT ![s] = id]
            /\ session_seq = [session_seq EXCEPT ![s] = sq]
            /\ attached = [attached EXCEPT ![s] = at] /\ seen = [seen EXCEPT ![s] = sn]
  BY Here
<1>2. w # <<>> /\ Head(w).op = "hello"
  BY <1>1 DEF Hello, Receives
<1>3. at = FALSE /\ Tail(w) = <<>> /\ Online(c) /\ tm = {} /\ rq.op = "none"
  <2>1. /\ Online(c) /\ tm = {} /\ rq.op = "none"
        /\ \/ at = FALSE /\ Head(w).op = "hello" /\ Tail(w) = <<>>
           \/ Head(w).op = "invalid_session"
           \/ \E v \in Seq(Frame), k \in Sessions, z \in Nat :
                    v # <<>> /\ Head(w) = Head(v) /\ Carried(c, v, k, z)
           \/ Carried(c, w, id, sq)
    <3>1. Good(c, w, rq, id, sq, at, sn, tm) /\ w # <<>>
      BY <1>1, <1>2
    <3>2. /\ Online(c) /\ tm = {} /\ rq.op = "none"
          /\ \/ at = FALSE /\ Head(w).op = "hello" /\ Tail(w) = <<>>
             \/ /\ at = FALSE /\ id = NoSession
                /\ Head(w).op = "invalid_session" /\ Tail(w) = <<>>
             \/ /\ at = FALSE /\ id = NoSession
                /\ \E v \in Seq(Frame), k \in Sessions, z \in Nat :
                        /\ v # <<>> /\ Head(w) = Head(v)
                        /\ Tail(w) = Tail(v) \o <<InvalidFrame>>
                        /\ Carried(c, v, k, z)
             \/ at = TRUE /\ id \in Sessions /\ Carried(c, w, id, sq)
      BY <3>1, WireShape, Zenon
    <3> QED BY <3>2
  <2>2. Fresh(c) <=> c.last_seq = 0
    BY <1>1 DEF Good, SeenFits
  <2>3. \A v \in Seq(Frame) : \A k, z : v # <<>> /\ Carried(c, v, k, z) => Head(v).op # "hello"
    BY <1>1, <2>2, CarriedTail
  <2> QED BY <1>1, <1>2, <2>1, <2>3
<1>4. c.sock = "open"
  BY <1>3 DEF Online
<1>5. SeenFits(c, sn) /\ SessionFits(c, id, sq) /\ Typed(c, <<>>, rq, id, sq, at, sn)
  BY <1>1 DEF Good, Typed
<1>6. /\ Greeted(s, shards[s])
      /\ UNCHANGED <<reconnections, monitor_left, start_next, start_left, crashed>>
      /\ UNCHANGED <<session, session_seq, attached, seen>>
  BY DEF Hello
<1>7. /\ Greeted(s, c) /\ seen' = [seen EXCEPT ![s] = sn]
      /\ session' = [session EXCEPT ![s] = id] /\ attached' = [attached EXCEPT ![s] = at]
      /\ session_seq' = [session_seq EXCEPT ![s] = sq]
      /\ UNCHANGED <<reconnections, monitor_left, start_next, start_left, crashed>>
  BY <1>1, <1>6
<1>8. /\ shards[s].sock = "open" /\ wire[s] # <<>> /\ c \in Client
      /\ Tail(wire[s]) = <<>> /\ LiveTimers(s) = {}
      /\ rq = request[s] /\ id = session[s] /\ sq = session_seq[s] /\ at = attached[s]
      /\ rq.op = "none" /\ at = FALSE /\ Online(c)
  BY <1>1, <1>2, <1>3, <1>4
<1> QED BY <1>5, <1>7, <1>8, GreetedStep

\* ft_invalid_session: the session and the history are forgotten together.
LEMMA InvalidSessionStep ==
    ASSUME IInv, NEW s \in Shards, InvalidSession(s)
    PROVE  IInv'
<1>1. PICK c, w, rq, id, sq, at, sn, tm :
            /\ c = shards[s] /\ w = wire[s] /\ rq = request[s] /\ id = session[s]
            /\ sq = session_seq[s] /\ at = attached[s] /\ sn = seen[s] /\ tm = LiveTimers(s)
            /\ Good(c, w, rq, id, sq, at, sn, tm)
            /\ c \in Client /\ w \in Seq(Frame) /\ sq \in Nat /\ at \in BOOLEAN
            /\ shards = [shards EXCEPT ![s] = c] /\ wire = [wire EXCEPT ![s] = w]
            /\ request = [request EXCEPT ![s] = rq] /\ session = [session EXCEPT ![s] = id]
            /\ session_seq = [session_seq EXCEPT ![s] = sq]
            /\ attached = [attached EXCEPT ![s] = at] /\ seen = [seen EXCEPT ![s] = sn]
  BY Here
<1>2. w # <<>> /\ Head(w).op = "invalid_session"
  BY <1>1 DEF InvalidSession, Receives
<1>3. at = FALSE /\ id = NoSession /\ Tail(w) = <<>> /\ Online(c) /\ tm = {} /\ rq.op = "none"
  <2>1. /\ Online(c) /\ tm = {} /\ rq.op = "none"
        /\ \/ Head(w).op = "hello"
           \/ /\ at = FALSE /\ id = NoSession
              /\ Head(w).op = "invalid_session" /\ Tail(w) = <<>>
           \/ \E v \in Seq(Frame), k \in Sessions, z \in Nat :
                    v # <<>> /\ Head(w) = Head(v) /\ Carried(c, v, k, z)
           \/ Carried(c, w, id, sq)
    <3>1. Good(c, w, rq, id, sq, at, sn, tm) /\ w # <<>>
      BY <1>1, <1>2
    <3>2. /\ Online(c) /\ tm = {} /\ rq.op = "none"
          /\ \/ at = FALSE /\ Head(w).op = "hello" /\ Tail(w) = <<>>
             \/ /\ at = FALSE /\ id = NoSession
                /\ Head(w).op = "invalid_session" /\ Tail(w) = <<>>
             \/ /\ at = FALSE /\ id = NoSession
                /\ \E v \in Seq(Frame), k \in Sessions, z \in Nat :
                        /\ v # <<>> /\ Head(w) = Head(v)
                        /\ Tail(w) = Tail(v) \o <<InvalidFrame>>
                        /\ Carried(c, v, k, z)
             \/ at = TRUE /\ id \in Sessions /\ Carried(c, w, id, sq)
      BY <3>1, WireShape, Zenon
    <3> QED BY <3>2
  <2>2. Fresh(c) <=> c.last_seq = 0
    BY <1>1 DEF Good, SeenFits
  <2>3. \A v \in Seq(Frame) : \A k, z :
            v # <<>> /\ Carried(c, v, k, z) => Head(v).op # "invalid_session"
    BY <1>1, <2>2, CarriedTail
  <2> QED BY <1>1, <1>2, <2>1, <2>3
<1>4. PICK d : d = Forgets(c)
  OBVIOUS
<1>5. /\ d \in Client /\ d.sock = c.sock /\ d.state = c.state
      /\ d.last_seq = 0 /\ d.sessionid = NoSession
  BY <1>1, <1>4 DEF Forgets, Client
<1>6. Online(d) /\ c.sock = "open" /\ d.sock = "open"
  BY <1>3, <1>5 DEF Online
<1>7. SeenFits(d, Nothing) /\ Nothing \in History
  <2>1. Nothing \in History /\ Nothing.session = NoSession /\ Len(Nothing.events) = 0
    BY DEF Nothing, History, Ids
  <2> QED BY <1>5, <2>1 DEF SeenFits, Fresh
<1>8. SessionFits(d, id, sq)
  BY <1>3 DEF SessionFits
<1>9. Typed(d, <<>>, rq, id, sq, at, Nothing)
  <2>1. rq \in Request /\ id \in Ids
    BY <1>1 DEF Good, Typed
  <2> QED BY <1>1, <1>5, <1>7, <2>1 DEF Typed
<1>10. /\ Greeted(s, Forgets(shards[s]))
       /\ UNCHANGED <<reconnections, monitor_left, start_next, start_left, crashed>>
       /\ UNCHANGED <<session, session_seq, attached>>
       /\ seen' = [seen EXCEPT ![s] = Nothing]
  BY DEF InvalidSession
<1>11. Greeted(s, d) /\ d \in Client /\ shards[s].sock = "open" /\ wire[s] # <<>>
       /\ Tail(wire[s]) = <<>> /\ LiveTimers(s) = {}
       /\ rq = request[s] /\ id = session[s] /\ sq = session_seq[s] /\ at = attached[s]
       /\ rq.op = "none" /\ at = FALSE
  BY <1>1, <1>2, <1>3, <1>4, <1>5, <1>6, <1>10
<1>12. PICK n : n = Nothing
  OBVIOUS
<1>13. /\ session' = [session EXCEPT ![s] = id] /\ attached' = [attached EXCEPT ![s] = at]
       /\ session_seq' = [session_seq EXCEPT ![s] = sq] /\ seen' = [seen EXCEPT ![s] = n]
       /\ UNCHANGED <<reconnections, monitor_left, start_next, start_left, crashed>>
       /\ SeenFits(d, n) /\ Typed(d, <<>>, rq, id, sq, at, n)
  BY <1>1, <1>7, <1>9, <1>10, <1>12
<1> QED BY <1>6, <1>8, <1>11, <1>13, GreetedStep

\* ft_reconnect: the connection is closed.
LEMMA ReconnectRequestedStep ==
    ASSUME IInv, NEW s \in Shards, ReconnectRequested(s)
    PROVE  IInv'
<1>1. Up(s) /\ Close(s) /\ UNCHANGED <<clockVars, identify_timers, start_next, crashed, seen>>
  BY DEF ReconnectRequested, Receives, Connected
<1> QED BY <1>1, CloseStep


\* A delayed identify of a client that is still there.
LEMMA IdentifyTimerStep ==
    ASSUME IInv, NEW t \in identify_timers, IdentifyTimer(t)
    PROVE  IInv'
<1>1. OtherTypes /\ ShardTypes /\ NotStarted /\ NoShardForgotten
      /\ \A p \in Shards : GoodShard(p)
  BY Parts
<1>2. t \in Timer /\ identify_timers \subseteq Timer
  BY <1>1 DEF OtherTypes
<1>3. PICK s \in Shards : s = t.shard
  BY <1>2 DEF Timer
<1>4. PICK c, w, rq, id, sq, at, sn, tm :
            /\ c = shards[s] /\ w = wire[s] /\ rq = request[s] /\ id = session[s]
            /\ sq = session_seq[s] /\ at = attached[s] /\ sn = seen[s] /\ tm = LiveTimers(s)
            /\ Good(c, w, rq, id, sq, at, sn, tm)
            /\ c \in Client /\ w \in Seq(Frame) /\ sq \in Nat /\ at \in BOOLEAN
            /\ shards = [shards EXCEPT ![s] = c] /\ wire = [wire EXCEPT ![s] = w]
            /\ request = [request EXCEPT ![s] = rq] /\ session = [session EXCEPT ![s] = id]
            /\ session_seq = [session_seq EXCEPT ![s] = sq]
            /\ attached = [attached EXCEPT ![s] = at] /\ seen = [seen EXCEPT ![s] = sn]
  BY Here
<1>5. ~ t.gone /\ identify_timers' = identify_timers \ {t} /\ since_identify' = 0
  BY DEF IdentifyTimer
<1>6. t \in LiveTimers(s)
  BY <1>3, <1>5 DEF LiveTimers
<1>7. \A x \in LiveTimers(s) : x = t
  <2>1. \A x, y \in tm : x = y
    BY <1>4 DEF Good, TimersFit
  <2> QED BY <1>4, <1>6, <2>1
<1>8. LiveTimers(s)' = {}
  BY <1>5, <1>7 DEF LiveTimers
<1>9. \A p \in Shards : p # s => LiveTimers(p)' = LiveTimers(p)
  BY <1>3, <1>5 DEF LiveTimers
<1>10. /\ Online(c) => Good(c, w, Identify, id, sq, at, sn, {})
       /\ ~ Online(c) => Good(c, w, rq, id, sq, at, sn, {})
  <2>1. tm # {} /\ Good(c, w, rq, id, sq, at, sn, tm)
    BY <1>4, <1>6
  <2> QED BY <2>1, GoodTimer
<1>11. Connected(s) <=> Online(c)
  BY <1>4 DEF Connected, Up, Online
<1>12. /\ Connected(s) => request' = [request EXCEPT ![s] = Identify]
       /\ ~ Connected(s) => request' = request
  BY <1>3 DEF IdentifyTimer, Identify
<1>13. \E r : Good(c, w, r, id, sq, at, sn, {}) /\ request' = [request EXCEPT ![s] = r]
  <2>1. CASE Online(c)
    BY <1>10, <1>11, <1>12, <2>1
  <2>2. CASE ~ Online(c)
    <3>1. request' = [request EXCEPT ![s] = rq]
      BY <1>4, <1>11, <1>12, <2>2
    <3> QED BY <1>10, <2>2, <3>1
  <2> QED BY <2>1, <2>2
<1>14. PICK r : Good(c, w, r, id, sq, at, sn, {}) /\ request' = [request EXCEPT ![s] = r]
  BY <1>13
<1>15. UNCHANGED <<shards, reconnections, monitor_left, start_next, start_left,
                   crashed, wire, session, session_seq, attached, seen>>
  BY DEF IdentifyTimer
<1>16. /\ shards' = [shards EXCEPT ![s] = c] /\ wire' = [wire EXCEPT ![s] = w]
       /\ session' = [session EXCEPT ![s] = id]
       /\ session_seq' = [session_seq EXCEPT ![s] = sq]
       /\ attached' = [attached EXCEPT ![s] = at] /\ seen' = [seen EXCEPT ![s] = sn]
  BY <1>4, <1>15
<1>17. ShardTypes' /\ \A p \in Shards : GoodShard(p)'
  BY <1>1, <1>8, <1>9, <1>14, <1>16, OneShard
<1>18. OtherTypes'
  <2>1. 0 \in 0..Interval
    BY GatewayAssumption
  <2> QED BY <1>1, <1>5, <1>15, <2>1 DEF OtherTypes
<1>19. NotStarted' /\ NoShardForgotten'
  BY <1>1, <1>15, ListKept
<1> QED BY <1>17, <1>18, <1>19, Whole

\* Nothing of any shard changes.
LEMMA ShardsKept ==
    ASSUME IInv, UNCHANGED <<shards, gatewayVars, seen>>,
           \A p \in Shards : LiveTimers(p)' = LiveTimers(p)
    PROVE  ShardTypes' /\ \A p \in Shards : GoodShard(p)'
<1>1. ShardTypes /\ \A p \in Shards : GoodShard(p)
  BY Parts
<1>2. UNCHANGED <<shards, wire, request, session, session_seq, attached, seen>>
  BY DEF gatewayVars
<1>3. ShardTypes'
  BY <1>1, <1>2 DEF ShardTypes
<1>4. \A p \in Shards : GoodShard(p)'
  BY <1>1, <1>2 DEF GoodShard
<1> QED BY <1>3, <1>4

\* A delayed identify of a client that was deleted.
LEMMA IdentifyTimerGoneStep ==
    ASSUME IInv, NEW t \in identify_timers, IdentifyTimerGone(t)
    PROVE  IInv'
<1>1. OtherTypes /\ NotStarted /\ NoShardForgotten
  BY Parts
<1>2. /\ t.gone /\ identify_timers' = identify_timers \ {t}
      /\ UNCHANGED <<shards, gatewayVars, seen>>
      /\ UNCHANGED <<reconnections, monitor_left, start_next, start_left>>
      /\ \/ crashed' = TRUE /\ since_identify' = since_identify
         \/ crashed' = crashed /\ since_identify' = 0
  BY DEF IdentifyTimerGone
<1>3. \A p \in Shards : LiveTimers(p)' = LiveTimers(p)
  BY <1>2 DEF LiveTimers
<1>4. ShardTypes' /\ \A p \in Shards : GoodShard(p)'
  BY <1>2, <1>3, ShardsKept
<1>5. OtherTypes'
  <2>1. 0 \in 0..Interval
    BY GatewayAssumption
  <2>2. crashed' \in BOOLEAN
    BY <1>1, <1>2 DEF OtherTypes
  <2>3. since_identify' \in 0..Interval
    BY <1>1, <1>2, <2>1 DEF OtherTypes
  <2> QED BY <1>1, <1>2, <2>2, <2>3 DEF OtherTypes
<1>6. NotStarted'
  BY <1>1, <1>2 DEF NotStarted
<1>7. NoShardForgotten'
  BY <1>1, <1>2 DEF NoShardForgotten
<1> QED BY <1>4, <1>5, <1>6, <1>7, Whole

\* cluster::start gives up; the shards left stay absent.
LEMMA StartFailsStep ==
    ASSUME IInv, StartFails
    PROVE  IInv'
<1>1. OtherTypes /\ NotStarted /\ NoShardForgotten
  BY Parts
<1>2. /\ UNCHANGED <<shards, gatewayVars, seen>>
      /\ UNCHANGED <<reconnections, clockVars, identify_timers, crashed>>
      /\ start_next' = NumShards
  BY DEF StartFails
<1>3. \A p \in Shards : LiveTimers(p)' = LiveTimers(p)
  BY <1>2, TimersKept
<1>4. ShardTypes' /\ \A p \in Shards : GoodShard(p)'
  BY <1>2, <1>3, ShardsKept
<1>5. OtherTypes'
  BY <1>1, <1>2, GatewayAssumption DEF OtherTypes, clockVars
<1>6. NotStarted'
  BY <1>2, GatewayAssumption DEF NotStarted, Shards
<1>7. NoShardForgotten'
  BY <1>1, <1>2 DEF NoShardForgotten
<1> QED BY <1>4, <1>5, <1>6, <1>7, Whole

\* The monitor finds nothing due.
LEMMA MonitorIdleStep ==
    ASSUME IInv, MonitorIdle
    PROVE  IInv'
<1>1. OtherTypes /\ NotStarted /\ NoShardForgotten
  BY Parts
<1>2. /\ UNCHANGED <<shards, gatewayVars, seen>>
      /\ UNCHANGED <<reconnections, since_identify, start_left, start_next,
                     identify_timers, crashed>>
      /\ monitor_left' = monitor_left + Period /\ monitor_left <= 0
  BY DEF MonitorIdle, First
<1>3. \A p \in Shards : LiveTimers(p)' = LiveTimers(p)
  BY <1>2, TimersKept
<1>4. ShardTypes' /\ \A p \in Shards : GoodShard(p)'
  BY <1>2, <1>3, ShardsKept
<1>5. OtherTypes'
  <2>1. monitor_left \in (-MaxLag)..Period /\ MaxLag \in Nat /\ Period \in Nat
    BY <1>1, GatewayAssumption DEF OtherTypes
  <2>2. monitor_left' \in (-MaxLag)..Period
    BY <1>2, <2>1
  <2> QED BY <1>1, <1>2, <2>2 DEF OtherTypes
<1>6. NotStarted' /\ NoShardForgotten'
  BY <1>1, <1>2, ListKept
<1> QED BY <1>4, <1>5, <1>6, Whole

\* The shard the monitor takes is one that is due.
LEMMA NextIsDue ==
    ASSUME Due # {}
    PROVE  NextDue \in Shards /\ reconnections[NextDue] = 0
<1>1. Due \subseteq Nat
  BY GatewayAssumption DEF Due, Shards
<1>2. \E x \in Due : \A y \in Due : x <= y
  BY <1>1, LeastNumber
<1>3. NextDue \in Due
  BY <1>2 DEF NextDue, Min
<1> QED BY <1>3 DEF Due

\* The monitor dereferences the null client of an earlier failure.
LEMMA MonitorCrashesStep ==
    ASSUME IInv, MonitorCrashes
    PROVE  IInv'
<1>1. OtherTypes /\ NotStarted
  BY Parts
<1>2. /\ UNCHANGED <<shards, gatewayVars, seen>>
      /\ UNCHANGED <<clockVars, identify_timers, start_next>>
      /\ crashed' = TRUE /\ Due # {}
      /\ reconnections' = [reconnections EXCEPT ![NextDue] = NotListed]
  BY DEF MonitorCrashes, Erased
<1>3. \A p \in Shards : LiveTimers(p)' = LiveTimers(p)
  BY <1>2, TimersKept
<1>4. ShardTypes' /\ \A p \in Shards : GoodShard(p)'
  BY <1>2, <1>3, ShardsKept
<1>5. OtherTypes'
  <2>1. NotListed \in NotListed..Interval
    BY GatewayAssumption DEF NotListed
  <2>2. reconnections' \in [Shards -> NotListed..Interval]
    BY <1>1, <1>2, <2>1, NextIsDue DEF OtherTypes
  <2> QED BY <1>1, <1>2, <2>2 DEF OtherTypes, clockVars
<1>6. NotStarted'
  BY <1>1, <1>2 DEF NotStarted
<1>7. NoShardForgotten'
  BY <1>2 DEF NoShardForgotten
<1> QED BY <1>4, <1>5, <1>6, <1>7, Whole

\* The timers of a client that is deleted dangle, the others do not change.
LEMMA Dangling ==
    ASSUME identify_timers \subseteq Timer, NEW s \in Shards, identify_timers' = Orphaned(s)
    PROVE  /\ identify_timers' \subseteq Timer /\ LiveTimers(s)' = {}
           /\ \A p \in Shards : p # s => LiveTimers(p)' = LiveTimers(p)
<1> DEFINE G(t) == IF t.shard = s THEN [t EXCEPT !.gone = TRUE] ELSE t
<1>1. identify_timers' = {G(t) : t \in identify_timers}
  BY DEF Orphaned
<1>2. ASSUME NEW t \in Timer
      PROVE  /\ G(t) \in Timer /\ G(t).shard = t.shard
             /\ t.shard = s => G(t).gone = TRUE
             /\ t.shard # s => G(t) = t
  <2>1. CASE t.shard = s
    <3>1. G(t) = [t EXCEPT !.gone = TRUE]
      BY <2>1
    <3>2. [t EXCEPT !.gone = TRUE] \in Timer /\ [t EXCEPT !.gone = TRUE].shard = t.shard
          /\ [t EXCEPT !.gone = TRUE].gone = TRUE
      BY DEF Timer
    <3> QED BY <2>1, <3>1, <3>2
  <2>2. CASE t.shard # s
    BY <2>2
  <2> QED BY <2>1, <2>2
<1> HIDE DEF G
<1>3. identify_timers' \subseteq Timer
  BY <1>1, <1>2
<1>4. LiveTimers(s)' = {}
  BY <1>1, <1>2 DEF LiveTimers
<1>5. ASSUME NEW p \in Shards, p # s
      PROVE  LiveTimers(p)' = LiveTimers(p)
  BY <1>1, <1>2, <1>5 DEF LiveTimers
<1> QED BY <1>3, <1>4, <1>5


\* The monitor replaces the client of the first shard that is due.
LEMMA MonitorReconnectsStep ==
    ASSUME IInv, MonitorReconnects
    PROVE  IInv'
<1>1. /\ OtherTypes /\ ShardTypes /\ NotStarted /\ NoShardForgotten
      /\ \A p \in Shards : GoodShard(p)
  BY Parts
<1>2. /\ ~ crashed /\ Due # {} /\ shards[NextDue].sock # "null" /\ monitor_left <= 0
      /\ shards' = [shards EXCEPT ![NextDue] = Successor(shards[NextDue])]
      /\ reconnections' = [reconnections EXCEPT ![NextDue] = NotListed]
      /\ identify_timers' = Orphaned(NextDue)
      /\ monitor_left' = monitor_left + Period
      /\ seen' = seen
      /\ UNCHANGED <<since_identify, start_left, start_next, crashed, gatewayVars>>
  BY DEF MonitorReconnects, First, Erased
<1>3. PICK s \in Shards : s = NextDue /\ reconnections[s] = 0
  BY <1>2, NextIsDue
<1>4. PICK c, w, rq, id, sq, at, sn, tm :
            /\ c = shards[s] /\ w = wire[s] /\ rq = request[s] /\ id = session[s]
            /\ sq = session_seq[s] /\ at = attached[s] /\ sn = seen[s] /\ tm = LiveTimers(s)
            /\ Good(c, w, rq, id, sq, at, sn, tm)
            /\ c \in Client /\ w \in Seq(Frame) /\ sq \in Nat /\ at \in BOOLEAN
            /\ shards = [shards EXCEPT ![s] = c] /\ wire = [wire EXCEPT ![s] = w]
            /\ request = [request EXCEPT ![s] = rq] /\ session = [session EXCEPT ![s] = id]
            /\ session_seq = [session_seq EXCEPT ![s] = sq]
            /\ attached = [attached EXCEPT ![s] = at] /\ seen = [seen EXCEPT ![s] = sn]
  BY Here
<1>5. c.sock = "closed"
  <2>1. shards[s].sock \in {"closed", "null"}
    BY <1>1, <1>2, <1>3 DEF NoShardForgotten, NotListed
  <2> QED BY <1>2, <1>3, <1>4, <2>1
<1>6. PICK d, sm : d = Successor(c) /\ sm = sn
  OBVIOUS
<1>7. Good(d, w, rq, id, sq, at, sm, {})
  <2>1. ~ Online(c) /\ Good(c, w, rq, id, sq, at, sn, tm)
    BY <1>4, <1>5 DEF Online
  <2>2. Good(Successor(c), w, rq, id, sq, at, sn, {})
    BY <2>1, GoodNew
  <2> QED BY <1>6, <2>2
<1>8. d.sock = "open"
  BY <1>6 DEF Successor, NewClient, NoClient
<1>9. identify_timers \subseteq Timer /\ identify_timers' = Orphaned(s)
  BY <1>1, <1>2, <1>3 DEF OtherTypes
<1>10. /\ identify_timers' \subseteq Timer /\ LiveTimers(s)' = {}
       /\ \A p \in Shards : p # s => LiveTimers(p)' = LiveTimers(p)
  BY <1>9, Dangling
<1>11. /\ shards' = [shards EXCEPT ![s] = d] /\ wire' = [wire EXCEPT ![s] = w]
       /\ request' = [request EXCEPT ![s] = rq] /\ session' = [session EXCEPT ![s] = id]
       /\ session_seq' = [session_seq EXCEPT ![s] = sq]
       /\ attached' = [attached EXCEPT ![s] = at] /\ seen' = [seen EXCEPT ![s] = sm]
  BY <1>2, <1>3, <1>4, <1>6 DEF gatewayVars
<1>12. ShardTypes' /\ \A p \in Shards : GoodShard(p)'
  BY <1>1, <1>7, <1>10, <1>11, OneShard
<1>13. reconnections' = [reconnections EXCEPT ![s] = NotListed]
  BY <1>2, <1>3
<1>14. OtherTypes'
  <2>1. monitor_left \in (-MaxLag)..Period /\ MaxLag \in Nat /\ Period \in Nat
    BY <1>1, GatewayAssumption DEF OtherTypes
  <2>2. monitor_left' \in (-MaxLag)..Period
    BY <1>2, <2>1
  <2>3. NotListed \in NotListed..Interval
    BY GatewayAssumption DEF NotListed
  <2>4. reconnections' \in [Shards -> NotListed..Interval]
    BY <1>1, <1>13, <2>3 DEF OtherTypes
  <2> QED BY <1>1, <1>2, <1>10, <2>2, <2>4 DEF OtherTypes
<1>15. /\ shards'[s].sock = "open" /\ reconnections'[s] = NotListed
       /\ \A p \in Shards : p # s => shards'[p] = shards[p] /\ reconnections'[p] = reconnections[p]
  <2>1. shards \in [Shards -> Client] /\ reconnections \in [Shards -> NotListed..Interval]
    BY <1>1 DEF ShardTypes, OtherTypes
  <2> QED BY <1>8, <1>11, <1>13, <2>1
<1>16. NotStarted'
  <2>1. start_next' = start_next /\ shards[s].sock # "absent"
    BY <1>2, <1>4, <1>5
  <2> QED BY <1>1, <1>15, <2>1 DEF NotStarted
<1>17. NoShardForgotten'
  <2>1. Interval # NotListed
    BY GatewayAssumption DEF NotListed
  <2> QED BY <1>1, <1>2, <1>15, <2>1 DEF NoShardForgotten
<1> QED BY <1>12, <1>14, <1>16, <1>17, Whole

\* The new client can not be constructed: the shard is listed again.
LEMMA MonitorFailsStep ==
    ASSUME IInv, MonitorFails
    PROVE  IInv'
<1>1. /\ OtherTypes /\ ShardTypes /\ NotStarted /\ NoShardForgotten
      /\ \A p \in Shards : GoodShard(p)
  BY Parts
<1>2. /\ ~ crashed /\ Due # {} /\ shards[NextDue].sock # "null" /\ monitor_left <= 0
      /\ shards' = [shards EXCEPT ![NextDue] = NoClient("null")]
      /\ reconnections' = [reconnections EXCEPT ![NextDue] = Interval]
      /\ identify_timers' = Orphaned(NextDue)
      /\ monitor_left' = monitor_left + Period
      /\ seen' = [seen EXCEPT ![NextDue] = Nothing]
      /\ UNCHANGED <<since_identify, start_left, start_next, crashed, gatewayVars>>
  BY DEF MonitorFails, First, AddReconnect
<1>3. PICK s \in Shards : s = NextDue /\ reconnections[s] = 0
  BY <1>2, NextIsDue
<1>4. PICK c, w, rq, id, sq, at, sn, tm :
            /\ c = shards[s] /\ w = wire[s] /\ rq = request[s] /\ id = session[s]
            /\ sq = session_seq[s] /\ at = attached[s] /\ sn = seen[s] /\ tm = LiveTimers(s)
            /\ Good(c, w, rq, id, sq, at, sn, tm)
            /\ c \in Client /\ w \in Seq(Frame) /\ sq \in Nat /\ at \in BOOLEAN
            /\ shards = [shards EXCEPT ![s] = c] /\ wire = [wire EXCEPT ![s] = w]
            /\ request = [request EXCEPT ![s] = rq] /\ session = [session EXCEPT ![s] = id]
            /\ session_seq = [session_seq EXCEPT ![s] = sq]
            /\ attached = [attached EXCEPT ![s] = at] /\ seen = [seen EXCEPT ![s] = sn]
  BY Here
<1>5. c.sock = "closed"
  <2>1. shards[s].sock \in {"closed", "null"}
    BY <1>1, <1>2, <1>3 DEF NoShardForgotten, NotListed
  <2> QED BY <1>2, <1>3, <1>4, <2>1
<1>6. PICK d, sm : d = NoClient("null") /\ sm = Nothing
  OBVIOUS
<1>7. Good(d, w, rq, id, sq, at, sm, {})
  <2>1. ~ Online(c) /\ Good(c, w, rq, id, sq, at, sn, tm)
    BY <1>4, <1>5 DEF Online
  <2>2. Good(NoClient("null"), w, rq, id, sq, at, Nothing, {})
    BY <2>1, GoodNew
  <2> QED BY <1>6, <2>2
<1>8. d.sock = "null"
  BY <1>6 DEF Successor, NewClient, NoClient
<1>9. identify_timers \subseteq Timer /\ identify_timers' = Orphaned(s)
  BY <1>1, <1>2, <1>3 DEF OtherTypes
<1>10. /\ identify_timers' \subseteq Timer /\ LiveTimers(s)' = {}
       /\ \A p \in Shards : p # s => LiveTimers(p)' = LiveTimers(p)
  BY <1>9, Dangling
<1>11. /\ shards' = [shards EXCEPT ![s] = d] /\ wire' = [wire EXCEPT ![s] = w]
       /\ request' = [request EXCEPT ![s] = rq] /\ session' = [session EXCEPT ![s] = id]
       /\ session_seq' = [session_seq EXCEPT ![s] = sq]
       /\ attached' = [attached EXCEPT ![s] = at] /\ seen' = [seen EXCEPT ![s] = sm]
  BY <1>2, <1>3, <1>4, <1>6 DEF gatewayVars
<1>12. ShardTypes' /\ \A p \in Shards : GoodShard(p)'
  BY <1>1, <1>7, <1>10, <1>11, OneShard
<1>13. reconnections' = [reconnections EXCEPT ![s] = Interval]
  BY <1>2, <1>3
<1>14. OtherTypes'
  <2>1. monitor_left \in (-MaxLag)..Period /\ MaxLag \in Nat /\ Period \in Nat
    BY <1>1, GatewayAssumption DEF OtherTypes
  <2>2. monitor_left' \in (-MaxLag)..Period
    BY <1>2, <2>1
  <2>3. Interval \in NotListed..Interval
    BY GatewayAssumption DEF NotListed
  <2>4. reconnections' \in [Shards -> NotListed..Interval]
    BY <1>1, <1>13, <2>3 DEF OtherTypes
  <2> QED BY <1>1, <1>2, <1>10, <2>2, <2>4 DEF OtherTypes
<1>15. /\ shards'[s].sock = "null" /\ reconnections'[s] = Interval
       /\ \A p \in Shards : p # s => shards'[p] = shards[p] /\ reconnections'[p] = reconnections[p]
  <2>1. shards \in [Shards -> Client] /\ reconnections \in [Shards -> NotListed..Interval]
    BY <1>1 DEF ShardTypes, OtherTypes
  <2> QED BY <1>8, <1>11, <1>13, <2>1
<1>16. NotStarted'
  <2>1. start_next' = start_next /\ shards[s].sock # "absent"
    BY <1>2, <1>4, <1>5
  <2> QED BY <1>1, <1>15, <2>1 DEF NotStarted
<1>17. NoShardForgotten'
  <2>1. Interval # NotListed
    BY GatewayAssumption DEF NotListed
  <2> QED BY <1>1, <1>2, <1>15, <2>1 DEF NoShardForgotten
<1> QED BY <1>12, <1>14, <1>16, <1>17, Whole

\* cluster::start creates the next shard.
LEMMA StartShardStep ==
    ASSUME IInv, StartShard
    PROVE  IInv'
<1>1. /\ OtherTypes /\ ShardTypes /\ NotStarted /\ NoShardForgotten
      /\ \A p \in Shards : GoodShard(p)
  BY Parts
<1>2. /\ ~ crashed /\ start_next < NumShards
      /\ shards' = [shards EXCEPT ![start_next] = NewClient(0, NoSession)]
      /\ start_next' = start_next + 1 /\ start_left' = Interval
      /\ UNCHANGED <<reconnections, monitor_left, identify_timers, since_identify,
                     crashed, gatewayVars, seen>>
  BY DEF StartShard
<1>3. start_next \in Nat /\ NumShards \in Nat /\ start_next \in Shards
  BY <1>1, <1>2, GatewayAssumption DEF OtherTypes, Shards
<1>4. PICK s \in Shards : s = start_next
  BY <1>3
<1>5. PICK c, w, rq, id, sq, at, sn, tm :
            /\ c = shards[s] /\ w = wire[s] /\ rq = request[s] /\ id = session[s]
            /\ sq = session_seq[s] /\ at = attached[s] /\ sn = seen[s] /\ tm = LiveTimers(s)
            /\ Good(c, w, rq, id, sq, at, sn, tm)
            /\ c \in Client /\ w \in Seq(Frame) /\ sq \in Nat /\ at \in BOOLEAN
            /\ shards = [shards EXCEPT ![s] = c] /\ wire = [wire EXCEPT ![s] = w]
            /\ request = [request EXCEPT ![s] = rq] /\ session = [session EXCEPT ![s] = id]
            /\ session_seq = [session_seq EXCEPT ![s] = sq]
            /\ attached = [attached EXCEPT ![s] = at] /\ seen = [seen EXCEPT ![s] = sn]
  BY Here
<1>6. c.sock = "absent"
  BY <1>1, <1>3, <1>4, <1>5 DEF NotStarted
<1>7. PICK d : d = NewClient(0, NoSession)
  OBVIOUS
<1>8. Good(d, w, rq, id, sq, at, sn, tm)
  <2>1. ~ Online(c) /\ Good(c, w, rq, id, sq, at, sn, tm)
    BY <1>5, <1>6 DEF Online
  <2>2. Good(NewClient(0, NoSession), w, rq, id, sq, at, sn, tm)
    BY <1>6, <2>1, GoodNew
  <2> QED BY <1>7, <2>2
<1>9. d.sock = "open"
  BY <1>7 DEF NewClient
<1>10. \A p : LiveTimers(p)' = LiveTimers(p)
  BY <1>2, TimersKept
<1>11. /\ shards' = [shards EXCEPT ![s] = d] /\ wire' = [wire EXCEPT ![s] = w]
       /\ request' = [request EXCEPT ![s] = rq] /\ session' = [session EXCEPT ![s] = id]
       /\ session_seq' = [session_seq EXCEPT ![s] = sq]
       /\ attached' = [attached EXCEPT ![s] = at] /\ seen' = [seen EXCEPT ![s] = sn]
       /\ LiveTimers(s)' = tm
  BY <1>2, <1>4, <1>5, <1>7, <1>10 DEF gatewayVars
<1>12. ShardTypes' /\ \A p \in Shards : GoodShard(p)'
  BY <1>1, <1>8, <1>10, <1>11, OneShard
<1>13. OtherTypes'
  <2>1. start_next' \in 0..NumShards /\ start_left' \in 0..Interval
    BY <1>2, <1>3, GatewayAssumption
  <2> QED BY <1>1, <1>2, <2>1 DEF OtherTypes
<1>14. /\ shards'[s].sock = "open" /\ \A p \in Shards : p # s => shards'[p] = shards[p]
  BY <1>1, <1>9, <1>11 DEF ShardTypes
<1>15. NotStarted'
  <2>1. ASSUME NEW p \in Shards, p >= start_next' PROVE p # s /\ p >= start_next
    BY <1>2, <1>3, <1>4, <2>1 DEF Shards
  <2> QED BY <1>1, <1>14, <2>1 DEF NotStarted
<1>16. NoShardForgotten'
  BY <1>1, <1>2, <1>5, <1>6, <1>14 DEF NoShardForgotten
<1> QED BY <1>12, <1>13, <1>15, <1>16, Whole

\* The smaller of two numbers.
LEMMA MinOf ==
    ASSUME NEW a \in Nat, NEW b \in Nat
    PROVE  Min({a, b}) \in Nat /\ Min({a, b}) <= b
<1>1. \E x \in {a, b} : \A y \in {a, b} : x <= y
  OBVIOUS
<1>2. Min({a, b}) \in {a, b} /\ \A y \in {a, b} : Min({a, b}) <= y
  BY <1>1 DEF Min
<1> QED BY <1>2

\* A second passes: ages and countdowns move, nothing else does.
LEMMA SecondStep ==
    ASSUME IInv, Second
    PROVE  IInv'
<1>1. /\ OtherTypes /\ ShardTypes /\ NotStarted /\ NoShardForgotten
      /\ \A p \in Shards : Good(shards[p], wire[p], request[p], session[p],
                                 session_seq[p], attached[p], seen[p], LiveTimers(p))
  BY Parts
<1>2. /\ ~ crashed /\ monitor_left > -MaxLag
      /\ \A t \in identify_timers : t.left > -MaxLag
      /\ monitor_left' = monitor_left - 1
      /\ identify_timers' = {[t EXCEPT !.left = @ - 1] : t \in identify_timers}
      /\ since_identify' = Min({since_identify + 1, Interval})
      /\ start_left' = Less(start_left, 0)
      /\ reconnections' = [s \in Shards |->
            IF reconnections[s] = NotListed THEN NotListed ELSE Less(reconnections[s], 0)]
      /\ shards' = [s \in Shards |->
            IF Connected(s)
            THEN [shards[s] EXCEPT !.ack_age = Min({@ + 1, AckLimit + 1})]
            ELSE shards[s]]
      /\ UNCHANGED <<start_next, crashed>>
      /\ UNCHANGED <<wire, request, session, session_seq, attached, seen>>
  BY DEF Second, gatewayVars
<1>3. /\ Interval \in Nat /\ Period \in Nat /\ MaxLag \in Nat /\ AckLimit \in Nat
      /\ NumShards \in Nat
  BY GatewayAssumption
<1>4. /\ shards \in [Shards -> Client] /\ reconnections \in [Shards -> NotListed..Interval]
      /\ identify_timers \subseteq Timer /\ since_identify \in 0..Interval
      /\ monitor_left \in (-MaxLag)..Period /\ start_left \in 0..Interval
  BY <1>1 DEF ShardTypes, OtherTypes
<1>5. ASSUME NEW p \in Shards
      PROVE  /\ shards'[p] \in Client /\ shards'[p].sock = shards[p].sock
             /\ shards'[p].state = shards[p].state
             /\ shards'[p].last_seq = shards[p].last_seq
             /\ shards'[p].sessionid = shards[p].sessionid
  <2>1. PICK a : a = Min({shards[p].ack_age + 1, AckLimit + 1})
    OBVIOUS
  <2>2. shards[p] \in Client /\ shards[p].ack_age \in Nat
    BY <1>3, <1>4 DEF Client
  <2>3. a \in 0..(AckLimit + 1)
    <3>1. shards[p].ack_age + 1 \in Nat /\ AckLimit + 1 \in Nat
      BY <1>3, <2>2
    <3>2. a \in Nat /\ a <= AckLimit + 1
      BY <2>1, <3>1, MinOf
    <3> QED BY <1>3, <3>2
  <2>4. shards'[p] = shards[p] \/ shards'[p] = [shards[p] EXCEPT !.ack_age = a]
    BY <1>2, <2>1
  <2> QED BY <2>2, <2>3, <2>4 DEF Client
<1>6. shards' \in [Shards -> Client]
  <2>1. \E f : shards' = [s \in Shards |-> f[s]]
    <3>1. shards' = [s \in Shards |-> shards'[s]]
      BY <1>2
    <3> QED BY <3>1
  <2> QED BY <1>5, <2>1
<1>7. ShardTypes'
  BY <1>1, <1>2, <1>6 DEF ShardTypes
<1> DEFINE D(t) == [t EXCEPT !.left = @ - 1]
<1>8. ASSUME NEW t \in Timer
      PROVE  /\ D(t).shard = t.shard /\ D(t).gone = t.gone /\ D(t).left = t.left - 1
             /\ t.left > -MaxLag => D(t) \in Timer
  <2>1. t.left \in (-MaxLag)..Interval
    BY DEF Timer
  <2>2. t.left > -MaxLag => t.left - 1 \in (-MaxLag)..Interval
    BY <1>3, <2>1
  <2> QED BY <2>2 DEF Timer
<1>9. identify_timers' = {D(t) : t \in identify_timers}
  BY <1>2
<1> HIDE DEF D
<1>10. identify_timers' \subseteq Timer
  BY <1>2, <1>4, <1>8, <1>9
<1>11. ASSUME NEW p \in Shards
       PROVE  LiveTimers(p)' = {D(t) : t \in LiveTimers(p)}
  BY <1>4, <1>8, <1>9 DEF LiveTimers
<1>12. ASSUME NEW p \in Shards PROVE GoodShard(p)'
  <2>1. PICK c, tm, d, tn, w, rq, id, sq, at, sn :
            /\ c = shards[p] /\ tm = LiveTimers(p)
            /\ d = shards'[p] /\ tn = {D(t) : t \in LiveTimers(p)}
            /\ w = wire[p] /\ rq = request[p] /\ id = session[p] /\ sq = session_seq[p]
            /\ at = attached[p] /\ sn = seen[p]
    OBVIOUS
  <2>2. Good(c, w, rq, id, sq, at, sn, tm)
    BY <1>1, <2>1
  <2>3. \A t, u \in tm : t = u
    BY <2>2 DEF Good, TimersFit
  <2>4. tm = {} => tn = {}
    BY <2>1
  <2>5. \A t, u \in tn : t = u
    BY <2>1, <2>3
  <2>6. /\ d \in Client /\ d.sock = c.sock /\ d.state = c.state
        /\ d.last_seq = c.last_seq /\ d.sessionid = c.sessionid
    BY <1>5, <2>1
  <2>7. Good(d, w, rq, id, sq, at, sn, tn)
    BY <2>2, <2>4, <2>5, <2>6, GoodSame
  <2>8. Good(shards'[p], wire'[p], request'[p], session'[p], session_seq'[p],
             attached'[p], seen'[p], LiveTimers(p)')
    BY <1>2, <1>11, <2>1, <2>7
  <2> QED BY <2>8 DEF GoodShard
<1>13. ASSUME NEW p \in Shards
       PROVE  /\ reconnections'[p] \in NotListed..Interval
              /\ reconnections'[p] = NotListed <=> reconnections[p] = NotListed
  <2>1. reconnections[p] \in (-1)..Interval
    BY <1>4 DEF NotListed
  <2>2. CASE reconnections[p] = NotListed
    BY <1>2, <1>3, <2>2 DEF NotListed
  <2>3. CASE reconnections[p] # NotListed
    <3>1. reconnections'[p] = IF reconnections[p] > 0 THEN reconnections[p] - 1 ELSE reconnections[p]
      BY <1>2, <2>3 DEF Less
    <3> QED BY <1>3, <2>1, <2>3, <3>1 DEF NotListed
  <2> QED BY <2>2, <2>3
<1>14. OtherTypes'
  <2>1. reconnections' \in [Shards -> NotListed..Interval]
    <3>1. reconnections' = [s \in Shards |-> reconnections'[s]]
      BY <1>2
    <3> QED BY <1>13, <3>1
  <2>2. monitor_left' \in (-MaxLag)..Period
    BY <1>2, <1>3, <1>4
  <2>3. since_identify' \in 0..Interval
    <3>1. since_identify + 1 \in Nat
      BY <1>3, <1>4
    <3>2. since_identify' \in Nat /\ since_identify' <= Interval
      BY <1>2, <1>3, <3>1, MinOf
    <3> QED BY <1>3, <3>2
  <2>4. start_left' \in 0..Interval
    BY <1>2, <1>3, <1>4 DEF Less
  <2> QED BY <1>1, <1>2, <1>10, <2>1, <2>2, <2>3, <2>4 DEF OtherTypes
<1>15. NotStarted'
  BY <1>1, <1>2, <1>5 DEF NotStarted
<1>16. NoShardForgotten'
  BY <1>1, <1>2, <1>5, <1>13 DEF NoShardForgotten
<1> QED BY <1>7, <1>12, <1>14, <1>15, <1>16, Whole


-----------------------------------------------------------------------------
(* The theorems.                                                           *)

\* The cluster starts with no client, no session and no event.
LEMMA InitInv == Init => IInv
<1> SUFFICES ASSUME Init PROVE IInv
  OBVIOUS
<1>1. Good(NoClient("absent"), <<>>, NoRequest, NoSession, 0, FALSE, Nothing, {})
  BY GoodInit
<1>2. /\ NoClient("absent") \in Client /\ <<>> \in Seq(Frame) /\ NoRequest \in Request
      /\ NoSession \in Ids /\ 0 \in Nat /\ Nothing \in History
  BY <1>1 DEF Good, Typed
<1>3. ShardTypes
  BY <1>2 DEF Init, ShardTypes
<1>4. OtherTypes
  <2>1. NotListed \in NotListed..Interval /\ Period \in (-MaxLag)..Period
        /\ Interval \in 0..Interval /\ 0 \in 0..NumShards /\ 0 \in 0..Interval
    BY GatewayAssumption DEF NotListed
  <2> QED BY <2>1 DEF Init, OtherTypes
<1>5. ASSUME NEW s \in Shards PROVE GoodShard(s)
  <2>1. LiveTimers(s) = {}
    BY DEF Init, LiveTimers
  <2>2. /\ shards[s] = NoClient("absent") /\ wire[s] = <<>> /\ request[s] = NoRequest
        /\ session[s] = NoSession /\ session_seq[s] = 0 /\ attached[s] = FALSE
        /\ seen[s] = Nothing
    BY DEF Init
  <2> QED BY <1>1, <2>1, <2>2 DEF GoodShard
<1>6. NotStarted /\ NoShardForgotten
  BY DEF Init, NotStarted, NoShardForgotten, NoClient
<1> QED BY <1>3, <1>4, <1>5, <1>6, Types DEF IInv

\* Every step keeps the invariant, one lemma per action.
LEMMA StepInv == IInv /\ [Next]_vars => IInv'
<1> SUFFICES ASSUME IInv, [Next]_vars PROVE IInv'
  OBVIOUS
<1>1. CASE Second
  BY <1>1, SecondStep
<1>2. CASE StartShard
  BY <1>2, StartShardStep
<1>3. CASE StartFails
  BY <1>3, StartFailsStep
<1>4. CASE TimerStep
  <2>1. ASSUME NEW t \in identify_timers, IdentifyTimer(t) PROVE IInv'
    BY <2>1, IdentifyTimerStep
  <2>2. ASSUME NEW t \in identify_timers, IdentifyTimerGone(t) PROVE IInv'
    BY <2>2, IdentifyTimerGoneStep
  <2>3. CASE MonitorIdle
    BY <2>3, MonitorIdleStep
  <2>4. CASE MonitorReconnects
    BY <2>4, MonitorReconnectsStep
  <2>5. CASE MonitorFails
    BY <2>5, MonitorFailsStep
  <2>6. CASE MonitorCrashes
    BY <2>6, MonitorCrashesStep
  <2> QED BY <1>4, <2>1, <2>2, <2>3, <2>4, <2>5, <2>6 DEF TimerStep
<1>5. ASSUME NEW s \in Shards, HandleFrame(s) PROVE IInv'
  <2>1. CASE Hello(s)
    BY <2>1, HelloStep
  <2>2. CASE InvalidSession(s)
    BY <2>2, InvalidSessionStep
  <2>3. CASE Dispatch(s)
    BY <2>3, DispatchStep
  <2>4. CASE Resumed(s)
    BY <2>4, ResumedStep
  <2>5. CASE HeartbeatAck(s)
    BY <2>5, HeartbeatAckStep
  <2>6. CASE ReconnectRequested(s)
    BY <2>6, ReconnectRequestedStep
  <2> QED BY <1>5, <2>1, <2>2, <2>3, <2>4, <2>5, <2>6 DEF HandleFrame
<1>6. ASSUME NEW s \in Shards, Disconnect(s) PROVE IInv'
  <2>1. Up(s) /\ Close(s) /\ UNCHANGED <<clockVars, identify_timers, start_next, crashed, seen>>
    BY <1>6 DEF Disconnect
  <2> QED BY <2>1, CloseStep
<1>7. ASSUME NEW s \in Shards, MissedAck(s) PROVE IInv'
  BY <1>7, MissedAckStep
<1>8. ASSUME NEW s \in Shards, GatewayStep(s) PROVE IInv'
  <2>1. CASE Upgrade(s)
    BY <2>1, UpgradeStep
  <2>2. CASE AcceptIdentify(s)
    BY <2>2, AcceptIdentifyStep
  <2>3. CASE AcceptResume(s)
    BY <2>3, AcceptResumeStep
  <2>4. CASE Invalidate(s)
    BY <2>4, InvalidateStep
  <2>5. CASE Happens(s)
    BY <2>5, HappensStep
  <2>6. CASE Signal(s)
    BY <2>6, SignalStep
  <2> QED BY <1>8, <2>1, <2>2, <2>3, <2>4, <2>5, <2>6 DEF GatewayStep
<1>9. CASE UNCHANGED vars
  <2>1. /\ UNCHANGED <<shards, gatewayVars, seen>>
        /\ UNCHANGED <<reconnections, clockVars, identify_timers, start_next, crashed>>
    BY <1>9 DEF vars
  <2>2. /\ OtherTypes /\ NotStarted /\ NoShardForgotten
    BY Parts
  <2>3. \A p : LiveTimers(p)' = LiveTimers(p)
    BY <2>1, TimersKept
  <2>4. ShardTypes' /\ \A p \in Shards : GoodShard(p)'
    BY <2>1, <2>3, ShardsKept
  <2>5. OtherTypes'
    BY <2>1, <2>2 DEF OtherTypes, clockVars
  <2>6. NotStarted' /\ NoShardForgotten'
    BY <2>1, <2>2, ListKept
  <2> QED BY <2>4, <2>5, <2>6, Whole
<1> QED BY <1>1, <1>2, <1>3, <1>4, <1>5, <1>6, <1>7, <1>8, <1>9 DEF Next

\* The invariant holds in every reachable state.
LEMMA Invariance == Spec => []IInv
BY InitInv, StepInv, PTL DEF Spec

\* The variables of a cluster keep their types: no countdown leaves its range,
\* whatever the lag, and no frame, request or timer is malformed.
THEOREM TypeCorrect == Spec => []TypeOK
<1>1. IInv => TypeOK
  BY DEF IInv
<1> QED BY <1>1, Invariance, PTL

\* Exactly the shards whose connection was closed with close(), or whose new
\* client the monitor could not construct, are in reconnections, until the
\* monitor replaces them: for any number of shards, in every order of starts,
\* failures and reconnections.  Shards that were never started, or whose acks
\* were missed, are not.
THEOREM AlwaysListed == Spec => []NoShardForgotten
<1>1. IInv => NoShardForgotten
  BY DEF IInv
<1> QED BY <1>1, Invariance, PTL

\* The session and sequence a client would resume from are those of the last
\* event that was handled, across every reconnection and every refusal.
THEOREM SessionsKept == Spec => []SessionKept
<1>1. IInv => SessionKept
  <2> SUFFICES ASSUME IInv, NEW s \in Shards
               PROVE  /\ shards[s].sessionid = seen[s].session
                      /\ shards[s].last_seq = Len(seen[s].events)
    BY DEF SessionKept
  <2>1. Good(shards[s], wire[s], request[s], session[s],
             session_seq[s], attached[s], seen[s], LiveTimers(s))
    BY Parts
  <2> QED BY <2>1 DEF Good, SeenFits
<1> QED BY <1>1, Invariance, PTL

\* The events of a session are handled one by one from the first: a resume
\* replays neither less nor more than what was missed, and events on their way
\* when a connection or a session ends are neither lost nor repeated.
THEOREM NoEventLost == Spec => []EventsInOrder
<1>1. IInv => EventsInOrder
  <2> SUFFICES ASSUME IInv, NEW s \in Shards, NEW i \in DOMAIN seen[s].events
               PROVE  seen[s].events[i] = i
    BY DEF EventsInOrder
  <2>1. Good(shards[s], wire[s], request[s], session[s],
             session_seq[s], attached[s], seen[s], LiveTimers(s))
    BY Parts
  <2>2. seen[s].events \in Seq(Nat) /\ \A j \in 1..Len(seen[s].events) : seen[s].events[j] = j
    BY <2>1 DEF Good, Typed, SeenFits, History
  <2>3. DOMAIN seen[s].events = 1..Len(seen[s].events)
    BY <2>2, LenProperties
  <2> QED BY <2>2, <2>3
<1> QED BY <1>1, Invariance, PTL
=============================================================================
