------------------------- MODULE HttpsClientProofs -------------------------
(***************************************************************************)
(* An https_client calls its completion callback exactly once, and the     *)
(* body it collects is the one the server sent, for every set of           *)
(* responses (any number of chunks of any size), every way the network     *)
(* cuts them and every timeout.                                            *)
(*                                                                         *)
(* CalledOnce alone is not inductive: it must be known that the callback   *)
(* is set exactly as long as the client is not done, and that whoever may  *)
(* still reach the callback (the parser, an open socket) implies that it   *)
(* is not (CallInv).                                                       *)
(*                                                                         *)
(* BodyFaithful needs to know where in the stream the parser is: in each   *)
(* of its states, how many tokens have been taken from the stream and how  *)
(* many bytes of the body that gave (Parsed), and that the buffer and what *)
(* has yet to come are the rest of the stream (Left).  The places of the   *)
(* chunks in the stream and in the body are partial sums of their sizes;   *)
(* what FlattenSeq puts at those places is shown by induction over the     *)
(* number of chunks, as the absence of a least counterexample.             *)
(***************************************************************************)
EXTENDS HttpsClient, SequenceTheorems, WellFoundedInduction, TLAPS

CallInv ==
    /\ called \in {0, 1}
    /\ completed \in BOOLEAN
    /\ completed <=> state # "HTTPS_DONE"
    /\ completed <=> called = 0
    /\ sfd => completed
    /\ pc = "parse" => completed
    /\ pc \in {"idle", "parse"}

\* close(), from wherever it is called, calls back if nobody has done so.
LEMMA FinishCalls ==
    ASSUME CallInv, NEW STATE cause, NEW STATE b, Finish(cause, b)
    PROVE  CallInv'
<1>1. called' = 1
  <2>1. CASE completed
    <3>1. called = 0
      BY <2>1 DEF CallInv
    <3>2. called' = called + 1
      BY <2>1 DEF Finish, Calls
    <3> QED BY <3>1, <3>2
  <2>2. CASE ~ completed
    <3>1. called = 1
      BY <2>2 DEF CallInv
    <3>2. called' = called + 0
      BY <2>2 DEF Finish, Calls
    <3> QED BY <3>1, <3>2
  <2> QED BY <2>1, <2>2
<1>2. ~ completed' /\ ~ sfd' /\ completed' \in BOOLEAN
  BY DEF Finish
<1>3. state' = "HTTPS_DONE" /\ pc' = "idle"
  BY DEF Finish
<1> QED BY <1>1, <1>2, <1>3 DEF CallInv

\* A step that leaves the callback alone, keeps the client from being done and
\* parses only what an open client has read.
LEMMA KeepCalls ==
    ASSUME CallInv, UNCHANGED doneVars, UNCHANGED sfd,
           state' = state \/ (completed /\ state' # "HTTPS_DONE"),
           pc' \in {"idle", pc} \/ (sfd /\ pc' = "parse")
    PROVE  CallInv'
BY DEF CallInv, doneVars

\* No step of the connection, the clock or the parser breaks CallInv.
LEMMA CallStep ==
    ASSUME CallInv, [Next]_vars
    PROVE  CallInv'
<1>1. CASE TcpConnect
  BY <1>1, KeepCalls DEF TcpConnect
<1>2. CASE Handshake
  BY <1>2, KeepCalls DEF Handshake
<1>3. CASE OnRead
  BY <1>3, KeepCalls DEF OnRead, connVars
<1>4. CASE ConnectionLost
  BY <1>4, FinishCalls DEF ConnectionLost
<1>5. CASE Second
  BY <1>5, KeepCalls DEF Second, connVars
<1>6. CASE OneSecondTimer
  BY <1>6, FinishCalls DEF OneSecondTimer
<1>7. CASE Parse
  <2>1. CASE Wait
    BY <2>1, KeepCalls DEF Wait, Again, connVars
  <2>2. CASE HeadersEnd
    BY <2>2, FinishCalls DEF HeadersEnd
  <2>3. CASE HeadersDone
    <3>1. pc = "parse" /\ completed
      BY <2>3 DEF HeadersDone, InState, CallInv
    <3>2. /\ UNCHANGED doneVars /\ UNCHANGED sfd
          /\ state' \in {"HTTPS_CHUNK_LEN", "HTTPS_CONTENT"}
          /\ pc' \in {"idle", "parse"}
      BY <2>3 DEF HeadersDone, connVars, Again
    <3> QED BY <3>1, <3>2, KeepCalls
  <2>4. CASE Content
    <3>1. CASE BodyDone(body \o buffer)
      BY <2>4, <3>1, FinishCalls DEF Content
    <3>2. CASE ~ BodyDone(body \o buffer)
      BY <2>4, <3>2, KeepCalls DEF Content, Again, connVars
    <3> QED BY <3>1, <3>2
  <2>5. CASE ChunkLen
    <3>1. pc = "parse" /\ completed
      BY <2>5 DEF ChunkLen, InState, CallInv
    <3>2. /\ UNCHANGED doneVars /\ UNCHANGED sfd
          /\ state' \in {"HTTPS_CHUNK_LAST", "HTTPS_CHUNK_CONTENT"}
          /\ pc' = "parse"
      BY <2>5 DEF ChunkLen, connVars, Again
    <3> QED BY <3>1, <3>2, KeepCalls
  <2>6. CASE ChunkLenBad
    BY <2>6, FinishCalls DEF ChunkLenBad
  <2>7. CASE ChunkContent
    <3>1. pc = "parse" /\ completed
      BY <2>7 DEF ChunkContent, InState, CallInv
    <3>2. /\ UNCHANGED doneVars /\ UNCHANGED sfd
          /\ state' \in {"HTTPS_CHUNK_TRAILER", state}
          /\ pc' \in {"idle", "parse"}
      BY <2>7 DEF ChunkContent, connVars, Again
    <3> QED BY <3>1, <3>2, KeepCalls
  <2>8. CASE ChunkTrailer
    <3>1. pc = "parse" /\ completed
      BY <2>8 DEF ChunkTrailer, InState, CallInv
    <3>2. /\ UNCHANGED doneVars /\ UNCHANGED sfd
          /\ state' = "HTTPS_CHUNK_LEN"
          /\ pc' = "parse"
      BY <2>8 DEF ChunkTrailer, connVars, Again
    <3> QED BY <3>1, <3>2, KeepCalls
  <2>9. CASE ChunkLast
    BY <2>9, FinishCalls DEF ChunkLast
  <2> QED BY <1>7, <2>1, <2>2, <2>3, <2>4, <2>5, <2>6, <2>7, <2>8, <2>9 DEF Parse
<1>8. CASE UNCHANGED vars
  BY <1>8, KeepCalls DEF vars, connVars
<1> QED BY <1>1, <1>2, <1>3, <1>4, <1>5, <1>6, <1>7, <1>8 DEF Next

\* The completion callback of an https_client is called exactly once, at the
\* moment it is done: the parser, the timer and connection errors, which may all
\* close it and one after the other, never call it again, and none leaves it out.
THEOREM ExactlyOnce == Spec => []CalledOnce
<1>1. Init => CallInv
  BY DEF Init, CallInv
<1>2. CallInv /\ [Next]_vars => CallInv'
  BY CallStep
<1>3. CallInv => CalledOnce
  BY DEF CallInv, CalledOnce
<1> QED BY <1>1, <1>2, <1>3, PTL DEF Spec

-----------------------------------------------------------------------------
(* Sequences put together.  Their lengths add up, and induction over the   *)
(* number of them is a least counterexample.                               *)

\* A set of numbers that is not empty has a least one.
LEMMA LeastNumber ==
    ASSUME NEW T, T \subseteq Nat, T # {}
    PROVE  \E x \in T : \A y \in T : x <= y
<1>1. PICK x \in T : \A y \in T : ~ (<<y, x>> \in OpToRel(<, Nat))
  BY NatLessThanWellFounded, WFMin
<1>2. \A y \in T : ~ (y < x)
  BY <1>1 DEF OpToRel
<1>3. \A y \in T : x <= y
  BY <1>2
<1> QED BY <1>3

\* A place inside the j-th of several parts is a place of the whole.
LEMMA Within ==
    ASSUME NEW x \in Nat, NEW l \in Nat, NEW m \in Nat, x + l <= m, NEW k \in 1..l
    PROVE  x + k \in 1..m
OBVIOUS

\* Partial sums: what comes before the i-th of several sequences put together.
Sums(n, size, e) ==
    /\ e \in [0..n -> Nat] /\ e[0] = 0
    /\ \A i \in 1..n : e[i] = e[i - 1] + size[i]

\* Any sizes have partial sums.
LEMMA SumsExist ==
    ASSUME NEW n \in Nat, NEW size \in [1..n -> Nat]
    PROVE  \E e : Sums(n, size, e)
<1> DEFINE T == {m \in 0..n : ~ \E e : Sums(m, size, e)}
<1>1. CASE T = {}
  <2>1. n \in 0..n
    OBVIOUS
  <2> QED BY <1>1, <2>1
<1>2. CASE T # {}
  <2>1. PICK m \in T : \A y \in T : m <= y
    <3>1. T \subseteq Nat
      OBVIOUS
    <3> HIDE DEF T
    <3> QED BY <1>2, <3>1, LeastNumber
  <2>2. m # 0
    <3>1. Sums(0, size, [i \in 0..0 |-> 0])
      BY DEF Sums
    <3> QED BY <2>1, <3>1
  <2>3. m - 1 \in 0..n /\ m - 1 \notin T /\ m \in 1..n
    BY <2>1, <2>2
  <2>4. PICK e : Sums(m - 1, size, e)
    BY <2>3
  <2> DEFINE d == [i \in 0..m |-> IF i = m THEN e[m - 1] + size[m] ELSE e[i]]
  <2>5. d \in [0..m -> Nat]
    BY <2>3, <2>4 DEF Sums
  <2>6. ASSUME NEW i \in 1..m PROVE d[i] = d[i - 1] + size[i]
    <3>1. i \in 0..m /\ i - 1 \in 0..m /\ i - 1 # m /\ (i # m => i \in 1..(m - 1))
      BY <2>3
    <3> QED BY <2>4, <3>1 DEF Sums
  <2>7. d[0] = 0
    BY <2>3, <2>4 DEF Sums
  <2>8. Sums(m, size, d)
    BY <2>5, <2>6, <2>7 DEF Sums
  <2> QED BY <2>1, <2>8
<1> QED BY <1>1, <1>2

\* The recursive function in FlattenSeq: the first i sequences put together.
Joined(p, n, f) ==
    f = [i \in 1..n |-> IF i = 1 THEN p[i] ELSE f[i - 1] \o p[i]]

\* That recursive function exists.
LEMMA JoinedExist ==
    ASSUME NEW X, NEW p \in Seq(Seq(X)), Len(p) >= 1
    PROVE  \E f : Joined(p, Len(p), f)
<1> DEFINE T == {m \in 1..Len(p) : ~ \E f : Joined(p, m, f)}
<1>0. Len(p) \in Nat
  BY LenProperties
<1>1. CASE T = {}
  <2>1. Len(p) \in 1..Len(p)
    BY <1>0
  <2> QED BY <1>1, <2>1
<1>2. CASE T # {}
  <2>1. PICK m \in T : \A y \in T : m <= y
    <3>1. T \subseteq Nat
      BY <1>0
    <3> HIDE DEF T
    <3> QED BY <1>2, <3>1, LeastNumber
  <2>2. m # 1
    <3>1. Joined(p, 1, [i \in 1..1 |-> p[1]])
      BY DEF Joined
    <3> QED BY <2>1, <3>1
  <2>3. m - 1 \in 1..Len(p) /\ m - 1 \notin T /\ m \in 1..Len(p)
    BY <1>0, <2>1, <2>2
  <2>4. PICK f : Joined(p, m - 1, f)
    BY <2>3
  <2> DEFINE g == [i \in 1..m |-> IF i = m THEN f[m - 1] \o p[m] ELSE f[i]]
  <2>5. Joined(p, m, g)
    <3>1. ASSUME NEW i \in 1..m PROVE g[i] = IF i = 1 THEN p[i] ELSE g[i - 1] \o p[i]
      <4>1. CASE i = m
        <5>1. m \in 1..m /\ m - 1 \in 1..m /\ m - 1 # m
          BY <1>0, <2>2, <2>3
        <5> QED BY <2>2, <4>1, <5>1
      <4>2. CASE i # m
        <5>1. i \in 1..(m - 1) /\ (i # 1 => i - 1 \in 1..m /\ i - 1 # m)
          BY <1>0, <2>3, <4>2
        <5>2. f[i] = IF i = 1 THEN p[i] ELSE f[i - 1] \o p[i]
          BY <2>4, <5>1 DEF Joined
        <5> QED BY <4>2, <5>1, <5>2
      <4> QED BY <4>1, <4>2
    <3> HIDE DEF T
    <3>2. g = [i \in 1..m |-> g[i]]
      OBVIOUS
    <3> HIDE DEF g
    <3> QED BY <3>1, <3>2 DEF Joined
  <2> QED BY <2>1, <2>5
<1> QED BY <1>1, <1>2

\* FlattenSeq is its last value.
LEMMA FlattenIs ==
    ASSUME NEW X, NEW p \in Seq(Seq(X)), Len(p) >= 1
    PROVE  \E f : Joined(p, Len(p), f) /\ FlattenSeq(p) = f[Len(p)]
<1> DEFINE f == CHOOSE f : Joined(p, Len(p), f)
<1>1. Joined(p, Len(p), f)
  BY JoinedExist
<1>2. Len(p) # 0
  BY LenProperties
<1>3. FlattenSeq(p) = f[Len(p)]
  BY <1>2 DEF FlattenSeq, Joined
<1> QED BY <1>1, <1>3

\* Partial sums do not decrease.
LEMMA SumsGrow ==
    ASSUME NEW n \in Nat, NEW size \in [1..n -> Nat], NEW e, Sums(n, size, e), NEW i \in 0..n
    PROVE  \A j \in i..n : e[i] <= e[j]
<1> DEFINE T == {j \in i..n : ~ (e[i] <= e[j])}
<1>1. SUFFICES ASSUME T # {} PROVE FALSE
  OBVIOUS
<1>2. PICK j \in T : \A y \in T : j <= y
  <2>1. T \subseteq Nat
    OBVIOUS
  <2> HIDE DEF T
  <2> QED BY <1>1, <2>1, LeastNumber
<1>3. e \in [0..n -> Nat]
  BY DEF Sums
<1>4. j # i /\ j \in i..n /\ ~ (e[i] <= e[j])
  BY <1>2, <1>3
<1>5. j - 1 \in i..n /\ j \in 1..n /\ j - 1 \in 0..n /\ j \in 0..n /\ ~ (j <= j - 1)
  BY <1>4
<1>6. j - 1 \notin T
  BY <1>2, <1>5
<1>7. e[i] <= e[j - 1]
  BY <1>5, <1>6
<1>8. e[j] = e[j - 1] + size[j]
  BY <1>5 DEF Sums
<1>9. e[i] \in Nat /\ e[j - 1] \in Nat /\ size[j] \in Nat
  BY <1>3, <1>5
<1> QED BY <1>4, <1>7, <1>8, <1>9

\* What a concatenation holds, without a case distinction.
LEMMA ConcatAt ==
    ASSUME NEW X, NEW a \in Seq(X), NEW b \in Seq(X)
    PROVE  /\ a \o b \in Seq(X) /\ Len(a \o b) = Len(a) + Len(b)
           /\ \A k \in 1..Len(a) : (a \o b)[k] = a[k]
           /\ \A k \in 1..Len(b) : (a \o b)[Len(a) + k] = b[k]
<1>0. Len(a) \in Nat /\ Len(b) \in Nat
  BY LenProperties
<1>1. \A k \in 1..Len(a) + Len(b) : (a \o b)[k] = IF k <= Len(a) THEN a[k] ELSE b[k - Len(a)]
  BY ConcatProperties, Zenon
<1>2. \A k \in 1..Len(b) : Len(a) + k \in 1..Len(a) + Len(b) /\ ~ (Len(a) + k <= Len(a)) /\ (Len(a) + k) - Len(a) = k
  BY <1>0
<1>3. \A k \in 1..Len(a) : k \in 1..Len(a) + Len(b) /\ k <= Len(a)
  BY <1>0
<1>4. a \o b \in Seq(X) /\ Len(a \o b) = Len(a) + Len(b)
  BY ConcatProperties
<1> QED BY <1>1, <1>2, <1>3, <1>4

\* What FlattenSeq returns: each sequence at the place the sums say.
LEMMA FlattenLayout ==
    ASSUME NEW X, NEW p \in Seq(Seq(X)), NEW e \in [0..Len(p) -> Nat], e[0] = 0,
           \A i \in 1..Len(p) : e[i] = e[i - 1] + Len(p[i])
    PROVE  /\ FlattenSeq(p) \in Seq(X) /\ Len(FlattenSeq(p)) = e[Len(p)]
           /\ \A i \in 1..Len(p) : \A k \in 1..Len(p[i]) : FlattenSeq(p)[e[i - 1] + k] = p[i][k]
<1> DEFINE n == Len(p)
           size == [i \in 1..n |-> Len(p[i])]
<1>1. n \in Nat /\ \A i \in 1..n : p[i] \in Seq(X) /\ Len(p[i]) \in Nat
  BY LenProperties, ElementOfSeq
<1>2. size \in [1..n -> Nat] /\ \A i \in 1..n : size[i] = Len(p[i])
  BY <1>1
<1>3. /\ e \in [0..n -> Nat] /\ e[0] = 0
      /\ \A i \in 1..n : e[i] = e[i - 1] + Len(p[i])
  OBVIOUS
<1>4. CASE n = 0
  <2>1. p = <<>> /\ FlattenSeq(p) = <<>>
    BY <1>4, EmptySeq DEF FlattenSeq
  <2> QED BY <1>1, <1>3, <1>4, <2>1
<1>5. CASE n # 0
  <2>1. PICK f : Joined(p, n, f) /\ FlattenSeq(p) = f[n]
    BY <1>1, <1>5, FlattenIs
  <2> DEFINE Good(i) == /\ f[i] \in Seq(X) /\ Len(f[i]) = e[i]
                        /\ \A j \in 1..i : \A k \in 1..Len(p[j]) : f[i][e[j - 1] + k] = p[j][k]
             T == {i \in 1..n : ~ Good(i)}
  <2>2. ASSUME T # {} PROVE FALSE
    <3>1. PICK i \in T : \A y \in T : i <= y
      <4>1. T \subseteq Nat
        BY <1>1
      <4> HIDE DEF T
      <4> QED BY <2>2, <4>1, LeastNumber
    <3>2. i \in 1..n /\ i \in Nat /\ i \in 0..n
      BY <1>1, <3>1
    <3>3. f[i] = IF i = 1 THEN p[i] ELSE f[i - 1] \o p[i]
      BY <2>1, <3>2 DEF Joined
    <3>4. CASE i = 1
      <4>1. f[1] = p[1] /\ 1 \in 1..n /\ e[1] = Len(p[1]) /\ p[1] \in Seq(X)
        BY <1>1, <1>3, <3>2, <3>3, <3>4
      <4>2. \A j \in 1..1 : j = 1 /\ e[j - 1] = 0
        BY <1>3
      <4>3. \A k \in 1..Len(p[1]) : 0 + k = k
        BY <1>1, <4>1
      <4>4. Good(1)
        BY <4>1, <4>2, <4>3
      <4> QED BY <3>1, <3>4, <4>4
    <3>5. CASE i # 1
      <4>1. i - 1 \in 1..n /\ ~ (i <= i - 1)
        BY <1>1, <3>2, <3>5
      <4>2. Good(i - 1)
        BY <3>1, <4>1
      <4> DEFINE a == f[i - 1]
                 b == p[i]
      <4>3. a \in Seq(X) /\ b \in Seq(X) /\ Len(a) = e[i - 1] /\ Len(b) \in Nat /\ Len(a) \in Nat
        BY <1>1, <1>3, <3>2, <4>1, <4>2, LenProperties
      <4>4. f[i] = a \o b
        BY <3>3, <3>5
      <4> HIDE DEF a, b
      <4>5. /\ a \o b \in Seq(X) /\ Len(a \o b) = Len(a) + Len(b)
            /\ \A k \in 1..Len(a) : (a \o b)[k] = a[k]
            /\ \A k \in 1..Len(b) : (a \o b)[Len(a) + k] = b[k]
        <5>1. a \in Seq(X) /\ b \in Seq(X)
          BY <4>3
        <5> HIDE DEF T, Good, n, size
        <5> QED BY <5>1, ConcatAt
      <4>6. Len(f[i]) = e[i]
        BY <1>3, <3>2, <4>3, <4>4, <4>5 DEF b
      <4>7. ASSUME NEW j \in 1..i, NEW k \in 1..Len(p[j]) PROVE f[i][e[j - 1] + k] = p[j][k]
        <5>1. CASE j = i
          BY <4>3, <4>4, <4>5, <5>1 DEF b
        <5>2. CASE j # i
          <6>1. j \in 1..(i - 1) /\ j \in 1..n /\ j - 1 \in 0..n /\ j \in 0..n /\ i - 1 \in j..n
            BY <1>1, <3>2, <5>2
          <6>2. e[j] <= e[i - 1] /\ e[j] = e[j - 1] + Len(p[j])
            <7>1. Sums(n, size, e)
              BY <1>2, <1>3 DEF Sums
            <7> HIDE DEF size, n
            <7>2. \A l \in j..n : e[j] <= e[l]
              BY <1>1, <1>2, <6>1, <7>1, SumsGrow
            <7> QED BY <1>3, <6>1, <7>2
          <6>3. e[j - 1] \in Nat /\ Len(p[j]) \in Nat
            BY <1>1, <1>3, <6>1
          <6>4. e[j - 1] + k \in 1..Len(a)
            <7>1. e[j - 1] + Len(p[j]) <= Len(a)
              BY <4>3, <6>2
            <7>2. Len(a) \in Nat
              BY <4>3
            <7> QED BY <6>3, <7>1, <7>2, Within
          <6>5. a[e[j - 1] + k] = p[j][k]
            BY <4>2, <6>1 DEF a
          <6> QED BY <4>4, <4>5, <6>4, <6>5
        <5> QED BY <5>1, <5>2
      <4>8. Good(i)
        BY <4>4, <4>5, <4>6, <4>7
      <4> QED BY <3>1, <4>8
    <3> QED BY <3>4, <3>5
  <2>3. Good(n)
    <3>1. n \in 1..n
      BY <1>1, <1>5
    <3> QED BY <2>2, <3>1
  <2> QED BY <2>1, <2>3
<1> QED BY <1>4, <1>5

\* What precedes the i-th of the chunks: bytes of the body, tokens of the stream.
Before(r) ==
    LET e[i \in 0..Len(r.chunks)] == IF i = 0 THEN 0 ELSE e[i - 1] + r.chunks[i] IN e
At(r, i) == 2 + Before(r)[i - 1] + 5 * (i - 1)

\* What is left of the stream S after its first p tokens: read, then yet to come.
Left(S, p, b, c) ==
    /\ p + Len(b) + Len(c) = Len(S)
    /\ \A k \in 1..Len(b) : b[k] = S[p + k]
    /\ \A k \in 1..Len(c) : c[k] = S[p + Len(b) + k]

\* b is the beginning of t.
Begins(b, t) == Len(b) <= Len(t) /\ \A k \in 1..Len(b) : b[k] = t[k]

Chunked == response.framing \in {"chunked", "bad_chunk"}

\* Where the parser is, in each of its states, and what it has of the body.
Parsed(p) ==
    LET r == response
        e == Before(r)
        c == r.chunks
    IN
    /\ state = "HTTPS_HEADERS" => p = 0 /\ body = <<>> /\ timeout <= RequestTime
    /\ state = "HTTPS_CONTENT" =>
        /\ r.framing \in {"length", "unknown"}
        /\ p = 2 + Len(body)
        /\ r.framing = "length" => content_length = e[Len(c)]
        /\ r.framing = "unknown" => content_length = NoLength
    /\ state = "HTTPS_CHUNK_LEN" =>
        /\ Chunked
        /\ \E i \in 1..(Len(c) + 1) : p = At(r, i) /\ Len(body) = e[i - 1]
    /\ state = "HTTPS_CHUNK_CONTENT" =>
        /\ Chunked
        /\ \E i \in 1..Len(c) : /\ chunk_size = c[i]
                                /\ p = At(r, i) + 3 + chunk_receive
                                /\ Len(body) = e[i - 1] + chunk_receive
    /\ state = "HTTPS_CHUNK_TRAILER" =>
        /\ Chunked
        /\ \E i \in 1..Len(c) : p = At(r, i) + 3 + c[i] /\ Len(body) = e[i]
    /\ state = "HTTPS_CHUNK_LAST" => r.framing = "chunked" /\ Len(body) = e[Len(c)]

ParseInv == state # "HTTPS_DONE" => \E p \in Nat : Left(Stream(response), p, buffer, coming) /\ Parsed(p)
ReportInv ==
    /\ Begins(body, Body(response))
    /\ state # "HTTPS_DONE" => report.cause = "none"
    /\ report.cause = "parsed" /\ response.framing # "unknown" => report.body = Body(response)
IInv == TypeOK /\ ParseInv /\ ReportInv

\* A function on 1..m is a sequence of length m.
LEMMA FunSeq ==
    ASSUME NEW X, NEW m \in Nat, NEW f \in [1..m -> X]
    PROVE  f \in Seq(X) /\ Len(f) = m
<1>1. f \in Seq(X)
  BY SeqDef
<1>2. DOMAIN f = 1..m /\ DOMAIN f = 1..Len(f) /\ Len(f) \in Nat
  BY <1>1, LenProperties
<1>3. Len(f) <= m
  <2>1. CASE Len(f) = 0
    BY <2>1
  <2>2. CASE Len(f) # 0
    <3>1. Len(f) \in 1..m
      BY <1>2, <2>2
    <3> QED BY <3>1
  <2> QED BY <2>1, <2>2
<1>4. m <= Len(f)
  <2>1. CASE m = 0
    BY <1>2, <2>1
  <2>2. CASE m # 0
    <3>1. m \in 1..Len(f)
      BY <1>2, <2>2
    <3> QED BY <1>2, <3>1
  <2> QED BY <2>1, <2>2
<1> QED BY <1>1, <1>2, <1>3, <1>4

\* Tokens have their type.
LEMMA TokType ==
    ASSUME NEW k \in {"head", "head_end", "length", "bad_length", "cr", "lf", "data"},
           NEW c \in Nat, NEW n \in Nat
    PROVE  Tok(k, c, n) \in Token
BY DEF Tok, Token

\* The two tokens of a line end.
LEMMA CrLfIs ==
    /\ CrLf \in Seq(Token) /\ Len(CrLf) = 2
    /\ CrLf[1] = Tok("cr", 0, 0) /\ CrLf[2] = Tok("lf", 0, 0)
<1>1. Tok("cr", 0, 0) \in Token /\ Tok("lf", 0, 0) \in Token
  BY TokType
<1> QED BY <1>1 DEF CrLf

\* The bytes of a chunk.
LEMMA ChunkIs ==
    ASSUME NEW r \in Responses, NEW i \in 1..Len(r.chunks)
    PROVE  /\ r.chunks[i] \in Nat \ {0}
           /\ Chunk(r, i) \in Seq(Token) /\ Len(Chunk(r, i)) = r.chunks[i]
           /\ \A k \in 1..r.chunks[i] : Chunk(r, i)[k] = Tok("data", i, k)
<1>1. r.chunks \in Seq(Nat \ {0})
  BY HttpsClientAssumption
<1>2. Len(r.chunks) \in Nat /\ r.chunks[i] \in Nat \ {0}
  BY <1>1, LenProperties, ElementOfSeq
<1>3. \A k \in 1..r.chunks[i] : Tok("data", i, k) \in Token
  BY <1>2 DEF Tok, Token
<1>4. Chunk(r, i) \in [1..r.chunks[i] -> Token]
  BY <1>3 DEF Chunk
<1>5. Chunk(r, i) \in Seq(Token) /\ Len(Chunk(r, i)) = r.chunks[i]
  BY <1>2, <1>4, FunSeq
<1> QED BY <1>2, <1>5 DEF Chunk

\* Before gives the partial sums of the sizes of the chunks.
LEMMA BeforeIs ==
    ASSUME NEW r \in Responses
    PROVE  /\ Len(r.chunks) \in Nat /\ r.chunks \in [1..Len(r.chunks) -> Nat \ {0}]
           /\ Sums(Len(r.chunks), r.chunks, Before(r))
<1> DEFINE n == Len(r.chunks)
           F(e) == [i \in 0..n |-> IF i = 0 THEN 0 ELSE e[i - 1] + r.chunks[i]]
<1>1. r.chunks \in Seq(Nat \ {0})
  BY HttpsClientAssumption
<1>2. n \in Nat /\ r.chunks \in [1..n -> Nat \ {0}]
  BY <1>1, LenProperties
<1>3. r.chunks \in [1..n -> Nat]
  BY <1>2
<1>4. PICK e : Sums(n, r.chunks, e)
  BY <1>2, <1>3, SumsExist
<1>5. e = F(e)
  <2>1. ASSUME NEW i \in 0..n PROVE e[i] = IF i = 0 THEN 0 ELSE e[i - 1] + r.chunks[i]
    BY <1>2, <1>4 DEF Sums
  <2>2. e = [i \in 0..n |-> e[i]]
    BY <1>4 DEF Sums
  <2> QED BY <2>1, <2>2
<1>6. Before(r) = F(Before(r))
  BY <1>5 DEF Before
<1> DEFINE d == Before(r)
<1>7. \A i \in 0..n : d[i] = IF i = 0 THEN 0 ELSE d[i - 1] + r.chunks[i]
  BY <1>6
<1>8. d = [i \in 0..n |-> d[i]]
  BY <1>6
<1> HIDE DEF d
<1>9. d[0] = 0 /\ \A i \in 1..n : d[i] = d[i - 1] + r.chunks[i]
  BY <1>2, <1>7
<1>10. \A i \in 0..n : d[i] \in Nat
  <2> DEFINE T == {i \in 0..n : d[i] \notin Nat}
  <2>1. SUFFICES ASSUME T # {} PROVE FALSE
    OBVIOUS
  <2>2. PICK i \in T : \A y \in T : i <= y
    <3>1. T \subseteq Nat
      OBVIOUS
    <3> HIDE DEF T
    <3> QED BY <2>1, <3>1, LeastNumber
  <2>3. i \in 1..n /\ i - 1 \in 0..n /\ ~ (i <= i - 1) /\ d[i] \notin Nat
    BY <1>2, <1>9, <2>2
  <2>4. d[i - 1] \in Nat
    BY <2>2, <2>3
  <2>5. d[i] = d[i - 1] + r.chunks[i] /\ r.chunks[i] \in Nat
    BY <1>3, <1>9, <2>3
  <2> QED BY <2>3, <2>4, <2>5
<1>11. d \in [0..n -> Nat]
  BY <1>8, <1>10
<1> QED BY <1>2, <1>9, <1>11 DEF Sums, d

\* The body: the bytes of each chunk at the place Before says.
LEMMA BodyIs ==
    ASSUME NEW r \in Responses
    PROVE  /\ Body(r) \in Seq(Token) /\ Len(Body(r)) = Before(r)[Len(r.chunks)]
           /\ \A i \in 1..Len(r.chunks) : \A k \in 1..r.chunks[i] :
                Body(r)[Before(r)[i - 1] + k] = Tok("data", i, k)
<1> DEFINE n == Len(r.chunks)
           p == [i \in 1..n |-> Chunk(r, i)]
           e == Before(r)
<1>1. n \in Nat /\ Sums(n, r.chunks, e)
  BY BeforeIs
<1>2. \A i \in 1..n : /\ Chunk(r, i) \in Seq(Token) /\ Len(Chunk(r, i)) = r.chunks[i]
                      /\ \A k \in 1..r.chunks[i] : Chunk(r, i)[k] = Tok("data", i, k)
  BY ChunkIs
<1>3. p \in [1..n -> Seq(Token)] /\ \A i \in 1..n : p[i] = Chunk(r, i)
  BY <1>2
<1>4. Body(r) = FlattenSeq(p)
  BY DEF Body
<1> HIDE DEF n, p, e
<1>5. p \in Seq(Seq(Token)) /\ Len(p) = n
  BY <1>1, <1>3, FunSeq
<1>6. \A i \in 1..n : Len(p[i]) = r.chunks[i]
  BY <1>2, <1>3
<1>7. /\ e \in [0..Len(p) -> Nat] /\ e[0] = 0
      /\ \A i \in 1..Len(p) : e[i] = e[i - 1] + Len(p[i])
  BY <1>1, <1>5, <1>6 DEF Sums
<1>8. /\ FlattenSeq(p) \in Seq(Token) /\ Len(FlattenSeq(p)) = e[Len(p)]
      /\ \A i \in 1..Len(p) : \A k \in 1..Len(p[i]) : FlattenSeq(p)[e[i - 1] + k] = p[i][k]
  BY <1>5, <1>7, FlattenLayout, Zenon
<1>9. ASSUME NEW i \in 1..n, NEW k \in 1..r.chunks[i] PROVE Body(r)[e[i - 1] + k] = Tok("data", i, k)
  <2>1. FlattenSeq(p)[e[i - 1] + k] = p[i][k]
    BY <1>5, <1>6, <1>8
  <2>2. p[i][k] = Tok("data", i, k)
    BY <1>2, <1>3
  <2> QED BY <1>4, <2>1, <2>2
<1>10. \A i \in 1..n : \A k \in 1..r.chunks[i] : Body(r)[e[i - 1] + k] = Tok("data", i, k)
  BY <1>9
<1> QED BY <1>4, <1>5, <1>8, <1>10 DEF n, e

\* A chunk as it is sent.
Part(r, i) == <<Tok("length", i, r.chunks[i])>> \o CrLf \o Chunk(r, i) \o CrLf

\* The tokens of a chunk as it is sent.
LEMMA PartIs ==
    ASSUME NEW r \in Responses, NEW i \in 1..Len(r.chunks)
    PROVE  LET m == r.chunks[i] IN
           /\ m \in Nat \ {0}
           /\ Part(r, i) \in Seq(Token) /\ Len(Part(r, i)) = m + 5
           /\ Part(r, i)[1] = Tok("length", i, m)
           /\ Part(r, i)[2] = Tok("cr", 0, 0) /\ Part(r, i)[3] = Tok("lf", 0, 0)
           /\ \A k \in 1..m : Part(r, i)[3 + k] = Tok("data", i, k)
           /\ Part(r, i)[m + 4] = Tok("cr", 0, 0) /\ Part(r, i)[m + 5] = Tok("lf", 0, 0)
<1> DEFINE m == r.chunks[i]
           a == <<Tok("length", i, m)>>
           b == a \o CrLf
           c == b \o Chunk(r, i)
           d == c \o CrLf
<1>1. /\ m \in Nat \ {0} /\ Chunk(r, i) \in Seq(Token) /\ Len(Chunk(r, i)) = m
      /\ \A k \in 1..m : Chunk(r, i)[k] = Tok("data", i, k)
  BY ChunkIs
<1>2. a \in Seq(Token) /\ Len(a) = 1 /\ a[1] = Tok("length", i, m)
  <2>1. Len(r.chunks) \in Nat
    BY BeforeIs
  <2>2. m \in Nat /\ i \in Nat
    BY <1>1, <2>1
  <2> HIDE DEF m
  <2>3. Tok("length", i, m) \in Token
    BY <2>2 DEF Tok, Token
  <2> QED BY <2>3
<1>3. /\ b \in Seq(Token) /\ Len(b) = 3
      /\ b[1] = Tok("length", i, m) /\ b[2] = Tok("cr", 0, 0) /\ b[3] = Tok("lf", 0, 0)
  <2> HIDE DEF a
  <2>1. /\ b \in Seq(Token) /\ Len(b) = Len(a) + Len(CrLf)
        /\ \A k \in 1..Len(a) : b[k] = a[k]
        /\ \A k \in 1..Len(CrLf) : b[Len(a) + k] = CrLf[k]
    <3>1. a \in Seq(Token) /\ CrLf \in Seq(Token)
      BY <1>2, CrLfIs
    <3>2. /\ a \o CrLf \in Seq(Token) /\ Len(a \o CrLf) = Len(a) + Len(CrLf)
          /\ \A k \in 1..Len(a) : (a \o CrLf)[k] = a[k]
          /\ \A k \in 1..Len(CrLf) : (a \o CrLf)[Len(a) + k] = CrLf[k]
      BY <3>1, ConcatAt
    <3> QED BY <3>2
  <2> HIDE DEF b
  <2>2. b[1] = a[1] /\ b[1 + 1] = CrLf[1] /\ b[1 + 2] = CrLf[2]
    BY <1>2, <2>1, CrLfIs
  <2> QED BY <1>2, <2>1, <2>2, CrLfIs
<1>4. /\ c \in Seq(Token) /\ Len(c) = m + 3
      /\ c[1] = Tok("length", i, m) /\ c[2] = Tok("cr", 0, 0) /\ c[3] = Tok("lf", 0, 0)
      /\ \A k \in 1..m : c[3 + k] = Tok("data", i, k)
  <2> HIDE DEF b, m
  <2>1. /\ c \in Seq(Token) /\ Len(c) = Len(b) + Len(Chunk(r, i))
        /\ \A k \in 1..Len(b) : c[k] = b[k]
        /\ \A k \in 1..Len(Chunk(r, i)) : c[Len(b) + k] = Chunk(r, i)[k]
    <3>1. b \in Seq(Token) /\ Chunk(r, i) \in Seq(Token)
      BY <1>1, <1>3
    <3>2. /\ b \o Chunk(r, i) \in Seq(Token) /\ Len(b \o Chunk(r, i)) = Len(b) + Len(Chunk(r, i))
          /\ \A k \in 1..Len(b) : (b \o Chunk(r, i))[k] = b[k]
          /\ \A k \in 1..Len(Chunk(r, i)) : (b \o Chunk(r, i))[Len(b) + k] = Chunk(r, i)[k]
      BY <3>1, ConcatAt
    <3> QED BY <3>2
  <2> HIDE DEF c
  <2> QED BY <1>1, <1>3, <2>1
<1>5. /\ d \in Seq(Token) /\ Len(d) = m + 5
      /\ d[1] = Tok("length", i, m) /\ d[2] = Tok("cr", 0, 0) /\ d[3] = Tok("lf", 0, 0)
      /\ \A k \in 1..m : d[3 + k] = Tok("data", i, k)
      /\ d[m + 4] = Tok("cr", 0, 0) /\ d[m + 5] = Tok("lf", 0, 0)
  <2> HIDE DEF c, m
  <2>1. /\ d \in Seq(Token) /\ Len(d) = Len(c) + Len(CrLf)
        /\ \A k \in 1..Len(c) : d[k] = c[k]
        /\ \A k \in 1..Len(CrLf) : d[Len(c) + k] = CrLf[k]
    <3>1. c \in Seq(Token) /\ CrLf \in Seq(Token)
      BY <1>4, CrLfIs
    <3>2. /\ c \o CrLf \in Seq(Token) /\ Len(c \o CrLf) = Len(c) + Len(CrLf)
          /\ \A k \in 1..Len(c) : (c \o CrLf)[k] = c[k]
          /\ \A k \in 1..Len(CrLf) : (c \o CrLf)[Len(c) + k] = CrLf[k]
      BY <3>1, ConcatAt
    <3> QED BY <3>2
  <2> HIDE DEF d
  <2>2. d[(m + 3) + 1] = CrLf[1] /\ d[(m + 3) + 2] = CrLf[2] /\ (m + 3) + 1 = m + 4 /\ (m + 3) + 2 = m + 5
    BY <1>1, <1>4, <2>1, CrLfIs
  <2>3. d[1] = c[1] /\ d[2] = c[2] /\ d[3] = c[3]
    BY <1>1, <1>4, <2>1
  <2>4. \A k \in 1..m : d[3 + k] = c[3 + k]
    BY <1>1, <1>4, <2>1
  <2> QED BY <1>1, <1>4, <2>1, <2>2, <2>3, <2>4, CrLfIs
<1>6. Part(r, i) = d
  BY DEF Part
<1> HIDE DEF d
<1> QED BY <1>1, <1>5, <1>6 DEF m

\* The chunks as they are sent, one after the other.
LEMMA PartsAre ==
    ASSUME NEW r \in Responses
    PROVE  LET F == FlattenSeq([i \in 1..Len(r.chunks) |-> Part(r, i)]) IN
           /\ F \in Seq(Token) /\ Len(F) = Before(r)[Len(r.chunks)] + 5 * Len(r.chunks)
           /\ \A i \in 1..Len(r.chunks) : \A k \in 1..(r.chunks[i] + 5) :
                F[Before(r)[i - 1] + 5 * (i - 1) + k] = Part(r, i)[k]
<1> DEFINE n == Len(r.chunks)
           p == [i \in 1..n |-> Part(r, i)]
           e == Before(r)
           d == [i \in 0..n |-> e[i] + 5 * i]
<1>1. n \in Nat /\ r.chunks \in [1..n -> Nat \ {0}] /\ Sums(n, r.chunks, e)
  BY BeforeIs
<1>2. \A i \in 1..n : Part(r, i) \in Seq(Token) /\ Len(Part(r, i)) = r.chunks[i] + 5
  BY PartIs
<1>3. p \in [1..n -> Seq(Token)] /\ \A i \in 1..n : p[i] = Part(r, i)
  BY <1>2
<1> HIDE DEF n, p, e
<1>5. p \in Seq(Seq(Token)) /\ Len(p) = n
  BY <1>1, <1>3, FunSeq
<1>6. \A i \in 1..n : Len(p[i]) = r.chunks[i] + 5
  BY <1>2, <1>3
<1>7. d \in [0..n -> Nat] /\ d[0] = 0
  BY <1>1 DEF Sums
<1>8. ASSUME NEW i \in 1..n PROVE d[i] = d[i - 1] + Len(p[i])
  <2>1. e[i] = e[i - 1] + r.chunks[i] /\ e[i - 1] \in Nat /\ r.chunks[i] \in Nat
    BY <1>1 DEF Sums
  <2>2. d[i] = e[i] + 5 * i /\ d[i - 1] = e[i - 1] + 5 * (i - 1) /\ i \in Nat
    BY <1>1
  <2>3. Len(p[i]) = r.chunks[i] + 5
    BY <1>6
  <2> HIDE DEF d
  <2> QED BY <2>1, <2>2, <2>3
<1>9. \A i \in 0..n : d[i] = e[i] + 5 * i
  OBVIOUS
<1> HIDE DEF d
<1>10. /\ d \in [0..Len(p) -> Nat] /\ d[0] = 0
       /\ \A i \in 1..Len(p) : d[i] = d[i - 1] + Len(p[i])
  BY <1>5, <1>7, <1>8
<1>11. /\ FlattenSeq(p) \in Seq(Token) /\ Len(FlattenSeq(p)) = d[Len(p)]
       /\ \A i \in 1..Len(p) : \A k \in 1..Len(p[i]) : FlattenSeq(p)[d[i - 1] + k] = p[i][k]
  BY <1>5, <1>10, FlattenLayout, Zenon
<1>12. ASSUME NEW i \in 1..n, NEW k \in 1..(r.chunks[i] + 5)
       PROVE  FlattenSeq(p)[e[i - 1] + 5 * (i - 1) + k] = Part(r, i)[k]
  <2>1. d[i - 1] = e[i - 1] + 5 * (i - 1)
    BY <1>1, <1>9
  <2>2. FlattenSeq(p)[d[i - 1] + k] = p[i][k]
    BY <1>5, <1>6, <1>11
  <2> QED BY <1>3, <2>1, <2>2
<1>13. \A i \in 1..n : \A k \in 1..(r.chunks[i] + 5) :
         FlattenSeq(p)[e[i - 1] + 5 * (i - 1) + k] = Part(r, i)[k]
  BY <1>12
<1>14. FlattenSeq(p) \in Seq(Token) /\ Len(FlattenSeq(p)) = e[n] + 5 * n
  BY <1>1, <1>5, <1>9, <1>11
<1> QED BY <1>13, <1>14 DEF n, e, p

Start == <<Tok("head", 0, 0), Tok("head_end", 0, 0)>>

\* The headers.
LEMMA StartIs ==
    /\ Start \in Seq(Token) /\ Len(Start) = 2
    /\ Start[1] = Tok("head", 0, 0) /\ Start[2] = Tok("head_end", 0, 0)
<1>1. Tok("head", 0, 0) \in Token /\ Tok("head_end", 0, 0) \in Token
  BY TokType
<1> QED BY <1>1 DEF Start

\* Every stream starts with the headers, and what follows comes after them.
LEMMA AfterStart ==
    ASSUME NEW G \in Seq(Token)
    PROVE  /\ Start \o G \in Seq(Token) /\ Len(Start \o G) = 2 + Len(G)
           /\ (Start \o G)[1] = Tok("head", 0, 0) /\ (Start \o G)[2] = Tok("head_end", 0, 0)
           /\ \A k \in 1..Len(G) : (Start \o G)[2 + k] = G[k]
<1>1. /\ Start \o G \in Seq(Token) /\ Len(Start \o G) = Len(Start) + Len(G)
      /\ \A k \in 1..Len(Start) : (Start \o G)[k] = Start[k]
      /\ \A k \in 1..Len(G) : (Start \o G)[Len(Start) + k] = G[k]
  <2>1. Start \in Seq(Token)
    BY StartIs
  <2> QED BY <2>1, ConcatAt
<1> DEFINE S == Start \o G
<1> HIDE DEF S
<1>2. S[1] = Start[1] /\ S[2] = Start[2]
  BY <1>1, StartIs DEF S
<1> QED BY <1>1, <1>2, StartIs DEF S

\* A response that is not chunked: the headers, then the body.
LEMMA PlainStream ==
    ASSUME NEW r \in Responses, r.framing \notin {"chunked", "bad_chunk"}
    PROVE  /\ Stream(r) \in Seq(Token) /\ Len(Stream(r)) = 2 + Len(Body(r))
           /\ Stream(r)[1] = Tok("head", 0, 0) /\ Stream(r)[2] = Tok("head_end", 0, 0)
           /\ \A k \in 1..Len(Body(r)) : Stream(r)[2 + k] = Body(r)[k]
<1>1. Stream(r) = Start \o Body(r)
  BY DEF Stream, Start
<1>2. Body(r) \in Seq(Token)
  BY BodyIs
<1> QED BY <1>1, <1>2, AfterStart

\* The tokens of the stream that the parser meets at the i-th chunk length.
ChunkAt(S, r, i) ==
    LET o == At(r, i)
        m == r.chunks[i]
    IN  /\ o \in Nat
        /\ S[o + 1] = Tok("length", i, m)
        /\ S[o + 2] = Tok("cr", 0, 0) /\ S[o + 3] = Tok("lf", 0, 0)
        /\ \A k \in 1..m : S[o + 3 + k] = Tok("data", i, k)
        /\ S[o + m + 4] = Tok("cr", 0, 0) /\ S[o + m + 5] = Tok("lf", 0, 0)
        /\ o + m + 5 = At(r, i + 1)
        /\ o + m + 5 <= Len(S)

TailAt(S, r) ==
    LET o == At(r, Len(r.chunks) + 1)
    IN  /\ o \in Nat /\ Len(S) = o + 5
        /\ S[o + 1] = Tok(IF r.framing = "chunked" THEN "length" ELSE "bad_length", 0, 0)
        /\ S[o + 2] = Tok("cr", 0, 0) /\ S[o + 3] = Tok("lf", 0, 0)

\* The places of the chunks: inside the stream ...
LEMMA PlaceArith ==
    ASSUME NEW x \in Nat, NEW m \in Nat, NEW y \in Nat, NEW z \in Nat, y = x + m, y <= z,
           NEW n \in Nat, NEW i \in Nat, 1 <= i, i <= n
    PROVE  /\ x + 5 * (i - 1) \in Nat
           /\ x + 5 * (i - 1) + m + 5 <= z + 5 * n
OBVIOUS

\* ... and one after the other.
LEMMA NextPlace ==
    ASSUME NEW x \in Nat, NEW m \in Nat, NEW y \in Nat, y = x + m, NEW i \in Nat
    PROVE  2 + y + 5 * i = 2 + (x + 5 * (i - 1)) + m + 5
OBVIOUS

\* A chunked response: every chunk, and the end, at its place.
LEMMA ChunkedStream ==
    ASSUME NEW r \in Responses, r.framing \in {"chunked", "bad_chunk"}
    PROVE  /\ Stream(r) \in Seq(Token)
           /\ Stream(r)[1] = Tok("head", 0, 0) /\ Stream(r)[2] = Tok("head_end", 0, 0)
           /\ \A i \in 1..Len(r.chunks) : ChunkAt(Stream(r), r, i)
           /\ TailAt(Stream(r), r)
<1> DEFINE n == Len(r.chunks)
           e == Before(r)
           F == FlattenSeq([i \in 1..n |-> Part(r, i)])
           t == Tok(IF r.framing = "chunked" THEN "length" ELSE "bad_length", 0, 0)
           A == F \o <<t>>
           B == A \o CrLf
           G == B \o CrLf
           S == Stream(r)
<1>1. n \in Nat /\ r.chunks \in [1..n -> Nat \ {0}] /\ Sums(n, r.chunks, e) /\ r.chunks \in [1..n -> Nat]
  BY BeforeIs
<1>2. /\ F \in Seq(Token) /\ Len(F) = e[n] + 5 * n
      /\ \A i \in 1..n : \A k \in 1..(r.chunks[i] + 5) : F[e[i - 1] + 5 * (i - 1) + k] = Part(r, i)[k]
  BY PartsAre
<1>3. S = Start \o G
  BY DEF Stream, Start, Part
<1>4. <<t>> \in Seq(Token) /\ Len(<<t>>) = 1 /\ <<t>>[1] = t
  <2>1. t \in Token
    BY DEF Tok, Token
  <2> HIDE DEF t
  <2> QED BY <2>1
<1> HIDE DEF F, t, n, e
<1>5. e \in [0..n -> Nat] /\ n \in 0..n
  BY <1>1 DEF Sums
<1>6. e[n] \in Nat /\ Len(F) \in Nat
  BY <1>2, <1>5, LenProperties
<1>7. /\ A \in Seq(Token) /\ Len(A) = Len(F) + 1
      /\ \A k \in 1..Len(F) : A[k] = F[k]
      /\ A[Len(F) + 1] = t
  <2>1. <<t>> \in Seq(Token)
    BY <1>4
  <2>2. /\ F \o <<t>> \in Seq(Token) /\ Len(F \o <<t>>) = Len(F) + Len(<<t>>)
        /\ \A k \in 1..Len(F) : (F \o <<t>>)[k] = F[k]
        /\ \A k \in 1..Len(<<t>>) : (F \o <<t>>)[Len(F) + k] = <<t>>[k]
    BY <1>2, <2>1, ConcatAt
  <2> HIDE DEF A
  <2>3. A = F \o <<t>> /\ 1 \in 1..Len(<<t>>)
    BY <1>4 DEF A
  <2> QED BY <1>4, <2>2, <2>3
<1>8. /\ B \in Seq(Token) /\ Len(B) = Len(F) + 3
      /\ \A k \in 1..Len(F) : B[k] = F[k]
      /\ B[Len(F) + 1] = t /\ B[Len(F) + 2] = Tok("cr", 0, 0) /\ B[Len(F) + 3] = Tok("lf", 0, 0)
  <2> HIDE DEF A
  <2>1. /\ A \o CrLf \in Seq(Token) /\ Len(A \o CrLf) = Len(A) + Len(CrLf)
        /\ \A k \in 1..Len(A) : (A \o CrLf)[k] = A[k]
        /\ \A k \in 1..Len(CrLf) : (A \o CrLf)[Len(A) + k] = CrLf[k]
    <3>1. A \in Seq(Token) /\ CrLf \in Seq(Token)
      BY <1>7, CrLfIs
    <3> QED BY <3>1, ConcatAt
  <2>2. B = A \o CrLf
    OBVIOUS
  <2> HIDE DEF B
  <2>3. B[(Len(F) + 1) + 1] = CrLf[1] /\ B[(Len(F) + 1) + 2] = CrLf[2]
    BY <1>7, <2>1, <2>2, CrLfIs
  <2>4. \A k \in 1..(Len(F) + 1) : B[k] = A[k]
    BY <1>7, <2>1, <2>2
  <2>5. B \in Seq(Token) /\ Len(B) = Len(F) + 3
    BY <1>6, <1>7, <2>1, <2>2, CrLfIs
  <2>6. B[Len(F) + 1] = t /\ \A k \in 1..Len(F) : B[k] = F[k]
    BY <1>6, <1>7, <2>4
  <2>7. (Len(F) + 1) + 1 = Len(F) + 2 /\ (Len(F) + 1) + 2 = Len(F) + 3
    BY <1>6
  <2> QED BY <2>3, <2>5, <2>6, <2>7, CrLfIs
<1>9. /\ G \in Seq(Token) /\ Len(G) = Len(F) + 5
      /\ \A k \in 1..Len(F) : G[k] = F[k]
      /\ G[Len(F) + 1] = t /\ G[Len(F) + 2] = Tok("cr", 0, 0) /\ G[Len(F) + 3] = Tok("lf", 0, 0)
  <2> HIDE DEF B
  <2>1. /\ B \o CrLf \in Seq(Token) /\ Len(B \o CrLf) = Len(B) + Len(CrLf)
        /\ \A k \in 1..Len(B) : (B \o CrLf)[k] = B[k]
    <3>1. B \in Seq(Token) /\ CrLf \in Seq(Token)
      BY <1>8, CrLfIs
    <3> QED BY <3>1, ConcatAt
  <2>2. G = B \o CrLf
    OBVIOUS
  <2> HIDE DEF G
  <2>3. \A k \in 1..(Len(F) + 3) : G[k] = B[k]
    BY <1>8, <2>1, <2>2
  <2>4. G \in Seq(Token) /\ Len(G) = Len(F) + 5
    BY <1>6, <1>8, <2>1, <2>2, CrLfIs
  <2>5. \A k \in 1..Len(F) : G[k] = F[k]
    BY <1>6, <1>8, <2>3
  <2>6. G[Len(F) + 1] = B[Len(F) + 1] /\ G[Len(F) + 2] = B[Len(F) + 2] /\ G[Len(F) + 3] = B[Len(F) + 3]
    BY <1>6, <2>3
  <2> QED BY <1>8, <2>4, <2>5, <2>6
<1> HIDE DEF G
<1>10. /\ S \in Seq(Token) /\ Len(S) = Len(F) + 7
       /\ S[1] = Tok("head", 0, 0) /\ S[2] = Tok("head_end", 0, 0)
       /\ \A k \in 1..(Len(F) + 5) : S[2 + k] = G[k]
  BY <1>3, <1>6, <1>9, AfterStart
<1> HIDE DEF S
<1>11. \A k \in 1..Len(F) : S[2 + k] = F[k]
  BY <1>6, <1>9, <1>10
<1>12. /\ S[2 + (Len(F) + 1)] = t
       /\ S[2 + (Len(F) + 2)] = Tok("cr", 0, 0) /\ S[2 + (Len(F) + 3)] = Tok("lf", 0, 0)
  BY <1>6, <1>9, <1>10
<1>13. TailAt(S, r)
  <2>1. At(r, n + 1) = 2 + Len(F) /\ Len(S) = (2 + Len(F)) + 5
    <3>1. (n + 1) - 1 = n
      BY <1>1
    <3> QED BY <1>1, <1>2, <1>6, <1>10, <3>1 DEF At, e
  <2>2. /\ (2 + Len(F)) + 1 = 2 + (Len(F) + 1) /\ (2 + Len(F)) + 2 = 2 + (Len(F) + 2)
        /\ (2 + Len(F)) + 3 = 2 + (Len(F) + 3) /\ 2 + Len(F) \in Nat
    BY <1>6
  <2> QED BY <1>12, <2>1, <2>2 DEF TailAt, t, n
<1>14. ASSUME NEW i \in 1..n PROVE ChunkAt(S, r, i)
  <2> DEFINE m == r.chunks[i]
             q == e[i - 1] + 5 * (i - 1)
  <2>1. i \in Nat /\ i - 1 \in 0..n /\ i \in 0..n /\ n \in i..n /\ i \in 1..Len(r.chunks)
    BY <1>1 DEF n
  <2>2. m \in Nat /\ e[i - 1] \in Nat /\ e[i] = e[i - 1] + m /\ e[i] \in Nat
    BY <1>1, <1>5, <2>1 DEF Sums
  <2>3. e[i] <= e[n]
    BY <1>1, <2>1, SumsGrow
  <2>4. q \in Nat /\ q + m + 5 <= Len(F)
    <3> HIDE DEF m
    <3>1. i <= n /\ 1 <= i
      BY <1>1, <2>1
    <3>2. q \in Nat /\ q + m + 5 <= e[n] + 5 * n
      BY <1>1, <1>6, <2>1, <2>2, <2>3, <3>1, PlaceArith, Zenon
    <3> QED BY <1>2, <3>2
  <2>5. \A k \in 1..(m + 5) : F[q + k] = Part(r, i)[k]
    BY <1>2
  <2>6. At(r, i) = 2 + q /\ At(r, i + 1) = 2 + q + m + 5
    <3>1. At(r, i) = 2 + e[i - 1] + 5 * (i - 1) /\ At(r, i + 1) = 2 + e[i] + 5 * i
      <4>1. (i + 1) - 1 = i
        BY <2>1
      <4> QED BY <4>1 DEF At, e
    <3>2. i <= n /\ 1 <= i
      BY <1>1, <2>1
    <3> HIDE DEF m
    <3>3. 2 + e[i] + 5 * i = 2 + q + m + 5
      <4>1. 2 + e[i] + 5 * i = 2 + (e[i - 1] + 5 * (i - 1)) + m + 5
        <5> HIDE DEF q
        <5> QED BY <2>1, <2>2, NextPlace
      <4> QED BY <4>1
    <3>4. 2 + e[i - 1] + 5 * (i - 1) = 2 + q
      BY <2>1, <2>2
    <3> QED BY <3>1, <3>3, <3>4
  <2>7. /\ Part(r, i)[1] = Tok("length", i, m)
        /\ Part(r, i)[2] = Tok("cr", 0, 0) /\ Part(r, i)[3] = Tok("lf", 0, 0)
        /\ \A k \in 1..m : Part(r, i)[3 + k] = Tok("data", i, k)
        /\ Part(r, i)[m + 4] = Tok("cr", 0, 0) /\ Part(r, i)[m + 5] = Tok("lf", 0, 0)
    BY <2>1, PartIs
  <2> HIDE DEF q, m
  <2>8. \A k \in 1..(m + 5) : S[2 + q + k] = Part(r, i)[k]
    <3>1. ASSUME NEW k \in 1..(m + 5) PROVE S[2 + q + k] = Part(r, i)[k]
      <4>1. q + k \in 1..Len(F) /\ 2 + (q + k) = 2 + q + k
        BY <1>6, <2>2, <2>4
      <4> QED BY <1>11, <2>5, <4>1
    <3> QED BY <3>1
  <2> DEFINE o == 2 + q
  <2>9. o \in Nat /\ o + m + 5 <= Len(S) /\ At(r, i) = o /\ o + m + 5 = At(r, i + 1)
    BY <1>6, <1>10, <2>2, <2>4, <2>6
  <2>10. \A k \in 1..(m + 5) : S[o + k] = Part(r, i)[k]
    BY <2>8
  <2> HIDE DEF o
  <2>11. /\ S[o + 1] = Tok("length", i, m)
         /\ S[o + 2] = Tok("cr", 0, 0) /\ S[o + 3] = Tok("lf", 0, 0)
    BY <2>2, <2>7, <2>10
  <2>12. ASSUME NEW k \in 1..m PROVE S[o + 3 + k] = Tok("data", i, k)
    <3>1. 3 + k \in 1..(m + 5) /\ o + (3 + k) = o + 3 + k
      BY <2>2, <2>9
    <3>2. S[o + (3 + k)] = Part(r, i)[3 + k]
      BY <2>10, <3>1
    <3> QED BY <2>7, <3>1, <3>2
  <2>13. S[o + m + 4] = Tok("cr", 0, 0) /\ S[o + m + 5] = Tok("lf", 0, 0)
    <3>1. /\ m + 4 \in 1..(m + 5) /\ m + 5 \in 1..(m + 5)
          /\ o + (m + 4) = o + m + 4 /\ o + (m + 5) = o + m + 5
      BY <2>2, <2>9
    <3>2. S[o + (m + 4)] = Part(r, i)[m + 4] /\ S[o + (m + 5)] = Part(r, i)[m + 5]
      BY <2>10, <3>1
    <3> QED BY <2>7, <3>1, <3>2
  <2> QED BY <2>9, <2>11, <2>12, <2>13 DEF ChunkAt, m
<1> QED BY <1>10, <1>13, <1>14 DEF S, n

\* What a part of a sequence holds.
LEMMA SubAt ==
    ASSUME NEW X, NEW s \in Seq(X), NEW m \in Nat, NEW n \in Nat, 1 <= m, m <= n + 1, n <= Len(s)
    PROVE  /\ SubSeq(s, m, n) \in Seq(X) /\ Len(SubSeq(s, m, n)) = n - m + 1
           /\ \A i \in 1..(n - m + 1) : SubSeq(s, m, n)[i] = s[m + i - 1]
<1>1. Len(s) \in Nat /\ \A i \in 1..Len(s) : s[i] \in X
  BY LenProperties, ElementOfSeq
<1>2. \A i \in m..n : s[i] \in X
  BY <1>1
<1>3. m \in Int /\ n \in Int
  OBVIOUS
<1>4. /\ SubSeq(s, m, n) \in Seq(X)
      /\ Len(SubSeq(s, m, n)) = IF m <= n THEN n - m + 1 ELSE 0
      /\ \A i \in 1..(n - m + 1) : SubSeq(s, m, n)[i] = s[m + i - 1]
  BY <1>2, <1>3, SubSeqProperties
<1> QED BY <1>4

\* on_read moves tokens from the stream to the buffer: the same is left.
LEMMA ReadMore ==
    ASSUME NEW S \in Seq(Token), NEW p \in Nat, NEW b \in Seq(Token), NEW c \in Seq(Token),
           Left(S, p, b, c), NEW k \in 1..Len(c)
    PROVE  /\ b \o SubSeq(c, 1, k) \in Seq(Token) /\ SubSeq(c, k + 1, Len(c)) \in Seq(Token)
           /\ Left(S, p, b \o SubSeq(c, 1, k), SubSeq(c, k + 1, Len(c)))
<1> DEFINE u == SubSeq(c, 1, k)
           v == SubSeq(c, k + 1, Len(c))
           w == b \o u
<1>1. Len(b) \in Nat /\ Len(c) \in Nat /\ k \in Nat /\ 1 <= k /\ k <= Len(c)
  BY LenProperties
<1>2. /\ u \in Seq(Token) /\ Len(u) = k /\ \A i \in 1..k : u[i] = c[i]
  <2>1. /\ u \in Seq(Token) /\ Len(u) = k - 1 + 1
        /\ \A i \in 1..(k - 1 + 1) : u[i] = c[1 + i - 1]
    BY <1>1, SubAt
  <2> HIDE DEF u
  <2>2. k - 1 + 1 = k /\ \A i \in 1..k : 1 + i - 1 = i
    BY <1>1
  <2> QED BY <2>1, <2>2
<1>3. /\ v \in Seq(Token) /\ Len(v) = Len(c) - k
      /\ \A i \in 1..(Len(c) - k) : v[i] = c[k + i]
  <2>1. /\ v \in Seq(Token) /\ Len(v) = Len(c) - (k + 1) + 1
        /\ \A i \in 1..(Len(c) - (k + 1) + 1) : v[i] = c[k + 1 + i - 1]
    BY <1>1, SubAt
  <2> HIDE DEF v
  <2>2. Len(c) - (k + 1) + 1 = Len(c) - k /\ \A i \in 1..(Len(c) - k) : k + 1 + i - 1 = k + i
    BY <1>1
  <2> QED BY <2>1, <2>2
<1> HIDE DEF u, v
<1>4. /\ w \in Seq(Token) /\ Len(w) = Len(b) + Len(u)
      /\ \A i \in 1..Len(b) : w[i] = b[i]
      /\ \A i \in 1..Len(u) : w[Len(b) + i] = u[i]
  <2>1. u \in Seq(Token)
    BY <1>2
  <2> QED BY <2>1, ConcatAt
<1> HIDE DEF w
<1>5. p + Len(b) + Len(c) = Len(S)
  BY DEF Left
<1>6. ASSUME NEW i \in 1..Len(w) PROVE w[i] = S[p + i]
  <2>1. i \in Nat /\ 1 <= i /\ i <= Len(b) + k
    BY <1>1, <1>2, <1>4
  <2>2. CASE i <= Len(b)
    BY <1>1, <1>4, <2>1, <2>2 DEF Left
  <2>3. CASE ~ (i <= Len(b))
    <3> DEFINE j == i - Len(b)
    <3>1. j \in 1..k /\ j \in 1..Len(c) /\ Len(b) + j = i /\ p + Len(b) + j = p + i
      BY <1>1, <2>1, <2>3
    <3> HIDE DEF j
    <3>2. w[Len(b) + j] = u[j] /\ u[j] = c[j]
      BY <1>2, <1>4, <3>1
    <3>3. c[j] = S[p + Len(b) + j]
      BY <3>1 DEF Left
    <3> QED BY <3>1, <3>2, <3>3
  <2> QED BY <2>2, <2>3
<1>7. ASSUME NEW i \in 1..Len(v) PROVE v[i] = S[p + Len(w) + i]
  <2>1. i \in 1..(Len(c) - k) /\ k + i \in 1..Len(c) /\ p + Len(b) + (k + i) = p + Len(w) + i
    BY <1>1, <1>2, <1>3, <1>4
  <2>2. c[k + i] = S[p + Len(b) + (k + i)]
    BY <2>1 DEF Left
  <2> QED BY <1>3, <2>1, <2>2
<1>8. p + Len(w) + Len(v) = Len(S)
  <2>1. Len(w) = Len(b) + k /\ Len(v) = Len(c) - k
    BY <1>2, <1>3, <1>4
  <2> QED BY <1>1, <1>5, <2>1
<1>9. Left(S, p, w, v)
  BY <1>6, <1>7, <1>8 DEF Left
<1> QED BY <1>3, <1>4, <1>9 DEF u, v, w

\* Taking k tokens from the buffer moves the place by k.
LEMMA Drop ==
    ASSUME NEW S \in Seq(Token), NEW p \in Nat, NEW b \in Seq(Token), NEW c \in Seq(Token),
           Left(S, p, b, c), NEW k \in 0..Len(b)
    PROVE  /\ SubSeq(b, k + 1, Len(b)) \in Seq(Token) /\ p + k \in Nat
           /\ Left(S, p + k, SubSeq(b, k + 1, Len(b)), c)
<1> DEFINE v == SubSeq(b, k + 1, Len(b))
<1>1. Len(b) \in Nat /\ Len(c) \in Nat /\ k \in Nat /\ k <= Len(b) /\ p + k \in Nat
  BY LenProperties
<1>3. /\ v \in Seq(Token) /\ Len(v) = Len(b) - k
      /\ \A i \in 1..(Len(b) - k) : v[i] = b[k + i]
  <2>1. /\ v \in Seq(Token) /\ Len(v) = Len(b) - (k + 1) + 1
        /\ \A i \in 1..(Len(b) - (k + 1) + 1) : v[i] = b[k + 1 + i - 1]
    BY <1>1, SubAt
  <2> HIDE DEF v
  <2>2. Len(b) - (k + 1) + 1 = Len(b) - k /\ \A i \in 1..(Len(b) - k) : k + 1 + i - 1 = k + i
    BY <1>1
  <2> QED BY <2>1, <2>2
<1> HIDE DEF v
<1>5. p + Len(b) + Len(c) = Len(S)
  BY DEF Left
<1>6. ASSUME NEW i \in 1..Len(v) PROVE v[i] = S[(p + k) + i]
  <2>1. i \in 1..(Len(b) - k) /\ k + i \in 1..Len(b) /\ p + (k + i) = (p + k) + i
    BY <1>1, <1>3
  <2>2. b[k + i] = S[p + (k + i)]
    BY <2>1 DEF Left
  <2> QED BY <1>3, <2>1, <2>2
<1>7. ASSUME NEW i \in 1..Len(c) PROVE c[i] = S[(p + k) + Len(v) + i]
  <2>1. p + Len(b) + i = (p + k) + Len(v) + i
    BY <1>1, <1>3
  <2>2. c[i] = S[p + Len(b) + i]
    BY DEF Left
  <2> QED BY <2>1, <2>2
<1>8. (p + k) + Len(v) + Len(c) = Len(S)
  BY <1>1, <1>3, <1>5
<1>9. Left(S, p + k, v, c)
  BY <1>6, <1>7, <1>8 DEF Left
<1> QED BY <1>1, <1>3, <1>9 DEF v

\* Begins is IsPrefix, and the whole when the lengths agree.
LEMMA BeginsPrefix ==
    ASSUME NEW b \in Seq(Token), NEW t \in Seq(Token), Begins(b, t)
    PROVE  IsPrefix(b, t) /\ (Len(b) = Len(t) => b = t)
<1>1. Len(b) \in Nat /\ Len(t) \in Nat /\ Len(b) <= Len(t) /\ 1 <= 1 /\ 1 <= Len(b) + 1 /\ 1 \in Nat
  BY LenProperties DEF Begins
<1> DEFINE n == Len(b) - 1 + 1
           u == SubSeq(b, 1, Len(b))
           v == SubSeq(t, 1, Len(b))
<1>2. u \in Seq(Token) /\ Len(u) = n /\ \A i \in 1..n : u[i] = b[1 + i - 1]
  BY <1>1, SubAt
<1>3. v \in Seq(Token) /\ Len(v) = n /\ \A i \in 1..n : v[i] = t[1 + i - 1]
  BY <1>1, SubAt
<1>4. n = Len(b) /\ \A i \in 1..Len(b) : 1 + i - 1 = i
  BY <1>1
<1> HIDE DEF n, u, v
<1>5. \A i \in 1..Len(u) : u[i] = v[i]
  BY <1>2, <1>3, <1>4 DEF Begins
<1>6. u = v
  BY <1>2, <1>3, <1>5, SeqEqual
<1>7. Len(b) = Len(t) => b = t
  BY SeqEqual DEF Begins
<1> QED BY <1>1, <1>6, <1>7 DEF IsPrefix, u, v

\* A beginning that is continued as the whole continues is a beginning.
LEMMA Extended ==
    ASSUME NEW b \in Seq(Token), NEW g \in Seq(Token), NEW t \in Seq(Token), Begins(b, t),
           Len(b) + Len(g) <= Len(t), \A k \in 1..Len(g) : g[k] = t[Len(b) + k]
    PROVE  b \o g \in Seq(Token) /\ Len(b \o g) = Len(b) + Len(g) /\ Begins(b \o g, t)
<1> DEFINE w == b \o g
<1>1. Len(b) \in Nat /\ Len(g) \in Nat
  BY LenProperties
<1>2. /\ w \in Seq(Token) /\ Len(w) = Len(b) + Len(g)
      /\ \A i \in 1..Len(b) : w[i] = b[i]
      /\ \A i \in 1..Len(g) : w[Len(b) + i] = g[i]
  BY ConcatAt
<1> HIDE DEF w
<1>3. ASSUME NEW i \in 1..Len(w) PROVE w[i] = t[i]
  <2>1. CASE i <= Len(b)
    BY <1>1, <1>2, <2>1 DEF Begins
  <2>2. CASE ~ (i <= Len(b))
    <3> DEFINE j == i - Len(b)
    <3>1. j \in 1..Len(g) /\ Len(b) + j = i
      BY <1>1, <1>2, <2>2
    <3> HIDE DEF j
    <3> QED BY <1>2, <3>1
  <2> QED BY <2>1, <2>2
<1> QED BY <1>2, <1>3 DEF Begins, w

\* What follows the first token of a kind.
LEMMA AfterIs ==
    ASSUME buffer \in Seq(Token), NEW kd, NEW k \in 1..Len(buffer), buffer[k].kind = kd,
           \A j \in 1..Len(buffer) : j < k => buffer[j].kind # kd
    PROVE  After(kd) = SubSeq(buffer, k + 1, Len(buffer))
<1> DEFINE I == {i \in 1..Len(buffer) : buffer[i].kind = kd}
<1>1. Len(buffer) \in Nat
  BY LenProperties
<1>2. k \in I /\ \A y \in I : k <= y
  BY <1>1
<1>3. \A x \in I : (\A y \in I : x <= y) => x = k
  BY <1>1, <1>2
<1>4. Min(I) = k
  BY <1>2, <1>3 DEF Min
<1>5. SelectInSeq(buffer, LAMBDA t : t.kind = kd) = k
  BY <1>2, <1>4 DEF SelectInSeq
<1> QED BY <1>5 DEF After

-----------------------------------------------------------------------------
(* The parser.                                                             *)

\* Every stream starts with the headers.
LEMMA StreamIs ==
    ASSUME NEW r \in Responses
    PROVE  /\ Stream(r) \in Seq(Token)
           /\ Stream(r)[1].kind = "head" /\ Stream(r)[2].kind = "head_end"
<1>1. Tok("head", 0, 0).kind = "head" /\ Tok("head_end", 0, 0).kind = "head_end"
  BY DEF Tok
<1>2. CASE r.framing \in {"chunked", "bad_chunk"}
  BY <1>1, <1>2, ChunkedStream
<1>3. CASE r.framing \notin {"chunked", "bad_chunk"}
  BY <1>1, <1>3, PlainStream
<1> QED BY <1>2, <1>3

\* Before the client is done there is a place in the stream.
LEMMA PlaceIs ==
    ASSUME IInv, state # "HTTPS_DONE"
    PROVE  /\ Stream(response) \in Seq(Token)
           /\ \E p \in Nat : Left(Stream(response), p, buffer, coming) /\ Parsed(p)
BY StreamIs DEF IInv, ParseInv, TypeOK

\* close(), from wherever it is called, with the right body if it was parsed.
LEMMA FinishKeeps ==
    ASSUME IInv, CallInv, NEW STATE cause, cause \in Causes, NEW STATE b, b \in Seq(Token),
           Finish(cause, b), response' = response, coming' = coming,
           body' \in Seq(Token), Begins(body', Body(response)),
           cause = "parsed" /\ response.framing # "unknown" => b = Body(response),
           timed_out' \in BOOLEAN, timeout' \in 0..(RequestTime + BodyTime),
           content_length' = content_length, chunk_size' = chunk_size,
           chunk_receive' \in 0..chunk_size, status' \in {0, 200}
    PROVE  IInv'
<1>1. CallInv'
  BY FinishCalls
<1>2. called' \in Nat /\ completed' \in BOOLEAN
  BY <1>1 DEF CallInv
<1>3. /\ state' = "HTTPS_DONE" /\ pc' = "idle" /\ buffer' = <<>>
      /\ sfd' \in BOOLEAN /\ tcp_connect_done' \in BOOLEAN /\ connected' \in BOOLEAN
  BY DEF Finish
<1>4. /\ report' \in [cause : Causes, body : Seq(Token)]
      /\ report'.cause = "parsed" /\ response.framing # "unknown" => report'.body = Body(response)
  <2>1. CASE completed
    <3>1. report' = [cause |-> cause, body |-> b]
      BY <2>1 DEF Finish
    <3> QED BY <3>1
  <2>2. CASE ~ completed
    <3>1. report' = report
      BY <2>2 DEF Finish
    <3> QED BY <3>1 DEF IInv, TypeOK, ReportInv
  <2> QED BY <2>1, <2>2
<1>5. buffer' \in Seq(Token)
  BY <1>3, EmptySeq
<1>6. state' \in States /\ pc' \in {"idle", "parse"}
  BY <1>3 DEF States
<1>7. TypeOK'
  BY <1>2, <1>3, <1>4, <1>5, <1>6 DEF IInv, TypeOK
<1>8. ParseInv' /\ ReportInv'
  BY <1>3, <1>4 DEF ParseInv, ReportInv
<1> QED BY <1>7, <1>8 DEF IInv

\* A step that neither reads nor parses.
LEMMA SameParse ==
    ASSUME IInv, UNCHANGED <<response, coming, state, parseVars, status, doneVars>>,
           timeout' \in 0..timeout, timed_out' = timed_out, pc' \in {"idle", "parse"},
           sfd' \in BOOLEAN, tcp_connect_done' \in BOOLEAN, connected' \in BOOLEAN
    PROVE  IInv'
<1>0. RequestTime \in Nat /\ BodyTime \in Nat
  BY HttpsClientAssumption
<1>1. timeout' \in 0..(RequestTime + BodyTime)
  BY <1>0 DEF IInv, TypeOK
<1>2. TypeOK'
  BY <1>1 DEF IInv, TypeOK, parseVars, doneVars
<1>3. ReportInv'
  BY DEF IInv, ReportInv, parseVars, doneVars
<1>4. ASSUME NEW p \in Nat, Parsed(p) PROVE Parsed(p)'
  <2>1. timeout <= RequestTime => timeout' <= RequestTime
    BY <1>0 DEF IInv, TypeOK
  <2> QED BY <1>4, <2>1 DEF Parsed, Chunked, parseVars
<1>5. ParseInv'
  <2>1. SUFFICES ASSUME state # "HTTPS_DONE" PROVE ParseInv'
    BY DEF ParseInv
  <2>2. PICK p \in Nat : Left(Stream(response), p, buffer, coming) /\ Parsed(p)
    BY <2>1, PlaceIs
  <2>3. Left(Stream(response), p, buffer, coming)'
    BY <2>2 DEF parseVars
  <2>4. Parsed(p)'
    BY <1>4, <2>2
  <2> QED BY <2>3, <2>4 DEF ParseInv
<1> QED BY <1>2, <1>3, <1>5 DEF IInv

\* Reading keeps the place.
LEMMA ReadStep ==
    ASSUME IInv, CallInv, OnRead
    PROVE  IInv'
<1>1. state # "HTTPS_DONE"
  BY DEF OnRead, CallInv
<1>2. PICK p \in Nat : Left(Stream(response), p, buffer, coming) /\ Parsed(p)
  BY <1>1, PlaceIs
<1>3. PICK k \in 1..Len(coming) : /\ buffer' = buffer \o SubSeq(coming, 1, k)
                                  /\ coming' = SubSeq(coming, k + 1, Len(coming))
  BY DEF OnRead
<1>4. buffer \in Seq(Token) /\ coming \in Seq(Token) /\ Stream(response) \in Seq(Token)
  BY <1>1, PlaceIs DEF IInv, TypeOK
<1>5. buffer' \in Seq(Token) /\ coming' \in Seq(Token) /\ Left(Stream(response), p, buffer', coming')
  BY <1>2, <1>3, <1>4, ReadMore
<1>6. /\ UNCHANGED <<response, connVars, timeout, timed_out, state, body, content_length,
                     chunk_size, chunk_receive, status, doneVars>>
      /\ pc' = "parse"
  BY DEF OnRead
<1>7. TypeOK'
  BY <1>5, <1>6 DEF IInv, TypeOK, connVars, doneVars
<1>8. ReportInv'
  BY <1>6 DEF IInv, ReportInv, doneVars
<1>9. Parsed(p)'
  BY <1>2, <1>6 DEF Parsed, Chunked
<1>10. ParseInv'
  BY <1>5, <1>6, <1>9 DEF ParseInv
<1> QED BY <1>7, <1>8, <1>10 DEF IInv

\* Once the end of the headers is in the buffer it is its second token.
LEMMA HeadersThere ==
    ASSUME IInv, InState("HTTPS_HEADERS"), Has("head_end")
    PROVE  /\ body = <<>> /\ timeout <= RequestTime
           /\ After("head_end") \in Seq(Token)
           /\ Left(Stream(response), 2, After("head_end"), coming)
<1> DEFINE S == Stream(response)
<1>1. state = "HTTPS_HEADERS"
  BY DEF InState
<1>2. PICK p \in Nat : Left(S, p, buffer, coming) /\ Parsed(p)
  BY <1>1, PlaceIs
<1>3. p = 0 /\ body = <<>> /\ timeout <= RequestTime
  BY <1>1, <1>2 DEF Parsed
<1>4. buffer \in Seq(Token) /\ coming \in Seq(Token) /\ S \in Seq(Token) /\ Len(buffer) \in Nat
  BY <1>1, PlaceIs, LenProperties DEF IInv, TypeOK
<1>5. S[1].kind = "head" /\ S[2].kind = "head_end"
  BY StreamIs DEF IInv, TypeOK
<1> HIDE DEF S
<1>6. \A k \in 1..Len(buffer) : buffer[k] = S[k]
  BY <1>2, <1>3, <1>4 DEF Left
<1>7. PICK i \in 1..Len(buffer) : buffer[i].kind = "head_end"
  BY <1>4, LenProperties DEF Has
<1>8. 2 \in 1..Len(buffer)
  <2>1. i # 1
    BY <1>5, <1>6, <1>7
  <2> QED BY <1>4, <1>7, <2>1
<1>9. buffer[2].kind = "head_end" /\ \A j \in 1..Len(buffer) : j < 2 => buffer[j].kind # "head_end"
  <2>1. \A j \in 1..Len(buffer) : j < 2 => j = 1
    BY <1>4
  <2> QED BY <1>5, <1>6, <1>8, <2>1
<1>10. After("head_end") = SubSeq(buffer, 2 + 1, Len(buffer))
  BY <1>4, <1>8, <1>9, AfterIs
<1>11. 2 \in 0..Len(buffer)
  BY <1>4, <1>8
<1>12. /\ SubSeq(buffer, 2 + 1, Len(buffer)) \in Seq(Token)
       /\ Left(S, p + 2, SubSeq(buffer, 2 + 1, Len(buffer)), coming)
  BY <1>2, <1>4, <1>11, Drop
<1>13. p + 2 = 2
  BY <1>3
<1> QED BY <1>3, <1>10, <1>12, <1>13 DEF S

\* A response that ends with its headers.
LEMMA HeadersEndStep ==
    ASSUME IInv, CallInv, HeadersEnd
    PROVE  IInv'
<1>0. RequestTime \in Nat /\ BodyTime \in Nat
  BY HttpsClientAssumption
<1>1. body = <<>> /\ timeout <= RequestTime
  BY HeadersThere DEF HeadersEnd
<1> DEFINE cause == IF response.framing = "none" THEN "parsed" ELSE "refused"
<1>2. Finish(cause, body) /\ cause \in Causes
  BY DEF HeadersEnd, Causes
<1>3. cause = "parsed" => body = Body(response)
  <2>1. SUFFICES ASSUME response.framing = "none" PROVE body = Body(response)
    OBVIOUS
  <2>2. response \in Responses
    BY DEF IInv, TypeOK
  <2>3. response.chunks = <<>>
    BY <2>1, <2>2, HttpsClientAssumption
  <2>4. Body(response) \in Seq(Token) /\ Len(Body(response)) = Before(response)[Len(response.chunks)]
    BY <2>2, BodyIs
  <2>5. Before(response)[0] = 0 /\ Len(response.chunks) = 0
    BY <2>2, <2>3, BeforeIs, EmptySeq DEF Sums
  <2>6. Body(response) = <<>>
    BY <2>4, <2>5, EmptySeq
  <2> QED BY <1>1, <2>6
<1>4. /\ response' = response /\ coming' = coming /\ body' = body /\ timed_out' = timed_out
      /\ content_length' = content_length /\ chunk_size' = chunk_size
      /\ chunk_receive' = chunk_receive /\ timeout' = timeout + BodyTime
      /\ status' \in {0, 200}
  BY DEF HeadersEnd, IInv, TypeOK
<1>5. timeout' \in 0..(RequestTime + BodyTime)
  BY <1>0, <1>1, <1>4 DEF IInv, TypeOK
<1>6. /\ body \in Seq(Token) /\ Begins(body, Body(response))
      /\ timed_out \in BOOLEAN /\ chunk_receive \in 0..chunk_size
  BY DEF IInv, TypeOK, ReportInv
<1> HIDE DEF cause
<1> QED BY <1>2, <1>3, <1>4, <1>5, <1>6, FinishKeeps

\* The headers are parsed and the body begins.
LEMMA HeadersDoneStep ==
    ASSUME IInv, CallInv, HeadersDone
    PROVE  IInv'
<1> DEFINE r == response
           e == Before(r)
<1>0. RequestTime \in Nat /\ BodyTime \in Nat
  BY HttpsClientAssumption
<1>1. /\ body = <<>> /\ timeout <= RequestTime
      /\ After("head_end") \in Seq(Token)
      /\ Left(Stream(r), 2, After("head_end"), coming)
  BY HeadersThere DEF HeadersDone
<1>2. r \in Responses /\ r.framing \in Framings /\ Body(r) \in Seq(Token)
  BY BodyIs, HttpsClientAssumption DEF IInv, TypeOK
<1>3. Len(Body(r)) = e[Len(r.chunks)] /\ Len(Body(r)) \in Nat /\ e[0] = 0 /\ Len(r.chunks) \in Nat
  BY <1>2, BodyIs, BeforeIs, LenProperties DEF Sums
<1>4. /\ UNCHANGED <<response, coming, connVars, timed_out, body, chunk_size, chunk_receive, doneVars>>
      /\ timeout' = timeout + BodyTime /\ status' = 200 /\ buffer' = After("head_end")
      /\ pc' \in {"idle", "parse"}
      /\ content_length' = IF r.framing = "length" THEN Len(Body(r)) ELSE NoLength
      /\ state' = IF Chunked THEN "HTTPS_CHUNK_LEN" ELSE "HTTPS_CONTENT"
      /\ r.framing \notin {"none", "malformed"}
      /\ state # "HTTPS_DONE"
  BY DEF HeadersDone, Again, Chunked, InState
<1>5. TypeOK'
  <2>1. timeout' \in 0..(RequestTime + BodyTime)
    BY <1>0, <1>1, <1>4 DEF IInv, TypeOK
  <2>2. content_length' \in Nat
    BY <1>3, <1>4 DEF NoLength
  <2>3. state' \in States
    BY <1>4 DEF States
  <2> QED BY <1>1, <1>4, <2>1, <2>2, <2>3 DEF IInv, TypeOK, connVars, doneVars
<1>6. ReportInv'
  <2>1. response' = response /\ body' = body /\ report' = report
    BY <1>4 DEF doneVars
  <2> QED BY <1>4, <2>1 DEF IInv, ReportInv
<1>7. Len(body) = 0
  BY <1>1, EmptySeq
<1>8. Parsed(2)'
  <2>1. CASE Chunked
    <3>1. state' = "HTTPS_CHUNK_LEN" /\ Chunked' /\ response' = response /\ body' = body
      BY <1>4, <2>1 DEF Chunked
    <3>2. 1 \in 1..(Len(r.chunks) + 1) /\ At(r, 1) = 2 /\ e[1 - 1] = 0
      BY <1>3 DEF At
    <3> QED BY <1>7, <3>1, <3>2 DEF Parsed
  <2>2. CASE ~ Chunked
    <3>1. state' = "HTTPS_CONTENT" /\ response' = response /\ body' = body
      BY <1>4, <2>2
    <3>2. r.framing \in {"length", "unknown"}
      BY <1>2, <1>4, <2>2 DEF Framings, Chunked
    <3>3. /\ r.framing = "length" => content_length' = e[Len(r.chunks)]
          /\ r.framing = "unknown" => content_length' = NoLength
      BY <1>3, <1>4
    <3>4. 2 = 2 + Len(body)
      BY <1>7
    <3> QED BY <3>1, <3>2, <3>3, <3>4 DEF Parsed
  <2> QED BY <2>1, <2>2
<1>9. ParseInv'
  BY <1>1, <1>4, <1>8 DEF ParseInv
<1> QED BY <1>5, <1>6, <1>9 DEF IInv

\* A body of a stated length is not empty, and no chunk ends after the body.
LEMMA BodyLength ==
    ASSUME NEW r \in Responses
    PROVE  /\ Len(r.chunks) \in Nat /\ Before(r) \in [0..Len(r.chunks) -> Nat]
           /\ \A i \in 1..Len(r.chunks) :
                /\ Before(r)[i] = Before(r)[i - 1] + r.chunks[i]
                /\ Before(r)[i] <= Len(Body(r))
           /\ r.framing = "length" => Len(Body(r)) # 0
<1> DEFINE n == Len(r.chunks)
           e == Before(r)
<1>1. n \in Nat /\ r.chunks \in [1..n -> Nat \ {0}] /\ Sums(n, r.chunks, e)
  BY BeforeIs
<1>2. Len(Body(r)) = e[n]
  BY BodyIs
<1>3. r.framing = "length" => r.chunks # <<>> /\ r.chunks \in Seq(Nat \ {0})
  BY HttpsClientAssumption
<1>4. r.framing = "length" => n # 0
  BY <1>3, EmptySeq
<1> HIDE DEF n, e
<1>5. r.chunks \in [1..n -> Nat] /\ e \in [0..n -> Nat] /\ e[0] = 0
  BY <1>1 DEF Sums
<1>6. ASSUME NEW i \in 1..n PROVE e[i] = e[i - 1] + r.chunks[i] /\ e[i] <= e[n]
  <2>1. i \in 0..n /\ n \in i..n
    BY <1>1
  <2>2. \A j \in i..n : e[i] <= e[j]
    BY <1>1, <1>5, <2>1, SumsGrow
  <2> QED BY <1>1, <2>1, <2>2 DEF Sums
<1>7. ASSUME n # 0 PROVE e[n] # 0
  <2>1. 1 \in 1..n /\ n \in 0..n /\ 1 \in 0..n
    BY <1>1, <1>7
  <2>2. e[1] = e[1 - 1] + r.chunks[1] /\ e[1] <= e[n]
    BY <1>6, <2>1
  <2>3. r.chunks[1] \in Nat \ {0} /\ e[n] \in Nat /\ e[1 - 1] = 0 /\ e[1] \in Nat
    BY <1>1, <1>5, <2>1
  <2> QED BY <2>2, <2>3
<1> QED BY <1>1, <1>2, <1>4, <1>5, <1>6, <1>7 DEF n, e

\* A body that is not chunked grows by what was read.
LEMMA ContentStep ==
    ASSUME IInv, CallInv, Content
    PROVE  IInv'
<1> DEFINE r == response
           S == Stream(r)
           B == Body(r)
           b == body \o buffer
<1>1. state = "HTTPS_CONTENT" /\ body' = b
  BY DEF Content, InState
<1>2. PICK p \in Nat : Left(S, p, buffer, coming) /\ Parsed(p)
  BY <1>1, PlaceIs
<1>3. /\ r.framing \in {"length", "unknown"} /\ p = 2 + Len(body)
      /\ r.framing = "length" => content_length = Before(r)[Len(r.chunks)]
      /\ r.framing = "unknown" => content_length = NoLength
  BY <1>1, <1>2 DEF Parsed
<1>4. r \in Responses /\ buffer \in Seq(Token) /\ coming \in Seq(Token) /\ body \in Seq(Token)
  BY DEF IInv, TypeOK
<1>5. B \in Seq(Token) /\ Len(B) = Before(r)[Len(r.chunks)] /\ (r.framing = "length" => Len(B) # 0)
  BY <1>4, BodyIs, BodyLength
<1>6. S \in Seq(Token) /\ Len(S) = 2 + Len(B) /\ \A k \in 1..Len(B) : S[2 + k] = B[k]
  BY <1>3, <1>4, PlainStream
<1>7. Len(buffer) \in Nat /\ Len(coming) \in Nat /\ Len(body) \in Nat /\ Len(B) \in Nat
  BY <1>4, <1>5, LenProperties
<1>8. Begins(body, B)
  BY DEF IInv, ReportInv
<1> HIDE DEF S, B, r
<1>9. p + Len(buffer) + Len(coming) = Len(S) /\ \A k \in 1..Len(buffer) : buffer[k] = S[p + k]
  BY <1>2 DEF Left
<1>10. Len(body) + Len(buffer) <= Len(B)
  BY <1>3, <1>6, <1>7, <1>9
<1>11. ASSUME NEW k \in 1..Len(buffer) PROVE buffer[k] = B[Len(body) + k]
  <2>1. Len(body) + k \in 1..Len(B) /\ p + k = 2 + (Len(body) + k)
    BY <1>3, <1>7, <1>10
  <2> QED BY <1>6, <1>9, <2>1
<1>12. b \in Seq(Token) /\ Len(b) = Len(body) + Len(buffer) /\ Begins(b, B)
  BY <1>4, <1>5, <1>8, <1>10, <1>11, Extended
<1> HIDE DEF b
<1>13. /\ UNCHANGED <<response, coming, timeout, timed_out, content_length, chunk_size,
                      chunk_receive, status>>
  BY DEF Content
<1>14. CASE BodyDone(b)
  <2>1. Finish("parsed", b)
    BY <1>14 DEF Content, b
  <2>2. ASSUME r.framing # "unknown" PROVE b = B
    <3>1. Len(b) >= Len(B)
      BY <1>3, <1>5, <1>14, <2>2 DEF BodyDone, NoLength
    <3>2. Len(b) = Len(B)
      BY <1>7, <1>10, <1>12, <3>1
    <3> QED BY <1>5, <1>12, <3>2, BeginsPrefix
  <2>3. /\ timed_out' \in BOOLEAN /\ timeout' \in 0..(RequestTime + BodyTime)
        /\ chunk_receive' \in 0..chunk_size /\ status' \in {0, 200} /\ "parsed" \in Causes
    BY <1>13 DEF IInv, TypeOK, Causes
  <2> QED BY <1>1, <1>12, <1>13, <2>1, <2>2, <2>3, FinishKeeps DEF r, B
<1>15. CASE ~ BodyDone(b)
  <2>1. buffer' = <<>> /\ pc' = "idle" /\ UNCHANGED <<connVars, state, doneVars>>
    BY <1>15 DEF Content, Again, b
  <2>2. Len(buffer) \in 0..Len(buffer)
    BY <1>7
  <2>3. SubSeq(buffer, Len(buffer) + 1, Len(buffer)) = <<>>
    BY <1>7, SubSeqEmpty
  <2>4. Left(S, p + Len(buffer), <<>>, coming) /\ p + Len(buffer) \in Nat
    BY <1>2, <1>4, <1>6, <2>2, <2>3, Drop
  <2>5. PICK q \in Nat : q = p + Len(buffer)
    BY <2>4
  <2>6. q = 2 + Len(b)
    BY <1>3, <1>7, <1>12, <2>5
  <2>7. ParseInv'
    <3>1. Parsed(q)'
      BY <1>1, <1>3, <1>13, <2>1, <2>6 DEF Parsed, r
    <3>2. Left(Stream(response), q, buffer, coming)'
      BY <1>13, <2>1, <2>4, <2>5 DEF S, r
    <3> QED BY <3>1, <3>2 DEF ParseInv
  <2>8. TypeOK'
    <3>1. buffer' \in Seq(Token) /\ pc' \in {"idle", "parse"}
      BY <2>1, EmptySeq
    <3> QED BY <1>1, <1>12, <1>13, <2>1, <3>1 DEF IInv, TypeOK, connVars, doneVars
  <2>9. ReportInv'
    <3>1. response' = response /\ body' = b /\ report' = report /\ state' = state
      BY <1>1, <1>13, <2>1 DEF doneVars
    <3> QED BY <1>12, <3>1 DEF IInv, ReportInv, B, r
  <2> QED BY <2>7, <2>8, <2>9 DEF IInv
<1> QED BY <1>14, <1>15

\* What the parser finds where it expects the length of a chunk.
LEMMA LengthAt ==
    ASSUME NEW r \in Responses, r.framing \in {"chunked", "bad_chunk"},
           NEW i \in 1..(Len(r.chunks) + 1)
    PROVE  LET S == Stream(r)
               o == At(r, i)
           IN  /\ o \in Nat
               /\ S[o + 1].kind # "lf" /\ S[o + 2].kind # "lf" /\ S[o + 3].kind = "lf"
               /\ i \in 1..Len(r.chunks) => S[o + 1] = Tok("length", i, r.chunks[i])
               /\ i \notin 1..Len(r.chunks) => S[o + 1] = Tok(IF r.framing = "chunked" THEN "length" ELSE "bad_length", 0, 0)
<1> DEFINE S == Stream(r)
           o == At(r, i)
<1>1. Len(r.chunks) \in Nat
  BY BeforeIs
<1>2. (\A j \in 1..Len(r.chunks) : ChunkAt(S, r, j)) /\ TailAt(S, r)
  BY ChunkedStream
<1> HIDE DEF S
<1>3. CASE i \in 1..Len(r.chunks)
  <2>1. ChunkAt(S, r, i)
    BY <1>2, <1>3
  <2>2. /\ o \in Nat /\ S[o + 1] = Tok("length", i, r.chunks[i])
        /\ S[o + 2] = Tok("cr", 0, 0) /\ S[o + 3] = Tok("lf", 0, 0)
    BY <2>1 DEF ChunkAt
  <2> QED BY <1>3, <2>2 DEF Tok, S
<1>4. CASE i \notin 1..Len(r.chunks)
  <2>1. i = Len(r.chunks) + 1
    BY <1>1, <1>4
  <2>2. /\ o \in Nat /\ S[o + 1] = Tok(IF r.framing = "chunked" THEN "length" ELSE "bad_length", 0, 0)
        /\ S[o + 2] = Tok("cr", 0, 0) /\ S[o + 3] = Tok("lf", 0, 0)
    BY <1>2, <2>1 DEF TailAt
  <2> QED BY <1>4, <2>2 DEF Tok, S
<1> QED BY <1>3, <1>4

\* Once a line end is in the buffer, the length of a chunk is there.
LEMMA LengthThere ==
    ASSUME IInv, InState("HTTPS_CHUNK_LEN"), Has("lf")
    PROVE  /\ Chunked
           /\ After("lf") \in Seq(Token)
           /\ \E i \in 1..(Len(response.chunks) + 1) :
                /\ Len(body) = Before(response)[i - 1]
                /\ At(response, i) \in Nat
                /\ Left(Stream(response), At(response, i) + 3, After("lf"), coming)
                /\ Head(buffer) = Stream(response)[At(response, i) + 1]
<1> DEFINE r == response
           S == Stream(r)
<1>1. state = "HTTPS_CHUNK_LEN"
  BY DEF InState
<1>2. PICK p \in Nat : Left(S, p, buffer, coming) /\ Parsed(p)
  BY <1>1, PlaceIs
<1>3. Chunked /\ \E i \in 1..(Len(r.chunks) + 1) : p = At(r, i) /\ Len(body) = Before(r)[i - 1]
  BY <1>1, <1>2 DEF Parsed
<1>4. PICK i \in 1..(Len(r.chunks) + 1) : p = At(r, i) /\ Len(body) = Before(r)[i - 1]
  BY <1>3
<1>5. /\ r \in Responses /\ buffer \in Seq(Token) /\ coming \in Seq(Token) /\ S \in Seq(Token)
      /\ Len(buffer) \in Nat
  BY StreamIs, LenProperties DEF IInv, TypeOK
<1>6. p \in Nat /\ S[p + 1].kind # "lf" /\ S[p + 2].kind # "lf" /\ S[p + 3].kind = "lf"
  BY <1>3, <1>4, <1>5, LengthAt DEF Chunked
<1>7. \A k \in 1..Len(buffer) : buffer[k] = S[p + k]
  BY <1>2 DEF Left
<1>8. PICK j \in 1..Len(buffer) : buffer[j].kind = "lf"
  BY <1>5, LenProperties DEF Has
<1> HIDE DEF S, r
<1>9. 3 \in 1..Len(buffer) /\ 1 \in 1..Len(buffer)
  <2>1. j # 1 /\ j # 2
    BY <1>6, <1>7, <1>8
  <2> QED BY <1>5, <1>8, <2>1
<1>10. buffer[3].kind = "lf" /\ \A k \in 1..Len(buffer) : k < 3 => buffer[k].kind # "lf"
  <2>1. \A k \in 1..Len(buffer) : k < 3 => k = 1 \/ k = 2
    BY <1>5
  <2> QED BY <1>6, <1>7, <1>9, <2>1
<1>11. After("lf") = SubSeq(buffer, 3 + 1, Len(buffer))
  BY <1>5, <1>9, <1>10, AfterIs
<1>12. 3 \in 0..Len(buffer)
  BY <1>5, <1>9
<1>13. /\ SubSeq(buffer, 3 + 1, Len(buffer)) \in Seq(Token)
       /\ Left(S, p + 3, SubSeq(buffer, 3 + 1, Len(buffer)), coming)
  BY <1>2, <1>5, <1>12, Drop
<1>14. Head(buffer) = S[p + 1]
  BY <1>7, <1>9
<1> QED BY <1>3, <1>4, <1>6, <1>11, <1>13, <1>14 DEF S, r

\* A chunk begins, or the last one was read.
LEMMA ChunkLenStep ==
    ASSUME IInv, CallInv, ChunkLen
    PROVE  IInv'
<1> DEFINE r == response
           S == Stream(r)
           c == r.chunks
<1>1. /\ Chunked /\ After("lf") \in Seq(Token)
      /\ \E i \in 1..(Len(c) + 1) :
            /\ Len(body) = Before(r)[i - 1] /\ At(r, i) \in Nat
            /\ Left(S, At(r, i) + 3, After("lf"), coming)
            /\ Head(buffer) = S[At(r, i) + 1]
  BY LengthThere DEF ChunkLen
<1>2. PICK i \in 1..(Len(c) + 1) :
            /\ Len(body) = Before(r)[i - 1] /\ At(r, i) \in Nat
            /\ Left(S, At(r, i) + 3, After("lf"), coming)
            /\ Head(buffer) = S[At(r, i) + 1]
  BY <1>1
<1>3. r \in Responses
  BY DEF IInv, TypeOK
<1>4. /\ UNCHANGED <<response, coming, connVars, timeout, timed_out, body, content_length,
                     status, doneVars>>
      /\ buffer' = After("lf") /\ chunk_receive' = 0 /\ pc' = "parse"
      /\ Head(buffer).kind = "length" /\ state # "HTTPS_DONE"
      /\ chunk_size' = IF Head(buffer).n = 0 THEN 2 ELSE Head(buffer).n
      /\ state' = IF Head(buffer).n = 0 THEN "HTTPS_CHUNK_LAST" ELSE "HTTPS_CHUNK_CONTENT"
  BY DEF ChunkLen, Again, InState
<1>5. /\ i \in 1..Len(c) => Head(buffer) = Tok("length", i, c[i])
      /\ i \notin 1..Len(c) => Head(buffer) = Tok(IF r.framing = "chunked" THEN "length" ELSE "bad_length", 0, 0)
  BY <1>1, <1>2, <1>3, LengthAt DEF Chunked
<1>6. Len(c) \in Nat /\ c \in [1..Len(c) -> Nat \ {0}]
  BY <1>3, BeforeIs
<1>7. PICK q \in Nat : q = At(r, i) + 3
  BY <1>2
<1>8. chunk_size' \in Nat /\ state' \in States /\ Parsed(q)'
  <2>1. CASE i \in 1..Len(c)
    <3>1. Head(buffer).n = c[i] /\ c[i] \in Nat \ {0}
      BY <1>5, <1>6, <2>1 DEF Tok
    <3>2. chunk_size' = c[i] /\ state' = "HTTPS_CHUNK_CONTENT"
      BY <1>4, <3>1
    <3>3. chunk_size' \in Nat /\ state' \in States
      BY <3>1, <3>2 DEF States
    <3>4. q = At(r, i) + 3 + chunk_receive' /\ Len(body) = Before(r)[i - 1] + chunk_receive'
      <4>1. i - 1 \in 0..Len(c) /\ Before(r) \in [0..Len(c) -> Nat]
        BY <1>3, <1>6, BodyLength
      <4>2. Before(r)[i - 1] \in Nat
        BY <4>1
      <4> QED BY <1>2, <1>4, <1>7, <4>2
    <3>5. response' = response /\ body' = body /\ Chunked'
      BY <1>1, <1>4 DEF Chunked
    <3> QED BY <2>1, <3>2, <3>3, <3>4, <3>5 DEF Parsed
  <2>2. CASE i \notin 1..Len(c)
    <3>1. Head(buffer).n = 0 /\ r.framing = "chunked"
      <4>1. Head(buffer) = Tok(IF r.framing = "chunked" THEN "length" ELSE "bad_length", 0, 0)
        BY <1>5, <2>2
      <4>2. Head(buffer).kind = IF r.framing = "chunked" THEN "length" ELSE "bad_length"
        BY <4>1 DEF Tok
      <4> QED BY <1>4, <4>1, <4>2 DEF Tok
    <3>2. chunk_size' = 2 /\ state' = "HTTPS_CHUNK_LAST"
      BY <1>4, <3>1
    <3>3. i - 1 = Len(c)
      BY <1>6, <2>2
    <3>4. response' = response /\ body' = body
      BY <1>4
    <3>5. chunk_size' \in Nat /\ state' \in States
      BY <3>2 DEF States
    <3> QED BY <1>2, <3>1, <3>2, <3>3, <3>4, <3>5 DEF Parsed
  <2> QED BY <2>1, <2>2
<1>9. TypeOK'
  <2>1. chunk_receive' \in 0..chunk_size'
    BY <1>4, <1>8
  <2> QED BY <1>1, <1>4, <1>8, <2>1 DEF IInv, TypeOK, connVars, doneVars
<1>10. ReportInv'
  <2>1. response' = response /\ body' = body /\ report' = report
    BY <1>4 DEF doneVars
  <2> QED BY <1>4, <2>1 DEF IInv, ReportInv
<1>11. ParseInv'
  <2>1. Left(Stream(response), q, buffer, coming)'
    BY <1>2, <1>4, <1>7
  <2> QED BY <1>8, <2>1 DEF ParseInv
<1> QED BY <1>9, <1>10, <1>11 DEF IInv

\* The body grows by as much of the chunk as was read, and no more.
LEMMA ChunkContentStep ==
    ASSUME IInv, CallInv, ChunkContent
    PROVE  IInv'
<1> DEFINE r == response
           S == Stream(r)
           B == Body(r)
           c == r.chunks
           e == Before(r)
           t == ToRead
           g == SubSeq(buffer, 1, t)
<1>1. state = "HTTPS_CHUNK_CONTENT"
  BY DEF ChunkContent, InState
<1>2. PICK p \in Nat : Left(S, p, buffer, coming) /\ Parsed(p)
  BY <1>1, PlaceIs
<1>3. Chunked /\ \E i \in 1..Len(c) : /\ chunk_size = c[i] /\ p = At(r, i) + 3 + chunk_receive
                                      /\ Len(body) = e[i - 1] + chunk_receive
  BY <1>1, <1>2 DEF Parsed
<1>4. PICK i \in 1..Len(c) : /\ chunk_size = c[i] /\ p = At(r, i) + 3 + chunk_receive
                             /\ Len(body) = e[i - 1] + chunk_receive
  BY <1>3
<1>5. /\ r \in Responses /\ buffer \in Seq(Token) /\ coming \in Seq(Token) /\ body \in Seq(Token)
      /\ chunk_size \in Nat /\ chunk_receive \in Nat /\ chunk_receive <= chunk_size
      /\ Begins(body, B)
  BY DEF IInv, TypeOK, ReportInv
<1>6. S \in Seq(Token) /\ ChunkAt(S, r, i) /\ B \in Seq(Token)
  BY <1>3, <1>5, ChunkedStream, BodyIs DEF Chunked
<1>7. Len(buffer) \in Nat /\ Len(body) \in Nat /\ Len(B) \in Nat /\ Len(c) \in Nat
  BY <1>5, <1>6, LenProperties, BodyLength
<1>8. /\ e[i - 1] \in Nat /\ e[i] \in Nat /\ e[i] = e[i - 1] + c[i] /\ e[i] <= Len(B)
  <2>1. /\ e \in [0..Len(c) -> Nat]
        /\ \A j \in 1..Len(c) : e[j] = e[j - 1] + c[j] /\ e[j] <= Len(B)
    BY <1>5, BodyLength
  <2>2. i \in 0..Len(c) /\ i - 1 \in 0..Len(c)
    BY <1>7
  <2> QED BY <2>1, <2>2
<1>9. \A k \in 1..c[i] : S[At(r, i) + 3 + k] = B[e[i - 1] + k]
  <2>1. \A k \in 1..c[i] : S[At(r, i) + 3 + k] = Tok("data", i, k)
    BY <1>6 DEF ChunkAt
  <2>2. \A k \in 1..c[i] : B[e[i - 1] + k] = Tok("data", i, k)
    BY <1>5, BodyIs
  <2> QED BY <2>1, <2>2
<1>10. At(r, i) \in Nat
  BY <1>6 DEF ChunkAt
<1>11. t \in Nat /\ t <= Len(buffer) /\ chunk_receive + t <= chunk_size
  BY <1>5, <1>7 DEF ToRead
<1>12. /\ UNCHANGED <<response, coming, connVars, timeout, timed_out, content_length,
                      chunk_size, status, doneVars>>
       /\ body' = body \o g /\ chunk_receive' = chunk_receive + t
       /\ buffer' = SubSeq(buffer, t + 1, Len(buffer))
       /\ state' = IF chunk_receive' >= chunk_size THEN "HTTPS_CHUNK_TRAILER" ELSE state
       /\ pc' \in {"idle", "parse"}
  BY DEF ChunkContent, Again
<1> HIDE DEF t, S, B, e, c, r
<1>13. g \in Seq(Token) /\ Len(g) = t /\ \A k \in 1..t : g[k] = buffer[k]
  <2>1. /\ g \in Seq(Token) /\ Len(g) = t - 1 + 1
        /\ \A k \in 1..(t - 1 + 1) : g[k] = buffer[1 + k - 1]
    <3>1. 1 \in Nat /\ 1 <= 1 /\ 1 <= t + 1
      BY <1>11
    <3> QED BY <1>5, <1>11, <3>1, SubAt
  <2> HIDE DEF g
  <2>2. t - 1 + 1 = t /\ \A k \in 1..t : 1 + k - 1 = k
    BY <1>11
  <2> QED BY <2>1, <2>2
<1> HIDE DEF g
<1>14. ASSUME NEW k \in 1..Len(g) PROVE g[k] = B[Len(body) + k]
  <2>1. k \in 1..t /\ k \in 1..Len(buffer) /\ chunk_receive + k \in 1..c[i] /\ k \in Nat
    BY <1>4, <1>5, <1>7, <1>11, <1>13
  <2>2. g[k] = buffer[k] /\ buffer[k] = S[p + k]
    BY <1>2, <1>13, <2>1 DEF Left
  <2>3. S[At(r, i) + 3 + (chunk_receive + k)] = B[e[i - 1] + (chunk_receive + k)]
    BY <1>9, <2>1
  <2>4. At(r, i) + 3 + (chunk_receive + k) = p + k
    BY <1>4, <1>5, <1>10, <2>1
  <2>5. e[i - 1] + (chunk_receive + k) = Len(body) + k
    <3>1. Len(body) = e[i - 1] + chunk_receive
      BY <1>4
    <3>2. e[i - 1] \in Nat /\ chunk_receive \in Nat /\ k \in Nat
      BY <1>5, <1>8, <2>1
    <3> QED BY <3>1, <3>2
  <2> QED BY <2>2, <2>3, <2>4, <2>5
<1>15. Len(body) + Len(g) <= Len(B)
  <2>1. Len(body) = e[i - 1] + chunk_receive /\ Len(g) = t /\ chunk_receive + t <= c[i]
    BY <1>4, <1>11, <1>13
  <2>2. e[i - 1] + c[i] <= Len(B)
    BY <1>8
  <2>3. e[i - 1] \in Nat /\ chunk_receive \in Nat /\ t \in Nat /\ c[i] \in Nat /\ Len(B) \in Nat
    BY <1>4, <1>5, <1>7, <1>8, <1>11
  <2> QED BY <2>1, <2>2, <2>3
<1>16. body' \in Seq(Token) /\ Len(body') = Len(body) + t /\ Begins(body', B)
  BY <1>5, <1>6, <1>12, <1>13, <1>14, <1>15, Extended
<1>17. buffer' \in Seq(Token) /\ p + t \in Nat /\ Left(S, p + t, buffer', coming)
  <2>1. t \in 0..Len(buffer)
    BY <1>7, <1>11
  <2> QED BY <1>2, <1>5, <1>6, <1>12, <2>1, Drop
<1>18. PICK q \in Nat : q = p + t
  BY <1>17
<1>19. state' \in States /\ chunk_receive' \in 0..chunk_size'
  BY <1>1, <1>5, <1>11, <1>12 DEF States
<1>20. TypeOK'
  BY <1>12, <1>16, <1>17, <1>19 DEF IInv, TypeOK, connVars, doneVars
<1>21. ReportInv'
  <2>1. response' = response /\ report' = report /\ state # "HTTPS_DONE"
    BY <1>1, <1>12 DEF doneVars
  <2> QED BY <1>16, <2>1 DEF IInv, ReportInv, B, r
<1>22. Parsed(q)'
  <2>1. q = At(r, i) + 3 + chunk_receive' /\ Len(body') = e[i - 1] + chunk_receive'
    <3>1. q = At(r, i) + 3 + chunk_receive + t /\ chunk_receive' = chunk_receive + t
      BY <1>4, <1>12, <1>18
    <3>2. Len(body') = e[i - 1] + chunk_receive + t
      BY <1>4, <1>16
    <3>3. At(r, i) \in Nat /\ e[i - 1] \in Nat /\ chunk_receive \in Nat /\ t \in Nat
      BY <1>5, <1>8, <1>10, <1>11
    <3>4. q = At(r, i) + 3 + (chunk_receive + t)
      BY <3>1, <3>3
    <3>5. Len(body') = e[i - 1] + (chunk_receive + t)
      BY <3>2, <3>3
    <3> QED BY <3>1, <3>4, <3>5
  <2>2. response' = response /\ Chunked' /\ chunk_size' = c[i]
    BY <1>3, <1>4, <1>12 DEF Chunked
  <2>3. CASE chunk_receive' >= chunk_size
    <3>1. chunk_receive' = c[i] /\ state' = "HTTPS_CHUNK_TRAILER"
      BY <1>4, <1>5, <1>11, <1>12, <2>3
    <3>2. q = At(r, i) + 3 + c[i] /\ Len(body') = e[i]
      BY <1>8, <2>1, <3>1
    <3> QED BY <2>2, <3>1, <3>2 DEF Parsed, r, e, c
  <2>4. CASE ~ (chunk_receive' >= chunk_size)
    <3>1. state' = "HTTPS_CHUNK_CONTENT"
      BY <1>1, <1>12, <2>4
    <3> QED BY <2>1, <2>2, <3>1 DEF Parsed, r, e, c
  <2> QED BY <2>3, <2>4
<1>23. ParseInv'
  <2>1. Left(Stream(response), q, buffer, coming)'
    BY <1>12, <1>17, <1>18 DEF S, r
  <2> QED BY <1>22, <2>1 DEF ParseInv
<1> QED BY <1>20, <1>21, <1>23 DEF IInv

\* The line end after a chunk: the next length follows.
LEMMA ChunkTrailerStep ==
    ASSUME IInv, CallInv, ChunkTrailer
    PROVE  IInv'
<1> DEFINE r == response
           S == Stream(r)
           c == r.chunks
           e == Before(r)
<1>1. state = "HTTPS_CHUNK_TRAILER"
  BY DEF ChunkTrailer, InState
<1>2. PICK p \in Nat : Left(S, p, buffer, coming) /\ Parsed(p)
  BY <1>1, PlaceIs
<1>3. Chunked /\ \E i \in 1..Len(c) : p = At(r, i) + 3 + c[i] /\ Len(body) = e[i]
  BY <1>1, <1>2 DEF Parsed
<1>4. PICK i \in 1..Len(c) : p = At(r, i) + 3 + c[i] /\ Len(body) = e[i]
  BY <1>3
<1>5. r \in Responses /\ buffer \in Seq(Token) /\ coming \in Seq(Token)
  BY DEF IInv, TypeOK
<1>6. S \in Seq(Token) /\ ChunkAt(S, r, i)
  BY <1>3, <1>5, ChunkedStream DEF Chunked
<1>7. Len(c) \in Nat /\ c[i] \in Nat /\ Len(buffer) \in Nat
  BY <1>5, ChunkIs, BodyLength, LenProperties
<1>8. At(r, i) \in Nat /\ At(r, i) + c[i] + 5 = At(r, i + 1)
  BY <1>6 DEF ChunkAt
<1>9. /\ UNCHANGED <<response, coming, connVars, timeout, timed_out, body, content_length,
                     chunk_size, chunk_receive, status, doneVars>>
      /\ state' = "HTTPS_CHUNK_LEN" /\ pc' = "parse"
      /\ buffer' = SubSeq(buffer, 3, Len(buffer)) /\ IsPrefix(CrLf, buffer)
  BY DEF ChunkTrailer, Again
<1>10. 2 \in 0..Len(buffer)
  BY <1>7, <1>9, CrLfIs DEF IsPrefix
<1> HIDE DEF S, c, e, r
<1>11. buffer' \in Seq(Token) /\ p + 2 \in Nat /\ Left(S, p + 2, buffer', coming)
  <2>1. 2 + 1 = 3
    OBVIOUS
  <2>2. /\ SubSeq(buffer, 2 + 1, Len(buffer)) \in Seq(Token) /\ p + 2 \in Nat
        /\ Left(S, p + 2, SubSeq(buffer, 2 + 1, Len(buffer)), coming)
    BY <1>2, <1>5, <1>6, <1>10, Drop
  <2> QED BY <1>9, <2>1, <2>2
<1>12. PICK q \in Nat : q = p + 2
  BY <1>11
<1>13. TypeOK'
  <2>1. state' \in States /\ pc' \in {"idle", "parse"}
    BY <1>9 DEF States
  <2> QED BY <1>9, <1>11, <2>1 DEF IInv, TypeOK, connVars, doneVars
<1>14. ReportInv'
  <2>1. response' = response /\ report' = report /\ body' = body /\ state # "HTTPS_DONE"
    BY <1>1, <1>9 DEF doneVars
  <2> QED BY <2>1 DEF IInv, ReportInv
<1>15. Parsed(q)'
  <2>1. i + 1 \in 1..(Len(c) + 1) /\ q = At(r, i + 1) /\ (i + 1) - 1 = i
    BY <1>4, <1>7, <1>8, <1>12
  <2>2. response' = response /\ Chunked' /\ body' = body
    BY <1>3, <1>9 DEF Chunked
  <2>3. Len(body) = e[(i + 1) - 1]
    BY <1>4, <2>1
  <2> QED BY <1>9, <2>1, <2>2, <2>3 DEF Parsed, r, e, c
<1>16. ParseInv'
  <2>1. Left(Stream(response), q, buffer, coming)'
    BY <1>9, <1>11, <1>12 DEF S, r
  <2> QED BY <1>15, <2>1 DEF ParseInv
<1> QED BY <1>13, <1>14, <1>16 DEF IInv

\* The line end after the last chunk: the body is whole.
LEMMA ChunkLastStep ==
    ASSUME IInv, CallInv, ChunkLast
    PROVE  IInv'
<1>1. state = "HTTPS_CHUNK_LAST"
  BY DEF ChunkLast, InState
<1>2. PICK p \in Nat : Left(Stream(response), p, buffer, coming) /\ Parsed(p)
  BY <1>1, PlaceIs
<1>3. Len(body) = Before(response)[Len(response.chunks)]
  BY <1>1, <1>2 DEF Parsed
<1>4. /\ response \in Responses /\ body \in Seq(Token) /\ Begins(body, Body(response))
      /\ timed_out \in BOOLEAN /\ timeout \in 0..(RequestTime + BodyTime)
      /\ chunk_receive \in 0..chunk_size /\ status \in {0, 200} /\ "parsed" \in Causes
  BY DEF IInv, TypeOK, ReportInv, Causes
<1>5. Body(response) \in Seq(Token) /\ Len(body) = Len(Body(response))
  BY <1>3, <1>4, BodyIs
<1>6. body = Body(response)
  BY <1>4, <1>5, BeginsPrefix
<1>7. /\ Finish("parsed", body) /\ response' = response /\ coming' = coming /\ body' = body
      /\ timeout' = timeout /\ timed_out' = timed_out /\ content_length' = content_length
      /\ chunk_size' = chunk_size /\ chunk_receive' = chunk_receive /\ status' = status
  BY DEF ChunkLast
<1> QED BY <1>4, <1>6, <1>7, FinishKeeps

\* The inductive invariant holds initially ...
LEMMA InvInit == Init => IInv
<1> SUFFICES ASSUME Init PROVE IInv
  OBVIOUS
<1>0. RequestTime \in Nat /\ BodyTime \in Nat
  BY HttpsClientAssumption
<1>1. response \in Responses /\ coming = Stream(response) /\ coming \in Seq(Token)
  BY StreamIs DEF Init
<1>2. <<>> \in Seq(Token) /\ Len(<<>>) = 0
  BY EmptySeq
<1>3. report \in [cause : Causes, body : Seq(Token)] /\ state \in States /\ report.cause = "none"
  BY <1>2 DEF Init, Causes, States
<1>4. timeout \in 0..(RequestTime + BodyTime) /\ timeout <= RequestTime
  BY <1>0 DEF Init
<1>5. TypeOK
  <2>1. /\ sfd \in BOOLEAN /\ tcp_connect_done \in BOOLEAN /\ connected \in BOOLEAN
        /\ timed_out \in BOOLEAN /\ completed \in BOOLEAN
    BY DEF Init
  <2>2. /\ pc \in {"idle", "parse"} /\ buffer \in Seq(Token) /\ body \in Seq(Token)
        /\ status \in {0, 200}
    BY <1>2 DEF Init
  <2>3. content_length \in Nat /\ chunk_size \in Nat /\ chunk_receive \in 0..chunk_size /\ called \in Nat
    BY DEF Init, NoLength
  <2> QED BY <1>1, <1>3, <1>4, <2>1, <2>2, <2>3 DEF TypeOK
<1>6. ReportInv
  <2>1. Body(response) \in Seq(Token)
    BY <1>1, BodyIs
  <2>2. Len(Body(response)) \in Nat
    BY <2>1, LenProperties
  <2>3. Begins(body, Body(response))
    BY <1>2, <2>2 DEF Init, Begins
  <2> QED BY <1>3, <2>3 DEF ReportInv
<1>7. Left(Stream(response), 0, buffer, coming)
  <2>1. Len(coming) \in Nat
    BY <1>1, LenProperties
  <2> QED BY <1>1, <1>2, <2>1 DEF Init, Left
<1>8. Parsed(0)
  <2>1. state = "HTTPS_HEADERS" /\ body = <<>>
    BY DEF Init
  <2> QED BY <1>4, <2>1 DEF Parsed
<1> QED BY <1>5, <1>6, <1>7, <1>8 DEF IInv, ParseInv

\* No step of the connection, the clock or the parser breaks IInv.
LEMMA InvStep ==
    ASSUME IInv, CallInv, [Next]_vars
    PROVE  IInv'
<1>0. /\ timeout \in Nat /\ timeout \in 0..timeout /\ sfd \in BOOLEAN /\ tcp_connect_done \in BOOLEAN
      /\ connected \in BOOLEAN /\ pc \in {"idle", "parse"} /\ timed_out \in BOOLEAN
      /\ timeout \in 0..(RequestTime + BodyTime) /\ status \in {0, 200}
      /\ chunk_receive \in 0..chunk_size /\ body \in Seq(Token) /\ Begins(body, Body(response))
  BY HttpsClientAssumption DEF IInv, TypeOK, ReportInv
<1>1. CASE TcpConnect
  BY <1>0, <1>1, SameParse DEF TcpConnect
<1>2. CASE Handshake
  BY <1>0, <1>2, SameParse DEF Handshake
<1>3. CASE OnRead
  BY <1>3, ReadStep
<1>4. CASE ConnectionLost
  <2>1. "lost" \in Causes /\ "lost" # "parsed"
    BY DEF Causes
  <2>2. /\ Finish("lost", body) /\ response' = response /\ coming' = coming /\ body' = body
        /\ timeout' = timeout /\ timed_out' = timed_out /\ content_length' = content_length
        /\ chunk_size' = chunk_size /\ chunk_receive' = chunk_receive /\ status' = status
    BY <1>4 DEF ConnectionLost
  <2> QED BY <1>0, <2>1, <2>2, FinishKeeps
<1>5. CASE Second
  <2>1. timeout' \in 0..timeout
    BY <1>0, <1>5 DEF Second
  <2>2. /\ UNCHANGED <<response, coming, state, parseVars, status, doneVars>>
        /\ timed_out' = timed_out /\ pc' = pc /\ UNCHANGED connVars
    BY <1>5 DEF Second
  <2> QED BY <1>0, <2>1, <2>2, SameParse DEF connVars
<1>6. CASE OneSecondTimer
  <2>1. "timeout" \in Causes /\ "timeout" # "parsed"
    BY DEF Causes
  <2>2. /\ Finish("timeout", body) /\ response' = response /\ coming' = coming /\ body' = body
        /\ timeout' = timeout /\ timed_out' = TRUE /\ content_length' = content_length
        /\ chunk_size' = chunk_size /\ chunk_receive' = chunk_receive /\ status' = status
    BY <1>6 DEF OneSecondTimer
  <2> QED BY <1>0, <2>1, <2>2, FinishKeeps
<1>7. CASE Parse
  <2>1. CASE Wait
    <3>1. /\ UNCHANGED <<response, coming, state, parseVars, status, doneVars>>
          /\ timeout' = timeout /\ timed_out' = timed_out /\ pc' = "idle" /\ UNCHANGED connVars
      BY <2>1 DEF Wait, Again
    <3> QED BY <1>0, <3>1, SameParse DEF connVars
  <2>2. CASE ChunkLenBad
    <3>1. "refused" \in Causes /\ "refused" # "parsed"
      BY DEF Causes
    <3>2. /\ Finish("refused", body) /\ response' = response /\ coming' = coming /\ body' = body
          /\ timeout' = timeout /\ timed_out' = timed_out /\ content_length' = content_length
          /\ chunk_size' = chunk_size /\ chunk_receive' = 0 /\ status' = status
      BY <2>2 DEF ChunkLenBad
    <3>3. 0 \in 0..chunk_size
      BY DEF IInv, TypeOK
    <3> QED BY <1>0, <3>1, <3>2, <3>3, FinishKeeps
  <2> QED BY <1>7, <2>1, <2>2, HeadersEndStep, HeadersDoneStep, ContentStep, ChunkLenStep,
             ChunkContentStep, ChunkTrailerStep, ChunkLastStep DEF Parse
<1>8. CASE UNCHANGED vars
  <2>1. /\ UNCHANGED <<response, coming, state, parseVars, status, doneVars>>
        /\ timeout' = timeout /\ timed_out' = timed_out /\ pc' = pc /\ UNCHANGED connVars
    BY <1>8 DEF vars
  <2> QED BY <1>0, <2>1, SameParse DEF connVars
<1> QED BY <1>1, <1>2, <1>3, <1>4, <1>5, <1>6, <1>7, <1>8 DEF Next

\* ... and always.
LEMMA InvHolds == Spec => [](IInv /\ CallInv)
<1>1. Init => IInv /\ CallInv
  BY InvInit DEF Init, CallInv
<1>2. IInv /\ CallInv /\ [Next]_vars => IInv' /\ CallInv'
  BY InvStep, CallStep
<1> QED BY <1>1, <1>2, PTL DEF Spec

\* Every variable of the client keeps its type, the seconds left and the bytes
\* of a chunk within their bounds.
THEOREM TypeCorrect == Spec => []TypeOK
<1>1. IInv => TypeOK
  BY DEF IInv
<1> QED BY <1>1, InvHolds, PTL

\* However the response is cut into reads and whatever else happens between
\* them, handle_buffer collects the bytes the server sent, in order and without
\* chunk lengths or line ends, and ends a response only when its body is whole.
THEOREM BodyAsSent == Spec => []BodyFaithful
<1>1. IInv => BodyFaithful
  <2> SUFFICES ASSUME IInv PROVE BodyFaithful
    OBVIOUS
  <2>1. response \in Responses /\ body \in Seq(Token) /\ Begins(body, Body(response))
    BY DEF IInv, TypeOK, ReportInv
  <2>2. IsPrefix(body, Body(response))
    BY <2>1, BodyIs, BeginsPrefix
  <2> QED BY <2>2 DEF IInv, ReportInv, BodyFaithful
<1> QED BY <1>1, InvHolds, PTL
=============================================================================
