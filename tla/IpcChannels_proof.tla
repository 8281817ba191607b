--------------------------- MODULE IpcChannels_proof ---------------------------
(***************************************************************************)
(* For any calls and events, any number of registrations and any order of  *)
(* messages, timers and disposals: the invariant of the two ends of a      *)
(* connection, and what follows from it for the calls, their cancellation  *)
(* and the events.                                                         *)
(***************************************************************************)
EXTENDS IpcChannels, SequenceTheorems, FiniteSetTheorems, TLAPS

USE IpcAssumption DEF Calls

-----------------------------------------------------------------------------
(* Lemmas about sequences.                                                 *)

LEMMA ConcatIs ==
    ASSUME NEW S, NEW q \in Seq(S), NEW r \in Seq(S)
    PROVE  /\ q \o r \in Seq(S)
           /\ Len(q) \in Nat /\ Len(r) \in Nat /\ Len(q \o r) = Len(q) + Len(r)
           /\ DOMAIN q = 1..Len(q) /\ DOMAIN r = 1..Len(r)
           /\ DOMAIN (q \o r) = 1..(Len(q) + Len(r))
           /\ \A i \in DOMAIN q : i \in DOMAIN (q \o r) /\ (q \o r)[i] = q[i]
           /\ \A i \in DOMAIN r : Len(q) + i \in DOMAIN (q \o r) /\ (q \o r)[Len(q) + i] = r[i]
           /\ \A i \in DOMAIN (q \o r) :
                \/ i \in DOMAIN q
                \/ i - Len(q) \in DOMAIN r /\ i > Len(q) /\ (q \o r)[i] = r[i - Len(q)]
<1>1. /\ q \o r \in Seq(S) /\ Len(q) \in Nat /\ Len(r) \in Nat
      /\ Len(q \o r) = Len(q) + Len(r)
      /\ DOMAIN q = 1..Len(q) /\ DOMAIN r = 1..Len(r)
      /\ DOMAIN (q \o r) = 1..(Len(q) + Len(r))
  OBVIOUS
<1>2. \A i \in 1..(Len(q) + Len(r)) :
        (q \o r)[i] = IF i <= Len(q) THEN q[i] ELSE r[i - Len(q)]
  BY ConcatProperties
<1> QED
  BY <1>1, <1>2

LEMMA TailIs ==
    ASSUME NEW S, NEW q \in Seq(S), q # <<>>
    PROVE  /\ Head(q) \in S /\ Tail(q) \in Seq(S) /\ Head(q) = q[1]
           /\ Len(q) \in Nat /\ Len(q) >= 1 /\ Len(Tail(q)) = Len(q) - 1
           /\ DOMAIN q = 1..Len(q) /\ DOMAIN Tail(q) = 1..(Len(q) - 1)
           /\ \A i \in DOMAIN Tail(q) : i + 1 \in DOMAIN q /\ Tail(q)[i] = q[i + 1]
           /\ \A i \in DOMAIN q : i = 1 \/ (i - 1 \in DOMAIN Tail(q) /\ q[i] = Tail(q)[i - 1])
<1>1. /\ Head(q) \in S /\ Tail(q) \in Seq(S) /\ Head(q) = q[1]
      /\ Len(q) \in Nat /\ Len(q) >= 1 /\ Len(Tail(q)) = Len(q) - 1
      /\ DOMAIN q = 1..Len(q) /\ DOMAIN Tail(q) = 1..(Len(q) - 1)
      /\ \A i \in 1..(Len(q) - 1) : Tail(q)[i] = q[i + 1]
  OBVIOUS
<1>2. \A i \in DOMAIN Tail(q) : i + 1 \in DOMAIN q /\ Tail(q)[i] = q[i + 1]
  BY <1>1
<1>3. \A i \in DOMAIN q : i # 1 => i - 1 \in DOMAIN Tail(q) /\ q[i] = Tail(q)[i - 1]
  BY <1>1
<1> QED
  BY <1>1, <1>2, <1>3

LEMMA AppendIs ==
    ASSUME NEW S, NEW s \in Seq(S), NEW x \in S
    PROVE  /\ Append(s, x) \in Seq(S) /\ Len(s) \in Nat /\ Len(Append(s, x)) = Len(s) + 1
           /\ DOMAIN s = 1..Len(s) /\ DOMAIN Append(s, x) = 1..(Len(s) + 1)
           /\ \A i \in DOMAIN s : Append(s, x)[i] = s[i]
           /\ Append(s, x)[Len(s) + 1] = x
           /\ \A i \in DOMAIN Append(s, x) : i \in DOMAIN s \/ i = Len(s) + 1
OBVIOUS

\* A set in some order.
LEMMA SetToSeqIs ==
    ASSUME NEW ids, IsFiniteSet(ids)
    PROVE  LET n == Cardinality(ids)
               order == SetToSeq(ids)
           IN  /\ n \in Nat /\ order \in [1..n -> ids]
               /\ \A i, j \in 1..n : order[i] = order[j] => i = j
               /\ \A x \in ids : \E i \in 1..n : order[i] = x
<1> DEFINE n == Cardinality(ids)
           order == SetToSeq(ids)
<1>1. n \in Nat /\ ExistsBijection(1..n, ids)
  BY FS_CardinalityType
<1>2. \E f \in [1..n -> ids] : IsInjective(f)
  BY <1>1 DEF ExistsBijection, Bijection, Injection, IsInjective
<1>3. order \in [1..n -> ids] /\ IsInjective(order)
  BY <1>2 DEF SetToSeq
<1>4. IsFiniteSet(1..n) /\ Cardinality(1..n) = n
  BY <1>1, FS_Interval
<1>5. order \in Injection(1..n, ids)
  BY <1>3 DEF Injection, IsInjective
<1>6. order \in Surjection(1..n, ids)
  BY <1>4, <1>5, FS_Injection
<1>7. \A x \in ids : \E i \in 1..n : order[i] = x
  BY <1>6 DEF Surjection
<1> HIDE DEF order, n
<1>8. \A i, j \in 1..n : order[i] = order[j] => i = j
  BY <1>3 DEF IsInjective
<1> QED
  BY <1>1, <1>3, <1>7, <1>8 DEF order, n

\* One message for each.
LEMMA ForEachIs ==
    ASSUME NEW ids, IsFiniteSet(ids), NEW type
    PROVE  /\ ForEach(ids, type) \in Seq([type : {type}, id : ids])
           /\ \A i, j \in DOMAIN ForEach(ids, type) :
                ForEach(ids, type)[i].id = ForEach(ids, type)[j].id => i = j
           /\ \A x \in ids : \E i \in DOMAIN ForEach(ids, type) : ForEach(ids, type)[i].id = x
<1> DEFINE n == Cardinality(ids)
           order == SetToSeq(ids)
           messages == [i \in 1..n |-> Message(type, order[i])]
<1>1. /\ n \in Nat /\ order \in [1..n -> ids]
      /\ \A i, j \in 1..n : order[i] = order[j] => i = j
      /\ \A x \in ids : \E i \in 1..n : order[i] = x
  BY SetToSeqIs
<1>2. ForEach(ids, type) = messages
  BY DEF ForEach
<1> HIDE DEF order, n
<1>3. messages \in Seq([type : {type}, id : ids])
  BY <1>1 DEF Message
<1>4. \A i \in 1..n : messages[i].id = order[i]
  BY DEF Message
<1>5. DOMAIN messages = 1..n
  OBVIOUS
<1> HIDE DEF messages
<1>6. \A i, j \in DOMAIN messages : messages[i].id = messages[j].id => i = j
  BY <1>1, <1>4, <1>5
<1>7. \A x \in ids : \E i \in DOMAIN messages : messages[i].id = x
  BY <1>1, <1>4, <1>5
<1> QED
  BY <1>2, <1>3, <1>6, <1>7

-----------------------------------------------------------------------------
(* What waits for Initialize.                                              *)

LEMMA ContainsIs ==
    ASSUME NEW S, NEW s \in Seq(S), NEW id
    PROVE  Contains(s, id) <=> \E i \in DOMAIN s : s[i] = id
BY DEF Contains

LEMMA NothingContains == \A id : ~Contains(<<>>, id) /\ Once(<<>>, id)
BY DEF Contains, Once

LEMMA AppendContains ==
    ASSUME NEW S, NEW s \in Seq(S), NEW x \in S
    PROVE  /\ \A id : Contains(Append(s, x), id) <=> Contains(s, id) \/ id = x
           /\ \A id : Once(s, id) /\ (id # x \/ ~Contains(s, id)) => Once(Append(s, x), id)
<1> DEFINE t == Append(s, x)
<1>1. /\ t \in Seq(S) /\ DOMAIN s = 1..Len(s) /\ DOMAIN t = 1..(Len(s) + 1)
      /\ Len(s) \in Nat
      /\ \A i \in DOMAIN s : t[i] = s[i]
      /\ t[Len(s) + 1] = x
      /\ \A i \in DOMAIN t : i \in DOMAIN s \/ i = Len(s) + 1
  BY AppendIs
<1> HIDE DEF t
<1>2. \A id : Contains(t, id) <=> Contains(s, id) \/ id = x
  BY <1>1, ContainsIs
<1>3. \A id : Once(s, id) /\ (id # x \/ ~Contains(s, id)) => Once(t, id)
  BY <1>1, ContainsIs DEF Once
<1> QED
  BY <1>2, <1>3 DEF t

\* What waits when the client is disposed waits once.
LEMMA SetContains ==
    ASSUME NEW S, NEW ids, IsFiniteSet(ids), ids \subseteq S
    PROVE  /\ SetToSeq(ids) \in Seq(S)
           /\ \A x : (Contains(SetToSeq(ids), x) <=> x \in ids) /\ Once(SetToSeq(ids), x)
           /\ ids = {} => SetToSeq(ids) = <<>>
<1> DEFINE n == Cardinality(ids)
           s == SetToSeq(ids)
<1>1. /\ n \in Nat /\ s \in [1..n -> ids]
      /\ \A i, j \in 1..n : s[i] = s[j] => i = j
      /\ \A x \in ids : \E i \in 1..n : s[i] = x
  BY SetToSeqIs
<1>2. ids = {} => n = 0
  BY FS_EmptySet
<1> HIDE DEF n, s
<1>3. s \in Seq(S) /\ DOMAIN s = 1..n
  <2>1. s \in [1..n -> S]
    BY <1>1
  <2> QED
    BY <1>1, <2>1
<1>4. \A x : (Contains(s, x) <=> x \in ids) /\ Once(s, x)
  BY <1>1, <1>3, ContainsIs DEF Once
<1>5. ids = {} => s = <<>>
  <2>1. ids = {} => Len(s) = 0
    BY <1>1, <1>2, <1>3
  <2> QED
    BY <1>3, <2>1, EmptySeq
<1> QED
  BY <1>3, <1>4, <1>5 DEF s

\* What is taken away is gone, the rest stays.
LEMMA WithoutIs ==
    ASSUME NEW S, NEW s \in Seq(S), NEW id, Once(s, id)
    PROVE  /\ Without(s, id) \in Seq(S)
           /\ \A x : Contains(Without(s, id), x) <=> Contains(s, x) /\ x # id
           /\ \A x : Once(s, x) => Once(Without(s, id), x)
           /\ s = <<>> => Without(s, id) = <<>>
<1>1. CASE ~Contains(s, id)
  BY <1>1 DEF Without
<1>2. CASE Contains(s, id)
  <2> DEFINE k == CHOOSE i \in DOMAIN s : s[i] = id
             t == RemoveAt(s, k)
  <2>1. k \in DOMAIN s /\ s[k] = id /\ \A i \in DOMAIN s : s[i] = id => i = k
    BY <1>2, ContainsIs DEF Once
  <2>2. Without(s, id) = t
    BY <1>2 DEF Without
  <2> HIDE DEF k
  <2>3. /\ t \in Seq(S) /\ DOMAIN s = 1..Len(s) /\ DOMAIN t = 1..(Len(s) - 1) /\ Len(s) \in Nat
        /\ \A i \in 1..(Len(s) - 1) : t[i] = IF i < k THEN s[i] ELSE s[i + 1]
    <3>1. Len(s) \in Nat /\ k \in 1..Len(s) /\ DOMAIN s = 1..Len(s)
      BY <2>1
    <3> DEFINE a == SubSeq(s, 1, k - 1)
               b == SubSeq(s, k + 1, Len(s))
    <3>2. a \in Seq(S) /\ Len(a) = k - 1 /\ \A i \in 1..(k - 1) : a[i] = s[i]
      BY <3>1
    <3>3. b \in Seq(S) /\ Len(b) = Len(s) - k /\ \A i \in 1..(Len(s) - k) : b[i] = s[k + i]
      <4>1. \A i \in (k + 1)..Len(s) : s[i] \in S
        BY <3>1
      <4>2. /\ b \in Seq(S)
            /\ Len(b) = IF k + 1 <= Len(s) THEN Len(s) - (k + 1) + 1 ELSE 0
            /\ \A i \in 1..(Len(s) - (k + 1) + 1) : b[i] = s[k + 1 + i - 1]
        BY <3>1, <4>1, SubSeqProperties
      <4> HIDE DEF b
      <4>3. Len(b) = Len(s) - k
        <5> DEFINE n == Len(s)
        <5>1. n \in Nat /\ k \in 1..n /\ Len(b) = IF k + 1 <= n THEN n - (k + 1) + 1 ELSE 0
          BY <3>1, <4>2
        <5> HIDE DEF n
        <5>2. Len(b) = n - k
          BY ONLY <5>1
        <5> QED
          BY <5>2 DEF n
      <4>4. \A i \in 1..(Len(s) - k) : i \in 1..(Len(s) - (k + 1) + 1) /\ k + 1 + i - 1 = k + i
        BY <3>1
      <4> QED
        BY <4>2, <4>3, <4>4
    <3>4. t = a \o b
      BY DEF RemoveAt
    <3> HIDE DEF a, b, t
    <3>5. t \in Seq(S) /\ Len(t) = Len(s) - 1 /\ DOMAIN t = 1..(Len(s) - 1)
      <4>1. t \in Seq(S) /\ Len(t) = Len(a) + Len(b) /\ DOMAIN t = 1..Len(t)
        <5>1. a \in Seq(S) /\ b \in Seq(S)
          BY <3>2, <3>3
        <5>2. /\ a \o b \in Seq(S) /\ Len(a \o b) = Len(a) + Len(b)
              /\ DOMAIN (a \o b) = 1..(Len(a) + Len(b))
          BY ONLY <5>1, ConcatIs
        <5> QED
          BY <3>4, <5>2
      <4>2. Len(t) = Len(s) - 1
        BY <3>1, <3>2, <3>3, <4>1
      <4> QED
        BY <4>1, <4>2
    <3>6. \A i \in 1..(Len(s) - 1) : t[i] = IF i <= k - 1 THEN a[i] ELSE b[i - (k - 1)]
      BY <3>1, <3>2, <3>3, <3>4, ConcatProperties
    <3>7. ASSUME NEW i \in 1..(Len(s) - 1) PROVE t[i] = IF i < k THEN s[i] ELSE s[i + 1]
      <4>1. CASE i < k
        BY <3>1, <3>2, <3>6, <4>1
      <4>2. CASE ~(i < k)
        <5>1. i - (k - 1) \in 1..(Len(s) - k) /\ k + (i - (k - 1)) = i + 1
          BY <3>1, <4>2
        <5>2. b[i - (k - 1)] = s[i + 1]
          BY <3>3, <5>1
        <5> QED
          BY <3>1, <3>6, <4>2, <5>2
      <4> QED
        BY <4>1, <4>2
    <3> QED
      BY <3>1, <3>5, <3>7
  <2> HIDE DEF t
  <2>4. ASSUME NEW i \in DOMAIN s, i # k
        PROVE  \E j \in DOMAIN t : t[j] = s[i]
    <3>1. CASE i < k
      BY <2>1, <2>3, <3>1
    <3>2. CASE i > k
      <4>1. i - 1 \in 1..(Len(s) - 1) /\ ~(i - 1 < k) /\ (i - 1) + 1 = i
        BY <2>1, <2>3, <3>2
      <4> QED
        BY <2>3, <4>1
    <3> QED
      BY <2>1, <2>3, <2>4, <3>1, <3>2
  <2>5. \A i \in DOMAIN t : /\ (IF i < k THEN i ELSE i + 1) \in DOMAIN s
                            /\ t[i] = s[IF i < k THEN i ELSE i + 1]
                            /\ (IF i < k THEN i ELSE i + 1) # k
    BY <2>1, <2>3
  <2>6. ASSUME NEW x PROVE Contains(t, x) <=> Contains(s, x) /\ x # id
    <3>1. ASSUME Contains(t, x) PROVE Contains(s, x) /\ x # id
      <4>1. PICK i \in DOMAIN t : t[i] = x
        BY <2>3, <3>1, ContainsIs
      <4> DEFINE j == IF i < k THEN i ELSE i + 1
      <4>2. j \in DOMAIN s /\ s[j] = x /\ j # k
        BY <2>5, <4>1
      <4> HIDE DEF j
      <4> QED
        BY <2>1, <4>2, ContainsIs
    <3>2. ASSUME Contains(s, x), x # id PROVE Contains(t, x)
      <4>1. PICK i \in DOMAIN s : s[i] = x
        BY <3>2, ContainsIs
      <4>2. \E j \in DOMAIN t : t[j] = x
        BY <2>1, <2>4, <3>2, <4>1
      <4> QED
        BY <2>3, <4>2, ContainsIs
    <3> QED
      BY <3>1, <3>2
  <2>7. ASSUME NEW x, Once(s, x) PROVE Once(t, x)
    <3> SUFFICES ASSUME NEW i \in DOMAIN t, NEW j \in DOMAIN t, t[i] = x, t[j] = x
                 PROVE  i = j
      BY DEF Once
    <3>1. (IF i < k THEN i ELSE i + 1) = (IF j < k THEN j ELSE j + 1)
      BY <2>5, <2>7 DEF Once
    <3> QED
      BY <2>1, <2>3, <3>1
  <2> QED
    BY <1>2, <2>2, <2>3, <2>6, <2>7, NothingContains
<1> QED
  BY <1>1, <1>2

-----------------------------------------------------------------------------
(* Requests and ends on their way to the server.                           *)

LEMMA NothingToServer ==
    \A id : /\ ~HasRequest(<<>>, id) /\ ~HasEnd(<<>>, id)
            /\ RequestedOnce(<<>>, id) /\ RequestEnds(<<>>, id)
BY DEF HasRequest, HasEnd, RequestedOnce, RequestEnds

LEMMA OneToServer ==
    ASSUME NEW m
    PROVE  \A id : /\ HasRequest(<<m>>, id) <=> m.id = id /\ IsRequest(m)
                   /\ HasEnd(<<m>>, id) <=> m.id = id /\ ~IsRequest(m)
                   /\ RequestedOnce(<<m>>, id)
                   /\ (m.id # id \/ ~IsRequest(m)) => RequestEnds(<<m>>, id)
<1>1. DOMAIN <<m>> = {1} /\ <<m>>[1] = m
  OBVIOUS
<1> DEFINE q == <<m>>
<1>2. DOMAIN q = {1} /\ q[1] = m
  BY <1>1
<1> HIDE DEF q
<1>3. \A id : /\ HasRequest(q, id) <=> m.id = id /\ IsRequest(m)
              /\ HasEnd(q, id) <=> m.id = id /\ ~IsRequest(m)
  BY <1>2 DEF HasRequest, HasEnd
<1>4. \A id : /\ RequestedOnce(q, id)
              /\ (m.id # id \/ ~IsRequest(m)) => RequestEnds(q, id)
  BY <1>2 DEF RequestedOnce, RequestEnds
<1> QED
  BY <1>3, <1>4 DEF q

\* What is sent comes behind what was sent.
LEMMA ConcatToServer ==
    ASSUME NEW S, NEW q \in Seq(S), NEW r \in Seq(S), NEW id
    PROVE  /\ HasRequest(q \o r, id) <=> HasRequest(q, id) \/ HasRequest(r, id)
           /\ HasEnd(q \o r, id) <=> HasEnd(q, id) \/ HasEnd(r, id)
           /\ RequestedOnce(q, id) /\ RequestedOnce(r, id)
              /\ (~HasRequest(q, id) \/ ~HasRequest(r, id)) => RequestedOnce(q \o r, id)
           /\ RequestEnds(r, id) /\ (RequestEnds(q, id) \/ HasEnd(r, id)) => RequestEnds(q \o r, id)
<1> DEFINE t == q \o r
           n == Len(q)
<1>1. /\ n \in Nat /\ DOMAIN q = 1..n /\ DOMAIN r = 1..Len(r) /\ Len(r) \in Nat
      /\ DOMAIN t = 1..(n + Len(r))
      /\ \A i \in DOMAIN q : i \in DOMAIN t /\ t[i] = q[i]
      /\ \A i \in DOMAIN r : n + i \in DOMAIN t /\ t[n + i] = r[i]
      /\ \A i \in DOMAIN t : \/ i \in DOMAIN q
                             \/ i - n \in DOMAIN r /\ i > n /\ t[i] = r[i - n]
  BY ConcatIs
<1> HIDE DEF t, n
<1>2. HasRequest(t, id) <=> HasRequest(q, id) \/ HasRequest(r, id)
  BY <1>1 DEF HasRequest
<1>3. HasEnd(t, id) <=> HasEnd(q, id) \/ HasEnd(r, id)
  BY <1>1 DEF HasEnd
<1>4. ASSUME RequestedOnce(q, id), RequestedOnce(r, id), ~HasRequest(q, id) \/ ~HasRequest(r, id)
      PROVE  RequestedOnce(t, id)
  BY <1>1, <1>4 DEF RequestedOnce, HasRequest
<1>5. ASSUME RequestEnds(r, id), RequestEnds(q, id) \/ HasEnd(r, id)
      PROVE  RequestEnds(t, id)
  <2> SUFFICES ASSUME NEW i \in DOMAIN t, t[i].id = id, IsRequest(t[i])
               PROVE  \E j \in DOMAIN t : j > i /\ t[j].id = id /\ ~IsRequest(t[j])
    BY DEF RequestEnds
  <2>1. CASE i \in DOMAIN q
    <3>1. CASE RequestEnds(q, id)
      BY <1>1, <2>1, <3>1 DEF RequestEnds
    <3>2. CASE HasEnd(r, id)
      <4>1. PICK j \in DOMAIN r : r[j].id = id /\ ~IsRequest(r[j])
        BY <3>2 DEF HasEnd
      <4>2. n + j \in DOMAIN t /\ n + j > i /\ t[n + j] = r[j]
        BY <1>1, <2>1
      <4> QED
        BY <4>1, <4>2
    <3> QED
      BY <1>5, <3>1, <3>2
  <2>2. CASE i - n \in DOMAIN r /\ t[i] = r[i - n]
    <3>1. PICK j \in DOMAIN r : j > i - n /\ r[j].id = id /\ ~IsRequest(r[j])
      BY <1>5, <2>2 DEF RequestEnds
    <3>2. n + j \in DOMAIN t /\ n + j > i /\ t[n + j] = r[j]
      BY <1>1, <3>1
    <3> QED
      BY <3>1, <3>2
  <2> QED
    BY <1>1, <2>1, <2>2
<1> QED
  BY <1>2, <1>3, <1>4, <1>5 DEF t

\* The head is received.
LEMMA TailToServer ==
    ASSUME NEW S, NEW q \in Seq(S), q # <<>>, NEW id
    PROVE  /\ HasRequest(q, id) <=> \/ Head(q).id = id /\ IsRequest(Head(q))
                                    \/ HasRequest(Tail(q), id)
           /\ HasEnd(q, id) <=> \/ Head(q).id = id /\ ~IsRequest(Head(q))
                                \/ HasEnd(Tail(q), id)
           /\ RequestedOnce(q, id) =>
                /\ RequestedOnce(Tail(q), id)
                /\ Head(q).id = id /\ IsRequest(Head(q)) => ~HasRequest(Tail(q), id)
           /\ RequestEnds(q, id) =>
                /\ RequestEnds(Tail(q), id)
                /\ Head(q).id = id /\ IsRequest(Head(q)) => HasEnd(Tail(q), id)
<1> DEFINE t == Tail(q)
           h == Head(q)
<1>1. /\ h = q[1] /\ Len(q) \in Nat /\ Len(q) >= 1
      /\ DOMAIN q = 1..Len(q) /\ DOMAIN t = 1..(Len(q) - 1)
      /\ \A i \in DOMAIN t : i + 1 \in DOMAIN q /\ t[i] = q[i + 1]
      /\ \A i \in DOMAIN q : i = 1 \/ (i - 1 \in DOMAIN t /\ q[i] = t[i - 1])
  BY TailIs
<1> HIDE DEF t, h
<1>2. HasRequest(q, id) <=> (h.id = id /\ IsRequest(h)) \/ HasRequest(t, id)
  <2>1. ASSUME HasRequest(q, id) PROVE (h.id = id /\ IsRequest(h)) \/ HasRequest(t, id)
    <3>1. PICK i \in DOMAIN q : q[i].id = id /\ IsRequest(q[i])
      BY <2>1 DEF HasRequest
    <3> QED
      BY <1>1, <3>1 DEF HasRequest
  <2>2. ASSUME (h.id = id /\ IsRequest(h)) \/ HasRequest(t, id) PROVE HasRequest(q, id)
    <3>1. 1 \in DOMAIN q
      BY <1>1
    <3> QED
      BY <1>1, <2>2, <3>1 DEF HasRequest
  <2> QED
    BY <2>1, <2>2
<1>3. HasEnd(q, id) <=> (h.id = id /\ ~IsRequest(h)) \/ HasEnd(t, id)
  <2>1. ASSUME HasEnd(q, id) PROVE (h.id = id /\ ~IsRequest(h)) \/ HasEnd(t, id)
    <3>1. PICK i \in DOMAIN q : q[i].id = id /\ ~IsRequest(q[i])
      BY <2>1 DEF HasEnd
    <3> QED
      BY <1>1, <3>1 DEF HasEnd
  <2>2. ASSUME (h.id = id /\ ~IsRequest(h)) \/ HasEnd(t, id) PROVE HasEnd(q, id)
    <3>1. 1 \in DOMAIN q
      BY <1>1
    <3> QED
      BY <1>1, <2>2, <3>1 DEF HasEnd
  <2> QED
    BY <2>1, <2>2
<1>4. ASSUME RequestedOnce(q, id)
      PROVE  /\ RequestedOnce(t, id)
             /\ h.id = id /\ IsRequest(h) => ~HasRequest(t, id)
  <2>1. ASSUME NEW i \in DOMAIN t, NEW j \in DOMAIN t,
               t[i].id = id, IsRequest(t[i]), t[j].id = id, IsRequest(t[j])
        PROVE  i = j
    <3>1. i + 1 = j + 1
      BY <1>1, <1>4, <2>1 DEF RequestedOnce
    <3> QED
      BY <1>1, <3>1
  <2>2. ASSUME h.id = id, IsRequest(h), NEW i \in DOMAIN t, t[i].id = id, IsRequest(t[i])
        PROVE  FALSE
    <3>1. i + 1 = 1
      BY <1>1, <1>4, <2>2 DEF RequestedOnce
    <3> QED
      BY <1>1, <3>1
  <2> QED
    BY <2>1, <2>2 DEF RequestedOnce, HasRequest
<1>5. ASSUME RequestEnds(q, id)
      PROVE  /\ RequestEnds(t, id)
             /\ h.id = id /\ IsRequest(h) => HasEnd(t, id)
  <2>1. ASSUME NEW i \in DOMAIN t, t[i].id = id, IsRequest(t[i])
        PROVE  \E j \in DOMAIN t : j > i /\ t[j].id = id /\ ~IsRequest(t[j])
    <3>1. PICK j \in DOMAIN q : j > i + 1 /\ q[j].id = id /\ ~IsRequest(q[j])
      BY <1>1, <1>5, <2>1 DEF RequestEnds
    <3>2. j - 1 \in DOMAIN t /\ j - 1 > i /\ t[j - 1] = q[j]
      BY <1>1, <3>1
    <3> QED
      BY <3>1, <3>2
  <2>2. ASSUME h.id = id, IsRequest(h)
        PROVE  \E j \in DOMAIN t : t[j].id = id /\ ~IsRequest(t[j])
    <3>1. PICK j \in DOMAIN q : j > 1 /\ q[j].id = id /\ ~IsRequest(q[j])
      BY <1>1, <1>5, <2>2 DEF RequestEnds
    <3>2. j - 1 \in DOMAIN t /\ t[j - 1] = q[j]
      BY <1>1, <3>1
    <3> QED
      BY <3>1, <3>2
  <2> QED
    BY <2>1, <2>2 DEF RequestEnds, HasEnd
<1> QED
  BY <1>2, <1>3, <1>4, <1>5 DEF t, h

\* Without a request there is nothing to end.
LEMMA NoRequestEnds ==
    ASSUME NEW messages, NEW id, ~HasRequest(messages, id)
    PROVE  RequestedOnce(messages, id) /\ RequestEnds(messages, id)
BY DEF HasRequest, RequestedOnce, RequestEnds

\* What waited for Initialize, in its order.
LEMMA RequestsIs ==
    ASSUME NEW s \in Seq(Requests), NEW id \in Requests
    PROVE  LET requests == [i \in DOMAIN s |-> Request(s[i])]
           IN  /\ requests \in Seq(ToServer)
               /\ HasRequest(requests, id) <=> Contains(s, id)
               /\ ~HasEnd(requests, id)
               /\ Once(s, id) => RequestedOnce(requests, id)
<1> DEFINE q == [i \in DOMAIN s |-> Request(s[i])]
<1>1. DOMAIN s = 1..Len(s) /\ Len(s) \in Nat /\ \A i \in DOMAIN s : s[i] \in Requests
  OBVIOUS
<1>2. \A x \in Requests : Request(x) \in ToServer /\ Request(x).id = x /\ IsRequest(Request(x))
  BY DEF Requests, Request, Message, ToServer, IsRequest
<1>3. q \in Seq(ToServer)
  BY <1>1, <1>2
<1>4. DOMAIN q = DOMAIN s /\ \A i \in DOMAIN s : q[i].id = s[i] /\ IsRequest(q[i])
  BY <1>1, <1>2
<1> HIDE DEF q
<1>5. HasRequest(q, id) <=> Contains(s, id)
  BY <1>4, ContainsIs DEF HasRequest
<1>6. ~HasEnd(q, id)
  BY <1>4 DEF HasEnd
<1>7. Once(s, id) => RequestedOnce(q, id)
  BY <1>4 DEF Once, RequestedOnce
<1> QED
  BY <1>3, <1>5, <1>6, <1>7 DEF q

-----------------------------------------------------------------------------
(* Requests and ends of an event follow one another.                       *)

LEMMA NothingAlternates ==
    ASSUME NEW e, NEW has \in BOOLEAN, NEW wants \in BOOLEAN
    PROVE  Alternate(<<>>, e, has, wants) <=> has = wants
<1>1. ASSUME has = wants PROVE Alternate(<<>>, e, has, wants)
  <2> DEFINE state == [i \in 0..0 |-> has]
  <2>1. /\ state \in [0..Len(<<>>) -> BOOLEAN] /\ state[0] = has /\ state[Len(<<>>)] = wants
        /\ 1..Len(<<>>) = {}
    BY <1>1
  <2> QED
    BY <2>1 DEF Alternate
<1>2. ASSUME Alternate(<<>>, e, has, wants) PROVE has = wants
  BY <1>2 DEF Alternate
<1> QED
  BY <1>1, <1>2

\* Messages that do not concern it change nothing.
LEMMA OthersAlternate ==
    ASSUME NEW S, NEW q \in Seq(S), NEW e, \A i \in DOMAIN q : q[i].id # e, NEW has \in BOOLEAN
    PROVE  Alternate(q, e, has, has)
<1> DEFINE state == [i \in 0..Len(q) |-> has]
<1>1. Len(q) \in Nat /\ DOMAIN q = 1..Len(q)
  OBVIOUS
<1>2. state \in [0..Len(q) -> BOOLEAN] /\ \A i \in 0..Len(q) : state[i] = has
  OBVIOUS
<1> HIDE DEF state
<1>3. \A i \in 1..Len(q) : i - 1 \in 0..Len(q) /\ i \in 0..Len(q) /\ q[i].id # e
  BY <1>1
<1>4. 0 \in 0..Len(q) /\ Len(q) \in 0..Len(q)
  BY <1>1
<1> QED
  BY <1>2, <1>3, <1>4 DEF Alternate

\* One that does turns having it into wanting it, or the other way round.
LEMMA OneAlternates ==
    ASSUME NEW S, NEW q \in Seq(S), NEW e, NEW k \in DOMAIN q, q[k].id = e,
           \A i \in DOMAIN q : q[i].id = e => i = k, IsRequest(q[k]) \in BOOLEAN
    PROVE  Alternate(q, e, ~IsRequest(q[k]), IsRequest(q[k]))
<1> DEFINE b == IsRequest(q[k])
           state == [i \in 0..Len(q) |-> IF i < k THEN ~b ELSE b]
<1>1. Len(q) \in Nat /\ DOMAIN q = 1..Len(q) /\ k \in 1..Len(q)
  OBVIOUS
<1>2. b \in BOOLEAN
  OBVIOUS
<1>3. b = IsRequest(q[k])
  OBVIOUS
<1> HIDE DEF b
<1>4. /\ state \in [0..Len(q) -> BOOLEAN]
      /\ \A i \in 0..Len(q) : state[i] = IF i < k THEN ~b ELSE b
  BY <1>2
<1> HIDE DEF state
<1>5. 0 \in 0..Len(q) /\ 0 < k /\ Len(q) \in 0..Len(q) /\ ~(Len(q) < k)
  BY <1>1
<1>6. state[0] = ~b /\ state[Len(q)] = b
  BY <1>4, <1>5
<1>7. ASSUME NEW i \in 1..Len(q)
      PROVE  IF q[i].id = e THEN state[i] = IsRequest(q[i]) /\ state[i - 1] # state[i]
             ELSE state[i] = state[i - 1]
  <2>1. i - 1 \in 0..Len(q) /\ i \in 0..Len(q) /\ i \in DOMAIN q
    BY <1>1
  <2>2. CASE q[i].id = e
    <3>1. i = k /\ i - 1 < k /\ ~(i < k)
      BY <1>1, <2>1, <2>2
    <3>2. state[i - 1] = ~b /\ state[i] = b
      BY <1>4, <2>1, <3>1
    <3> QED
      BY <1>2, <1>3, <2>2, <3>1, <3>2
  <2>3. CASE q[i].id # e
    <3>1. (i < k) <=> (i - 1 < k)
      BY <1>1, <2>3
    <3> QED
      BY <1>4, <2>1, <2>3, <3>1
  <2> QED
    BY <2>2, <2>3
<1>8. Alternate(q, e, ~b, b)
  BY <1>4, <1>6, <1>7 DEF Alternate
<1> QED
  BY <1>3, <1>8

LEMMA ConcatAlternates ==
    ASSUME NEW S, NEW q \in Seq(S), NEW r \in Seq(S), NEW e, NEW has, NEW between, NEW wants,
           Alternate(q, e, has, between), Alternate(r, e, between, wants)
    PROVE  Alternate(q \o r, e, has, wants)
<1> DEFINE t == q \o r
           n == Len(q)
           m == Len(r)
<1>1. /\ n \in Nat /\ m \in Nat /\ Len(t) = n + m
      /\ DOMAIN q = 1..n /\ DOMAIN r = 1..m
      /\ \A i \in DOMAIN q : t[i] = q[i]
      /\ \A i \in DOMAIN r : t[n + i] = r[i]
  BY ConcatIs
<1>2. PICK f \in [0..n -> BOOLEAN] :
        /\ f[0] = has /\ f[n] = between
        /\ \A i \in 1..n : IF q[i].id = e THEN f[i] = IsRequest(q[i]) /\ f[i - 1] # f[i]
                           ELSE f[i] = f[i - 1]
  BY DEF Alternate
<1>3. PICK g \in [0..m -> BOOLEAN] :
        /\ g[0] = between /\ g[m] = wants
        /\ \A i \in 1..m : IF r[i].id = e THEN g[i] = IsRequest(r[i]) /\ g[i - 1] # g[i]
                           ELSE g[i] = g[i - 1]
  BY DEF Alternate
<1> HIDE DEF t, n, m
<1> DEFINE state == [i \in 0..(n + m) |-> IF i <= n THEN f[i] ELSE g[i - n]]
<1>4. state \in [0..(n + m) -> BOOLEAN]
  <2>1. ASSUME NEW i \in 0..(n + m) PROVE (IF i <= n THEN f[i] ELSE g[i - n]) \in BOOLEAN
    BY <1>1
  <2> QED
    BY <2>1
<1>5. \A i \in 0..(n + m) : state[i] = IF i <= n THEN f[i] ELSE g[i - n]
  OBVIOUS
<1> HIDE DEF state
<1>6. \A i \in 0..m : state[n + i] = g[i]
  <2> SUFFICES ASSUME NEW i \in 0..m PROVE state[n + i] = g[i]
    OBVIOUS
  <2>1. CASE i = 0
    <3>1. n + i = n /\ n \in 0..(n + m)
      BY <1>1, <2>1
    <3> QED
      BY <1>1, <1>2, <1>3, <1>5, <2>1, <3>1
  <2>2. CASE i # 0
    <3>1. n + i \in 0..(n + m) /\ ~(n + i <= n) /\ (n + i) - n = i
      BY <1>1, <2>2
    <3> QED
      BY <1>5, <3>1
  <2> QED
    BY <2>1, <2>2
<1>7. \A i \in 0..n : state[i] = f[i]
  BY <1>1, <1>5
<1>8. 0 \in 0..n /\ m \in 0..m
  BY <1>1
<1>9. state[0] = has /\ state[n + m] = wants
  BY <1>2, <1>3, <1>6, <1>7, <1>8
<1>10. ASSUME NEW i \in 1..(n + m)
       PROVE  IF t[i].id = e THEN state[i] = IsRequest(t[i]) /\ state[i - 1] # state[i]
              ELSE state[i] = state[i - 1]
  <2>1. CASE i <= n
    <3>1. i \in 1..n /\ i \in 0..n /\ i - 1 \in 0..n
      BY <1>1, <2>1
    <3> QED
      BY <1>1, <1>2, <1>7, <3>1
  <2>2. CASE ~(i <= n)
    <3> DEFINE k == i - n
    <3>1. k \in 1..m /\ k \in 0..m /\ k - 1 \in 0..m /\ n + k = i /\ n + (k - 1) = i - 1
      BY <1>1, <2>2
    <3> HIDE DEF k
    <3>2. state[i] = g[k] /\ state[i - 1] = g[k - 1]
      BY <1>6, <3>1
    <3>3. t[i] = r[k]
      BY <1>1, <3>1
    <3> QED
      BY <1>3, <3>1, <3>2, <3>3
  <2> QED
    BY <2>1, <2>2
<1>11. Alternate(t, e, has, wants)
  <2>1. Len(t) = n + m
    BY <1>1
  <2> QED
    BY ONLY <1>4, <1>9, <1>10, <2>1 DEF Alternate
<1> QED
  BY <1>11 DEF t

\* The server has what the head says.
LEMMA TailAlternates ==
    ASSUME NEW S, NEW q \in Seq(S), q # <<>>, NEW e, NEW has, NEW wants,
           Alternate(q, e, has, wants)
    PROVE  /\ Head(q).id # e => Alternate(Tail(q), e, has, wants)
           /\ Head(q).id = e => /\ IsRequest(Head(q)) # has
                                /\ Alternate(Tail(q), e, IsRequest(Head(q)), wants)
<1> DEFINE t == Tail(q)
           h == Head(q)
           n == Len(q)
<1>1. /\ h = q[1] /\ n \in Nat /\ n >= 1 /\ Len(t) = n - 1
      /\ DOMAIN q = 1..n /\ DOMAIN t = 1..(n - 1)
      /\ \A i \in DOMAIN t : t[i] = q[i + 1]
  BY TailIs
<1>2. PICK f \in [0..n -> BOOLEAN] :
        /\ f[0] = has /\ f[n] = wants
        /\ \A i \in 1..n : IF q[i].id = e THEN f[i] = IsRequest(q[i]) /\ f[i - 1] # f[i]
                           ELSE f[i] = f[i - 1]
  BY DEF Alternate
<1> HIDE DEF t, h, n
<1> DEFINE state == [i \in 0..(n - 1) |-> f[i + 1]]
<1>3. \A i \in 0..(n - 1) : i + 1 \in 0..n
  BY <1>1
<1>4. state \in [0..(n - 1) -> BOOLEAN] /\ \A i \in 0..(n - 1) : state[i] = f[i + 1]
  BY <1>3
<1> HIDE DEF state
<1>5. 0 \in 0..(n - 1) /\ n - 1 \in 0..(n - 1) /\ (n - 1) + 1 = n /\ 0 + 1 = 1 /\ 1 \in 1..n /\ 1 - 1 = 0
  BY <1>1
<1>6. state[0] = f[1] /\ state[n - 1] = wants
  BY <1>2, <1>4, <1>5
<1>7. ASSUME NEW i \in 1..(n - 1)
      PROVE  IF t[i].id = e THEN state[i] = IsRequest(t[i]) /\ state[i - 1] # state[i]
             ELSE state[i] = state[i - 1]
  <2>1. i + 1 \in 1..n /\ i \in 0..(n - 1) /\ i - 1 \in 0..(n - 1) /\ (i - 1) + 1 = (i + 1) - 1
    BY <1>1
  <2>2. state[i] = f[i + 1] /\ state[i - 1] = f[(i + 1) - 1] /\ t[i] = q[i + 1]
    BY <1>1, <1>4, <2>1
  <2> QED
    BY <1>2, <2>1, <2>2
<1>8. Alternate(t, e, f[1], wants)
  BY <1>1, <1>4, <1>6, <1>7 DEF Alternate
<1>9. IF h.id = e THEN f[1] = IsRequest(h) /\ has # f[1] ELSE f[1] = has
  BY <1>1, <1>2, <1>5
<1> QED
  BY <1>8, <1>9 DEF t, h

-----------------------------------------------------------------------------
(* Answers and events on their way to the client.                          *)

LEMMA ConcatToClient ==
    ASSUME NEW S, NEW q \in Seq(S), NEW r \in Seq(S), NEW id, NEW types
    PROVE  HasAnswer(q \o r, id, types) <=> HasAnswer(q, id, types) \/ HasAnswer(r, id, types)
<1> DEFINE t == q \o r
           n == Len(q)
<1>1. /\ n \in Nat /\ DOMAIN q = 1..n
      /\ \A i \in DOMAIN q : i \in DOMAIN t /\ t[i] = q[i]
      /\ \A i \in DOMAIN r : n + i \in DOMAIN t /\ t[n + i] = r[i]
      /\ \A i \in DOMAIN t : \/ i \in DOMAIN q
                             \/ i - n \in DOMAIN r /\ i > n /\ t[i] = r[i - n]
  BY ConcatIs
<1> HIDE DEF t, n
<1>2. HasAnswer(t, id, types) <=> HasAnswer(q, id, types) \/ HasAnswer(r, id, types)
  BY <1>1 DEF HasAnswer
<1> QED
  BY <1>2 DEF t

LEMMA OneToClient ==
    ASSUME NEW m, NEW id, NEW types
    PROVE  /\ HasAnswer(<<m>>, id, types) <=> m.id = id /\ m.type \in types
           /\ ~HasAnswer(<<>>, id, types)
<1> DEFINE q == <<m>>
<1>1. DOMAIN q = {1} /\ q[1] = m
  OBVIOUS
<1> HIDE DEF q
<1>2. HasAnswer(q, id, types) <=> m.id = id /\ m.type \in types
  BY <1>1 DEF HasAnswer
<1>3. ~HasAnswer(<<>>, id, types)
  BY DEF HasAnswer
<1> QED
  BY <1>2, <1>3 DEF q

LEMMA TailToClient ==
    ASSUME NEW S, NEW q \in Seq(S), q # <<>>, NEW id, NEW types
    PROVE  HasAnswer(q, id, types) <=> \/ Head(q).id = id /\ Head(q).type \in types
                                       \/ HasAnswer(Tail(q), id, types)
<1> DEFINE t == Tail(q)
           h == Head(q)
<1>1. /\ h = q[1] /\ 1 \in DOMAIN q
      /\ \A i \in DOMAIN t : i + 1 \in DOMAIN q /\ t[i] = q[i + 1]
      /\ \A i \in DOMAIN q : i = 1 \/ (i - 1 \in DOMAIN t /\ q[i] = t[i - 1])
  BY TailIs
<1> HIDE DEF t, h
<1>2. ASSUME HasAnswer(q, id, types)
      PROVE  (h.id = id /\ h.type \in types) \/ HasAnswer(t, id, types)
  <2>1. PICK i \in DOMAIN q : q[i].id = id /\ q[i].type \in types
    BY <1>2 DEF HasAnswer
  <2> QED
    BY <1>1, <2>1 DEF HasAnswer
<1>3. ASSUME (h.id = id /\ h.type \in types) \/ HasAnswer(t, id, types)
      PROVE  HasAnswer(q, id, types)
  BY <1>1, <1>3 DEF HasAnswer
<1> QED
  BY <1>2, <1>3 DEF t, h

\* What has no event is in order, and goes on being so behind anything.
LEMMA ConcatInOrder ==
    ASSUME NEW q \in Seq(ToClient), NEW r \in Seq(ToClient), NEW e \in Events,
           NEW last \in Nat, NEW newest \in Nat, NEW newer \in Nat, newest <= newer,
           InOrder(q, e, last, newest), last <= newest,
           \A i \in DOMAIN r : IsFire(r[i], e) => r[i].number = newer /\ newer > newest,
           \A i, j \in DOMAIN r : IsFire(r[i], e) /\ IsFire(r[j], e) => i = j
    PROVE  InOrder(q \o r, e, last, newer)
<1> DEFINE t == q \o r
           n == Len(q)
<1>1. /\ n \in Nat /\ DOMAIN q = 1..n /\ DOMAIN r = 1..Len(r) /\ Len(r) \in Nat
      /\ \A i \in DOMAIN q : i \in DOMAIN t /\ t[i] = q[i]
      /\ \A i \in DOMAIN t : \/ i \in DOMAIN q
                             \/ i - n \in DOMAIN r /\ i > n /\ t[i] = r[i - n]
      /\ DOMAIN t = 1..(n + Len(r))
  BY ConcatIs
<1>2. \A i \in DOMAIN q : IsFire(q[i], e) => q[i].number \in Nat
  <2>1. \A i \in DOMAIN q : q[i] \in ToClient
    OBVIOUS
  <2>2. \A m \in ToClient : IsFire(m, e) => m.number \in Nat
    BY DEF ToClient, IsFire, Message
  <2> QED
    BY <2>1, <2>2
<1> HIDE DEF t, n
<1>3. ASSUME NEW i \in DOMAIN t, IsFire(t[i], e)
      PROVE  t[i].number > last /\ t[i].number <= newer
  BY <1>1, <1>2, <1>3 DEF InOrder
<1>4. ASSUME NEW i \in DOMAIN t, NEW j \in DOMAIN t, IsFire(t[i], e), IsFire(t[j], e), i < j
      PROVE  t[i].number < t[j].number
  <2>1. CASE j \in DOMAIN q
    <3>1. i \in DOMAIN q
      BY <1>1, <1>4, <2>1
    <3> QED
      BY <1>1, <1>4, <2>1, <3>1 DEF InOrder
  <2>2. CASE j - n \in DOMAIN r /\ j > n /\ t[j] = r[j - n]
    <3>1. t[j].number = newer /\ newer > newest
      BY <1>4, <2>2
    <3>2. CASE i \in DOMAIN q
      <4>1. t[i].number <= newest /\ t[i].number \in Nat
        BY <1>1, <1>2, <1>4, <3>2 DEF InOrder
      <4> QED
        BY <3>1, <4>1
    <3>3. CASE i - n \in DOMAIN r /\ t[i] = r[i - n]
      <4>1. i - n = j - n
        BY <1>4, <2>2, <3>3
      <4> QED
        BY <1>1, <1>4, <4>1
    <3> QED
      BY <1>1, <3>2, <3>3
  <2> QED
    BY <1>1, <2>1, <2>2
<1>5. InOrder(t, e, last, newer)
  BY <1>3, <1>4 DEF InOrder
<1> QED
  BY <1>5 DEF t

LEMMA TailInOrder ==
    ASSUME NEW q \in Seq(ToClient), q # <<>>, NEW e \in Events, NEW last, NEW newest,
           InOrder(q, e, last, newest)
    PROVE  /\ InOrder(Tail(q), e, last, newest)
           /\ IsFire(Head(q), e) => /\ Head(q).number <= newest
                                    /\ InOrder(Tail(q), e, Head(q).number, newest)
<1> DEFINE t == Tail(q)
           h == Head(q)
<1>1. /\ h = q[1] /\ 1 \in DOMAIN q /\ DOMAIN q = 1..Len(q) /\ Len(q) \in Nat
      /\ \A i \in DOMAIN t : i + 1 \in DOMAIN q /\ t[i] = q[i + 1]
      /\ DOMAIN t = 1..(Len(q) - 1)
  BY TailIs
<1> HIDE DEF t, h
<1>2. \A i, j \in DOMAIN t : i < j => i + 1 < j + 1
  BY <1>1
<1>3. \A i \in DOMAIN t : 1 < i + 1
  BY <1>1
<1>4. InOrder(t, e, last, newest)
  BY <1>1, <1>2 DEF InOrder
<1>5. ASSUME IsFire(h, e)
      PROVE  h.number <= newest /\ InOrder(t, e, h.number, newest)
  <2>1. h.number <= newest
    BY <1>1, <1>5 DEF InOrder
  <2>2. ASSUME NEW i \in DOMAIN t, IsFire(t[i], e) PROVE t[i].number > h.number
    <3>1. q[1].number < q[i + 1].number
      BY <1>1, <1>3, <1>5, <2>2 DEF InOrder
    <3> QED
      BY <1>1, <2>2, <3>1
  <2> QED
    BY <1>4, <2>1, <2>2 DEF InOrder
<1> QED
  BY <1>4, <1>5 DEF t, h

-----------------------------------------------------------------------------
(* What pends, what starts and what is disposed of at the server.          *)

LEMMA CallsEvents ==
    /\ \A x : ~(x \in Calls /\ x \in Events)
    /\ \A c \in Calls : c \in Requests /\ Request(c) \in ToServer /\ Request(c).id = c
                        /\ IsRequest(Request(c)) /\ Request(c).type = "call"
    /\ \A e \in Events : e \in Requests /\ Request(e) \in ToServer /\ Request(e).id = e
                         /\ IsRequest(Request(e)) /\ Request(e).type = "listen"
<1>1. \A x : ~(x \in Calls /\ x \in Events)
  OBVIOUS
<1> QED
  BY <1>1 DEF Requests, Request, Message, ToServer, IsRequest

\* What goes to the server is a request of a call or an event, or the end of one.
LEMMA ToServerIs ==
    ASSUME NEW m \in ToServer
    PROVE  /\ m.id \in Requests /\ IsRequest(m) \in BOOLEAN
           /\ m.type \in {"call", "listen"} <=> IsRequest(m)
           /\ m.type \in {"cancel", "unlisten"} <=> ~IsRequest(m)
           /\ IsRequest(m) => /\ m.type = "call" <=> m.id \in Calls
                              /\ [type |-> m.type, id |-> m.id, timer |-> TRUE] \in Pending
<1>1. CASE m \in [type : {"call", "cancel"}, id : Calls]
  BY <1>1 DEF IsRequest, Requests, Pending
<1>2. CASE m \in [type : {"listen", "unlisten"}, id : Events]
  BY <1>2 DEF IsRequest, Requests, Pending
<1> QED
  BY <1>1, <1>2 DEF ToServer

LEMMA PendingIs ==
    ASSUME NEW p \in Pending
    PROVE  /\ p.id \in Requests /\ p.timer \in BOOLEAN
           /\ p.type = "call" <=> p.id \in Calls
           /\ [p EXCEPT !.timer = FALSE] \in Pending /\ [p EXCEPT !.timer = FALSE].id = p.id
<1>1. CASE p \in [type : {"call"}, id : Calls, timer : BOOLEAN]
  <2>1. [p EXCEPT !.timer = FALSE] \in [type : {"call"}, id : Calls, timer : BOOLEAN]
    BY <1>1
  <2>2. [p EXCEPT !.timer = FALSE].id = p.id
    BY <1>1
  <2> QED
    BY <1>1, <2>1, <2>2 DEF Requests, Pending
<1>2. CASE p \in [type : {"listen"}, id : Events, timer : BOOLEAN]
  <2>1. [p EXCEPT !.timer = FALSE] \in [type : {"listen"}, id : Events, timer : BOOLEAN]
    BY <1>2
  <2>2. [p EXCEPT !.timer = FALSE].id = p.id
    BY <1>2
  <2>3. p.id \in Events /\ p.id \notin Calls /\ p.timer \in BOOLEAN /\ p.type = "listen"
    BY <1>2, CallsEvents
  <2> QED
    BY <2>1, <2>2, <2>3 DEF Requests, Pending
<1> QED
  BY <1>1, <1>2 DEF Pending

LEMMA PendingKept ==
    ASSUME UNCHANGED pending
    PROVE  \A id : (Pends(id)' <=> Pends(id)) /\ (PendsOnce(id)' <=> PendsOnce(id))
BY DEF Pends, PendsOnce

LEMMA PendingFlushed ==
    ASSUME pending' = <<>>
    PROVE  \A id : ~Pends(id)' /\ PendsOnce(id)'
BY DEF Pends, PendsOnce

LEMMA PendingAdded ==
    ASSUME NEW S, pending \in Seq(S), NEW p \in S, pending' = Append(pending, p), NEW id
    PROVE  /\ Pends(id)' <=> Pends(id) \/ p.id = id
           /\ PendsOnce(id) /\ (p.id # id \/ ~Pends(id)) => PendsOnce(id)'
<1>1. /\ DOMAIN pending = 1..Len(pending) /\ DOMAIN pending' = 1..(Len(pending) + 1)
      /\ Len(pending) \in Nat
      /\ \A i \in DOMAIN pending : pending'[i] = pending[i]
      /\ pending'[Len(pending) + 1] = p
      /\ \A i \in DOMAIN pending' : i \in DOMAIN pending \/ i = Len(pending) + 1
  BY AppendIs
<1>2. Pends(id)' <=> Pends(id) \/ p.id = id
  BY <1>1 DEF Pends
<1>3. PendsOnce(id) /\ (p.id # id \/ ~Pends(id)) => PendsOnce(id)'
  BY <1>1 DEF Pends, PendsOnce
<1> QED
  BY <1>2, <1>3

LEMMA PendingElapsed ==
    ASSUME pending \in Seq(Pending), NEW i \in DOMAIN pending,
           pending' = [pending EXCEPT ![i].timer = FALSE]
    PROVE  /\ pending' \in Seq(Pending)
           /\ \A id : (Pends(id)' <=> Pends(id)) /\ (PendsOnce(id)' <=> PendsOnce(id))
<1> DEFINE p == [pending[i] EXCEPT !.timer = FALSE]
<1>1. p \in Pending /\ p.id = pending[i].id
  BY PendingIs
<1>2. pending' = [pending EXCEPT ![i] = p]
  OBVIOUS
<1> HIDE DEF p
<1>3. pending' \in Seq(Pending) /\ DOMAIN pending' = DOMAIN pending
  <2>1. pending \in [1..Len(pending) -> Pending] /\ Len(pending) \in Nat
    OBVIOUS
  <2>2. pending' \in [1..Len(pending) -> Pending]
    BY <1>1, <1>2, <2>1
  <2> QED
    BY <2>1, <2>2
<1>4. \A j \in DOMAIN pending : pending'[j].id = pending[j].id
  BY <1>1, <1>2
<1> QED
  BY <1>3, <1>4 DEF Pends, PendsOnce

Names(requests, id) == \E i \in DOMAIN requests : requests[i].id = id

\* Every call that is named starts, once or more often, and every event has
\* a listener for each time that it is named.
LEMMA StartIs ==
    ASSUME NEW S, NEW requests \in Seq(S), Start(requests), ServerTypeOK,
           \A i \in DOMAIN requests : /\ requests[i].id \in Requests
                                      /\ requests[i].type = "call" <=> requests[i].id \in Calls
    PROVE  /\ token' \in [Calls -> {"none", "running", "cancelled"}] /\ runs' \in [Calls -> Nat]
           /\ active' \subseteq Requests /\ subscribed' \in [Events -> Nat]
           /\ \A c \in Calls :
                /\ token'[c] = IF Names(requests, c) THEN "running" ELSE token[c]
                /\ runs'[c] = IF Names(requests, c) THEN runs[c] + 1 ELSE runs[c]
           /\ \A id : id \in active' <=> id \in active \/ Names(requests, id)
           /\ \A e \in Events :
                /\ ~Names(requests, e) => subscribed'[e] = subscribed[e]
                /\ Names(requests, e) => subscribed'[e] > 0
                /\ Names(requests, e) /\ (\A i, j \in DOMAIN requests :
                        requests[i].id = e /\ requests[j].id = e => i = j) =>
                    subscribed'[e] = subscribed[e] + 1
<1> DEFINE calls == {r.id : r \in {r \in Range(requests) : r.type = "call"}}
           at(e) == {i \in DOMAIN requests : requests[i].id = e}
           times(e) == Cardinality(at(e))
<1>1. /\ token' = [c \in Calls |-> IF c \in calls THEN "running" ELSE token[c]]
      /\ runs' = [c \in Calls |-> IF c \in calls THEN runs[c] + 1 ELSE runs[c]]
      /\ subscribed' = [e \in Events |-> subscribed[e] + times(e)]
      /\ active' = active \cup {r.id : r \in Range(requests)}
  BY DEF Start
<1>2. ASSUME NEW c \in Calls PROVE c \in calls <=> Names(requests, c)
  BY DEF Range, Names
<1>3. \A id : id \in {r.id : r \in Range(requests)} <=> Names(requests, id)
  BY DEF Range, Names
<1>4. ASSUME NEW e
      PROVE  /\ times(e) \in Nat /\ (~Names(requests, e) => times(e) = 0)
             /\ Names(requests, e) => times(e) > 0
             /\ Names(requests, e) /\ (\A i, j \in DOMAIN requests :
                    requests[i].id = e /\ requests[j].id = e => i = j) => times(e) = 1
  <2>1. IsFiniteSet(DOMAIN requests)
    <3>1. DOMAIN requests = 1..Len(requests) /\ Len(requests) \in Nat
      OBVIOUS
    <3> QED
      BY <3>1, FS_Interval
  <2>2. IsFiniteSet(at(e))
    <3>1. at(e) \subseteq DOMAIN requests
      OBVIOUS
    <3> QED
      BY <2>1, <3>1, FS_Subset
  <2>3. times(e) \in Nat /\ (times(e) = 0 <=> at(e) = {})
    BY <2>2, FS_CardinalityType, FS_EmptySet
  <2>4. at(e) = {} <=> ~Names(requests, e)
    BY DEF Names
  <2>5. ASSUME Names(requests, e), \A i, j \in DOMAIN requests :
                    requests[i].id = e /\ requests[j].id = e => i = j
        PROVE  times(e) = 1
    <3>1. PICK i \in DOMAIN requests : requests[i].id = e
      BY <2>5 DEF Names
    <3>2. at(e) = {i}
      BY <2>5, <3>1
    <3> QED
      BY <3>2, FS_Singleton
  <2> QED
    BY <2>3, <2>4, <2>5
<1> HIDE DEF calls, times
<1>5. \A c \in Calls : /\ token'[c] = IF Names(requests, c) THEN "running" ELSE token[c]
                       /\ runs'[c] = IF Names(requests, c) THEN runs[c] + 1 ELSE runs[c]
  BY <1>1, <1>2
<1>6. token' \in [Calls -> {"none", "running", "cancelled"}] /\ runs' \in [Calls -> Nat]
  BY <1>1 DEF ServerTypeOK
<1>7. \A e \in Events : subscribed'[e] = subscribed[e] + times(e) /\ subscribed[e] \in Nat
  BY <1>1 DEF ServerTypeOK
<1>8. subscribed' \in [Events -> Nat]
  <2>1. \A e \in Events : subscribed[e] + times(e) \in Nat
    BY <1>4, <1>7
  <2> QED
    BY <1>1, <2>1
<1>9. active' \subseteq Requests
  BY <1>1 DEF ServerTypeOK, Range
<1>10. \A id : id \in active' <=> id \in active \/ Names(requests, id)
  BY <1>1, <1>3
<1>11. ASSUME NEW e \in Events
       PROVE  /\ ~Names(requests, e) => subscribed'[e] = subscribed[e]
              /\ Names(requests, e) => subscribed'[e] > 0
              /\ Names(requests, e) /\ (\A i, j \in DOMAIN requests :
                     requests[i].id = e /\ requests[j].id = e => i = j) =>
                 subscribed'[e] = subscribed[e] + 1
  BY <1>4, <1>7
<1> QED
  BY <1>5, <1>6, <1>8, <1>9, <1>10, <1>11

\* A token that ran is cancelled, and a listener is taken away.
LEMMA DisposeActiveIs ==
    ASSUME NEW ids, DisposeActive(ids), ServerTypeOK, \A e \in Events : EventKept(e)
    PROVE  /\ token' \in [Calls -> {"none", "running", "cancelled"}]
           /\ active' \subseteq Requests /\ subscribed' \in [Events -> Nat]
           /\ \A c \in Calls : token'[c] = IF c \in ids /\ c \in active THEN "cancelled" ELSE token[c]
           /\ \A id : id \in active' <=> id \in active /\ id \notin ids
           /\ \A e \in Events : subscribed'[e] = IF e \in ids /\ e \in active
                                                 THEN subscribed[e] - 1 ELSE subscribed[e]
<1>1. /\ token' = [c \in Calls |-> IF c \in ids \cap active THEN "cancelled" ELSE token[c]]
      /\ subscribed' = [e \in Events |-> IF e \in ids \cap active THEN subscribed[e] - 1
                                         ELSE subscribed[e]]
      /\ active' = active \ ids
  BY DEF DisposeActive
<1>2. \A e \in Events : (e \in active => subscribed[e] > 0) /\ subscribed[e] \in Nat
  BY DEF EventKept, ServerTypeOK
<1>3. \A e \in Events : (IF e \in ids \cap active THEN subscribed[e] - 1 ELSE subscribed[e]) \in Nat
  BY <1>2
<1>4. subscribed' \in [Events -> Nat]
  BY <1>1, <1>3
<1>5. token' \in [Calls -> {"none", "running", "cancelled"}] /\ active' \subseteq Requests
  BY <1>1 DEF ServerTypeOK
<1> QED
  BY <1>1, <1>4, <1>5

-----------------------------------------------------------------------------
(* What the client asks and what it gives up.                              *)

LEMMA OneAlternatesIs ==
    ASSUME NEW m, NEW e, NEW has \in BOOLEAN, IsRequest(m) \in BOOLEAN
    PROVE  /\ m.id # e => Alternate(<<m>>, e, has, has)
           /\ m.id = e => Alternate(<<m>>, e, ~IsRequest(m), IsRequest(m))
<1> DEFINE q == <<m>>
<1>1. q \in Seq({m}) /\ DOMAIN q = {1} /\ q[1] = m
  OBVIOUS
<1> HIDE DEF q
<1>2. m.id # e => Alternate(q, e, has, has)
  BY <1>1, OthersAlternate
<1>3. ASSUME m.id = e PROVE Alternate(q, e, ~IsRequest(q[1]), IsRequest(q[1]))
  <2>1. 1 \in DOMAIN q /\ q[1].id = e /\ (\A i \in DOMAIN q : q[i].id = e => i = 1)
        /\ IsRequest(q[1]) \in BOOLEAN
    BY <1>1, <1>3
  <2> QED
    BY ONLY <1>1, <2>1, OneAlternates
<1> QED
  BY <1>1, <1>2, <1>3 DEF q

\* A request that goes out, or waits for Initialize.
LEMMA AskIs ==
    ASSUME unsent \in Seq(Requests), toServer \in Seq(ToServer), client.initialized \in BOOLEAN,
           NEW x \in Requests, Ask(x), client.initialized => unsent = <<>>
    PROVE  /\ unsent' \in Seq(Requests) /\ toServer' \in Seq(ToServer)
           /\ client.initialized => unsent' = <<>>
           /\ \A id \in Requests :
                /\ Unsent(id)' <=> Unsent(id) \/ (id = x /\ ~client.initialized)
                /\ Once(unsent, id) /\ (id # x \/ ~Unsent(id)) => Once(unsent', id)
                /\ Sent(id)' <=> Sent(id) \/ (id = x /\ client.initialized)
                /\ HasEnd(toServer', id) <=> HasEnd(toServer, id)
                /\ RequestedOnce(toServer, id) /\ (id # x \/ ~Sent(id)) => RequestedOnce(toServer', id)
                /\ RequestEnds(toServer, id) /\ (id # x \/ ~client.initialized) =>
                       RequestEnds(toServer', id)
           /\ \A e \in Events, has \in BOOLEAN, wants \in BOOLEAN :
                Alternate(toServer, e, has, wants) =>
                    /\ e # x \/ ~client.initialized => Alternate(toServer', e, has, wants)
                    /\ e = x /\ client.initialized /\ ~wants => Alternate(toServer', e, has, TRUE)
<1>1. CASE ~client.initialized
  <2>1. unsent' = Append(unsent, x) /\ UNCHANGED toServer
    BY <1>1 DEF Ask
  <2>2. unsent' \in Seq(Requests)
    BY <2>1
  <2>3. /\ \A id : Contains(unsent', id) <=> Contains(unsent, id) \/ id = x
        /\ \A id : Once(unsent, id) /\ (id # x \/ ~Contains(unsent, id)) => Once(unsent', id)
    BY <2>1, AppendContains
  <2> QED
    BY <1>1, <2>1, <2>2, <2>3 DEF Unsent, Sent
<1>2. CASE client.initialized
  <2> DEFINE m == Request(x)
             r == <<m>>
  <2>1. toServer' = toServer \o r /\ UNCHANGED unsent
    BY <1>2 DEF Ask, Send
  <2>2. m \in ToServer /\ m.id = x /\ IsRequest(m) = TRUE
    BY CallsEvents DEF Requests, IsRequest
  <2> HIDE DEF m
  <2>3. r \in Seq(ToServer)
    BY <2>2
  <2>4. \A id : /\ HasRequest(r, id) <=> id = x
                /\ ~HasEnd(r, id) /\ RequestedOnce(r, id)
                /\ id # x => RequestEnds(r, id)
    BY <2>2, OneToServer
  <2>5. \A e : \A has \in BOOLEAN : e # x => Alternate(r, e, has, has)
    BY <2>2, OneAlternatesIs
  <2>6. Alternate(r, x, FALSE, TRUE)
    BY <2>2, OneAlternatesIs
  <2> HIDE DEF r
  <2>7. toServer' \in Seq(ToServer)
    BY <2>1, <2>3
  <2>8. ASSUME NEW id \in Requests
        PROVE  /\ Sent(id)' <=> Sent(id) \/ id = x
               /\ HasEnd(toServer', id) <=> HasEnd(toServer, id)
               /\ RequestedOnce(toServer, id) /\ (id # x \/ ~Sent(id)) => RequestedOnce(toServer', id)
               /\ RequestEnds(toServer, id) /\ id # x => RequestEnds(toServer', id)
    BY <2>1, <2>3, <2>4, ConcatToServer DEF Sent
  <2>9. ASSUME NEW e \in Events, NEW has \in BOOLEAN, NEW wants \in BOOLEAN,
               Alternate(toServer, e, has, wants)
        PROVE  /\ e # x => Alternate(toServer', e, has, wants)
               /\ e = x /\ ~wants => Alternate(toServer', e, has, TRUE)
    <3>1. ASSUME e # x PROVE Alternate(toServer \o r, e, has, wants)
      <4>1. Alternate(r, e, wants, wants)
        BY <2>5, <3>1
      <4> QED
        BY ONLY <2>3, <2>9, <4>1, ConcatAlternates, toServer \in Seq(ToServer)
    <3>2. ASSUME e = x, ~wants PROVE Alternate(toServer \o r, e, has, TRUE)
      <4>1. Alternate(r, e, wants, TRUE)
        BY <2>6, <3>2
      <4> QED
        BY ONLY <2>3, <2>9, <4>1, ConcatAlternates, toServer \in Seq(ToServer)
    <3> QED
      BY <2>1, <3>1, <3>2
  <2> QED
    BY <1>2, <2>1, <2>7, <2>8, <2>9 DEF Unsent
<1> QED
  BY <1>1, <1>2

\* A request that is given up: it does not go out, or its end does.
LEMMA GiveUpIs ==
    ASSUME unsent \in Seq(Requests), toServer \in Seq(ToServer), NEW x \in Requests, Once(unsent, x),
           NEW type, Message(type, x) \in ToServer, ~IsRequest(Message(type, x)),
           unsent' = Without(unsent, x),
           Send(IF Contains(unsent, x) THEN <<>> ELSE <<Message(type, x)>>)
    PROVE  /\ unsent' \in Seq(Requests) /\ toServer' \in Seq(ToServer)
           /\ unsent = <<>> => unsent' = <<>>
           /\ \A id : /\ Unsent(id)' <=> Unsent(id) /\ id # x
                      /\ Once(unsent, id) => Once(unsent', id)
           /\ \A id \in Requests :
                /\ Sent(id)' <=> Sent(id)
                /\ HasEnd(toServer', id) <=> HasEnd(toServer, id) \/ (id = x /\ ~Unsent(x))
                /\ RequestedOnce(toServer, id) => RequestedOnce(toServer', id)
                /\ RequestEnds(toServer, id) \/ (id = x /\ ~Unsent(x)) => RequestEnds(toServer', id)
           /\ \A e \in Events, has \in BOOLEAN, wants \in BOOLEAN :
                Alternate(toServer, e, has, wants) =>
                    /\ e # x \/ Unsent(x) => Alternate(toServer', e, has, wants)
                    /\ e = x /\ ~Unsent(x) /\ wants => Alternate(toServer', e, has, FALSE)
<1>1. /\ unsent' \in Seq(Requests)
      /\ \A id : Contains(unsent', id) <=> Contains(unsent, id) /\ id # x
      /\ \A id : Once(unsent, id) => Once(unsent', id)
      /\ unsent = <<>> => unsent' = <<>>
  BY WithoutIs
<1>2. CASE Unsent(x)
  <2>1. toServer' = toServer \o <<>>
    BY <1>2 DEF Send, Unsent
  <2>2. toServer' = toServer
    BY <2>1
  <2> QED
    BY <1>1, <1>2, <2>2 DEF Unsent, Sent
<1>3. CASE ~Unsent(x)
  <2> DEFINE m == Message(type, x)
             r == <<m>>
  <2>1. toServer' = toServer \o r
    BY <1>3 DEF Send, Unsent
  <2>2. m \in ToServer /\ m.id = x /\ IsRequest(m) = FALSE
    BY DEF Message, IsRequest
  <2> HIDE DEF m
  <2>3. r \in Seq(ToServer)
    BY <2>2
  <2>4. \A id : /\ ~HasRequest(r, id)
                /\ HasEnd(r, id) <=> id = x
                /\ RequestedOnce(r, id) /\ RequestEnds(r, id)
    BY <2>2, OneToServer
  <2>5. \A e : \A has \in BOOLEAN : e # x => Alternate(r, e, has, has)
    BY <2>2, OneAlternatesIs
  <2>6. Alternate(r, x, TRUE, FALSE)
    BY <2>2, OneAlternatesIs
  <2> HIDE DEF r
  <2>7. toServer' \in Seq(ToServer)
    BY <2>1, <2>3
  <2>8. ASSUME NEW id \in Requests
        PROVE  /\ Sent(id)' <=> Sent(id)
               /\ HasEnd(toServer', id) <=> HasEnd(toServer, id) \/ id = x
               /\ RequestedOnce(toServer, id) => RequestedOnce(toServer', id)
               /\ RequestEnds(toServer, id) \/ id = x => RequestEnds(toServer', id)
    BY <2>1, <2>3, <2>4, ConcatToServer DEF Sent
  <2>9. ASSUME NEW e \in Events, NEW has \in BOOLEAN, NEW wants \in BOOLEAN,
               Alternate(toServer, e, has, wants)
        PROVE  /\ e # x => Alternate(toServer', e, has, wants)
               /\ e = x /\ wants => Alternate(toServer', e, has, FALSE)
    <3>1. ASSUME e # x PROVE Alternate(toServer \o r, e, has, wants)
      <4>1. Alternate(r, e, wants, wants)
        BY <2>5, <3>1
      <4> QED
        BY ONLY <2>3, <2>9, <4>1, ConcatAlternates, toServer \in Seq(ToServer)
    <3>2. ASSUME e = x, wants PROVE Alternate(toServer \o r, e, has, FALSE)
      <4>1. Alternate(r, e, wants, FALSE)
        BY <2>6, <3>2
      <4> QED
        BY ONLY <2>3, <2>9, <4>1, ConcatAlternates, toServer \in Seq(ToServer)
    <3> QED
      BY <2>1, <3>1, <3>2
  <2> QED
    BY <1>1, <1>3, <2>7, <2>8, <2>9 DEF Unsent
<1> QED
  BY <1>2, <1>3

-----------------------------------------------------------------------------
(* What a step has to keep of a call and of an event.                      *)

CallOK(c) == OnePlace(c) /\ AnsweredHasRun(c) /\ CancelFollows(c) /\ HandledUntilAnswered(c)
EventOK(e) == ListenedOnce(e) /\ FiredInOrder(e)

LEMMA IInvIs ==
    IInv <=> /\ TypeOK
             /\ \A c \in Calls : CallOK(c)
             /\ \A e \in Events : EventKept(e)
             /\ \A e \in Events : e \in history.crossed \/ EventOK(e)
BY DEF IInv, CallOK, EventOK

LEMMA IInvKept ==
    ASSUME TypeOK', \A c \in Calls : CallOK(c)', \A e \in Events : EventKept(e)',
           \A e \in Events : e \in history'.crossed \/ EventOK(e)'
    PROVE  IInv'
BY DEF IInv, CallOK, EventOK

LEMMA InputIs ==
    ASSUME Input, TypeOK
    PROVE  /\ history' \in [crossed : SUBSET Requests, lost : SUBSET Calls, inputs : Nat]
           /\ history'.crossed = history.crossed /\ history'.lost = history.lost
<1> DEFINE n == history.inputs + 1
<1>1. history' = [history EXCEPT !.inputs = n]
  BY DEF Input
<1>2. history \in [crossed : SUBSET Requests, lost : SUBSET Calls, inputs : Nat] /\ n \in Nat
  BY DEF TypeOK
<1> HIDE DEF n
<1> QED
  BY <1>1, <1>2

LEMMA ListenedOnceIs ==
    ASSUME NEW e \in Events
    PROVE  ListenedOnce(e) <=>
             /\ subscribed[e] = IF e \in active THEN 1 ELSE 0
             /\ PendsOnce(e) /\ (Pends(e) => e \notin active)
             /\ ~server.disposed =>
                    Alternate(toServer, e, Pends(e) \/ e \in active, e \in listening /\ ~Unsent(e))
BY DEF ListenedOnce, Has, Wants

\* An event of which nothing changes but what is under way about others.
LEMMA EventUnaffected ==
    ASSUME NEW e \in Events, EventOK(e),
           subscribed'[e] = subscribed[e], e \in active' <=> e \in active,
           Pends(e)' <=> Pends(e), PendsOnce(e)' <=> PendsOnce(e), server.disposed => server'.disposed,
           \A has \in BOOLEAN, wants \in BOOLEAN :
               Alternate(toServer, e, has, wants) => Alternate(toServer', e, has, wants),
           e \in listening' /\ ~Unsent(e)' <=> e \in listening /\ ~Unsent(e),
           FiredInOrder(e)'
    PROVE  EventOK(e)'
<1>1. ListenedOnce(e)'
  <2>1. (Pends(e)' \/ e \in active') = (Pends(e) \/ e \in active)
    OBVIOUS
  <2>2. (e \in listening' /\ ~Unsent(e)') = (e \in listening /\ ~Unsent(e))
    OBVIOUS
  <2>3. ASSUME ~server'.disposed
        PROVE  Alternate(toServer', e, Pends(e)' \/ e \in active', e \in listening' /\ ~Unsent(e)')
    <3>1. Alternate(toServer, e, Pends(e) \/ e \in active, e \in listening /\ ~Unsent(e))
      BY <2>3, ListenedOnceIs DEF EventOK
    <3> DEFINE has == Pends(e) \/ e \in active
               wants == e \in listening /\ ~Unsent(e)
    <3>2. has \in BOOLEAN /\ wants \in BOOLEAN
      OBVIOUS
    <3> HIDE DEF has, wants
    <3>3. Alternate(toServer', e, has, wants)
      BY <3>1, <3>2 DEF has, wants
    <3> QED
      BY <2>1, <2>2, <3>3 DEF has, wants
  <2> QED
    BY <2>3, ListenedOnceIs DEF EventOK, ListenedOnce, Has, Wants
<1> QED
  BY <1>1 DEF EventOK

LEMMA FiredKept ==
    ASSUME NEW e \in Events, FiredInOrder(e), heard'[e] = heard[e],
           UNCHANGED <<fired, toClient>>
    PROVE  FiredInOrder(e)'
BY DEF FiredInOrder

-----------------------------------------------------------------------------
(* The steps of the client.                                                *)

LEMMA CallStep ==
    ASSUME IInv, NEW a \in Calls, Call(a)
    PROVE  IInv'
<1>1. /\ TypeOK /\ \A c \in Calls : CallOK(c)
      /\ \A e \in Events : EventKept(e)
      /\ \A e \in Events : e \in history.crossed \/ EventOK(e)
  BY IInvIs
<1>2. /\ history' \in [crossed : SUBSET Requests, lost : SUBSET Calls, inputs : Nat]
      /\ history'.crossed = history.crossed /\ history'.lost = history.lost
  BY <1>1, InputIs DEF Call
<1>3. /\ UNCHANGED <<client, listening, heard, serverVars, toClient>>
      /\ outcome[a] = "none" /\ a \in Requests /\ a \notin Events
  BY CallsEvents DEF Call
<1>4. \A id : (Pends(id)' <=> Pends(id)) /\ (PendsOnce(id)' <=> PendsOnce(id))
  BY <1>3, PendingKept DEF serverVars
<1>5. ~Unsent(a) /\ ~Sent(a) /\ ~Pends(a) /\ runs[a] = 0 /\ token[a] = "none" /\ a \notin active
  BY <1>1, <1>3 DEF CallOK, OnePlace, AnsweredHasRun, TypeOK, ServerTypeOK
<1>6. \A e \in Events : FiredInOrder(e) => FiredInOrder(e)'
  BY <1>3, FiredKept DEF serverVars
<1>7. CASE client.disposed
  <2>1. /\ outcome' = [outcome EXCEPT ![a] = "cancelled"]
        /\ UNCHANGED <<unsent, handlers, toServer>>
    BY <1>7 DEF Call
  <2>2. TypeOK'
    BY <1>1, <1>2, <1>3, <2>1 DEF TypeOK, ClientTypeOK, ServerTypeOK, Outcomes, serverVars
  <2>3. \A id : (Unsent(id)' <=> Unsent(id)) /\ (Sent(id)' <=> Sent(id))
    BY <2>1 DEF Unsent, Sent
  <2>4. /\ outcome'[a] = "cancelled" /\ \A c \in Calls : c # a => outcome'[c] = outcome[c]
        /\ RequestEnds(toServer, a)
    BY <1>1, <1>5, <2>1, NoRequestEnds DEF TypeOK, ClientTypeOK, Sent
  <2>5. ASSUME NEW c \in Calls PROVE CallOK(c)'
    <3>1. CallOK(c)
      BY <1>1
    <3>2. OnePlace(c)'
      BY <1>3, <1>4, <2>1, <2>3, <2>4, <3>1 DEF CallOK, OnePlace, serverVars
    <3>3. AnsweredHasRun(c)'
      BY <1>3, <3>1 DEF CallOK, AnsweredHasRun, serverVars
    <3>4. CancelFollows(c)'
      BY <1>2, <1>3, <1>4, <1>5, <2>1, <2>3, <2>4, <3>1 DEF CallOK, CancelFollows, serverVars
    <3>5. HandledUntilAnswered(c)'
      BY <1>2, <1>3, <1>4, <2>1, <2>3, <3>1 DEF CallOK, HandledUntilAnswered, serverVars
    <3> QED
      BY <3>2, <3>3, <3>4, <3>5 DEF CallOK
  <2>6. ASSUME NEW e \in Events PROVE EventKept(e)'
    BY <1>1, <1>3, <2>1, <2>3, <2>6 DEF EventKept, serverVars
  <2>7. ASSUME NEW e \in Events, EventOK(e) PROVE EventOK(e)'
    BY <1>3, <1>4, <1>6, <2>1, <2>3, <2>7, EventUnaffected DEF EventOK, serverVars
  <2> QED
    BY <1>1, <1>2, <2>2, <2>5, <2>6, <2>7, IInvKept
<1>8. CASE ~client.disposed
  <2>1. /\ outcome' = [outcome EXCEPT ![a] = "pending"]
        /\ handlers' = IF client.initialized THEN handlers \cup {a} ELSE handlers
        /\ Ask(a)
    BY <1>8 DEF Call
  <2>2. /\ unsent' \in Seq(Requests) /\ toServer' \in Seq(ToServer)
        /\ client.initialized => unsent' = <<>>
        /\ \A id \in Requests :
             /\ Unsent(id)' <=> Unsent(id) \/ (id = a /\ ~client.initialized)
             /\ Once(unsent, id) /\ (id # a \/ ~Unsent(id)) => Once(unsent', id)
             /\ Sent(id)' <=> Sent(id) \/ (id = a /\ client.initialized)
             /\ HasEnd(toServer', id) <=> HasEnd(toServer, id)
             /\ RequestedOnce(toServer, id) /\ (id # a \/ ~Sent(id)) => RequestedOnce(toServer', id)
             /\ RequestEnds(toServer, id) /\ (id # a \/ ~client.initialized) =>
                    RequestEnds(toServer', id)
        /\ \A e \in Events, has \in BOOLEAN, wants \in BOOLEAN :
             Alternate(toServer, e, has, wants) =>
                 /\ e # a \/ ~client.initialized => Alternate(toServer', e, has, wants)
    <3>1. /\ unsent \in Seq(Requests) /\ toServer \in Seq(ToServer) /\ client.initialized \in BOOLEAN
          /\ client.initialized => unsent = <<>>
      BY <1>1 DEF TypeOK, ClientTypeOK
    <3> QED
      BY ONLY <1>3, <2>1, <3>1, AskIs
  <2>3. TypeOK'
    <3>1. outcome' \in [Calls -> Outcomes] /\ handlers' \subseteq Requests
      BY <1>1, <1>3, <2>1 DEF TypeOK, ClientTypeOK, Outcomes
    <3> QED
      BY <1>1, <1>2, <1>3, <2>2, <3>1 DEF TypeOK, ClientTypeOK, ServerTypeOK, serverVars
  <2>4. outcome'[a] = "pending" /\ \A c \in Calls : c # a => outcome'[c] = outcome[c]
    BY <1>1, <2>1 DEF TypeOK, ClientTypeOK
  <2>5. ASSUME NEW c \in Calls PROVE CallOK(c)'
    <3>1. CallOK(c) /\ c \in Requests
      BY <1>1, CallsEvents
    <3>2. OnePlace(c)'
      BY <1>3, <1>4, <1>5, <2>2, <2>4, <3>1 DEF CallOK, OnePlace, serverVars
    <3>3. AnsweredHasRun(c)'
      BY <1>3, <3>1 DEF CallOK, AnsweredHasRun, serverVars
    <3>4. CancelFollows(c)'
      BY <1>2, <1>3, <1>4, <1>5, <2>2, <2>4, <3>1 DEF CallOK, CancelFollows, serverVars
    <3>5. HandledUntilAnswered(c)'
      BY <1>2, <1>3, <1>4, <2>1, <2>2, <3>1 DEF CallOK, HandledUntilAnswered, serverVars
    <3> QED
      BY <3>2, <3>3, <3>4, <3>5 DEF CallOK
  <2>6. ASSUME NEW e \in Events PROVE EventKept(e)'
    <3>1. e \in Requests /\ e # a
      BY <1>3, CallsEvents
    <3> QED
      BY <1>1, <1>3, <2>1, <2>2, <2>6, <3>1 DEF EventKept, serverVars
  <2>7. ASSUME NEW e \in Events, EventOK(e) PROVE EventOK(e)'
    <3>1. e \in Requests /\ e # a
      BY <1>3, CallsEvents
    <3>2. \A has \in BOOLEAN, wants \in BOOLEAN :
            Alternate(toServer, e, has, wants) => Alternate(toServer', e, has, wants)
      BY <2>2, <3>1
    <3>3. Unsent(e)' <=> Unsent(e)
      BY <2>2, <3>1
    <3> QED
      BY <1>3, <1>4, <1>6, <2>7, <3>2, <3>3, EventUnaffected DEF EventOK, serverVars
  <2> QED
    BY <1>1, <1>2, <2>3, <2>5, <2>6, <2>7, IInvKept
<1> QED
  BY <1>7, <1>8

LEMMA CancelStep ==
    ASSUME IInv, NEW a \in Calls, Cancel(a)
    PROVE  IInv'
<1>1. /\ TypeOK /\ \A c \in Calls : CallOK(c)
      /\ \A e \in Events : EventKept(e)
      /\ \A e \in Events : e \in history.crossed \/ EventOK(e)
  BY IInvIs
<1>2. /\ history' \in [crossed : SUBSET Requests, lost : SUBSET Calls, inputs : Nat]
      /\ history'.crossed = history.crossed /\ history'.lost = history.lost
  BY <1>1, InputIs DEF Cancel
<1>3. /\ UNCHANGED <<client, handlers, listening, heard, serverVars, toClient>>
      /\ outcome[a] = "pending" /\ a \in Requests /\ a \notin Events
      /\ outcome' = [outcome EXCEPT ![a] = "cancelled"]
      /\ unsent' = Without(unsent, a)
      /\ Send(IF Contains(unsent, a) THEN <<>> ELSE <<Message("cancel", a)>>)
  BY CallsEvents DEF Cancel
<1>4. \A id : (Pends(id)' <=> Pends(id)) /\ (PendsOnce(id)' <=> PendsOnce(id))
  BY <1>3, PendingKept DEF serverVars
<1>5. Message("cancel", a) \in ToServer /\ ~IsRequest(Message("cancel", a))
  BY DEF Message, ToServer, IsRequest
<1>6. Once(unsent, a)
  BY <1>1 DEF CallOK, OnePlace
<1>7. /\ unsent' \in Seq(Requests) /\ toServer' \in Seq(ToServer)
      /\ unsent = <<>> => unsent' = <<>>
      /\ \A id : /\ Unsent(id)' <=> Unsent(id) /\ id # a
                 /\ Once(unsent, id) => Once(unsent', id)
      /\ \A id \in Requests :
           /\ Sent(id)' <=> Sent(id)
           /\ HasEnd(toServer', id) <=> HasEnd(toServer, id) \/ (id = a /\ ~Unsent(a))
           /\ RequestedOnce(toServer, id) => RequestedOnce(toServer', id)
           /\ RequestEnds(toServer, id) \/ (id = a /\ ~Unsent(a)) => RequestEnds(toServer', id)
      /\ \A e \in Events, has \in BOOLEAN, wants \in BOOLEAN :
           Alternate(toServer, e, has, wants) =>
               /\ e # a \/ Unsent(a) => Alternate(toServer', e, has, wants)
  <2>1. unsent \in Seq(Requests) /\ toServer \in Seq(ToServer)
    BY <1>1 DEF TypeOK, ClientTypeOK
  <2> QED
    BY ONLY <1>3, <1>5, <1>6, <2>1, GiveUpIs
<1>8. TypeOK'
  <2>1. outcome' \in [Calls -> Outcomes]
    BY <1>1, <1>3 DEF TypeOK, ClientTypeOK, Outcomes
  <2> QED
    BY <1>1, <1>2, <1>3, <1>7, <2>1 DEF TypeOK, ClientTypeOK, ServerTypeOK, serverVars
<1>9. outcome'[a] = "cancelled" /\ \A c \in Calls : c # a => outcome'[c] = outcome[c]
  BY <1>1, <1>3 DEF TypeOK, ClientTypeOK
<1>10. Unsent(a) => RequestEnds(toServer, a)
  BY <1>1, NoRequestEnds DEF CallOK, OnePlace, Sent
<1>11. ASSUME NEW c \in Calls PROVE CallOK(c)'
  <2>1. CallOK(c) /\ c \in Requests
    BY <1>1, CallsEvents
  <2>2. OnePlace(c)'
    BY <1>3, <1>4, <1>7, <1>9, <2>1 DEF CallOK, OnePlace, serverVars
  <2>3. AnsweredHasRun(c)'
    BY <1>3, <2>1 DEF CallOK, AnsweredHasRun, serverVars
  <2>4. CancelFollows(c)'
    <3>1. CASE c # a
      BY <1>2, <1>3, <1>4, <1>7, <1>9, <2>1, <3>1 DEF CallOK, CancelFollows, serverVars
    <3>2. CASE c = a
      <4>1. RequestEnds(toServer', a) /\ ~Unsent(a)'
        BY <1>3, <1>7, <1>10
      <4>2. Pends(a) \/ token[a] = "running" => ~Unsent(a)
        BY <1>1 DEF CallOK, OnePlace, AnsweredHasRun
      <4>3. Pends(a)' \/ token'[a] = "running" => HasEnd(toServer', a)
        BY <1>3, <1>4, <1>7, <4>2 DEF serverVars
      <4> QED
        BY <3>2, <4>1, <4>3 DEF CancelFollows
    <3> QED
      BY <3>1, <3>2
  <2>5. HandledUntilAnswered(c)'
    BY <1>2, <1>3, <1>4, <1>7, <2>1 DEF CallOK, HandledUntilAnswered, serverVars
  <2> QED
    BY <2>2, <2>3, <2>4, <2>5 DEF CallOK
<1>12. ASSUME NEW e \in Events PROVE EventKept(e)'
  BY <1>1, <1>3, <1>7, <1>12 DEF EventKept, serverVars
<1>13. ASSUME NEW e \in Events, EventOK(e) PROVE EventOK(e)'
  <2>1. \A has \in BOOLEAN, wants \in BOOLEAN :
          Alternate(toServer, e, has, wants) => Alternate(toServer', e, has, wants)
    BY <1>3, <1>7
  <2>2. Unsent(e)' <=> Unsent(e)
    BY <1>3, <1>7
  <2>3. FiredInOrder(e)'
    BY <1>3, <1>13, FiredKept DEF EventOK, serverVars
  <2> QED
    BY <1>3, <1>4, <1>13, <2>1, <2>2, <2>3, EventUnaffected DEF serverVars
<1> QED
  BY <1>1, <1>2, <1>8, <1>11, <1>12, <1>13, IInvKept

\* An event that the client now wants, or no longer does.
LEMMA WantsChange ==
    ASSUME NEW e \in Events, EventOK(e), UNCHANGED serverVars,
           Pends(e)' <=> Pends(e), PendsOnce(e)' <=> PendsOnce(e),
           NEW wants \in BOOLEAN, NEW wanted \in BOOLEAN,
           wanted <=> e \in listening /\ ~Unsent(e), wants <=> e \in listening' /\ ~Unsent(e)',
           \A has \in BOOLEAN :
               Alternate(toServer, e, has, wanted) => Alternate(toServer', e, has, wants),
           FiredInOrder(e)'
    PROVE  EventOK(e)'
<1> DEFINE has == Pends(e) \/ e \in active
<1>1. has \in BOOLEAN /\ (Pends(e)' \/ e \in active') = has
  BY DEF serverVars
<1>2. (e \in listening /\ ~Unsent(e)) = wanted /\ (e \in listening' /\ ~Unsent(e)') = wants
  OBVIOUS
<1>3. ~server.disposed => Alternate(toServer, e, has, e \in listening /\ ~Unsent(e))
  BY ListenedOnceIs DEF EventOK
<1> HIDE DEF has
<1>4. ~server.disposed => Alternate(toServer', e, has, wants)
  BY <1>1, <1>2, <1>3
<1>5. ~server'.disposed =>
        Alternate(toServer', e, Pends(e)' \/ e \in active', e \in listening' /\ ~Unsent(e)')
  BY <1>1, <1>2, <1>4 DEF serverVars
<1>6. ListenedOnce(e)'
  BY <1>5 DEF EventOK, ListenedOnce, Has, Wants, serverVars
<1> QED
  BY <1>6 DEF EventOK

LEMMA ListenStep ==
    ASSUME IInv, NEW x \in Events, Listen(x)
    PROVE  IInv'
<1>1. /\ TypeOK /\ \A c \in Calls : CallOK(c)
      /\ \A e \in Events : EventKept(e)
      /\ \A e \in Events : e \in history.crossed \/ EventOK(e)
  BY IInvIs
<1>2. /\ history' \in [crossed : SUBSET Requests, lost : SUBSET Calls, inputs : Nat]
      /\ history'.crossed = history.crossed /\ history'.lost = history.lost
  BY <1>1, InputIs DEF Listen
<1>3. /\ UNCHANGED <<client, outcome, serverVars, toClient>>
      /\ x \notin listening /\ x \in Requests /\ x \notin Calls
      /\ listening' = listening \cup {x} /\ handlers' = handlers \cup {x}
      /\ heard' = [heard EXCEPT ![x] = 0]
      /\ Ask(x)
  BY CallsEvents DEF Listen
<1>4. \A id : (Pends(id)' <=> Pends(id)) /\ (PendsOnce(id)' <=> PendsOnce(id))
  BY <1>3, PendingKept DEF serverVars
<1>5. ~Unsent(x) /\ Once(unsent, x)
  BY <1>1, <1>3 DEF EventKept
<1>6. /\ unsent' \in Seq(Requests) /\ toServer' \in Seq(ToServer)
      /\ client.initialized => unsent' = <<>>
      /\ \A id \in Requests :
           /\ Unsent(id)' <=> Unsent(id) \/ (id = x /\ ~client.initialized)
           /\ Once(unsent, id) /\ (id # x \/ ~Unsent(id)) => Once(unsent', id)
           /\ Sent(id)' <=> Sent(id) \/ (id = x /\ client.initialized)
           /\ HasEnd(toServer', id) <=> HasEnd(toServer, id)
           /\ RequestedOnce(toServer, id) /\ (id # x \/ ~Sent(id)) => RequestedOnce(toServer', id)
           /\ RequestEnds(toServer, id) /\ (id # x \/ ~client.initialized) =>
                  RequestEnds(toServer', id)
      /\ \A e \in Events, has \in BOOLEAN, wants \in BOOLEAN :
           Alternate(toServer, e, has, wants) =>
               /\ e # x \/ ~client.initialized => Alternate(toServer', e, has, wants)
               /\ e = x /\ client.initialized /\ ~wants => Alternate(toServer', e, has, TRUE)
  <2>1. /\ unsent \in Seq(Requests) /\ toServer \in Seq(ToServer) /\ client.initialized \in BOOLEAN
        /\ client.initialized => unsent = <<>>
    BY <1>1 DEF TypeOK, ClientTypeOK
  <2> QED
    BY ONLY <1>3, <2>1, AskIs
<1>7. TypeOK'
  <2>1. heard' \in [Events -> 0..MaxFires] /\ handlers' \subseteq Requests /\ listening' \subseteq Events
    BY <1>1, <1>3 DEF TypeOK, ClientTypeOK
  <2> QED
    BY <1>1, <1>2, <1>3, <1>6, <2>1 DEF TypeOK, ClientTypeOK, ServerTypeOK, serverVars
<1>8. heard'[x] = 0 /\ \A e \in Events : e # x => heard'[e] = heard[e]
  BY <1>1, <1>3 DEF TypeOK, ClientTypeOK
<1>9. ASSUME NEW c \in Calls PROVE CallOK(c)'
  <2>1. CallOK(c) /\ c \in Requests /\ c # x
    BY <1>1, CallsEvents
  <2>2. OnePlace(c)'
    BY <1>3, <1>4, <1>6, <2>1 DEF CallOK, OnePlace, serverVars
  <2>3. AnsweredHasRun(c)'
    BY <1>3, <2>1 DEF CallOK, AnsweredHasRun, serverVars
  <2>4. CancelFollows(c)'
    BY <1>2, <1>3, <1>4, <1>6, <2>1 DEF CallOK, CancelFollows, serverVars
  <2>5. HandledUntilAnswered(c)'
    BY <1>2, <1>3, <1>4, <1>6, <2>1 DEF CallOK, HandledUntilAnswered, serverVars
  <2> QED
    BY <2>2, <2>3, <2>4, <2>5 DEF CallOK
<1>10. ASSUME NEW e \in Events PROVE EventKept(e)'
  <2>1. EventKept(e) /\ e \in Requests
    BY <1>1, CallsEvents
  <2> QED
    BY <1>3, <1>5, <1>6, <2>1 DEF EventKept, serverVars
<1>11. ASSUME NEW e \in Events, EventOK(e) PROVE EventOK(e)'
  <2>1. e \in Requests
    BY CallsEvents
  <2>2. CASE e # x
    <3>1. \A has \in BOOLEAN, wants \in BOOLEAN :
            Alternate(toServer, e, has, wants) => Alternate(toServer', e, has, wants)
      BY <1>6, <2>2
    <3>2. (Unsent(e)' <=> Unsent(e)) /\ (e \in listening' <=> e \in listening)
      BY <1>3, <1>6, <2>1, <2>2
    <3>3. FiredInOrder(e)'
      BY <1>3, <1>8, <1>11, <2>2, FiredKept DEF EventOK, serverVars
    <3> QED
      BY <1>3, <1>4, <1>11, <3>1, <3>2, <3>3, EventUnaffected DEF serverVars
  <2>3. CASE e = x
    <3>1. FiredInOrder(e)'
      <4>1. FiredInOrder(e) /\ heard[e] \in Nat /\ fired \in Nat
        BY <1>1, <1>11 DEF EventOK, TypeOK, ClientTypeOK, ServerTypeOK
      <4>2. \A m \in ToClient : IsFire(m, e) => m.number > 0
        BY DEF ToClient, IsFire, Message
      <4>3. \A i \in DOMAIN toClient : toClient[i] \in ToClient
        BY <1>1 DEF TypeOK
      <4>4. InOrder(toClient, e, 0, fired)
        BY <4>1, <4>2, <4>3 DEF FiredInOrder, InOrder
      <4> QED
        BY <1>3, <1>8, <2>3, <4>1, <4>4 DEF FiredInOrder, serverVars
    <3> DEFINE wants == client.initialized = TRUE
    <3>2. wants \in BOOLEAN /\ (wants <=> e \in listening' /\ ~Unsent(e)')
      BY <1>1, <1>3, <1>5, <1>6, <2>1, <2>3 DEF TypeOK, ClientTypeOK
    <3>3. FALSE <=> e \in listening /\ ~Unsent(e)
      BY <1>3, <2>3
    <3>4. \A has \in BOOLEAN : Alternate(toServer, e, has, FALSE) => Alternate(toServer', e, has, wants)
      <4> SUFFICES ASSUME NEW has \in BOOLEAN, Alternate(toServer, e, has, FALSE)
                   PROVE  Alternate(toServer', e, has, wants)
        OBVIOUS
      <4>1. CASE client.initialized
        <5>1. wants = TRUE
          BY <1>1, <4>1 DEF TypeOK, ClientTypeOK
        <5> QED
          BY <1>6, <2>3, <4>1, <5>1
      <4>2. CASE ~client.initialized
        <5>1. wants = FALSE
          BY <4>2
        <5> QED
          BY <1>6, <2>3, <4>2, <5>1
      <4> QED
        BY <4>1, <4>2
    <3> HIDE DEF wants
    <3>5. UNCHANGED serverVars
      BY <1>3
    <3> QED
      BY ONLY <1>4, <1>11, <3>1, <3>2, <3>3, <3>4, <3>5, WantsChange
  <2> QED
    BY <2>2, <2>3
<1> QED
  BY <1>1, <1>2, <1>7, <1>9, <1>10, <1>11, IInvKept

LEMMA UnlistenStep ==
    ASSUME IInv, NEW x \in Events, Unlisten(x)
    PROVE  IInv'
<1>1. /\ TypeOK /\ \A c \in Calls : CallOK(c)
      /\ \A e \in Events : EventKept(e)
      /\ \A e \in Events : e \in history.crossed \/ EventOK(e)
  BY IInvIs
<1>2. /\ history' \in [crossed : SUBSET Requests, lost : SUBSET Calls, inputs : Nat]
      /\ history'.crossed = history.crossed /\ history'.lost = history.lost
  BY <1>1, InputIs DEF Unlisten
<1>3. /\ UNCHANGED <<client, outcome, heard, serverVars, toClient>>
      /\ x \in listening /\ x \in Requests /\ x \notin Calls
      /\ listening' = listening \ {x} /\ handlers' = handlers \ {x}
      /\ unsent' = Without(unsent, x)
      /\ Send(IF Contains(unsent, x) THEN <<>> ELSE <<Message("unlisten", x)>>)
  BY CallsEvents DEF Unlisten
<1>4. \A id : (Pends(id)' <=> Pends(id)) /\ (PendsOnce(id)' <=> PendsOnce(id))
  BY <1>3, PendingKept DEF serverVars
<1>5. Message("unlisten", x) \in ToServer /\ ~IsRequest(Message("unlisten", x))
  BY DEF Message, ToServer, IsRequest
<1>6. Once(unsent, x)
  BY <1>1 DEF EventKept
<1>7. /\ unsent' \in Seq(Requests) /\ toServer' \in Seq(ToServer)
      /\ unsent = <<>> => unsent' = <<>>
      /\ \A id : /\ Unsent(id)' <=> Unsent(id) /\ id # x
                 /\ Once(unsent, id) => Once(unsent', id)
      /\ \A id \in Requests :
           /\ Sent(id)' <=> Sent(id)
           /\ HasEnd(toServer', id) <=> HasEnd(toServer, id) \/ (id = x /\ ~Unsent(x))
           /\ RequestedOnce(toServer, id) => RequestedOnce(toServer', id)
           /\ RequestEnds(toServer, id) \/ (id = x /\ ~Unsent(x)) => RequestEnds(toServer', id)
      /\ \A e \in Events, has \in BOOLEAN, wants \in BOOLEAN :
           Alternate(toServer, e, has, wants) =>
               /\ e # x \/ Unsent(x) => Alternate(toServer', e, has, wants)
               /\ e = x /\ ~Unsent(x) /\ wants => Alternate(toServer', e, has, FALSE)
  <2>1. unsent \in Seq(Requests) /\ toServer \in Seq(ToServer)
    BY <1>1 DEF TypeOK, ClientTypeOK
  <2> QED
    BY ONLY <1>3, <1>5, <1>6, <2>1, GiveUpIs
<1>8. TypeOK'
  <2>1. handlers' \subseteq Requests /\ listening' \subseteq Events
    BY <1>1, <1>3 DEF TypeOK, ClientTypeOK
  <2> QED
    BY <1>1, <1>2, <1>3, <1>7, <2>1 DEF TypeOK, ClientTypeOK, ServerTypeOK, serverVars
<1>9. ASSUME NEW c \in Calls PROVE CallOK(c)'
  <2>1. CallOK(c) /\ c \in Requests /\ c # x
    BY <1>1, CallsEvents
  <2>2. OnePlace(c)'
    BY <1>3, <1>4, <1>7, <2>1 DEF CallOK, OnePlace, serverVars
  <2>3. AnsweredHasRun(c)'
    BY <1>3, <2>1 DEF CallOK, AnsweredHasRun, serverVars
  <2>4. CancelFollows(c)'
    BY <1>2, <1>3, <1>4, <1>7, <2>1 DEF CallOK, CancelFollows, serverVars
  <2>5. HandledUntilAnswered(c)'
    BY <1>2, <1>3, <1>4, <1>7, <2>1 DEF CallOK, HandledUntilAnswered, serverVars
  <2> QED
    BY <2>2, <2>3, <2>4, <2>5 DEF CallOK
<1>10. ASSUME NEW e \in Events PROVE EventKept(e)'
  <2>1. EventKept(e)
    BY <1>1
  <2> QED
    BY <1>3, <1>7, <2>1 DEF EventKept, serverVars
<1>11. ASSUME NEW e \in Events, EventOK(e) PROVE EventOK(e)'
  <2>1. FiredInOrder(e)'
    BY <1>3, <1>11, FiredKept DEF EventOK, serverVars
  <2>2. CASE e # x
    <3>1. \A has \in BOOLEAN, wants \in BOOLEAN :
            Alternate(toServer, e, has, wants) => Alternate(toServer', e, has, wants)
      BY <1>7, <2>2
    <3>2. (Unsent(e)' <=> Unsent(e)) /\ (e \in listening' <=> e \in listening)
      BY <1>3, <1>7, <2>2
    <3> QED
      BY <1>3, <1>4, <1>11, <2>1, <3>1, <3>2, EventUnaffected DEF serverVars
  <2>3. CASE e = x
    <3>1. FALSE <=> e \in listening' /\ ~Unsent(e)'
      BY <1>3, <2>3
    <3>2. UNCHANGED serverVars
      BY <1>3
    <3>3. CASE Unsent(x)
      <4>1. FALSE <=> e \in listening /\ ~Unsent(e)
        BY <2>3, <3>3
      <4>2. \A has \in BOOLEAN : Alternate(toServer, e, has, FALSE) => Alternate(toServer', e, has, FALSE)
        BY <1>7, <3>3
      <4> QED
        BY ONLY <1>4, <1>11, <2>1, <3>1, <3>2, <4>1, <4>2, WantsChange
    <3>4. CASE ~Unsent(x)
      <4>1. TRUE <=> e \in listening /\ ~Unsent(e)
        BY <1>3, <2>3, <3>4
      <4>2. \A has \in BOOLEAN : Alternate(toServer, e, has, TRUE) => Alternate(toServer', e, has, FALSE)
        BY <1>7, <2>3, <3>4
      <4> QED
        BY ONLY <1>4, <1>11, <2>1, <3>1, <3>2, <4>1, <4>2, WantsChange
    <3> QED
      BY <3>3, <3>4
  <2> QED
    BY <2>2, <2>3
<1> QED
  BY <1>1, <1>2, <1>8, <1>9, <1>10, <1>11, IInvKept

LEMMA ToClientIs ==
    ASSUME NEW m \in ToClient
    PROVE  \/ m.type = "initialize" /\ m.id = 0
           \/ m.type = "fire" /\ m.id \in Events /\ m.number \in 1..MaxFires
           \/ m.type \in {"result", "error", "unknown"} /\ m.id \in Calls
BY DEF ToClient, Message

LEMMA InitializedStep ==
    ASSUME IInv, ClientReceives, Head(toClient).type = "initialize"
    PROVE  IInv'
<1>1. /\ TypeOK /\ \A c \in Calls : CallOK(c)
      /\ \A e \in Events : EventKept(e)
      /\ \A e \in Events : e \in history.crossed \/ EventOK(e)
  BY IInvIs
<1> DEFINE r == [i \in DOMAIN unsent |-> Request(unsent[i])]
<1>2. /\ ~client.disposed /\ toClient # <<>> /\ toClient' = Tail(toClient)
      /\ client' = [client EXCEPT !.initialized = TRUE]
      /\ toServer' = toServer \o r
      /\ handlers' = handlers \cup Range(unsent)
      /\ unsent' = <<>>
      /\ UNCHANGED <<outcome, listening, heard, serverVars, history>>
  BY DEF ClientReceives, ClientInitialized, Send
<1>3. unsent \in Seq(Requests) /\ toServer \in Seq(ToServer) /\ toClient \in Seq(ToClient)
  BY <1>1 DEF TypeOK, ClientTypeOK
<1>4. \A id : (Pends(id)' <=> Pends(id)) /\ (PendsOnce(id)' <=> PendsOnce(id))
  BY <1>2, PendingKept DEF serverVars
<1>5. \A id : ~Unsent(id)' /\ Once(unsent', id)
  BY <1>2, NothingContains DEF Unsent
<1>6. r \in Seq(ToServer)
  <2>1. \A x \in Requests : Request(x) \in ToServer
    BY CallsEvents DEF Requests
  <2> QED
    BY <1>3, <2>1
<1>7. \A id \in Requests :
        /\ HasRequest(r, id) <=> Unsent(id)
        /\ ~HasEnd(r, id)
        /\ Once(unsent, id) => RequestedOnce(r, id)
  BY <1>3, RequestsIs DEF Unsent
<1>8. ASSUME NEW e \in Events, Once(unsent, e)
      PROVE  /\ ~Unsent(e) => \A has \in BOOLEAN : Alternate(r, e, has, has)
             /\ Unsent(e) => Alternate(r, e, FALSE, TRUE)
  <2>1. /\ DOMAIN r = DOMAIN unsent
        /\ \A i \in DOMAIN unsent : r[i].id = unsent[i] /\ IsRequest(r[i]) = TRUE
    <3>1. \A x \in Requests : Request(x).id = x /\ IsRequest(Request(x)) = TRUE
      BY DEF Requests, Request, Message, IsRequest
    <3>2. \A i \in DOMAIN unsent : unsent[i] \in Requests
      BY <1>3
    <3> QED
      BY <3>1, <3>2
  <2>2. Unsent(e) <=> \E i \in DOMAIN unsent : unsent[i] = e
    BY <1>3, ContainsIs DEF Unsent
  <2> HIDE DEF r
  <2>3. ASSUME ~Unsent(e), NEW has \in BOOLEAN PROVE Alternate(r, e, has, has)
    BY <1>6, <2>1, <2>2, <2>3, OthersAlternate
  <2>4. ASSUME Unsent(e) PROVE Alternate(r, e, FALSE, TRUE)
    <3>1. PICK k \in DOMAIN unsent : unsent[k] = e
      BY <2>2, <2>4
    <3>2. /\ k \in DOMAIN r /\ r[k].id = e /\ IsRequest(r[k]) = TRUE
          /\ \A i \in DOMAIN r : r[i].id = e => i = k
      BY <1>8, <2>1, <3>1 DEF Once
    <3>3. IsRequest(r[k]) \in BOOLEAN
      BY <3>2
    <3>4. Alternate(r, e, ~IsRequest(r[k]), IsRequest(r[k]))
      BY ONLY <1>6, <3>2, <3>3, OneAlternates
    <3> QED
      BY <3>2, <3>4
  <2> QED
    BY <2>3, <2>4
<1> HIDE DEF r
<1>9. \A id \in Requests :
        /\ Sent(id)' <=> Sent(id) \/ Unsent(id)
        /\ HasEnd(toServer', id) <=> HasEnd(toServer, id)
        /\ RequestedOnce(toServer, id) /\ Once(unsent, id) /\ (~Sent(id) \/ ~Unsent(id)) =>
               RequestedOnce(toServer', id)
        /\ RequestEnds(toServer, id) /\ ~Unsent(id) => RequestEnds(toServer', id)
  <2> SUFFICES ASSUME NEW id \in Requests
               PROVE  /\ Sent(id)' <=> Sent(id) \/ Unsent(id)
                      /\ HasEnd(toServer', id) <=> HasEnd(toServer, id)
                      /\ RequestedOnce(toServer, id) /\ Once(unsent, id) /\ (~Sent(id) \/ ~Unsent(id)) =>
                             RequestedOnce(toServer', id)
                      /\ RequestEnds(toServer, id) /\ ~Unsent(id) => RequestEnds(toServer', id)
    OBVIOUS
  <2>1. ~Unsent(id) => RequestEnds(r, id)
    BY <1>7, NoRequestEnds
  <2> QED
    BY <1>2, <1>3, <1>6, <1>7, <2>1, ConcatToServer DEF Sent
<1>10. \A types, id : HasAnswer(toClient, id, types) <=>
            (Head(toClient).id = id /\ Head(toClient).type \in types) \/ HasAnswer(toClient', id, types)
  BY <1>2, <1>3, TailToClient
<1>11. toClient' \in Seq(ToClient) /\ toServer' \in Seq(ToServer)
  BY <1>2, <1>3, <1>6
<1>12. TypeOK'
  <2>1. client' \in [initialized : BOOLEAN, disposed : BOOLEAN] /\ client'.disposed = client.disposed
    BY <1>1, <1>2 DEF TypeOK, ClientTypeOK
  <2>2. handlers' \subseteq Requests
    BY <1>1, <1>2, <1>3 DEF TypeOK, ClientTypeOK, Range
  <2>3. unsent' \in Seq(Requests)
    BY <1>2
  <2> QED
    BY <1>1, <1>2, <1>11, <2>1, <2>2, <2>3 DEF TypeOK, ClientTypeOK, ServerTypeOK, serverVars
<1>13. \A id : id \in handlers' <=> id \in handlers \/ Unsent(id)
  BY <1>2, <1>3, ContainsIs DEF Range, Unsent
<1>14. ASSUME NEW c \in Calls PROVE CallOK(c)'
  <2>1. CallOK(c) /\ c \in Requests
    BY <1>1, CallsEvents
  <2>2. \A types : "initialize" \notin types => (HasAnswer(toClient', c, types) <=> HasAnswer(toClient, c, types))
    BY <1>10
  <2>3. /\ HasAnswer(toClient', c, {"result", "error"}) <=> HasAnswer(toClient, c, {"result", "error"})
        /\ HasAnswer(toClient', c, {"result", "error", "unknown"}) <=>
               HasAnswer(toClient, c, {"result", "error", "unknown"})
    BY <2>2
  <2>4. OnePlace(c)'
    BY <1>2, <1>4, <1>5, <1>9, <2>1 DEF CallOK, OnePlace, serverVars
  <2>5. AnsweredHasRun(c)'
    BY <1>2, <2>1, <2>3 DEF CallOK, AnsweredHasRun, serverVars
  <2>6. CancelFollows(c)'
    BY <1>2, <1>4, <1>5, <1>9, <2>1 DEF CallOK, CancelFollows, serverVars
  <2>7. HandledUntilAnswered(c)'
    BY <1>2, <1>4, <1>9, <1>13, <2>1, <2>3 DEF CallOK, HandledUntilAnswered, serverVars
  <2> QED
    BY <2>4, <2>5, <2>6, <2>7 DEF CallOK
<1>15. ASSUME NEW e \in Events PROVE EventKept(e)'
  <2>1. EventKept(e)
    BY <1>1
  <2> QED
    BY <1>2, <1>5, <1>13, <2>1 DEF EventKept, serverVars
<1>16. ASSUME NEW e \in Events, EventOK(e) PROVE EventOK(e)'
  <2>1. FiredInOrder(e)'
    <3>1. InOrder(toClient', e, heard[e], fired)
      BY <1>2, <1>3, <1>16, TailInOrder DEF EventOK, FiredInOrder
    <3> QED
      BY <1>2, <1>16, <3>1 DEF EventOK, FiredInOrder, serverVars
  <2>2. Once(unsent, e) /\ (Unsent(e) => e \in listening)
    BY <1>1 DEF EventKept
  <2>3. UNCHANGED serverVars
    BY <1>2
  <2>4. CASE Unsent(e)
    <3>1. (FALSE <=> e \in listening /\ ~Unsent(e)) /\ (TRUE <=> e \in listening' /\ ~Unsent(e)')
      BY <1>2, <1>5, <2>2, <2>4
    <3>2. \A has \in BOOLEAN : Alternate(toServer, e, has, FALSE) => Alternate(toServer', e, has, TRUE)
      <4>1. Alternate(r, e, FALSE, TRUE)
        BY <1>8, <2>2, <2>4
      <4> QED
        BY <1>2, <1>3, <1>6, <4>1, ConcatAlternates
    <3> QED
      BY ONLY <1>4, <1>16, <2>1, <2>3, <3>1, <3>2, WantsChange
  <2>5. CASE ~Unsent(e)
    <3>1. \A has \in BOOLEAN, wants \in BOOLEAN :
            Alternate(toServer, e, has, wants) => Alternate(toServer', e, has, wants)
      <4> SUFFICES ASSUME NEW has \in BOOLEAN, NEW wants \in BOOLEAN, Alternate(toServer, e, has, wants)
                   PROVE  Alternate(toServer \o r, e, has, wants)
        BY <1>2
      <4>1. Alternate(r, e, wants, wants)
        BY <1>8, <2>2, <2>5
      <4> QED
        BY <1>3, <1>6, <4>1, ConcatAlternates
    <3> QED
      BY <1>2, <1>4, <1>5, <1>16, <2>1, <2>3, <2>5, <3>1, EventUnaffected DEF serverVars
  <2> QED
    BY <2>4, <2>5
<1> QED
  BY <1>1, <1>2, <1>12, <1>14, <1>15, <1>16, IInvKept

LEMMA AnsweredStep ==
    ASSUME IInv, ClientReceives, Head(toClient).type \notin {"initialize", "fire"}
    PROVE  IInv'
<1>1. /\ TypeOK /\ \A c \in Calls : CallOK(c)
      /\ \A e \in Events : EventKept(e)
      /\ \A e \in Events : e \in history.crossed \/ EventOK(e)
  BY IInvIs
<1> DEFINE response == Head(toClient)
           a == response.id
<1>2. /\ toClient # <<>> /\ toClient' = Tail(toClient) /\ toClient \in Seq(ToClient)
      /\ UNCHANGED <<client, unsent, listening, heard, toServer, serverVars, history>>
      /\ ClientAnswered(response)
  BY <1>1 DEF ClientReceives, ClientAnswered, TypeOK
<1>3. response \in ToClient
  BY <1>2
<1>4. response.type \in {"result", "error", "unknown"} /\ a \in Calls /\ a \notin Events
  BY <1>3, ToClientIs, CallsEvents
<1>5. /\ \A c \in Calls : c # a => /\ outcome'[c] = outcome[c]
                                   /\ c \in handlers' => c \in handlers
      /\ outcome'[a] = outcome[a] \/ (outcome[a] = "pending" /\ outcome'[a] = response.type)
      /\ a \notin handlers'
      /\ \A e \in Events : e \in handlers' <=> e \in handlers
      /\ handlers' \subseteq Requests /\ outcome' \in [Calls -> Outcomes]
  <2>1. handlers \subseteq Requests /\ outcome \in [Calls -> Outcomes] /\ response.type \in Outcomes
    BY <1>1, <1>4 DEF TypeOK, ClientTypeOK, Outcomes
  <2>2. CASE a \in handlers
    <3>1. /\ handlers' = handlers \ {a}
          /\ outcome' = [outcome EXCEPT ![a] = IF outcome[a] = "pending" THEN response.type ELSE outcome[a]]
      BY <1>2, <2>2 DEF ClientAnswered
    <3> QED
      BY <1>4, <2>1, <3>1
  <2>3. CASE a \notin handlers
    BY <1>2, <2>1, <2>3 DEF ClientAnswered
  <2> QED
    BY <2>2, <2>3
<1>6. \A id, types : HasAnswer(toClient, id, types) <=>
            (a = id /\ response.type \in types) \/ HasAnswer(toClient', id, types)
  BY <1>2, TailToClient
<1>7. toClient' \in Seq(ToClient)
  BY <1>2
<1>8. TypeOK'
  BY <1>1, <1>2, <1>5, <1>7 DEF TypeOK, ClientTypeOK, ServerTypeOK, serverVars
<1>9. \A id : (Pends(id)' <=> Pends(id)) /\ (PendsOnce(id)' <=> PendsOnce(id))
  BY <1>2, PendingKept DEF serverVars
<1>10. \A id : (Unsent(id)' <=> Unsent(id)) /\ (Sent(id)' <=> Sent(id))
  BY <1>2 DEF Unsent, Sent
<1> HIDE DEF a, response
<1>11. ASSUME NEW c \in Calls PROVE CallOK(c)'
  <2>1. CallOK(c)
    BY <1>1
  <2>2. /\ outcome'[c] = "none" => outcome[c] = "none"
        /\ outcome'[c] = "cancelled" => outcome[c] = "cancelled"
    BY <1>4, <1>5
  <2>3. OnePlace(c)'
    BY <1>2, <1>9, <1>10, <2>1, <2>2 DEF CallOK, OnePlace, serverVars
  <2>4. AnsweredHasRun(c)'
    BY <1>2, <1>6, <2>1 DEF CallOK, AnsweredHasRun, serverVars
  <2>5. CancelFollows(c)'
    BY <1>2, <1>9, <1>10, <2>1, <2>2 DEF CallOK, CancelFollows, serverVars
  <2>6. HandledUntilAnswered(c)'
    <3>1. CASE c = a
      BY <1>5, <3>1 DEF HandledUntilAnswered
    <3>2. CASE c # a
      <4>1. HasAnswer(toClient, c, {"result", "error", "unknown"}) =>
                HasAnswer(toClient', c, {"result", "error", "unknown"})
        BY <1>6, <3>2
      <4> QED
        BY <1>2, <1>5, <1>9, <1>10, <2>1, <3>2, <4>1 DEF CallOK, HandledUntilAnswered, serverVars
    <3> QED
      BY <3>1, <3>2
  <2> QED
    BY <2>3, <2>4, <2>5, <2>6 DEF CallOK
<1>12. ASSUME NEW e \in Events PROVE EventKept(e)'
  BY <1>1, <1>2, <1>5, <1>10, <1>12 DEF EventKept, serverVars
<1>13. ASSUME NEW e \in Events, EventOK(e) PROVE EventOK(e)'
  <2>1. FiredInOrder(e)'
    <3>1. InOrder(toClient', e, heard[e], fired)
      BY <1>2, <1>13, TailInOrder DEF EventOK, FiredInOrder
    <3> QED
      BY <1>2, <1>13, <3>1 DEF EventOK, FiredInOrder, serverVars
  <2> QED
    BY <1>2, <1>9, <1>10, <1>13, <2>1, EventUnaffected DEF serverVars
<1> QED
  BY <1>1, <1>2, <1>8, <1>11, <1>12, <1>13, IInvKept

LEMMA HearsStep ==
    ASSUME IInv, ClientReceives, Head(toClient).type = "fire"
    PROVE  IInv'
<1>1. /\ TypeOK /\ \A c \in Calls : CallOK(c)
      /\ \A e \in Events : EventKept(e)
      /\ \A e \in Events : e \in history.crossed \/ EventOK(e)
  BY IInvIs
<1> DEFINE response == Head(toClient)
           x == response.id
<1>2. /\ toClient # <<>> /\ toClient' = Tail(toClient) /\ toClient \in Seq(ToClient)
      /\ UNCHANGED <<client, outcome, unsent, handlers, listening, toServer, serverVars, history>>
      /\ heard' = IF x \in handlers THEN [heard EXCEPT ![x] = response.number] ELSE heard
  BY <1>1 DEF ClientReceives, ClientHears, TypeOK
<1>3. response \in ToClient
  BY <1>2
<1>4. x \in Events /\ x \notin Calls /\ response.number \in 1..MaxFires
  BY <1>3, ToClientIs, CallsEvents
<1>5. \A id, types : HasAnswer(toClient, id, types) <=>
            (x = id /\ response.type \in types) \/ HasAnswer(toClient', id, types)
  BY <1>2, TailToClient
<1>6. toClient' \in Seq(ToClient)
  BY <1>2
<1>7. IsFire(response, x)
  BY DEF IsFire
<1> HIDE DEF x
<1>8. heard' \in [Events -> 0..MaxFires]
  BY <1>1, <1>2, <1>4 DEF TypeOK, ClientTypeOK
<1>9. /\ \A e \in Events : e # x => heard'[e] = heard[e]
      /\ heard'[x] \in {heard[x], response.number}
  BY <1>1, <1>2, <1>4 DEF TypeOK, ClientTypeOK
<1> HIDE DEF response
<1>10. TypeOK'
  BY <1>1, <1>2, <1>6, <1>8 DEF TypeOK, ClientTypeOK, ServerTypeOK, serverVars
<1>11. \A id : (Pends(id)' <=> Pends(id)) /\ (PendsOnce(id)' <=> PendsOnce(id))
  BY <1>2, PendingKept DEF serverVars
<1>12. \A id : (Unsent(id)' <=> Unsent(id)) /\ (Sent(id)' <=> Sent(id))
  BY <1>2 DEF Unsent, Sent
<1>13. ASSUME NEW c \in Calls PROVE CallOK(c)'
  <2>1. CallOK(c) /\ c # x
    BY <1>1, <1>4
  <2>2. \A types : HasAnswer(toClient', c, types) <=> HasAnswer(toClient, c, types)
    BY <1>5, <2>1
  <2>3. OnePlace(c)'
    BY <1>2, <1>11, <1>12, <2>1 DEF CallOK, OnePlace, serverVars
  <2>4. AnsweredHasRun(c)'
    BY <1>2, <2>1, <2>2 DEF CallOK, AnsweredHasRun, serverVars
  <2>5. CancelFollows(c)'
    BY <1>2, <1>11, <1>12, <2>1 DEF CallOK, CancelFollows, serverVars
  <2>6. HandledUntilAnswered(c)'
    BY <1>2, <1>11, <1>12, <2>1, <2>2 DEF CallOK, HandledUntilAnswered, serverVars
  <2> QED
    BY <2>3, <2>4, <2>5, <2>6 DEF CallOK
<1>14. ASSUME NEW e \in Events PROVE EventKept(e)'
  BY <1>1, <1>2, <1>12, <1>14 DEF EventKept, serverVars
<1>15. ASSUME NEW e \in Events, EventOK(e) PROVE EventOK(e)'
  <2>1. FiredInOrder(e)'
    <3>1. /\ InOrder(toClient', e, heard[e], fired)
          /\ e = x => /\ response.number <= fired
                      /\ InOrder(toClient', e, response.number, fired)
      BY <1>2, <1>7, <1>15, TailInOrder DEF EventOK, FiredInOrder, response
    <3> QED
      BY <1>2, <1>9, <1>15, <3>1 DEF EventOK, FiredInOrder, serverVars
  <2> QED
    BY <1>2, <1>11, <1>12, <1>15, <2>1, EventUnaffected DEF serverVars
<1> QED
  BY <1>1, <1>2, <1>10, <1>13, <1>14, <1>15, IInvKept

\* The ends of all that is given up when the client is disposed.
LEMMA EndsAre ==
    ASSUME NEW ids, IsFiniteSet(ids), NEW type, [type : {type}, id : ids] \subseteq ToServer,
           type \in {"cancel", "unlisten"}
    PROVE  /\ ForEach(ids, type) \in Seq(ToServer)
           /\ \A id : ~HasRequest(ForEach(ids, type), id) /\ (HasEnd(ForEach(ids, type), id) <=> id \in ids)
           /\ \A e : e \notin ids => \A has \in BOOLEAN : Alternate(ForEach(ids, type), e, has, has)
           /\ \A e \in ids : Alternate(ForEach(ids, type), e, TRUE, FALSE)
<1> DEFINE q == ForEach(ids, type)
<1>1. /\ q \in Seq([type : {type}, id : ids])
      /\ \A i, j \in DOMAIN q : q[i].id = q[j].id => i = j
      /\ \A x \in ids : \E i \in DOMAIN q : q[i].id = x
  <2>1. q \in Seq([type : {type}, id : ids])
    BY ForEachIs
  <2>2. \A i, j \in DOMAIN q : q[i].id = q[j].id => i = j
    BY ForEachIs
  <2>3. ASSUME NEW x \in ids PROVE \E i \in DOMAIN q : q[i].id = x
    BY <2>1, ForEachIs, SMTT(60)
  <2> QED
    BY <2>1, <2>2, <2>3
<1> HIDE DEF q
<1>2. \A i \in DOMAIN q : q[i].type = type /\ q[i].id \in ids
  <2> DEFINE S == [type : {type}, id : ids]
  <2>1. \A m \in S : m.type = type /\ m.id \in ids
    OBVIOUS
  <2>2. q \in Seq(S)
    BY <1>1
  <2> HIDE DEF S
  <2>3. \A i \in DOMAIN q : q[i] \in S
    BY <2>2
  <2> QED
    BY <2>1, <2>3
<1>3. \A i \in DOMAIN q : IsRequest(q[i]) = FALSE
  BY <1>2 DEF IsRequest
<1>4. q \in Seq(ToServer)
  <2> DEFINE S == [type : {type}, id : ids]
  <2>1. q \in Seq(S) /\ S \subseteq ToServer
    BY <1>1
  <2> HIDE DEF S
  <2>2. Len(q) \in Nat /\ q \in [1..Len(q) -> S]
    BY <2>1
  <2>3. q \in [1..Len(q) -> ToServer]
    BY <2>1, <2>2
  <2> QED
    BY <2>2, <2>3
<1>5. \A id : ~HasRequest(q, id) /\ (HasEnd(q, id) <=> id \in ids)
  BY <1>1, <1>2, <1>3 DEF HasRequest, HasEnd
<1>6. ASSUME NEW e, e \notin ids, NEW has \in BOOLEAN PROVE Alternate(q, e, has, has)
  BY <1>2, <1>4, <1>6, OthersAlternate
<1>7. ASSUME NEW e \in ids PROVE Alternate(q, e, TRUE, FALSE)
  <2>1. PICK k \in DOMAIN q : q[k].id = e
    BY <1>1
  <2>2. /\ \A i \in DOMAIN q : q[i].id = e => i = k
        /\ IsRequest(q[k]) \in BOOLEAN /\ IsRequest(q[k]) = FALSE
    BY <1>1, <1>3, <2>1
  <2>3. Alternate(q, e, ~IsRequest(q[k]), IsRequest(q[k]))
    BY ONLY <1>4, <2>1, <2>2, OneAlternates
  <2> QED
    BY <2>2, <2>3
<1> QED
  BY <1>4, <1>5, <1>6, <1>7 DEF q

LEMMA ClientDisposesStep ==
    ASSUME IInv, ClientDisposes
    PROVE  IInv'
<1>1. /\ TypeOK /\ \A c \in Calls : CallOK(c)
      /\ \A e \in Events : EventKept(e)
      /\ \A e \in Events : e \in history.crossed \/ EventOK(e)
  BY IInvIs
<1> DEFINE calls == {c \in Calls : outcome[c] = "pending"}
           left == {e \in listening : ~Contains(unsent, e)}
           asked == calls \ Range(unsent)
           waiting == Range(unsent) \ calls
           q == ForEach(asked, "cancel")
           r == ForEach(left, "unlisten")
<1>2. /\ client' = [client EXCEPT !.disposed = TRUE]
      /\ outcome' = [c \in Calls |-> IF c \in calls THEN "cancelled" ELSE outcome[c]]
      /\ listening' = listening \ left /\ handlers' = handlers \ left
      /\ unsent' = SetToSeq(waiting)
      /\ toServer' = toServer \o (q \o r)
      /\ UNCHANGED <<heard, serverVars, toClient, history>>
  BY DEF ClientDisposes, Send
<1>3. unsent \in Seq(Requests) /\ toServer \in Seq(ToServer) /\ listening \subseteq Events
      /\ outcome \in [Calls -> Outcomes] /\ handlers \subseteq Requests
  BY <1>1 DEF TypeOK, ClientTypeOK
<1>4. \A c : c \in asked <=> c \in Calls /\ outcome[c] = "pending" /\ ~Unsent(c)
  BY <1>3, ContainsIs DEF Range, Unsent
<1>5. \A e : e \in left <=> e \in listening /\ ~Unsent(e)
  BY DEF Unsent
<1>6. IsFiniteSet(asked) /\ IsFiniteSet(left) /\ IsFiniteSet(waiting) /\ waiting \subseteq Requests
  <2>1. IsFiniteSet(Calls) /\ IsFiniteSet(Events)
    BY FS_Interval
  <2>2. asked \subseteq Calls /\ left \subseteq Events /\ waiting \subseteq Requests
    BY <1>3 DEF Range
  <2>3. IsFiniteSet(Requests)
    BY <2>1, FS_Union DEF Requests
  <2> QED
    BY <2>1, <2>2, <2>3, FS_Subset
<1>7. /\ [type : {"cancel"}, id : asked] \subseteq ToServer
      /\ [type : {"unlisten"}, id : left] \subseteq ToServer
  BY <1>3 DEF ToServer
<1> HIDE DEF asked, left
<1>8. /\ q \in Seq(ToServer)
      /\ \A id : ~HasRequest(q, id) /\ (HasEnd(q, id) <=> id \in asked)
      /\ \A e : e \notin asked => \A has \in BOOLEAN : Alternate(q, e, has, has)
  BY <1>6, <1>7, EndsAre
<1>9. /\ r \in Seq(ToServer)
      /\ \A id : ~HasRequest(r, id) /\ (HasEnd(r, id) <=> id \in left)
      /\ \A e : e \notin left => \A has \in BOOLEAN : Alternate(r, e, has, has)
      /\ \A e \in left : Alternate(r, e, TRUE, FALSE)
  BY <1>6, <1>7, EndsAre
<1> HIDE DEF q, r
<1>10. q \o r \in Seq(ToServer) /\ toServer' \in Seq(ToServer)
  BY <1>2, <1>3, <1>8, <1>9
<1>11. \A id : ~HasRequest(q \o r, id) /\ (HasEnd(q \o r, id) <=> id \in asked \/ id \in left)
  BY <1>8, <1>9, ConcatToServer
<1>12. \A id : /\ Sent(id)' <=> Sent(id)
               /\ HasEnd(toServer', id) <=> HasEnd(toServer, id) \/ id \in asked \/ id \in left
               /\ RequestedOnce(toServer, id) => RequestedOnce(toServer', id)
               /\ RequestEnds(toServer, id) \/ id \in asked => RequestEnds(toServer', id)
  <2> SUFFICES ASSUME NEW id
               PROVE  /\ Sent(id)' <=> Sent(id)
                      /\ HasEnd(toServer', id) <=> HasEnd(toServer, id) \/ id \in asked \/ id \in left
                      /\ RequestedOnce(toServer, id) => RequestedOnce(toServer', id)
                      /\ RequestEnds(toServer, id) \/ id \in asked => RequestEnds(toServer', id)
    OBVIOUS
  <2> DEFINE t == q \o r
  <2>1. t \in Seq(ToServer) /\ ~HasRequest(t, id) /\ (HasEnd(t, id) <=> id \in asked \/ id \in left)
    BY <1>10, <1>11
  <2>2. RequestedOnce(t, id) /\ RequestEnds(t, id)
    BY <2>1, NoRequestEnds
  <2>3. toServer' = toServer \o t
    BY <1>2
  <2> HIDE DEF t
  <2> QED
    BY <1>3, <2>1, <2>2, <2>3, ConcatToServer DEF Sent
<1>13. \A id : (Pends(id)' <=> Pends(id)) /\ (PendsOnce(id)' <=> PendsOnce(id))
  BY <1>2, PendingKept DEF serverVars
<1>14. /\ unsent' \in Seq(Requests) /\ (unsent = <<>> => unsent' = <<>>)
       /\ \A id : /\ Unsent(id)' <=> Unsent(id) /\ ~(id \in Calls /\ outcome[id] = "pending")
                  /\ Once(unsent', id)
  <2>1. \A id : id \in waiting <=> Unsent(id) /\ ~(id \in Calls /\ outcome[id] = "pending")
    BY <1>3, ContainsIs DEF Range, Unsent
  <2>2. unsent = <<>> => waiting = {}
    <3>1. ASSUME unsent = <<>> PROVE \A id : ~Unsent(id)
      BY <3>1, NothingContains DEF Unsent
    <3> QED
      BY <2>1, <3>1
  <2> HIDE DEF waiting
  <2>3. /\ unsent' \in Seq(Requests)
        /\ \A id : (Contains(unsent', id) <=> id \in waiting) /\ Once(unsent', id)
        /\ waiting = {} => unsent' = <<>>
    BY <1>2, <1>6, SetContains
  <2> QED
    BY <2>1, <2>2, <2>3 DEF Unsent
<1> HIDE DEF waiting
<1>15. TypeOK'
  <2>1. client' \in [initialized : BOOLEAN, disposed : BOOLEAN] /\ client'.initialized = client.initialized
    BY <1>1, <1>2 DEF TypeOK, ClientTypeOK
  <2>2. outcome' \in [Calls -> Outcomes]
    BY <1>2, <1>3 DEF Outcomes
  <2> QED
    BY <1>1, <1>2, <1>3, <1>10, <1>14, <2>1, <2>2 DEF TypeOK, ClientTypeOK, ServerTypeOK, serverVars
<1>16. /\ client'.disposed
       /\ \A c \in Calls : outcome'[c] = IF outcome[c] = "pending" THEN "cancelled" ELSE outcome[c]
  <2>1. client'.disposed
    BY <1>1, <1>2 DEF TypeOK, ClientTypeOK
  <2> QED
    BY <1>2, <2>1
<1>17. ASSUME NEW c \in Calls PROVE CallOK(c)'
  <2>1. CallOK(c) /\ c \notin left
    BY <1>1, <1>3, <1>5, CallsEvents
  <2>2. OnePlace(c)'
    BY <1>2, <1>12, <1>13, <1>14, <1>16, <2>1 DEF CallOK, OnePlace, serverVars
  <2>3. AnsweredHasRun(c)'
    BY <1>2, <2>1 DEF CallOK, AnsweredHasRun, serverVars
  <2>4. CancelFollows(c)'
    <3>1. Unsent(c) => /\ RequestEnds(toServer, c)
                       /\ ~Pends(c) /\ token[c] # "running"
      BY <2>1, NoRequestEnds DEF CallOK, OnePlace, AnsweredHasRun, Sent
    <3>2. outcome[c] = "pending" /\ ~Unsent(c) => c \in asked
      BY <1>4
    <3> QED
      BY <1>2, <1>12, <1>13, <1>14, <1>16, <2>1, <3>1, <3>2 DEF CallOK, CancelFollows, serverVars
  <2>5. HandledUntilAnswered(c)'
    BY <1>2, <1>12, <1>13, <2>1 DEF CallOK, HandledUntilAnswered, serverVars
  <2> QED
    BY <2>2, <2>3, <2>4, <2>5 DEF CallOK
<1>18. ASSUME NEW e \in Events PROVE EventKept(e)'
  BY <1>1, <1>2, <1>5, <1>14, <1>18, CallsEvents DEF EventKept, serverVars
<1>19. ASSUME NEW e \in Events, EventOK(e) PROVE EventOK(e)'
  <2>1. FiredInOrder(e)'
    BY <1>2, <1>19, FiredKept DEF EventOK, serverVars
  <2>2. FALSE <=> e \in listening' /\ ~Unsent(e)'
    BY <1>2, <1>5, <1>14, CallsEvents
  <2>3. \A has \in BOOLEAN, wanted \in BOOLEAN :
            Alternate(toServer, e, has, wanted) /\ (wanted <=> e \in left) =>
                Alternate(toServer', e, has, FALSE)
    <3> SUFFICES ASSUME NEW has \in BOOLEAN, NEW wanted \in BOOLEAN,
                        Alternate(toServer, e, has, wanted), wanted <=> e \in left
                 PROVE  Alternate(toServer', e, has, FALSE)
      OBVIOUS
    <3>1. e \notin asked
      BY <1>4, CallsEvents
    <3>2. Alternate(q, e, wanted, wanted)
      BY <1>8, <3>1
    <3>3. Alternate(r, e, wanted, FALSE)
      <4>1. CASE e \in left
        <5>1. wanted = TRUE
          BY <4>1
        <5> QED
          BY <1>9, <4>1, <5>1
      <4>2. CASE e \notin left
        <5>1. wanted = FALSE
          BY <4>2
        <5> QED
          BY <1>9, <4>2, <5>1
      <4> QED
        BY <4>1, <4>2
    <3>4. Alternate(q \o r, e, wanted, FALSE)
      BY <1>8, <1>9, <3>2, <3>3, ConcatAlternates
    <3>5. Alternate(toServer \o (q \o r), e, has, FALSE)
      BY <1>3, <1>10, <3>4, ConcatAlternates
    <3> QED
      BY <1>2, <3>5
  <2>4. UNCHANGED serverVars
    BY <1>2
  <2>5. CASE e \in left
    <3>1. TRUE <=> e \in listening /\ ~Unsent(e)
      BY <1>5, <2>5
    <3>2. \A has \in BOOLEAN : Alternate(toServer, e, has, TRUE) => Alternate(toServer', e, has, FALSE)
      BY <2>3, <2>5
    <3> QED
      BY ONLY <1>13, <1>19, <2>1, <2>2, <2>4, <3>1, <3>2, WantsChange
  <2>6. CASE e \notin left
    <3>1. FALSE <=> e \in listening /\ ~Unsent(e)
      BY <1>5, <2>6
    <3>2. \A has \in BOOLEAN : Alternate(toServer, e, has, FALSE) => Alternate(toServer', e, has, FALSE)
      BY <2>3, <2>6
    <3> QED
      BY ONLY <1>13, <1>19, <2>1, <2>2, <2>4, <3>1, <3>2, WantsChange
  <2> QED
    BY <2>5, <2>6
<1> QED
  BY <1>1, <1>2, <1>15, <1>17, <1>18, <1>19, IInvKept

-----------------------------------------------------------------------------
(* The steps of the server.                                                *)

\* What the server receives, and what is left on its way.
LEMMA Received ==
    ASSUME TypeOK, toServer # <<>>, toServer' = Tail(toServer)
    PROVE  /\ Head(toServer) \in ToServer /\ toServer' \in Seq(ToServer)
           /\ \A id :
                /\ Sent(id) <=> \/ Head(toServer).id = id /\ IsRequest(Head(toServer))
                                \/ Sent(id)'
                /\ HasEnd(toServer, id) <=> \/ Head(toServer).id = id /\ ~IsRequest(Head(toServer))
                                            \/ HasEnd(toServer', id)
                /\ RequestedOnce(toServer, id) =>
                     /\ RequestedOnce(toServer', id)
                     /\ Head(toServer).id = id /\ IsRequest(Head(toServer)) => ~Sent(id)'
                /\ RequestEnds(toServer, id) =>
                     /\ RequestEnds(toServer', id)
                     /\ Head(toServer).id = id /\ IsRequest(Head(toServer)) => HasEnd(toServer', id)
<1>1. toServer \in Seq(ToServer)
  BY DEF TypeOK
<1> QED
  BY <1>1, TailIs, TailToServer DEF Sent

\* What the server has of an event is what it received last.
LEMMA HasChange ==
    ASSUME NEW e \in Events, EventOK(e), TypeOK, toServer # <<>>, toServer' = Tail(toServer),
           UNCHANGED <<clientVars, server, fired, toClient>>,
           Head(toServer).id = e, ~server.disposed, NEW has \in BOOLEAN,
           IsRequest(Head(toServer)) = has,
           subscribed[e] = (IF e \in active THEN 1 ELSE 0) =>
               subscribed'[e] = (IF e \in active' THEN 1 ELSE 0),
           PendsOnce(e)', Pends(e)' => e \notin active', has <=> Pends(e)' \/ e \in active'
    PROVE  EventOK(e)'
<1> DEFINE had == Pends(e) \/ e \in active
           wants == e \in listening /\ ~Unsent(e)
<1>1. (e \in listening' /\ ~Unsent(e)') = wants /\ (Pends(e)' \/ e \in active') = has
  BY DEF Unsent, clientVars
<1>2. Alternate(toServer, e, had, wants)
  BY ListenedOnceIs DEF EventOK
<1>3. toServer \in Seq(ToServer)
  BY DEF TypeOK
<1> HIDE DEF had, wants
<1>4. Alternate(toServer', e, has, wants)
  <2>1. Alternate(Tail(toServer), e, IsRequest(Head(toServer)), wants)
    BY <1>2, <1>3, TailAlternates
  <2> QED
    BY <2>1
<1>5. Alternate(toServer', e, Pends(e)' \/ e \in active', e \in listening' /\ ~Unsent(e)')
  BY <1>1, <1>4
<1>6. ListenedOnce(e)'
  BY <1>5 DEF EventOK, ListenedOnce, Has, Wants
<1>7. FiredInOrder(e)'
  BY FiredKept DEF EventOK, clientVars
<1> QED
  BY <1>6, <1>7 DEF EventOK

LEMMA HadNot ==
    ASSUME NEW e \in Events, EventOK(e), TypeOK, toServer # <<>>, Head(toServer).id = e, ~server.disposed
    PROVE  IsRequest(Head(toServer)) # (Pends(e) \/ e \in active)
<1> DEFINE had == Pends(e) \/ e \in active
           wants == e \in listening /\ ~Unsent(e)
<1>1. Alternate(toServer, e, had, wants) /\ toServer \in Seq(ToServer)
  BY ListenedOnceIs DEF EventOK, TypeOK
<1> HIDE DEF had, wants
<1>2. IsRequest(Head(toServer)) # had
  BY <1>1, TailAlternates
<1> QED
  BY <1>2 DEF had

\* A message about something else.
LEMMA OtherReceived ==
    ASSUME NEW e \in Events, EventOK(e), TypeOK, toServer # <<>>, toServer' = Tail(toServer),
           UNCHANGED <<clientVars, server, fired, toClient>>, Head(toServer).id # e,
           subscribed'[e] = subscribed[e], e \in active' <=> e \in active,
           Pends(e)' <=> Pends(e), PendsOnce(e)' <=> PendsOnce(e)
    PROVE  EventOK(e)'
<1>1. toServer \in Seq(ToServer)
  BY DEF TypeOK
<1>2. \A has \in BOOLEAN, wants \in BOOLEAN :
        Alternate(toServer, e, has, wants) => Alternate(toServer', e, has, wants)
  BY <1>1, TailAlternates
<1>3. FiredInOrder(e)'
  BY FiredKept DEF EventOK, clientVars
<1>4. Unsent(e)' <=> Unsent(e)
  BY DEF Unsent, clientVars
<1> QED
  BY <1>2, <1>3, <1>4, EventUnaffected DEF clientVars

LEMMA StartedStep ==
    ASSUME IInv, ServerReceives, Head(toServer).type \in {"call", "listen"}, server.registered
    PROVE  IInv'
<1>1. /\ TypeOK /\ \A c \in Calls : CallOK(c)
      /\ \A e \in Events : EventKept(e)
      /\ \A e \in Events : e \in history.crossed \/ EventOK(e)
  BY IInvIs
<1> DEFINE request == Head(toServer)
           x == request.id
<1>2. /\ ~server.disposed /\ toServer # <<>> /\ toServer' = Tail(toServer)
      /\ UNCHANGED <<server, fired, clientVars, toClient, pending, history>>
      /\ Start(<<request>>)
  BY DEF ServerReceives
<1>3. /\ request \in ToServer /\ toServer' \in Seq(ToServer)
      /\ \A id :
           /\ Sent(id) <=> (x = id /\ IsRequest(request)) \/ Sent(id)'
           /\ HasEnd(toServer, id) <=> (x = id /\ ~IsRequest(request)) \/ HasEnd(toServer', id)
           /\ RequestedOnce(toServer, id) =>
                /\ RequestedOnce(toServer', id)
                /\ x = id /\ IsRequest(request) => ~Sent(id)'
           /\ RequestEnds(toServer, id) =>
                /\ RequestEnds(toServer', id)
                /\ x = id /\ IsRequest(request) => HasEnd(toServer', id)
  BY <1>1, <1>2, Received
<1>4. IsRequest(request) = TRUE /\ x \in Requests /\ (request.type = "call" <=> x \in Calls)
  BY <1>3, ToServerIs
<1> DEFINE r == <<request>>
<1>5. /\ token' \in [Calls -> {"none", "running", "cancelled"}] /\ runs' \in [Calls -> Nat]
      /\ active' \subseteq Requests /\ subscribed' \in [Events -> Nat]
      /\ \A c \in Calls : /\ token'[c] = IF c = x THEN "running" ELSE token[c]
                          /\ runs'[c] = IF c = x THEN runs[c] + 1 ELSE runs[c]
      /\ \A id : id \in active' <=> id \in active \/ id = x
      /\ \A e \in Events : /\ e # x => subscribed'[e] = subscribed[e]
                           /\ e = x => subscribed'[e] > 0 /\ subscribed'[e] = subscribed[e] + 1
  <2>1. r \in Seq(ToServer) /\ DOMAIN r = {1} /\ r[1] = request
    BY <1>3
  <2>2. Start(r)
    BY <1>2
  <2> HIDE DEF r, request
  <2>3. \A id : Names(r, id) <=> id = x
    BY <2>1 DEF Names
  <2>4. \A i \in DOMAIN r : /\ r[i].id \in Requests
                            /\ r[i].type = "call" <=> r[i].id \in Calls
    BY <1>4, <2>1
  <2>5. ServerTypeOK
    BY <1>1 DEF TypeOK
  <2>6. /\ token' \in [Calls -> {"none", "running", "cancelled"}] /\ runs' \in [Calls -> Nat]
        /\ active' \subseteq Requests /\ subscribed' \in [Events -> Nat]
        /\ \A c \in Calls :
             /\ token'[c] = IF Names(r, c) THEN "running" ELSE token[c]
             /\ runs'[c] = IF Names(r, c) THEN runs[c] + 1 ELSE runs[c]
        /\ \A id : id \in active' <=> id \in active \/ Names(r, id)
        /\ \A e \in Events :
             /\ ~Names(r, e) => subscribed'[e] = subscribed[e]
             /\ Names(r, e) => subscribed'[e] > 0
             /\ Names(r, e) /\ (\A i, j \in DOMAIN r : r[i].id = e /\ r[j].id = e => i = j) =>
                    subscribed'[e] = subscribed[e] + 1
    BY ONLY <2>1, <2>2, <2>4, <2>5, StartIs
  <2>7. \A e : \A i, j \in DOMAIN r : r[i].id = e /\ r[j].id = e => i = j
    BY <2>1
  <2> HIDE DEF x
  <2>8. \A c \in Calls : /\ token'[c] = IF c = x THEN "running" ELSE token[c]
                         /\ runs'[c] = IF c = x THEN runs[c] + 1 ELSE runs[c]
    BY ONLY <2>3, <2>6
  <2>9. \A id : id \in active' <=> id \in active \/ id = x
    BY ONLY <2>3, <2>6
  <2>10. \A e \in Events : /\ e # x => subscribed'[e] = subscribed[e]
                           /\ e = x => subscribed'[e] > 0 /\ subscribed'[e] = subscribed[e] + 1
    BY ONLY <2>3, <2>6, <2>7
  <2> QED
    BY ONLY <2>6, <2>8, <2>9, <2>10
<1> HIDE DEF r, x, request
<1>6. \A id : (Pends(id)' <=> Pends(id)) /\ (PendsOnce(id)' <=> PendsOnce(id))
  BY <1>2, PendingKept
<1>7. \A id : Unsent(id)' <=> Unsent(id)
  BY <1>2 DEF Unsent, clientVars
<1>8. TypeOK'
  BY <1>1, <1>2, <1>3, <1>5 DEF TypeOK, ClientTypeOK, ServerTypeOK, clientVars
<1>9. ASSUME NEW c \in Calls PROVE CallOK(c)'
  <2>1. CallOK(c)
    BY <1>1
  <2>2. CASE c # x
    <3>1. /\ Sent(c)' <=> Sent(c)
          /\ HasEnd(toServer', c) <=> HasEnd(toServer, c)
          /\ RequestedOnce(toServer, c) => RequestedOnce(toServer', c)
          /\ RequestEnds(toServer, c) => RequestEnds(toServer', c)
          /\ token'[c] = token[c] /\ runs'[c] = runs[c] /\ (c \in active' <=> c \in active)
      BY <1>3, <1>5, <2>2
    <3> QED
      BY <1>2, <1>6, <1>7, <2>1, <3>1
      DEF CallOK, OnePlace, AnsweredHasRun, CancelFollows, HandledUntilAnswered, clientVars
  <2>3. CASE c = x
    <3>1. Sent(c)
      BY <1>3, <1>4, <2>3
    <3>2. ~Unsent(c) /\ ~Pends(c) /\ runs[c] = 0 /\ outcome[c] # "none"
      BY <2>1, <3>1 DEF CallOK, OnePlace
    <3>3. /\ ~Sent(c)' /\ RequestedOnce(toServer', c)
          /\ outcome[c] = "cancelled" => RequestEnds(toServer', c) /\ HasEnd(toServer', c)
      BY <1>3, <1>4, <2>1, <2>3 DEF CallOK, OnePlace, CancelFollows
    <3>4. token'[c] = "running" /\ runs'[c] = 1 /\ c \in active'
      BY <1>5, <2>3, <3>2
    <3> QED
      BY <1>2, <1>6, <1>7, <2>1, <3>2, <3>3, <3>4
      DEF CallOK, OnePlace, AnsweredHasRun, CancelFollows, HandledUntilAnswered, clientVars
  <2> QED
    BY <2>2, <2>3
<1>10. ASSUME NEW e \in Events PROVE EventKept(e)'
  BY <1>1, <1>2, <1>5, <1>7, <1>10 DEF EventKept, clientVars
<1>11. ASSUME NEW e \in Events, EventOK(e) PROVE EventOK(e)'
  <2>1. CASE e # x
    BY <1>1, <1>2, <1>5, <1>6, <1>11, <2>1, OtherReceived DEF x, request
  <2>2. CASE e = x
    <3>1. ~Pends(e) /\ e \notin active
      BY <1>1, <1>2, <1>4, <1>11, <2>2, HadNot DEF x, request
    <3>2. PendsOnce(e)' /\ ~Pends(e)' /\ e \in active'
      BY <1>5, <1>6, <1>11, <2>2, <3>1 DEF EventOK, ListenedOnce
    <3>3. subscribed[e] = (IF e \in active THEN 1 ELSE 0) =>
               subscribed'[e] = (IF e \in active' THEN 1 ELSE 0)
      BY <1>5, <2>2, <3>1, <3>2
    <3>4. Head(toServer).id = e /\ IsRequest(Head(toServer)) = TRUE
      BY <1>4, <2>2 DEF x, request
    <3> QED
      BY <1>1, <1>2, <1>11, <3>2, <3>3, <3>4, HasChange
  <2> QED
    BY <2>1, <2>2
<1> QED
  BY <1>1, <1>2, <1>8, <1>9, <1>10, <1>11, IInvKept

LEMMA PendingStep ==
    ASSUME IInv, ServerReceives, Head(toServer).type \in {"call", "listen"}, ~server.registered
    PROVE  IInv'
<1>1. /\ TypeOK /\ \A c \in Calls : CallOK(c)
      /\ \A e \in Events : EventKept(e)
      /\ \A e \in Events : e \in history.crossed \/ EventOK(e)
  BY IInvIs
<1> DEFINE request == Head(toServer)
           x == request.id
           p == [type |-> request.type, id |-> x, timer |-> TRUE]
<1>2. /\ ~server.disposed /\ toServer # <<>> /\ toServer' = Tail(toServer)
      /\ UNCHANGED <<server, fired, clientVars, toClient, token, runs, subscribed, active, history>>
      /\ pending' = Append(pending, p)
  BY DEF ServerReceives
<1>3. /\ request \in ToServer /\ toServer' \in Seq(ToServer)
      /\ \A id :
           /\ Sent(id) <=> (x = id /\ IsRequest(request)) \/ Sent(id)'
           /\ HasEnd(toServer, id) <=> (x = id /\ ~IsRequest(request)) \/ HasEnd(toServer', id)
           /\ RequestedOnce(toServer, id) =>
                /\ RequestedOnce(toServer', id)
                /\ x = id /\ IsRequest(request) => ~Sent(id)'
           /\ RequestEnds(toServer, id) =>
                /\ RequestEnds(toServer', id)
                /\ x = id /\ IsRequest(request) => HasEnd(toServer', id)
  BY <1>1, <1>2, Received
<1>4. IsRequest(request) = TRUE /\ p \in Pending /\ p.id = x
  BY <1>3, ToServerIs
<1>5. pending \in Seq(Pending)
  BY <1>1 DEF TypeOK, ServerTypeOK
<1> HIDE DEF p
<1>6. \A id : /\ Pends(id)' <=> Pends(id) \/ id = x
              /\ PendsOnce(id) /\ (id # x \/ ~Pends(id)) => PendsOnce(id)'
  BY <1>2, <1>4, <1>5, PendingAdded
<1>7. pending' \in Seq(Pending)
  BY <1>2, <1>4, <1>5
<1> HIDE DEF x, request
<1>8. \A id : Unsent(id)' <=> Unsent(id)
  BY <1>2 DEF Unsent, clientVars
<1>9. TypeOK'
  BY <1>1, <1>2, <1>3, <1>7 DEF TypeOK, ClientTypeOK, ServerTypeOK, clientVars
<1>10. ASSUME NEW c \in Calls PROVE CallOK(c)'
  <2>1. CallOK(c)
    BY <1>1
  <2>2. CASE c # x
    <3>1. /\ Sent(c)' <=> Sent(c)
          /\ HasEnd(toServer', c) <=> HasEnd(toServer, c)
          /\ RequestedOnce(toServer, c) => RequestedOnce(toServer', c)
          /\ RequestEnds(toServer, c) => RequestEnds(toServer', c)
          /\ Pends(c)' <=> Pends(c)
          /\ PendsOnce(c) => PendsOnce(c)'
      BY <1>3, <1>6, <2>2
    <3> QED
      BY <1>2, <1>8, <2>1, <3>1
      DEF CallOK, OnePlace, AnsweredHasRun, CancelFollows, HandledUntilAnswered, clientVars
  <2>3. CASE c = x
    <3>1. Sent(c)
      BY <1>3, <1>4, <2>3
    <3>2. ~Unsent(c) /\ ~Pends(c) /\ runs[c] = 0 /\ outcome[c] # "none"
      BY <2>1, <3>1 DEF CallOK, OnePlace
    <3>3. /\ ~Sent(c)' /\ RequestedOnce(toServer', c)
          /\ outcome[c] = "cancelled" => RequestEnds(toServer', c) /\ HasEnd(toServer', c)
      BY <1>3, <1>4, <2>1, <2>3 DEF CallOK, OnePlace, CancelFollows
    <3>4. Pends(c)' /\ PendsOnce(c)'
      BY <1>6, <2>1, <2>3, <3>2 DEF CallOK, OnePlace
    <3> QED
      BY <1>2, <1>8, <2>1, <3>2, <3>3, <3>4
      DEF CallOK, OnePlace, AnsweredHasRun, CancelFollows, HandledUntilAnswered, clientVars
  <2> QED
    BY <2>2, <2>3
<1>11. ASSUME NEW e \in Events PROVE EventKept(e)'
  BY <1>1, <1>2, <1>8, <1>11 DEF EventKept, clientVars
<1>12. ASSUME NEW e \in Events, EventOK(e) PROVE EventOK(e)'
  <2>1. CASE e # x
    <3>1. PendsOnce(e)' <=> PendsOnce(e)
      BY <1>6, <1>12, <2>1 DEF EventOK, ListenedOnce
    <3> QED
      BY <1>1, <1>2, <1>6, <1>12, <2>1, <3>1, OtherReceived DEF x, request
  <2>2. CASE e = x
    <3>1. ~Pends(e) /\ e \notin active
      BY <1>1, <1>2, <1>4, <1>12, <2>2, HadNot DEF x, request
    <3>2. PendsOnce(e)' /\ Pends(e)' /\ e \notin active'
      BY <1>2, <1>6, <1>12, <2>2, <3>1 DEF EventOK, ListenedOnce
    <3>3. Head(toServer).id = e /\ IsRequest(Head(toServer)) = TRUE
      BY <1>4, <2>2 DEF x, request
    <3> QED
      BY <1>1, <1>2, <1>12, <3>2, <3>3, HasChange
  <2> QED
    BY <2>1, <2>2
<1> QED
  BY <1>1, <1>2, <1>9, <1>10, <1>11, <1>12, IInvKept

LEMMA EndedStep ==
    ASSUME IInv, ServerReceives, Head(toServer).type \in {"cancel", "unlisten"}
    PROVE  IInv'
<1>1. /\ TypeOK /\ \A c \in Calls : CallOK(c)
      /\ \A e \in Events : EventKept(e)
      /\ \A e \in Events : e \in history.crossed \/ EventOK(e)
  BY IInvIs
<1> DEFINE request == Head(toServer)
           x == request.id
<1>2. /\ ~server.disposed /\ toServer # <<>> /\ toServer' = Tail(toServer)
      /\ UNCHANGED <<server, fired, clientVars, toClient, pending, runs>>
      /\ DisposeActive({x})
      /\ history' = [history EXCEPT !.crossed = IF Pends(x) THEN history.crossed \cup {x}
                                                ELSE history.crossed]
  BY DEF ServerReceives
<1>3. /\ request \in ToServer /\ toServer' \in Seq(ToServer)
      /\ \A id :
           /\ Sent(id) <=> (x = id /\ IsRequest(request)) \/ Sent(id)'
           /\ HasEnd(toServer, id) <=> (x = id /\ ~IsRequest(request)) \/ HasEnd(toServer', id)
           /\ RequestedOnce(toServer, id) =>
                /\ RequestedOnce(toServer', id)
                /\ x = id /\ IsRequest(request) => ~Sent(id)'
           /\ RequestEnds(toServer, id) =>
                /\ RequestEnds(toServer', id)
                /\ x = id /\ IsRequest(request) => HasEnd(toServer', id)
  BY <1>1, <1>2, Received
<1>4. IsRequest(request) = FALSE /\ x \in Requests
  BY <1>3, ToServerIs
<1> HIDE DEF x
<1>5. /\ token' \in [Calls -> {"none", "running", "cancelled"}]
      /\ active' \subseteq Requests /\ subscribed' \in [Events -> Nat]
      /\ \A c \in Calls : token'[c] = IF c = x /\ c \in active THEN "cancelled" ELSE token[c]
      /\ \A id : id \in active' <=> id \in active /\ id # x
      /\ \A e \in Events : subscribed'[e] = IF e = x /\ e \in active
                                            THEN subscribed[e] - 1 ELSE subscribed[e]
  <2> DEFINE ids == {x}
  <2>1. DisposeActive(ids) /\ ServerTypeOK
    BY <1>1, <1>2 DEF TypeOK
  <2>2. \A id : id \in ids <=> id = x
    OBVIOUS
  <2> HIDE DEF ids
  <2>3. /\ token' \in [Calls -> {"none", "running", "cancelled"}]
        /\ active' \subseteq Requests /\ subscribed' \in [Events -> Nat]
        /\ \A c \in Calls : token'[c] = IF c \in ids /\ c \in active THEN "cancelled" ELSE token[c]
        /\ \A id : id \in active' <=> id \in active /\ id \notin ids
        /\ \A e \in Events : subscribed'[e] = IF e \in ids /\ e \in active
                                              THEN subscribed[e] - 1 ELSE subscribed[e]
    BY ONLY <1>1, <2>1, DisposeActiveIs
  <2> QED
    BY <2>2, <2>3
<1> HIDE DEF request
<1>6. /\ history' \in [crossed : SUBSET Requests, lost : SUBSET Calls, inputs : Nat]
      /\ history'.lost = history.lost
      /\ \A id : id \in history'.crossed <=> id \in history.crossed \/ (id = x /\ Pends(x))
  BY <1>1, <1>2, <1>4 DEF TypeOK
<1>7. \A id : (Pends(id)' <=> Pends(id)) /\ (PendsOnce(id)' <=> PendsOnce(id))
  BY <1>2, PendingKept
<1>8. \A id : Unsent(id)' <=> Unsent(id)
  BY <1>2 DEF Unsent, clientVars
<1>9. TypeOK'
  BY <1>1, <1>2, <1>3, <1>5, <1>6 DEF TypeOK, ClientTypeOK, ServerTypeOK, clientVars
<1>10. ASSUME NEW c \in Calls PROVE CallOK(c)'
  <2>1. CallOK(c)
    BY <1>1
  <2>2. /\ Sent(c)' <=> Sent(c)
        /\ c # x => (HasEnd(toServer', c) <=> HasEnd(toServer, c))
        /\ RequestedOnce(toServer, c) => RequestedOnce(toServer', c)
        /\ RequestEnds(toServer, c) => RequestEnds(toServer', c)
    BY <1>3, <1>4
  <2>3. /\ token'[c] = "none" <=> token[c] = "none"
        /\ token'[c] = "running" => token[c] = "running" /\ c # x
        /\ token[c] = "running" /\ c # x => token'[c] = "running"
    BY <1>5, <2>1 DEF CallOK, AnsweredHasRun
  <2>4. OnePlace(c)'
    BY <1>2, <1>7, <1>8, <2>1, <2>2 DEF CallOK, OnePlace, clientVars
  <2>5. AnsweredHasRun(c)'
    BY <1>2, <1>5, <2>1, <2>3 DEF CallOK, AnsweredHasRun, clientVars
  <2>6. CancelFollows(c)'
    BY <1>2, <1>6, <1>7, <1>8, <2>1, <2>2, <2>3 DEF CallOK, CancelFollows, clientVars
  <2>7. HandledUntilAnswered(c)'
    BY <1>2, <1>6, <1>7, <2>1, <2>2, <2>3 DEF CallOK, HandledUntilAnswered, clientVars
  <2> QED
    BY <2>4, <2>5, <2>6, <2>7 DEF CallOK
<1>11. ASSUME NEW e \in Events PROVE EventKept(e)'
  BY <1>1, <1>2, <1>5, <1>8, <1>11 DEF EventKept, clientVars
<1>12. ASSUME NEW e \in Events, EventOK(e), e \notin history'.crossed PROVE EventOK(e)'
  <2>1. CASE e # x
    BY <1>1, <1>2, <1>5, <1>7, <1>12, <2>1, OtherReceived DEF x, request
  <2>2. CASE e = x
    <3>1. ~Pends(e) /\ e \in active
      BY <1>1, <1>2, <1>4, <1>6, <1>12, <2>2, HadNot DEF x, request
    <3>2. PendsOnce(e)' /\ ~Pends(e)' /\ e \notin active'
      BY <1>5, <1>7, <1>12, <2>2, <3>1 DEF EventOK, ListenedOnce
    <3>3. subscribed[e] = (IF e \in active THEN 1 ELSE 0) =>
               subscribed'[e] = (IF e \in active' THEN 1 ELSE 0)
      BY <1>5, <2>2, <3>1, <3>2
    <3>4. Head(toServer).id = e /\ IsRequest(Head(toServer)) = FALSE
      BY <1>4, <2>2 DEF x, request
    <3> QED
      BY <1>1, <1>2, <1>12, <3>2, <3>3, <3>4, HasChange
  <2> QED
    BY <2>1, <2>2
<1> QED
  BY <1>1, <1>6, <1>9, <1>10, <1>11, <1>12, IInvKept

\* What the client and the messages keep.
LEMMA ClientKept ==
    ASSUME UNCHANGED <<clientVars, toServer>>
    PROVE  /\ UNCHANGED <<client, outcome, unsent, handlers, listening, heard, toServer>>
           /\ \A id : (Unsent(id)' <=> Unsent(id)) /\ (Sent(id)' <=> Sent(id))
BY DEF clientVars, Unsent, Sent

LEMMA RegisterStep ==
    ASSUME IInv, Register
    PROVE  IInv'
<1>1. /\ TypeOK /\ \A c \in Calls : CallOK(c)
      /\ \A e \in Events : EventKept(e)
      /\ \A e \in Events : e \in history.crossed \/ EventOK(e)
  BY IInvIs
<1>2. /\ history' \in [crossed : SUBSET Requests, lost : SUBSET Calls, inputs : Nat]
      /\ history'.crossed = history.crossed /\ history'.lost = history.lost
  BY <1>1, InputIs DEF Register
<1>3. /\ UNCHANGED <<pending, token, active, subscribed, fired, runs, toClient>>
      /\ UNCHANGED <<clientVars, toServer>>
      /\ server' = [server EXCEPT !.registered = TRUE, !.flushes = server.flushes + 1,
                                  !.registrations = server.registrations + 1]
  BY DEF Register
<1>4. /\ UNCHANGED <<client, outcome, unsent, handlers, listening, heard, toServer>>
      /\ \A id : (Unsent(id)' <=> Unsent(id)) /\ (Sent(id)' <=> Sent(id))
  BY <1>3, ClientKept
<1>5. \A id : (Pends(id)' <=> Pends(id)) /\ (PendsOnce(id)' <=> PendsOnce(id))
  BY <1>3, PendingKept
<1>6. /\ server' \in [registered : BOOLEAN, flushes : Nat, registrations : Nat, disposed : BOOLEAN]
      /\ server'.disposed = server.disposed
  <2> DEFINE n == server.flushes + 1
             k == server.registrations + 1
  <2>1. n \in Nat /\ k \in Nat
    BY <1>1 DEF TypeOK, ServerTypeOK
  <2>2. server' = [server EXCEPT !.registered = TRUE, !.flushes = n, !.registrations = k]
    BY <1>3
  <2> HIDE DEF n, k
  <2> QED
    BY <1>1, <2>1, <2>2 DEF TypeOK, ServerTypeOK
<1>7. TypeOK'
  BY <1>1, <1>2, <1>3, <1>4, <1>6 DEF TypeOK, ClientTypeOK, ServerTypeOK
<1>8. ASSUME NEW c \in Calls PROVE CallOK(c)'
  BY <1>1, <1>2, <1>3, <1>4, <1>5
  DEF CallOK, OnePlace, AnsweredHasRun, CancelFollows, HandledUntilAnswered
<1>9. ASSUME NEW e \in Events PROVE EventKept(e)'
  BY <1>1, <1>3, <1>4 DEF EventKept
<1>10. ASSUME NEW e \in Events, EventOK(e) PROVE EventOK(e)'
  <2>1. FiredInOrder(e)'
    BY <1>3, <1>4, <1>10, FiredKept DEF EventOK
  <2> QED
    BY <1>3, <1>4, <1>5, <1>6, <1>10, <2>1, EventUnaffected
<1> QED
  BY <1>1, <1>2, <1>7, <1>8, <1>9, <1>10, IInvKept

LEMMA FlushStep ==
    ASSUME IInv, FlushPendingRequests
    PROVE  IInv'
<1>1. /\ TypeOK /\ \A c \in Calls : CallOK(c)
      /\ \A e \in Events : EventKept(e)
      /\ \A e \in Events : e \in history.crossed \/ EventOK(e)
  BY IInvIs
<1>2. /\ UNCHANGED <<fired, toClient, history>> /\ UNCHANGED <<clientVars, toServer>>
      /\ server.flushes > 0 /\ server' = [server EXCEPT !.flushes = server.flushes - 1]
      /\ Start(pending) /\ pending' = <<>>
  BY DEF FlushPendingRequests
<1>3. /\ UNCHANGED <<client, outcome, unsent, handlers, listening, heard, toServer>>
      /\ \A id : (Unsent(id)' <=> Unsent(id)) /\ (Sent(id)' <=> Sent(id))
  BY <1>2, ClientKept
<1>4. \A id : ~Pends(id)' /\ PendsOnce(id)'
  BY <1>2, PendingFlushed
<1>5. /\ server' \in [registered : BOOLEAN, flushes : Nat, registrations : Nat, disposed : BOOLEAN]
      /\ server'.disposed = server.disposed
  <2>1. server.flushes - 1 \in Nat
    BY <1>1, <1>2 DEF TypeOK, ServerTypeOK
  <2> DEFINE n == server.flushes - 1
  <2>2. n \in Nat /\ server' = [server EXCEPT !.flushes = n]
    BY <1>2, <2>1
  <2> HIDE DEF n
  <2> QED
    BY <1>1, <2>2 DEF TypeOK, ServerTypeOK
<1>6. /\ token' \in [Calls -> {"none", "running", "cancelled"}] /\ runs' \in [Calls -> Nat]
      /\ active' \subseteq Requests /\ subscribed' \in [Events -> Nat]
      /\ \A c \in Calls :
           /\ token'[c] = IF Pends(c) THEN "running" ELSE token[c]
           /\ runs'[c] = IF Pends(c) THEN runs[c] + 1 ELSE runs[c]
      /\ \A id : id \in active' <=> id \in active \/ Pends(id)
      /\ \A e \in Events :
           /\ ~Pends(e) => subscribed'[e] = subscribed[e]
           /\ Pends(e) => subscribed'[e] > 0
           /\ Pends(e) /\ PendsOnce(e) => subscribed'[e] = subscribed[e] + 1
  <2>1. pending \in Seq(Pending) /\ ServerTypeOK
    BY <1>1 DEF TypeOK, ServerTypeOK
  <2>2. \A i \in DOMAIN pending : pending[i] \in Pending
    BY <2>1
  <2>3. \A i \in DOMAIN pending : /\ pending[i].id \in Requests
                                  /\ pending[i].type = "call" <=> pending[i].id \in Calls
    BY <2>2, PendingIs
  <2>4. /\ token' \in [Calls -> {"none", "running", "cancelled"}] /\ runs' \in [Calls -> Nat]
        /\ active' \subseteq Requests /\ subscribed' \in [Events -> Nat]
        /\ \A c \in Calls :
             /\ token'[c] = IF Names(pending, c) THEN "running" ELSE token[c]
             /\ runs'[c] = IF Names(pending, c) THEN runs[c] + 1 ELSE runs[c]
        /\ \A id : id \in active' <=> id \in active \/ Names(pending, id)
        /\ \A e \in Events :
             /\ ~Names(pending, e) => subscribed'[e] = subscribed[e]
             /\ Names(pending, e) => subscribed'[e] > 0
             /\ Names(pending, e) /\ (\A i, j \in DOMAIN pending :
                    pending[i].id = e /\ pending[j].id = e => i = j) =>
                    subscribed'[e] = subscribed[e] + 1
    BY ONLY <1>2, <2>1, <2>3, StartIs
  <2>5. \A id : Names(pending, id) <=> Pends(id)
    BY DEF Names, Pends
  <2>6. \A e : PendsOnce(e) <=> \A i, j \in DOMAIN pending :
                                    pending[i].id = e /\ pending[j].id = e => i = j
    BY DEF PendsOnce
  <2>7. \A c \in Calls : /\ token'[c] = IF Pends(c) THEN "running" ELSE token[c]
                         /\ runs'[c] = IF Pends(c) THEN runs[c] + 1 ELSE runs[c]
    BY ONLY <2>4, <2>5
  <2>8. \A id : id \in active' <=> id \in active \/ Pends(id)
    BY ONLY <2>4, <2>5
  <2>9. \A e \in Events : /\ ~Pends(e) => subscribed'[e] = subscribed[e]
                          /\ Pends(e) => subscribed'[e] > 0
                          /\ Pends(e) /\ PendsOnce(e) => subscribed'[e] = subscribed[e] + 1
    BY ONLY <2>4, <2>5, <2>6
  <2> QED
    BY ONLY <2>4, <2>7, <2>8, <2>9
<1>7. TypeOK'
  <2>1. pending' \in Seq(Pending)
    BY <1>2
  <2>2. ClientTypeOK'
    BY <1>1, <1>3 DEF TypeOK, ClientTypeOK
  <2>3. fired' \in 0..MaxFires
    BY <1>1, <1>2 DEF TypeOK, ServerTypeOK
  <2>4. ServerTypeOK'
    BY <1>5, <1>6, <2>1, <2>3 DEF ServerTypeOK
  <2> QED
    BY <1>1, <1>2, <1>3, <2>2, <2>4 DEF TypeOK
<1>8. ASSUME NEW c \in Calls PROVE CallOK(c)'
  <2>1. CallOK(c)
    BY <1>1
  <2>2. CASE ~Pends(c)
    <3>1. token'[c] = token[c] /\ runs'[c] = runs[c] /\ (c \in active' <=> c \in active)
      BY <1>6, <2>2
    <3> QED
      BY <1>2, <1>3, <1>4, <2>1, <2>2, <3>1
      DEF CallOK, OnePlace, AnsweredHasRun, CancelFollows, HandledUntilAnswered
  <2>3. CASE Pends(c)
    <3>1. ~Unsent(c) /\ ~Sent(c) /\ runs[c] = 0 /\ outcome[c] # "none"
      BY <2>1, <2>3 DEF CallOK, OnePlace
    <3>2. token'[c] = "running" /\ runs'[c] = 1 /\ c \in active'
      BY <1>6, <2>3, <3>1
    <3> QED
      BY <1>2, <1>3, <1>4, <2>1, <2>3, <3>1, <3>2
      DEF CallOK, OnePlace, AnsweredHasRun, CancelFollows, HandledUntilAnswered
  <2> QED
    BY <2>2, <2>3
<1>9. ASSUME NEW e \in Events PROVE EventKept(e)'
  BY <1>1, <1>3, <1>6, <1>9 DEF EventKept
<1>10. ASSUME NEW e \in Events, EventOK(e) PROVE EventOK(e)'
  <2>1. FiredInOrder(e)'
    BY <1>2, <1>3, <1>10, FiredKept DEF EventOK
  <2>2. CASE ~Pends(e)
    <3>1. subscribed'[e] = subscribed[e] /\ (e \in active' <=> e \in active)
      BY <1>6, <2>2
    <3>2. PendsOnce(e)' <=> PendsOnce(e)
      BY <1>4, <1>10 DEF EventOK, ListenedOnce
    <3> QED
      BY <1>3, <1>4, <1>5, <1>10, <2>1, <2>2, <3>1, <3>2, EventUnaffected
  <2>3. CASE Pends(e)
    <3>1. e \notin active /\ PendsOnce(e) /\ subscribed[e] = 0
      BY <1>10, <2>3 DEF EventOK, ListenedOnce
    <3>2. e \in active' /\ subscribed'[e] = 1
      BY <1>6, <2>3, <3>1
    <3>3. (Pends(e)' \/ e \in active') = (Pends(e) \/ e \in active)
      BY <2>3, <3>2
    <3>4. (e \in listening' /\ ~Unsent(e)') = (e \in listening /\ ~Unsent(e))
      BY <1>3
    <3>5. ~server'.disposed =>
              Alternate(toServer', e, Pends(e)' \/ e \in active', e \in listening' /\ ~Unsent(e)')
      <4>1. ~server.disposed =>
                Alternate(toServer, e, Pends(e) \/ e \in active, e \in listening /\ ~Unsent(e))
        BY <1>10, ListenedOnceIs DEF EventOK
      <4> QED
        BY <1>3, <1>5, <3>3, <3>4, <4>1
    <3>6. ListenedOnce(e)'
      BY <1>4, <3>2, <3>5 DEF ListenedOnce, Has, Wants
    <3> QED
      BY <2>1, <3>6 DEF EventOK
  <2> QED
    BY <2>2, <2>3
<1> QED
  BY <1>1, <1>2, <1>7, <1>8, <1>9, <1>10, IInvKept

\* What is said to the client besides events: the events stay in order.
LEMMA FiredStays ==
    ASSUME NEW e \in Events, FiredInOrder(e), TypeOK, NEW r \in Seq(ToClient),
           toClient' = toClient \o r, UNCHANGED <<heard, fired>>,
           \A i \in DOMAIN r : ~IsFire(r[i], e)
    PROVE  FiredInOrder(e)'
<1>1. /\ toClient \in Seq(ToClient) /\ heard[e] \in Nat /\ fired \in Nat
      /\ heard[e] <= fired /\ InOrder(toClient, e, heard[e], fired) /\ fired <= fired
  BY DEF TypeOK, ClientTypeOK, ServerTypeOK, FiredInOrder
<1>2. InOrder(toClient \o r, e, heard[e], fired)
  BY ONLY <1>1, ConcatInOrder, e \in Events, r \in Seq(ToClient), \A i \in DOMAIN r : ~IsFire(r[i], e)
<1> QED
  BY <1>1, <1>2 DEF FiredInOrder

LEMMA TimeoutStep ==
    ASSUME IInv, NEW i \in DOMAIN pending, Timeout(i)
    PROVE  IInv'
<1>1. /\ TypeOK /\ \A c \in Calls : CallOK(c)
      /\ \A e \in Events : EventKept(e)
      /\ \A e \in Events : e \in history.crossed \/ EventOK(e)
  BY IInvIs
<1> DEFINE m == Message("unknown", pending[i].id)
           r == IF pending[i].type = "call" THEN <<m>> ELSE <<>>
<1>2. /\ pending' = [pending EXCEPT ![i].timer = FALSE]
      /\ toClient' = toClient \o r
      /\ UNCHANGED <<server, token, active, subscribed, fired, runs, history>>
      /\ UNCHANGED <<clientVars, toServer>>
  BY DEF Timeout, Respond
<1>3. /\ UNCHANGED <<client, outcome, unsent, handlers, listening, heard, toServer>>
      /\ \A id : (Unsent(id)' <=> Unsent(id)) /\ (Sent(id)' <=> Sent(id))
  BY <1>2, ClientKept
<1>4. /\ pending' \in Seq(Pending)
      /\ \A id : (Pends(id)' <=> Pends(id)) /\ (PendsOnce(id)' <=> PendsOnce(id))
  BY <1>1, <1>2, PendingElapsed DEF TypeOK, ServerTypeOK
<1>5. toClient \in Seq(ToClient) /\ pending[i] \in Pending
  BY <1>1 DEF TypeOK, ServerTypeOK
<1>6. /\ pending[i].type = "call" => m \in ToClient
      /\ m.type = "unknown"
  BY <1>5, PendingIs DEF Message, ToClient
<1> HIDE DEF m
<1>7. r \in Seq(ToClient) /\ \A j \in DOMAIN r : r[j].type = "unknown"
  BY <1>6
<1> HIDE DEF r
<1>8. toClient' \in Seq(ToClient)
  BY <1>2, <1>5, <1>7
<1>9. \A c : /\ HasAnswer(toClient', c, {"result", "error"}) <=> HasAnswer(toClient, c, {"result", "error"})
             /\ HasAnswer(toClient, c, {"result", "error", "unknown"}) =>
                    HasAnswer(toClient', c, {"result", "error", "unknown"})
  <2>1. \A c : ~HasAnswer(r, c, {"result", "error"})
    BY <1>7 DEF HasAnswer
  <2> QED
    BY <1>2, <1>5, <1>7, <2>1, ConcatToClient
<1>10. TypeOK'
  BY <1>1, <1>2, <1>3, <1>4, <1>8 DEF TypeOK, ClientTypeOK, ServerTypeOK
<1>11. ASSUME NEW c \in Calls PROVE CallOK(c)'
  <2>1. CallOK(c)
    BY <1>1
  <2>2. OnePlace(c)'
    BY <1>2, <1>3, <1>4, <2>1 DEF CallOK, OnePlace
  <2>3. AnsweredHasRun(c)'
    BY <1>2, <1>9, <2>1 DEF CallOK, AnsweredHasRun
  <2>4. CancelFollows(c)'
    BY <1>2, <1>3, <1>4, <2>1 DEF CallOK, CancelFollows
  <2>5. HandledUntilAnswered(c)'
    BY <1>2, <1>3, <1>4, <1>9, <2>1 DEF CallOK, HandledUntilAnswered
  <2> QED
    BY <2>2, <2>3, <2>4, <2>5 DEF CallOK
<1>12. ASSUME NEW e \in Events PROVE EventKept(e)'
  BY <1>1, <1>2, <1>3 DEF EventKept
<1>13. ASSUME NEW e \in Events, EventOK(e) PROVE EventOK(e)'
  <2>1. \A j \in DOMAIN r : ~IsFire(r[j], e)
    BY <1>7 DEF IsFire
  <2>2. FiredInOrder(e)'
    BY <1>1, <1>2, <1>3, <1>7, <1>13, <2>1, FiredStays DEF EventOK
  <2> QED
    BY <1>2, <1>3, <1>4, <1>13, <2>2, EventUnaffected
<1> QED
  BY <1>1, <1>2, <1>10, <1>11, <1>12, <1>13, IInvKept

LEMMA AnswerStep ==
    ASSUME IInv, NEW a \in Calls, Answer(a)
    PROVE  IInv'
<1>1. /\ TypeOK /\ \A c \in Calls : CallOK(c)
      /\ \A e \in Events : EventKept(e)
      /\ \A e \in Events : e \in history.crossed \/ EventOK(e)
  BY IInvIs
<1>2. /\ token[a] # "none" /\ token' = [token EXCEPT ![a] = "none"] /\ active' = active \ {a}
      /\ UNCHANGED <<server, pending, subscribed, fired, runs>>
      /\ UNCHANGED <<clientVars, toServer>>
  BY DEF Answer
<1>3. /\ UNCHANGED <<client, outcome, unsent, handlers, listening, heard, toServer>>
      /\ \A id : (Unsent(id)' <=> Unsent(id)) /\ (Sent(id)' <=> Sent(id))
  BY <1>2, ClientKept
<1>4. \A id : (Pends(id)' <=> Pends(id)) /\ (PendsOnce(id)' <=> PendsOnce(id))
  BY <1>2, PendingKept
<1>5. toClient \in Seq(ToClient) /\ a \notin Events
  BY <1>1, CallsEvents DEF TypeOK
<1>6. PICK r \in Seq(ToClient) :
        /\ toClient' = toClient \o r
        /\ \A i \in DOMAIN r : r[i].id = a /\ r[i].type \in {"result", "error"}
        /\ history'.crossed = history.crossed
        /\ history.lost \subseteq history'.lost
        /\ a \in history'.lost \/ HasAnswer(r, a, {"result", "error", "unknown"})
        /\ history' \in [crossed : SUBSET Requests, lost : SUBSET Calls, inputs : Nat]
  <2>1. CASE \E type \in {"result", "error"} : Respond(<<Message(type, a)>>) /\ UNCHANGED history
    <3>1. PICK type \in {"result", "error"} : Respond(<<Message(type, a)>>)
      BY <2>1
    <3> DEFINE m == Message(type, a)
    <3>2. m \in ToClient /\ m.id = a /\ m.type \in {"result", "error"}
      BY DEF Message, ToClient
    <3> HIDE DEF m
    <3>3. <<m>> \in Seq(ToClient) /\ \A i \in DOMAIN <<m>> : <<m>>[i] = m
      BY <3>2
    <3>4. HasAnswer(<<m>>, a, {"result", "error", "unknown"})
      BY <3>2, OneToClient
    <3>5. toClient' = toClient \o <<m>>
      BY <3>1 DEF Respond, m
    <3>6. history \in [crossed : SUBSET Requests, lost : SUBSET Calls, inputs : Nat] /\ history' = history
      BY <1>1, <2>1 DEF TypeOK
    <3>7. \A i \in DOMAIN <<m>> : <<m>>[i].id = a /\ <<m>>[i].type \in {"result", "error"}
      BY <3>2, <3>3
    <3> DEFINE r == <<m>>
    <3>8. /\ r \in Seq(ToClient) /\ toClient' = toClient \o r
          /\ \A i \in DOMAIN r : r[i].id = a /\ r[i].type \in {"result", "error"}
          /\ HasAnswer(r, a, {"result", "error", "unknown"})
      BY <3>3, <3>4, <3>5, <3>7
    <3> HIDE DEF r
    <3> QED
      BY <3>6, <3>8
  <2>2. CASE history' = [history EXCEPT !.lost = history.lost \cup {a}] /\ UNCHANGED toClient
    <3>1. toClient' = toClient \o <<>> /\ <<>> \in Seq(ToClient) /\ DOMAIN <<>> = {}
      BY <1>5, <2>2
    <3>2. /\ history'.crossed = history.crossed /\ history'.lost = history.lost \cup {a}
          /\ history' \in [crossed : SUBSET Requests, lost : SUBSET Calls, inputs : Nat]
      BY <1>1, <2>2 DEF TypeOK
    <3> QED
      BY <3>1, <3>2
  <2> QED
    BY <2>1, <2>2 DEF Answer
<1>7. toClient' \in Seq(ToClient)
  BY <1>5, <1>6
<1>8. \A c, types : HasAnswer(toClient', c, types) <=> HasAnswer(toClient, c, types) \/ HasAnswer(r, c, types)
  BY <1>5, <1>6, ConcatToClient
<1>9. \A c, types : HasAnswer(r, c, types) => c = a
  BY <1>6 DEF HasAnswer
<1>10. /\ token' \in [Calls -> {"none", "running", "cancelled"}]
       /\ token'[a] = "none" /\ \A c \in Calls : c # a => token'[c] = token[c]
       /\ active' \subseteq Requests
       /\ \A id : id \in active' <=> id \in active /\ id # a
  BY <1>1, <1>2 DEF TypeOK, ServerTypeOK
<1>11. TypeOK'
  BY <1>1, <1>2, <1>3, <1>6, <1>7, <1>10 DEF TypeOK, ClientTypeOK, ServerTypeOK
<1>12. runs[a] = 1
  BY <1>1, <1>2 DEF CallOK, AnsweredHasRun
<1>13. ASSUME NEW c \in Calls PROVE CallOK(c)'
  <2>1. CallOK(c)
    BY <1>1
  <2>2. OnePlace(c)'
    BY <1>2, <1>3, <1>4, <2>1 DEF CallOK, OnePlace
  <2>3. AnsweredHasRun(c)'
    BY <1>2, <1>8, <1>9, <1>10, <1>12, <2>1 DEF CallOK, AnsweredHasRun
  <2>4. CancelFollows(c)'
    BY <1>3, <1>4, <1>6, <1>10, <2>1 DEF CallOK, CancelFollows
  <2>5. HandledUntilAnswered(c)'
    BY <1>3, <1>4, <1>6, <1>8, <1>10, <2>1 DEF CallOK, HandledUntilAnswered
  <2> QED
    BY <2>2, <2>3, <2>4, <2>5 DEF CallOK
<1>14. ASSUME NEW e \in Events PROVE EventKept(e)'
  BY <1>1, <1>2, <1>3, <1>10 DEF EventKept
<1>15. ASSUME NEW e \in Events, EventOK(e) PROVE EventOK(e)'
  <2>1. \A j \in DOMAIN r : ~IsFire(r[j], e)
    BY <1>6 DEF IsFire
  <2>2. FiredInOrder(e)'
    BY <1>1, <1>2, <1>3, <1>6, <1>15, <2>1, FiredStays DEF EventOK
  <2>3. e # a
    BY <1>5
  <2> QED
    BY <1>2, <1>3, <1>4, <1>10, <1>15, <2>2, <2>3, EventUnaffected
<1> QED
  BY <1>1, <1>6, <1>11, <1>13, <1>14, <1>15, IInvKept

LEMMA FireStep ==
    ASSUME IInv, NEW x \in Events, Fire(x)
    PROVE  IInv'
<1>1. /\ TypeOK /\ \A c \in Calls : CallOK(c)
      /\ \A e \in Events : EventKept(e)
      /\ \A e \in Events : e \in history.crossed \/ EventOK(e)
  BY IInvIs
<1>2. /\ history' \in [crossed : SUBSET Requests, lost : SUBSET Calls, inputs : Nat]
      /\ history'.crossed = history.crossed /\ history'.lost = history.lost
  BY <1>1, InputIs DEF Fire
<1> DEFINE m == [type |-> "fire", id |-> x, number |-> fired + 1]
           r == [i \in 1..subscribed[x] |-> m]
<1>3. /\ fired < MaxFires /\ subscribed[x] > 0 /\ fired' = fired + 1
      /\ toClient' = toClient \o r
      /\ UNCHANGED <<server, pending, token, active, subscribed, runs>>
      /\ UNCHANGED <<clientVars, toServer>>
  BY DEF Fire, Respond
<1>4. /\ UNCHANGED <<client, outcome, unsent, handlers, listening, heard, toServer>>
      /\ \A id : (Unsent(id)' <=> Unsent(id)) /\ (Sent(id)' <=> Sent(id))
  BY <1>3, ClientKept
<1>5. \A id : (Pends(id)' <=> Pends(id)) /\ (PendsOnce(id)' <=> PendsOnce(id))
  BY <1>3, PendingKept
<1>6. fired \in Nat /\ subscribed[x] \in Nat /\ fired' \in 1..MaxFires /\ toClient \in Seq(ToClient)
  BY <1>1, <1>3 DEF TypeOK, ServerTypeOK
<1>7. m \in ToClient /\ m.type = "fire" /\ m.id = x /\ m.number = fired'
  BY <1>3, <1>6 DEF ToClient
<1> HIDE DEF m
<1>8. /\ r \in Seq(ToClient) /\ DOMAIN r = 1..subscribed[x] /\ \A i \in DOMAIN r : r[i] = m
  BY <1>6, <1>7
<1> HIDE DEF r
<1>9. toClient' \in Seq(ToClient)
  BY <1>3, <1>6, <1>8
<1>10. ASSUME NEW c \in Calls, NEW types PROVE HasAnswer(toClient', c, types) <=> HasAnswer(toClient, c, types)
  <2>1. ~HasAnswer(r, c, types)
    BY <1>7, <1>8, CallsEvents DEF HasAnswer
  <2> QED
    BY <1>3, <1>6, <1>8, <2>1, ConcatToClient
<1>11. TypeOK'
  <2>1. fired' \in 0..MaxFires
    BY <1>6
  <2> QED
    BY <1>1, <1>2, <1>3, <1>4, <1>9, <2>1 DEF TypeOK, ClientTypeOK, ServerTypeOK
<1>12. ASSUME NEW c \in Calls PROVE CallOK(c)'
  <2>1. CallOK(c)
    BY <1>1
  <2>2. OnePlace(c)'
    BY <1>3, <1>4, <1>5, <2>1 DEF CallOK, OnePlace
  <2>3. AnsweredHasRun(c)'
    BY <1>3, <1>10, <2>1 DEF CallOK, AnsweredHasRun
  <2>4. CancelFollows(c)'
    BY <1>2, <1>3, <1>4, <1>5, <2>1 DEF CallOK, CancelFollows
  <2>5. HandledUntilAnswered(c)'
    BY <1>2, <1>3, <1>4, <1>5, <1>10, <2>1 DEF CallOK, HandledUntilAnswered
  <2> QED
    BY <2>2, <2>3, <2>4, <2>5 DEF CallOK
<1>13. ASSUME NEW e \in Events PROVE EventKept(e)'
  BY <1>1, <1>3, <1>4 DEF EventKept
<1>14. ASSUME NEW e \in Events, EventOK(e) PROVE EventOK(e)'
  <2>1. heard[e] \in Nat /\ heard[e] <= fired /\ InOrder(toClient, e, heard[e], fired) /\ e \in Events
    BY <1>1, <1>14 DEF TypeOK, ClientTypeOK, EventOK, FiredInOrder
  <2>2. fired' \in Nat /\ fired <= fired' /\ fired' > fired /\ heard[e] <= fired'
    BY <1>3, <1>6, <2>1
  <2>3. \A i \in DOMAIN r : IsFire(r[i], e) => r[i].number = fired' /\ fired' > fired
    BY <1>7, <1>8, <2>2
  <2>4. \A i, j \in DOMAIN r : IsFire(r[i], e) /\ IsFire(r[j], e) => i = j
    <3>1. CASE e # x
      BY <1>7, <1>8, <3>1 DEF IsFire
    <3>2. CASE e = x
      <4>1. subscribed[x] = 1
        BY <1>3, <1>14, <3>2 DEF EventOK, ListenedOnce
      <4> QED
        BY <1>8, <4>1
    <3> QED
      BY <3>1, <3>2
  <2>5. InOrder(toClient \o r, e, heard[e], fired')
    BY ONLY <1>6, <1>8, <2>1, <2>2, <2>3, <2>4, ConcatInOrder
  <2>6. FiredInOrder(e)'
    BY <1>3, <1>4, <2>2, <2>5 DEF FiredInOrder
  <2> QED
    BY <1>3, <1>4, <1>5, <1>14, <2>6, EventUnaffected
<1> QED
  BY <1>1, <1>2, <1>11, <1>12, <1>13, <1>14, IInvKept

LEMMA ServerDisposesStep ==
    ASSUME IInv, ServerDisposes
    PROVE  IInv'
<1>1. /\ TypeOK /\ \A c \in Calls : CallOK(c)
      /\ \A e \in Events : EventKept(e)
      /\ \A e \in Events : e \in history.crossed \/ EventOK(e)
  BY IInvIs
<1>2. /\ server' = [server EXCEPT !.disposed = TRUE]
      /\ DisposeActive(active)
      /\ UNCHANGED <<pending, fired, runs, toClient, history>>
      /\ UNCHANGED <<clientVars, toServer>>
  BY DEF ServerDisposes
<1>3. /\ UNCHANGED <<client, outcome, unsent, handlers, listening, heard, toServer>>
      /\ \A id : (Unsent(id)' <=> Unsent(id)) /\ (Sent(id)' <=> Sent(id))
  BY <1>2, ClientKept
<1>4. \A id : (Pends(id)' <=> Pends(id)) /\ (PendsOnce(id)' <=> PendsOnce(id))
  BY <1>2, PendingKept
<1>5. /\ server' \in [registered : BOOLEAN, flushes : Nat, registrations : Nat, disposed : BOOLEAN]
      /\ server'.disposed
  BY <1>1, <1>2 DEF TypeOK, ServerTypeOK
<1>6. /\ token' \in [Calls -> {"none", "running", "cancelled"}]
      /\ active' \subseteq Requests /\ subscribed' \in [Events -> Nat]
      /\ \A c \in Calls : token'[c] = IF c \in active /\ c \in active THEN "cancelled" ELSE token[c]
      /\ \A id : id \in active' <=> id \in active /\ id \notin active
      /\ \A e \in Events : subscribed'[e] = IF e \in active /\ e \in active
                                            THEN subscribed[e] - 1 ELSE subscribed[e]
  <2>1. ServerTypeOK
    BY <1>1 DEF TypeOK
  <2> QED
    BY ONLY <1>1, <1>2, <2>1, DisposeActiveIs
<1>7. TypeOK'
  BY <1>1, <1>2, <1>3, <1>5, <1>6 DEF TypeOK, ClientTypeOK, ServerTypeOK
<1>8. ASSUME NEW c \in Calls PROVE CallOK(c)'
  <2>1. CallOK(c)
    BY <1>1
  <2>2. token'[c] # "running" /\ c \notin active' /\ (token[c] # "none" <=> token'[c] # "none")
    BY <1>6, <2>1 DEF CallOK, AnsweredHasRun
  <2>3. OnePlace(c)'
    BY <1>2, <1>3, <1>4, <2>1 DEF CallOK, OnePlace
  <2>4. AnsweredHasRun(c)'
    BY <1>2, <2>1, <2>2 DEF CallOK, AnsweredHasRun
  <2>5. CancelFollows(c)'
    BY <1>2, <1>3, <1>4, <2>1, <2>2 DEF CallOK, CancelFollows
  <2>6. HandledUntilAnswered(c)'
    BY <1>2, <1>3, <1>4, <2>1, <2>2 DEF CallOK, HandledUntilAnswered
  <2> QED
    BY <2>3, <2>4, <2>5, <2>6 DEF CallOK
<1>9. ASSUME NEW e \in Events PROVE EventKept(e)'
  BY <1>1, <1>3, <1>6, <1>9 DEF EventKept
<1>10. ASSUME NEW e \in Events, EventOK(e) PROVE EventOK(e)'
  <2>1. FiredInOrder(e)'
    BY <1>2, <1>3, <1>10, FiredKept DEF EventOK
  <2>2. subscribed'[e] = 0 /\ e \notin active'
    BY <1>6, <1>10 DEF EventOK, ListenedOnce
  <2>3. PendsOnce(e)'
    BY <1>4, <1>10 DEF EventOK, ListenedOnce
  <2>4. ListenedOnce(e)'
    BY <1>5, <2>2, <2>3 DEF ListenedOnce
  <2> QED
    BY <2>1, <2>4 DEF EventOK
<1> QED
  BY <1>1, <1>2, <1>7, <1>8, <1>9, <1>10, IInvKept

LEMMA StutterStep ==
    ASSUME IInv, UNCHANGED vars
    PROVE  IInv'
<1>1. /\ UNCHANGED <<client, outcome, unsent, handlers, listening, heard>>
      /\ UNCHANGED <<server, pending, token, active, subscribed, fired, runs>>
      /\ UNCHANGED <<toServer, toClient, history>>
  BY DEF vars, clientVars, serverVars
<1> QED
  BY <1>1 DEF IInv, TypeOK, ClientTypeOK, ServerTypeOK, OnePlace, AnsweredHasRun, CancelFollows,
              HandledUntilAnswered, EventKept, ListenedOnce, FiredInOrder, Unsent, Sent, Pends,
              PendsOnce, Has, Wants

-----------------------------------------------------------------------------
(* What follows.                                                           *)

LEMMA InitIsInvariant ==
    ASSUME Init
    PROVE  IInv
<1> DEFINE hello == Message("initialize", 0)
<1>1. /\ client = [initialized |-> FALSE, disposed |-> FALSE]
      /\ outcome = [c \in Calls |-> "none"]
      /\ unsent = <<>> /\ handlers = {} /\ listening = {} /\ heard = [e \in Events |-> 0]
      /\ server = [registered |-> FALSE, flushes |-> 0, registrations |-> 0, disposed |-> FALSE]
      /\ pending = <<>> /\ token = [c \in Calls |-> "none"] /\ active = {}
      /\ subscribed = [e \in Events |-> 0] /\ fired = 0 /\ runs = [c \in Calls |-> 0]
      /\ toServer = <<>> /\ toClient = <<hello>>
      /\ history = [crossed |-> {}, lost |-> {}, inputs |-> 0]
  BY DEF Init
<1>2. hello \in ToClient /\ hello.type = "initialize"
  BY DEF ToClient, Message
<1> HIDE DEF hello
<1>3. toClient \in Seq(ToClient) /\ \A i \in DOMAIN toClient : toClient[i].type = "initialize"
  BY <1>1, <1>2
<1>4. ClientTypeOK
  BY <1>1 DEF ClientTypeOK, Outcomes
<1>5. ServerTypeOK
  BY <1>1 DEF ServerTypeOK
<1>6. toServer \in Seq(ToServer)
  BY <1>1
<1>7. TypeOK
  BY <1>1, <1>3, <1>4, <1>5, <1>6 DEF TypeOK
<1>8. \A id : ~Unsent(id) /\ ~Sent(id) /\ ~Pends(id) /\ Once(unsent, id) /\ PendsOnce(id)
              /\ RequestedOnce(toServer, id)
  BY <1>1, NothingContains, NothingToServer DEF Unsent, Sent, Pends, PendsOnce
<1>9. ASSUME NEW c \in Calls
      PROVE  OnePlace(c) /\ AnsweredHasRun(c) /\ CancelFollows(c) /\ HandledUntilAnswered(c)
  <2>1. ~HasAnswer(toClient, c, {"result", "error"})
    BY <1>3 DEF HasAnswer
  <2> QED
    BY <1>1, <1>8, <2>1 DEF OnePlace, AnsweredHasRun, CancelFollows, HandledUntilAnswered
<1>10. ASSUME NEW e \in Events PROVE EventKept(e) /\ ListenedOnce(e) /\ FiredInOrder(e)
  <2>1. EventKept(e)
    BY <1>1, <1>8 DEF EventKept
  <2>2. Alternate(toServer, e, Has(e), Wants(e))
    <3>1. Has(e) = FALSE /\ Wants(e) = FALSE
      BY <1>1, <1>8 DEF Has, Wants
    <3> QED
      BY <1>1, <3>1, NothingAlternates
  <2>3. ListenedOnce(e)
    BY <1>1, <1>8, <2>2 DEF ListenedOnce
  <2>4. FiredInOrder(e)
    BY <1>1, <1>3 DEF FiredInOrder, InOrder, IsFire
  <2> QED
    BY <2>1, <2>3, <2>4
<1> QED
  BY <1>7, <1>9, <1>10 DEF IInv

LEMMA NextKeepsInvariant ==
    ASSUME IInv, [Next]_vars
    PROVE  IInv'
<1>1. CASE ClientReceives
  BY <1>1, InitializedStep, AnsweredStep, HearsStep
<1>2. CASE ServerReceives
  <2>1. ASSUME toServer # <<>> PROVE Head(toServer).type \in {"call", "listen", "cancel", "unlisten"}
    <3>1. Head(toServer) \in ToServer
      BY <2>1, TailIs DEF IInv, TypeOK
    <3> QED
      BY <3>1 DEF ToServer
  <2>2. toServer # <<>>
    BY <1>2 DEF ServerReceives
  <2> QED
    BY <1>2, <2>1, <2>2, StartedStep, PendingStep, EndedStep
<1>3. CASE FlushPendingRequests
  BY <1>3, FlushStep
<1>4. CASE \E i \in DOMAIN pending : Timeout(i)
  BY <1>4, TimeoutStep
<1>5. CASE \E c \in Calls : Answer(c)
  BY <1>5, AnswerStep
<1>6. CASE ClientDisposes
  BY <1>6, ClientDisposesStep
<1>7. CASE \E c \in Calls : Call(c) \/ Cancel(c)
  BY <1>7, CallStep, CancelStep
<1>8. CASE \E e \in Events : Listen(e) \/ Unlisten(e) \/ Fire(e)
  BY <1>8, ListenStep, UnlistenStep, FireStep
<1>9. CASE Register
  BY <1>9, RegisterStep
<1>10. CASE ServerDisposes
  BY <1>10, ServerDisposesStep
<1>11. CASE UNCHANGED vars
  BY <1>11, StutterStep
<1> QED
  BY <1>1, <1>2, <1>3, <1>4, <1>5, <1>6, <1>7, <1>8, <1>9, <1>10, <1>11 DEF Next, Runs

\* What the two ends of a connection rely on holds always: a call has at most one
\* place between its caller and its run, what is cancelled has its cancellation
\* behind it, and of an event that was not given up while its channel was unknown
\* the requests and ends on their way lead the server to what the client wants.
THEOREM ChannelsInvariant == Spec => []IInv
<1>1. Init => IInv
  BY InitIsInvariant
<1>2. IInv /\ [Next]_vars => IInv'
  BY NextKeepsInvariant
<1> QED
  BY <1>1, <1>2, PTL DEF Spec

\* Once nothing is on its way, the server has exactly one listener for every event
\* that is listened to, and the client has handlers for what it waits for and for
\* nothing that is over (addEventListener, disposeActiveRequest, onResponse).
THEOREM EndsAgreeAtRest == Spec => []EndsAgree
<1>1. ASSUME IInv PROVE EndsAgree
  <2> SUFFICES ASSUME AtRest, ~client.disposed, ~server.disposed
               PROVE  /\ \A e \in Events \ history.crossed :
                            subscribed[e] = IF e \in listening THEN 1 ELSE 0
                      /\ listening \subseteq handlers
                      /\ handlers \subseteq listening \cup history.lost \cup {c \in Calls : token[c] # "none"}
    BY DEF EndsAgree
  <2>1. toServer = <<>> /\ toClient = <<>> /\ unsent = <<>> /\ pending = <<>>
    BY DEF AtRest
  <2>2. \A id : ~Unsent(id) /\ ~Sent(id) /\ ~Pends(id)
    BY <2>1, NothingContains, NothingToServer DEF Unsent, Sent, Pends
  <2>3. \A e \in Events : e \in handlers <=> e \in listening
    BY <1>1 DEF IInv, EventKept
  <2>4. handlers \subseteq Calls \cup Events /\ listening \subseteq Events
    BY <1>1 DEF IInv, TypeOK, ClientTypeOK, Requests
  <2>5. ASSUME NEW e \in Events \ history.crossed
        PROVE  subscribed[e] = IF e \in listening THEN 1 ELSE 0
    <3>1. ListenedOnce(e)
      BY <1>1 DEF IInv
    <3> DEFINE has == Pends(e) \/ e \in active
               wants == e \in listening /\ ~Unsent(e)
    <3>2. Alternate(<<>>, e, has, wants)
      BY <2>1, <3>1, ListenedOnceIs
    <3>3. has \in BOOLEAN /\ wants \in BOOLEAN
      OBVIOUS
    <3> HIDE DEF has, wants
    <3>4. has = wants
      BY <3>2, <3>3, NothingAlternates
    <3>5. e \in active <=> e \in listening
      BY <2>2, <3>4 DEF has, wants
    <3> QED
      BY <3>1, <3>5 DEF ListenedOnce
  <2>6. ASSUME NEW c \in Calls, c \in handlers PROVE c \in history.lost \/ token[c] # "none"
    <3>1. HandledUntilAnswered(c)
      BY <1>1 DEF IInv
    <3>2. ~HasAnswer(toClient, c, {"result", "error", "unknown"})
      BY <2>1 DEF HasAnswer
    <3> QED
      BY <2>2, <2>6, <3>1, <3>2 DEF HandledUntilAnswered
  <2> QED
    BY <2>3, <2>4, <2>5, <2>6
<1> QED
  BY <1>1, ChannelsInvariant, PTL

\* A call that is cancelled is cancelled where it runs once the message is there,
\* unless that came while the request was still pending (disposeActiveRequest).
THEOREM CancellationsArrive == Spec => []CancelsArrive
<1>1. ASSUME IInv PROVE CancelsArrive
  <2>1. \A id : ~HasEnd(<<>>, id)
    BY NothingToServer
  <2> QED
    BY <1>1, <2>1 DEF IInv, CancelFollows, CancelsArrive
<1> QED
  BY <1>1, ChannelsInvariant, PTL

\* A listener hears no event twice and none after a later one, whoever left and
\* listened again while events were on their way (requestEvent, onResponse).
THEOREM EventsAreNews == Spec => []HeardOnce
<1>1. ASSUME IInv PROVE HeardOnce
  <2> SUFFICES ASSUME NEW e \in (Events \cap handlers) \ history.crossed, NEW i \in DOMAIN toClient,
                      IsFire(toClient[i], e)
               PROVE  /\ toClient[i].number > heard[e]
                      /\ \A j \in 1..(i - 1) :
                             IsFire(toClient[j], e) => toClient[j].number < toClient[i].number
    BY DEF HeardOnce
  <2>1. InOrder(toClient, e, heard[e], fired) /\ toClient \in Seq(ToClient)
    BY <1>1 DEF IInv, FiredInOrder, TypeOK
  <2>2. \A j \in 1..(i - 1) : j \in DOMAIN toClient /\ j < i
    <3>1. DOMAIN toClient = 1..Len(toClient) /\ Len(toClient) \in Nat /\ i \in 1..Len(toClient)
      BY <2>1
    <3> QED
      BY <3>1
  <2> QED
    BY <2>1, <2>2 DEF InOrder
<1> QED
  BY <1>1, ChannelsInvariant, PTL

-----------------------------------------------------------------------------
(* Whoever calls is to be answered.                                        *)

\* What the client asks or gives up leaves the answers that are on their way.
LEMMA ClientAnswersCome ==
    ASSUME AnswersCome, UNCHANGED <<pending, toClient>>, client'.initialized = client.initialized,
           \A c \in Calls : ServesPending(c)' /\ (c \in handlers' => c \in handlers \/ ~Pends(c))
    PROVE  AnswersCome'
<1>1. ASSUME NEW c \in Calls PROVE TellsElapsed(c)'
  <2>1. TellsElapsed(c) /\ (Elapsed(c)' <=> Elapsed(c)) /\ (Elapsed(c) => Pends(c))
    BY DEF AnswersCome, Elapsed, Pends
  <2> QED
    BY <2>1 DEF TellsElapsed
<1> QED
  BY <1>1 DEF AnswersCome

\* What the server does only adds to them.
LEMMA ServerAnswersCome ==
    ASSUME AnswersCome, UNCHANGED clientVars,
           \A c \in Calls : Elapsed(c)' => Elapsed(c) \/ HasAnswer(toClient', c, {"unknown"}),
           \A id, types : HasAnswer(toClient, id, types) => HasAnswer(toClient', id, types)
    PROVE  AnswersCome'
<1>1. UNCHANGED <<client, outcome, unsent, handlers>>
  BY DEF clientVars
<1>2. ASSUME NEW c \in Calls PROVE ServesPending(c)' /\ TellsElapsed(c)'
  <2>1. ServesPending(c) /\ TellsElapsed(c)
    BY DEF AnswersCome
  <2>2. ServesPending(c)'
    BY <1>1, <2>1 DEF ServesPending, Unsent
  <2>3. TellsElapsed(c)'
    BY <1>1, <2>1 DEF TellsElapsed
  <2> QED
    BY <2>2, <2>3
<1>3. client'.initialized \/ HasAnswer(toClient', 0, {"initialize"})
  BY <1>1 DEF AnswersCome
<1> QED
  BY <1>2, <1>3 DEF AnswersCome

LEMMA CallAnswersCome ==
    ASSUME IInv, AnswersCome, NEW a \in Calls, Call(a)
    PROVE  AnswersCome'
<1>1. /\ UNCHANGED <<client, pending, toClient>> /\ outcome[a] = "none"
      /\ unsent \in Seq(Requests) /\ toServer \in Seq(ToServer) /\ client.initialized \in BOOLEAN
      /\ client.initialized => unsent = <<>>
      /\ a \in Requests /\ outcome \in [Calls -> Outcomes]
  BY CallsEvents DEF Call, serverVars, IInv, TypeOK, ClientTypeOK
<1>2. ~Pends(a)
  BY <1>1 DEF IInv, OnePlace
<1>3. CASE client.disposed
  <2>1. UNCHANGED <<unsent, handlers>> /\ outcome' = [outcome EXCEPT ![a] = "cancelled"]
    BY <1>3 DEF Call
  <2>2. \A c \in Calls : ServesPending(c)'
    BY <1>1, <2>1 DEF AnswersCome, ServesPending, Unsent
  <2> QED
    BY <1>1, <2>1, <2>2, ClientAnswersCome
<1>4. CASE ~client.disposed
  <2>1. /\ outcome' = [outcome EXCEPT ![a] = "pending"] /\ Ask(a)
        /\ handlers' = IF client.initialized THEN handlers \cup {a} ELSE handlers
    BY <1>4 DEF Call
  <2>2. \A id \in Requests : Unsent(id)' <=> Unsent(id) \/ (id = a /\ ~client.initialized)
    BY ONLY <1>1, <2>1, AskIs
  <2>3. ASSUME NEW c \in Calls PROVE ServesPending(c)'
    <3>1. ServesPending(c) /\ c \in Requests
      BY CallsEvents DEF AnswersCome
    <3>2. CASE c = a
      BY <1>1, <1>4, <2>1, <2>2, <3>2 DEF ServesPending
    <3>3. CASE c # a
      <4>1. outcome'[c] = outcome[c] /\ (Unsent(c)' <=> Unsent(c)) /\ (c \in handlers => c \in handlers')
        BY <1>1, <2>1, <2>2, <3>1, <3>3
      <4> QED
        BY <1>1, <3>1, <4>1 DEF ServesPending
    <3> QED
      BY <3>2, <3>3
  <2> QED
    BY <1>1, <1>2, <2>1, <2>3, ClientAnswersCome
<1> QED
  BY <1>3, <1>4

LEMMA CancelAnswersCome ==
    ASSUME IInv, AnswersCome, NEW a \in Calls, Cancel(a)
    PROVE  AnswersCome'
<1>1. /\ UNCHANGED <<client, handlers, pending, toClient>>
      /\ outcome' = [outcome EXCEPT ![a] = "cancelled"] /\ unsent' = Without(unsent, a)
      /\ unsent \in Seq(Requests) /\ Once(unsent, a) /\ outcome \in [Calls -> Outcomes]
  BY DEF Cancel, serverVars, IInv, TypeOK, ClientTypeOK, OnePlace
<1>2. \A x : Unsent(x)' <=> Unsent(x) /\ x # a
  BY <1>1, WithoutIs DEF Unsent
<1>3. \A c \in Calls : ServesPending(c)'
  BY <1>1, <1>2 DEF AnswersCome, ServesPending
<1> QED
  BY <1>1, <1>3, ClientAnswersCome

LEMMA ListenAnswersCome ==
    ASSUME IInv, AnswersCome, NEW e \in Events, Listen(e)
    PROVE  AnswersCome'
<1>1. /\ UNCHANGED <<client, outcome, pending, toClient>> /\ handlers' = handlers \cup {e} /\ Ask(e)
      /\ unsent \in Seq(Requests) /\ toServer \in Seq(ToServer) /\ client.initialized \in BOOLEAN
      /\ client.initialized => unsent = <<>>
      /\ e \in Requests /\ \A c \in Calls : c # e /\ c \in Requests
  BY CallsEvents DEF Listen, serverVars, IInv, TypeOK, ClientTypeOK
<1>2. \A id \in Requests : Unsent(id)' <=> Unsent(id) \/ (id = e /\ ~client.initialized)
  BY ONLY <1>1, AskIs
<1>3. ASSUME NEW c \in Calls PROVE ServesPending(c)' /\ (c \in handlers' => c \in handlers)
  <2>1. ServesPending(c) /\ (Unsent(c)' <=> Unsent(c))
    BY <1>1, <1>2 DEF AnswersCome
  <2> QED
    BY <1>1, <2>1 DEF ServesPending
<1> QED
  BY <1>1, <1>3, ClientAnswersCome

LEMMA UnlistenAnswersCome ==
    ASSUME IInv, AnswersCome, NEW e \in Events, Unlisten(e)
    PROVE  AnswersCome'
<1>1. /\ UNCHANGED <<client, outcome, pending, toClient>> /\ handlers' = handlers \ {e}
      /\ unsent' = Without(unsent, e) /\ unsent \in Seq(Requests) /\ Once(unsent, e)
      /\ \A c \in Calls : c # e
  BY CallsEvents DEF Unlisten, serverVars, IInv, TypeOK, ClientTypeOK, EventKept
<1>2. \A x : Unsent(x)' <=> Unsent(x) /\ x # e
  BY <1>1, WithoutIs DEF Unsent
<1>3. \A c \in Calls : ServesPending(c)' /\ (c \in handlers' => c \in handlers)
  BY <1>1, <1>2 DEF AnswersCome, ServesPending
<1> QED
  BY <1>1, <1>3, ClientAnswersCome

\* Of a client that is disposed no call is left to be settled.
LEMMA ClientDisposesAnswersCome ==
    ASSUME IInv, AnswersCome, ClientDisposes
    PROVE  AnswersCome'
<1>1. /\ UNCHANGED <<pending, toClient>> /\ client' = [client EXCEPT !.disposed = TRUE]
      /\ outcome' = [c \in Calls |-> IF outcome[c] = "pending" THEN "cancelled" ELSE outcome[c]]
      /\ handlers' \subseteq handlers /\ client \in [initialized : BOOLEAN, disposed : BOOLEAN]
  BY DEF ClientDisposes, serverVars, IInv, TypeOK, ClientTypeOK
<1>2. client'.initialized = client.initialized
  BY <1>1
<1>3. \A c \in Calls : ServesPending(c)' /\ (c \in handlers' => c \in handlers)
  BY <1>1 DEF ServesPending
<1> QED
  BY <1>1, <1>2, <1>3, ClientAnswersCome

LEMMA ReceivesAnswersCome ==
    ASSUME IInv, AnswersCome, ClientReceives
    PROVE  AnswersCome'
<1> DEFINE h == Head(toClient)
<1>1. /\ ~client.disposed /\ toClient # <<>> /\ toClient \in Seq(ToClient) /\ toClient' = Tail(toClient)
      /\ UNCHANGED pending
      /\ h \in ToClient /\ unsent \in Seq(Requests) /\ outcome \in [Calls -> Outcomes]
      /\ client \in [initialized : BOOLEAN, disposed : BOOLEAN]
  <2>1. /\ ~client.disposed /\ toClient # <<>> /\ toClient' = Tail(toClient) /\ UNCHANGED pending
    BY DEF ClientReceives, serverVars
  <2>2. /\ toClient \in Seq(ToClient) /\ unsent \in Seq(Requests) /\ outcome \in [Calls -> Outcomes]
        /\ client \in [initialized : BOOLEAN, disposed : BOOLEAN]
    BY DEF IInv, TypeOK, ClientTypeOK
  <2>3. h \in ToClient
    BY <2>1, <2>2, TailIs
  <2> QED
    BY <2>1, <2>2, <2>3
<1>2. \A types, id : HasAnswer(toClient, id, types) <=>
            (h.id = id /\ h.type \in types) \/ HasAnswer(toClient', id, types)
  BY <1>1, TailToClient
<1>3. /\ h.type = "initialize" => ClientInitialized
      /\ h.type = "fire" => ClientHears(h)
      /\ h.type \notin {"initialize", "fire"} => ClientAnswered(h)
  BY DEF ClientReceives
<1>4. \/ h.type = "initialize" /\ h.id = 0
      \/ h.type = "fire" /\ h.id \in Events
      \/ h.type \in {"result", "error", "unknown"} /\ h.id \in Calls
  BY <1>1, ToClientIs
<1>5. \A c \in Calls : /\ ServesPending(c) /\ TellsElapsed(c) /\ (Elapsed(c)' <=> Elapsed(c))
                       /\ Elapsed(c) => Pends(c)
  BY <1>1 DEF AnswersCome, Elapsed, Pends
<1> HIDE DEF h
<1>6. CASE h.type = "initialize"
  <2>1. /\ client' = [client EXCEPT !.initialized = TRUE] /\ handlers' = handlers \cup Range(unsent)
        /\ UNCHANGED outcome
    BY <1>3, <1>6 DEF ClientInitialized
  <2>2. client'.initialized /\ client'.disposed = client.disposed
    BY <1>1, <2>1
  <2>3. \A id : id \in handlers' <=> id \in handlers \/ Unsent(id)
    BY <1>1, <2>1, ContainsIs DEF Range, Unsent
  <2>4. ASSUME NEW c \in Calls PROVE ServesPending(c)' /\ TellsElapsed(c)'
    <3>1. ServesPending(c)'
      BY <1>1, <1>5, <2>1, <2>2, <2>3 DEF ServesPending
    <3>2. Unsent(c) => ~Elapsed(c)
      BY <1>5 DEF IInv, OnePlace
    <3>3. HasAnswer(toClient, c, {"unknown"}) => HasAnswer(toClient', c, {"unknown"})
      BY <1>2, <1>6
    <3>4. TellsElapsed(c)'
      BY <1>5, <2>3, <3>2, <3>3 DEF TellsElapsed
    <3> QED
      BY <3>1, <3>4
  <2> QED
    BY <2>2, <2>4 DEF AnswersCome
<1>7. CASE h.type # "initialize"
  <2>1. /\ UNCHANGED <<client, unsent>> /\ handlers' \subseteq handlers
        /\ \A c \in Calls : c # h.id => outcome'[c] = outcome[c] /\ (c \in handlers => c \in handlers')
        /\ \A c \in Calls : c = h.id =>
                \/ c \notin handlers' /\ outcome'[c] # "pending"
                \/ c \notin handlers /\ handlers' = handlers /\ outcome'[c] = outcome[c]
    <3>1. CASE h.type = "fire"
      BY <1>3, <1>4, <3>1, CallsEvents DEF ClientHears
    <3>2. CASE h.type # "fire"
      BY <1>1, <1>3, <1>4, <1>7, <3>2 DEF ClientAnswered
    <3> QED
      BY <3>1, <3>2
  <2>2. client'.initialized \/ HasAnswer(toClient', 0, {"initialize"})
    BY <1>2, <1>7, <2>1 DEF AnswersCome
  <2>3. ASSUME NEW c \in Calls PROVE ServesPending(c)' /\ TellsElapsed(c)'
    <3>1. UNCHANGED client /\ (Unsent(c)' <=> Unsent(c))
      BY <2>1 DEF Unsent
    <3>2. CASE c = h.id
      BY <1>5, <2>1, <3>1, <3>2 DEF ServesPending, TellsElapsed
    <3>3. CASE c # h.id
      BY <1>2, <1>5, <2>1, <3>1, <3>3 DEF ServesPending, TellsElapsed
    <3> QED
      BY <3>2, <3>3
  <2> QED
    BY <2>2, <2>3 DEF AnswersCome
<1> QED
  BY <1>6, <1>7

LEMMA ServerReceivesAnswersCome ==
    ASSUME IInv, AnswersCome, ServerReceives
    PROVE  AnswersCome'
<1>1. /\ UNCHANGED <<clientVars, toClient>>
      /\ UNCHANGED pending \/ \E type, id : pending' = Append(pending, [type |-> type, id |-> id, timer |-> TRUE])
  BY DEF ServerReceives
<1>2. ASSUME NEW c \in Calls, Elapsed(c)' PROVE Elapsed(c)
  <2>1. CASE UNCHANGED pending
    BY <1>2, <2>1 DEF Elapsed
  <2>2. ASSUME NEW type, NEW id, pending' = Append(pending, [type |-> type, id |-> id, timer |-> TRUE])
        PROVE  Elapsed(c)
    <3> DEFINE p == [type |-> type, id |-> id, timer |-> TRUE]
               S == Pending \cup {p}
    <3>1. pending \in Seq(Pending)
      BY DEF IInv, TypeOK, ServerTypeOK
    <3>2. pending \in Seq(S) /\ p \in S /\ p.timer
      BY <3>1
    <3>3. pending' = Append(pending, p)
      BY <2>2
    <3> HIDE DEF p, S
    <3>4. /\ \A i \in DOMAIN pending : pending'[i] = pending[i]
          /\ pending'[Len(pending) + 1] = p
          /\ \A i \in DOMAIN pending' : i \in DOMAIN pending \/ i = Len(pending) + 1
      BY <3>2, <3>3, AppendIs
    <3>5. PICK i \in DOMAIN pending' : pending'[i].id = c /\ ~pending'[i].timer
      BY <1>2 DEF Elapsed
    <3> QED
      BY <3>2, <3>4, <3>5 DEF Elapsed
  <2> QED
    BY <1>1, <2>1, <2>2
<1> QED
  BY <1>1, <1>2, ServerAnswersCome

\* Who waited for a channel is told when its timer elapses.
LEMMA TimeoutAnswersCome ==
    ASSUME IInv, AnswersCome, NEW i \in DOMAIN pending, Timeout(i)
    PROVE  AnswersCome'
<1> DEFINE id == pending[i].id
           told == IF pending[i].type = "call" THEN <<Message("unknown", id)>> ELSE <<>>
<1>1. /\ UNCHANGED clientVars /\ pending' = [pending EXCEPT ![i].timer = FALSE]
      /\ toClient' = toClient \o told
  BY DEF Timeout, Respond
<1>2. pending \in Seq(Pending) /\ toClient \in Seq(ToClient) /\ pending[i] \in Pending
  BY DEF IInv, TypeOK, ServerTypeOK
<1>3. /\ DOMAIN pending' = DOMAIN pending
      /\ \A j \in DOMAIN pending : /\ pending'[j].id = pending[j].id
                                   /\ j # i => pending'[j] = pending[j]
  BY <1>1, <1>2
<1>4. (pending[i].type = "call") <=> id \in Calls
  BY <1>2, PendingIs
<1>5. told \in Seq(ToClient) /\ (id \in Calls => HasAnswer(told, id, {"unknown"}))
  <2>1. CASE id \in Calls
    <3> DEFINE m == Message("unknown", id)
    <3>1. told = <<m>> /\ m.id = id /\ m.type = "unknown" /\ m \in ToClient
      BY <1>4, <2>1 DEF Message, ToClient
    <3> HIDE DEF m, told
    <3> QED
      BY <3>1, OneToClient
  <2>2. CASE id \notin Calls
    BY <1>4, <2>2
  <2> QED
    BY <2>1, <2>2
<1> HIDE DEF told
<1>6. \A x, types : HasAnswer(toClient', x, types) <=> HasAnswer(toClient, x, types) \/ HasAnswer(told, x, types)
  BY <1>1, <1>2, <1>5, ConcatToClient
<1>7. ASSUME NEW c \in Calls, Elapsed(c)' PROVE Elapsed(c) \/ HasAnswer(toClient', c, {"unknown"})
  <2>1. PICK j \in DOMAIN pending' : pending'[j].id = c /\ ~pending'[j].timer
    BY <1>7 DEF Elapsed
  <2>2. CASE j = i
    BY <1>3, <1>5, <1>6, <2>1, <2>2
  <2>3. CASE j # i
    BY <1>3, <2>1, <2>3 DEF Elapsed
  <2> QED
    BY <2>2, <2>3
<1> QED
  BY <1>1, <1>6, <1>7, ServerAnswersCome

\* What else the server sends comes behind what was on its way.
LEMMA RespondAnswersCome ==
    ASSUME IInv, AnswersCome, UNCHANGED <<clientVars, pending>>,
           NEW messages \in Seq(ToClient), toClient' = toClient \o messages
    PROVE  AnswersCome'
<1>1. toClient \in Seq(ToClient)
  BY DEF IInv, TypeOK
<1>2. \A x, types : HasAnswer(toClient, x, types) => HasAnswer(toClient', x, types)
  BY <1>1, ConcatToClient
<1>3. \A c \in Calls : Elapsed(c)' => Elapsed(c)
  BY DEF Elapsed
<1> QED
  BY <1>2, <1>3, ServerAnswersCome

LEMMA AnswerAnswersCome ==
    ASSUME IInv, AnswersCome, NEW c \in Calls, Answer(c)
    PROVE  AnswersCome'
<1>1. UNCHANGED <<clientVars, pending>>
  BY DEF Answer
<1>2. PICK messages \in Seq(ToClient) : toClient' = toClient \o messages
  <2>1. CASE \E type \in {"result", "error"} : Respond(<<Message(type, c)>>)
    <3>1. PICK type \in {"result", "error"} : Respond(<<Message(type, c)>>)
      BY <2>1
    <3> DEFINE m == Message(type, c)
    <3>2. m \in ToClient /\ toClient' = toClient \o <<m>>
      BY <3>1 DEF Message, ToClient, Respond
    <3> HIDE DEF m
    <3>3. <<m>> \in Seq(ToClient)
      BY <3>2
    <3> QED
      BY <3>2, <3>3
  <2>2. CASE UNCHANGED toClient
    <3>1. toClient \in Seq(ToClient)
      BY DEF IInv, TypeOK
    <3>2. toClient' = toClient \o <<>> /\ <<>> \in Seq(ToClient)
      BY <2>2, <3>1
    <3> QED
      BY <3>2
  <2> QED
    BY <2>1, <2>2 DEF Answer
<1> QED
  BY <1>1, <1>2, RespondAnswersCome

LEMMA FireAnswersCome ==
    ASSUME IInv, AnswersCome, NEW e \in Events, Fire(e)
    PROVE  AnswersCome'
<1> DEFINE m == [type |-> "fire", id |-> e, number |-> fired + 1]
           messages == [i \in 1..subscribed[e] |-> m]
<1>1. /\ UNCHANGED <<clientVars, pending>> /\ fired < MaxFires /\ fired' = fired + 1
      /\ toClient' = toClient \o messages
  BY DEF Fire, Respond
<1>2. fired \in Nat /\ subscribed[e] \in Nat /\ MaxFires \in Nat
  BY IpcAssumption DEF IInv, TypeOK, ServerTypeOK
<1>3. m \in ToClient
  BY <1>1, <1>2 DEF ToClient
<1> HIDE DEF m
<1>4. messages \in Seq(ToClient)
  BY <1>2, <1>3
<1> HIDE DEF messages
<1> QED
  BY <1>1, <1>4, RespondAnswersCome

\* An answer is on its way, or yet to be given, to every call that is not settled.
LEMMA NextKeepsAnswers ==
    ASSUME IInv, AnswersCome, [Next]_vars
    PROVE  AnswersCome'
<1>1. CASE ClientReceives
  BY <1>1, ReceivesAnswersCome
<1>2. CASE ServerReceives
  BY <1>2, ServerReceivesAnswersCome
<1>3. CASE FlushPendingRequests
  <2>1. UNCHANGED <<clientVars, toClient>> /\ pending' = <<>>
    BY <1>3 DEF FlushPendingRequests
  <2>2. \A c \in Calls : ~Elapsed(c)'
    BY <2>1 DEF Elapsed
  <2> QED
    BY <2>1, <2>2, ServerAnswersCome
<1>4. CASE \E i \in DOMAIN pending : Timeout(i)
  BY <1>4, TimeoutAnswersCome
<1>5. CASE \E c \in Calls : Answer(c)
  BY <1>5, AnswerAnswersCome
<1>6. CASE ClientDisposes
  BY <1>6, ClientDisposesAnswersCome
<1>7. CASE \E c \in Calls : Call(c) \/ Cancel(c)
  BY <1>7, CallAnswersCome, CancelAnswersCome
<1>8. CASE \E e \in Events : Listen(e) \/ Unlisten(e) \/ Fire(e)
  BY <1>8, ListenAnswersCome, UnlistenAnswersCome, FireAnswersCome
<1>9. CASE Register \/ ServerDisposes \/ UNCHANGED vars
  <2>1. UNCHANGED <<clientVars, pending, toClient>>
    BY <1>9 DEF Register, ServerDisposes, vars, serverVars
  <2>2. \A c \in Calls : Elapsed(c)' => Elapsed(c)
    BY <2>1 DEF Elapsed
  <2> QED
    BY <2>1, <2>2, ServerAnswersCome
<1> QED
  BY <1>1, <1>2, <1>3, <1>4, <1>5, <1>6, <1>7, <1>8, <1>9 DEF Next, Runs

\* What whoever waits for an answer relies on holds always: a call that is not
\* settled waits for Initialize or has its response handled, and it was told that
\* its channel is unknown when the timer of its pending request elapsed.
THEOREM AnswersAlwaysCome == Spec => []AInv
<1>1. Init => AnswersCome
  <2> SUFFICES ASSUME Init PROVE AnswersCome
    OBVIOUS
  <2>1. /\ outcome = [c \in Calls |-> "none"] /\ pending = <<>> /\ handlers = {}
        /\ toClient = <<Message("initialize", 0)>>
    BY DEF Init
  <2>2. HasAnswer(toClient, 0, {"initialize"})
    <3> DEFINE m == Message("initialize", 0)
    <3>1. toClient = <<m>> /\ m.id = 0 /\ m.type \in {"initialize"}
      BY <2>1 DEF Message
    <3> HIDE DEF m
    <3> QED
      BY <3>1, OneToClient
  <2> QED
    BY <2>1, <2>2 DEF AnswersCome, ServesPending, TellsElapsed
<1>2. IInv /\ AnswersCome /\ [Next]_vars => AnswersCome'
  BY NextKeepsAnswers
<1> QED
  BY <1>1, <1>2, ChannelsInvariant, PTL DEF Spec, AInv

\* No call is left behind: when nothing goes on by itself any more, the calls that
\* are not settled are those whose result could not be sent (requestPromise,
\* collectPendingRequest, flushPendingRequests, onResponse).
THEOREM CallsAreSettledWhenIdle == Spec => []SettledWhenIdle
<1>1. ASSUME IInv, AnswersCome PROVE SettledWhenIdle
  <2> SUFFICES ASSUME Idle, NEW c \in Calls, outcome[c] = "pending" PROVE c \in history.lost
    BY DEF SettledWhenIdle
  <2>1. ~client.disposed /\ (Unsent(c) \/ c \in handlers) /\ TellsElapsed(c)
    BY <1>1 DEF AnswersCome, ServesPending
  <2>2. /\ toClient = <<>> /\ toServer = <<>> /\ token[c] = "none"
        /\ \A i \in DOMAIN pending : ~pending[i].timer
    BY <2>1 DEF Idle
  <2>3. \A types : ~HasAnswer(toClient, 0, types) /\ ~HasAnswer(toClient, c, types)
    BY <2>2, OneToClient
  <2>4. c \in handlers
    <3>1. unsent = <<>>
      BY <1>1, <2>3 DEF AnswersCome, IInv, TypeOK, ClientTypeOK
    <3>2. ~Unsent(c)
      BY <3>1, NothingContains DEF Unsent
    <3> QED
      BY <2>1, <3>2
  <2>5. ~Sent(c)
    BY <2>2, NothingToServer DEF Sent
  <2>6. ~Pends(c)
    <3>1. Pends(c) => Elapsed(c)
      BY <2>2 DEF Pends, Elapsed
    <3> QED
      BY <2>1, <2>3, <2>4, <3>1 DEF TellsElapsed
  <2> QED
    BY <1>1, <2>2, <2>3, <2>4, <2>5, <2>6 DEF IInv, HandledUntilAnswered
<1> QED
  BY <1>1, AnswersAlwaysCome, PTL DEF AInv

-----------------------------------------------------------------------------
(* The refinement: what callers see of their calls.                        *)

\* A call of which neither the caller nor the command sees anything.
LEMMA CallsKept ==
    ASSUME UNCHANGED <<outcome, runs>>
    PROVE  Called!Next
BY DEF Called!Next, Called!Keeps

LEMMA StepImplements ==
    ASSUME IInv, [Next]_vars
    PROVE  [Called!Next]_<<outcome, runs>>
<1>1. /\ outcome \in [Calls -> Outcomes] /\ runs \in [Calls -> Nat]
      /\ \A c \in Calls : OnePlace(c) /\ AnsweredHasRun(c)
  BY DEF IInv, TypeOK, ClientTypeOK, ServerTypeOK
<1>2. CASE ClientReceives
  <2> DEFINE response == Head(toClient)
             a == response.id
  <2>1. toClient # <<>> /\ UNCHANGED runs /\ toClient \in Seq(ToClient)
    BY <1>2 DEF ClientReceives, serverVars, IInv, TypeOK
  <2>2. response \in ToClient
    BY <2>1
  <2>3. CASE response.type \in {"initialize", "fire"}
    <3>1. UNCHANGED outcome
      BY <1>2, <2>3 DEF ClientReceives, ClientInitialized, ClientHears
    <3> QED
      BY <2>1, <3>1
  <2>4. CASE response.type \notin {"initialize", "fire"}
    <3>1. ClientAnswered(response)
      BY <1>2, <2>4 DEF ClientReceives
    <3>2. response.type \in {"result", "error", "unknown"} /\ a \in Calls
      BY <2>2, <2>4, ToClientIs
    <3>3. \/ UNCHANGED outcome
          \/ outcome' = [outcome EXCEPT ![a] = IF outcome[a] = "pending" THEN response.type
                                               ELSE outcome[a]]
      BY <3>1 DEF ClientAnswered
    <3>4. response.type \in {"result", "error"} => runs[a] = 1
      <4>1. HasAnswer(toClient, a, {response.type})
        BY <2>1, TailToClient
      <4>2. response.type \in {"result", "error"} => HasAnswer(toClient, a, {"result", "error"})
        BY <4>1 DEF HasAnswer
      <4> QED
        BY <1>1, <3>2, <4>2 DEF AnsweredHasRun
    <3> HIDE DEF a, response
    <3>5. ASSUME NEW c \in Calls PROVE Called!Keeps(c) \/ Called!Settles(c)
      BY <1>1, <2>1, <3>2, <3>3, <3>4 DEF Called!Keeps, Called!Settles
    <3> QED
      BY <3>5 DEF Called!Next
  <2> QED
    BY <2>3, <2>4
<1>3. ASSUME UNCHANGED outcome, runs' \in [Calls -> Nat],
             \A c \in Calls : runs'[c] = runs[c] \/ (runs'[c] = runs[c] + 1 /\ (Sent(c) \/ Pends(c)))
      PROVE  Called!Next
  <2> SUFFICES ASSUME NEW c \in Calls PROVE Called!Keeps(c) \/ Called!Runs(c)
    BY DEF Called!Next
  <2>1. Sent(c) \/ Pends(c) => outcome[c] # "none" /\ runs[c] = 0
    BY <1>1 DEF OnePlace
  <2> QED
    BY <1>3, <2>1 DEF Called!Keeps, Called!Runs
<1>4. CASE ServerReceives
  <2> DEFINE request == Head(toServer)
             r == <<request>>
  <2>1. /\ toServer # <<>> /\ UNCHANGED outcome /\ toServer \in Seq(ToServer) /\ ServerTypeOK
    BY <1>4 DEF ServerReceives, clientVars, IInv, TypeOK
  <2>2. UNCHANGED runs \/ (Start(r) /\ request.type \in {"call", "listen"})
    BY <1>4 DEF ServerReceives
  <2>3. request \in ToServer /\ request.id \in Requests
    <3>1. request \in ToServer
      BY <2>1, TailIs
    <3> QED
      BY <3>1, ToServerIs
  <2>4. ASSUME Start(r), request.type \in {"call", "listen"} PROVE Called!Next
    <3>1. r \in Seq(ToServer) /\ DOMAIN r = {1} /\ r[1] = request
      BY <2>3
    <3>2. IsRequest(request) /\ (request.type = "call" <=> request.id \in Calls)
      BY <2>3, <2>4, ToServerIs
    <3>3. Sent(request.id)
      BY <2>1, <3>2, TailToServer DEF Sent
    <3> HIDE DEF r, request
    <3>4. \A i \in DOMAIN r : /\ r[i].id \in Requests
                              /\ r[i].type = "call" <=> r[i].id \in Calls
      BY <2>3, <3>1, <3>2
    <3>5. /\ runs' \in [Calls -> Nat]
          /\ \A c \in Calls : runs'[c] = IF Names(r, c) THEN runs[c] + 1 ELSE runs[c]
      BY ONLY <2>1, <2>4, <3>1, <3>4, StartIs
    <3>6. \A c : Names(r, c) => c = request.id
      BY <3>1 DEF Names
    <3> QED
      BY <1>3, <2>1, <3>3, <3>5, <3>6
  <2> QED
    BY <2>1, <2>2, <2>4, CallsKept
<1>5. CASE FlushPendingRequests
  <2>1. Start(pending) /\ UNCHANGED outcome
    BY <1>5 DEF FlushPendingRequests, clientVars
  <2>2. ServerTypeOK /\ pending \in Seq(Pending)
    BY DEF IInv, TypeOK, ServerTypeOK
  <2>3. \A i \in DOMAIN pending : pending[i] \in Pending
    BY <2>2
  <2>4. \A i \in DOMAIN pending : /\ pending[i].id \in Requests
                                  /\ pending[i].type = "call" <=> pending[i].id \in Calls
    BY <2>3, PendingIs
  <2>5. /\ runs' \in [Calls -> Nat]
        /\ \A c \in Calls : runs'[c] = IF Names(pending, c) THEN runs[c] + 1 ELSE runs[c]
    BY ONLY <2>1, <2>2, <2>4, StartIs
  <2>6. \A c : Names(pending, c) => Pends(c)
    BY DEF Names, Pends
  <2> QED
    BY <1>3, <2>1, <2>5, <2>6
<1>6. CASE \E i \in DOMAIN pending : Timeout(i)
  BY <1>6 DEF Timeout, clientVars
<1>7. CASE \E c \in Calls : Answer(c)
  BY <1>7 DEF Answer, clientVars
<1>8. CASE ClientDisposes
  <2>1. /\ UNCHANGED runs
        /\ \A c \in Calls : outcome'[c] = IF outcome[c] = "pending" THEN "cancelled" ELSE outcome[c]
    BY <1>8 DEF ClientDisposes, serverVars
  <2>2. ASSUME NEW c \in Calls PROVE Called!Keeps(c) \/ Called!Settles(c)
    BY <2>1 DEF Called!Keeps, Called!Settles
  <2> QED
    BY <2>2 DEF Called!Next
<1>9. ASSUME NEW a \in Calls, Call(a) PROVE Called!Next
  <2>1. /\ UNCHANGED runs /\ outcome[a] = "none"
        /\ \/ outcome' = [outcome EXCEPT ![a] = "cancelled"]
           \/ outcome' = [outcome EXCEPT ![a] = "pending"]
    BY <1>9 DEF Call, serverVars
  <2>2. ASSUME NEW c \in Calls PROVE Called!Keeps(c) \/ Called!Starts(c)
    BY <1>1, <2>1 DEF Called!Keeps, Called!Starts
  <2> QED
    BY <2>2 DEF Called!Next
<1>10. ASSUME NEW a \in Calls, Cancel(a) PROVE Called!Next
  <2>1. /\ UNCHANGED runs /\ outcome[a] = "pending"
        /\ outcome' = [outcome EXCEPT ![a] = "cancelled"]
    BY <1>10 DEF Cancel, serverVars
  <2>2. ASSUME NEW c \in Calls PROVE Called!Keeps(c) \/ Called!Settles(c)
    BY <1>1, <2>1 DEF Called!Keeps, Called!Settles
  <2> QED
    BY <2>2 DEF Called!Next
<1>11. CASE \E e \in Events : Listen(e) \/ Unlisten(e) \/ Fire(e)
  BY <1>11 DEF Listen, Unlisten, Fire, clientVars, serverVars
<1>12. CASE Register
  BY <1>12 DEF Register, clientVars
<1>13. CASE ServerDisposes
  BY <1>13 DEF ServerDisposes, clientVars
<1>14. CASE UNCHANGED vars
  BY <1>14 DEF vars, clientVars, serverVars
<1> QED
  BY <1>2, <1>4, <1>5, <1>6, <1>7, <1>8, <1>9, <1>10, <1>11, <1>12, <1>13, <1>14 DEF Next, Runs

\* What callers see is what IChannel.call promises: a command runs at most once,
\* after it was called, and a result is that of a run, although requests wait on
\* both sides, are answered by a timer, and are flushed by every registration.
THEOREM CallsAreImplemented == Spec => ImplementsRemoteCalls
<1>1. Init => Called!Init
  BY DEF Init, Called!Init
<1>2. IInv /\ [Next]_vars => [Called!Next]_<<outcome, runs>>
  BY StepImplements
<1> QED
  BY <1>1, <1>2, ChannelsInvariant, PTL DEF Spec, ImplementsRemoteCalls, Called!Spec

================================================================================
