---------------------------- MODULE UndoRedo_proof ----------------------------
(***************************************************************************)
(* For any resources, elements, groups and requests: what the stacks hold, *)
(* that they agree, who holds their locks, that no text is garbled, and    *)
(* that _undo and _redo do not call each other without end.                *)
(***************************************************************************)
EXTENDS UndoRedo, SequenceTheorems, FiniteSetTheorems, TLAPS

-----------------------------------------------------------------------------
(* Lemmas about sequences.                                                 *)

LEMMA FrontIs ==
    ASSUME NEW S, NEW s \in Seq(S), s # <<>>
    PROVE  /\ Len(s) \in Nat /\ Len(s) >= 1 /\ DOMAIN s = 1..Len(s)
           /\ Front(s) \in Seq(S) /\ Len(Front(s)) = Len(s) - 1 /\ DOMAIN Front(s) = 1..(Len(s) - 1)
           /\ \A i \in DOMAIN Front(s) : i \in DOMAIN s /\ i < Len(s) /\ Front(s)[i] = s[i]
           /\ \A i \in DOMAIN s : i = Len(s) \/ i \in DOMAIN Front(s)
           /\ Last(s) \in S /\ Last(s) = s[Len(s)]
<1>1. Len(s) \in Nat /\ Len(s) >= 1 /\ DOMAIN s = 1..Len(s)
  OBVIOUS
<1>2. \A i \in 1..(Len(s) - 1) : s[i] \in S
  BY <1>1
<1>3. /\ Front(s) \in Seq(S) /\ Len(Front(s)) = Len(s) - 1
      /\ \A i \in 1..(Len(s) - 1) : Front(s)[i] = s[i]
  BY <1>1, <1>2 DEF Front
<1>4. DOMAIN Front(s) = 1..(Len(s) - 1)
  BY <1>3
<1>5. Last(s) \in S /\ Last(s) = s[Len(s)]
  BY <1>1 DEF Last
<1> QED
  BY <1>1, <1>3, <1>4, <1>5

LEMMA AppendIs ==
    ASSUME NEW S, NEW s \in Seq(S), NEW x \in S
    PROVE  /\ Append(s, x) \in Seq(S) /\ Len(s) \in Nat /\ Len(Append(s, x)) = Len(s) + 1
           /\ DOMAIN s = 1..Len(s) /\ DOMAIN Append(s, x) = 1..(Len(s) + 1)
           /\ \A i \in DOMAIN s : Append(s, x)[i] = s[i] /\ i < Len(s) + 1
           /\ Append(s, x)[Len(s) + 1] = x
           /\ \A i \in DOMAIN Append(s, x) : i \in DOMAIN s \/ i = Len(s) + 1
OBVIOUS

\* A part of a sequence, from one place to another.
LEMMA PartIs ==
    ASSUME NEW S, NEW s \in Seq(S), NEW m \in Nat \ {0}, NEW n \in Nat, n <= Len(s)
    PROVE  /\ SubSeq(s, m, n) \in Seq(S)
           /\ \A i \in DOMAIN SubSeq(s, m, n) : m + i - 1 \in DOMAIN s /\ SubSeq(s, m, n)[i] = s[m + i - 1]
           /\ DOMAIN SubSeq(s, m, n) \subseteq Nat
<1>1. Len(s) \in Nat /\ DOMAIN s = 1..Len(s)
  OBVIOUS
<1>2. \A i \in m..n : s[i] \in S
  BY <1>1
<1>3. /\ SubSeq(s, m, n) \in Seq(S)
      /\ Len(SubSeq(s, m, n)) = IF m <= n THEN n - m + 1 ELSE 0
      /\ \A i \in 1..(n - m + 1) : SubSeq(s, m, n)[i] = s[m + i - 1]
  BY <1>1, <1>2, SubSeqProperties
<1> DEFINE t == SubSeq(s, m, n)
<1> HIDE DEF t
<1>4. DOMAIN t = 1..Len(t) /\ Len(t) \in Nat
  BY <1>3 DEF t
<1>5. \A i \in DOMAIN t : i \in 1..(n - m + 1)
  BY <1>3, <1>4 DEF t
<1>6. \A i \in DOMAIN t : m + i - 1 \in DOMAIN s /\ t[i] = s[m + i - 1]
  BY <1>1, <1>3, <1>5 DEF t
<1> QED
  BY <1>3, <1>4, <1>6 DEF t

LEMMA ReverseIs ==
    ASSUME NEW S, NEW s \in Seq(S)
    PROVE  Reverse(s) \in Seq(S) /\ Len(Reverse(s)) = Len(s) /\ Len(s) \in Nat
<1>1. Len(s) \in Nat /\ \A i \in 1..Len(s) : s[Len(s) - i + 1] \in S
  OBVIOUS
<1>2. Reverse(s) \in [1..Len(s) -> S]
  BY <1>1 DEF Reverse
<1> QED
  BY <1>1, <1>2, SeqDef

LEMMA RangeIs ==
    ASSUME NEW s
    PROVE  \A x : x \in Range(s) <=> \E i \in DOMAIN s : s[i] = x
BY DEF Range

-----------------------------------------------------------------------------
(* Lemmas about the sides of a stack.                                      *)

LEMMA FrontKeeps ==
    ASSUME NEW S, NEW s \in Seq(S), s # <<>>, Once(s)
    PROVE  /\ Front(s) \in Seq(S) /\ Last(s) \in S /\ Once(Front(s))
           /\ Last(s) \in Range(s) /\ Range(Front(s)) \subseteq Range(s)
           /\ \A y \in Range(Front(s)) : y.id # Last(s).id
           /\ \A y \in Range(s) : y = Last(s) \/ y \in Range(Front(s))
<1> DEFINE t == Front(s)
           x == Last(s)
<1>1. /\ Len(s) \in Nat /\ Len(s) \in DOMAIN s
      /\ t \in Seq(S) /\ x \in S /\ x = s[Len(s)]
      /\ \A i \in DOMAIN t : i \in DOMAIN s /\ i < Len(s) /\ t[i] = s[i]
      /\ \A i \in DOMAIN s : i = Len(s) \/ i \in DOMAIN t
  BY FrontIs
<1> HIDE DEF t, x
<1>2. Once(t) /\ \A i \in DOMAIN t : t[i].id # x.id
  BY <1>1 DEF Once
<1>3. x \in Range(s) /\ Range(t) \subseteq Range(s)
  BY <1>1, RangeIs
<1>4. \A y \in Range(t) : y.id # x.id
  BY <1>2, RangeIs
<1>5. \A y \in Range(s) : y = x \/ y \in Range(t)
  BY <1>1, RangeIs
<1> QED
  BY <1>1, <1>2, <1>3, <1>4, <1>5 DEF t, x

LEMMA AppendKeeps ==
    ASSUME NEW S, NEW s \in Seq(S), NEW x \in S, Once(s), \A y \in Range(s) : y.id # x.id
    PROVE  Append(s, x) \in Seq(S) /\ Once(Append(s, x)) /\ Range(Append(s, x)) = Range(s) \cup {x}
<1> DEFINE t == Append(s, x)
<1>1. /\ t \in Seq(S) /\ Len(s) \in Nat
      /\ DOMAIN t = 1..(Len(s) + 1) /\ DOMAIN s = 1..Len(s)
      /\ \A i \in DOMAIN s : t[i] = s[i] /\ i \in DOMAIN t
      /\ t[Len(s) + 1] = x /\ Len(s) + 1 \in DOMAIN t
      /\ \A i \in DOMAIN t : i \in DOMAIN s \/ i = Len(s) + 1
  BY AppendIs
<1> HIDE DEF t
<1>2. \A i \in DOMAIN s : s[i].id # x.id
  BY RangeIs
<1>3. Once(t)
  BY <1>1, <1>2 DEF Once
<1>4. Range(t) = Range(s) \cup {x}
  BY <1>1, RangeIs
<1> QED
  BY <1>1, <1>3, <1>4 DEF t

LEMMA PartKeeps ==
    ASSUME NEW S, NEW s \in Seq(S), NEW m \in Nat \ {0}, NEW n \in Nat, n <= Len(s), Once(s)
    PROVE  /\ SubSeq(s, m, n) \in Seq(S) /\ Once(SubSeq(s, m, n))
           /\ Range(SubSeq(s, m, n)) \subseteq Range(s)
<1> DEFINE t == SubSeq(s, m, n)
<1>1. /\ t \in Seq(S) /\ DOMAIN t \subseteq Nat
      /\ \A i \in DOMAIN t : m + i - 1 \in DOMAIN s /\ t[i] = s[m + i - 1]
  BY PartIs
<1> HIDE DEF t
<1>2. Once(t)
  <2> SUFFICES ASSUME NEW i \in DOMAIN t, NEW j \in DOMAIN t, t[i].id = t[j].id PROVE i = j
    BY DEF Once
  <2>1. m + i - 1 = m + j - 1
    BY <1>1 DEF Once
  <2> QED
    BY <1>1, <2>1
<1>3. Range(t) \subseteq Range(s)
  BY <1>1, RangeIs
<1> QED
  BY <1>1, <1>2, <1>3 DEF t

LEMMA EmptyKeeps ==
    ASSUME NEW S
    PROVE  <<>> \in Seq(S) /\ Once(<<>>) /\ Range(<<>>) = {}
BY DEF Once, Range

\* What split makes of a side.
LEMMA PartedKeeps ==
    ASSUME NEW S, NEW s \in Seq(S), NEW x, NEW part \in S, part.id = x.id, Once(s),
           NEW t, DOMAIN t = DOMAIN s, \A i \in DOMAIN s : t[i] = IF s[i] = x THEN part ELSE s[i]
    PROVE  /\ Once(t)
           /\ \A i \in DOMAIN s : t[i].id = s[i].id
           /\ Range(t) \subseteq Range(s) \cup {part}
           /\ part \in Range(t) => part \in Range(s) \/ x \in Range(s)
           /\ \A y \in Range(t) : \E z \in Range(s) : y.id = z.id
<1>1. \A i \in DOMAIN s : t[i].id = s[i].id
  OBVIOUS
<1>2. Once(t)
  BY <1>1 DEF Once
<1>3. Range(t) \subseteq Range(s) \cup {part}
  BY RangeIs
<1>4. part \in Range(t) => part \in Range(s) \/ x \in Range(s)
  BY RangeIs
<1>5. \A y \in Range(t) : \E z \in Range(s) : y.id = z.id
  BY <1>1, RangeIs
<1> QED
  BY <1>1, <1>2, <1>3, <1>4, <1>5

\* How much is as it was is bounded by how much there is.
LEMMA KeptIs ==
    ASSUME NEW S, NEW s, s.past \in Seq(S), s.future \in Seq(S), NEW snapshot
    PROVE  /\ Snapshot(s) \in Seq(S)
           /\ Kept(s, snapshot) \in 0..(Len(s.past) + Len(s.future))
<1> DEFINE now == Snapshot(s)
           same == {n \in DOMAIN now \cap DOMAIN snapshot : \A i \in 1..n : now[i] = snapshot[i]}
           m == Len(s.past) + Len(s.future)
<1>1. Reverse(s.future) \in Seq(S) /\ Len(Reverse(s.future)) = Len(s.future)
  BY ReverseIs
<1>2. now \in Seq(S) /\ Len(now) = m /\ m \in Nat
  <2> DEFINE a == s.past
             b == Reverse(s.future)
  <2>1. now = a \o b
    BY DEF Snapshot
  <2>2. a \in Seq(S) /\ b \in Seq(S) /\ m = Len(a) + Len(b)
    BY <1>1
  <2> HIDE DEF a, b
  <2>3. a \o b \in Seq(S) /\ Len(a \o b) = Len(a) + Len(b) /\ Len(a) \in Nat /\ Len(b) \in Nat
    BY <2>2
  <2> HIDE DEF now, m
  <2> QED
    BY <2>1, <2>2, <2>3
<1>3. Kept(s, snapshot) = Cardinality(same)
  BY DEF Kept
<1> HIDE DEF now, m
<1>4. DOMAIN now = 1..m
  BY <1>2
<1>5. IsFiniteSet(1..m) /\ Cardinality(1..m) = m
  BY <1>2, FS_Interval
<1>6. same \subseteq 1..m
  BY <1>4
<1> HIDE DEF same
<1>7. Cardinality(same) \in Nat /\ Cardinality(same) <= m
  BY <1>5, <1>6, FS_Subset, FS_CardinalityType
<1>8. Kept(s, snapshot) \in 0..m
  BY <1>2, <1>3, <1>7
<1> QED
  BY <1>2, <1>8 DEF now, m

-----------------------------------------------------------------------------
(* Lemmas about the texts the elements follow from.                        *)

\* What is undone on the text it has left gives the text it was made on.
LEMMA UndoneFollows ==
    ASSUME NEW e, NEW S, NEW p \in Seq(S), NEW f \in Seq(S), NEW r, NEW t,
           p # <<>>, Follow(e, p, f, r, t)
    PROVE  LET x == Last(p)
           IN  /\ IsText(e, x) => /\ t = LeftIn(e, x, r)
                                  /\ Follow(e, Front(p), Append(f, x), r, FoundIn(e, x, r))
               /\ ~IsText(e, x) => Follow(e, Front(p), Append(f, x), r, t)
<1> DEFINE x == Last(p)
           u == Front(p)
           g == Append(f, x)
           n == Len(p)
           m == Len(f)
<1>1. /\ n \in Nat /\ n \in DOMAIN p /\ DOMAIN p = 1..n /\ x \in S /\ x = p[n]
      /\ DOMAIN u \subseteq DOMAIN p
      /\ \A i \in DOMAIN u : i < n /\ u[i] = p[i]
      /\ \A i \in DOMAIN p : i = n \/ i \in DOMAIN u
  BY FrontIs
<1>2. /\ m \in Nat /\ DOMAIN f = 1..m /\ DOMAIN g = 1..(m + 1)
      /\ \A i \in DOMAIN f : g[i] = f[i] /\ i \in DOMAIN g /\ i < m + 1
      /\ g[m + 1] = x
      /\ \A i \in DOMAIN g : i \in DOMAIN f \/ i = m + 1
  BY <1>1, AppendIs
<1> HIDE DEF x, u, g, n, m
<1>3. \A i, j \in DOMAIN u : Adjacent(e, u, i, j) => FoundIn(e, u[j], r) = LeftIn(e, u[i], r)
  <2> SUFFICES ASSUME NEW i \in DOMAIN u, NEW j \in DOMAIN u, Adjacent(e, u, i, j)
               PROVE  FoundIn(e, u[j], r) = LeftIn(e, u[i], r)
    OBVIOUS
  <2>1. Adjacent(e, p, i, j)
    <3>1. \A k \in DOMAIN p : i < k /\ k < j => k \in DOMAIN u
      BY <1>1
    <3> QED
      BY <1>1, <3>1 DEF Adjacent
  <2> QED
    BY <1>1, <2>1 DEF Follow
<1>4. CASE IsText(e, x)
  <2>1. t = LeftIn(e, x, r)
    <3>1. IsLast(e, p, n)
      BY <1>1, <1>4 DEF IsLast
    <3> QED
      BY <1>1, <3>1 DEF Follow
  <2>2. \A i \in DOMAIN u : IsLast(e, u, i) => LeftIn(e, u[i], r) = FoundIn(e, x, r)
    <3> SUFFICES ASSUME NEW i \in DOMAIN u, IsLast(e, u, i) PROVE LeftIn(e, u[i], r) = FoundIn(e, x, r)
      OBVIOUS
    <3>1. Adjacent(e, p, i, n)
      <4>1. \A k \in DOMAIN p : i < k /\ k < n => k \in DOMAIN u
        BY <1>1
      <4> QED
        BY <1>1, <1>4, <4>1 DEF IsLast, Adjacent
    <3> QED
      BY <1>1, <3>1 DEF Follow
  <2>3. \A i, j \in DOMAIN g : Adjacent(e, g, i, j) => FoundIn(e, g[i], r) = LeftIn(e, g[j], r)
    <3> SUFFICES ASSUME NEW i \in DOMAIN g, NEW j \in DOMAIN g, Adjacent(e, g, i, j)
                 PROVE  FoundIn(e, g[i], r) = LeftIn(e, g[j], r)
      OBVIOUS
    <3>1. i < j /\ i \in DOMAIN f
      BY <1>2 DEF Adjacent
    <3>2. CASE j = m + 1
      <4>1. IsLast(e, f, i)
        BY <1>2, <3>1, <3>2 DEF IsLast, Adjacent
      <4> QED
        BY <1>2, <2>1, <3>1, <3>2, <4>1 DEF Follow
    <3>3. CASE j # m + 1
      <4>1. j \in DOMAIN f
        BY <1>2, <3>3
      <4>2. Adjacent(e, f, i, j)
        BY <1>2, <3>1, <4>1 DEF Adjacent
      <4> QED
        BY <1>2, <3>1, <4>1, <4>2 DEF Follow
    <3> QED
      BY <3>2, <3>3
  <2>4. \A i \in DOMAIN g : IsLast(e, g, i) => FoundIn(e, g[i], r) = FoundIn(e, x, r)
    <3> SUFFICES ASSUME NEW i \in DOMAIN g, IsLast(e, g, i) PROVE g[i] = x
      OBVIOUS
    <3>1. i \notin DOMAIN f
      BY <1>2, <1>4 DEF IsLast
    <3> QED
      BY <1>2, <3>1
  <2>5. Follow(e, u, g, r, FoundIn(e, x, r))
    BY <1>3, <2>2, <2>3, <2>4 DEF Follow
  <2> QED
    BY <1>4, <2>1, <2>5 DEF x, u, g
<1>5. CASE ~IsText(e, x)
  <2>1. \A i \in DOMAIN u : IsLast(e, u, i) => LeftIn(e, u[i], r) = t
    <3> SUFFICES ASSUME NEW i \in DOMAIN u, IsLast(e, u, i) PROVE LeftIn(e, u[i], r) = t
      OBVIOUS
    <3>1. IsLast(e, p, i)
      BY <1>1, <1>5 DEF IsLast
    <3> QED
      BY <1>1, <3>1 DEF Follow
  <2>2. \A i, j \in DOMAIN g : Adjacent(e, g, i, j) => FoundIn(e, g[i], r) = LeftIn(e, g[j], r)
    <3> SUFFICES ASSUME NEW i \in DOMAIN g, NEW j \in DOMAIN g, Adjacent(e, g, i, j)
                 PROVE  FoundIn(e, g[i], r) = LeftIn(e, g[j], r)
      OBVIOUS
    <3>1. i \in DOMAIN f /\ j \in DOMAIN f
      BY <1>2, <1>5 DEF Adjacent
    <3>2. Adjacent(e, f, i, j)
      BY <1>2, <3>1 DEF Adjacent
    <3> QED
      BY <1>2, <3>1, <3>2 DEF Follow
  <2>3. \A i \in DOMAIN g : IsLast(e, g, i) => FoundIn(e, g[i], r) = t
    <3> SUFFICES ASSUME NEW i \in DOMAIN g, IsLast(e, g, i) PROVE FoundIn(e, g[i], r) = t
      OBVIOUS
    <3>1. i \in DOMAIN f
      BY <1>2, <1>5 DEF IsLast
    <3>2. IsLast(e, f, i)
      BY <1>2, <3>1 DEF IsLast
    <3> QED
      BY <1>2, <3>1, <3>2 DEF Follow
  <2>4. Follow(e, u, g, r, t)
    BY <1>3, <2>1, <2>2, <2>3 DEF Follow
  <2> QED
    BY <1>5, <2>4 DEF x, u, g
<1> QED
  BY <1>4, <1>5

\* What is made again on the text it was made on gives the text it has left.
LEMMA RedoneFollows ==
    ASSUME NEW e, NEW S, NEW p \in Seq(S), NEW f \in Seq(S), NEW r, NEW t,
           f # <<>>, Follow(e, p, f, r, t)
    PROVE  LET x == Last(f)
           IN  /\ IsText(e, x) => /\ FoundIn(e, x, r) = t
                                  /\ Follow(e, Append(p, x), Front(f), r, LeftIn(e, x, r))
               /\ ~IsText(e, x) => Follow(e, Append(p, x), Front(f), r, t)
<1> DEFINE x == Last(f)
           u == Front(f)
           g == Append(p, x)
           n == Len(f)
           m == Len(p)
<1>1. /\ n \in Nat /\ n \in DOMAIN f /\ DOMAIN f = 1..n /\ x \in S /\ x = f[n]
      /\ DOMAIN u \subseteq DOMAIN f
      /\ \A i \in DOMAIN u : i < n /\ u[i] = f[i]
      /\ \A i \in DOMAIN f : i = n \/ i \in DOMAIN u
  BY FrontIs
<1>2. /\ m \in Nat /\ DOMAIN p = 1..m /\ DOMAIN g = 1..(m + 1)
      /\ \A i \in DOMAIN p : g[i] = p[i] /\ i \in DOMAIN g /\ i < m + 1
      /\ g[m + 1] = x
      /\ \A i \in DOMAIN g : i \in DOMAIN p \/ i = m + 1
  BY <1>1, AppendIs
<1> HIDE DEF x, u, g, n, m
<1>3. \A i, j \in DOMAIN u : Adjacent(e, u, i, j) => FoundIn(e, u[i], r) = LeftIn(e, u[j], r)
  <2> SUFFICES ASSUME NEW i \in DOMAIN u, NEW j \in DOMAIN u, Adjacent(e, u, i, j)
               PROVE  FoundIn(e, u[i], r) = LeftIn(e, u[j], r)
    OBVIOUS
  <2>1. Adjacent(e, f, i, j)
    <3>1. \A k \in DOMAIN f : i < k /\ k < j => k \in DOMAIN u
      BY <1>1
    <3> QED
      BY <1>1, <3>1 DEF Adjacent
  <2> QED
    BY <1>1, <2>1 DEF Follow
<1>4. CASE IsText(e, x)
  <2>1. t = FoundIn(e, x, r)
    <3>1. IsLast(e, f, n)
      BY <1>1, <1>4 DEF IsLast
    <3> QED
      BY <1>1, <3>1 DEF Follow
  <2>2. \A i \in DOMAIN u : IsLast(e, u, i) => FoundIn(e, u[i], r) = LeftIn(e, x, r)
    <3> SUFFICES ASSUME NEW i \in DOMAIN u, IsLast(e, u, i) PROVE FoundIn(e, u[i], r) = LeftIn(e, x, r)
      OBVIOUS
    <3>1. Adjacent(e, f, i, n)
      <4>1. \A k \in DOMAIN f : i < k /\ k < n => k \in DOMAIN u
        BY <1>1
      <4> QED
        BY <1>1, <1>4, <4>1 DEF IsLast, Adjacent
    <3> QED
      BY <1>1, <3>1 DEF Follow
  <2>3. \A i, j \in DOMAIN g : Adjacent(e, g, i, j) => FoundIn(e, g[j], r) = LeftIn(e, g[i], r)
    <3> SUFFICES ASSUME NEW i \in DOMAIN g, NEW j \in DOMAIN g, Adjacent(e, g, i, j)
                 PROVE  FoundIn(e, g[j], r) = LeftIn(e, g[i], r)
      OBVIOUS
    <3>1. i < j /\ i \in DOMAIN p
      BY <1>2 DEF Adjacent
    <3>2. CASE j = m + 1
      <4>1. IsLast(e, p, i)
        BY <1>2, <3>1, <3>2 DEF IsLast, Adjacent
      <4> QED
        BY <1>2, <2>1, <3>1, <3>2, <4>1 DEF Follow
    <3>3. CASE j # m + 1
      <4>1. j \in DOMAIN p
        BY <1>2, <3>3
      <4>2. Adjacent(e, p, i, j)
        BY <1>2, <3>1, <4>1 DEF Adjacent
      <4> QED
        BY <1>2, <3>1, <4>1, <4>2 DEF Follow
    <3> QED
      BY <3>2, <3>3
  <2>4. \A i \in DOMAIN g : IsLast(e, g, i) => LeftIn(e, g[i], r) = LeftIn(e, x, r)
    <3> SUFFICES ASSUME NEW i \in DOMAIN g, IsLast(e, g, i) PROVE g[i] = x
      OBVIOUS
    <3>1. i \notin DOMAIN p
      BY <1>2, <1>4 DEF IsLast
    <3> QED
      BY <1>2, <3>1
  <2>5. Follow(e, g, u, r, LeftIn(e, x, r))
    BY <1>3, <2>2, <2>3, <2>4 DEF Follow
  <2> QED
    BY <1>4, <2>1, <2>5 DEF x, u, g
<1>5. CASE ~IsText(e, x)
  <2>1. \A i \in DOMAIN u : IsLast(e, u, i) => FoundIn(e, u[i], r) = t
    <3> SUFFICES ASSUME NEW i \in DOMAIN u, IsLast(e, u, i) PROVE FoundIn(e, u[i], r) = t
      OBVIOUS
    <3>1. IsLast(e, f, i)
      BY <1>1, <1>5 DEF IsLast
    <3> QED
      BY <1>1, <3>1 DEF Follow
  <2>2. \A i, j \in DOMAIN g : Adjacent(e, g, i, j) => FoundIn(e, g[j], r) = LeftIn(e, g[i], r)
    <3> SUFFICES ASSUME NEW i \in DOMAIN g, NEW j \in DOMAIN g, Adjacent(e, g, i, j)
                 PROVE  FoundIn(e, g[j], r) = LeftIn(e, g[i], r)
      OBVIOUS
    <3>1. i \in DOMAIN p /\ j \in DOMAIN p
      BY <1>2, <1>5 DEF Adjacent
    <3>2. Adjacent(e, p, i, j)
      BY <1>2, <3>1 DEF Adjacent
    <3> QED
      BY <1>2, <3>1, <3>2 DEF Follow
  <2>3. \A i \in DOMAIN g : IsLast(e, g, i) => LeftIn(e, g[i], r) = t
    <3> SUFFICES ASSUME NEW i \in DOMAIN g, IsLast(e, g, i) PROVE LeftIn(e, g[i], r) = t
      OBVIOUS
    <3>1. i \in DOMAIN p
      BY <1>2, <1>5 DEF IsLast
    <3>2. IsLast(e, p, i)
      BY <1>2, <3>1 DEF IsLast
    <3> QED
      BY <1>2, <3>1, <3>2 DEF Follow
  <2>4. Follow(e, g, u, r, t)
    BY <1>3, <2>1, <2>2, <2>3 DEF Follow
  <2> QED
    BY <1>5, <2>4 DEF x, u, g
<1> QED
  BY <1>4, <1>5

\* Without elements of a text, every text will do.
LEMMA NothingFollows ==
    ASSUME NEW e, NEW p, NEW f, NEW r, NEW t,
           \A y \in Range(p) \cup Range(f) : ~IsText(e, y)
    PROVE  Follow(e, p, f, r, t)
<1>1. /\ \A i \in DOMAIN p : ~IsText(e, p[i])
      /\ \A i \in DOMAIN f : ~IsText(e, f[i])
  BY RangeIs
<1> QED
  BY <1>1 DEF Follow, Adjacent, IsLast

\* Split changes no element, and an element that is pushed none of the others.
LEMMA SameFollows ==
    ASSUME NEW e, NEW e2, NEW p, NEW f, NEW p2, NEW f2, NEW r, NEW t,
           DOMAIN p2 = DOMAIN p, DOMAIN f2 = DOMAIN f,
           \A i \in DOMAIN p : p2[i].id = p[i].id /\ e2[p[i].id] = e[p[i].id],
           \A i \in DOMAIN f : f2[i].id = f[i].id /\ e2[f[i].id] = e[f[i].id],
           Follow(e, p, f, r, t)
    PROVE  Follow(e2, p2, f2, r, t)
<1>1. \A i \in DOMAIN p :
        /\ IsText(e2, p2[i]) = IsText(e, p[i])
        /\ FoundIn(e2, p2[i], r) = FoundIn(e, p[i], r) /\ LeftIn(e2, p2[i], r) = LeftIn(e, p[i], r)
  BY DEF IsText, FoundIn, LeftIn
<1>2. \A i \in DOMAIN f :
        /\ IsText(e2, f2[i]) = IsText(e, f[i])
        /\ FoundIn(e2, f2[i], r) = FoundIn(e, f[i], r) /\ LeftIn(e2, f2[i], r) = LeftIn(e, f[i], r)
  BY DEF IsText, FoundIn, LeftIn
<1>3. \A i, j \in DOMAIN p : Adjacent(e2, p2, i, j) => Adjacent(e, p, i, j)
  BY <1>1 DEF Adjacent
<1>4. \A i, j \in DOMAIN f : Adjacent(e2, f2, i, j) => Adjacent(e, f, i, j)
  BY <1>2 DEF Adjacent
<1>5. \A i \in DOMAIN p : IsLast(e2, p2, i) => IsLast(e, p, i)
  BY <1>1 DEF IsLast
<1>6. \A i \in DOMAIN f : IsLast(e2, f2, i) => IsLast(e, f, i)
  BY <1>2 DEF IsLast
<1>7. \A i, j \in DOMAIN p2 : Adjacent(e2, p2, i, j) => FoundIn(e2, p2[j], r) = LeftIn(e2, p2[i], r)
  BY <1>1, <1>3 DEF Follow
<1>8. \A i \in DOMAIN p2 : IsLast(e2, p2, i) => LeftIn(e2, p2[i], r) = t
  BY <1>1, <1>5 DEF Follow
<1>9. \A i, j \in DOMAIN f2 : Adjacent(e2, f2, i, j) => FoundIn(e2, f2[i], r) = LeftIn(e2, f2[j], r)
  BY <1>2, <1>4 DEF Follow
<1>10. \A i \in DOMAIN f2 : IsLast(e2, f2, i) => FoundIn(e2, f2[i], r) = t
  BY <1>2, <1>6 DEF Follow
<1> QED
  BY <1>7, <1>8, <1>9, <1>10 DEF Follow

\* What is pushed is made on the text there is.
LEMMA PushedFollows ==
    ASSUME NEW e, NEW S, NEW p \in Seq(S), NEW f, NEW r, NEW t, NEW x \in S,
           Follow(e, p, f, r, t)
    PROVE  /\ IsText(e, x) /\ FoundIn(e, x, r) = t => Follow(e, Append(p, x), <<>>, r, LeftIn(e, x, r))
           /\ ~IsText(e, x) => Follow(e, Append(p, x), <<>>, r, t)
<1>1. Follow(e, p, <<x>>, r, FoundIn(e, x, r)) \/ ~IsText(e, x) \/ FoundIn(e, x, r) # t
  <2> SUFFICES ASSUME IsText(e, x), FoundIn(e, x, r) = t PROVE Follow(e, p, <<x>>, r, t)
    OBVIOUS
  <2>1. DOMAIN <<x>> = {1} /\ <<x>>[1] = x
    OBVIOUS
  <2>2. \A i, j \in DOMAIN <<x>> : ~Adjacent(e, <<x>>, i, j)
    BY <2>1 DEF Adjacent
  <2> QED
    BY <2>1, <2>2 DEF Follow
<1>2. Follow(e, p, <<x>>, r, t) \/ IsText(e, x)
  <2> SUFFICES ASSUME ~IsText(e, x) PROVE Follow(e, p, <<x>>, r, t)
    OBVIOUS
  <2>1. DOMAIN <<x>> = {1} /\ <<x>>[1] = x
    OBVIOUS
  <2>2. \A i \in DOMAIN <<x>> : ~IsText(e, <<x>>[i])
    BY <2>1
  <2> QED
    BY <2>2 DEF Follow, Adjacent, IsLast
<1> DEFINE w == <<x>>
<1>3. w \in Seq(S) /\ w # <<>> /\ Last(w) = x /\ Front(w) = <<>>
  <2>1. w \in Seq(S) /\ w # <<>> /\ Len(w) = 1 /\ w[1] = x
    OBVIOUS
  <2> HIDE DEF w
  <2>2. Front(w) \in Seq(S) /\ Len(Front(w)) = 0
    BY <2>1, FrontIs
  <2>3. Front(w) = <<>>
    BY <2>2, EmptySeq
  <2> QED
    BY <2>1, <2>3 DEF Last
<1>4. /\ Follow(e, p, w, r, FoundIn(e, x, r)) \/ ~IsText(e, x) \/ FoundIn(e, x, r) # t
      /\ Follow(e, p, w, r, t) \/ IsText(e, x)
  BY <1>1, <1>2
<1> HIDE DEF w
<1>5. ASSUME IsText(e, x), FoundIn(e, x, r) = t
      PROVE  Follow(e, Append(p, x), <<>>, r, LeftIn(e, x, r))
  <2>1. Follow(e, p, w, r, t)
    BY <1>4, <1>5
  <2>2. IsText(e, Last(w)) => Follow(e, Append(p, Last(w)), Front(w), r, LeftIn(e, Last(w), r))
    BY ONLY p \in Seq(S), <1>3, <2>1, RedoneFollows
  <2> QED
    BY ONLY <1>3, <1>5, <2>2
<1>6. ASSUME ~IsText(e, x) PROVE Follow(e, Append(p, x), <<>>, r, t)
  <2>1. Follow(e, p, w, r, t)
    BY <1>4, <1>6
  <2>2. ~IsText(e, Last(w)) => Follow(e, Append(p, Last(w)), Front(w), r, t)
    BY ONLY p \in Seq(S), <1>3, <2>1, RedoneFollows
  <2> QED
    BY ONLY <1>3, <1>6, <2>2
<1> QED
  BY <1>5, <1>6

-----------------------------------------------------------------------------
(* What is done to the stacks.                                             *)

StackInv ==
    /\ element \in Seq(Elements) /\ stack \in [Resources -> Stacks]
    /\ removed \subseteq Ids \X Resources /\ invalid \subseteq StackEntries \X Resources
    /\ undone \subseteq Ids
    /\ EntriesInPlace /\ SidesAgree

LEMMA StacksAre ==
    ASSUME StackInv
    PROVE  \A r \in Resources :
             /\ stack[r] \in Stacks
             /\ stack[r].past \in Seq(StackEntries) /\ stack[r].future \in Seq(StackEntries)
             /\ stack[r].there \in BOOLEAN /\ stack[r].locked \in 0..MaxRequests
             /\ \A x \in Entries(r) : x \in StackEntries /\ x.id \in Ids /\ x.alone \in BOOLEAN
<1> SUFFICES ASSUME NEW r \in Resources
             PROVE  /\ stack[r] \in Stacks
                    /\ stack[r].past \in Seq(StackEntries) /\ stack[r].future \in Seq(StackEntries)
                    /\ stack[r].there \in BOOLEAN /\ stack[r].locked \in 0..MaxRequests
                    /\ \A x \in Entries(r) : x \in StackEntries /\ x.id \in Ids /\ x.alone \in BOOLEAN
  OBVIOUS
<1>1. stack[r] \in Stacks
  BY DEF StackInv
<1>2. /\ stack[r].past \in Seq(StackEntries) /\ stack[r].future \in Seq(StackEntries)
      /\ stack[r].there \in BOOLEAN /\ stack[r].locked \in 0..MaxRequests
  BY <1>1 DEF Stacks
<1>3. \A x \in Entries(r) : x \in StackEntries
  BY <1>2, RangeIs DEF Entries
<1> QED
  BY <1>1, <1>2, <1>3 DEF StackEntries

LEMMA NoStackIs ==
    /\ NoStack \in Stacks
    /\ NoStack.past = <<>> /\ NoStack.future = <<>> /\ NoStack.locked = 0 /\ ~NoStack.there
    /\ Range(NoStack.past) = {} /\ Range(NoStack.future) = {}
    /\ Once(NoStack.past) /\ Once(NoStack.future)
<1>1. <<>> \in Seq(StackEntries) /\ Once(<<>>) /\ Range(<<>>) = {} /\ 0 \in 0..MaxRequests
  BY UndoRedoAssumption, EmptyKeeps
<1> QED
  BY <1>1 DEF NoStack, Stacks

\* What stacks lose does not put anything in the wrong place.
LEMMA LessIsInPlace ==
    ASSUME StackInv, element' = element, undone' = undone,
           stack' \in [Resources -> Stacks],
           removed' \subseteq Ids \X Resources, invalid' \subseteq StackEntries \X Resources,
           \A r \in Resources :
             /\ Range(stack'[r].past) \subseteq Range(stack[r].past)
             /\ Range(stack'[r].future) \subseteq Range(stack[r].future)
             /\ Once(stack'[r].past) /\ Once(stack'[r].future)
             /\ stack'[r].there \/ (Range(stack'[r].past) = {} /\ Range(stack'[r].future) = {})
    PROVE  StackInv'
<1>1. \A x : OfText(x)' = OfText(x) /\ Spans(x)' = Spans(x)
  BY DEF OfText, Spans
<1>2. EntriesInPlace'
  BY <1>1 DEF StackInv, EntriesInPlace, Entries
<1>3. SidesAgree'
  BY <1>1 DEF StackInv, SidesAgree
<1>4. Ids' = Ids /\ StackEntries' = StackEntries /\ Stacks' = Stacks
  BY DEF Ids, StackEntries, Stacks
<1> QED
  BY <1>2, <1>3, <1>4 DEF StackInv

LEMMA MarksAre ==
    ASSUME NEW r \in Resources, NEW lost \in SUBSET StackEntries
    PROVE  Marks(r, lost) \subseteq Ids \X Resources
BY DEF Marks, StackEntries

LEMMA RemoveIs ==
    ASSUME StackInv, NEW on \in SUBSET Resources, RemoveElements(on), undone' = undone
    PROVE  /\ StackInv' /\ element' = element /\ invalid' = invalid
           /\ \A r \in Resources : stack'[r] = IF r \in on THEN NoStack ELSE stack[r]
<1>1. /\ stack' = [r \in Resources |-> IF r \in on THEN NoStack ELSE stack[r]]
      /\ removed' = removed \cup UNION {Marks(r, Entries(r)) : r \in on}
      /\ element' = element /\ invalid' = invalid
  BY DEF RemoveElements
<1>2. \A r \in Resources : stack'[r] = IF r \in on THEN NoStack ELSE stack[r]
  BY <1>1
<1>3. removed' \subseteq Ids \X Resources
  <2>1. \A r \in on : Entries(r) \in SUBSET StackEntries
    BY StacksAre
  <2>2. \A r \in on : Marks(r, Entries(r)) \subseteq Ids \X Resources
    BY <2>1, MarksAre
  <2> QED
    BY <1>1, <2>2 DEF StackInv
<1>4. stack' \in [Resources -> Stacks]
  BY <1>1, NoStackIs, StacksAre
<1>5. \A r \in Resources :
        /\ Range(stack'[r].past) \subseteq Range(stack[r].past)
        /\ Range(stack'[r].future) \subseteq Range(stack[r].future)
        /\ Once(stack'[r].past) /\ Once(stack'[r].future)
        /\ stack'[r].there \/ (Range(stack'[r].past) = {} /\ Range(stack'[r].future) = {})
  BY <1>2, NoStackIs DEF StackInv, EntriesInPlace, Entries
<1>6. invalid' \subseteq StackEntries \X Resources
  BY <1>1 DEF StackInv
<1>7. StackInv'
  BY <1>1, <1>3, <1>4, <1>5, <1>6, LessIsInPlace
<1> QED
  BY <1>1, <1>2, <1>7

LEMMA FlushIs ==
    ASSUME StackInv, NEW r \in Resources, Flush(r), undone' = undone
    PROVE  /\ StackInv' /\ element' = element
           /\ \A s \in Resources : stack'[s].locked = stack[s].locked
           /\ \A s \in Resources \ {r} : stack'[s] = stack[s]
           /\ stack'[r].past = <<>> /\ stack'[r].future = <<>>
<1> DEFINE none == <<>>
<1>1. /\ stack' = [stack EXCEPT ![r].past = none, ![r].future = none]
      /\ element' = element /\ removed' = removed /\ invalid' = invalid
  BY DEF Flush
<1>2. none \in Seq(StackEntries) /\ Once(none) /\ Range(none) = {}
  BY EmptyKeeps
<1> DEFINE new == [[stack[r] EXCEPT !.past = none] EXCEPT !.future = none]
<1>3. stack' = [stack EXCEPT ![r] = new]
  BY <1>1, StacksAre DEF StackInv
<1> HIDE DEF none
<1>4. new \in Stacks /\ new.past = none /\ new.future = none /\ new.locked = stack[r].locked
  BY <1>2, StacksAre DEF Stacks
<1> HIDE DEF new
<1>5. stack' \in [Resources -> Stacks] /\ stack'[r] = new /\ \A s \in Resources \ {r} : stack'[s] = stack[s]
  BY <1>3, <1>4 DEF StackInv
<1>6. \A s \in Resources :
        /\ Range(stack'[s].past) \subseteq Range(stack[s].past)
        /\ Range(stack'[s].future) \subseteq Range(stack[s].future)
        /\ Once(stack'[s].past) /\ Once(stack'[s].future)
        /\ stack'[s].there \/ (Range(stack'[s].past) = {} /\ Range(stack'[s].future) = {})
  BY <1>2, <1>4, <1>5 DEF StackInv, EntriesInPlace, Entries
<1>7. removed' \subseteq Ids \X Resources /\ invalid' \subseteq StackEntries \X Resources
  BY <1>1 DEF StackInv
<1>8. StackInv'
  BY <1>1, <1>5, <1>6, <1>7, LessIsInPlace
<1> QED
  BY <1>1, <1>4, <1>5, <1>8 DEF none

LEMMA RestoreIs ==
    ASSUME StackInv, NEW r \in Resources, NEW snapshot, Restore(r, snapshot), undone' = undone,
           invalid' \subseteq StackEntries \X Resources
    PROVE  /\ StackInv' /\ element' = element
           /\ \A s \in Resources : stack'[s].locked \in {0, stack[s].locked}
           /\ \A s \in Resources \ {r} : stack'[s] = stack[s]
<1> DEFINE s == stack[r]
           kept == Kept(s, snapshot)
           now == Snapshot(s)
           new == Restored(s, snapshot)
           last == IF new.past = <<>> /\ new.future = <<>> THEN NoStack ELSE new
<1>1. /\ stack' = [stack EXCEPT ![r] = last] /\ element' = element
      /\ removed' = removed \cup Marks(r, {now[i] : i \in (kept + 1)..Len(now)})
  BY DEF Restore
<1>2. /\ s \in Stacks /\ s.past \in Seq(StackEntries) /\ s.future \in Seq(StackEntries)
      /\ Once(s.past) /\ Once(s.future)
      /\ s.there \in BOOLEAN /\ (s.there \/ (Range(s.past) = {} /\ Range(s.future) = {}))
  BY StacksAre DEF StackInv, EntriesInPlace, Entries
<1>3. now \in Seq(StackEntries) /\ kept \in 0..(Len(s.past) + Len(s.future))
  BY <1>2, KeptIs
<1>4. Len(s.past) \in Nat /\ Len(s.future) \in Nat
  BY <1>2
<1> HIDE DEF kept, now
<1>5. /\ new \in Stacks /\ new.locked = s.locked /\ new.there = s.there
      /\ Once(new.past) /\ Once(new.future)
      /\ Range(new.past) \subseteq Range(s.past) /\ Range(new.future) \subseteq Range(s.future)
  <2>1. CASE kept < Len(s.past)
    <3> DEFINE t == SubSeq(s.past, 1, kept)
    <3>1. t \in Seq(StackEntries) /\ Once(t) /\ Range(t) \subseteq Range(s.past)
      BY <1>2, <1>3, <1>4, <2>1, PartKeeps
    <3>2. new = [s EXCEPT !.past = t]
      BY <2>1 DEF Restored, kept
    <3> HIDE DEF t, s, new
    <3> QED
      BY <1>2, <3>1, <3>2 DEF Stacks
  <2>2. CASE ~(kept < Len(s.past))
    <3> DEFINE m == Len(s.past) + Len(s.future) - kept + 1
               t == SubSeq(s.future, m, Len(s.future))
    <3>1. m \in Nat \ {0}
      <4> DEFINE a == Len(s.past)
                 b == Len(s.future)
      <4>1. a \in Nat /\ b \in Nat /\ kept \in 0..(a + b) /\ m = a + b - kept + 1
        BY <1>3, <1>4
      <4> HIDE DEF a, b, m
      <4> QED
        BY <4>1
    <3>2. new = [s EXCEPT !.future = t]
      BY <2>2 DEF Restored, kept
    <3> HIDE DEF m
    <3>3. t \in Seq(StackEntries) /\ Once(t) /\ Range(t) \subseteq Range(s.future)
      BY <1>2, <1>4, <3>1, PartKeeps
    <3> HIDE DEF t, s, new
    <3> QED
      BY <1>2, <3>2, <3>3 DEF Stacks
  <2> QED
    BY <2>1, <2>2
<1>6. /\ last \in Stacks /\ last.locked \in {0, s.locked}
      /\ Once(last.past) /\ Once(last.future)
      /\ Range(last.past) \subseteq Range(s.past) /\ Range(last.future) \subseteq Range(s.future)
      /\ last.there \/ (Range(last.past) = {} /\ Range(last.future) = {})
  <2> HIDE DEF new, s
  <2> QED
    BY <1>2, <1>5, NoStackIs
<1> HIDE DEF last
<1>7. stack' \in [Resources -> Stacks] /\ stack'[r] = last /\ \A u \in Resources \ {r} : stack'[u] = stack[u]
  BY <1>1, <1>6 DEF StackInv
<1>8. \A u \in Resources :
        /\ Range(stack'[u].past) \subseteq Range(stack[u].past)
        /\ Range(stack'[u].future) \subseteq Range(stack[u].future)
        /\ Once(stack'[u].past) /\ Once(stack'[u].future)
        /\ stack'[u].there \/ (Range(stack'[u].past) = {} /\ Range(stack'[u].future) = {})
  BY <1>6, <1>7 DEF StackInv, EntriesInPlace, Entries
<1>9. removed' \subseteq Ids \X Resources
  <2>1. \A i \in (kept + 1)..Len(now) : now[i] \in StackEntries
    BY <1>3
  <2>2. Marks(r, {now[i] : i \in (kept + 1)..Len(now)}) \subseteq Ids \X Resources
    BY <2>1, MarksAre
  <2> QED
    BY <1>1, <2>2 DEF StackInv
<1>10. StackInv'
  BY <1>1, <1>7, <1>8, <1>9, LessIsInPlace
<1> QED
  BY <1>1, <1>6, <1>7, <1>10

\* Only what is of a text is split.
LEMMA SplitIs ==
    ASSUME StackInv, NEW x \in StackEntries, OfText(x), NEW direction \in {"undo", "redo"},
           NEW on \in SUBSET Resources, Split(x, direction, on), undone' = undone
    PROVE  /\ StackInv' /\ element' = element
           /\ \A r \in Resources :
                /\ stack'[r].locked = stack[r].locked
                /\ DOMAIN stack'[r].past = DOMAIN stack[r].past
                /\ DOMAIN stack'[r].future = DOMAIN stack[r].future
                /\ \A i \in DOMAIN stack[r].past : stack'[r].past[i].id = stack[r].past[i].id
                /\ \A i \in DOMAIN stack[r].future : stack'[r].future[i].id = stack[r].future[i].id
<1> DEFINE part == Entry(x.id, TRUE)
           Parted(s) == [i \in DOMAIN s |-> IF s[i] = x THEN part ELSE s[i]]
           New(r) == IF r \notin on THEN stack[r]
                     ELSE IF direction = "undo" THEN [stack[r] EXCEPT !.past = Parted(stack[r].past)]
                     ELSE [stack[r] EXCEPT !.future = Parted(stack[r].future)]
<1>1. element' = element /\ removed' = removed /\ invalid' = invalid
  BY DEF Split
<1>2. part \in StackEntries /\ part.id = x.id /\ part.alone = TRUE /\ OfText(part) /\ ~Spans(part)
  BY DEF Entry, StackEntries, OfText, Spans
<1>3. stack' = [r \in Resources |-> New(r)]
  <2>1. CASE direction = "undo"
    BY <2>1, StacksAre DEF Split, Side, Stacks
  <2>2. CASE direction = "redo"
    BY <2>2, StacksAre DEF Split, Side, Stacks
  <2> QED
    BY <2>1, <2>2
<1> HIDE DEF part
<1>4. ASSUME NEW s \in Seq(StackEntries), Once(s)
      PROVE  /\ Parted(s) \in Seq(StackEntries) /\ Once(Parted(s)) /\ DOMAIN Parted(s) = DOMAIN s
             /\ \A i \in DOMAIN s : Parted(s)[i].id = s[i].id
             /\ Range(Parted(s)) \subseteq Range(s) \cup {part}
             /\ part \in Range(Parted(s)) => part \in Range(s) \/ x \in Range(s)
             /\ \A y \in Range(Parted(s)) : \E z \in Range(s) : y.id = z.id
  <2> DEFINE t == Parted(s)
  <2>1. DOMAIN t = DOMAIN s /\ \A i \in DOMAIN s : t[i] = IF s[i] = x THEN part ELSE s[i]
    OBVIOUS
  <2>2. Len(s) \in Nat /\ DOMAIN s = 1..Len(s) /\ \A i \in DOMAIN s : s[i] \in StackEntries
    OBVIOUS
  <2>3. t \in [1..Len(s) -> StackEntries]
    BY <1>2, <2>2
  <2>4. t \in Seq(StackEntries)
    BY <2>2, <2>3, SeqDef
  <2> HIDE DEF t, Parted
  <2>5. /\ Once(t)
        /\ \A i \in DOMAIN s : t[i].id = s[i].id
        /\ Range(t) \subseteq Range(s) \cup {part}
        /\ part \in Range(t) => part \in Range(s) \/ x \in Range(s)
        /\ \A y \in Range(t) : \E z \in Range(s) : y.id = z.id
    BY <1>2, <1>4, <2>1, PartedKeeps
  <2> QED
    BY <2>1, <2>4, <2>5 DEF t
<1> HIDE DEF Parted
<1>5. ASSUME NEW r \in Resources
      PROVE  /\ New(r) \in Stacks /\ New(r).locked = stack[r].locked /\ New(r).there = stack[r].there
             /\ New(r).past = stack[r].past \/ New(r).past = Parted(stack[r].past)
             /\ New(r).future = stack[r].future \/ New(r).future = Parted(stack[r].future)
  <2>1. Once(stack[r].past) /\ Once(stack[r].future)
    BY DEF StackInv, EntriesInPlace
  <2>2. Parted(stack[r].past) \in Seq(StackEntries) /\ Parted(stack[r].future) \in Seq(StackEntries)
    BY <1>4, <2>1, StacksAre
  <2> QED
    BY <2>2, StacksAre DEF Stacks
<1> HIDE DEF New
<1>6. stack' \in [Resources -> Stacks] /\ \A r \in Resources : stack'[r] = New(r)
  BY <1>3, <1>5
<1>7. ASSUME NEW r \in Resources
      PROVE  /\ stack'[r].locked = stack[r].locked /\ stack'[r].there = stack[r].there
             /\ \A side \in {<<stack[r].past, stack'[r].past>>, <<stack[r].future, stack'[r].future>>} :
                  /\ DOMAIN side[2] = DOMAIN side[1] /\ Once(side[2])
                  /\ \A i \in DOMAIN side[1] : side[2][i].id = side[1][i].id
                  /\ Range(side[2]) \subseteq Range(side[1]) \cup {part}
                  /\ part \in Range(side[2]) => part \in Range(side[1]) \/ x \in Range(side[1])
                  /\ \A y \in Range(side[2]) : \E z \in Range(side[1]) : y.id = z.id
  <2>1. stack'[r] = New(r)
    BY <1>6
  <2>2. /\ stack[r].past \in Seq(StackEntries) /\ Once(stack[r].past)
        /\ stack[r].future \in Seq(StackEntries) /\ Once(stack[r].future)
    BY StacksAre DEF StackInv, EntriesInPlace
  <2>3. ASSUME NEW s \in Seq(StackEntries), Once(s), NEW t, t = s \/ t = Parted(s)
        PROVE  /\ DOMAIN t = DOMAIN s /\ Once(t)
               /\ \A i \in DOMAIN s : t[i].id = s[i].id
               /\ Range(t) \subseteq Range(s) \cup {part}
               /\ part \in Range(t) => part \in Range(s) \/ x \in Range(s)
               /\ \A y \in Range(t) : \E z \in Range(s) : y.id = z.id
    BY <1>4, <2>3
  <2>4. /\ stack'[r].past = stack[r].past \/ stack'[r].past = Parted(stack[r].past)
        /\ stack'[r].future = stack[r].future \/ stack'[r].future = Parted(stack[r].future)
    BY <1>5, <2>1
  <2> QED
    BY <1>5, <2>1, <2>2, <2>3, <2>4
<1>8. \A y : OfText(y)' = OfText(y) /\ Spans(y)' = Spans(y)
  BY <1>1 DEF OfText, Spans
<1>9. EntriesInPlace'
  <2> SUFFICES ASSUME NEW r \in Resources
               PROVE  /\ \A y \in Entries(r)' : r \in element[y.id].on /\ (OfText(y) \/ ~y.alone)
                      /\ Once(stack'[r].past) /\ Once(stack'[r].future)
                      /\ \A y \in Range(stack'[r].past), z \in Range(stack'[r].future) : y.id # z.id
                      /\ ~stack'[r].there => Entries(r)' = {}
    BY <1>1, <1>8 DEF EntriesInPlace
  <2>1. \A y \in Entries(r) : r \in element[y.id].on /\ (OfText(y) \/ ~y.alone)
    BY DEF StackInv, EntriesInPlace
  <2>2. \A y \in Entries(r)' : y \in Entries(r) \/ y = part
    <3>1. Range(stack'[r].past) \subseteq Range(stack[r].past) \cup {part}
      BY <1>7
    <3>2. Range(stack'[r].future) \subseteq Range(stack[r].future) \cup {part}
      BY <1>7
    <3>3. Entries(r)' = Range(stack'[r].past) \cup Range(stack'[r].future)
      BY DEF Entries
    <3> QED
      BY ONLY <3>1, <3>2, <3>3 DEF Entries
  <2>3. \A y \in Entries(r)' : \E z \in Entries(r) : y.id = z.id
    BY <1>7 DEF Entries
  <2>4. \A y \in Entries(r)' : r \in element[y.id].on /\ (OfText(y) \/ ~y.alone)
    BY <1>2, <2>1, <2>2, <2>3
  <2>5. \A y \in Range(stack'[r].past), z \in Range(stack'[r].future) : y.id # z.id
    <3>1. \A y \in Range(stack[r].past), z \in Range(stack[r].future) : y.id # z.id
      BY DEF StackInv, EntriesInPlace
    <3> QED
      BY <1>7, <3>1
  <2>6. ~stack'[r].there => Entries(r)' = {}
    <3>1. ~stack[r].there => Entries(r) = {}
      BY DEF StackInv, EntriesInPlace
    <3> QED
      BY <1>7, <2>3, <3>1
  <2> QED
    BY <1>7, <2>4, <2>5, <2>6
<1>10. SidesAgree'
  <2>1. \A r \in Resources : \A y \in Range(stack'[r].past) : y \in Range(stack[r].past) \/ y = part
    BY <1>7
  <2>2. \A r \in Resources : \A y \in Range(stack'[r].future) : y \in Range(stack[r].future) \/ y = part
    BY <1>7
  <2>3. ASSUME NEW r \in Resources, NEW y \in Range(stack'[r].past)
        PROVE  /\ Spans(y) => \A s \in Resources : y \notin Range(stack'[s].future)
               /\ ~OfText(y) => y.id \notin undone
    BY <1>2, <2>1, <2>2, <2>3 DEF StackInv, SidesAgree
  <2>4. ASSUME NEW r \in Resources, NEW y \in Range(stack'[r].future)
        PROVE  ~OfText(y) => y.id \in undone
    BY <1>2, <2>2, <2>4 DEF StackInv, SidesAgree
  <2> QED
    BY <1>8, <2>3, <2>4 DEF SidesAgree
<1>11. Ids' = Ids /\ StackEntries' = StackEntries /\ Stacks' = Stacks
  BY <1>1 DEF Ids, StackEntries, Stacks
<1>12. StackInv'
  BY <1>1, <1>6, <1>9, <1>10, <1>11 DEF StackInv
<1> QED
  BY <1>1, <1>7, <1>12

\* An element is moved where it is at the end, and, unless it is a part, wherever it is.
AtTop(x, direction, on) == \A r \in on : HasTop(r, direction) /\ Top(r, direction) = x
Everywhere(x, on) == Spans(x) \/ ~OfText(x) => \A r \in Resources : x \in Entries(r) => r \in on

Backward(x, on, lock) ==
    \A r \in on : /\ stack[r].past # <<>> /\ x = Last(stack[r].past) /\ x \in Entries(r)
                   /\ stack'[r].past = Front(stack[r].past)
                   /\ stack'[r].future = Append(stack[r].future, x)
                   /\ stack'[r].locked = lock
Forward(x, on, lock) ==
    \A r \in on : /\ stack[r].future # <<>> /\ x = Last(stack[r].future) /\ x \in Entries(r)
                   /\ stack'[r].future = Front(stack[r].future)
                   /\ stack'[r].past = Append(stack[r].past, x)
                   /\ stack'[r].locked = lock

\* What is undone is undone wherever it is.
LEMMA UndoMoveIs ==
    ASSUME StackInv, NEW x \in StackEntries, NEW on \in SUBSET Resources, NEW lock \in 0..MaxRequests,
           Move(x, "undo", on, lock), AtTop(x, "undo", on), OfText(x) \/ ~x.alone, Everywhere(x, on),
           OfText(x) => undone' = undone, ~OfText(x) => undone' = undone \cup {x.id}
    PROVE  /\ StackInv' /\ element' = element /\ invalid' = invalid
           /\ \A r \in Resources \ on : stack'[r] = stack[r]
           /\ Backward(x, on, lock)
<1> USE DEF AtTop, Everywhere, Backward
<1> DEFINE Moved(s) == [s EXCEPT !.past = Front(@), !.future = Append(@, x), !.locked = lock]
<1>1. /\ stack' = [r \in Resources |-> IF r \in on THEN Moved(stack[r]) ELSE stack[r]]
      /\ element' = element /\ removed' = removed /\ invalid' = invalid
  BY DEF Move
<1>2. \A r \in Resources \ on : stack'[r] = stack[r]
  BY <1>1
<1>3. ASSUME NEW r \in on
      PROVE  /\ stack[r].past # <<>> /\ x = Last(stack[r].past)
             /\ x \in Range(stack[r].past) /\ x \notin Range(stack[r].future)
             /\ \A y \in Range(stack[r].future) : y.id # x.id
             /\ Once(stack[r].past) /\ Once(stack[r].future)
             /\ stack[r].past \in Seq(StackEntries) /\ stack[r].future \in Seq(StackEntries)
             /\ stack[r].there = TRUE
  <2>1. stack[r].past # <<>> /\ x = Last(stack[r].past)
    BY DEF HasTop, Top, Side
  <2>2. /\ Once(stack[r].past) /\ Once(stack[r].future)
        /\ stack[r].past \in Seq(StackEntries) /\ stack[r].future \in Seq(StackEntries)
        /\ stack[r].there \in BOOLEAN
    BY StacksAre DEF StackInv, EntriesInPlace
  <2>3. x \in Range(stack[r].past)
    BY <2>1, <2>2, FrontKeeps
  <2>4. /\ \A y \in Range(stack[r].past), z \in Range(stack[r].future) : y.id # z.id
        /\ stack[r].there
    BY <2>3 DEF StackInv, EntriesInPlace, Entries
  <2> QED
    BY <2>1, <2>2, <2>3, <2>4
<1>4. ASSUME NEW r \in on
      PROVE  /\ stack'[r] \in Stacks /\ stack'[r].locked = lock /\ stack'[r].there = TRUE
             /\ stack'[r].past = Front(stack[r].past) /\ stack'[r].future = Append(stack[r].future, x)
  <2> DEFINE u == Front(stack[r].past)
             g == Append(stack[r].future, x)
  <2>1. stack'[r] = [stack[r] EXCEPT !.past = u, !.future = g, !.locked = lock]
    BY <1>1
  <2>2. u \in Seq(StackEntries) /\ g \in Seq(StackEntries)
    BY <1>3, FrontKeeps, AppendKeeps
  <2> HIDE DEF u, g
  <2>3. stack[r] \in Stacks /\ stack[r].there = TRUE
    BY <1>3, StacksAre
  <2>4. stack'[r] \in Stacks /\ stack'[r].locked = lock /\ stack'[r].there = TRUE
        /\ stack'[r].past = u /\ stack'[r].future = g
    BY <2>1, <2>2, <2>3 DEF Stacks
  <2> QED
    BY <2>4 DEF u, g
<1>5. ASSUME NEW r \in on
      PROVE  /\ Once(stack'[r].past) /\ Once(stack'[r].future)
             /\ Range(stack'[r].past) \subseteq Range(stack[r].past)
             /\ \A y \in Range(stack'[r].past) : y.id # x.id
             /\ Range(stack'[r].future) = Range(stack[r].future) \cup {x}
  <2> DEFINE p == stack[r].past
             f == stack[r].future
  <2>1. /\ p \in Seq(StackEntries) /\ f \in Seq(StackEntries) /\ Once(p) /\ Once(f)
        /\ p # <<>> /\ x = Last(p) /\ \A y \in Range(f) : y.id # x.id
        /\ stack'[r].past = Front(p) /\ stack'[r].future = Append(f, x)
    BY <1>3, <1>4
  <2> HIDE DEF p, f
  <2>2. Once(Front(p)) /\ Range(Front(p)) \subseteq Range(p) /\ \A y \in Range(Front(p)) : y.id # x.id
    BY <2>1, FrontKeeps
  <2>3. Once(Append(f, x)) /\ Range(Append(f, x)) = Range(f) \cup {x}
    BY <2>1, AppendKeeps
  <2> QED
    BY <2>1, <2>2, <2>3 DEF p, f
<1>6. \A y : OfText(y)' = OfText(y) /\ Spans(y)' = Spans(y)
  BY <1>1 DEF OfText, Spans
<1>7. stack' \in [Resources -> Stacks]
  BY <1>1, <1>2, <1>4, StacksAre
<1>8. EntriesInPlace'
  <2> SUFFICES ASSUME NEW r \in Resources
               PROVE  /\ \A y \in Entries(r)' : r \in element[y.id].on /\ (OfText(y) \/ ~y.alone)
                      /\ Once(stack'[r].past) /\ Once(stack'[r].future)
                      /\ \A y \in Range(stack'[r].past), z \in Range(stack'[r].future) : y.id # z.id
                      /\ ~stack'[r].there => Entries(r)' = {}
    BY <1>1, <1>6 DEF EntriesInPlace
  <2>1. /\ \A y \in Entries(r) : r \in element[y.id].on /\ (OfText(y) \/ ~y.alone)
        /\ Once(stack[r].past) /\ Once(stack[r].future)
        /\ \A y \in Range(stack[r].past), z \in Range(stack[r].future) : y.id # z.id
        /\ ~stack[r].there => Entries(r) = {}
    BY DEF StackInv, EntriesInPlace
  <2>2. CASE r \notin on
    BY <1>2, <2>1, <2>2 DEF Entries
  <2>3. CASE r \in on
    <3>1. Entries(r)' \subseteq Entries(r)
      <4>1. /\ Range(stack'[r].past) \subseteq Range(stack[r].past)
            /\ Range(stack'[r].future) = Range(stack[r].future) \cup {x}
        BY ONLY <1>5, <2>3
      <4>2. x \in Range(stack[r].past)
        BY ONLY <1>3, <2>3
      <4> QED
        BY ONLY <4>1, <4>2 DEF Entries
    <3>2. \A y \in Range(stack'[r].past), z \in Range(stack'[r].future) : y.id # z.id
      BY <1>3, <1>5, <2>1, <2>3
    <3> QED
      BY <1>4, <1>5, <2>1, <2>3, <3>1, <3>2
  <2> QED
    BY <2>2, <2>3
<1>9. \A r \in Resources : /\ Range(stack'[r].past) \subseteq Range(stack[r].past)
                           /\ Range(stack'[r].future) \subseteq Range(stack[r].future) \cup {x}
  BY <1>2, <1>5
<1>10. Spans(x) \/ ~OfText(x) => \A r \in Resources : x \notin Range(stack'[r].past)
  <2> SUFFICES ASSUME Spans(x) \/ ~OfText(x), NEW r \in Resources, x \in Range(stack'[r].past)
               PROVE  FALSE
    OBVIOUS
  <2>1. x \in Entries(r)
    BY <1>9 DEF Entries
  <2>2. r \in on
    BY <2>1
  <2> QED
    BY <1>5, <2>2
<1>11. ASSUME NEW r \in Resources, NEW y \in Entries(r), ~OfText(y), ~OfText(x), y.id = x.id
       PROVE  y = x
  <2>1. y \in StackEntries /\ y.alone = FALSE /\ x.alone = FALSE
    <3>1. y \in StackEntries /\ ~y.alone
      BY <1>11, StacksAre DEF StackInv, EntriesInPlace
    <3> QED
      BY <1>11, <3>1 DEF StackEntries
  <2> QED
    BY <1>11, <2>1 DEF StackEntries
<1>12. SidesAgree'
  <2>1. ASSUME NEW r \in Resources, NEW y \in Range(stack'[r].past)
        PROVE  Spans(y) => \A s \in Resources : y \notin Range(stack'[s].future)
    BY <1>9, <1>10, <2>1 DEF StackInv, SidesAgree
  <2>2. ASSUME NEW r \in Resources, NEW y \in Range(stack'[r].past), ~OfText(y)
        PROVE  y.id \notin undone'
    <3>1. y \in Range(stack[r].past) /\ y \in Entries(r) /\ y.id \notin undone
      BY <1>9, <2>2 DEF StackInv, SidesAgree, Entries
    <3>2. OfText(x) \/ y.id # x.id
      BY <1>10, <1>11, <2>2, <3>1
    <3> QED
      BY <3>1, <3>2
  <2>3. ASSUME NEW r \in Resources, NEW y \in Range(stack'[r].future), ~OfText(y)
        PROVE  y.id \in undone'
    BY <1>9, <2>3 DEF StackInv, SidesAgree, StackEntries
  <2> QED
    BY <1>6, <2>1, <2>2, <2>3 DEF SidesAgree
<1>13. Ids' = Ids /\ StackEntries' = StackEntries /\ Stacks' = Stacks
  BY <1>1 DEF Ids, StackEntries, Stacks
<1>14. undone' \subseteq Ids
  BY DEF StackInv, StackEntries
<1>15. StackInv'
  BY <1>1, <1>7, <1>8, <1>12, <1>13, <1>14 DEF StackInv
<1>16. \A r \in on : x \in Entries(r)
  BY <1>3 DEF Entries
<1> QED
  BY <1>1, <1>2, <1>3, <1>4, <1>15, <1>16

\* What is made again is made again wherever it is.
LEMMA RedoMoveIs ==
    ASSUME StackInv, NEW x \in StackEntries, NEW on \in SUBSET Resources, NEW lock \in 0..MaxRequests,
           Move(x, "redo", on, lock), AtTop(x, "redo", on), OfText(x) \/ ~x.alone, Everywhere(x, on),
           OfText(x) => undone' = undone, ~OfText(x) => undone' = undone \ {x.id}
    PROVE  /\ StackInv' /\ element' = element /\ invalid' = invalid
           /\ \A r \in Resources \ on : stack'[r] = stack[r]
           /\ Forward(x, on, lock)
<1> USE DEF AtTop, Everywhere, Forward
<1> DEFINE Moved(s) == [s EXCEPT !.future = Front(@), !.past = Append(@, x), !.locked = lock]
<1>1. /\ stack' = [r \in Resources |-> IF r \in on THEN Moved(stack[r]) ELSE stack[r]]
      /\ element' = element /\ removed' = removed /\ invalid' = invalid
  BY DEF Move
<1>2. \A r \in Resources \ on : stack'[r] = stack[r]
  BY <1>1
<1>3. ASSUME NEW r \in on
      PROVE  /\ stack[r].future # <<>> /\ x = Last(stack[r].future)
             /\ x \in Range(stack[r].future) /\ x \notin Range(stack[r].past)
             /\ \A y \in Range(stack[r].past) : y.id # x.id
             /\ Once(stack[r].future) /\ Once(stack[r].past)
             /\ stack[r].future \in Seq(StackEntries) /\ stack[r].past \in Seq(StackEntries)
             /\ stack[r].there = TRUE
  <2>1. stack[r].future # <<>> /\ x = Last(stack[r].future)
    BY DEF HasTop, Top, Side
  <2>2. /\ Once(stack[r].future) /\ Once(stack[r].past)
        /\ stack[r].future \in Seq(StackEntries) /\ stack[r].past \in Seq(StackEntries)
        /\ stack[r].there \in BOOLEAN
    BY StacksAre DEF StackInv, EntriesInPlace
  <2>3. x \in Range(stack[r].future)
    BY <2>1, <2>2, FrontKeeps
  <2>4. /\ \A y \in Range(stack[r].past), z \in Range(stack[r].future) : y.id # z.id
        /\ stack[r].there
    BY <2>3 DEF StackInv, EntriesInPlace, Entries
  <2> QED
    BY <2>1, <2>2, <2>3, <2>4
<1>4. ASSUME NEW r \in on
      PROVE  /\ stack'[r] \in Stacks /\ stack'[r].locked = lock /\ stack'[r].there = TRUE
             /\ stack'[r].future = Front(stack[r].future) /\ stack'[r].past = Append(stack[r].past, x)
  <2> DEFINE u == Front(stack[r].future)
             g == Append(stack[r].past, x)
  <2>1. stack'[r] = [stack[r] EXCEPT !.future = u, !.past = g, !.locked = lock]
    BY <1>1
  <2>2. u \in Seq(StackEntries) /\ g \in Seq(StackEntries)
    BY <1>3, FrontKeeps, AppendKeeps
  <2> HIDE DEF u, g
  <2>3. stack[r] \in Stacks /\ stack[r].there = TRUE
    BY <1>3, StacksAre
  <2>4. stack'[r] \in Stacks /\ stack'[r].locked = lock /\ stack'[r].there = TRUE
        /\ stack'[r].future = u /\ stack'[r].past = g
    BY <2>1, <2>2, <2>3 DEF Stacks
  <2> QED
    BY <2>4 DEF u, g
<1>5. ASSUME NEW r \in on
      PROVE  /\ Once(stack'[r].future) /\ Once(stack'[r].past)
             /\ Range(stack'[r].future) \subseteq Range(stack[r].future)
             /\ \A y \in Range(stack'[r].future) : y.id # x.id
             /\ Range(stack'[r].past) = Range(stack[r].past) \cup {x}
  <2> DEFINE p == stack[r].future
             f == stack[r].past
  <2>1. /\ p \in Seq(StackEntries) /\ f \in Seq(StackEntries) /\ Once(p) /\ Once(f)
        /\ p # <<>> /\ x = Last(p) /\ \A y \in Range(f) : y.id # x.id
        /\ stack'[r].future = Front(p) /\ stack'[r].past = Append(f, x)
    BY <1>3, <1>4
  <2> HIDE DEF p, f
  <2>2. Once(Front(p)) /\ Range(Front(p)) \subseteq Range(p) /\ \A y \in Range(Front(p)) : y.id # x.id
    BY <2>1, FrontKeeps
  <2>3. Once(Append(f, x)) /\ Range(Append(f, x)) = Range(f) \cup {x}
    BY <2>1, AppendKeeps
  <2> QED
    BY <2>1, <2>2, <2>3 DEF p, f
<1>6. \A y : OfText(y)' = OfText(y) /\ Spans(y)' = Spans(y)
  BY <1>1 DEF OfText, Spans
<1>7. stack' \in [Resources -> Stacks]
  BY <1>1, <1>2, <1>4, StacksAre
<1>8. EntriesInPlace'
  <2> SUFFICES ASSUME NEW r \in Resources
               PROVE  /\ \A y \in Entries(r)' : r \in element[y.id].on /\ (OfText(y) \/ ~y.alone)
                      /\ Once(stack'[r].past) /\ Once(stack'[r].future)
                      /\ \A y \in Range(stack'[r].past), z \in Range(stack'[r].future) : y.id # z.id
                      /\ ~stack'[r].there => Entries(r)' = {}
    BY <1>1, <1>6 DEF EntriesInPlace
  <2>1. /\ \A y \in Entries(r) : r \in element[y.id].on /\ (OfText(y) \/ ~y.alone)
        /\ Once(stack[r].past) /\ Once(stack[r].future)
        /\ \A y \in Range(stack[r].past), z \in Range(stack[r].future) : y.id # z.id
        /\ ~stack[r].there => Entries(r) = {}
    BY DEF StackInv, EntriesInPlace
  <2>2. CASE r \notin on
    BY <1>2, <2>1, <2>2 DEF Entries
  <2>3. CASE r \in on
    <3>1. Entries(r)' \subseteq Entries(r)
      <4>1. /\ Range(stack'[r].future) \subseteq Range(stack[r].future)
            /\ Range(stack'[r].past) = Range(stack[r].past) \cup {x}
        BY ONLY <1>5, <2>3
      <4>2. x \in Range(stack[r].future)
        BY ONLY <1>3, <2>3
      <4> QED
        BY ONLY <4>1, <4>2 DEF Entries
    <3>2. \A y \in Range(stack'[r].past), z \in Range(stack'[r].future) : y.id # z.id
      BY <1>3, <1>5, <2>1, <2>3
    <3> QED
      BY <1>4, <1>5, <2>1, <2>3, <3>1, <3>2
  <2> QED
    BY <2>2, <2>3
<1>9. \A r \in Resources : /\ Range(stack'[r].future) \subseteq Range(stack[r].future)
                           /\ Range(stack'[r].past) \subseteq Range(stack[r].past) \cup {x}
  BY <1>2, <1>5
<1>10. Spans(x) \/ ~OfText(x) => \A r \in Resources : x \notin Range(stack'[r].future)
  <2> SUFFICES ASSUME Spans(x) \/ ~OfText(x), NEW r \in Resources, x \in Range(stack'[r].future)
               PROVE  FALSE
    OBVIOUS
  <2>1. x \in Entries(r)
    BY <1>9 DEF Entries
  <2>2. r \in on
    BY <2>1
  <2> QED
    BY <1>5, <2>2
<1>11. ASSUME NEW r \in Resources, NEW y \in Entries(r), ~OfText(y), ~OfText(x), y.id = x.id
       PROVE  y = x
  <2>1. y \in StackEntries /\ y.alone = FALSE /\ x.alone = FALSE
    <3>1. y \in StackEntries /\ ~y.alone
      BY <1>11, StacksAre DEF StackInv, EntriesInPlace
    <3> QED
      BY <1>11, <3>1 DEF StackEntries
  <2> QED
    BY <1>11, <2>1 DEF StackEntries
<1>12. SidesAgree'
  <2>1. ASSUME NEW r \in Resources, NEW y \in Range(stack'[r].past)
        PROVE  Spans(y) => \A s \in Resources : y \notin Range(stack'[s].future)
    BY <1>9, <1>10, <2>1 DEF StackInv, SidesAgree
  <2>2. ASSUME NEW r \in Resources, NEW y \in Range(stack'[r].future), ~OfText(y)
        PROVE  y.id \in undone'
    <3>1. y \in Range(stack[r].future) /\ y \in Entries(r) /\ y.id \in undone
      BY <1>9, <2>2 DEF StackInv, SidesAgree, Entries
    <3>2. OfText(x) \/ y.id # x.id
      BY <1>10, <1>11, <2>2, <3>1
    <3> QED
      BY <3>1, <3>2
  <2>3. ASSUME NEW r \in Resources, NEW y \in Range(stack'[r].past), ~OfText(y)
        PROVE  y.id \notin undone'
    BY <1>9, <2>3 DEF StackInv, SidesAgree, StackEntries
  <2> QED
    BY <1>6, <2>1, <2>2, <2>3 DEF SidesAgree
<1>13. Ids' = Ids /\ StackEntries' = StackEntries /\ Stacks' = Stacks
  BY <1>1 DEF Ids, StackEntries, Stacks
<1>14. undone' \subseteq Ids
  BY DEF StackInv, StackEntries
<1>15. StackInv'
  BY <1>1, <1>7, <1>8, <1>12, <1>13, <1>14 DEF StackInv
<1>16. \A r \in on : x \in Entries(r)
  BY <1>3 DEF Entries
<1> QED
  BY <1>1, <1>2, <1>3, <1>4, <1>15, <1>16

\* What is pushed is new.
LEMMA PushIs ==
    ASSUME StackInv, NEW new \in Elements, Push(new), undone' = undone
    PROVE  LET x == Entry(Len(element) + 1, FALSE)
           IN  /\ StackInv' /\ element' = Append(element, new)
               /\ Ids \subseteq Ids' /\ StackEntries \subseteq StackEntries'
               /\ x \in StackEntries' /\ x.id = Len(element) + 1 /\ x.id \notin Ids
               /\ \A id \in Ids : element'[id] = element[id]
               /\ element'[x.id] = new
               /\ \A r \in Resources : stack'[r].locked = stack[r].locked
               /\ \A r \in Resources \ new.on : stack'[r] = stack[r]
               /\ \A r \in new.on : /\ stack'[r].past = Append(stack[r].past, x)
                                    /\ stack'[r].future = <<>>
<1> DEFINE n == Len(element) + 1
           x == Entry(n, FALSE)
           none == <<>>
           New(r) == [stack[r] EXCEPT !.there = TRUE, !.past = Append(@, x), !.future = none]
<1>1. /\ stack' = [r \in Resources |-> IF r \in new.on THEN New(r) ELSE stack[r]]
      /\ element' = Append(element, new) /\ invalid' = invalid
      /\ removed' = removed \cup UNION {Marks(r, Range(stack[r].future)) : r \in new.on}
  BY DEF Push
<1>2. /\ new.on \subseteq Resources /\ element \in Seq(Elements)
      /\ Len(element) \in Nat /\ Ids = 1..Len(element)
      /\ element' \in Seq(Elements) /\ Ids' = 1..n /\ n \in Ids' /\ n \notin Ids
      /\ \A id \in Ids : element'[id] = element[id]
      /\ element'[n] = new
  <2>1. element \in Seq(Elements) /\ new.on \subseteq Resources
    BY DEF StackInv, Elements
  <2>2. /\ element' \in Seq(Elements) /\ Len(element) \in Nat
        /\ DOMAIN element = 1..Len(element) /\ DOMAIN element' = 1..n
        /\ \A id \in DOMAIN element : element'[id] = element[id]
        /\ element'[n] = new
    <3> DEFINE g == Append(element, new)
    <3>1. /\ g \in Seq(Elements) /\ Len(element) \in Nat
          /\ DOMAIN element = 1..Len(element) /\ DOMAIN g = 1..n
          /\ \A id \in DOMAIN element : g[id] = element[id]
          /\ g[n] = new
      BY <2>1, AppendIs
    <3>2. element' = g
      BY <1>1
    <3> HIDE DEF g, n
    <3> QED
      BY <3>1, <3>2
  <2> HIDE DEF n
  <2>3. n \in 1..n /\ n \notin 1..Len(element)
    BY <2>2 DEF n
  <2>4. Ids = DOMAIN element /\ Ids' = DOMAIN element'
    BY DEF Ids
  <2> QED
    BY <2>1, <2>2, <2>3, <2>4
<1> HIDE DEF n
<1>3. Ids \subseteq Ids' /\ StackEntries \subseteq StackEntries'
  BY <1>2 DEF StackEntries, n
<1>4. x \in StackEntries' /\ x.id = n /\ x.alone = FALSE
  BY <1>2 DEF Entry, StackEntries
<1> HIDE DEF x
<1>5. ASSUME NEW s \in Seq(StackEntries) PROVE s \in Seq(StackEntries')
  BY <1>3
<1>6. none \in Seq(StackEntries') /\ Once(none) /\ Range(none) = {}
  BY EmptyKeeps
<1> HIDE DEF none
<1>7. ASSUME NEW r \in new.on
      PROVE  /\ stack'[r] \in Stacks' /\ stack'[r].locked = stack[r].locked /\ stack'[r].there = TRUE
             /\ stack'[r].past = Append(stack[r].past, x) /\ stack'[r].future = none
             /\ Once(stack'[r].past) /\ Range(stack'[r].past) = Range(stack[r].past) \cup {x}
  <2> DEFINE p == stack[r].past
             g == Append(p, x)
  <2>1. /\ p \in Seq(StackEntries') /\ Once(p) /\ \A y \in Range(p) : y.id # x.id
        /\ r \in Resources
    <3>1. r \in Resources /\ Range(p) \subseteq Entries(r)
      BY <1>2 DEF Entries
    <3>2. \A y \in Range(p) : y.id \in Ids
      BY <3>1, StacksAre
    <3> QED
      BY <1>2, <1>4, <1>5, <3>1, <3>2, StacksAre DEF StackInv, EntriesInPlace
  <2> HIDE DEF p
  <2>2. g \in Seq(StackEntries') /\ Once(g) /\ Range(g) = Range(p) \cup {x}
    BY <1>4, <2>1, AppendKeeps
  <2>3. stack'[r] = [stack[r] EXCEPT !.there = TRUE, !.past = g, !.future = none]
    BY <1>1, <2>1 DEF p
  <2> HIDE DEF g
  <2>4. /\ stack'[r] \in Stacks' /\ stack'[r].locked = stack[r].locked /\ stack'[r].there = TRUE
        /\ stack'[r].past = g /\ stack'[r].future = none
    <3>1. stack[r] \in Stacks
      BY <2>1, StacksAre
    <3> QED
      BY <1>6, <2>2, <2>3, <3>1 DEF Stacks
  <2> QED
    BY <2>2, <2>4 DEF p, g
<1>8. \A r \in Resources \ new.on : stack'[r] = stack[r]
  BY <1>1
<1>9. \A r \in Resources : stack'[r].locked = stack[r].locked
  BY <1>7, <1>8
<1>10. stack' \in [Resources -> Stacks']
  <2>1. \A r \in Resources : stack[r] \in Stacks'
    BY <1>5, StacksAre DEF Stacks
  <2>2. \A r \in Resources : stack'[r] \in Stacks'
    BY <1>7, <1>8, <2>1
  <2> QED
    BY <1>1, <2>2
<1>11. \A y \in StackEntries : OfText(y)' = OfText(y) /\ Spans(y)' = Spans(y)
  BY <1>2 DEF OfText, Spans, StackEntries
<1>12. \A r \in Resources : /\ \A y \in Range(stack'[r].past) : y \in Range(stack[r].past) \/ (y = x /\ r \in new.on)
                            /\ Range(stack'[r].future) \subseteq Range(stack[r].future)
                            /\ r \in new.on => Range(stack'[r].future) = {}
  BY <1>6, <1>7, <1>8
<1>13. EntriesInPlace'
  <2> SUFFICES ASSUME NEW r \in Resources
               PROVE  /\ \A y \in Entries(r)' : r \in element'[y.id].on /\ (OfText(y)' \/ ~y.alone)
                      /\ Once(stack'[r].past) /\ Once(stack'[r].future)
                      /\ \A y \in Range(stack'[r].past), z \in Range(stack'[r].future) : y.id # z.id
                      /\ ~stack'[r].there => Entries(r)' = {}
    BY DEF EntriesInPlace
  <2>1. /\ \A y \in Entries(r) : r \in element[y.id].on /\ (OfText(y) \/ ~y.alone)
        /\ Once(stack[r].past) /\ Once(stack[r].future)
        /\ \A y \in Range(stack[r].past), z \in Range(stack[r].future) : y.id # z.id
        /\ ~stack[r].there => Entries(r) = {}
    BY DEF StackInv, EntriesInPlace
  <2>2. \A y \in Entries(r)' : r \in element'[y.id].on /\ (OfText(y)' \/ ~y.alone)
    <3>1. \A y \in Entries(r)' : y \in Entries(r) \/ (y = x /\ r \in new.on)
      BY <1>12 DEF Entries
    <3> QED
      BY <1>2, <1>4, <1>11, <2>1, <3>1, StacksAre
  <2>3. CASE r \notin new.on
    BY <1>8, <2>1, <2>2, <2>3 DEF Entries
  <2>4. CASE r \in new.on
    BY <1>6, <1>7, <1>12, <2>2, <2>4
  <2> QED
    BY <2>3, <2>4
<1>14. SidesAgree'
  <2>1. ASSUME NEW r \in Resources, NEW y \in Range(stack[r].past) \cup Range(stack[r].future)
        PROVE  y \in StackEntries /\ y.id \in Ids /\ OfText(y)' = OfText(y) /\ Spans(y)' = Spans(y)
    BY <1>11, <2>1, StacksAre DEF Entries
  <2>2. ASSUME NEW r \in Resources, NEW y \in Range(stack'[r].past)
        PROVE  /\ Spans(y)' => \A s \in Resources : y \notin Range(stack'[s].future)
               /\ ~OfText(y)' => y.id \notin undone
    <3>1. CASE y \in Range(stack[r].past)
      BY <1>12, <2>1, <3>1 DEF StackInv, SidesAgree
    <3>2. CASE y = x
      BY <1>2, <1>4, <1>12, <2>1, <3>2 DEF StackInv
    <3> QED
      BY <1>12, <3>1, <3>2
  <2>3. ASSUME NEW r \in Resources, NEW y \in Range(stack'[r].future)
        PROVE  ~OfText(y)' => y.id \in undone
    BY <1>12, <2>1, <2>3 DEF StackInv, SidesAgree
  <2> QED
    BY <2>2, <2>3 DEF SidesAgree
<1>15. /\ removed' \subseteq Ids' \X Resources /\ invalid' \subseteq StackEntries' \X Resources
       /\ undone' \subseteq Ids'
  <2>1. \A r \in new.on : Range(stack[r].future) \in SUBSET StackEntries
    BY <1>2, StacksAre DEF Entries
  <2>2. \A r \in new.on : Marks(r, Range(stack[r].future)) \subseteq Ids \X Resources
    BY <1>2, <2>1, MarksAre
  <2>3. removed' \subseteq Ids \X Resources
    <3> DEFINE gone == {Marks(r, Range(stack[r].future)) : r \in new.on}
    <3>1. removed' = removed \cup UNION gone
      BY <1>1
    <3>2. removed \subseteq Ids \X Resources
      BY DEF StackInv
    <3>3. \A marks \in gone : marks \subseteq Ids \X Resources
      BY ONLY <2>2
    <3> HIDE DEF gone
    <3>4. UNION gone \subseteq Ids \X Resources
      BY ONLY <3>3
    <3> QED
      BY ONLY <3>1, <3>2, <3>4
  <2>4. Ids \X Resources \subseteq Ids' \X Resources /\ StackEntries \X Resources \subseteq StackEntries' \X Resources
    BY <1>3
  <2> QED
    BY <1>1, <1>3, <2>3, <2>4 DEF StackInv
<1>16. StackInv'
  BY <1>2, <1>10, <1>13, <1>14, <1>15 DEF StackInv
<1> QED
  BY <1>1, <1>2, <1>3, <1>4, <1>7, <1>8, <1>9, <1>16 DEF n, x, none

-----------------------------------------------------------------------------
(* Requests.                                                               *)

RequestInv ==
    /\ request \in [Requests -> Doings]
    /\ \A q \in Requests : Stands(q)
    /\ \A r \in Resources : LockStands(r)

Grows == \A id \in Ids : id \in Ids' /\ element'[id] = element[id]

SameDoing(p) ==
    request'[p].pc = request[p].pc /\ request'[p].at = request[p].at /\ request'[p].x = request[p].x

LEMMA DoingsAre ==
    ASSUME NEW d \in Doings
    PROVE  /\ d.pc \in {"go", "next", "none", "confirm", "choose", "prepare", "running", "done"}
           /\ d.direction \in {"undo", "redo"} /\ d.at \in Resources \cup {Nowhere}
           /\ d.x \in StackEntries \cup {NoEntry} /\ d.sure \in BOOLEAN /\ d.touched \in BOOLEAN
           /\ d.calls \in 0..MaxCalls
BY DEF Doings, Synchronous

\* A request that has an element has an entry of a stack.
LEMMA ElementIs ==
    ASSUME StackInv, NEW d \in Doings, d.x.id \in Ids
    PROVE  d.x \in StackEntries
<1>1. 0 \notin Ids
  BY DEF StackInv, Ids
<1> QED
  BY <1>1 DEF Doings, NoEntry, Entry

LEMMA IdleIs ==
    [Idle EXCEPT !.pc = "done"] \in Doings /\ [Idle EXCEPT !.pc = "done"].pc = "done"
<1>1. MaxCalls \in Nat /\ 0 \in 0..MaxCalls
  BY UndoRedoAssumption DEF MaxCalls
<1> QED
  BY <1>1 DEF Idle, Doings

\* Who has a snapshot is told, and nothing else.
LEMMA TouchIs ==
    ASSUME NEW requests \in [Requests -> Doings], NEW on
    PROVE  /\ Touch(requests, on) \in [Requests -> Doings]
           /\ \A p \in Requests : LET a == Touch(requests, on)[p]
                                      b == requests[p]
                                  IN  a.pc = b.pc /\ a.at = b.at /\ a.x = b.x /\ a.direction = b.direction
<1>1. \A p \in Requests : [requests[p] EXCEPT !.touched = TRUE] \in Doings
  BY DEF Doings
<1>2. \A p \in Requests : LET a == [requests[p] EXCEPT !.touched = TRUE]
                              b == requests[p]
                          IN  a.pc = b.pc /\ a.at = b.at /\ a.x = b.x /\ a.direction = b.direction
  BY DEF Doings
<1> QED
  BY <1>1, <1>2 DEF Touch

\* A request goes on, waits or ends, and the others stay.
LEMMA GoesIs ==
    ASSUME request \in [Requests -> Doings], NEW q \in Requests, NEW at \in Resources, NEW sure \in BOOLEAN
    PROVE  /\ Goes(q, at, sure) \in [Requests -> Doings]
           /\ \A p \in Requests \ {q} : Goes(q, at, sure)[p] = request[p]
           /\ Goes(q, at, sure)[q].pc = "go" /\ Goes(q, at, sure)[q].at = at
<1> DEFINE d == request[q]
           n == IF d.calls < MaxCalls THEN d.calls + 1 ELSE d.calls
           new == [d EXCEPT !.pc = "go", !.at = at, !.sure = sure, !.x = NoEntry, !.touched = FALSE,
                            !.calls = n]
<1>1. Goes(q, at, sure) = [request EXCEPT ![q] = new]
  BY DEF Goes
<1>2. n \in 0..MaxCalls
  <2>1. d.calls \in 0..MaxCalls /\ MaxCalls \in Nat
    BY DoingsAre, UndoRedoAssumption DEF MaxCalls
  <2> HIDE DEF d
  <2> QED
    BY <2>1
<1>3. d \in Doings
  OBVIOUS
<1> HIDE DEF n, d
<1>4. new \in Doings /\ new.pc = "go" /\ new.at = at
  BY <1>2, <1>3 DEF Doings, Synchronous
<1> HIDE DEF new
<1> QED
  BY <1>1, <1>4

LEMMA BecomesIs ==
    ASSUME request \in [Requests -> Doings], NEW q \in Requests,
           NEW pc \in {"confirm", "choose", "prepare", "next"}
    PROVE  /\ Becomes(q, pc) \in [Requests -> Doings]
           /\ \A p \in Requests \ {q} : Becomes(q, pc)[p] = request[p]
           /\ Becomes(q, pc)[q].pc = pc /\ Becomes(q, pc)[q].at = request[q].at
           /\ Becomes(q, pc)[q].x = request[q].x
<1> DEFINE d == request[q]
           new == [d EXCEPT !.pc = pc, !.calls = 0]
<1>1. Becomes(q, pc) = [request EXCEPT ![q] = new]
  BY DEF Becomes
<1>2. d \in Doings /\ 0 \in 0..MaxCalls
  BY UndoRedoAssumption DEF MaxCalls
<1> HIDE DEF d
<1>3. new \in Doings /\ new.pc = pc /\ new.at = d.at /\ new.x = d.x
  BY <1>2 DEF Doings, Synchronous
<1> HIDE DEF new
<1> QED
  BY <1>1, <1>3 DEF d

LEMMA EndsIs ==
    ASSUME request \in [Requests -> Doings], NEW q \in Requests
    PROVE  /\ Ends(q) \in [Requests -> Doings]
           /\ \A p \in Requests \ {q} : Ends(q)[p] = request[p]
           /\ Ends(q)[q].pc = "done"
BY IdleIs DEF Ends

\* What a step keeps of requests and of their locks.
LEMMA StepStands ==
    ASSUME StackInv, RequestInv, Grows, NEW q,
           \A p \in Requests : SameDoing(p) \/ (p = q /\ Stands(p)'),
           \A r \in Resources :
             \/ LockStands(r)' \/ stack'[r].locked = 0
             \/ stack'[r].locked = stack[r].locked
                /\ (stack[r].locked # q \/ request[q].pc # "running" \/ SameDoing(q))
    PROVE  (\A p \in Requests : Stands(p)') /\ \A r \in Resources : LockStands(r)'
<1>1. ASSUME NEW x, x.id \in Ids
      PROVE  /\ x.id \in Ids' /\ element'[x.id] = element[x.id]
             /\ Spans(x)' = Spans(x) /\ OfText(x)' = OfText(x)
  BY <1>1 DEF Grows, Spans, OfText
<1>2. ASSUME NEW p \in Requests, SameDoing(p) PROVE Stands(p)'
  <2>1. Stands(p)
    BY DEF RequestInv
  <2> QED
    BY <1>1, <1>2, <2>1 DEF Stands, SameDoing
<1>3. ASSUME NEW r \in Resources, stack'[r].locked = stack[r].locked, stack[r].locked # 0,
             stack[r].locked # q \/ request[q].pc # "running" \/ SameDoing(q)
      PROVE  LockStands(r)'
  <2> PICK p : p = stack[r].locked
    OBVIOUS
  <2>1. p \in Requests
    <3>1. p \in 0..MaxRequests /\ MaxRequests \in Nat
      BY StacksAre, UndoRedoAssumption
    <3> QED
      BY <1>3, <3>1 DEF Requests
  <2>2. request[p].pc = "running" /\ r \in On(request[p].x, request[p].at)
    BY <1>3 DEF RequestInv, LockStands
  <2>3. SameDoing(p)
    BY <1>3, <2>1, <2>2
  <2>4. request[p].x.id \in Ids
    BY <2>1, <2>2 DEF RequestInv, Stands
  <2>5. On(request[p].x, request[p].at)' = On(request[p].x, request[p].at)
    BY <1>1, <2>3, <2>4 DEF On, SameDoing, Spans
  <2> QED
    BY <1>3, <2>2, <2>3, <2>5 DEF LockStands, SameDoing
<1>4. \A r \in Resources : stack'[r].locked = 0 => LockStands(r)'
  BY DEF LockStands
<1> QED
  BY <1>2, <1>3, <1>4

-----------------------------------------------------------------------------
(* Texts.                                                                  *)

TextInv ==
    /\ text \in [Resources -> Texts] /\ open \in [Resources -> BOOLEAN]
    /\ initial \in [Resources -> Snapshots]
    /\ disposed \in [Resources -> {Forgotten} \cup [known : {TRUE}, sha1 : Texts, initial : Snapshots]]
    /\ history \in [outlived : SUBSET Resources, closes : Nat, changes : Nat]
    /\ unloaded \subseteq Ids \X Resources
    /\ \A r \in Resources \ history.outlived : TextFollows(r)
    /\ NothingGarbled

LEMMA IInvIs == IInv <=> StackInv /\ RequestInv /\ TextInv
BY DEF IInv, TypeOK, StackInv, RequestInv, TextInv

LEMMA IInvKept ==
    ASSUME StackInv', RequestInv', TextInv'
    PROVE  IInv'
BY DEF IInv, TypeOK, StackInv, RequestInv, TextInv

Clean(t) == \A i \in DOMAIN t : t[i] # Garbled

LEMMA CleanIs ==
    NothingGarbled <=> \A r \in Resources \ history.outlived : Clean(text[r])
BY DEF NothingGarbled, Clean

SameSides(r) ==
    /\ DOMAIN stack'[r].past = DOMAIN stack[r].past /\ DOMAIN stack'[r].future = DOMAIN stack[r].future
    /\ \A i \in DOMAIN stack[r].past : stack'[r].past[i].id = stack[r].past[i].id
    /\ \A i \in DOMAIN stack[r].future : stack'[r].future[i].id = stack[r].future[i].id

\* As long as neither the elements nor the text change.
LEMMA SidesFollow ==
    ASSUME StackInv, NEW r \in Resources, TextFollows(r), Grows, SameSides(r),
           open'[r] = open[r], disposed'[r] = disposed[r], open[r] => text'[r] = text[r],
           \A id \in Ids : <<id, r>> \in unloaded => <<id, r>> \in unloaded'
    PROVE  TextFollows(r)'
<1>1. ASSUME NEW t, Follow(element, stack[r].past, stack[r].future, r, t)
      PROVE  Follow(element', stack'[r].past, stack'[r].future, r, t)
  <2>1. /\ \A i \in DOMAIN stack[r].past : stack[r].past[i].id \in Ids
        /\ \A i \in DOMAIN stack[r].future : stack[r].future[i].id \in Ids
    <3>1. /\ \A i \in DOMAIN stack[r].past : stack[r].past[i] \in Entries(r)
          /\ \A i \in DOMAIN stack[r].future : stack[r].future[i] \in Entries(r)
      BY RangeIs DEF Entries
    <3> QED
      BY <3>1, StacksAre
  <2>2. /\ \A i \in DOMAIN stack[r].past : element'[stack[r].past[i].id] = element[stack[r].past[i].id]
        /\ \A i \in DOMAIN stack[r].future : element'[stack[r].future[i].id] = element[stack[r].future[i].id]
    BY <2>1 DEF Grows
  <2> QED
    BY <1>1, <2>2, SameFollows DEF SameSides
<1>2. \A x \in TextEntries(r)' : \E z \in TextEntries(r) : x.id = z.id
  <2> SUFFICES ASSUME NEW x \in Entries(r)', OfText(x)' PROVE \E z \in Entries(r) : OfText(z) /\ x.id = z.id
    BY DEF TextEntries
  <2>1. PICK z \in Entries(r) : x.id = z.id
    BY RangeIs DEF Entries, SameSides
  <2>2. z.id \in Ids
    BY StacksAre
  <2> QED
    BY <2>1, <2>2 DEF OfText, Grows
<1>3. \A x \in TextEntries(r) : x.id \in Ids
  BY StacksAre DEF TextEntries
<1>4. CASE open[r]
  BY <1>1, <1>4 DEF TextFollows
<1>5. CASE ~open[r]
  <2>1. \A x \in TextEntries(r)' : <<x.id, r>> \in unloaded'
    BY <1>2, <1>3, <1>5 DEF TextFollows
  <2>2. IF disposed'[r].known THEN Follow(element', stack'[r].past, stack'[r].future, r, disposed'[r].sha1)
        ELSE TextEntries(r)' = {}
    BY <1>1, <1>2, <1>5 DEF TextFollows
  <2> QED
    BY <1>5, <2>1, <2>2 DEF TextFollows
<1> QED
  BY <1>4, <1>5

\* Without an element of a text, there is nothing to follow.
LEMMA NoTextFollows ==
    ASSUME NEW r, \A x \in Entries(r)' : ~OfText(x)'
    PROVE  TextFollows(r)'
<1>1. \A x \in Range(stack'[r].past) \cup Range(stack'[r].future) : ~IsText(element', x)
  BY DEF Entries, OfText, IsText
<1>2. \A t : Follow(element', stack'[r].past, stack'[r].future, r, t)
  BY <1>1, NothingFollows
<1>3. TextEntries(r)' = {}
  BY DEF TextEntries
<1> QED
  BY <1>2, <1>3 DEF TextFollows

\* What is done to stacks whose texts stay as they are.
LEMMA TextsKept ==
    ASSUME StackInv, TextInv, Grows, UNCHANGED <<text, open, initial, disposed, unloaded, history>>,
           Snapshots \subseteq Snapshots',
           \A r \in Resources : SameSides(r) \/ Entries(r)' = {}
    PROVE  TextInv'
<1>1. \A r \in Resources \ history.outlived : TextFollows(r)'
  BY SidesFollow, NoTextFollows DEF TextInv
<1>2. NothingGarbled'
  BY DEF TextInv, NothingGarbled
<1>3. Ids \subseteq Ids'
  BY DEF Grows
<1>4. initial' \in [Resources -> Snapshots']
  BY DEF TextInv
<1>5. disposed' \in [Resources -> {Forgotten} \cup [known : {TRUE}, sha1 : Texts, initial : Snapshots']]
  <2>1. [known : {TRUE}, sha1 : Texts, initial : Snapshots]
          \subseteq [known : {TRUE}, sha1 : Texts, initial : Snapshots']
    OBVIOUS
  <2> QED
    BY <2>1 DEF TextInv
<1> QED
  BY <1>1, <1>2, <1>3, <1>4, <1>5 DEF TextInv

\* An edit is undone on the text it has left.
LEMMA RevertedIs ==
    ASSUME StackInv, TextInv, NEW r \in Resources, NEW x \in StackEntries
    PROVE  Reverted(x.id, r) \in Texts /\ Reapplied(x.id, r) \in Texts /\ FoundIn(element, x, r) \in Texts
<1>1. text[r] \in Seq(Int) /\ Garbled \in Int
  BY DEF TextInv, Texts, Garbled
<1>2. element[x.id].found[r] \in Seq(Int) /\ x.id \in Int
  <2>1. x.id \in DOMAIN element /\ element \in Seq(Elements)
    BY DEF StackInv, StackEntries, Ids
  <2>2. element[x.id] \in Elements
    BY <2>1
  <2> QED
    BY <2>1, <2>2 DEF Elements, Texts
<1>3. Append(text[r], Garbled) \in Seq(Int) /\ Append(text[r], x.id) \in Seq(Int)
  BY <1>1, <1>2
<1> QED
  BY <1>2, <1>3 DEF Reverted, Reapplied, FoundIn, Texts

LEMMA UndoneIs ==
    ASSUME StackInv, TextInv, NEW r \in Resources \ history.outlived, open[r],
           stack[r].past # <<>>, NEW x \in StackEntries, x = Last(stack[r].past), OfText(x)
    PROVE  /\ Clean(Reverted(x.id, r))
           /\ Follow(element, Front(stack[r].past), Append(stack[r].future, x), r, Reverted(x.id, r))
<1>1. Follow(element, stack[r].past, stack[r].future, r, text[r])
  BY DEF TextInv, TextFollows
<1>2. /\ text[r] = LeftIn(element, x, r)
      /\ Follow(element, Front(stack[r].past), Append(stack[r].future, x), r, FoundIn(element, x, r))
  <2>1. IsText(element, x)
    BY DEF OfText, IsText
  <2>2. stack[r].past \in Seq(StackEntries) /\ stack[r].future \in Seq(StackEntries)
    BY StacksAre
  <2> QED
    BY <1>1, <2>1, <2>2, UndoneFollows
<1>3. Reverted(x.id, r) = FoundIn(element, x, r)
  BY <1>2 DEF Reverted, LeftIn, FoundIn
<1>4. Clean(FoundIn(element, x, r))
  <2> DEFINE t == FoundIn(element, x, r)
  <2>1. t \in Seq(Int) /\ x.id \in Int
    <3>1. x.id \in Int
      BY DEF StackInv, StackEntries, Ids
    <3> QED
      BY <3>1, RevertedIs DEF Texts
  <2>2. Clean(Append(t, x.id))
    BY <1>2, CleanIs DEF TextInv, LeftIn
  <2> HIDE DEF t
  <2>3. \A i \in DOMAIN t : i \in DOMAIN Append(t, x.id) /\ Append(t, x.id)[i] = t[i]
    BY <2>1
  <2>4. Clean(t)
    BY <2>2, <2>3 DEF Clean
  <2> QED
    BY <2>4 DEF t
<1> QED
  BY <1>2, <1>3, <1>4

\* And made again on the text it was made on.
LEMMA RedoneIs ==
    ASSUME StackInv, TextInv, NEW r \in Resources \ history.outlived, open[r],
           stack[r].future # <<>>, NEW x \in StackEntries, x = Last(stack[r].future), OfText(x)
    PROVE  /\ Clean(Reapplied(x.id, r))
           /\ Follow(element, Append(stack[r].past, x), Front(stack[r].future), r, Reapplied(x.id, r))
<1>1. Follow(element, stack[r].past, stack[r].future, r, text[r])
  BY DEF TextInv, TextFollows
<1>2. /\ text[r] = FoundIn(element, x, r)
      /\ Follow(element, Append(stack[r].past, x), Front(stack[r].future), r, LeftIn(element, x, r))
  <2>1. IsText(element, x)
    BY DEF OfText, IsText
  <2>2. stack[r].past \in Seq(StackEntries) /\ stack[r].future \in Seq(StackEntries)
    BY StacksAre
  <2> DEFINE p == stack[r].past
             f == stack[r].future
             t == text[r]
  <2>3. f # <<>> /\ x = Last(f) /\ Follow(element, p, f, r, t) /\ p \in Seq(StackEntries) /\ f \in Seq(StackEntries)
    BY <1>1, <2>2
  <2> HIDE DEF p, f, t
  <2>4. IsText(element, Last(f)) => FoundIn(element, Last(f), r) = t
    BY ONLY <2>3, RedoneFollows
  <2>5. IsText(element, Last(f)) =>
            Follow(element, Append(p, Last(f)), Front(f), r, LeftIn(element, Last(f), r))
    BY ONLY <2>3, RedoneFollows
  <2>6. /\ t = FoundIn(element, x, r)
        /\ Follow(element, Append(p, x), Front(f), r, LeftIn(element, x, r))
    BY ONLY <2>1, <2>3, <2>4, <2>5
  <2> QED
    BY <2>6 DEF p, f, t
<1>3. Reapplied(x.id, r) = LeftIn(element, x, r)
  BY <1>2 DEF Reapplied, LeftIn, FoundIn
<1>4. Clean(Append(text[r], x.id))
  <2> DEFINE t == text[r]
             g == Append(t, x.id)
  <2>1. t \in Seq(Int) /\ x.id \in Int /\ x.id # Garbled
    <3>1. x.id \in Nat
      BY DEF StackInv, StackEntries, Ids
    <3> QED
      BY <3>1 DEF TextInv, Texts, Garbled
  <2>2. Clean(t)
    BY CleanIs DEF TextInv
  <2> HIDE DEF t
  <2>3. /\ \A i \in DOMAIN t : g[i] = t[i]
        /\ g[Len(t) + 1] = x.id
        /\ \A i \in DOMAIN g : i \in DOMAIN t \/ i = Len(t) + 1
    BY <2>1, AppendIs
  <2> HIDE DEF g
  <2>4. Clean(g)
    BY <2>1, <2>2, <2>3 DEF Clean
  <2> QED
    BY <2>4 DEF g, t
<1>5. Reapplied(x.id, r) = Append(text[r], x.id)
  BY <1>2, <1>3 DEF LeftIn
<1> QED
  BY <1>2, <1>3, <1>4, <1>5

LEMMA EditedIs ==
    ASSUME StackInv, TextInv, NEW x \in StackEntries, NEW direction \in {"undo", "redo"},
           NEW on \in SUBSET Resources
    PROVE  /\ Edited(x, direction, on) \in [Resources -> Texts]
           /\ \A r \in Resources : Edited(x, direction, on)[r] =
                IF r \notin on THEN text[r]
                ELSE IF direction = "undo" THEN Reverted(x.id, r) ELSE Reapplied(x.id, r)
<1>1. \A r \in Resources : /\ Reverted(x.id, r) \in Texts /\ Reapplied(x.id, r) \in Texts
                           /\ text[r] \in Texts
  BY RevertedIs DEF TextInv
<1> QED
  BY <1>1 DEF Edited

\* An element that moves, with the texts it is about.
LEMMA TextsMoved ==
    ASSUME StackInv, TextInv, element' = element, UNCHANGED <<open, initial, disposed, unloaded, history>>,
           NEW on \in SUBSET Resources, NEW x \in StackEntries, NEW direction \in {"undo", "redo"}, NEW lock,
           \A r \in Resources \ on : stack'[r] = stack[r],
           direction = "undo" => Backward(x, on, lock), direction = "redo" => Forward(x, on, lock),
           OfText(x) => text' = Edited(x, direction, on), ~OfText(x) => text' = text,
           OfText(x) => \A r \in on : <<x.id, r>> \notin unloaded
    PROVE  TextInv'
<1> USE DEF Backward, Forward
<1>1. text' \in [Resources -> Texts] /\ \A r \in Resources \ on : text'[r] = text[r]
  <2>1. CASE OfText(x)
    BY <2>1, EditedIs
  <2>2. CASE ~OfText(x)
    BY <2>2 DEF TextInv
  <2> QED
    BY <2>1, <2>2
<1>2. ASSUME NEW r \in Resources \ history.outlived, r \in on, OfText(x)
      PROVE  TextFollows(r)' /\ Clean(text'[r])
  <2>1. open[r]
    <3>1. x \in TextEntries(r) /\ <<x.id, r>> \notin unloaded
      BY <1>2 DEF TextEntries
    <3> QED
      BY <1>2, <3>1 DEF TextInv, TextFollows
  <2>2. CASE direction = "undo"
    <3>1. text'[r] = Reverted(x.id, r)
      BY <1>2, <2>2, EditedIs
    <3>2. /\ Clean(Reverted(x.id, r))
          /\ Follow(element, Front(stack[r].past), Append(stack[r].future, x), r, Reverted(x.id, r))
      BY <1>2, <2>1, <2>2, UndoneIs
    <3>3. Follow(element', stack'[r].past, stack'[r].future, r, text'[r])
      BY <1>2, <2>2, <3>1, <3>2
    <3> QED
      BY <2>1, <3>1, <3>2, <3>3 DEF TextFollows
  <2>3. CASE direction = "redo"
    <3>1. text'[r] = Reapplied(x.id, r)
      BY <1>2, <2>3, EditedIs
    <3>2. /\ Clean(Reapplied(x.id, r))
          /\ Follow(element, Append(stack[r].past, x), Front(stack[r].future), r, Reapplied(x.id, r))
      BY <1>2, <2>1, <2>3, RedoneIs
    <3>3. Follow(element', stack'[r].past, stack'[r].future, r, text'[r])
      BY <1>2, <2>3, <3>1, <3>2
    <3> QED
      BY <2>1, <3>1, <3>2, <3>3 DEF TextFollows
  <2> QED
    BY <2>2, <2>3
<1>3. ASSUME NEW r \in Resources \ history.outlived, r \in on, ~OfText(x)
      PROVE  TextFollows(r)'
  <2>1. stack[r].past \in Seq(StackEntries) /\ stack[r].future \in Seq(StackEntries)
    BY StacksAre
  <2>2. ~IsText(element, x)
    BY <1>3 DEF OfText, IsText
  <2>3. \A t : Follow(element, stack[r].past, stack[r].future, r, t)
                 => Follow(element', stack'[r].past, stack'[r].future, r, t)
    <3> SUFFICES ASSUME NEW t, Follow(element, stack[r].past, stack[r].future, r, t)
                 PROVE  Follow(element', stack'[r].past, stack'[r].future, r, t)
      OBVIOUS
    <3>1. CASE direction = "undo"
      <4>1. Follow(element, Front(stack[r].past), Append(stack[r].future, x), r, t)
        BY <1>3, <2>1, <2>2, <3>1, UndoneFollows
      <4> QED
        BY <1>3, <3>1, <4>1
    <3>2. CASE direction = "redo"
      <4>1. Follow(element, Append(stack[r].past, x), Front(stack[r].future), r, t)
        BY <1>3, <2>1, <2>2, <3>2, RedoneFollows
      <4> QED
        BY <1>3, <3>2, <4>1
    <3> QED
      BY <3>1, <3>2
  <2>4. Entries(r)' \subseteq Entries(r)
    <3>1. \A s \in Seq(StackEntries) : s # <<>> => Range(Front(s)) \subseteq Range(s)
      BY FrontIs, RangeIs
    <3>2. ASSUME NEW s \in Seq(StackEntries) PROVE Range(Append(s, x)) \subseteq Range(s) \cup {x}
      <4>1. \A i \in DOMAIN Append(s, x) : Append(s, x)[i] = x \/ \E j \in DOMAIN s : Append(s, x)[i] = s[j]
        BY AppendIs
      <4> DEFINE g == Append(s, x)
      <4>2. \A i \in DOMAIN g : g[i] = x \/ \E j \in DOMAIN s : g[i] = s[j]
        BY <4>1
      <4> HIDE DEF g
      <4>3. Range(g) \subseteq Range(s) \cup {x}
        BY <4>2 DEF Range
      <4> QED
        BY <4>3 DEF g
    <3>3. CASE direction = "undo"
      <4>1. /\ Range(stack'[r].past) \subseteq Range(stack[r].past)
            /\ Range(stack'[r].future) \subseteq Range(stack[r].future) \cup {x}
        BY <1>3, <2>1, <3>1, <3>2, <3>3
      <4> QED
        BY <1>3, <4>1 DEF Entries
    <3>4. CASE direction = "redo"
      <4>1. /\ Range(stack'[r].future) \subseteq Range(stack[r].future)
            /\ Range(stack'[r].past) \subseteq Range(stack[r].past) \cup {x}
        BY <1>3, <2>1, <3>1, <3>2, <3>4
      <4> QED
        BY <1>3, <4>1 DEF Entries
    <3> QED
      BY <3>3, <3>4
  <2>5. TextEntries(r)' \subseteq TextEntries(r)
    BY <2>4 DEF TextEntries, OfText
  <2>6. TextFollows(r) /\ text' = text
    BY <1>3 DEF TextInv
  <2> QED
    BY <2>3, <2>5, <2>6 DEF TextFollows
<1>4. ASSUME NEW r \in Resources \ history.outlived, r \notin on
      PROVE  TextFollows(r)' /\ Clean(text'[r])
  <2>1. TextFollows(r) /\ Grows /\ SameSides(r) /\ text'[r] = text[r]
    BY <1>1, <1>4 DEF TextInv, Grows, SameSides, Ids
  <2>2. TextFollows(r)'
    BY <2>1, SidesFollow
  <2>3. Clean(text[r])
    BY CleanIs DEF TextInv
  <2> QED
    BY <2>1, <2>2, <2>3
<1>5. \A r \in Resources \ history.outlived : TextFollows(r)' /\ Clean(text'[r])
  <2>1. ~OfText(x) => \A r \in Resources \ history.outlived : Clean(text'[r])
    BY CleanIs DEF TextInv
  <2> QED
    BY <1>2, <1>3, <1>4, <2>1
<1>6. NothingGarbled'
  BY <1>5 DEF NothingGarbled, Clean
<1>7. Ids' = Ids /\ StackEntries' = StackEntries /\ Snapshots' = Snapshots
  BY DEF Ids, StackEntries, Snapshots
<1> QED
  BY <1>1, <1>5, <1>6, <1>7 DEF TextInv

\* An edit that fails has been made in some of the texts, and its stacks are gone.
LEMMA TextsFailed ==
    ASSUME StackInv, TextInv, element' = element, UNCHANGED <<open, initial, disposed, unloaded, history>>,
           NEW on \in SUBSET Resources, NEW x \in StackEntries, NEW direction \in {"undo", "redo"},
           \A r \in Resources : stack'[r] = IF r \in on THEN NoStack ELSE stack[r],
           \A r \in on : /\ x \in Entries(r)
                         /\ direction = "undo" => stack[r].past # <<>> /\ x = Last(stack[r].past)
                         /\ direction = "redo" => stack[r].future # <<>> /\ x = Last(stack[r].future),
           OfText(x),
           NEW some \in SUBSET {r \in on : <<x.id, r>> \notin unloaded}, text' = Edited(x, direction, some)
    PROVE  TextInv'
<1>1. text' \in [Resources -> Texts] /\ \A r \in Resources \ some : text'[r] = text[r]
  <2>1. some \in SUBSET Resources
    OBVIOUS
  <2> QED
    BY <2>1, EditedIs
<1>2. ASSUME NEW r \in Resources \ history.outlived, r \in some
      PROVE  Clean(text'[r])
  <2>1. open[r]
    <3>1. x \in TextEntries(r) /\ <<x.id, r>> \notin unloaded
      BY <1>2 DEF TextEntries
    <3> QED
      BY <1>2, <3>1 DEF TextInv, TextFollows
  <2>2. CASE direction = "undo"
    <3>1. text'[r] = Reverted(x.id, r)
      BY <1>2, <2>2, EditedIs
    <3>2. Clean(Reverted(x.id, r))
      BY <1>2, <2>1, <2>2, UndoneIs
    <3> QED
      BY <3>1, <3>2
  <2>3. CASE direction = "redo"
    <3>1. text'[r] = Reapplied(x.id, r)
      BY <1>2, <2>3, EditedIs
    <3>2. Clean(Reapplied(x.id, r))
      BY <1>2, <2>1, <2>3, RedoneIs
    <3> QED
      BY <3>1, <3>2
  <2> QED
    BY <2>2, <2>3
<1>3. \A r \in Resources \ history.outlived : Clean(text'[r])
  <2>1. \A r \in Resources \ history.outlived : Clean(text[r])
    BY CleanIs DEF TextInv
  <2> QED
    BY <1>1, <1>2, <2>1
<1>4. \A r \in Resources \ history.outlived : TextFollows(r)'
  <2> SUFFICES ASSUME NEW r \in Resources \ history.outlived PROVE TextFollows(r)'
    OBVIOUS
  <2>1. CASE r \in on
    <3>1. Entries(r)' = {}
      BY <2>1, NoStackIs DEF Entries
    <3> QED
      BY <3>1, NoTextFollows
  <2>2. CASE r \notin on
    <3>1. TextFollows(r) /\ Grows /\ SameSides(r) /\ text'[r] = text[r]
      BY <1>1, <2>2 DEF TextInv, Grows, SameSides, Ids
    <3> QED
      BY <3>1, SidesFollow
  <2> QED
    BY <2>1, <2>2
<1>5. NothingGarbled'
  BY <1>3 DEF NothingGarbled, Clean
<1>6. Ids' = Ids /\ StackEntries' = StackEntries /\ Snapshots' = Snapshots
  BY DEF Ids, StackEntries, Snapshots
<1> QED
  BY <1>1, <1>4, <1>5, <1>6 DEF TextInv

-----------------------------------------------------------------------------
(* Steps of requests.                                                      *)

LEMMA GrowsIs ==
    ASSUME Grows
    PROVE  /\ Ids \subseteq Ids' /\ StackEntries \subseteq StackEntries'
           /\ Snapshots \subseteq Snapshots' /\ Doings \subseteq Doings'
<1>1. Ids \subseteq Ids' /\ StackEntries \subseteq StackEntries'
  BY DEF Grows, StackEntries
<1>2. Snapshots \subseteq Snapshots'
  <2>1. \A s : s \in Seq(StackEntries \cup {NoEntry}) => s \in Seq(StackEntries' \cup {NoEntry})
    BY <1>1
  <2> QED
    BY <2>1 DEF Snapshots
<1>3. Doings \subseteq Doings'
  BY <1>1 DEF Doings
<1> QED
  BY <1>1, <1>2, <1>3

LEMMA SameGrows ==
    ASSUME element' = element
    PROVE  Grows /\ Ids' = Ids /\ StackEntries' = StackEntries /\ Snapshots' = Snapshots /\ Doings' = Doings
BY DEF Grows, Ids, StackEntries, Snapshots, Doings

LEMMA RequestKept ==
    ASSUME StackInv, RequestInv, Grows, NEW q, request' \in [Requests -> Doings],
           \A p \in Requests : SameDoing(p) \/ (p = q /\ Stands(p)'),
           \A r \in Resources :
             \/ LockStands(r)' \/ stack'[r].locked = 0
             \/ stack'[r].locked = stack[r].locked
                /\ (stack[r].locked # q \/ request[q].pc # "running" \/ SameDoing(q))
    PROVE  RequestInv'
<1>1. (\A p \in Requests : Stands(p)') /\ \A r \in Resources : LockStands(r)'
  BY StepStands
<1>2. request' \in [Requests -> Doings']
  BY GrowsIs
<1> QED
  BY <1>1, <1>2 DEF RequestInv

\* One request makes a step, and others may be told that stacks have changed.
LEMMA StepsTo ==
    ASSUME NEW q \in Requests, NEW d \in [Requests -> Doings],
           \A p \in Requests \ {q} : d[p] = request[p],
           NEW on, request' = d \/ request' = Touch(d, on)
    PROVE  /\ request' \in [Requests -> Doings]
           /\ \A p \in Requests \ {q} : SameDoing(p)
           /\ request'[q].pc = d[q].pc /\ request'[q].at = d[q].at /\ request'[q].x = d[q].x
<1>1. CASE request' = d
  BY <1>1 DEF SameDoing
<1>2. CASE request' = Touch(d, on)
  <2>1. /\ request' \in [Requests -> Doings]
        /\ \A p \in Requests : request'[p].pc = d[p].pc /\ request'[p].at = d[p].at /\ request'[p].x = d[p].x
    BY <1>2, TouchIs
  <2> QED
    BY <2>1 DEF SameDoing
<1> QED
  BY <1>1, <1>2

\* A request that ends leaves the locks of the others, and its own if it does not run.
LEMMA EndKept ==
    ASSUME StackInv, RequestInv, Grows, NEW q \in Requests, NEW on,
           request' = Ends(q) \/ request' = Touch(Ends(q), on),
           \A r \in Resources :
             \/ stack'[r].locked = 0
             \/ stack'[r].locked = stack[r].locked /\ (stack[r].locked # q \/ request[q].pc # "running")
    PROVE  RequestInv'
<1>1. /\ Ends(q) \in [Requests -> Doings] /\ Ends(q)[q].pc = "done"
      /\ \A p \in Requests \ {q} : Ends(q)[p] = request[p]
  BY EndsIs DEF RequestInv
<1>2. /\ request' \in [Requests -> Doings] /\ request'[q].pc = "done"
      /\ \A p \in Requests \ {q} : SameDoing(p)
  BY <1>1, StepsTo
<1>3. Stands(q)'
  BY <1>2 DEF Stands
<1> QED
  BY <1>2, <1>3, RequestKept

LEMMA GoKept ==
    ASSUME StackInv, RequestInv, Grows, NEW q \in Requests, NEW at \in Resources, NEW sure \in BOOLEAN,
           NEW on, request' = Goes(q, at, sure) \/ request' = Touch(Goes(q, at, sure), on),
           request[q].pc # "running",
           \A r \in Resources : stack'[r].locked = 0 \/ stack'[r].locked = stack[r].locked
    PROVE  RequestInv'
<1>1. /\ Goes(q, at, sure) \in [Requests -> Doings]
      /\ Goes(q, at, sure)[q].pc = "go" /\ Goes(q, at, sure)[q].at = at
      /\ \A p \in Requests \ {q} : Goes(q, at, sure)[p] = request[p]
  BY GoesIs DEF RequestInv
<1>2. /\ request' \in [Requests -> Doings] /\ request'[q].pc = "go" /\ request'[q].at = at
      /\ \A p \in Requests \ {q} : SameDoing(p)
  BY <1>1, StepsTo
<1>3. Stands(q)'
  BY <1>2 DEF Stands
<1> QED
  BY <1>2, <1>3, RequestKept

\* Nothing but the requests changes.
LEMMA OnlyRequests ==
    ASSUME StackInv, TextInv, UNCHANGED <<stackVars, undone, text, modelVars, history>>
    PROVE  /\ StackInv' /\ TextInv' /\ Grows
           /\ \A r \in Resources : stack'[r] = stack[r]
<1>1. element' = element /\ stack' = stack /\ removed' = removed /\ invalid' = invalid
  BY DEF stackVars
<1>2. StackInv'
  BY <1>1 DEF StackInv, EntriesInPlace, SidesAgree, Entries, OfText, Spans, Ids, StackEntries, Stacks
<1>3. TextInv'
  BY <1>1, SameGrows, TextsKept DEF SameSides, modelVars
<1> QED
  BY <1>1, <1>2, <1>3, SameGrows

LEMMA GoNowhereKeeps ==
    ASSUME StackInv, RequestInv, TextInv, NEW q \in Requests, GoNowhere(q)
    PROVE  IInv'
<1>1. request' = Ends(q) /\ request[q].pc = "go" /\ UNCHANGED <<stackVars, undone, text, modelVars, history>>
  BY DEF GoNowhere
<1>2. StackInv' /\ TextInv' /\ Grows /\ \A r \in Resources : stack'[r] = stack[r]
  BY <1>1, OnlyRequests
<1>3. RequestInv'
  BY <1>1, <1>2, EndKept
<1> QED
  BY <1>2, <1>3, IInvKept

LEMMA GoToGroupKeeps ==
    ASSUME StackInv, RequestInv, TextInv, NEW q \in Requests, GoToGroup(q)
    PROVE  IInv'
<1>1. /\ request[q].pc = "go" /\ UNCHANGED <<stackVars, undone, text, modelVars, history>>
      /\ \E r \in Resources : request' = Goes(q, r, request[q].sure)
  BY DEF GoToGroup, ClosestInGroup, InGroup
<1>2. StackInv' /\ TextInv' /\ Grows /\ \A r \in Resources : stack'[r] = stack[r]
  BY <1>1, OnlyRequests
<1>3. request[q].sure \in BOOLEAN
  BY DoingsAre DEF RequestInv
<1>4. RequestInv'
  BY <1>1, <1>2, <1>3, GoKept
<1> QED
  BY <1>2, <1>4, IInvKept

LEMMA ConfirmKeeps ==
    ASSUME StackInv, RequestInv, TextInv, NEW q \in Requests, Confirm(q)
    PROVE  IInv'
<1>1. /\ request' = Becomes(q, "confirm") /\ request[q].pc = "go"
      /\ UNCHANGED <<stackVars, undone, text, modelVars, history>>
  BY DEF Confirm
<1>2. StackInv' /\ TextInv' /\ Grows /\ \A r \in Resources : stack'[r] = stack[r]
  BY <1>1, OnlyRequests
<1>3. /\ request' \in [Requests -> Doings] /\ \A p \in Requests \ {q} : SameDoing(p)
      /\ request'[q].pc = "confirm" /\ request'[q].at = request[q].at
  BY <1>1, BecomesIs DEF RequestInv, SameDoing
<1>4. Stands(q)'
  BY <1>1, <1>3 DEF RequestInv, Stands
<1>5. RequestInv'
  BY <1>1, <1>2, <1>3, <1>4, RequestKept
<1> QED
  BY <1>2, <1>5, IInvKept

LEMMA ConfirmedKeeps ==
    ASSUME StackInv, RequestInv, TextInv, NEW q \in Requests, Confirmed(q)
    PROVE  IInv'
<1>1. /\ request' = Goes(q, request[q].at, TRUE) \/ request' = Ends(q)
      /\ request[q].pc = "confirm" /\ UNCHANGED <<stackVars, undone, text, modelVars, history>>
  BY DEF Confirmed
<1>2. StackInv' /\ TextInv' /\ Grows /\ \A r \in Resources : stack'[r] = stack[r]
  BY <1>1, OnlyRequests
<1>3. request[q].at \in Resources
  BY <1>1 DEF RequestInv, Stands
<1>4. RequestInv'
  BY <1>1, <1>2, <1>3, GoKept, EndKept
<1> QED
  BY <1>2, <1>4, IInvKept

LEMMA GoOnInGroupKeeps ==
    ASSUME StackInv, RequestInv, TextInv, NEW q \in Requests, GoOnInGroup(q)
    PROVE  IInv'
<1>1. /\ request[q].pc = "next" /\ UNCHANGED <<stackVars, undone, text, modelVars, history>>
      /\ request' = Ends(q) \/ \E r \in Resources : request' = Goes(q, r, request[q].sure)
  BY DEF GoOnInGroup, ClosestInGroup, InGroup
<1>2. StackInv' /\ TextInv' /\ Grows /\ \A r \in Resources : stack'[r] = stack[r]
  BY <1>1, OnlyRequests
<1>3. request[q].sure \in BOOLEAN
  BY DoingsAre DEF RequestInv
<1>4. RequestInv'
  BY <1>1, <1>2, <1>3, GoKept, EndKept
<1> QED
  BY <1>2, <1>4, IInvKept

LEMMA AskKeeps ==
    ASSUME StackInv, RequestInv, TextInv, NEW q \in Requests, NEW r \in Resources,
           NEW direction \in {"undo", "redo"}, Ask(q, r, direction)
    PROVE  IInv'
<1> DEFINE d == Goes(q, r, FALSE)
<1>1. /\ request' = [d EXCEPT ![q].direction = direction] /\ request[q].pc = "none"
      /\ UNCHANGED <<stackVars, undone, text, modelVars, history>>
  BY DEF Ask
<1>2. StackInv' /\ TextInv' /\ Grows /\ \A s \in Resources : stack'[s] = stack[s]
  BY <1>1, OnlyRequests
<1>3. /\ d \in [Requests -> Doings] /\ d[q].pc = "go" /\ d[q].at = r
      /\ \A p \in Requests \ {q} : d[p] = request[p]
  BY GoesIs DEF RequestInv
<1> HIDE DEF d
<1> DEFINE new == [d[q] EXCEPT !.direction = direction]
<1>4. new \in Doings /\ new.pc = "go" /\ new.at = r
  BY <1>3 DEF Doings
<1>5. request' = [d EXCEPT ![q] = new]
  BY <1>1
<1> HIDE DEF new
<1>6. /\ request' \in [Requests -> Doings] /\ \A p \in Requests \ {q} : SameDoing(p)
      /\ request'[q].pc = "go" /\ request'[q].at = r
  BY <1>3, <1>4, <1>5 DEF SameDoing
<1>7. Stands(q)'
  BY <1>6 DEF Stands
<1>8. RequestInv'
  BY <1>1, <1>2, <1>6, <1>7, RequestKept
<1> QED
  BY <1>2, <1>8, IInvKept

LEMMA ElementsAre ==
    ASSUME StackInv, NEW x \in StackEntries
    PROVE  /\ element[x.id] \in Elements /\ element[x.id].on \in SUBSET Resources
           /\ x.id \in Ids /\ x.alone \in BOOLEAN
<1>1. x.id \in DOMAIN element /\ element \in Seq(Elements) /\ x.alone \in BOOLEAN
  BY DEF StackInv, StackEntries, Ids
<1>2. element[x.id] \in Elements
  BY <1>1
<1> QED
  BY <1>1, <1>2 DEF Elements, Ids

\* A split changes no text, and the request goes on or ends.
LEMMA SplitKeeps ==
    ASSUME StackInv, RequestInv, TextInv, NEW q \in Requests, NEW x \in StackEntries, NEW ignored,
           request[q].pc \notin {"none", "done", "running"}, OfText(x), SplitAndGo(q, x, ignored),
           UNCHANGED <<undone, text, modelVars, history>>
    PROVE  IInv'
<1> DEFINE direction == request[q].direction
           at == request[q].at
<1>1. \E on \in SUBSET Resources :
        /\ Split(x, direction, on)
        /\ request' = Touch(Goes(q, at, TRUE), on) \/ request' = Touch(Ends(q), on)
  <2>1. element[x.id].on \in SUBSET Resources
    BY ElementsAre
  <2> DEFINE on == element[x.id].on \ ignored
             here == {r \in on : stack[r].there}
  <2>2. on \in SUBSET Resources /\ here \in SUBSET Resources
    BY <2>1
  <2>3. \/ Split(x, direction, on) /\ request' = Touch(Goes(q, at, TRUE), on)
        \/ \E some \in SUBSET here : Split(x, direction, some) /\ request' = Touch(Ends(q), some)
    BY DEF SplitAndGo
  <2> HIDE DEF on, here
  <2> QED
    BY <2>2, <2>3
<1>2. direction \in {"undo", "redo"} /\ at \in Resources
  BY DoingsAre DEF RequestInv, Stands
<1> HIDE DEF direction, at
<1>3. PICK on \in SUBSET Resources :
        /\ Split(x, direction, on)
        /\ request' = Touch(Goes(q, at, TRUE), on) \/ request' = Touch(Ends(q), on)
  BY <1>1
<1>4. /\ StackInv' /\ element' = element
      /\ \A r \in Resources : stack'[r].locked = stack[r].locked /\ SameSides(r)
  BY <1>2, <1>3, SplitIs DEF SameSides
<1>5. TextInv'
  BY <1>4, SameGrows, TextsKept DEF modelVars
<1>6. RequestInv'
  <2>1. CASE request' = Touch(Goes(q, at, TRUE), on)
    BY <1>2, <1>4, <2>1, SameGrows, GoKept
  <2>2. CASE request' = Touch(Ends(q), on)
    BY <1>4, <2>2, SameGrows, EndKept
  <2> QED
    BY <1>3, <2>1, <2>2
<1> QED
  BY <1>4, <1>5, <1>6, IInvKept

\* What stacks are dropped with the request that meets them.
LEMMA DropKeeps ==
    ASSUME StackInv, RequestInv, TextInv, NEW q \in Requests, NEW on \in SUBSET Resources,
           RemoveElements(on), request' = Touch(Ends(q), on),
           request[q].pc # "running" \/ \A r \in Resources \ on : stack[r].locked # q,
           UNCHANGED <<undone, text, modelVars, history>>
    PROVE  IInv'
<1>1. /\ StackInv' /\ element' = element
      /\ \A r \in Resources : stack'[r] = IF r \in on THEN NoStack ELSE stack[r]
  BY RemoveIs
<1>2. \A r \in Resources : SameSides(r) \/ Entries(r)' = {}
  BY <1>1, NoStackIs DEF SameSides, Entries
<1>3. TextInv'
  BY <1>1, <1>2, SameGrows, TextsKept DEF modelVars
<1>4. \A r \in Resources :
        \/ stack'[r].locked = 0
        \/ stack'[r].locked = stack[r].locked /\ (stack[r].locked # q \/ request[q].pc # "running")
  BY <1>1, NoStackIs
<1>5. RequestInv'
  BY <1>1, <1>4, SameGrows, EndKept
<1> QED
  BY <1>1, <1>3, <1>5, IInvKept

LEMMA TryToSplitKeeps ==
    ASSUME StackInv, RequestInv, TextInv, NEW q \in Requests, NEW x \in StackEntries, NEW ignored,
           request[q].pc \notin {"none", "done", "running"}, TryToSplit(q, x, ignored),
           UNCHANGED <<undone, text, modelVars, history>>
    PROVE  IInv'
<1>1. CASE OfText(x)
  BY <1>1, SplitKeeps DEF TryToSplit
<1>2. CASE ~OfText(x)
  <2>1. element[x.id].on \in SUBSET Resources
    BY ElementsAre
  <2> QED
    BY <1>2, <2>1, DropKeeps DEF TryToSplit
<1> QED
  BY <1>1, <1>2

LEMMA OnlyOne ==
    ASSUME NEW S, IsFiniteSet(S), NEW a \in S, NEW b \in S, ~(Cardinality(S) > 1)
    PROVE  a = b
<1> SUFFICES ASSUME a # b PROVE FALSE
  OBVIOUS
<1>1. {a, b} \subseteq S /\ Cardinality(S) \in Nat
  BY FS_CardinalityType
<1>2. Cardinality({a, b}) = 2
  <2>1. IsFiniteSet({a}) /\ Cardinality({a}) = 1
    BY FS_Singleton
  <2>2. {a, b} = {a} \cup {b} /\ b \notin {a}
    OBVIOUS
  <2>3. Cardinality({a} \cup {b}) = Cardinality({a}) + 1
    BY <2>1, <2>2, FS_AddElement
  <2> QED
    BY <2>1, <2>2, <2>3
<1>3. Cardinality({a, b}) <= Cardinality(S)
  BY <1>1, FS_Subset
<1> QED
  BY <1>1, <1>2, <1>3

\* An operation on files, and what spans several texts, is invoked wherever it is.
LEMMA WholeIs ==
    ASSUME StackInv, NEW x \in StackEntries, NEW at \in element[x.id].on, OfText(x) \/ ~x.alone
    PROVE  /\ On(x, at) \in SUBSET Resources /\ at \in On(x, at) /\ On(x, at) \subseteq element[x.id].on
           /\ Spans(x) \/ ~OfText(x) => \A r \in Resources : x \in Entries(r) => r \in On(x, at)
<1>1. element[x.id].on \in SUBSET Resources
  BY ElementsAre
<1>2. On(x, at) \in SUBSET Resources /\ at \in On(x, at) /\ On(x, at) \subseteq element[x.id].on
  BY <1>1 DEF On
<1>3. ASSUME NEW r \in Resources, x \in Entries(r), Spans(x) \/ ~OfText(x) PROVE r \in On(x, at)
  <2>1. r \in element[x.id].on
    BY <1>3 DEF StackInv, EntriesInPlace
  <2>2. CASE Spans(x)
    BY <2>1, <2>2 DEF On
  <2>3. CASE ~Spans(x)
    <3>1. ~(Cardinality(element[x.id].on) > 1)
      BY <1>3, <2>3 DEF Spans
    <3>2. IsFiniteSet(element[x.id].on)
      BY <1>1, FS_Subset, UndoRedoAssumption
    <3>3. r = at
      BY <2>1, <3>1, <3>2, OnlyOne
    <3> QED
      BY <1>2, <3>3
  <2> QED
    BY <2>2, <2>3
<1> QED
  BY <1>2, <1>3

LEMMA MoveIs ==
    ASSUME StackInv, NEW x \in StackEntries, NEW on \in SUBSET Resources, NEW lock \in 0..MaxRequests,
           NEW direction \in {"undo", "redo"}, Move(x, direction, on, lock),
           AtTop(x, direction, on), OfText(x) \/ ~x.alone, Everywhere(x, on),
           OfText(x) => undone' = undone,
           ~OfText(x) => undone' = IF direction = "undo" THEN undone \cup {x.id} ELSE undone \ {x.id}
    PROVE  /\ StackInv' /\ element' = element
           /\ \A r \in Resources \ on : stack'[r] = stack[r]
           /\ direction = "undo" => Backward(x, on, lock)
           /\ direction = "redo" => Forward(x, on, lock)
<1>1. CASE direction = "undo"
  BY <1>1, UndoMoveIs
<1>2. CASE direction = "redo"
  BY <1>2, RedoMoveIs
<1> QED
  BY <1>1, <1>2

\* What an element is found at the end of, it is in.
LEMMA TopIs ==
    ASSUME StackInv, NEW r \in Resources, NEW direction \in {"undo", "redo"}, HasTop(r, direction)
    PROVE  /\ Top(r, direction) \in Entries(r) /\ Top(r, direction) \in StackEntries
           /\ direction = "undo" => stack[r].past # <<>> /\ Top(r, direction) = Last(stack[r].past)
           /\ direction = "redo" => stack[r].future # <<>> /\ Top(r, direction) = Last(stack[r].future)
<1>1. /\ direction = "undo" => stack[r].past # <<>> /\ Top(r, direction) = Last(stack[r].past)
      /\ direction = "redo" => stack[r].future # <<>> /\ Top(r, direction) = Last(stack[r].future)
  BY DEF HasTop, Top, Side
<1>2. /\ stack[r].past \in Seq(StackEntries) /\ Once(stack[r].past)
      /\ stack[r].future \in Seq(StackEntries) /\ Once(stack[r].future)
  BY StacksAre DEF StackInv, EntriesInPlace
<1>3. Top(r, direction) \in Entries(r)
  BY <1>1, <1>2, FrontKeeps DEF Entries
<1> QED
  BY <1>1, <1>3, StacksAre

LEMMA InvokeKeeps ==
    ASSUME StackInv, RequestInv, TextInv, NEW q \in Requests, NEW x \in StackEntries,
           request[q].at \in element[x.id].on, request[q].pc \notin {"none", "done", "running"},
           OfText(x) \/ ~x.alone,
           AtTop(x, request[q].direction, On(x, request[q].at)),
           Invoke(q, x), UNCHANGED <<modelVars, history>>
    PROVE  IInv'
<1> DEFINE at == request[q].at
           on == On(x, at)
           direction == request[q].direction
           next == [request EXCEPT ![q].pc = "next", ![q].x = x, ![q].touched = FALSE]
           runs == [request EXCEPT ![q].pc = "running", ![q].x = x, ![q].touched = FALSE, ![q].calls = 0]
<1>1. /\ on \in SUBSET Resources /\ at \in on /\ on \subseteq element[x.id].on
      /\ Everywhere(x, on)
  BY WholeIs DEF Everywhere
<1>2. direction \in {"undo", "redo"} /\ at \in Resources /\ x.id \in Ids
  BY DoingsAre, ElementsAre DEF RequestInv, Stands
<1>3. \/ /\ OfText(x) /\ \A r \in on : <<x.id, r>> \notin unloaded
         /\ Move(x, direction, on, 0) /\ text' = Edited(x, direction, on)
         /\ request' = Touch(next, on) /\ undone' = undone
      \/ /\ OfText(x) /\ Fails(q, x, at) /\ undone' = undone
         /\ \E some \in SUBSET {r \in on : <<x.id, r>> \notin unloaded} : text' = Edited(x, direction, some)
      \/ /\ ~OfText(x) /\ Move(x, direction, on, q)
         /\ undone' = IF direction = "undo" THEN undone \cup {x.id} ELSE undone \ {x.id}
         /\ request' = Touch(runs, on) /\ text' = text
  BY DEF Invoke
<1>4. /\ AtTop(x, direction, on)
      /\ q \in 0..MaxRequests /\ 0 \in 0..MaxRequests /\ q # 0
  BY UndoRedoAssumption DEF Requests
<1>5. /\ next \in [Requests -> Doings] /\ next[q].pc = "next" /\ next[q].at = at
      /\ \A p \in Requests \ {q} : next[p] = request[p]
  <2> DEFINE n == request[q].calls
             new == [request[q] EXCEPT !.pc = "next", !.x = x, !.touched = FALSE, !.calls = n]
  <2>1. n \in 0..MaxCalls
    BY DoingsAre DEF RequestInv
  <2>2. new = [request[q] EXCEPT !.pc = "next", !.x = x, !.touched = FALSE]
    BY DEF RequestInv, Doings
  <2>3. next = [request EXCEPT ![q] = new]
    BY <2>2
  <2> HIDE DEF n, next
  <2>4. new \in Doings /\ new.pc = "next" /\ new.at = request[q].at
    <3> DEFINE d == request[q]
    <3>1. d \in Doings
      BY DEF RequestInv
    <3>2. new = [d EXCEPT !.pc = "next", !.x = x, !.touched = FALSE, !.calls = n]
      BY DEF new
    <3> HIDE DEF d
    <3>3. new \in Doings /\ new.pc = "next" /\ new.x = x /\ new.at = d.at
      BY <2>1, <3>1, <3>2 DEF Doings, Synchronous
    <3> QED
      BY <3>3 DEF d
  <2> HIDE DEF new
  <2> QED
    BY <2>3, <2>4 DEF RequestInv, at
<1>6. /\ runs \in [Requests -> Doings] /\ runs[q].pc = "running" /\ runs[q].at = at /\ runs[q].x = x
      /\ \A p \in Requests \ {q} : runs[p] = request[p]
  <2> DEFINE new == [request[q] EXCEPT !.pc = "running", !.x = x, !.touched = FALSE, !.calls = 0]
  <2>1. 0 \in 0..MaxCalls
    BY UndoRedoAssumption DEF MaxCalls
  <2>2. runs = [request EXCEPT ![q] = new]
    OBVIOUS
  <2> HIDE DEF runs
  <2>3. new \in Doings /\ new.pc = "running" /\ new.x = x /\ new.at = request[q].at
    <3> DEFINE d == request[q]
    <3>1. d \in Doings
      BY DEF RequestInv
    <3>2. new = [d EXCEPT !.pc = "running", !.x = x, !.touched = FALSE, !.calls = 0]
      BY DEF new
    <3> HIDE DEF d
    <3>3. new \in Doings /\ new.pc = "running" /\ new.x = x /\ new.at = d.at
      BY <2>1, <3>1, <3>2 DEF Doings, Synchronous
    <3> QED
      BY <3>3 DEF d
  <2> HIDE DEF new
  <2> QED
    BY <2>2, <2>3 DEF RequestInv, at
<1>7. request[q].pc \notin {"none", "done", "running"} /\ UNCHANGED <<open, initial, disposed, unloaded, history>>
  BY DEF modelVars
<1>8. StackInv /\ RequestInv /\ TextInv /\ (OfText(x) \/ ~x.alone)
  OBVIOUS
<1> HIDE DEF at, on, direction, next, runs
<1>9. CASE /\ OfText(x) /\ \A r \in on : <<x.id, r>> \notin unloaded
           /\ Move(x, direction, on, 0) /\ text' = Edited(x, direction, on)
           /\ request' = Touch(next, on) /\ undone' = undone
  <2>1. /\ StackInv' /\ element' = element
        /\ \A r \in Resources \ on : stack'[r] = stack[r]
        /\ direction = "undo" => Backward(x, on, 0)
        /\ direction = "redo" => Forward(x, on, 0)
    BY ONLY <1>1, <1>2, <1>4, <1>8, <1>9, MoveIs
  <2>2. TextInv'
    BY ONLY <1>1, <1>2, <1>7, <1>8, <1>9, <2>1, TextsMoved
  <2>3. /\ request' \in [Requests -> Doings] /\ request'[q].pc = "next" /\ request'[q].at = at
        /\ \A p \in Requests \ {q} : SameDoing(p)
    BY <1>5, <1>9, StepsTo
  <2>4. Stands(q)'
    BY <1>2, <2>3 DEF Stands
  <2>5. RequestInv'
    <3>1. \A r \in Resources : stack'[r].locked = 0 \/ stack'[r].locked = stack[r].locked
      BY <1>2, <2>1 DEF Backward, Forward
    <3> QED
      BY <1>7, <2>1, <2>3, <2>4, <3>1, SameGrows, RequestKept
  <2> QED
    BY <2>1, <2>2, <2>5, IInvKept
<1>10. CASE /\ OfText(x) /\ Fails(q, x, at) /\ undone' = undone
            /\ \E some \in SUBSET {r \in on : <<x.id, r>> \notin unloaded} : text' = Edited(x, direction, some)
  <2>1. RemoveElements(on) /\ request' = Touch(Ends(q), on)
    BY <1>10 DEF Fails, on
  <2>2. /\ StackInv' /\ element' = element
        /\ \A r \in Resources : stack'[r] = IF r \in on THEN NoStack ELSE stack[r]
    BY <1>1, <1>10, <2>1, RemoveIs
  <2>3. \A r \in on : /\ x \in Entries(r)
                      /\ direction = "undo" => stack[r].past # <<>> /\ x = Last(stack[r].past)
                      /\ direction = "redo" => stack[r].future # <<>> /\ x = Last(stack[r].future)
    BY <1>1, <1>2, <1>4, TopIs DEF AtTop
  <2>4. PICK some \in SUBSET {r \in on : <<x.id, r>> \notin unloaded} : text' = Edited(x, direction, some)
    BY <1>10
  <2>5. TextInv'
    <3>1. OfText(x) /\ StackInv /\ TextInv
      BY <1>8, <1>10
    <3>2. UNCHANGED <<open, initial, disposed, unloaded, history>>
      BY <1>7
    <3> QED
      BY ONLY <1>1, <1>2, <2>2, <2>3, <2>4, <3>1, <3>2, TextsFailed
  <2>6. \A r \in Resources : stack'[r].locked = 0 \/ stack'[r].locked = stack[r].locked
    BY <2>2, NoStackIs
  <2>7. RequestInv'
    BY <1>7, <2>1, <2>2, <2>6, SameGrows, EndKept
  <2> QED
    BY <2>2, <2>5, <2>7, IInvKept
<1>11. CASE /\ ~OfText(x) /\ Move(x, direction, on, q)
            /\ undone' = IF direction = "undo" THEN undone \cup {x.id} ELSE undone \ {x.id}
            /\ request' = Touch(runs, on) /\ text' = text
  <2>1. /\ StackInv' /\ element' = element
        /\ \A r \in Resources \ on : stack'[r] = stack[r]
        /\ direction = "undo" => Backward(x, on, q)
        /\ direction = "redo" => Forward(x, on, q)
    BY ONLY <1>1, <1>2, <1>4, <1>8, <1>11, MoveIs
  <2>2. TextInv'
    BY ONLY <1>1, <1>2, <1>7, <1>8, <1>11, <2>1, TextsMoved
  <2>3. /\ request' \in [Requests -> Doings] /\ request'[q].pc = "running" /\ request'[q].at = at
        /\ request'[q].x = x /\ \A p \in Requests \ {q} : SameDoing(p)
    BY <1>6, <1>11, StepsTo
  <2>4. Stands(q)'
    BY <1>1, <1>2, <2>1, <2>3, SameGrows DEF Stands
  <2>5. \A r \in on : LockStands(r)'
    <3>1. On(request[q].x, request[q].at)' = on
      BY <2>1, <2>3 DEF On, Spans, on
    <3>2. \A r \in on : stack'[r].locked = q
      BY <1>2, <2>1 DEF Backward, Forward
    <3> QED
      BY <2>3, <3>1, <3>2 DEF LockStands
  <2>6. RequestInv'
    BY <1>7, <2>1, <2>3, <2>4, <2>5, SameGrows, RequestKept
  <2> QED
    BY <2>1, <2>2, <2>6, IInvKept
<1> QED
  BY <1>3, <1>9, <1>10, <1>11

LEMMA GoInResourceKeeps ==
    ASSUME StackInv, RequestInv, TextInv, NEW q \in Requests, GoInResource(q)
    PROVE  IInv'
<1> DEFINE at == request[q].at
           x == Top(at, request[q].direction)
<1>1. /\ request[q].pc = "go" /\ HasTop(at, request[q].direction) /\ ~Spans(x)
      /\ \/ Flush(at) /\ request' = Touch(Ends(q), {at}) /\ UNCHANGED <<undone, text>>
         \/ request' = Ends(q) /\ UNCHANGED <<stackVars, undone, text>>
         \/ Invoke(q, x)
      /\ UNCHANGED <<modelVars, history>>
  BY DEF GoInResource
<1>2. request[q].direction \in {"undo", "redo"} /\ at \in Resources
  BY <1>1, DoingsAre DEF RequestInv, Stands
<1>3. x \in Entries(at) /\ x \in StackEntries
  BY <1>1, <1>2, TopIs
<1>4. at \in element[x.id].on /\ (OfText(x) \/ ~x.alone)
  BY <1>2, <1>3 DEF StackInv, EntriesInPlace
<1>5. CASE Flush(at) /\ request' = Touch(Ends(q), {at}) /\ UNCHANGED <<undone, text>>
  <2>1. /\ StackInv' /\ element' = element
        /\ \A r \in Resources : stack'[r].locked = stack[r].locked
        /\ \A r \in Resources \ {at} : stack'[r] = stack[r]
        /\ stack'[at].past = <<>> /\ stack'[at].future = <<>>
    BY <1>2, <1>5, FlushIs
  <2>2. \A r \in Resources : SameSides(r) \/ Entries(r)' = {}
    BY <2>1, EmptyKeeps DEF SameSides, Entries
  <2>3. TextInv'
    BY <1>1, <1>5, <2>1, <2>2, SameGrows, TextsKept DEF modelVars
  <2>4. RequestInv'
    BY <1>1, <1>5, <2>1, SameGrows, EndKept
  <2> QED
    BY <2>1, <2>3, <2>4, IInvKept
<1>6. CASE request' = Ends(q) /\ UNCHANGED <<stackVars, undone, text>>
  <2>1. StackInv' /\ TextInv' /\ Grows /\ \A r \in Resources : stack'[r] = stack[r]
    BY <1>1, <1>6, OnlyRequests
  <2>2. RequestInv'
    BY <1>1, <1>6, <2>1, EndKept
  <2> QED
    BY <2>1, <2>2, IInvKept
<1>7. CASE Invoke(q, x)
  <2>1. On(x, at) = {at}
    BY <1>1 DEF On
  <2>2. AtTop(x, request[q].direction, On(x, at))
    BY <1>1, <2>1 DEF AtTop
  <2> HIDE DEF x
  <2> QED
    BY <1>1, <1>3, <1>4, <1>7, <2>2, InvokeKeeps
<1> QED
  BY <1>1, <1>5, <1>6, <1>7

LEMMA GoInWorkspaceKeeps ==
    ASSUME StackInv, RequestInv, TextInv, NEW q \in Requests, GoInWorkspace(q)
    PROVE  IInv'
<1> DEFINE at == request[q].at
           x == Top(at, request[q].direction)
           asks == request[q].direction = "undo" /\ OfText(x) /\ GroupOf(x) = 0
           pc == IF asks THEN "choose" ELSE "prepare"
           waits == [Becomes(q, pc) EXCEPT ![q].x = x, ![q].touched = FALSE]
<1>1. /\ request[q].pc = "go" /\ HasTop(at, request[q].direction) /\ Spans(x)
      /\ UNCHANGED <<undone, text, modelVars, history>>
      /\ \/ request' = waits /\ UNCHANGED stackVars
         \/ TryToSplit(q, x, IgnoredBy(x, FALSE))
  BY DEF GoInWorkspace
<1>2. request[q].direction \in {"undo", "redo"} /\ at \in Resources
  BY <1>1, DoingsAre DEF RequestInv, Stands
<1>3. x \in Entries(at) /\ x \in StackEntries
  BY <1>1, <1>2, TopIs
<1>4. pc \in {"choose", "prepare"} /\ (pc = "choose" => OfText(x)) /\ x.id \in Ids /\ at \in element[x.id].on
  BY <1>2, <1>3, ElementsAre DEF StackInv, EntriesInPlace
<1> HIDE DEF x, pc
<1>5. CASE request' = waits /\ UNCHANGED stackVars
  <2> DEFINE b == Becomes(q, pc)
             new == [b[q] EXCEPT !.x = x, !.touched = FALSE]
  <2>1. /\ b \in [Requests -> Doings] /\ b[q].pc = pc /\ b[q].at = at
        /\ \A p \in Requests \ {q} : b[p] = request[p]
    BY <1>4, BecomesIs DEF RequestInv
  <2>2. request' = [b EXCEPT ![q] = new]
    BY <1>5
  <2>3. new \in Doings /\ new.pc = pc /\ new.at = at /\ new.x = x
    <3> DEFINE d == b[q]
    <3>1. d \in Doings /\ d.pc = pc /\ d.at = at
      BY <2>1
    <3>2. new = [d EXCEPT !.x = x, !.touched = FALSE]
      OBVIOUS
    <3> HIDE DEF d, new
    <3> QED
      BY <1>3, <3>1, <3>2 DEF Doings
  <2> HIDE DEF b, new
  <2>4. /\ request' \in [Requests -> Doings] /\ request'[q].pc = pc /\ request'[q].at = at /\ request'[q].x = x
        /\ \A p \in Requests \ {q} : SameDoing(p)
    BY <2>1, <2>2, <2>3 DEF SameDoing
  <2>5. StackInv' /\ TextInv' /\ Grows /\ element' = element /\ \A r \in Resources : stack'[r] = stack[r]
    BY <1>1, <1>5, OnlyRequests DEF stackVars
  <2>6. Stands(q)'
    BY <1>1, <1>2, <1>4, <2>4, <2>5 DEF Stands, Spans, OfText, Ids
  <2>7. RequestInv'
    BY <1>1, <2>4, <2>5, <2>6, RequestKept
  <2> QED
    BY <2>5, <2>7, IInvKept
<1>6. CASE TryToSplit(q, x, IgnoredBy(x, FALSE))
  BY <1>1, <1>3, <1>6, TryToSplitKeeps
<1> QED
  BY <1>1, <1>5, <1>6

LEMMA WaitsIs ==
    ASSUME StackInv, RequestInv, NEW q \in Requests, request[q].pc \in {"choose", "prepare"}
    PROVE  /\ request[q].x \in StackEntries /\ Spans(request[q].x)
           /\ request[q].at \in Resources /\ request[q].direction \in {"undo", "redo"}
<1>1. request[q].x.id \in Ids /\ Spans(request[q].x) /\ request[q].at \in Resources
  BY DEF RequestInv, Stands
<1>2. request[q] \in Doings
  BY DEF RequestInv
<1> QED
  BY <1>1, <1>2, ElementIs, DoingsAre

LEMMA ChosenKeeps ==
    ASSUME StackInv, RequestInv, TextInv, NEW q \in Requests, Chosen(q)
    PROVE  IInv'
<1> DEFINE x == request[q].x
           b == Becomes(q, "prepare")
<1>1. /\ request[q].pc = "choose" /\ UNCHANGED <<undone, text, modelVars, history>>
      /\ \/ request' = Ends(q) /\ UNCHANGED stackVars
         \/ SplitAndGo(q, x, {})
         \/ request' = [b EXCEPT ![q].sure = TRUE] /\ UNCHANGED stackVars
         \/ TryToSplit(q, x, IgnoredBy(x, FALSE))
  BY DEF Chosen
<1>2. /\ x \in StackEntries /\ Spans(x) /\ OfText(x) /\ request[q].at \in Resources
      /\ x.id \in Ids /\ request[q].at \in element[x.id].on
  BY <1>1, WaitsIs DEF RequestInv, Stands
<1>3. CASE request' = Ends(q) /\ UNCHANGED stackVars
  <2>1. StackInv' /\ TextInv' /\ Grows /\ \A r \in Resources : stack'[r] = stack[r]
    BY <1>1, <1>3, OnlyRequests
  <2>2. RequestInv'
    BY <1>1, <1>3, <2>1, EndKept
  <2> QED
    BY <2>1, <2>2, IInvKept
<1>4. CASE request' = [b EXCEPT ![q].sure = TRUE] /\ UNCHANGED stackVars
  <2>1. /\ b \in [Requests -> Doings] /\ b[q].pc = "prepare" /\ b[q].at = request[q].at /\ b[q].x = x
        /\ \A p \in Requests \ {q} : b[p] = request[p]
    BY BecomesIs DEF RequestInv
  <2> HIDE DEF b, x
  <2>2. /\ request' \in [Requests -> Doings] /\ request'[q].pc = "prepare" /\ request'[q].x = x
        /\ request'[q].at = request[q].at /\ \A p \in Requests \ {q} : SameDoing(p)
    <3> DEFINE d == b[q]
               new == [d EXCEPT !.sure = TRUE]
    <3>1. d \in Doings /\ request' = [b EXCEPT ![q] = new]
      BY <1>4, <2>1
    <3> HIDE DEF d
    <3>2. new \in Doings /\ new.pc = d.pc /\ new.x = d.x /\ new.at = d.at
      BY <3>1 DEF Doings
    <3> HIDE DEF new
    <3> QED
      BY <2>1, <3>1, <3>2 DEF SameDoing, d
  <2>3. StackInv' /\ TextInv' /\ Grows /\ element' = element /\ \A r \in Resources : stack'[r] = stack[r]
    BY <1>1, <1>4, OnlyRequests DEF stackVars
  <2>4. Stands(q)'
    BY <1>1, <1>2, <2>2, <2>3 DEF Stands, Spans, OfText, Ids
  <2>5. RequestInv'
    BY <1>1, <2>2, <2>3, <2>4, RequestKept
  <2> QED
    BY <2>3, <2>5, IInvKept
<1>5. CASE SplitAndGo(q, x, {})
  BY <1>1, <1>2, <1>5, SplitKeeps
<1>6. CASE TryToSplit(q, x, IgnoredBy(x, FALSE))
  BY <1>1, <1>2, <1>6, TryToSplitKeeps
<1> QED
  BY <1>1, <1>3, <1>4, <1>5, <1>6

LEMMA PreparedKeeps ==
    ASSUME StackInv, RequestInv, TextInv, NEW q \in Requests, Prepared(q)
    PROVE  IInv'
<1> DEFINE x == request[q].x
           at == request[q].at
           direction == request[q].direction
<1>1. /\ request[q].pc = "prepare" /\ UNCHANGED <<modelVars, history>>
      /\ \/ Verified(q, x, TRUE) /\ Invoke(q, x)
         \/ TryToSplit(q, x, IgnoredBy(x, TRUE)) /\ UNCHANGED <<undone, text>>
  BY DEF Prepared
<1>2. x \in StackEntries /\ Spans(x) /\ at \in Resources /\ direction \in {"undo", "redo"}
  BY <1>1, WaitsIs
<1>3. CASE Verified(q, x, TRUE) /\ Invoke(q, x)
  <2>1. On(x, at) = element[x.id].on /\ ~x.alone
    BY <1>2 DEF On, Spans
  <2>2. AtTop(x, direction, On(x, at))
    BY <1>3, <2>1 DEF AtTop, Verified, IsClosest
  <2>3. at \in element[x.id].on
    BY <1>1 DEF RequestInv, Stands
  <2> HIDE DEF x
  <2> QED
    BY <1>1, <1>2, <1>3, <2>1, <2>2, <2>3, InvokeKeeps
<1>4. CASE TryToSplit(q, x, IgnoredBy(x, TRUE)) /\ UNCHANGED <<undone, text>>
  BY <1>1, <1>2, <1>4, TryToSplitKeeps
<1> QED
  BY <1>1, <1>3, <1>4

LEMMA FilesEndKeeps ==
    ASSUME StackInv, RequestInv, TextInv, NEW q \in Requests, FilesEnd(q)
    PROVE  IInv'
<1> DEFINE on == On(request[q].x, request[q].at)
<1>1. /\ request[q].pc = "running" /\ UNCHANGED <<undone, text, modelVars, history>>
      /\ \/ stack' = Released(q) /\ request' = Becomes(q, "next") /\ UNCHANGED <<element, removed, invalid>>
         \/ RemoveElements(on) /\ request' = Touch(Ends(q), on)
  BY DEF FilesEnd, Fails
<1>2. request[q].at \in Resources /\ request[q].x.id \in Ids
  BY <1>1 DEF RequestInv, Stands
<1>3. CASE stack' = Released(q) /\ request' = Becomes(q, "next") /\ UNCHANGED <<element, removed, invalid>>
  <2>1. \A r \in Resources : /\ stack'[r] \in Stacks
                             /\ stack'[r].there = stack[r].there
                             /\ stack'[r].past = stack[r].past /\ stack'[r].future = stack[r].future
                             /\ stack'[r].locked = IF stack[r].locked = q THEN 0 ELSE stack[r].locked
    <3> SUFFICES ASSUME NEW r \in Resources
                 PROVE  /\ stack'[r] \in Stacks
                        /\ stack'[r].there = stack[r].there
                        /\ stack'[r].past = stack[r].past /\ stack'[r].future = stack[r].future
                        /\ stack'[r].locked = IF stack[r].locked = q THEN 0 ELSE stack[r].locked
      OBVIOUS
    <3> DEFINE s == stack[r]
    <3>1. s \in Stacks /\ stack'[r] = IF s.locked = q THEN [s EXCEPT !.locked = 0] ELSE s
      BY <1>3, StacksAre DEF Released
    <3>2. 0 \in 0..MaxRequests
      BY UndoRedoAssumption
    <3> HIDE DEF s
    <3>3. /\ stack'[r] \in Stacks /\ stack'[r].there = s.there
          /\ stack'[r].past = s.past /\ stack'[r].future = s.future
          /\ stack'[r].locked = IF s.locked = q THEN 0 ELSE s.locked
      BY <3>1, <3>2 DEF Stacks
    <3> QED
      BY <3>3 DEF s
  <2>2. stack' \in [Resources -> Stacks]
    <3>1. stack' = [r \in Resources |-> stack'[r]]
      BY <1>3 DEF Released
    <3> QED
      BY <2>1, <3>1
  <2>3. StackInv'
    <3>1. \A r \in Resources :
            /\ Range(stack'[r].past) \subseteq Range(stack[r].past)
            /\ Range(stack'[r].future) \subseteq Range(stack[r].future)
            /\ Once(stack'[r].past) /\ Once(stack'[r].future)
            /\ stack'[r].there \/ (Range(stack'[r].past) = {} /\ Range(stack'[r].future) = {})
      BY <2>1, StacksAre DEF StackInv, EntriesInPlace, Entries
    <3> QED
      BY <1>1, <1>3, <2>2, <3>1, LessIsInPlace DEF StackInv
  <2>4. \A r \in Resources : SameSides(r)
    BY <2>1 DEF SameSides
  <2>5. TextInv'
    BY <1>1, <1>3, <2>4, SameGrows, TextsKept DEF modelVars
  <2>6. /\ request' \in [Requests -> Doings] /\ request'[q].pc = "next" /\ request'[q].at = request[q].at
        /\ \A p \in Requests \ {q} : SameDoing(p)
    BY <1>3, BecomesIs DEF RequestInv, SameDoing
  <2>7. Stands(q)'
    BY <1>2, <2>6 DEF Stands
  <2>8. \A r \in Resources : \/ stack'[r].locked = 0
                             \/ stack'[r].locked = stack[r].locked /\ stack[r].locked # q
    BY <2>1
  <2>9. RequestInv'
    BY <1>3, <2>6, <2>7, <2>8, SameGrows, RequestKept
  <2> QED
    BY <2>3, <2>5, <2>9, IInvKept
<1>4. CASE RemoveElements(on) /\ request' = Touch(Ends(q), on)
  <2>1. on \in SUBSET Resources
    <3>1. request[q].x \in StackEntries
      BY <1>2, ElementIs DEF RequestInv
    <3>2. element[request[q].x.id].on \in SUBSET Resources
      BY <3>1, ElementsAre
    <3> QED
      BY <1>2, <3>2 DEF On
  <2>2. \A r \in Resources \ on : stack[r].locked # q
    BY UndoRedoAssumption DEF RequestInv, LockStands, Requests
  <2> HIDE DEF on
  <2> QED
    BY <1>1, <1>4, <2>1, <2>2, DropKeeps
<1> QED
  BY <1>1, <1>3, <1>4

-----------------------------------------------------------------------------
(* Edits, and texts that come and go.                                      *)

LEMMA TextsAre ==
    ASSUME Grows, text' \in [Resources -> Texts], open' \in [Resources -> BOOLEAN],
           initial' \in [Resources -> Snapshots'],
           disposed' \in [Resources -> {Forgotten} \cup [known : {TRUE}, sha1 : Texts, initial : Snapshots]],
           history' \in [outlived : SUBSET Resources, closes : Nat, changes : Nat],
           unloaded' \subseteq Ids \X Resources,
           \A r \in Resources \ history'.outlived : TextFollows(r)' /\ Clean(text'[r])
    PROVE  TextInv'
<1>1. Ids \subseteq Ids' /\ Snapshots \subseteq Snapshots'
  BY GrowsIs
<1>2. disposed' \in [Resources -> {Forgotten} \cup [known : {TRUE}, sha1 : Texts, initial : Snapshots']]
  <2>1. [known : {TRUE}, sha1 : Texts, initial : Snapshots]
          \subseteq [known : {TRUE}, sha1 : Texts, initial : Snapshots']
    BY <1>1
  <2> QED
    BY <2>1
<1>3. NothingGarbled'
  BY DEF NothingGarbled, Clean
<1> QED
  BY <1>1, <1>2, <1>3 DEF TextInv

\* What happens to the stacks meanwhile leaves the requests what they are.
LEMMA TouchKept ==
    ASSUME StackInv, RequestInv, Grows, NEW on, request' = request \/ request' = Touch(request, on),
           \A r \in Resources : stack'[r].locked \in {0, stack[r].locked}
    PROVE  RequestInv'
<1>1. request' \in [Requests -> Doings] /\ \A p \in Requests : SameDoing(p)
  BY TouchIs DEF RequestInv, SameDoing
<1>2. \A r \in Resources :
        \/ LockStands(r)' \/ stack'[r].locked = 0
        \/ stack'[r].locked = stack[r].locked /\ (stack[r].locked # 0 \/ request[0].pc # "running" \/ SameDoing(0))
  OBVIOUS
<1> QED
  BY <1>1, <1>2, RequestKept

\* Another edit than those of the elements.
LEMMA ForeignIs ==
    ASSUME TextInv, NEW r \in Resources, text' = [text EXCEPT ![r] = Append(@, Foreign)]
    PROVE  /\ text' \in [Resources -> Texts] /\ \A s \in Resources \ {r} : text'[s] = text[s]
           /\ \A s \in Resources \ history.outlived : Clean(text'[s])
<1> DEFINE t == text[r]
           new == Append(t, Foreign)
<1>1. text' = [text EXCEPT ![r] = new]
  OBVIOUS
<1>2. t \in Seq(Int) /\ Foreign \in Int /\ Foreign # Garbled
  BY DEF TextInv, Texts, Foreign, Garbled
<1> HIDE DEF t
<1>3. new \in Seq(Int) /\ (Clean(t) => Clean(new))
  BY <1>2, AppendIs DEF Clean
<1> HIDE DEF new
<1>4. text' \in [Resources -> Texts] /\ text'[r] = new /\ \A s \in Resources \ {r} : text'[s] = text[s]
  BY <1>1, <1>3 DEF TextInv, Texts
<1>5. \A s \in Resources \ history.outlived : Clean(text[s])
  BY CleanIs DEF TextInv
<1> QED
  BY <1>3, <1>4, <1>5 DEF t

LEMMA ChangesIs ==
    ASSUME TextInv, history' = [history EXCEPT !.changes = @ + 1]
    PROVE  /\ history' \in [outlived : SUBSET Resources, closes : Nat, changes : Nat]
           /\ history'.outlived = history.outlived
BY DEF TextInv

LEMMA SetValueKeeps ==
    ASSUME StackInv, RequestInv, TextInv, NEW r \in Resources, SetValue(r)
    PROVE  IInv'
<1>1. /\ open[r] /\ RemoveElements({r}) /\ request' = Touch(request, {r})
      /\ text' = [text EXCEPT ![r] = Append(@, Foreign)]
      /\ history' = [history EXCEPT !.changes = @ + 1]
      /\ UNCHANGED <<undone, open, unloaded, initial, disposed>>
  BY DEF SetValue, modelVars
<1>2. /\ StackInv' /\ element' = element
      /\ \A s \in Resources : stack'[s] = IF s \in {r} THEN NoStack ELSE stack[s]
  BY <1>1, RemoveIs
<1>3. Grows /\ Snapshots' = Snapshots
  BY <1>2, SameGrows
<1>4. /\ text' \in [Resources -> Texts] /\ \A s \in Resources \ {r} : text'[s] = text[s]
      /\ \A s \in Resources \ history.outlived : Clean(text'[s])
  BY <1>1, ForeignIs
<1>5. /\ history' \in [outlived : SUBSET Resources, closes : Nat, changes : Nat]
      /\ history'.outlived = history.outlived
  BY <1>1, ChangesIs
<1>6. ASSUME NEW s \in Resources \ history.outlived PROVE TextFollows(s)'
  <2>1. CASE s = r
    <3>1. Entries(s)' = {}
      BY <1>2, <2>1, NoStackIs DEF Entries
    <3> QED
      BY <3>1, NoTextFollows
  <2>2. CASE s # r
    <3>1. SameSides(s)
      BY <1>2, <2>2 DEF SameSides
    <3>2. TextFollows(s)
      BY DEF TextInv
    <3> QED
      BY <1>1, <1>3, <1>4, <2>2, <3>1, <3>2, SidesFollow
  <2> QED
    BY <2>1, <2>2
<1>7. TextInv'
  BY <1>1, <1>3, <1>4, <1>5, <1>6, TextsAre DEF TextInv
<1>8. RequestInv'
  BY <1>1, <1>2, <1>3, NoStackIs, TouchKept
<1> QED
  BY <1>2, <1>7, <1>8, IInvKept

LEMMA ChangeKeeps ==
    ASSUME StackInv, RequestInv, TextInv, NEW r \in Resources, Change(r)
    PROVE  IInv'
<1>1. /\ ~open[r] /\ history' = [history EXCEPT !.changes = @ + 1]
      /\ text' = [text EXCEPT ![r] = Append(@, Foreign)]
      /\ UNCHANGED <<stackVars, request, undone, open, unloaded, initial, disposed>>
  BY DEF Change, modelVars
<1>2. element' = element /\ stack' = stack /\ removed' = removed /\ invalid' = invalid
  BY <1>1 DEF stackVars
<1>3. StackInv'
  BY <1>1, <1>2 DEF StackInv, EntriesInPlace, SidesAgree, Entries, OfText, Spans, Ids, StackEntries, Stacks
<1>4. Grows /\ Snapshots' = Snapshots
  BY <1>2, SameGrows
<1>5. /\ text' \in [Resources -> Texts] /\ \A s \in Resources \ {r} : text'[s] = text[s]
      /\ \A s \in Resources \ history.outlived : Clean(text'[s])
  BY <1>1, ForeignIs
<1>6. /\ history' \in [outlived : SUBSET Resources, closes : Nat, changes : Nat]
      /\ history'.outlived = history.outlived
  BY <1>1, ChangesIs
<1>7. ASSUME NEW s \in Resources \ history.outlived PROVE TextFollows(s)'
  <2>1. SameSides(s) /\ TextFollows(s)
    BY <1>2 DEF SameSides, TextInv
  <2> QED
    BY <1>1, <1>4, <1>5, <2>1, SidesFollow
<1>8. TextInv'
  BY <1>1, <1>4, <1>5, <1>6, <1>7, TextsAre DEF TextInv
<1>9. RequestInv'
  BY <1>1, <1>2, <1>4, TouchKept
<1> QED
  BY <1>3, <1>8, <1>9, IInvKept

LEMMA RestoredKept ==
    ASSUME StackInv, RequestInv, TextInv, NEW r \in Resources, NEW snapshot, RestoreInitial(r, snapshot),
           UNCHANGED <<undone, text>>, invalid' \subseteq StackEntries \X Resources,
           open' \in [Resources -> BOOLEAN], initial' \in [Resources -> Snapshots],
           disposed' \in [Resources -> {Forgotten} \cup [known : {TRUE}, sha1 : Texts, initial : Snapshots]],
           unloaded' \subseteq Ids \X Resources, unloaded \subseteq unloaded',
           \A s \in Resources \ {r} : open'[s] = open[s] /\ disposed'[s] = disposed[s]
    PROVE  IInv'
<1>1. /\ StackInv' /\ element' = element
      /\ \A s \in Resources : stack'[s].locked \in {0, stack[s].locked}
      /\ \A s \in Resources \ {r} : stack'[s] = stack[s]
  <2>1. CASE snapshot = NoSnapshot
    <3>1. element' = element /\ stack' = stack /\ removed' = removed
      BY <2>1 DEF RestoreInitial
    <3>2. StackInv'
      BY <3>1 DEF StackInv, EntriesInPlace, SidesAgree, Entries, OfText, Spans, Ids, StackEntries, Stacks
    <3> QED
      BY <3>1, <3>2
  <2>2. CASE snapshot # NoSnapshot
    <3>1. Restore(r, snapshot)
      BY <2>2 DEF RestoreInitial
    <3> QED
      BY <3>1, RestoreIs
  <2> QED
    BY <2>1, <2>2
<1>2. Grows /\ Snapshots' = Snapshots
  BY <1>1, SameGrows
<1>3. \/ history'.outlived = history.outlived \cup {r}
      \/ history'.outlived = history.outlived
         /\ ~\E x \in Range(stack'[r].past) \cup Range(stack'[r].future) : OfText(x)
  BY DEF RestoreInitial, TextInv
<1>4. history' \in [outlived : SUBSET Resources, closes : Nat, changes : Nat]
  <2> DEFINE h == history
             o == IF \E x \in Range(stack'[r].past) \cup Range(stack'[r].future) : OfText(x)
                  THEN h.outlived \cup {r} ELSE h.outlived
             n == IF open[r] THEN h.closes + 1 ELSE h.closes
  <2>1. history' = [h EXCEPT !.outlived = o, !.closes = n]
    BY DEF RestoreInitial
  <2>2. h \in [outlived : SUBSET Resources, closes : Nat, changes : Nat]
    BY DEF TextInv
  <2>3. o \in SUBSET Resources /\ n \in Nat
    BY <2>2
  <2> HIDE DEF h, o, n
  <2> QED
    BY <2>1, <2>2, <2>3
<1>5. ASSUME NEW s \in Resources \ history'.outlived PROVE TextFollows(s)' /\ Clean(text'[s])
  <2>1. s \in Resources \ history.outlived
    BY <1>3
  <2>2. Clean(text'[s])
    BY <2>1, CleanIs DEF TextInv
  <2>3. CASE s = r
    <3>1. \A x \in Entries(s)' : ~OfText(x)'
      BY <1>1, <1>3, <2>3 DEF Entries, OfText
    <3> QED
      BY <2>2, <3>1, NoTextFollows
  <2>4. CASE s # r
    <3>1. SameSides(s) /\ TextFollows(s)
      BY <1>1, <2>1, <2>4 DEF SameSides, TextInv
    <3> QED
      BY <1>2, <2>2, <2>4, <3>1, SidesFollow
  <2> QED
    BY <2>3, <2>4
<1>6. TextInv'
  BY <1>2, <1>4, <1>5, TextsAre DEF TextInv
<1>7. RequestInv'
  BY <1>1, <1>2, TouchKept DEF RestoreInitial
<1> QED
  BY <1>1, <1>6, <1>7, IInvKept

LEMMA TextEntriesAre ==
    ASSUME StackInv, NEW r \in Resources
    PROVE  /\ {<<x.id, r>> : x \in TextEntries(r)} \subseteq Ids \X Resources
           /\ {<<x, r>> : x \in TextEntries(r)} \subseteq StackEntries \X Resources
BY StacksAre DEF TextEntries

LEMMA EmptySnapshots ==
    ASSUME StackInv
    PROVE  NoSnapshot \in Snapshots
BY DEF Snapshots, NoSnapshot

LEMMA EvictKeeps ==
    ASSUME StackInv, RequestInv, TextInv, NEW r \in Resources, Evict(r)
    PROVE  IInv'
<1>1. /\ disposed' = [disposed EXCEPT ![r] = Forgotten] /\ RestoreInitial(r, disposed[r].initial)
      /\ UNCHANGED <<invalid, undone, text, open, unloaded, initial>>
  BY DEF Evict
<1>2. disposed' \in [Resources -> {Forgotten} \cup [known : {TRUE}, sha1 : Texts, initial : Snapshots]]
  BY <1>1 DEF TextInv
<1>3. \A s \in Resources \ {r} : open'[s] = open[s] /\ disposed'[s] = disposed[s]
  BY <1>1 DEF TextInv
<1> QED
  BY <1>1, <1>2, <1>3, RestoredKept DEF TextInv, StackInv

LEMMA CloseKeeps ==
    ASSUME StackInv, RequestInv, TextInv, NEW r \in Resources, Close(r)
    PROVE  IInv'
<1> DEFINE info == [known |-> TRUE, sha1 |-> text[r], initial |-> initial[r]]
<1>1. /\ open[r] /\ open' = [open EXCEPT ![r] = FALSE] /\ initial' = [initial EXCEPT ![r] = NoSnapshot]
      /\ unloaded' = unloaded \cup {<<x.id, r>> : x \in TextEntries(r)}
      /\ \/ /\ invalid' = invalid \cup {<<x, r>> : x \in TextEntries(r)}
            /\ disposed' = [disposed EXCEPT ![r] = info]
            /\ history' = [history EXCEPT !.closes = @ + 1]
            /\ UNCHANGED <<element, stack, removed, request>>
         \/ RestoreInitial(r, initial[r]) /\ UNCHANGED <<invalid, disposed>>
      /\ UNCHANGED <<undone, text>>
  BY DEF Close
<1>2. /\ open' \in [Resources -> BOOLEAN] /\ \A s \in Resources \ {r} : open'[s] = open[s]
      /\ ~open'[r] /\ initial' \in [Resources -> Snapshots]
  BY <1>1, EmptySnapshots DEF TextInv
<1>3. unloaded' \subseteq Ids \X Resources /\ unloaded \subseteq unloaded'
  BY <1>1, TextEntriesAre DEF TextInv
<1>4. CASE /\ invalid' = invalid \cup {<<x, r>> : x \in TextEntries(r)}
           /\ disposed' = [disposed EXCEPT ![r] = info]
           /\ history' = [history EXCEPT !.closes = @ + 1]
           /\ UNCHANGED <<element, stack, removed, request>>
  <2>1. info \in [known : {TRUE}, sha1 : Texts, initial : Snapshots]
    BY DEF TextInv
  <2>2. info.known /\ info.sha1 = text[r]
    OBVIOUS
  <2> HIDE DEF info
  <2>3. /\ disposed' \in [Resources -> {Forgotten} \cup [known : {TRUE}, sha1 : Texts, initial : Snapshots]]
        /\ disposed'[r] = info /\ \A s \in Resources \ {r} : disposed'[s] = disposed[s]
    BY <1>4, <2>1 DEF TextInv
  <2>4. StackInv'
    <3>1. invalid' \subseteq StackEntries \X Resources
      BY <1>4, TextEntriesAre DEF StackInv
    <3> QED
      BY <1>1, <1>4, <3>1
         DEF StackInv, EntriesInPlace, SidesAgree, Entries, OfText, Spans, Ids, StackEntries, Stacks
  <2>5. Grows /\ Snapshots' = Snapshots
    BY <1>4, SameGrows
  <2>6. /\ history' \in [outlived : SUBSET Resources, closes : Nat, changes : Nat]
        /\ history'.outlived = history.outlived
    BY <1>4 DEF TextInv
  <2>7. ASSUME NEW s \in Resources \ history.outlived PROVE TextFollows(s)' /\ Clean(text'[s])
    <3>1. TextFollows(s) /\ Clean(text'[s])
      BY <1>1, CleanIs DEF TextInv
    <3>2. CASE s = r
      <4>1. Follow(element', stack'[s].past, stack'[s].future, s, disposed'[s].sha1)
        BY <1>1, <1>4, <2>2, <2>3, <3>1, <3>2 DEF TextFollows
      <4>2. TextEntries(s)' = TextEntries(s)
        BY <1>4 DEF TextEntries, Entries, OfText
      <4>3. \A x \in TextEntries(s)' : <<x.id, s>> \in unloaded'
        BY <1>1, <3>2, <4>2
      <4> QED
        BY <1>2, <2>2, <2>3, <3>1, <3>2, <4>1, <4>3 DEF TextFollows
    <3>3. CASE s # r
      <4>1. SameSides(s)
        BY <1>4 DEF SameSides
      <4> QED
        BY <1>1, <1>2, <1>3, <2>3, <2>5, <3>1, <3>3, <4>1, SidesFollow
    <3> QED
      BY <3>2, <3>3
  <2>8. TextInv'
    BY <1>1, <1>2, <1>3, <2>3, <2>5, <2>6, <2>7, TextsAre DEF TextInv
  <2>9. RequestInv'
    BY <1>4, <2>5, TouchKept
  <2> QED
    BY <2>4, <2>8, <2>9, IInvKept
<1>5. CASE RestoreInitial(r, initial[r]) /\ UNCHANGED <<invalid, disposed>>
  BY <1>1, <1>2, <1>3, <1>5, RestoredKept DEF TextInv, StackInv
<1> QED
  BY <1>1, <1>4, <1>5

LEMMA OpenKeeps ==
    ASSUME StackInv, RequestInv, TextInv, NEW r \in Resources, Open(r)
    PROVE  IInv'
<1>1. /\ ~open[r] /\ open' = [open EXCEPT ![r] = TRUE] /\ disposed' = [disposed EXCEPT ![r] = Forgotten]
      /\ UNCHANGED <<undone, text>>
      /\ \/ /\ ~disposed[r].known
            /\ UNCHANGED <<stackVars, request, unloaded, initial, history>>
         \/ /\ disposed[r].known /\ disposed[r].sha1 = text[r]
            /\ unloaded' = unloaded \ {<<x.id, r>> : x \in TextEntries(r)}
            /\ invalid' = invalid \ {<<x, r>> : x \in TextEntries(r)}
            /\ initial' = [initial EXCEPT ![r] = disposed[r].initial]
            /\ UNCHANGED <<element, stack, removed, request, history>>
         \/ /\ RestoreInitial(r, disposed[r].initial)
            /\ UNCHANGED <<invalid, unloaded, initial>>
  BY DEF Open
<1>2. /\ open' \in [Resources -> BOOLEAN] /\ open'[r] /\ \A s \in Resources \ {r} : open'[s] = open[s]
      /\ disposed' \in [Resources -> {Forgotten} \cup [known : {TRUE}, sha1 : Texts, initial : Snapshots]]
      /\ \A s \in Resources \ {r} : disposed'[s] = disposed[s]
  BY <1>1 DEF TextInv
<1>3. CASE /\ ~disposed[r].known
           /\ UNCHANGED <<stackVars, request, unloaded, initial, history>>
  <2>1. element' = element /\ stack' = stack /\ removed' = removed /\ invalid' = invalid
    BY <1>3 DEF stackVars
  <2>2. StackInv'
    BY <1>1, <2>1 DEF StackInv, EntriesInPlace, SidesAgree, Entries, OfText, Spans, Ids, StackEntries, Stacks
  <2>3. Grows /\ Snapshots' = Snapshots
    BY <2>1, SameGrows
  <2>4. ASSUME NEW s \in Resources \ history.outlived PROVE TextFollows(s)' /\ Clean(text'[s])
    <3>1. TextFollows(s) /\ Clean(text'[s]) /\ SameSides(s)
      BY <1>1, <2>1, CleanIs DEF TextInv, SameSides
    <3>2. CASE s = r
      <4>1. TextEntries(s) = {}
        BY <1>1, <1>3, <3>1, <3>2 DEF TextFollows
      <4>2. \A x \in Entries(s)' : ~OfText(x)'
        BY <2>1, <4>1 DEF TextEntries, Entries, OfText
      <4> QED
        BY <3>1, <4>2, NoTextFollows
    <3>3. CASE s # r
      BY <1>1, <1>2, <1>3, <2>3, <3>1, <3>3, SidesFollow
    <3> QED
      BY <3>2, <3>3
  <2>5. TextInv'
    BY <1>1, <1>2, <1>3, <2>3, <2>4, TextsAre DEF TextInv
  <2>6. RequestInv'
    BY <1>3, <2>1, <2>3, TouchKept
  <2> QED
    BY <2>2, <2>5, <2>6, IInvKept
<1>4. CASE /\ disposed[r].known /\ disposed[r].sha1 = text[r]
           /\ unloaded' = unloaded \ {<<x.id, r>> : x \in TextEntries(r)}
           /\ invalid' = invalid \ {<<x, r>> : x \in TextEntries(r)}
           /\ initial' = [initial EXCEPT ![r] = disposed[r].initial]
           /\ UNCHANGED <<element, stack, removed, request, history>>
  <2>1. StackInv'
    BY <1>1, <1>4 DEF StackInv, EntriesInPlace, SidesAgree, Entries, OfText, Spans, Ids, StackEntries, Stacks
  <2>2. Grows /\ Snapshots' = Snapshots
    BY <1>4, SameGrows
  <2>3. initial' \in [Resources -> Snapshots] /\ unloaded' \subseteq Ids \X Resources
    <3>1. disposed[r] \in [known : {TRUE}, sha1 : Texts, initial : Snapshots]
      <4>1. disposed[r] \in {Forgotten} \cup [known : {TRUE}, sha1 : Texts, initial : Snapshots]
        BY DEF TextInv
      <4>2. Forgotten.known = FALSE
        BY DEF Forgotten
      <4> QED
        BY <1>4, <4>1, <4>2
    <3>2. disposed[r].initial \in Snapshots
      BY <3>1
    <3> QED
      BY <1>4, <3>2 DEF TextInv
  <2>4. \A s \in Resources \ {r} : \A id \in Ids : <<id, s>> \in unloaded => <<id, s>> \in unloaded'
    BY <1>4
  <2>5. ASSUME NEW s \in Resources \ history.outlived PROVE TextFollows(s)' /\ Clean(text'[s])
    <3>1. TextFollows(s) /\ Clean(text'[s]) /\ SameSides(s)
      BY <1>1, <1>4, CleanIs DEF TextInv, SameSides
    <3>2. CASE s = r
      BY <1>1, <1>2, <1>4, <3>1, <3>2 DEF TextFollows
    <3>3. CASE s # r
      BY <1>1, <1>2, <2>2, <2>4, <3>1, <3>3, SidesFollow
    <3> QED
      BY <3>2, <3>3
  <2>6. TextInv'
    BY <1>1, <1>2, <1>4, <2>2, <2>3, <2>5, TextsAre DEF TextInv
  <2>7. RequestInv'
    BY <1>4, <2>2, TouchKept
  <2> QED
    BY <2>1, <2>6, <2>7, IInvKept
<1>5. CASE RestoreInitial(r, disposed[r].initial) /\ UNCHANGED <<invalid, unloaded, initial>>
  BY <1>1, <1>2, <1>5, RestoredKept DEF TextInv, StackInv
<1> QED
  BY <1>1, <1>3, <1>4, <1>5

LEMMA SnapshotIs ==
    ASSUME NEW S, NEW s, s.past \in Seq(S), s.future \in Seq(S)
    PROVE  Snapshot(s) \in Seq(S)
<1>1. Reverse(s.future) \in Seq(S)
  BY ReverseIs
<1> QED
  BY <1>1 DEF Snapshot

\* What is pushed is for the texts there are.
LEMMA EditKeeps ==
    ASSUME StackInv, RequestInv, TextInv, NEW kind \in Kinds, NEW on \in SUBSET Resources, NEW group \in Groups,
           Edit(kind, on, group)
    PROVE  IInv'
<1> DEFINE n == Len(element) + 1
           found == [r \in Resources |-> IF kind # "files" /\ r \in on THEN text[r] ELSE <<>>]
           new == [kind |-> kind, on |-> on, group |-> group, found |-> found]
           x == Entry(n, FALSE)
<1>1. /\ kind # "files" => \A r \in on : open[r]
      /\ Push(new) /\ request' = Touch(request, on)
      /\ text' = [r \in Resources |-> IF kind # "files" /\ r \in on THEN Append(text[r], n) ELSE text[r]]
      /\ initial' = [r \in Resources |->
                        IF kind = "files" \/ r \notin on \/ initial[r] # NoSnapshot THEN initial[r]
                        ELSE Snapshot(IF kind = "text" THEN stack[r] ELSE stack'[r])]
      /\ UNCHANGED <<undone, open, unloaded, disposed, history>>
  BY DEF Edit
<1>2. n \in Nat \ {0} /\ x.id = n
  BY DEF StackInv, Entry
<1>3. new \in Elements /\ new.kind = kind /\ new.on = on /\ new.found = found
  <2>1. <<>> \in Texts
    BY DEF Texts
  <2>2. found \in [Resources -> Texts]
    BY <2>1 DEF TextInv
  <2> HIDE DEF found
  <2> QED
    BY <2>2 DEF Elements
<1>4. \A r \in Resources : kind # "files" /\ r \in on => found[r] = text[r]
  OBVIOUS
<1> HIDE DEF n, found, new
<1>5. /\ StackInv' /\ element' = Append(element, new)
      /\ Ids \subseteq Ids' /\ StackEntries \subseteq StackEntries'
      /\ x \in StackEntries' /\ x.id \notin Ids
      /\ \A id \in Ids : element'[id] = element[id]
      /\ element'[x.id] = new
      /\ \A r \in Resources : stack'[r].locked = stack[r].locked
      /\ \A r \in Resources \ on : stack'[r] = stack[r]
      /\ \A r \in on : /\ stack'[r].past = Append(stack[r].past, x)
                       /\ stack'[r].future = <<>>
  BY <1>1, <1>3, PushIs DEF n
<1> HIDE DEF x
<1>6. Grows /\ Snapshots \subseteq Snapshots'
  <2>1. Grows
    BY <1>5 DEF Grows
  <2> QED
    BY <2>1, GrowsIs
<1>7. /\ text' \in [Resources -> Texts]
      /\ \A r \in Resources : text'[r] = IF kind # "files" /\ r \in on THEN Append(text[r], n) ELSE text[r]
      /\ \A r \in Resources \ history.outlived : Clean(text'[r])
  <2>1. \A r \in Resources : text[r] \in Seq(Int) /\ Append(text[r], n) \in Seq(Int)
    BY <1>2 DEF TextInv, Texts
  <2>2. \A r \in Resources : text'[r] = IF kind # "files" /\ r \in on THEN Append(text[r], n) ELSE text[r]
    BY <1>1
  <2>3. text' \in [Resources -> Texts]
    BY <1>1, <2>1 DEF Texts
  <2>4. ASSUME NEW r \in Resources \ history.outlived PROVE Clean(text'[r])
    <3>1. Clean(text[r]) /\ n # Garbled /\ n \in Int
      BY <1>2, CleanIs DEF TextInv, Garbled
    <3>2. Clean(Append(text[r], n))
      BY <2>1, <3>1, AppendIs DEF Clean
    <3> QED
      BY <2>2, <3>1, <3>2
  <2> QED
    BY <2>2, <2>3, <2>4
<1>8. initial' \in [Resources -> Snapshots']
  <2>1. \A r \in Resources :
          /\ stack[r].past \in Seq(StackEntries) /\ stack[r].future \in Seq(StackEntries)
          /\ stack'[r].past \in Seq(StackEntries') /\ stack'[r].future \in Seq(StackEntries')
    BY <1>5, StacksAre DEF StackInv, Stacks
  <2>2. \A r \in Resources : Snapshot(stack[r]) \in Seq(StackEntries) /\ Snapshot(stack'[r]) \in Seq(StackEntries')
    BY <2>1, SnapshotIs
  <2>3. \A r \in Resources : Snapshot(stack[r]) \in Snapshots' /\ Snapshot(stack'[r]) \in Snapshots'
    BY <1>5, <2>2 DEF Snapshots
  <2>4. \A r \in Resources : initial[r] \in Snapshots'
    BY <1>6 DEF TextInv
  <2>5. \A r \in Resources :
          (IF kind = "files" \/ r \notin on \/ initial[r] # NoSnapshot THEN initial[r]
           ELSE Snapshot(IF kind = "text" THEN stack[r] ELSE stack'[r])) \in Snapshots'
    BY <2>3, <2>4
  <2> QED
    BY <1>1, <2>5
<1>9. ASSUME NEW r \in Resources \ history.outlived, r \in on PROVE TextFollows(r)'
  <2>1. TextFollows(r)
    BY DEF TextInv
  <2>2. /\ stack[r].past \in Seq(StackEntries') /\ stack[r].past \in Seq(StackEntries)
        /\ stack[r].future \in Seq(StackEntries)
    BY <1>5, StacksAre
  <2>3. \A t : Follow(element, stack[r].past, stack[r].future, r, t)
                 => Follow(element', stack[r].past, stack[r].future, r, t)
    <3>1. /\ \A i \in DOMAIN stack[r].past : element'[stack[r].past[i].id] = element[stack[r].past[i].id]
          /\ \A i \in DOMAIN stack[r].future : element'[stack[r].future[i].id] = element[stack[r].future[i].id]
      <4>1. \A y \in StackEntries : y.id \in Ids
        BY DEF StackEntries
      <4>2. /\ \A i \in DOMAIN stack[r].past : stack[r].past[i] \in StackEntries
            /\ \A i \in DOMAIN stack[r].future : stack[r].future[i] \in StackEntries
        BY <2>2
      <4> QED
        BY <1>5, <4>1, <4>2
    <3> QED
      BY <3>1, SameFollows
  <2>4. CASE kind # "files"
    <3>1. open[r] /\ open'[r] /\ text'[r] = Append(text[r], n)
      BY <1>1, <1>7, <1>9, <2>4
    <3>2. Follow(element', stack[r].past, stack[r].future, r, text[r])
      BY <2>1, <2>3, <3>1 DEF TextFollows
    <3>3. IsText(element', x) /\ FoundIn(element', x, r) = text[r] /\ LeftIn(element', x, r) = text'[r]
      BY <1>2, <1>3, <1>4, <1>5, <1>9, <2>4, <3>1 DEF IsText, FoundIn, LeftIn
    <3>4. Follow(element', Append(stack[r].past, x), <<>>, r, text'[r])
      <4>1. PICK E : E = StackEntries'
        OBVIOUS
      <4>2. stack[r].past \in Seq(E) /\ x \in E
        BY <1>5, <2>2, <4>1
      <4>3. Follow(element', Append(stack[r].past, x), <<>>, r, LeftIn(element', x, r))
        BY ONLY <3>2, <3>3, <4>2, PushedFollows
      <4> QED
        BY <3>3, <4>3
    <3> QED
      BY <1>5, <1>9, <3>1, <3>4 DEF TextFollows
  <2>5. CASE kind = "files"
    <3>1. ~IsText(element', x) /\ text'[r] = text[r] /\ open'[r] = open[r] /\ disposed'[r] = disposed[r]
      BY <1>1, <1>3, <1>5, <1>7, <2>5 DEF IsText
    <3>2. \A t : Follow(element, stack[r].past, stack[r].future, r, t)
                   => Follow(element', stack'[r].past, stack'[r].future, r, t)
      <4>1. PICK E : E = StackEntries'
        OBVIOUS
      <4>2. stack[r].past \in Seq(E) /\ x \in E
        BY <1>5, <2>2, <4>1
      <4>3. ASSUME NEW t, Follow(element', stack[r].past, stack[r].future, r, t)
            PROVE  Follow(element', Append(stack[r].past, x), <<>>, r, t)
        BY ONLY <3>1, <4>2, <4>3, PushedFollows
      <4> QED
        BY <1>5, <1>9, <2>3, <4>3
    <3>3. TextEntries(r)' \subseteq TextEntries(r)
      <4>1. ASSUME NEW y \in TextEntries(r)' PROVE y \in TextEntries(r)
        <5>1. y \in Range(Append(stack[r].past, x)) \/ y \in Range(<<>>)
          BY <1>5, <1>9 DEF TextEntries, Entries
        <5>2. y = x \/ y \in Range(stack[r].past)
          BY <1>5, <2>2, <5>1, AppendIs DEF Range
        <5>3. y # x
          BY <3>1 DEF TextEntries, OfText, IsText
        <5>4. y \in Entries(r) /\ y.id \in Ids
          BY <5>2, <5>3, StacksAre DEF Entries
        <5> QED
          BY <1>5, <5>4 DEF TextEntries, OfText
      <4> QED
        BY <4>1
    <3> QED
      BY <1>1, <2>1, <3>1, <3>2, <3>3 DEF TextFollows
  <2> QED
    BY <2>4, <2>5
<1>10. ASSUME NEW r \in Resources \ history.outlived, r \notin on PROVE TextFollows(r)'
  <2>1. SameSides(r) /\ TextFollows(r) /\ text'[r] = text[r]
    BY <1>5, <1>7, <1>10 DEF SameSides, TextInv
  <2> QED
    BY <1>1, <1>6, <2>1, SidesFollow
<1>11. TextInv'
  BY <1>1, <1>6, <1>7, <1>8, <1>9, <1>10, TextsAre DEF TextInv
<1>12. RequestInv'
  BY <1>1, <1>5, <1>6, TouchKept
<1> QED
  BY <1>5, <1>11, <1>12, IInvKept

-----------------------------------------------------------------------------
(* Theorems.                                                               *)

LEMMA InitIsInv ==
    ASSUME Init
    PROVE  IInv
<1>1. /\ element = <<>> /\ removed = {} /\ invalid = {} /\ stack = [r \in Resources |-> NoStack]
      /\ request = [q \in Requests |-> Idle] /\ undone = {} /\ unloaded = {}
      /\ text = [r \in Resources |-> <<>>] /\ open = [r \in Resources |-> TRUE]
      /\ initial = [r \in Resources |-> NoSnapshot] /\ disposed = [r \in Resources |-> Forgotten]
      /\ history = [outlived |-> {}, closes |-> 0, changes |-> 0]
  BY DEF Init, InitStacks
<1>2. element \in Seq(Elements) /\ <<>> \in Seq(Int)
  BY <1>1
<1>3. NoStack \in Stacks /\ NoStack.past = <<>> /\ NoStack.future = <<>> /\ NoStack.locked = 0
  BY NoStackIs
<1>4. /\ \A r \in Resources : stack[r] = NoStack
      /\ \A r \in Resources : Entries(r) = {}
  BY <1>1, NoStackIs DEF Entries
<1>5. EntriesInPlace /\ SidesAgree
  BY <1>4, NoStackIs DEF EntriesInPlace, SidesAgree
<1>6. StackInv
  BY <1>1, <1>2, <1>3, <1>5 DEF StackInv
<1>7. RequestInv
  <2>1. Idle \in Doings /\ Idle.pc = "none"
    <3>1. MaxCalls \in Nat /\ 0 \in 0..MaxCalls
      BY UndoRedoAssumption DEF MaxCalls
    <3> QED
      BY <3>1 DEF Idle, Doings
  <2>2. \A q \in Requests : request[q] = Idle
    BY <1>1
  <2> HIDE DEF Idle
  <2>3. \A q \in Requests : Stands(q)
    BY <2>1, <2>2 DEF Stands
  <2>4. \A r \in Resources : LockStands(r)
    BY <1>3, <1>4 DEF LockStands
  <2> QED
    BY <1>1, <2>1, <2>3, <2>4 DEF RequestInv
<1>8. TextInv
  <2>1. NoSnapshot \in Snapshots
    BY <1>6, EmptySnapshots
  <2>2. \A r \in Resources : TextFollows(r)
    <3>1. \A r \in Resources : open[r] /\ text[r] = <<>>
      BY <1>1
    <3>2. \A r \in Resources : Follow(element, stack[r].past, stack[r].future, r, text[r])
      BY <1>4, NothingFollows DEF Entries
    <3> QED
      BY <3>1, <3>2 DEF TextFollows
  <2>3. NothingGarbled
    BY <1>1, <1>2 DEF NothingGarbled
  <2>4. history \in [outlived : SUBSET Resources, closes : Nat, changes : Nat]
    BY <1>1
  <2> QED
    BY <1>1, <1>2, <2>1, <2>2, <2>3, <2>4 DEF TextInv, Texts
<1> QED
  BY <1>6, <1>7, <1>8, IInvIs

LEMMA StepKeepsInv ==
    ASSUME IInv, [Next]_vars
    PROVE  IInv'
<1>1. StackInv /\ RequestInv /\ TextInv
  BY IInvIs
<1>2. CASE UNCHANGED vars
  <2>1. /\ UNCHANGED <<stackVars, undone, text, modelVars, history>> /\ request' = request
    BY <1>2 DEF vars
  <2>2. StackInv' /\ TextInv' /\ Grows /\ \A r \in Resources : stack'[r] = stack[r]
    BY <1>1, <2>1, OnlyRequests
  <2>3. RequestInv'
    BY <1>1, <2>1, <2>2, TouchKept
  <2> QED
    BY <2>2, <2>3, IInvKept
<1>3. CASE Runs
  <2>1. PICK q \in Requests :
          \/ GoNowhere(q) \/ GoToGroup(q) \/ Confirm(q) \/ GoInResource(q) \/ GoInWorkspace(q)
          \/ Prepared(q) \/ FilesEnd(q) \/ GoOnInGroup(q)
    BY <1>3 DEF Runs
  <2> QED
    BY <1>1, <2>1, GoNowhereKeeps, GoToGroupKeeps, ConfirmKeeps, GoInResourceKeeps, GoInWorkspaceKeeps,
       PreparedKeeps, FilesEndKeeps, GoOnInGroupKeeps
<1>4. CASE \E q \in Requests : Confirmed(q) \/ Chosen(q)
  BY <1>1, <1>4, ConfirmedKeeps, ChosenKeeps
<1>5. CASE \E q \in Requests, r \in Resources, direction \in {"undo", "redo"} : Ask(q, r, direction)
  BY <1>1, <1>5, AskKeeps
<1>6. CASE \E kind \in Kinds, on \in SUBSET Resources, group \in Groups : Edit(kind, on, group)
  BY <1>1, <1>6, EditKeeps
<1>7. CASE \E r \in Resources : SetValue(r) \/ Close(r) \/ Evict(r) \/ Change(r) \/ Open(r)
  BY <1>1, <1>7, SetValueKeeps, CloseKeeps, EvictKeeps, ChangeKeeps, OpenKeeps
<1> QED
  BY <1>2, <1>3, <1>4, <1>5, <1>6, <1>7 DEF Next

\* Whatever is typed, undone, made again, closed and opened, for any resources,
\* groups and requests: every element is where its resources' stacks can find it,
\* once; a request that waits or runs has an element that is there for it; and the
\* elements of a text follow from each other to the text there is, except where
\* they outlived it.
THEOREM UndoRedoInvariant == Spec => []IInv
<1>1. Init => IInv
  BY InitIsInv
<1>2. IInv /\ [Next]_vars => IInv'
  BY StepKeepsInv
<1> QED
  BY <1>1, <1>2, PTL DEF Spec

\* What _safeInvokeWithLocks moves in all stacks of an element at once stays so:
\* nothing is undone in one file that may be undone in another; and an operation on
\* files is among what may be undone if, and only if, it is done.
THEOREM SidesAlwaysAgree == Spec => []SidesAgree
<1>1. IInv => SidesAgree
  BY DEF IInv
<1> QED
  BY <1>1, UndoRedoInvariant, PTL

\* _acquireLocks: no lock is left behind by a split, a failure, a model that goes or
\* a request that ends: who holds it is still running, on an element of that stack.
THEOREM LocksAreOfRequests == Spec => []LocksAreHeld
<1>1. ASSUME IInv PROVE LocksAreHeld
  <2>1. StackInv /\ RequestInv
    BY <1>1, IInvIs
  <2> SUFFICES ASSUME NEW r \in Resources, stack[r].locked # 0
               PROVE  LET q == stack[r].locked
                      IN  request[q].pc = "running" /\ r \in element[request[q].x.id].on
    BY DEF LocksAreHeld
  <2> DEFINE q == stack[r].locked
  <2>2. q \in Requests
    BY <2>1, StacksAre, UndoRedoAssumption DEF Requests
  <2>3. request[q].pc = "running" /\ r \in On(request[q].x, request[q].at)
    BY <2>1 DEF RequestInv, LockStands
  <2> HIDE DEF q
  <2>4. request[q].at \in element[request[q].x.id].on
    BY <2>1, <2>2, <2>3 DEF RequestInv, Stands
  <2>5. r \in element[request[q].x.id].on
    BY <2>3, <2>4 DEF On
  <2> QED
    BY <2>3, <2>5 DEF q
<1> QED
  BY <1>1, UndoRedoInvariant, PTL

\* An edit is undone only on the text it has left, and made again only on the one it
\* was made on: no text is garbled by undo and redo, unless a stack outlived its text.
THEOREM TextsAreWhole == Spec => []NothingGarbled
<1>1. IInv => NothingGarbled
  BY DEF IInv
<1> QED
  BY <1>1, UndoRedoInvariant, PTL

-----------------------------------------------------------------------------
(* How deep _undo and _redo are in each other.                             *)

\* Elements that are on a side of a stack and are not split there.
Undivided(direction) ==
    {id \in Ids : \E r \in Resources : Entry(id, FALSE) \in Range(stack[r][Side(direction)])}
Ahead(q) == Cardinality(Undivided(request[q].direction))

\* A request is where its group has it go on.
AtNext(q) ==
    HasTop(request[q].at, request[q].direction) => IsNext(q, Top(request[q].at, request[q].direction))

\* Every call of another leaves less to be undone or made again whole, or is the
\* one that goes to the element of the group that comes first.
Bounded(q) ==
    /\ request[q].pc = "go" =>
           request[q].calls + Ahead(q) + (IF AtNext(q) THEN 0 ELSE 1) <= 2 * MaxPushes + 1
    /\ request[q].pc = "next" =>
           /\ request[q].calls <= 2 * MaxPushes + 1
           /\ GroupOf(request[q].x) # 0 => request[q].calls + Ahead(q) <= 2 * MaxPushes

\* One request at a time goes without waiting, and only its calls are counted.
Counted ==
    /\ \A p, q \in Requests : request[p].pc \in Synchronous /\ request[q].pc \in Synchronous => p = q
    /\ \A q \in Requests : request[q].pc \notin Synchronous => request[q].calls = 0

\* What is in a stack is not marked as gone from it.
Unmarked == \A r \in Resources : \A x \in Entries(r) : Spans(x) /\ OfText(x) => <<x.id, r>> \notin removed

CallsInv ==
    /\ Len(element) <= MaxPushes /\ Counted
    /\ history.outlived = {} => Unmarked /\ \A q \in Requests : Bounded(q)

LEMMA UnmarkedKept ==
    ASSUME StackInv, Unmarked, Grows,
           \A r \in Resources : \A y \in Entries(r)' :
             \/ y \in Entries(r) /\ (<<y.id, r>> \in removed' => <<y.id, r>> \in removed)
             \/ ~Spans(y)' \/ ~OfText(y)' \/ <<y.id, r>> \notin removed'
    PROVE  Unmarked'
<1> SUFFICES ASSUME NEW r \in Resources, NEW y \in Entries(r)', Spans(y)', OfText(y)',
                    y \in Entries(r), <<y.id, r>> \in removed' => <<y.id, r>> \in removed
             PROVE  <<y.id, r>> \notin removed'
  BY DEF Unmarked
<1>1. y.id \in Ids
  BY StacksAre
<1>2. Spans(y) /\ OfText(y)
  BY <1>1 DEF Grows, Spans, OfText
<1> QED
  BY <1>2 DEF Unmarked

LEMMA MarkedIs ==
    ASSUME NEW r, NEW lost, NEW id, NEW s, <<id, s>> \in Marks(r, lost)
    PROVE  s = r /\ \E x \in lost : x.id = id
BY DEF Marks

\* Stacks that go leave nothing of theirs.
LEMMA RemovedUnmarked ==
    ASSUME StackInv, Unmarked, NEW on \in SUBSET Resources, RemoveElements(on)
    PROVE  Unmarked'
<1>1. /\ \A r \in Resources : stack'[r] = IF r \in on THEN NoStack ELSE stack[r]
      /\ removed' = removed \cup UNION {Marks(r, Entries(r)) : r \in on} /\ element' = element
  BY DEF RemoveElements
<1>2. \A r \in Resources : Entries(r)' = IF r \in on THEN {} ELSE Entries(r)
  BY <1>1, NoStackIs DEF Entries
<1>3. \A r \in Resources \ on : \A id : <<id, r>> \in removed' => <<id, r>> \in removed
  BY <1>1, MarkedIs
<1> QED
  BY <1>1, <1>2, <1>3, SameGrows, UnmarkedKept

\* Nothing is marked, and what is added are parts.
LEMMA SameUnmarked ==
    ASSUME StackInv, Unmarked, element' = element, removed' = removed,
           \A r \in Resources : \A y \in Entries(r)' : y \in Entries(r) \/ ~Spans(y)
    PROVE  Unmarked'
<1>1. \A y : Spans(y)' = Spans(y)
  BY DEF Spans
<1> QED
  BY <1>1, SameGrows, UnmarkedKept

\* What is pushed is new; what was undone is no longer there.
LEMMA PushedUnmarked ==
    ASSUME StackInv, Unmarked, NEW new \in Elements, Push(new), undone' = undone
    PROVE  Unmarked'
<1> DEFINE x == Entry(Len(element) + 1, FALSE)
<1>1. /\ x.id \notin Ids /\ Grows
      /\ \A r \in Resources \ new.on : stack'[r] = stack[r]
      /\ \A r \in new.on : /\ stack'[r].past = Append(stack[r].past, x)
                           /\ stack'[r].future = <<>>
  <2>1. LET y == Entry(Len(element) + 1, FALSE)
        IN  /\ Ids \subseteq Ids' /\ y.id \notin Ids /\ y \in StackEntries'
            /\ \A id \in Ids : element'[id] = element[id]
            /\ \A r \in Resources \ new.on : stack'[r] = stack[r]
            /\ \A r \in new.on : stack'[r].past = Append(stack[r].past, y) /\ stack'[r].future = <<>>
    BY PushIs
  <2> QED
    BY <2>1 DEF Grows
<1>2. removed' = removed \cup UNION {Marks(r, Range(stack[r].future)) : r \in new.on}
  BY DEF Push
<1>3. new.on \subseteq Resources
  BY DEF Elements
<1>4. \A r \in Resources : \A id : <<id, r>> \in removed' =>
        <<id, r>> \in removed \/ (r \in new.on /\ \E y \in Range(stack[r].future) : y.id = id)
  BY <1>2, MarkedIs
<1>5. \A r \in Resources : <<x.id, r>> \notin removed'
  <2>1. \A r \in Resources : \A y \in Range(stack[r].future) : y.id \in Ids
    BY StacksAre DEF Entries
  <2>2. removed \subseteq Ids \X Resources
    BY DEF StackInv
  <2> HIDE DEF x
  <2> QED
    BY <1>1, <1>4, <2>1, <2>2
<1> HIDE DEF x
<1>6. ASSUME NEW r \in new.on, NEW y \in Entries(r)', y # x
      PROVE  y \in Entries(r) /\ (<<y.id, r>> \in removed' => <<y.id, r>> \in removed)
  <2>1. r \in Resources /\ stack[r].past \in Seq(StackEntries)
    BY <1>3, StacksAre
  <2>2. Range(Append(stack[r].past, x)) \subseteq Range(stack[r].past) \cup {x}
    <3> DEFINE p == stack[r].past
    <3>1. p \in Seq(StackEntries \cup {x}) /\ x \in StackEntries \cup {x}
      BY <2>1
    <3> HIDE DEF p
    <3>2. \A i \in DOMAIN Append(p, x) : Append(p, x)[i] \in Range(p) \cup {x}
      BY <3>1, AppendIs, RangeIs
    <3>3. Range(Append(p, x)) \subseteq Range(p) \cup {x}
      BY <3>2, RangeIs
    <3> QED
      BY <3>3 DEF p
  <2>3. y \in Range(stack[r].past)
    <3>1. y \in Range(stack'[r].past) \/ y \in Range(stack'[r].future)
      BY DEF Entries
    <3>2. stack'[r].past = Append(stack[r].past, x) /\ Range(stack'[r].future) = {}
      BY <1>1, EmptyKeeps
    <3> QED
      BY <1>6, <2>2, <3>1, <3>2
  <2>4. \A z \in Range(stack[r].future) : z.id # y.id
    BY <2>1, <2>3 DEF StackInv, EntriesInPlace
  <2> QED
    BY <1>4, <2>1, <2>3, <2>4 DEF Entries
<1>7. ASSUME NEW r \in Resources \ new.on, NEW y \in Entries(r)'
      PROVE  y \in Entries(r) /\ (<<y.id, r>> \in removed' => <<y.id, r>> \in removed)
  BY <1>1, <1>4 DEF Entries
<1> QED
  BY <1>1, <1>5, <1>6, <1>7, UnmarkedKept

\* What a model that goes restores keeps nothing of a text, unless it outlives it.
LEMMA OutlivedIs ==
    ASSUME NEW r \in Resources, NEW snapshot, RestoreInitial(r, snapshot),
           history \in [outlived : SUBSET Resources, closes : Nat, changes : Nat]
    PROVE  /\ history.outlived \subseteq history'.outlived
           /\ history'.outlived = {} => \A y \in Entries(r)' : ~OfText(y)'
<1> DEFINE keeps == \E y \in Entries(r)' : OfText(y)
           outlived == IF keeps THEN history.outlived \cup {r} ELSE history.outlived
           closes == IF open[r] THEN history.closes + 1 ELSE history.closes
<1>1. history' = [history EXCEPT !.outlived = outlived, !.closes = closes]
  BY DEF RestoreInitial, Entries
<1>2. element' = element
  BY DEF RestoreInitial, Restore
<1> HIDE DEF outlived, closes, keeps
<1>3. history'.outlived = outlived
  BY <1>1
<1>4. history'.outlived = {} => ~keeps
  BY <1>3 DEF outlived
<1> QED
  BY <1>2, <1>3, <1>4 DEF keeps, outlived, OfText

LEMMA RestoredUnmarked ==
    ASSUME StackInv, Unmarked, NEW r \in Resources, NEW snapshot, RestoreInitial(r, snapshot),
           undone' = undone, invalid' \subseteq StackEntries \X Resources,
           \A y \in Entries(r)' : ~OfText(y)'
    PROVE  Unmarked'
<1>1. CASE snapshot = NoSnapshot
  BY <1>1, SameUnmarked DEF RestoreInitial, Entries
<1>2. CASE snapshot # NoSnapshot
  <2>1. Restore(r, snapshot)
    BY <1>2 DEF RestoreInitial
  <2>2. element' = element /\ \A s \in Resources \ {r} : stack'[s] = stack[s]
    BY <2>1, RestoreIs
  <2>3. \A s \in Resources \ {r} : \A id : <<id, s>> \in removed' => <<id, s>> \in removed
    BY <2>1, MarkedIs DEF Restore
  <2> QED
    BY <2>2, <2>3, SameGrows, UnmarkedKept DEF Entries
<1> QED
  BY <1>1, <1>2

-----------------------------------------------------------------------------
(* The calls of the requests.                                              *)

SameCount(p) == request'[p].pc = request[p].pc /\ request'[p].calls = request[p].calls

\* One request makes a step to a record of which the count is known.
LEMMA CountsTo ==
    ASSUME NEW q \in Requests, NEW d \in [Requests -> Doings],
           \A p \in Requests \ {q} : d[p] = request[p],
           NEW on, request' = d \/ request' = Touch(d, on)
    PROVE  /\ \A p \in Requests \ {q} : SameCount(p)
           /\ request'[q].pc = d[q].pc /\ request'[q].at = d[q].at /\ request'[q].x = d[q].x
           /\ request'[q].direction = d[q].direction /\ request'[q].calls = d[q].calls
<1>1. \A p \in Requests : LET a == Touch(d, on)[p]
                              b == d[p]
                          IN  /\ a.pc = b.pc /\ a.at = b.at /\ a.x = b.x
                              /\ a.direction = b.direction /\ a.calls = b.calls
  <2>1. \A p \in Requests : [d[p] EXCEPT !.touched = TRUE].calls = d[p].calls
    BY DEF Doings
  <2>2. \A p \in Requests : Touch(d, on)[p].calls = d[p].calls
    BY <2>1 DEF Touch
  <2> QED
    BY <2>2, TouchIs
<1> QED
  BY <1>1 DEF SameCount

LEMMA TouchCounts ==
    ASSUME request \in [Requests -> Doings], NEW on, request' = Touch(request, on)
    PROVE  \A p \in Requests : SameCount(p)
<1>1. \A p \in Requests : [request[p] EXCEPT !.touched = TRUE].calls = request[p].calls
  BY DEF Doings
<1>2. \A p \in Requests : Touch(request, on)[p].calls = request[p].calls
  BY <1>1 DEF Touch
<1>3. \A p \in Requests : Touch(request, on)[p].pc = request[p].pc
  BY TouchIs
<1> QED
  BY <1>2, <1>3 DEF SameCount

LEMMA GoesCounts ==
    ASSUME request \in [Requests -> Doings], NEW q \in Requests, NEW at \in Resources, NEW sure \in BOOLEAN
    PROVE  /\ Goes(q, at, sure)[q].direction = request[q].direction
           /\ Goes(q, at, sure)[q].calls \in Nat /\ Goes(q, at, sure)[q].calls <= request[q].calls + 1
<1> DEFINE d == request[q]
           n == IF d.calls < MaxCalls THEN d.calls + 1 ELSE d.calls
           new == [d EXCEPT !.pc = "go", !.at = at, !.sure = sure, !.x = NoEntry, !.touched = FALSE,
                            !.calls = n]
<1>1. Goes(q, at, sure) = [request EXCEPT ![q] = new]
  BY DEF Goes
<1>2. n \in Nat /\ n <= d.calls + 1
  <2>1. d.calls \in 0..MaxCalls /\ MaxCalls \in Nat
    BY DoingsAre, UndoRedoAssumption DEF MaxCalls
  <2> HIDE DEF d
  <2> QED
    BY <2>1
<1>3. d \in Doings
  OBVIOUS
<1> HIDE DEF n, d
<1>4. new.direction = d.direction /\ new.calls = n
  BY <1>3 DEF Doings
<1> HIDE DEF new
<1> QED
  BY <1>1, <1>2, <1>4 DEF d

LEMMA BecomesCounts ==
    ASSUME request \in [Requests -> Doings], NEW q \in Requests, NEW pc
    PROVE  Becomes(q, pc)[q].calls = 0
<1> DEFINE d == request[q]
           new == [d EXCEPT !.pc = pc, !.calls = 0]
<1>1. Becomes(q, pc) = [request EXCEPT ![q] = new]
  BY DEF Becomes
<1>2. d \in Doings
  OBVIOUS
<1> HIDE DEF d
<1>3. new.calls = 0
  BY <1>2 DEF Doings
<1> HIDE DEF new
<1> QED
  BY <1>1, <1>3

LEMMA EndsCounts ==
    ASSUME request \in [Requests -> Doings], NEW q \in Requests
    PROVE  Ends(q)[q].calls = 0
BY DEF Ends, Idle

\* What is undivided is bounded by what was pushed.
LEMMA UndividedIs ==
    ASSUME StackInv, Len(element) <= MaxPushes, NEW direction
    PROVE  /\ IsFiniteSet(Undivided(direction))
           /\ Cardinality(Undivided(direction)) \in Nat /\ Cardinality(Undivided(direction)) <= MaxPushes
<1>1. Len(element) \in Nat /\ Ids = 1..Len(element) /\ MaxPushes \in Nat
  BY UndoRedoAssumption DEF StackInv, Ids
<1>2. IsFiniteSet(Ids) /\ Cardinality(Ids) = Len(element)
  <2> DEFINE n == Len(element)
  <2>1. n \in Nat /\ Ids = 1..n
    BY <1>1
  <2> HIDE DEF n
  <2>2. IsFiniteSet(1..n) /\ Cardinality(1..n) = n
    <3>1. IsFiniteSet(1..n) /\ Cardinality(1..n) = IF 1 > n THEN 0 ELSE n - 1 + 1
      BY <2>1, FS_Interval
    <3> QED
      BY <2>1, <3>1
  <2> QED
    BY <2>1, <2>2 DEF n
<1>3. Undivided(direction) \subseteq Ids
  BY DEF Undivided
<1> QED
  BY <1>1, <1>2, <1>3, FS_Subset, FS_CardinalityType

\* One less is undivided.
LEMMA OneLess ==
    ASSUME NEW S, IsFiniteSet(S), NEW a \in S, NEW T \in SUBSET S, a \notin T
    PROVE  Cardinality(T) + 1 <= Cardinality(S) /\ Cardinality(T) \in Nat /\ Cardinality(S) \in Nat
<1>1. IsFiniteSet(T) /\ Cardinality(T) \in Nat /\ Cardinality(S) \in Nat
  BY FS_Subset, FS_CardinalityType
<1>2. IsFiniteSet(T \cup {a}) /\ Cardinality(T \cup {a}) = Cardinality(T) + 1
  BY <1>1, FS_AddElement
<1>3. T \cup {a} \subseteq S
  OBVIOUS
<1>4. Cardinality(T \cup {a}) <= Cardinality(S)
  BY <1>3, FS_Subset
<1> QED
  BY <1>1, <1>2, <1>4

\* What is at the end of a side, and is in a group, is undivided.
LEMMA TopUndivided ==
    ASSUME StackInv, NEW r \in Resources, NEW direction \in {"undo", "redo"}, HasTop(r, direction),
           ~Top(r, direction).alone
    PROVE  /\ Top(r, direction).id \in Undivided(direction)
           /\ Top(r, direction) = Entry(Top(r, direction).id, FALSE)
<1> DEFINE x == Top(r, direction)
           side == stack[r][Side(direction)]
<1>1. x \in StackEntries /\ x.id \in Ids
  BY TopIs, StacksAre DEF Entries
<1>2. side \in Seq(StackEntries) /\ side # <<>> /\ x = Last(side)
  BY StacksAre DEF HasTop, Top, Side
<1>3. x \in Range(side)
  <2> HIDE DEF side, x
  <2>1. Len(side) \in Nat /\ Len(side) >= 1 /\ DOMAIN side = 1..Len(side) /\ Last(side) = side[Len(side)]
    BY <1>2, FrontIs
  <2>2. Len(side) \in DOMAIN side /\ x = side[Len(side)]
    BY <1>2, <2>1
  <2> QED
    BY <2>2, RangeIs
<1> HIDE DEF x, side
<1>4. x = Entry(x.id, FALSE)
  BY <1>1 DEF StackEntries, Entry, x
<1> QED
  BY <1>1, <1>3, <1>4 DEF Undivided, side, x

-----------------------------------------------------------------------------
(* What a step leaves of it.                                               *)

\* A step of one request, while no other goes without waiting.
LEMMA CallsKept ==
    ASSUME CallsInv, NEW q \in Requests, request[q].pc \in Synchronous \/ ~Busy,
           \A p \in Requests \ {q} : SameCount(p),
           request'[q].pc \in Synchronous \/ request'[q].calls = 0,
           Len(element') <= MaxPushes,
           history'.outlived = {} => history.outlived = {},
           (CallsInv /\ history.outlived = {} /\ history'.outlived = {}) => Unmarked' /\ Bounded(q)'
    PROVE  CallsInv'
<1>1. \A p \in Requests \ {q} : request[p].pc \notin Synchronous
  BY DEF CallsInv, Counted, Busy
<1>2. \A p \in Requests \ {q} : request'[p].pc \notin Synchronous /\ request'[p].calls = 0
  BY <1>1 DEF CallsInv, Counted, SameCount
<1>3. Counted'
  BY <1>2 DEF Counted
<1>4. \A p \in Requests \ {q} : Bounded(p)'
  BY <1>2 DEF Bounded, Synchronous
<1> QED
  BY <1>3, <1>4 DEF CallsInv

\* A step of nobody.
LEMMA CallsLeft ==
    ASSUME CallsInv, ~Busy, \A p \in Requests : SameCount(p), Len(element') <= MaxPushes,
           history'.outlived = {} => history.outlived = {},
           (CallsInv /\ history.outlived = {} /\ history'.outlived = {}) => Unmarked'
    PROVE  CallsInv'
<1>1. \A p \in Requests : request'[p].pc \notin Synchronous /\ request'[p].calls = 0
  BY DEF CallsInv, Counted, Busy, SameCount
<1>2. Counted' /\ \A p \in Requests : Bounded(p)'
  BY <1>1 DEF Counted, Bounded, Synchronous
<1> QED
  BY <1>2 DEF CallsInv

\* A request whose count begins is far from the end.
BeginningsAreBounded ==
    \A q \in Requests :
        (/\ StackInv /\ Len(element) <= MaxPushes /\ request[q] \in Doings
         /\ request[q].pc = "go" => request[q].calls <= 1 /\ request[q].at \in Resources
         /\ request[q].pc = "next" => request[q].calls = 0)
            => Bounded(q)

LEMMA BeginsBounded == BeginningsAreBounded
<1> SUFFICES ASSUME NEW q \in Requests, StackInv, Len(element) <= MaxPushes, request[q] \in Doings,
                    request[q].pc = "go" => request[q].calls <= 1 /\ request[q].at \in Resources,
                    request[q].pc = "next" => request[q].calls = 0
             PROVE  Bounded(q)
  BY DEF BeginningsAreBounded
<1> DEFINE n == request[q].calls
           u == Ahead(q)
<1>1. n \in Nat /\ MaxPushes \in Nat /\ request[q].direction \in {"undo", "redo"}
  <2>1. n \in 0..MaxCalls /\ MaxCalls \in Nat /\ MaxPushes \in Nat
    BY DoingsAre, UndoRedoAssumption DEF MaxCalls
  <2> HIDE DEF n
  <2>2. n \in Nat
    BY <2>1
  <2> QED
    BY <2>1, <2>2, DoingsAre
<1>2. u \in Nat /\ u <= MaxPushes
  BY UndividedIs DEF Ahead
<1>3. ASSUME request[q].pc = "go", ~AtNext(q) PROVE u >= 1
  <2> DEFINE at == request[q].at
             d == request[q].direction
             x == Top(at, d)
  <2>1. at \in Resources /\ HasTop(at, d) /\ ~IsNext(q, x)
    BY <1>3 DEF AtNext
  <2>2. ~x.alone
    BY <2>1 DEF IsNext, GroupOf
  <2>3. x.id \in Undivided(d)
    BY <1>1, <2>1, <2>2, TopUndivided
  <2>4. Cardinality({x.id}) = 1 /\ {x.id} \subseteq Undivided(d)
    BY <2>3, FS_Singleton
  <2>5. Cardinality({x.id}) <= Cardinality(Undivided(d))
    BY <2>4, UndividedIs, FS_Subset
  <2> QED
    BY <1>2, <2>4, <2>5 DEF Ahead
<1>4. request[q].pc = "go" => n <= 1
  OBVIOUS
<1>5. request[q].pc = "next" => n = 0
  OBVIOUS
<1> HIDE DEF n, u
<1>6. ASSUME request[q].pc = "go" PROVE n + u + (IF AtNext(q) THEN 0 ELSE 1) <= 2 * MaxPushes + 1
  BY <1>1, <1>2, <1>3, <1>4, <1>6
<1>7. ASSUME request[q].pc = "next" PROVE n <= 2 * MaxPushes + 1 /\ n + u <= 2 * MaxPushes
  BY <1>1, <1>2, <1>5, <1>7
<1> QED
  BY <1>6, <1>7 DEF Bounded, n, u

LEMMA BeginsBoundedNext == BeginningsAreBounded'
BY BeginsBounded, PTL

\* A request that does not go on.
LEMMA StopsCalls ==
    ASSUME CallsInv, NEW q \in Requests, request[q].pc \in Synchronous \/ ~Busy,
           \A p \in Requests \ {q} : SameCount(p),
           request'[q].pc \notin Synchronous, request'[q].calls = 0,
           element' = element, history' = history, Unmarked => Unmarked'
    PROVE  CallsInv'
<1>1. Bounded(q)'
  BY DEF Bounded, Synchronous
<1> QED
  BY <1>1, CallsKept DEF CallsInv

LEMMA EndCalls ==
    ASSUME CallsInv, RequestInv, NEW q \in Requests, request[q].pc \in Synchronous \/ ~Busy,
           NEW on, request' = Ends(q) \/ request' = Touch(Ends(q), on),
           element' = element, history' = history, Unmarked => Unmarked'
    PROVE  CallsInv'
<1>1. /\ Ends(q) \in [Requests -> Doings] /\ Ends(q)[q].pc = "done" /\ Ends(q)[q].calls = 0
      /\ \A p \in Requests \ {q} : Ends(q)[p] = request[p]
  BY EndsIs, EndsCounts DEF RequestInv
<1>2. request'[q].pc = "done" /\ request'[q].calls = 0 /\ \A p \in Requests \ {q} : SameCount(p)
  BY <1>1, CountsTo
<1> QED
  BY <1>2, StopsCalls DEF Synchronous

\* A request that waited, or has not begun, starts its count.
LEMMA BeginCalls ==
    ASSUME CallsInv, IInv', NEW q \in Requests, ~Busy, \A p \in Requests \ {q} : SameCount(p),
           request'[q].pc = "go" => request'[q].calls <= 1,
           request'[q].pc # "go" => request'[q].calls = 0,
           element' = element, history' = history, Unmarked => Unmarked'
    PROVE  CallsInv'
<1>1. StackInv' /\ RequestInv'
  <2>1. (IInv <=> StackInv /\ RequestInv /\ TextInv)'
    BY IInvIs, PTL
  <2> QED
    BY <2>1
<1>2. request'[q] \in Doings' /\ Len(element') <= MaxPushes
  BY <1>1 DEF RequestInv, CallsInv
<1>3. request'[q].pc = "go" => request'[q].at \in Resources
  BY <1>1 DEF RequestInv, Stands
<1>4. Bounded(q)'
  BY <1>1, <1>2, <1>3, BeginsBoundedNext DEF BeginningsAreBounded
<1> QED
  BY <1>2, <1>4, CallsKept DEF CallsInv, Synchronous

LEMMA GoBegins ==
    ASSUME CallsInv, RequestInv, IInv', NEW q \in Requests, ~Busy, NEW at \in Resources, NEW sure \in BOOLEAN,
           NEW on, request' = Goes(q, at, sure) \/ request' = Touch(Goes(q, at, sure), on),
           element' = element, history' = history, Unmarked => Unmarked'
    PROVE  CallsInv'
<1> DEFINE d == Goes(q, at, sure)
<1>1. request[q].calls = 0
  BY DEF Busy, CallsInv, Counted
<1>2. /\ d \in [Requests -> Doings] /\ d[q].pc = "go" /\ d[q].calls \in Nat /\ d[q].calls <= 1
      /\ \A p \in Requests \ {q} : d[p] = request[p]
  BY <1>1, GoesIs, GoesCounts DEF RequestInv
<1> HIDE DEF d
<1>3. /\ request'[q].pc = "go" /\ request'[q].calls <= 1
      /\ \A p \in Requests \ {q} : SameCount(p)
  <2>1. request' = d \/ request' = Touch(d, on)
    BY DEF d
  <2> QED
    BY <1>2, <2>1, CountsTo
<1> QED
  BY <1>3, BeginCalls

\* Nothing in the stacks changes.
LEMMA SameStacks ==
    ASSUME StackInv, UNCHANGED stackVars
    PROVE  /\ element' = element
           /\ Unmarked => Unmarked'
           /\ \A direction : Undivided(direction)' = Undivided(direction)
<1>1. element' = element /\ stack' = stack /\ removed' = removed
  BY DEF stackVars
<1>2. Unmarked => Unmarked'
  BY <1>1 DEF Unmarked, Entries, Spans, OfText
<1>3. \A direction : Undivided(direction)' = Undivided(direction)
  BY <1>1 DEF Undivided, Ids
<1> QED
  BY <1>1, <1>2, <1>3

LEMMA GoNowhereCalls ==
    ASSUME CallsInv, StackInv, RequestInv, NEW q \in Requests, GoNowhere(q)
    PROVE  CallsInv'
<1>1. /\ request[q].pc = "go" /\ request' = Ends(q) /\ UNCHANGED stackVars /\ history' = history
  BY DEF GoNowhere
<1> QED
  BY <1>1, SameStacks, EndCalls DEF Synchronous

LEMMA ConfirmCalls ==
    ASSUME CallsInv, StackInv, RequestInv, NEW q \in Requests, Confirm(q)
    PROVE  CallsInv'
<1>1. /\ request[q].pc = "go" /\ request' = Becomes(q, "confirm") /\ UNCHANGED stackVars /\ history' = history
  BY DEF Confirm
<1>2. /\ request'[q].pc = "confirm" /\ request'[q].calls = 0 /\ \A p \in Requests \ {q} : SameCount(p)
  BY <1>1, BecomesIs, BecomesCounts DEF RequestInv, SameCount
<1> QED
  BY <1>1, <1>2, SameStacks, StopsCalls DEF Synchronous

LEMMA ConfirmedCalls ==
    ASSUME CallsInv, StackInv, RequestInv, IInv', NEW q \in Requests, Confirmed(q)
    PROVE  CallsInv'
<1>1. /\ ~Busy /\ request[q].pc = "confirm" /\ UNCHANGED stackVars /\ history' = history
      /\ request' = Goes(q, request[q].at, TRUE) \/ request' = Ends(q)
  BY DEF Confirmed
<1>2. request[q].at \in Resources
  BY <1>1 DEF RequestInv, Stands
<1> QED
  BY <1>1, <1>2, SameStacks, EndCalls, GoBegins

LEMMA AskCalls ==
    ASSUME CallsInv, StackInv, RequestInv, IInv', NEW q \in Requests, NEW r \in Resources,
           NEW direction \in {"undo", "redo"}, Ask(q, r, direction)
    PROVE  CallsInv'
<1> DEFINE d == Goes(q, r, FALSE)
           new == [d[q] EXCEPT !.direction = direction]
<1>1. /\ ~Busy /\ UNCHANGED stackVars /\ history' = history
      /\ request' = [d EXCEPT ![q].direction = direction]
  BY DEF Ask
<1>2. request[q].calls = 0
  BY <1>1 DEF Busy, CallsInv, Counted
<1>3. /\ d \in [Requests -> Doings] /\ d[q].pc = "go" /\ d[q].calls <= 1
      /\ \A p \in Requests \ {q} : d[p] = request[p]
  <2> DEFINE sure == FALSE
  <2>1. d = Goes(q, r, sure) /\ sure \in BOOLEAN /\ request \in [Requests -> Doings]
    BY DEF RequestInv
  <2> HIDE DEF d, sure
  <2>2. /\ d \in [Requests -> Doings] /\ d[q].pc = "go" /\ d[q].calls <= request[q].calls + 1
        /\ \A p \in Requests \ {q} : d[p] = request[p]
    BY <2>1, GoesIs, GoesCounts
  <2> QED
    BY <1>2, <2>2
<1> HIDE DEF d
<1>4. request' = [d EXCEPT ![q] = new]
  BY <1>1
<1>5. new.pc = d[q].pc /\ new.calls = d[q].calls
  BY <1>3 DEF Doings
<1> HIDE DEF new
<1>6. request'[q].pc = "go" /\ request'[q].calls <= 1 /\ \A p \in Requests \ {q} : SameCount(p)
  BY <1>3, <1>4, <1>5 DEF SameCount
<1> QED
  BY <1>1, <1>6, SameStacks, BeginCalls

\* Who goes to what comes first in a group is at the next of it.
LEMMA GroupCalls ==
    ASSUME CallsInv, StackInv, RequestInv, NEW q \in Requests, request[q].pc \in Synchronous,
           NEW group, NEW r \in ClosestInGroup(group, request[q].direction),
           request' = Goes(q, r, request[q].sure), UNCHANGED stackVars, history' = history,
           history.outlived = {} => request[q].calls + Ahead(q) <= 2 * MaxPushes
    PROVE  CallsInv'
<1> DEFINE direction == request[q].direction
           n == request[q].calls
           u == Ahead(q)
<1>1. r \in Resources /\ HasTop(r, direction) /\ GroupOf(Top(r, direction)) = group
  BY DEF ClosestInGroup, InGroup
<1>2. request[q].sure \in BOOLEAN /\ n \in 0..MaxCalls
  BY DoingsAre DEF RequestInv
<1>3. /\ request'[q].pc = "go" /\ request'[q].at = r /\ request'[q].direction = direction
      /\ request'[q].calls \in Nat /\ request'[q].calls <= n + 1
      /\ \A p \in Requests \ {q} : SameCount(p)
  BY <1>1, <1>2, GoesIs, GoesCounts DEF RequestInv, SameCount
<1>4. Ahead(q)' = u /\ u \in Nat
  BY <1>3, SameStacks, UndividedIs DEF Ahead, CallsInv
<1>5. AtNext(q)'
  <2>1. element' = element /\ stack' = stack
    BY DEF stackVars
  <2>2. \A t, d : HasTop(t, d)' = HasTop(t, d) /\ Top(t, d)' = Top(t, d)
    BY <2>1 DEF HasTop, Top
  <2>3. \A x : GroupOf(x)' = GroupOf(x)
    BY <2>1 DEF GroupOf
  <2>4. \A g, d : InGroup(g, d)' = InGroup(g, d)
    BY <2>2, <2>3 DEF InGroup
  <2>5. \A g, d : ClosestInGroup(g, d)' = ClosestInGroup(g, d)
    BY <2>2, <2>4 DEF ClosestInGroup
  <2>6. IsNext(q, Top(r, direction))'
    BY <1>1, <1>3, <2>2, <2>3, <2>5 DEF IsNext
  <2> QED
    BY <1>3, <2>6 DEF AtNext
<1>6. history.outlived = {} => n + u <= 2 * MaxPushes
  OBVIOUS
<1>7. element' = element /\ (Unmarked => Unmarked')
  BY SameStacks
<1>8. n \in Nat /\ MaxPushes \in Nat
  <2>1. MaxCalls \in Nat /\ MaxPushes \in Nat
    BY UndoRedoAssumption DEF MaxCalls
  <2> HIDE DEF n
  <2> QED
    BY <1>2, <2>1
<1> HIDE DEF n, u, direction
<1>9. history.outlived = {} => request'[q].calls + Ahead(q)' <= 2 * MaxPushes + 1
  BY <1>3, <1>4, <1>6, <1>8
<1>10. history.outlived = {} => Bounded(q)'
  <2>1. request'[q].calls + Ahead(q)' + 0 = request'[q].calls + Ahead(q)'
    BY <1>3, <1>4
  <2> QED
    BY <1>3, <1>5, <1>9, <2>1 DEF Bounded
<1> QED
  BY <1>3, <1>7, <1>10, CallsKept DEF CallsInv, Synchronous

LEMMA GoToGroupCalls ==
    ASSUME CallsInv, StackInv, RequestInv, NEW q \in Requests, GoToGroup(q)
    PROVE  CallsInv'
<1> DEFINE direction == request[q].direction
           x == Top(request[q].at, direction)
<1>1. /\ request[q].pc = "go" /\ HasTop(request[q].at, direction) /\ ~IsNext(q, x)
      /\ UNCHANGED stackVars /\ history' = history
      /\ \E r \in ClosestInGroup(GroupOf(x), direction) : request' = Goes(q, r, request[q].sure)
  BY DEF GoToGroup
<1>2. request[q].calls \in Nat /\ Ahead(q) \in Nat /\ MaxPushes \in Nat
  <2>1. request[q].calls \in 0..MaxCalls /\ MaxCalls \in Nat /\ MaxPushes \in Nat
    BY DoingsAre, UndoRedoAssumption DEF RequestInv, MaxCalls
  <2>2. \A n \in 0..MaxCalls : n \in Nat
    BY <2>1
  <2> QED
    BY <2>1, <2>2, UndividedIs DEF Ahead, CallsInv
<1>3. history.outlived = {} => request[q].calls + Ahead(q) <= 2 * MaxPushes
  <2>1. ~AtNext(q)
    BY <1>1 DEF AtNext
  <2>2. history.outlived = {} => request[q].calls + Ahead(q) + 1 <= 2 * MaxPushes + 1
    BY <1>1, <2>1 DEF CallsInv, Bounded
  <2> QED
    BY <1>2, <2>2
<1> HIDE DEF x, direction
<1> QED
  BY <1>1, <1>3, GroupCalls DEF Synchronous, direction

LEMMA GoOnInGroupCalls ==
    ASSUME CallsInv, StackInv, RequestInv, NEW q \in Requests, GoOnInGroup(q)
    PROVE  CallsInv'
<1> DEFINE group == GroupOf(request[q].x)
<1>1. /\ request[q].pc = "next" /\ UNCHANGED stackVars /\ history' = history
      /\ \/ request' = Ends(q)
         \/ /\ group # 0
            /\ \E r \in ClosestInGroup(group, request[q].direction) : request' = Goes(q, r, request[q].sure)
  BY DEF GoOnInGroup
<1>2. CASE request' = Ends(q)
  BY <1>1, <1>2, SameStacks, EndCalls DEF Synchronous
<1>3. CASE /\ group # 0
           /\ \E r \in ClosestInGroup(group, request[q].direction) : request' = Goes(q, r, request[q].sure)
  <2>1. history.outlived = {} => request[q].calls + Ahead(q) <= 2 * MaxPushes
    BY <1>1, <1>3 DEF CallsInv, Bounded
  <2> HIDE DEF group
  <2> QED
    BY <1>1, <1>3, <2>1, GroupCalls DEF Synchronous
<1> QED
  BY <1>1, <1>2, <1>3

-----------------------------------------------------------------------------
(* Splits.                                                                 *)

\* On a side of the resources on, x has become part.
SideParts(x, part, side, on) ==
    /\ \A r \in Resources : \A y \in Range(stack'[r][side]) : y \in Range(stack[r][side]) \/ y = part
    /\ \A r \in on : x \notin Range(stack'[r][side])
    /\ \A r \in on : stack[r][side] # <<>> /\ Last(stack[r][side]) = x => Last(stack'[r][side]) = part

\* Where an element is split, what was its whole is now its part.
LEMMA SplitEntries ==
    ASSUME StackInv, NEW x \in StackEntries, ~x.alone, NEW direction \in {"undo", "redo"},
           NEW on \in SUBSET Resources, Split(x, direction, on)
    PROVE  /\ element' = element /\ removed' = removed
           /\ \A r \in Resources : \A y \in Entries(r)' : y \in Entries(r) \/ y = Entry(x.id, TRUE)
           /\ SideParts(x, Entry(x.id, TRUE), Side(direction), on)
<1> DEFINE part == Entry(x.id, TRUE)
           side == Side(direction)
           other == IF direction = "undo" THEN "future" ELSE "past"
           Parted(s) == [i \in DOMAIN s |-> IF s[i] = x THEN part ELSE s[i]]
<1>1. element' = element /\ removed' = removed
  BY DEF Split
<1>2. \A r \in Resources \ on : stack'[r] = stack[r]
  BY DEF Split
<1>3. \A r \in on : stack'[r] = [stack[r] EXCEPT ![side] = Parted(stack[r][side])]
  BY DEF Split
<1>4. \A r \in Resources : Entries(r) = Range(stack[r][side]) \cup Range(stack[r][other])
  BY DEF Entries, Side
<1>5. \A r \in Resources : Entries(r)' = Range(stack'[r][side]) \cup Range(stack'[r][other])
  BY DEF Entries, Side
<1>6. part # x
  BY DEF Entry, StackEntries
<1> HIDE DEF Parted
<1>7. \A r \in on : stack'[r][side] = Parted(stack[r][side]) /\ stack'[r][other] = stack[r][other]
  <2> SUFFICES ASSUME NEW r \in on
               PROVE  stack'[r][side] = Parted(stack[r][side]) /\ stack'[r][other] = stack[r][other]
    OBVIOUS
  <2> DEFINE s == stack[r]
             t == Parted(s[side])
  <2>1. s \in Stacks /\ stack'[r] = [s EXCEPT ![side] = t]
    BY <1>3, StacksAre
  <2> HIDE DEF s, t
  <2>2. stack'[r][side] = t /\ stack'[r][other] = s[other]
    <3>1. CASE direction = "undo"
      BY <2>1, <3>1 DEF Stacks, Side
    <3>2. CASE direction = "redo"
      BY <2>1, <3>2 DEF Stacks, Side
    <3> QED
      BY <3>1, <3>2
  <2> QED
    BY <2>2 DEF s, t
<1>8. ASSUME NEW s, NEW t, t = Parted(s)
      PROVE  /\ x \notin Range(t) /\ \A y \in Range(t) : y \in Range(s) \/ y = part
             /\ DOMAIN t = DOMAIN s /\ \A i \in DOMAIN s : s[i] = x => t[i] = part
  <2>1. DOMAIN t = DOMAIN s /\ \A i \in DOMAIN s : t[i] = IF s[i] = x THEN part ELSE s[i]
    BY <1>8 DEF Parted
  <2> HIDE DEF part
  <2> QED
    BY <1>6, <2>1, RangeIs
<1> HIDE DEF part, side, other
<1>9. \A r \in on : x \notin Range(stack'[r][side])
  BY <1>7, <1>8
<1>10. \A r \in Resources : \A y \in Range(stack'[r][side]) : y \in Range(stack[r][side]) \/ y = part
  BY <1>2, <1>7, <1>8
<1>11. \A r \in Resources : \A y \in Entries(r)' : y \in Entries(r) \/ y = part
  BY <1>2, <1>4, <1>5, <1>7, <1>10
<1>12. ASSUME NEW r \in on, stack[r][side] # <<>>, Last(stack[r][side]) = x
       PROVE  Last(stack'[r][side]) = part
  <2> DEFINE s == stack[r][side]
             t == stack'[r][side]
             n == Len(s)
  <2>1. s \in Seq(StackEntries) /\ s # <<>> /\ Last(s) = x
    BY <1>12, StacksAre DEF Side, side
  <2>2. t = Parted(s)
    BY <1>7
  <2> HIDE DEF s, t
  <2>3. n \in Nat /\ n >= 1 /\ DOMAIN s = 1..n /\ s[n] = x
    BY <2>1, FrontIs
  <2>4. DOMAIN t = 1..n /\ t[n] = part
    BY <1>8, <2>2, <2>3
  <2>5. Len(t) = n
    <3>1. t = [i \in DOMAIN s |-> t[i]]
      BY <2>2 DEF Parted
    <3> QED
      BY <2>3, <2>4, <3>1
  <2>6. Last(t) = part
    BY <2>3, <2>4, <2>5 DEF Last
  <2> QED
    BY <2>6 DEF t
<1>13. SideParts(x, part, side, on)
  BY <1>9, <1>10, <1>12 DEF SideParts
<1> QED
  BY <1>1, <1>11, <1>13 DEF part, side

LEMMA SplitUnmarked ==
    ASSUME StackInv, Unmarked, NEW x \in StackEntries, ~x.alone, NEW direction \in {"undo", "redo"},
           NEW on \in SUBSET Resources, Split(x, direction, on)
    PROVE  element' = element /\ Unmarked'
<1> DEFINE part == Entry(x.id, TRUE)
<1>1. /\ element' = element /\ removed' = removed
      /\ \A r \in Resources : \A y \in Entries(r)' : y \in Entries(r) \/ y = part
  BY SplitEntries
<1>2. ~Spans(part)
  BY DEF Spans, Entry
<1> HIDE DEF part
<1> QED
  BY <1>1, <1>2, SameUnmarked

\* What SplitAndGo does, and to whom.
LEMMA SplitAndGoIs ==
    ASSUME StackInv, NEW q, NEW x \in StackEntries, NEW ignored, SplitAndGo(q, x, ignored)
    PROVE  \E on \in SUBSET Resources :
             /\ Split(x, request[q].direction, on)
             /\ \/ request' = Touch(Goes(q, request[q].at, TRUE), on) /\ on = element[x.id].on \ ignored
                \/ request' = Touch(Ends(q), on)
<1>1. element[x.id].on \in SUBSET Resources
  BY ElementsAre
<1> DEFINE on == element[x.id].on \ ignored
           here == {r \in on : stack[r].there}
<1>2. on \in SUBSET Resources /\ here \in SUBSET Resources
  BY <1>1
<1>3. \/ Split(x, request[q].direction, on) /\ request' = Touch(Goes(q, request[q].at, TRUE), on)
      \/ \E some \in SUBSET here : Split(x, request[q].direction, some) /\ request' = Touch(Ends(q), some)
  BY DEF SplitAndGo
<1>4. on = element[x.id].on \ ignored
  OBVIOUS
<1> HIDE DEF on, here
<1> QED
  BY <1>2, <1>3, <1>4

\* A request that waited is split.
LEMMA SplitBegins ==
    ASSUME CallsInv, StackInv, RequestInv, IInv', NEW q \in Requests, ~Busy, request[q].at \in Resources,
           NEW x \in StackEntries, ~x.alone, NEW ignored, SplitAndGo(q, x, ignored), history' = history
    PROVE  CallsInv'
<1>1. PICK on \in SUBSET Resources :
        /\ Split(x, request[q].direction, on)
        /\ request' = Touch(Goes(q, request[q].at, TRUE), on) \/ request' = Touch(Ends(q), on)
  BY SplitAndGoIs
<1>2. request[q].direction \in {"undo", "redo"}
  BY DoingsAre DEF RequestInv
<1>3. element' = element /\ (Unmarked => Unmarked')
  BY <1>1, <1>2, SplitUnmarked, SplitEntries
<1> DEFINE sure == TRUE
<1>4. sure \in BOOLEAN
  OBVIOUS
<1>5. request' = Touch(Goes(q, request[q].at, sure), on) \/ request' = Touch(Ends(q), on)
  BY <1>1
<1> HIDE DEF sure
<1> QED
  BY <1>3, <1>4, <1>5, GoBegins, EndCalls

LEMMA DropCalls ==
    ASSUME CallsInv, StackInv, RequestInv, NEW q \in Requests, request[q].pc \in Synchronous \/ ~Busy,
           NEW on \in SUBSET Resources, RemoveElements(on), request' = Touch(Ends(q), on), history' = history
    PROVE  CallsInv'
<1>1. element' = element /\ (Unmarked => Unmarked')
  BY RemovedUnmarked DEF RemoveElements
<1> QED
  BY <1>1, EndCalls

LEMMA TryToSplitBegins ==
    ASSUME CallsInv, StackInv, RequestInv, IInv', NEW q \in Requests, ~Busy, request[q].at \in Resources,
           NEW x \in StackEntries, ~x.alone, NEW ignored, TryToSplit(q, x, ignored), history' = history
    PROVE  CallsInv'
<1>1. CASE OfText(x)
  BY <1>1, SplitBegins DEF TryToSplit
<1>2. CASE ~OfText(x)
  <2>1. element[x.id].on \in SUBSET Resources
    BY ElementsAre
  <2> QED
    BY <1>2, <2>1, DropCalls DEF TryToSplit
<1> QED
  BY <1>1, <1>2

\* A request that goes without waiting is split where its element still is.
LEMMA SplitGoes ==
    ASSUME CallsInv, StackInv, RequestInv, NEW q \in Requests, request[q].pc = "go",
           NEW x, HasTop(request[q].at, request[q].direction), x = Top(request[q].at, request[q].direction),
           IsNext(q, x), OfText(x), Spans(x), SplitAndGo(q, x, GoneFrom(x)), history' = history
    PROVE  CallsInv'
<1> PICK at, direction : at = request[q].at /\ direction = request[q].direction
  OBVIOUS
<1> DEFINE part == Entry(x.id, TRUE)
           side == Side(direction)
           n == request[q].calls
           u == Ahead(q)
<1>1. direction \in {"undo", "redo"} /\ at \in Resources /\ n \in 0..MaxCalls
  BY DoingsAre DEF RequestInv, Stands
<1>2. x \in StackEntries /\ x \in Entries(at) /\ ~x.alone /\ x.id \in Ids
  BY <1>1, TopIs, StacksAre DEF Spans
<1>3. x.id \in Undivided(direction) /\ x = Entry(x.id, FALSE)
  BY <1>1, <1>2, TopUndivided
<1>4. PICK on \in SUBSET Resources :
        /\ Split(x, direction, on)
        /\ \/ request' = Touch(Goes(q, at, TRUE), on) /\ on = element[x.id].on \ GoneFrom(x)
           \/ request' = Touch(Ends(q), on)
  BY <1>2, SplitAndGoIs
<1>5. /\ element' = element /\ removed' = removed
      /\ \A r \in Resources : \A y \in Range(stack'[r][side]) : y \in Range(stack[r][side]) \/ y = part
      /\ \A r \in on : x \notin Range(stack'[r][side])
      /\ \A r \in on : stack[r][side] # <<>> /\ Last(stack[r][side]) = x => Last(stack'[r][side]) = part
  <2>1. Split(x, direction, on) /\ ~x.alone /\ x \in StackEntries /\ direction \in {"undo", "redo"}
    BY <1>1, <1>2, <1>4
  <2>2. element' = element /\ removed' = removed /\ SideParts(x, part, side, on)
    BY ONLY StackInv, <2>1, SplitEntries
  <2> HIDE DEF part, side
  <2> QED
    BY ONLY <2>2 DEF SideParts
<1>6. Unmarked => Unmarked'
  BY <1>1, <1>2, <1>4, SplitUnmarked
<1>7. CASE request' = Touch(Ends(q), on)
  BY <1>5, <1>6, <1>7, EndCalls DEF Synchronous
<1>8. CASE request' = Touch(Goes(q, at, TRUE), on) /\ on = element[x.id].on \ GoneFrom(x)
  <2> DEFINE sure == TRUE
             d == Goes(q, at, sure)
  <2>1. sure \in BOOLEAN /\ request' = Touch(d, on)
    BY <1>8
  <2> HIDE DEF sure
  <2>2. /\ d \in [Requests -> Doings] /\ d[q].pc = "go" /\ d[q].at = at /\ d[q].direction = direction
        /\ d[q].calls \in Nat /\ d[q].calls <= n + 1 /\ \A p \in Requests \ {q} : d[p] = request[p]
    BY <1>1, <2>1, GoesIs, GoesCounts DEF RequestInv
  <2> HIDE DEF d
  <2>3. /\ request'[q].pc = "go" /\ request'[q].at = at /\ request'[q].direction = direction
        /\ request'[q].calls \in Nat /\ request'[q].calls <= n + 1
        /\ \A p \in Requests \ {q} : SameCount(p)
    BY <2>1, <2>2, CountsTo
  <2>4. ASSUME Unmarked, NEW r \in Resources, x \in Entries(r) PROVE r \in on
    <3>1. r \in element[x.id].on
      BY <2>4 DEF StackInv, EntriesInPlace
    <3>2. r \notin GoneFrom(x)
      BY <2>4 DEF Unmarked, GoneFrom
    <3> QED
      BY <1>8, <3>1, <3>2
  <2>5. ASSUME Unmarked PROVE AtNext(q)'
    <3>1. Top(at, direction)' = part
      BY <1>1, <1>2, <1>5, <2>4, <2>5 DEF HasTop, Top
    <3>2. GroupOf(part)' = 0
      BY DEF GroupOf, Entry
    <3>3. GroupOf(Top(at, direction))' = 0
      BY <3>1, <3>2
    <3> QED
      BY <2>3, <3>3 DEF AtNext, IsNext
  <2>6. ASSUME Unmarked PROVE Ahead(q)' + 1 <= u /\ Ahead(q)' \in Nat /\ u \in Nat
    <3> DEFINE S == Undivided(direction)
               T == Undivided(direction)'
    <3>1. T \subseteq S
      <4> SUFFICES ASSUME NEW id \in T PROVE id \in S
        OBVIOUS
      <4>1. PICK r \in Resources : Entry(id, FALSE) \in Range(stack'[r][side])
        BY DEF Undivided
      <4>2. Entry(id, FALSE) # part
        BY DEF Entry
      <4>3. Entry(id, FALSE) \in Range(stack[r][side]) /\ id \in Ids
        BY <1>5, <4>1, <4>2 DEF Undivided, Ids
      <4> QED
        BY <4>3 DEF Undivided
    <3>2. x.id \notin T
      <4> SUFFICES ASSUME NEW r \in Resources, x \in Range(stack'[r][side]) PROVE FALSE
        BY <1>3 DEF Undivided
      <4>1. x # part
        BY <1>2 DEF Entry, StackEntries
      <4>2. x \in Range(stack[r][side])
        BY <1>5, <4>1
      <4>3. x \in Entries(r)
        BY <1>1, <4>2 DEF Entries, Side
      <4> QED
        BY <1>5, <2>4, <2>6, <4>3
    <3>3. IsFiniteSet(S) /\ x.id \in S
      BY <1>3, UndividedIs DEF CallsInv
    <3> HIDE DEF S, T
    <3>4. Cardinality(T) + 1 <= Cardinality(S) /\ Cardinality(T) \in Nat /\ Cardinality(S) \in Nat
      BY <3>1, <3>2, <3>3, OneLess
    <3>5. Ahead(q)' = Cardinality(T)
      BY <2>3 DEF Ahead, T
    <3>6. u = Cardinality(S)
      BY DEF Ahead, S
    <3> QED
      BY <3>4, <3>5, <3>6
  <2>7. n \in Nat /\ MaxPushes \in Nat
    <3>1. MaxCalls \in Nat /\ MaxPushes \in Nat
      BY UndoRedoAssumption DEF MaxCalls
    <3> HIDE DEF n
    <3> QED
      BY <1>1, <3>1
  <2>8. history.outlived = {} => Unmarked /\ n + u + 0 <= 2 * MaxPushes + 1
    <3>1. AtNext(q)
      BY DEF AtNext
    <3> QED
      BY <3>1 DEF CallsInv, Bounded
  <2> HIDE DEF n, u
  <2>9. history.outlived = {} => request'[q].calls + Ahead(q)' + 0 <= 2 * MaxPushes + 1
    BY <2>3, <2>6, <2>7, <2>8
  <2>10. history.outlived = {} => Bounded(q)'
    BY <2>3, <2>5, <2>8, <2>9 DEF Bounded
  <2> QED
    BY <1>5, <1>6, <2>3, <2>10, CallsKept DEF CallsInv, Synchronous
<1> QED
  BY <1>4, <1>7, <1>8

-----------------------------------------------------------------------------
(* Elements that are invoked.                                              *)

\* On a side of r, which is no larger, x is no longer.
SideLacks(x, side, r) ==
    \A y \in Range(stack'[r][side]) : y \in Range(stack[r][side]) /\ y.id # x.id

\* What is moved is in the stack as before.
LEMMA MovedEntries ==
    ASSUME StackInv, NEW x \in StackEntries, NEW on \in SUBSET Resources, NEW lock, NEW direction \in {"undo", "redo"},
           direction = "undo" => Backward(x, on, lock), direction = "redo" => Forward(x, on, lock),
           NEW r \in on
    PROVE  (\A y \in Entries(r)' : y \in Entries(r)) /\ SideLacks(x, Side(direction), r)
<1> DEFINE p == stack[r].past
           f == stack[r].future
<1>1. /\ p \in Seq(StackEntries) /\ f \in Seq(StackEntries) /\ Once(p) /\ Once(f)
      /\ \A y \in Range(p), z \in Range(f) : y.id # z.id
      /\ Entries(r) = Range(p) \cup Range(f) /\ Entries(r)' = Range(stack'[r].past) \cup Range(stack'[r].future)
  BY StacksAre DEF StackInv, EntriesInPlace, Entries
<1>2. CASE direction = "undo"
  <2>1. /\ p # <<>> /\ x = Last(p) /\ stack'[r].past = Front(p) /\ stack'[r].future = Append(f, x)
    BY <1>2 DEF Backward
  <2> HIDE DEF p, f
  <2>2. /\ Range(Front(p)) \subseteq Range(p) /\ x \in Range(p)
        /\ \A y \in Range(Front(p)) : y.id # x.id
    BY <1>1, <2>1, FrontKeeps
  <2>3. Range(Append(f, x)) = Range(f) \cup {x}
    <3>1. \A y \in Range(f) : y.id # x.id
      BY <1>1, <2>2
    <3> QED
      BY <1>1, <3>1, AppendKeeps
  <2>4. \A y \in Entries(r)' : y \in Entries(r)
    BY <1>1, <2>1, <2>2, <2>3
  <2>5. \A y \in Range(stack'[r].past) : y \in Range(p) /\ y.id # x.id
    BY <2>1, <2>2
  <2>6. SideLacks(x, "past", r)
    BY <2>5 DEF SideLacks, p
  <2> QED
    BY <1>2, <2>4, <2>6 DEF Side
<1>3. CASE direction = "redo"
  <2>1. /\ f # <<>> /\ x = Last(f) /\ stack'[r].future = Front(f) /\ stack'[r].past = Append(p, x)
    BY <1>3 DEF Forward
  <2> HIDE DEF p, f
  <2>2. /\ Range(Front(f)) \subseteq Range(f) /\ x \in Range(f)
        /\ \A y \in Range(Front(f)) : y.id # x.id
    BY <1>1, <2>1, FrontKeeps
  <2>3. Range(Append(p, x)) = Range(p) \cup {x}
    <3>1. \A y \in Range(p) : y.id # x.id
      BY <1>1, <2>2
    <3> QED
      BY <1>1, <3>1, AppendKeeps
  <2>4. \A y \in Entries(r)' : y \in Entries(r)
    BY <1>1, <2>1, <2>2, <2>3
  <2>5. \A y \in Range(stack'[r].future) : y \in Range(f) /\ y.id # x.id
    BY <2>1, <2>2
  <2>6. SideLacks(x, "future", r)
    BY <2>5 DEF SideLacks, f
  <2> QED
    BY <1>3, <2>4, <2>6 DEF Side
<1> QED
  BY <1>2, <1>3

\* A request whose element is invoked ends, waits for it, or goes on with its count.
InvokedBy(q, x, on, direction) ==
    /\ request'[q].pc = "next" /\ request'[q].x = x
    /\ request'[q].direction = direction /\ request'[q].calls = request[q].calls
    /\ \A r \in Resources \ on : stack'[r] = stack[r]
    /\ \A r \in on : \A y \in Range(stack'[r][Side(direction)]) :
           y \in Range(stack[r][Side(direction)]) /\ y.id # x.id

LEMMA InvokeCounts ==
    ASSUME StackInv, RequestInv, NEW q \in Requests, NEW x \in StackEntries,
           request[q].at \in element[x.id].on, OfText(x) \/ ~x.alone,
           AtTop(x, request[q].direction, On(x, request[q].at)), Invoke(q, x)
    PROVE  /\ element' = element
           /\ Unmarked => Unmarked'
           /\ \A p \in Requests \ {q} : SameCount(p)
           /\ \/ request'[q].pc \notin Synchronous /\ request'[q].calls = 0
              \/ InvokedBy(q, x, On(x, request[q].at), request[q].direction)
<1> PICK at, direction, on : at = request[q].at /\ direction = request[q].direction /\ on = On(x, at)
  OBVIOUS
<1> DEFINE next == [request EXCEPT ![q].pc = "next", ![q].x = x, ![q].touched = FALSE]
           runs == [request EXCEPT ![q].pc = "running", ![q].x = x, ![q].touched = FALSE, ![q].calls = 0]
<1>1. /\ on \in SUBSET Resources /\ Everywhere(x, on) /\ AtTop(x, direction, on)
  BY WholeIs DEF Everywhere
<1>2. direction \in {"undo", "redo"} /\ q \in 0..MaxRequests /\ 0 \in 0..MaxRequests
  BY DoingsAre, UndoRedoAssumption DEF RequestInv, Requests
<1>3. \/ /\ OfText(x) /\ Move(x, direction, on, 0) /\ request' = Touch(next, on) /\ undone' = undone
      \/ /\ RemoveElements(on) /\ request' = Touch(Ends(q), on)
      \/ /\ ~OfText(x) /\ Move(x, direction, on, q) /\ request' = Touch(runs, on)
         /\ undone' = IF direction = "undo" THEN undone \cup {x.id} ELSE undone \ {x.id}
  BY DEF Invoke, Fails
<1>4. ASSUME NEW lock \in 0..MaxRequests, Move(x, direction, on, lock),
             OfText(x) => undone' = undone,
             ~OfText(x) => undone' = IF direction = "undo" THEN undone \cup {x.id} ELSE undone \ {x.id}
      PROVE  /\ element' = element
             /\ Unmarked => Unmarked'
             /\ \A r \in Resources \ on : stack'[r] = stack[r]
             /\ \A r \in on : \A y \in Range(stack'[r][Side(direction)]) :
                    y \in Range(stack[r][Side(direction)]) /\ y.id # x.id
  <2>1. /\ element' = element /\ \A r \in Resources \ on : stack'[r] = stack[r]
        /\ direction = "undo" => Backward(x, on, lock)
        /\ direction = "redo" => Forward(x, on, lock)
    BY <1>1, <1>2, <1>4, MoveIs
  <2>2. /\ \A r \in on : \A y \in Entries(r)' : y \in Entries(r)
        /\ \A r \in on : \A y \in Range(stack'[r][Side(direction)]) :
               y \in Range(stack[r][Side(direction)]) /\ y.id # x.id
    <3>1. on \in SUBSET Resources /\ direction \in {"undo", "redo"}
      BY <1>1, <1>2
    <3>2. direction = "undo" => Backward(x, on, lock)
      BY <2>1
    <3>3. direction = "redo" => Forward(x, on, lock)
      BY <2>1
    <3>4. ASSUME NEW r \in on
          PROVE  (\A y \in Entries(r)' : y \in Entries(r)) /\ SideLacks(x, Side(direction), r)
      BY ONLY StackInv, x \in StackEntries, r \in on, <3>1, <3>2, <3>3, MovedEntries
    <3> QED
      BY <3>4 DEF SideLacks
  <2>3. \A r \in Resources : \A y \in Entries(r)' : y \in Entries(r)
    BY <2>1, <2>2 DEF Entries
  <2>4. removed' = removed
    BY <1>4 DEF Move
  <2> QED
    BY <2>1, <2>2, <2>3, <2>4, SameUnmarked
<1>5. CASE OfText(x) /\ Move(x, direction, on, 0) /\ request' = Touch(next, on) /\ undone' = undone
  <2> DEFINE n == request[q].calls
             e == request[q]
             new == [e EXCEPT !.pc = "next", !.x = x, !.touched = FALSE]
  <2>1. e \in Doings /\ next = [request EXCEPT ![q] = new]
    BY DEF RequestInv
  <2> HIDE DEF e, next
  <2>2. /\ new \in Doings /\ new.pc = "next" /\ new.x = x /\ new.direction = e.direction /\ new.calls = e.calls
    BY <2>1 DEF Doings, Synchronous
  <2> HIDE DEF new
  <2>3. /\ next \in [Requests -> Doings] /\ next[q] = new /\ \A p \in Requests \ {q} : next[p] = request[p]
    BY <2>1, <2>2 DEF RequestInv
  <2>4. /\ request'[q].pc = "next" /\ request'[q].x = x
        /\ request'[q].direction = direction /\ request'[q].calls = request[q].calls
        /\ \A p \in Requests \ {q} : SameCount(p)
    BY <1>5, <2>2, <2>3, CountsTo DEF e
  <2>5. /\ element' = element
        /\ Unmarked => Unmarked'
        /\ \A r \in Resources \ on : stack'[r] = stack[r]
        /\ \A r \in on : \A y \in Range(stack'[r][Side(direction)]) :
               y \in Range(stack[r][Side(direction)]) /\ y.id # x.id
    BY <1>2, <1>4, <1>5
  <2>6. InvokedBy(q, x, on, direction)
    BY <2>4, <2>5 DEF InvokedBy
  <2> QED
    BY <2>4, <2>5, <2>6
<1>6. CASE RemoveElements(on) /\ request' = Touch(Ends(q), on)
  <2>1. /\ Ends(q) \in [Requests -> Doings] /\ Ends(q)[q].pc = "done" /\ Ends(q)[q].calls = 0
        /\ \A p \in Requests \ {q} : Ends(q)[p] = request[p]
    BY EndsIs, EndsCounts DEF RequestInv
  <2>2. request'[q].pc = "done" /\ request'[q].calls = 0 /\ \A p \in Requests \ {q} : SameCount(p)
    BY <1>6, <2>1, CountsTo
  <2>3. element' = element /\ (Unmarked => Unmarked')
    BY <1>1, <1>6, RemovedUnmarked DEF RemoveElements
  <2> QED
    BY <2>2, <2>3 DEF Synchronous
<1>7. CASE /\ ~OfText(x) /\ Move(x, direction, on, q) /\ request' = Touch(runs, on)
           /\ undone' = IF direction = "undo" THEN undone \cup {x.id} ELSE undone \ {x.id}
  <2> DEFINE e == request[q]
             new == [e EXCEPT !.pc = "running", !.x = x, !.touched = FALSE, !.calls = 0]
  <2>0. 0 \in 0..MaxCalls
    BY UndoRedoAssumption DEF MaxCalls
  <2>1. e \in Doings /\ runs = [request EXCEPT ![q] = new]
    BY DEF RequestInv
  <2> HIDE DEF e, runs
  <2>2. new \in Doings /\ new.pc = "running" /\ new.calls = 0
    BY <2>0, <2>1 DEF Doings, Synchronous
  <2> HIDE DEF new
  <2>3. /\ runs \in [Requests -> Doings] /\ runs[q] = new /\ \A p \in Requests \ {q} : runs[p] = request[p]
    BY <2>1, <2>2 DEF RequestInv
  <2>4. request'[q].pc = "running" /\ request'[q].calls = 0 /\ \A p \in Requests \ {q} : SameCount(p)
    BY <1>7, <2>2, <2>3, CountsTo
  <2>5. element' = element /\ (Unmarked => Unmarked')
    BY <1>2, <1>4, <1>7
  <2> QED
    BY <2>4, <2>5 DEF Synchronous
<1> QED
  BY <1>3, <1>5, <1>6, <1>7

\* What is left undivided when an element of one stack is invoked.
LEMMA InvokedIsLess ==
    ASSUME StackInv, Len(element) <= MaxPushes, element' = element,
           NEW direction \in {"undo", "redo"}, NEW at \in Resources, HasTop(at, direction),
           NEW x, x = Top(at, direction), ~x.alone, ~Spans(x), NEW side, side = Side(direction),
           \A r \in Resources \ {at} : stack'[r] = stack[r],
           \A y \in Range(stack'[at][side]) : y \in Range(stack[at][side]) /\ y.id # x.id
    PROVE  /\ Cardinality(Undivided(direction)') + 1 <= Cardinality(Undivided(direction))
           /\ Cardinality(Undivided(direction)') \in Nat /\ Cardinality(Undivided(direction)) \in Nat
<1> DEFINE S == Undivided(direction)
           T == Undivided(direction)'
<1>1. x \in StackEntries /\ x \in Entries(at) /\ x.id \in Undivided(direction) /\ x = Entry(x.id, FALSE)
  BY TopIs, TopUndivided
<1>2. ASSUME NEW r \in Resources, NEW y \in Range(stack'[r][side])
      PROVE  y \in Range(stack[r][side]) /\ (r = at => y.id # x.id)
  BY <1>2
<1>3. T \subseteq S
  <2> SUFFICES ASSUME NEW id \in T PROVE id \in S
    OBVIOUS
  <2>1. PICK r \in Resources : Entry(id, FALSE) \in Range(stack'[r][side])
    BY DEF Undivided
  <2>2. Entry(id, FALSE) \in Range(stack[r][side]) /\ id \in Ids
    BY <1>2, <2>1 DEF Undivided, Ids
  <2> QED
    BY <2>2 DEF Undivided
<1>4. x.id \notin T
  <2> SUFFICES ASSUME NEW r \in Resources, x \in Range(stack'[r][side]) PROVE FALSE
    BY <1>1 DEF Undivided
  <2>1. x \in Range(stack[r][side]) /\ r # at
    BY <1>2
  <2>2. x \in Entries(r)
    BY <2>1 DEF Entries, Side
  <2>3. r \in element[x.id].on /\ at \in element[x.id].on
    BY <1>1, <2>2 DEF StackInv, EntriesInPlace
  <2>4. IsFiniteSet(element[x.id].on) /\ ~(Cardinality(element[x.id].on) > 1)
    <3>1. element[x.id].on \in SUBSET Resources
      BY <1>1, ElementsAre
    <3> QED
      BY <3>1, UndoRedoAssumption, FS_Subset DEF Spans
  <2> QED
    BY <2>1, <2>3, <2>4, OnlyOne
<1>5. IsFiniteSet(S) /\ x.id \in S
  BY <1>1, UndividedIs
<1> HIDE DEF S, T
<1>6. Cardinality(T) + 1 <= Cardinality(S) /\ Cardinality(T) \in Nat /\ Cardinality(S) \in Nat
  BY <1>3, <1>4, <1>5, OneLess
<1> QED
  BY <1>6 DEF S, T

\* An element of one resource is invoked by a request that goes.
LEMMA InvokeGoes ==
    ASSUME CallsInv, StackInv, RequestInv, NEW q \in Requests, request[q].pc = "go",
           NEW x, HasTop(request[q].at, request[q].direction), x = Top(request[q].at, request[q].direction),
           IsNext(q, x), ~Spans(x), Invoke(q, x), history' = history
    PROVE  CallsInv'
<1> PICK at, direction, side :
      at = request[q].at /\ direction = request[q].direction /\ side = Side(direction)
  OBVIOUS
<1> DEFINE n == request[q].calls
           u == Ahead(q)
<1>1. direction \in {"undo", "redo"} /\ at \in Resources /\ n \in 0..MaxCalls
  BY DoingsAre DEF RequestInv, Stands
<1>2. x \in StackEntries /\ x \in Entries(at) /\ at \in element[x.id].on /\ (OfText(x) \/ ~x.alone)
  BY <1>1, TopIs DEF StackInv, EntriesInPlace
<1>3. On(x, at) = {at} /\ AtTop(x, direction, {at})
  BY DEF On, AtTop
<1>4. /\ element' = element
      /\ Unmarked => Unmarked'
      /\ \A p \in Requests \ {q} : SameCount(p)
      /\ \/ request'[q].pc \notin Synchronous /\ request'[q].calls = 0
         \/ InvokedBy(q, x, {at}, direction)
  BY <1>2, <1>3, InvokeCounts
<1>5. CASE request'[q].pc \notin Synchronous /\ request'[q].calls = 0
  BY <1>4, <1>5, StopsCalls DEF Synchronous
<1>6. CASE InvokedBy(q, x, {at}, direction)
  <2>1. /\ request'[q].pc = "next" /\ request'[q].x = x
        /\ request'[q].direction = direction /\ request'[q].calls = n
        /\ \A r \in Resources \ {at} : stack'[r] = stack[r]
        /\ \A y \in Range(stack'[at][side]) : y \in Range(stack[at][side]) /\ y.id # x.id
    BY <1>6 DEF InvokedBy
  <2>2. n \in Nat /\ MaxPushes \in Nat
    <3>1. MaxCalls \in Nat /\ MaxPushes \in Nat
      BY UndoRedoAssumption DEF MaxCalls
    <3> HIDE DEF n
    <3> QED
      BY <1>1, <3>1
  <2>3. u \in Nat
    BY UndividedIs DEF Ahead, CallsInv
  <2>4. history.outlived = {} => Unmarked /\ n + u + 0 <= 2 * MaxPushes + 1
    <3>1. AtNext(q)
      BY DEF AtNext
    <3> QED
      BY <3>1 DEF CallsInv, Bounded
  <2>5. GroupOf(x)' # 0 => ~x.alone
    BY DEF GroupOf
  <2>6. ~x.alone => Ahead(q)' + 1 <= u /\ Ahead(q)' \in Nat
    <3> SUFFICES ASSUME ~x.alone PROVE Ahead(q)' + 1 <= u /\ Ahead(q)' \in Nat
      OBVIOUS
    <3>1. /\ Cardinality(Undivided(direction)') + 1 <= Cardinality(Undivided(direction))
          /\ Cardinality(Undivided(direction)') \in Nat
      BY <1>1, <1>4, <2>1, InvokedIsLess DEF CallsInv
    <3>2. Ahead(q)' = Cardinality(Undivided(direction)') /\ u = Cardinality(Undivided(direction))
      BY <2>1 DEF Ahead
    <3> QED
      BY <3>1, <3>2
  <2> HIDE DEF n, u
  <2>7. history.outlived = {} => n <= 2 * MaxPushes + 1
    BY <2>2, <2>3, <2>4
  <2>8. history.outlived = {} /\ GroupOf(x)' # 0 => n + Ahead(q)' <= 2 * MaxPushes
    BY <2>2, <2>3, <2>4, <2>5, <2>6
  <2>9. GroupOf(request[q].x)' = GroupOf(x)'
    BY <2>1
  <2>10. history.outlived = {} => Bounded(q)'
    BY <2>1, <2>7, <2>8, <2>9 DEF Bounded
  <2> QED
    BY <1>4, <2>1, <2>4, <2>10, CallsKept DEF CallsInv, Synchronous
<1> QED
  BY <1>4, <1>5, <1>6

LEMMA GoInResourceCalls ==
    ASSUME CallsInv, StackInv, RequestInv, NEW q \in Requests, GoInResource(q)
    PROVE  CallsInv'
<1> DEFINE at == request[q].at
           x == Top(at, request[q].direction)
<1>1. /\ request[q].pc = "go" /\ HasTop(at, request[q].direction) /\ IsNext(q, x) /\ ~Spans(x)
      /\ \/ Flush(at) /\ request' = Touch(Ends(q), {at}) /\ undone' = undone
         \/ request' = Ends(q) /\ UNCHANGED stackVars
         \/ Invoke(q, x)
      /\ history' = history
  BY DEF GoInResource
<1>2. at \in Resources
  BY <1>1 DEF RequestInv, Stands
<1>3. CASE Flush(at) /\ request' = Touch(Ends(q), {at}) /\ undone' = undone
  <2>1. /\ element' = element
        /\ \A r \in Resources \ {at} : stack'[r] = stack[r]
        /\ stack'[at].past = <<>> /\ stack'[at].future = <<>>
    BY <1>2, <1>3, FlushIs
  <2>2. removed' = removed
    BY <1>3 DEF Flush
  <2>3. \A r \in Resources : \A y \in Entries(r)' : y \in Entries(r)
    BY <2>1, EmptyKeeps DEF Entries
  <2>4. Unmarked => Unmarked'
    BY <2>1, <2>2, <2>3, SameUnmarked
  <2> QED
    BY <1>1, <1>3, <2>1, <2>4, EndCalls DEF Synchronous
<1>4. CASE request' = Ends(q) /\ UNCHANGED stackVars
  BY <1>1, <1>4, SameStacks, EndCalls DEF Synchronous
<1>5. CASE Invoke(q, x)
  <2> HIDE DEF x
  <2>1. x = Top(request[q].at, request[q].direction) /\ HasTop(request[q].at, request[q].direction)
    BY <1>1 DEF x
  <2> HIDE DEF at
  <2> QED
    BY <1>1, <1>5, <2>1, InvokeGoes
<1> QED
  BY <1>1, <1>3, <1>4, <1>5

LEMMA GoInWorkspaceCalls ==
    ASSUME CallsInv, StackInv, RequestInv, NEW q \in Requests, GoInWorkspace(q)
    PROVE  CallsInv'
<1> DEFINE at == request[q].at
           x == Top(at, request[q].direction)
           asks == request[q].direction = "undo" /\ OfText(x) /\ GroupOf(x) = 0
           pc == IF asks THEN "choose" ELSE "prepare"
           waits == [Becomes(q, pc) EXCEPT ![q].x = x, ![q].touched = FALSE]
<1>1. /\ request[q].pc = "go" /\ HasTop(at, request[q].direction) /\ IsNext(q, x) /\ Spans(x)
      /\ history' = history
      /\ \/ request' = waits /\ UNCHANGED stackVars
         \/ OfText(x) /\ SplitAndGo(q, x, IgnoredBy(x, FALSE))
         \/ /\ RemoveElements(element[x.id].on)
            /\ request' = Touch(Ends(q), element[x.id].on)
  BY DEF GoInWorkspace, TryToSplit
<1>2. at \in Resources /\ request[q].direction \in {"undo", "redo"}
  BY <1>1, DoingsAre DEF RequestInv, Stands
<1>3. x \in StackEntries /\ element[x.id].on \in SUBSET Resources
  BY <1>1, <1>2, TopIs, ElementsAre
<1>4. IgnoredBy(x, FALSE) = GoneFrom(x)
  BY DEF IgnoredBy
<1>5. pc \in {"choose", "prepare"}
  OBVIOUS
<1>6. x = Top(request[q].at, request[q].direction) /\ HasTop(request[q].at, request[q].direction)
  BY <1>1
<1> HIDE DEF x, pc
<1>7. CASE request' = waits /\ UNCHANGED stackVars
  <2> DEFINE b == Becomes(q, pc)
             d == b[q]
             new == [d EXCEPT !.x = x, !.touched = FALSE]
  <2>1. /\ b \in [Requests -> Doings] /\ d.pc = pc /\ d.calls = 0
        /\ \A p \in Requests \ {q} : b[p] = request[p]
    BY <1>5, BecomesIs, BecomesCounts DEF RequestInv
  <2>2. request' = [b EXCEPT ![q] = new] /\ d \in Doings
    BY <1>7, <2>1
  <2> HIDE DEF d
  <2>3. new.pc = pc /\ new.calls = 0
    BY <2>1, <2>2 DEF Doings
  <2> HIDE DEF b, new
  <2>4. /\ request'[q].pc \in {"choose", "prepare"} /\ request'[q].calls = 0
        /\ \A p \in Requests \ {q} : SameCount(p)
    BY <1>5, <2>1, <2>2, <2>3 DEF SameCount
  <2> QED
    BY <1>1, <1>7, <2>4, SameStacks, StopsCalls DEF Synchronous
<1>8. CASE OfText(x) /\ SplitAndGo(q, x, IgnoredBy(x, FALSE))
  <2>1. SplitAndGo(q, x, GoneFrom(x))
    BY <1>4, <1>8
  <2> HIDE DEF at
  <2> QED
    BY <1>1, <1>6, <1>8, <2>1, SplitGoes
<1>9. CASE RemoveElements(element[x.id].on) /\ request' = Touch(Ends(q), element[x.id].on)
  BY <1>1, <1>3, <1>9, DropCalls DEF Synchronous
<1> QED
  BY <1>1, <1>7, <1>8, <1>9

-----------------------------------------------------------------------------
(* Requests that waited.                                                   *)

LEMMA ChosenCalls ==
    ASSUME CallsInv, StackInv, RequestInv, IInv', NEW q \in Requests, Chosen(q)
    PROVE  CallsInv'
<1> DEFINE x == request[q].x
           b == Becomes(q, "prepare")
<1>1. /\ ~Busy /\ request[q].pc = "choose" /\ history' = history
      /\ \/ request' = Ends(q) /\ UNCHANGED stackVars
         \/ SplitAndGo(q, x, {})
         \/ request' = [b EXCEPT ![q].sure = TRUE] /\ UNCHANGED stackVars
         \/ TryToSplit(q, x, IgnoredBy(x, FALSE))
  BY DEF Chosen
<1>2. x \in StackEntries /\ ~x.alone /\ request[q].at \in Resources
  BY <1>1, WaitsIs DEF Spans
<1>3. CASE request' = Ends(q) /\ UNCHANGED stackVars
  BY <1>1, <1>3, SameStacks, EndCalls
<1>4. CASE SplitAndGo(q, x, {})
  BY <1>1, <1>2, <1>4, SplitBegins
<1>5. CASE request' = [b EXCEPT ![q].sure = TRUE] /\ UNCHANGED stackVars
  <2> DEFINE d == b[q]
             new == [d EXCEPT !.sure = TRUE]
  <2>1. /\ b \in [Requests -> Doings] /\ d.pc = "prepare" /\ d.calls = 0
        /\ \A p \in Requests \ {q} : b[p] = request[p]
    BY BecomesIs, BecomesCounts DEF RequestInv
  <2>2. request' = [b EXCEPT ![q] = new] /\ d \in Doings
    BY <1>5, <2>1
  <2> HIDE DEF d
  <2>3. new.pc = "prepare" /\ new.calls = 0
    BY <2>1, <2>2 DEF Doings
  <2> HIDE DEF b, new
  <2>4. request'[q].pc = "prepare" /\ request'[q].calls = 0 /\ \A p \in Requests \ {q} : SameCount(p)
    BY <2>1, <2>2, <2>3 DEF SameCount
  <2> QED
    BY <1>1, <1>5, <2>4, SameStacks, StopsCalls DEF Synchronous
<1>6. CASE TryToSplit(q, x, IgnoredBy(x, FALSE))
  BY <1>1, <1>2, <1>6, TryToSplitBegins
<1> QED
  BY <1>1, <1>3, <1>4, <1>5, <1>6

LEMMA PreparedCalls ==
    ASSUME CallsInv, StackInv, RequestInv, IInv', NEW q \in Requests, Prepared(q)
    PROVE  CallsInv'
<1> DEFINE x == request[q].x
           at == request[q].at
           direction == request[q].direction
<1>1. /\ ~Busy /\ request[q].pc = "prepare" /\ history' = history
      /\ \/ Verified(q, x, TRUE) /\ Invoke(q, x)
         \/ TryToSplit(q, x, IgnoredBy(x, TRUE))
  BY DEF Prepared
<1>2. x \in StackEntries /\ Spans(x) /\ ~x.alone /\ at \in Resources
  BY <1>1, WaitsIs DEF Spans
<1>3. CASE Verified(q, x, TRUE) /\ Invoke(q, x)
  <2>1. On(x, at) = element[x.id].on
    BY <1>2 DEF On
  <2>2. AtTop(x, direction, On(x, at)) /\ at \in element[x.id].on
    BY <1>1, <1>3, <2>1 DEF AtTop, Verified, IsClosest, RequestInv, Stands
  <2> HIDE DEF x
  <2>3. /\ element' = element /\ (Unmarked => Unmarked')
        /\ \A p \in Requests \ {q} : SameCount(p)
        /\ \/ request'[q].pc \notin Synchronous /\ request'[q].calls = 0
           \/ InvokedBy(q, x, On(x, at), direction)
    BY <1>2, <1>3, <2>2, InvokeCounts
  <2>4. request[q].calls = 0
    BY <1>1 DEF CallsInv, Counted, Busy
  <2>5. request'[q].pc # "go" /\ request'[q].calls = 0
    BY <2>3, <2>4 DEF InvokedBy, Synchronous
  <2> QED
    BY <1>1, <2>3, <2>5, BeginCalls
<1>4. CASE TryToSplit(q, x, IgnoredBy(x, TRUE))
  BY <1>1, <1>2, <1>4, TryToSplitBegins
<1> QED
  BY <1>1, <1>3, <1>4

LEMMA FilesEndCalls ==
    ASSUME CallsInv, StackInv, RequestInv, IInv', NEW q \in Requests, FilesEnd(q)
    PROVE  CallsInv'
<1> DEFINE on == On(request[q].x, request[q].at)
<1>1. /\ ~Busy /\ request[q].pc = "running" /\ history' = history
      /\ \/ stack' = Released(q) /\ request' = Becomes(q, "next") /\ UNCHANGED <<element, removed, invalid>>
         \/ RemoveElements(on) /\ request' = Touch(Ends(q), on)
  BY DEF FilesEnd, Fails
<1>2. request[q].at \in Resources /\ request[q].x.id \in Ids
  BY <1>1 DEF RequestInv, Stands
<1>3. CASE stack' = Released(q) /\ request' = Becomes(q, "next") /\ UNCHANGED <<element, removed, invalid>>
  <2>1. \A r \in Resources : Entries(r)' = Entries(r)
    <3> SUFFICES ASSUME NEW r \in Resources
                 PROVE  stack'[r].past = stack[r].past /\ stack'[r].future = stack[r].future
      BY DEF Entries
    <3> DEFINE s == stack[r]
    <3>1. s \in Stacks /\ stack'[r] = IF s.locked = q THEN [s EXCEPT !.locked = 0] ELSE s
      BY <1>3, StacksAre DEF Released
    <3> HIDE DEF s
    <3>2. stack'[r].past = s.past /\ stack'[r].future = s.future
      BY <3>1 DEF Stacks
    <3> QED
      BY <3>2 DEF s
  <2>2. Unmarked => Unmarked'
    BY <1>3, <2>1, SameUnmarked
  <2>3. request'[q].pc = "next" /\ request'[q].calls = 0 /\ \A p \in Requests \ {q} : SameCount(p)
    BY <1>3, BecomesIs, BecomesCounts DEF RequestInv, SameCount
  <2> QED
    BY <1>1, <1>3, <2>2, <2>3, BeginCalls
<1>4. CASE RemoveElements(on) /\ request' = Touch(Ends(q), on)
  <2>1. on \in SUBSET Resources
    <3>1. request[q].x \in StackEntries
      BY <1>2, ElementIs DEF RequestInv
    <3>2. element[request[q].x.id].on \in SUBSET Resources
      BY <3>1, ElementsAre
    <3> QED
      BY <1>2, <3>2 DEF On
  <2> HIDE DEF on
  <2> QED
    BY <1>1, <1>4, <2>1, DropCalls
<1> QED
  BY <1>1, <1>3, <1>4

-----------------------------------------------------------------------------
(* Edits, and the models that come and go.                                 *)

LEMMA EditCalls ==
    ASSUME CallsInv, StackInv, RequestInv, TextInv, NEW kind \in Kinds, NEW on \in SUBSET Resources,
           NEW group \in Groups, Edit(kind, on, group)
    PROVE  CallsInv'
<1> DEFINE found == [r \in Resources |-> IF kind # "files" /\ r \in on THEN text[r] ELSE <<>>]
           new == [kind |-> kind, on |-> on, group |-> group, found |-> found]
<1>1. /\ ~Busy /\ Len(element) < MaxPushes
      /\ Push(new) /\ request' = Touch(request, on) /\ undone' = undone /\ history' = history
  BY DEF Edit
<1>2. new \in Elements
  <2>1. <<>> \in Texts
    BY DEF Texts
  <2>2. found \in [Resources -> Texts]
    BY <2>1 DEF TextInv
  <2> HIDE DEF found
  <2> QED
    BY <2>2 DEF Elements
<1> HIDE DEF new
<1>3. Unmarked => Unmarked'
  BY <1>1, <1>2, PushedUnmarked
<1>4. Len(element') <= MaxPushes
  <2> DEFINE n == Len(element)
  <2>1. element' = Append(element, new) /\ element \in Seq(Elements)
    BY <1>1, <1>2, PushIs DEF StackInv
  <2>2. n \in Nat /\ Len(element') = n + 1
    BY <1>2, <2>1, AppendIs
  <2>3. n < MaxPushes /\ MaxPushes \in Nat
    BY <1>1, UndoRedoAssumption
  <2> HIDE DEF n
  <2> QED
    BY <2>2, <2>3
<1>5. \A p \in Requests : SameCount(p)
  BY <1>1, TouchCounts DEF RequestInv
<1> QED
  BY <1>1, <1>3, <1>4, <1>5, CallsLeft DEF CallsInv

LEMMA SetValueCalls ==
    ASSUME CallsInv, StackInv, RequestInv, TextInv, NEW r \in Resources, SetValue(r)
    PROVE  CallsInv'
<1>1. /\ ~Busy /\ RemoveElements({r}) /\ request' = Touch(request, {r})
      /\ history' = [history EXCEPT !.changes = @ + 1]
  BY DEF SetValue
<1>2. element' = element /\ (Unmarked => Unmarked')
  BY <1>1, RemovedUnmarked DEF RemoveElements
<1>3. \A p \in Requests : SameCount(p)
  BY <1>1, TouchCounts DEF RequestInv
<1>4. history'.outlived = history.outlived
  BY <1>1, ChangesIs
<1> QED
  BY <1>1, <1>2, <1>3, <1>4, CallsLeft DEF CallsInv

LEMMA ChangeCalls ==
    ASSUME CallsInv, StackInv, TextInv, NEW r \in Resources, Change(r)
    PROVE  CallsInv'
<1>1. /\ ~Busy /\ UNCHANGED stackVars /\ request' = request
      /\ history' = [history EXCEPT !.changes = @ + 1]
  BY DEF Change
<1>2. history'.outlived = history.outlived
  BY <1>1, ChangesIs
<1>3. \A p \in Requests : SameCount(p)
  BY <1>1 DEF SameCount
<1> QED
  BY <1>1, <1>2, <1>3, SameStacks, CallsLeft DEF CallsInv

LEMMA RestoredCalls ==
    ASSUME CallsInv, StackInv, RequestInv, TextInv, ~Busy, NEW r \in Resources, NEW snapshot,
           RestoreInitial(r, snapshot), undone' = undone, invalid' \subseteq StackEntries \X Resources
    PROVE  CallsInv'
<1>1. /\ element' = element
      /\ request' = request \/ request' = Touch(request, {r})
  BY DEF RestoreInitial, Restore
<1>2. /\ history'.outlived = {} => history.outlived = {}
      /\ history'.outlived = {} => \A y \in Entries(r)' : ~OfText(y)'
  BY OutlivedIs DEF TextInv
<1>3. \A p \in Requests : SameCount(p)
  BY <1>1, TouchCounts DEF RequestInv, SameCount
<1>4. history'.outlived = {} /\ Unmarked => Unmarked'
  BY <1>2, RestoredUnmarked
<1> QED
  BY <1>1, <1>2, <1>3, <1>4, CallsLeft DEF CallsInv

\* Only what is known of a model changes.
LEMMA StacksLeftCalls ==
    ASSUME CallsInv, StackInv, ~Busy, UNCHANGED <<element, stack, removed, request>>,
           history'.outlived = history.outlived
    PROVE  CallsInv'
<1>1. Unmarked => Unmarked'
  BY SameUnmarked DEF Entries
<1> QED
  BY <1>1, CallsLeft DEF CallsInv, SameCount

LEMMA CloseCalls ==
    ASSUME CallsInv, StackInv, RequestInv, TextInv, NEW r \in Resources, Close(r)
    PROVE  CallsInv'
<1>1. /\ ~Busy /\ undone' = undone
      /\ \/ /\ history' = [history EXCEPT !.closes = @ + 1]
            /\ UNCHANGED <<element, stack, removed, request>>
         \/ RestoreInitial(r, initial[r]) /\ invalid' = invalid
  BY DEF Close
<1>2. CASE /\ history' = [history EXCEPT !.closes = @ + 1]
           /\ UNCHANGED <<element, stack, removed, request>>
  <2>1. history'.outlived = history.outlived
    <3> DEFINE closes == history.closes + 1
    <3>1. history' = [history EXCEPT !.closes = closes]
      BY <1>2
    <3> HIDE DEF closes
    <3> QED
      BY <3>1 DEF TextInv
  <2> QED
    BY <1>1, <1>2, <2>1, StacksLeftCalls
<1>3. CASE RestoreInitial(r, initial[r]) /\ invalid' = invalid
  BY <1>1, <1>3, RestoredCalls DEF StackInv
<1> QED
  BY <1>1, <1>2, <1>3

LEMMA EvictCalls ==
    ASSUME CallsInv, StackInv, RequestInv, TextInv, NEW r \in Resources, Evict(r)
    PROVE  CallsInv'
<1>1. ~Busy /\ RestoreInitial(r, disposed[r].initial) /\ UNCHANGED <<invalid, undone>>
  BY DEF Evict
<1> QED
  BY <1>1, RestoredCalls DEF StackInv

LEMMA OpenCalls ==
    ASSUME CallsInv, StackInv, RequestInv, TextInv, NEW r \in Resources, Open(r)
    PROVE  CallsInv'
<1>1. /\ ~Busy /\ undone' = undone
      /\ \/ UNCHANGED <<element, stack, removed, request, history>>
         \/ RestoreInitial(r, disposed[r].initial) /\ invalid' = invalid
  BY DEF Open, stackVars
<1>2. CASE UNCHANGED <<element, stack, removed, request, history>>
  BY <1>1, <1>2, StacksLeftCalls
<1>3. CASE RestoreInitial(r, disposed[r].initial) /\ invalid' = invalid
  BY <1>1, <1>3, RestoredCalls DEF StackInv
<1> QED
  BY <1>1, <1>2, <1>3

-----------------------------------------------------------------------------

LEMMA InitCalls ==
    ASSUME Init
    PROVE  CallsInv
<1>1. /\ element = <<>> /\ stack = [r \in Resources |-> NoStack] /\ request = [q \in Requests |-> Idle]
  BY DEF Init, InitStacks
<1>2. Len(element) <= MaxPushes
  <2>1. Len(element) = 0 /\ MaxPushes \in Nat
    BY <1>1, UndoRedoAssumption
  <2> QED
    BY <2>1
<1>3. Unmarked
  <2>1. \A r \in Resources : Entries(r) = {}
    BY <1>1, NoStackIs DEF Entries
  <2> QED
    BY <2>1 DEF Unmarked
<1>4. \A q \in Requests : request[q].pc = "none" /\ request[q].calls = 0
  BY <1>1 DEF Idle
<1>5. Counted /\ \A q \in Requests : Bounded(q)
  BY <1>4 DEF Counted, Bounded, Synchronous
<1> QED
  BY <1>2, <1>3, <1>5 DEF CallsInv

LEMMA StepKeepsCalls ==
    ASSUME IInv, CallsInv, [Next]_vars
    PROVE  CallsInv'
<1>1. StackInv /\ RequestInv /\ TextInv
  BY IInvIs
<1>2. IInv'
  BY StepKeepsInv
<1>3. CASE UNCHANGED vars
  <2>1. /\ element' = element /\ stack' = stack /\ removed' = removed /\ request' = request /\ history' = history
    BY <1>3 DEF vars, stackVars
  <2>2. Unmarked' = Unmarked /\ Counted' = Counted
    BY <2>1 DEF Unmarked, Entries, Spans, OfText, Counted
  <2>3. \A t, d : HasTop(t, d)' = HasTop(t, d) /\ Top(t, d)' = Top(t, d)
    BY <2>1 DEF HasTop, Top
  <2>4. \A x : GroupOf(x)' = GroupOf(x)
    BY <2>1 DEF GroupOf
  <2>5. \A g, d : ClosestInGroup(g, d)' = ClosestInGroup(g, d)
    BY <2>3, <2>4 DEF ClosestInGroup, InGroup
  <2>6. \A q \in Requests : AtNext(q)' = AtNext(q)
    BY <2>1, <2>3, <2>4, <2>5 DEF AtNext, IsNext
  <2>7. \A q \in Requests : Ahead(q)' = Ahead(q)
    BY <2>1 DEF Ahead, Undivided, Ids
  <2>8. \A q \in Requests : Bounded(q)' = Bounded(q)
    BY <2>1, <2>4, <2>6, <2>7 DEF Bounded
  <2> QED
    BY <2>1, <2>2, <2>8 DEF CallsInv
<1>4. CASE Runs
  <2>1. PICK q \in Requests :
          \/ GoNowhere(q) \/ GoToGroup(q) \/ Confirm(q) \/ GoInResource(q) \/ GoInWorkspace(q)
          \/ Prepared(q) \/ FilesEnd(q) \/ GoOnInGroup(q)
    BY <1>4 DEF Runs
  <2> QED
    BY <1>1, <1>2, <2>1, GoNowhereCalls, GoToGroupCalls, ConfirmCalls, GoInResourceCalls, GoInWorkspaceCalls,
       PreparedCalls, FilesEndCalls, GoOnInGroupCalls
<1>5. CASE \E q \in Requests : Confirmed(q) \/ Chosen(q)
  BY <1>1, <1>2, <1>5, ConfirmedCalls, ChosenCalls
<1>6. CASE \E q \in Requests, r \in Resources, direction \in {"undo", "redo"} : Ask(q, r, direction)
  BY <1>1, <1>2, <1>6, AskCalls
<1>7. CASE \E kind \in Kinds, on \in SUBSET Resources, group \in Groups : Edit(kind, on, group)
  BY <1>1, <1>7, EditCalls
<1>8. CASE \E r \in Resources : SetValue(r) \/ Close(r) \/ Evict(r) \/ Change(r) \/ Open(r)
  BY <1>1, <1>8, SetValueCalls, CloseCalls, EvictCalls, ChangeCalls, OpenCalls
<1> QED
  BY <1>3, <1>4, <1>5, <1>6, <1>7, <1>8 DEF Next

\* _undo and _redo, which call each other by way of splits and of groups, never get
\* deeper than the elements that were pushed allow: each call but the one that goes to
\* a group leaves an element less to be undone or made again whole.
THEOREM CallsEnd == Spec => []RecursionEnds
<1>1. Init => IInv /\ CallsInv
  BY InitIsInv, InitCalls
<1>2. IInv /\ CallsInv /\ [Next]_vars => (IInv /\ CallsInv)'
  BY StepKeepsInv, StepKeepsCalls
<1>3. IInv /\ CallsInv => RecursionEnds
  <2> SUFFICES ASSUME IInv, CallsInv, history.outlived = {}, NEW q \in Requests
               PROVE  request[q].calls < MaxCalls
    BY DEF RecursionEnds
  <2> DEFINE n == request[q].calls
  <2>1. StackInv /\ RequestInv
    BY IInvIs
  <2>2. n \in Nat /\ MaxPushes \in Nat
    <3>1. n \in 0..MaxCalls /\ MaxCalls \in Nat /\ MaxPushes \in Nat
      BY <2>1, DoingsAre, UndoRedoAssumption DEF RequestInv, MaxCalls
    <3> HIDE DEF n
    <3> QED
      BY <3>1
  <2>3. Ahead(q) \in Nat
    BY <2>1, UndividedIs DEF Ahead, CallsInv
  <2>4. request[q].pc = "go" => n + Ahead(q) + (IF AtNext(q) THEN 0 ELSE 1) <= 2 * MaxPushes + 1
    BY DEF CallsInv, Bounded
  <2>5. request[q].pc = "next" => n <= 2 * MaxPushes + 1
    BY DEF CallsInv, Bounded
  <2>6. request[q].pc \notin {"go", "next"} => n = 0
    BY DEF CallsInv, Counted, Synchronous
  <2> HIDE DEF n
  <2>7. n <= 2 * MaxPushes + 1
    BY <2>2, <2>3, <2>4, <2>5, <2>6
  <2> QED
    BY <2>2, <2>7 DEF MaxCalls, n
<1> QED
  BY <1>1, <1>2, <1>3, PTL DEF Spec

=================================================================================
