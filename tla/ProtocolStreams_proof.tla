------------------------- MODULE ProtocolStreams_proof -------------------------
(***************************************************************************)
(* For any number of sockets, messages and reconnections, as long as no    *)
(* working socket has lost a message: streams have no gaps, nothing is     *)
(* stranded between two sockets, and a Disconnect cuts nothing off.        *)
(***************************************************************************)
EXTENDS PersistentProtocol_proof

-----------------------------------------------------------------------------
(* Lemmas about streams.                                                     *)

LEMMA MessageIn ==
    ASSUME NEW s \in Seq(Message), NEW i \in DOMAIN s
    PROVE  s[i] \in Message /\ s[i].id \in Nat
<1>1. s[i] \in Message
  BY LenProperties, ElementOfSeq
<1> QED
  BY <1>1 DEF Message

LEMMA ConcatIs ==
    ASSUME NEW s \in Seq(Message), NEW t \in Seq(Message)
    PROVE  /\ s \o t \in Seq(Message) /\ Len(s) \in Nat /\ Len(t) \in Nat
           /\ Len(s \o t) = Len(s) + Len(t)
           /\ DOMAIN s = 1..Len(s) /\ DOMAIN t = 1..Len(t)
           /\ DOMAIN (s \o t) = 1..(Len(s) + Len(t))
           /\ \A i \in 1..Len(s) : (s \o t)[i] = s[i]
           /\ \A i \in 1..Len(t) : (s \o t)[Len(s) + i] = t[i]
<1>1. Len(s) \in Nat /\ Len(t) \in Nat /\ DOMAIN s = 1..Len(s) /\ DOMAIN t = 1..Len(t)
  BY LenProperties
<1>2. /\ s \o t \in Seq(Message) /\ Len(s \o t) = Len(s) + Len(t)
      /\ \A i \in 1..Len(s) + Len(t) :
            (s \o t)[i] = IF i <= Len(s) THEN s[i] ELSE t[i - Len(s)]
  BY ConcatProperties
<1>3. DOMAIN (s \o t) = 1..Len(s \o t)
  BY <1>2, LenProperties
<1> DEFINE u == s \o t
<1> HIDE DEF u
<1>4. \A i \in 1..Len(s) : u[i] = s[i]
  BY <1>1, <1>2 DEF u
<1>5. \A i \in 1..Len(t) : u[Len(s) + i] = t[i]
  <2> TAKE i \in 1..Len(t)
  <2>1. Len(s) + i \in 1..Len(s) + Len(t) /\ ~(Len(s) + i <= Len(s)) /\ Len(s) + i - Len(s) = i
    BY <1>1
  <2> QED
    BY <1>2, <2>1 DEF u
<1> QED
  BY <1>1, <1>2, <1>3, <1>4, <1>5 DEF u

LEMMA ConcatTwice ==
    ASSUME NEW s \in Seq(Message), NEW t \in Seq(Message), NEW u \in Seq(Message)
    PROVE  (s \o t) \o u = s \o (t \o u) /\ s \o <<>> = s /\ <<>> \o s = s
BY ConcatAssociative, ConcatEmptySeq

\* A position in a concatenation is one in either part.
LEMMA InConcat ==
    ASSUME NEW s \in Seq(Message), NEW t \in Seq(Message), NEW i \in DOMAIN (s \o t)
    PROVE  \/ i \in DOMAIN s /\ (s \o t)[i] = s[i]
           \/ i - Len(s) \in DOMAIN t /\ (s \o t)[i] = t[i - Len(s)]
<1>1. CASE i <= Len(s)
  BY <1>1, ConcatIs
<1>2. CASE i > Len(s)
  <2>1. i - Len(s) \in 1..Len(t) /\ Len(s) + (i - Len(s)) = i
    BY <1>2, ConcatIs
  <2> QED
    BY <2>1, ConcatIs
<1> QED
  BY <1>1, <1>2, ConcatIs

LEMMA HasConcat ==
    ASSUME NEW s \in Seq(Message), NEW t \in Seq(Message), NEW type
    PROVE  HasType(s \o t, type) <=> HasType(s, type) \/ HasType(t, type)
<1>1. HasType(s \o t, type) => HasType(s, type) \/ HasType(t, type)
  BY InConcat DEF HasType
<1>2. HasType(s, type) => HasType(s \o t, type)
  <2> SUFFICES ASSUME NEW i \in DOMAIN s, s[i].type = type
               PROVE  \E j \in DOMAIN (s \o t) : (s \o t)[j].type = type
    BY DEF HasType
  <2> QED
    BY ConcatIs
<1>3. HasType(t, type) => HasType(s \o t, type)
  <2> SUFFICES ASSUME NEW i \in DOMAIN t, t[i].type = type
               PROVE  \E j \in DOMAIN (s \o t) : (s \o t)[j].type = type
    BY DEF HasType
  <2>1. Len(s) + i \in DOMAIN (s \o t) /\ (s \o t)[Len(s) + i] = t[i]
    BY ConcatIs
  <2> QED
    BY <2>1
<1> QED
  BY <1>1, <1>2, <1>3

LEMMA CarriesConcat ==
    ASSUME NEW s \in Seq(Message), NEW t \in Seq(Message), NEW id
    PROVE  Carries(s \o t, id) <=> Carries(s, id) \/ Carries(t, id)
<1>1. Carries(s \o t, id) => Carries(s, id) \/ Carries(t, id)
  BY InConcat DEF Carries
<1>2. Carries(s, id) => Carries(s \o t, id)
  <2> SUFFICES ASSUME NEW i \in DOMAIN s, s[i].type = "Regular", s[i].id = id
               PROVE  \E j \in DOMAIN (s \o t) : (s \o t)[j].type = "Regular" /\ (s \o t)[j].id = id
    BY DEF Carries
  <2> QED
    BY ConcatIs
<1>3. Carries(t, id) => Carries(s \o t, id)
  <2> SUFFICES ASSUME NEW i \in DOMAIN t, t[i].type = "Regular", t[i].id = id
               PROVE  \E j \in DOMAIN (s \o t) : (s \o t)[j].type = "Regular" /\ (s \o t)[j].id = id
    BY DEF Carries
  <2>1. Len(s) + i \in DOMAIN (s \o t) /\ (s \o t)[Len(s) + i] = t[i]
    BY ConcatIs
  <2> QED
    BY <2>1
<1> QED
  BY <1>1, <1>2, <1>3

LEMMA BringsConcat ==
    ASSUME NEW s \in Seq(Message), NEW t \in Seq(Message), NEW e \in Nat, NEW last \in Nat,
           Brings(s, e, last) \/ Brings(t, e, last)
    PROVE  Brings(s \o t, e, last)
BY CarriesConcat DEF Brings

\* Streams without data.
LEMMA QuietIsUnbroken ==
    ASSUME NEW s, NEW e, ~HasType(s, "Regular")
    PROVE  Unbroken(s, e)
BY DEF HasType, Unbroken

LEMMA EmptyStream ==
    /\ <<>> \in Seq(Message)
    /\ \A type : ~HasType(<<>>, type)
    /\ \A e : Unbroken(<<>>, e)
BY DEF HasType, Unbroken

LEMMA OneMessage ==
    ASSUME NEW m \in Message
    PROVE  /\ <<m>> \in Seq(Message)
           /\ \A type : HasType(<<m>>, type) <=> m.type = type
           /\ \A id : Carries(<<m>>, id) <=> m.type = "Regular" /\ m.id = id
BY DEF HasType, Carries

\* Who has received more has no more gaps.
LEMMA UnbrokenLater ==
    ASSUME NEW s \in Seq(Message), NEW e \in Nat, NEW f \in Nat, e <= f, Unbroken(s, e)
    PROVE  Unbroken(s, f)
<1> SUFFICES ASSUME NEW i \in DOMAIN s, s[i].type = "Regular", s[i].id > f + 1
             PROVE  \E j \in 1..i - 1 : s[j].type = "Regular" /\ s[j].id = s[i].id - 1
  BY DEF Unbroken
<1>1. s[i].id \in Nat
  BY MessageIn
<1>2. s[i].id > e + 1
  BY <1>1
<1> QED
  BY <1>2 DEF Unbroken

LEMMA BringsLater ==
    ASSUME NEW s \in Seq(Message), NEW e \in Nat, NEW f \in Nat, NEW last \in Nat,
           e <= f, Brings(s, e, last)
    PROVE  Brings(s, f, last)
BY DEF Brings

\* Going on without data.
LEMMA UnbrokenPlain ==
    ASSUME NEW s \in Seq(Message), NEW t \in Seq(Message), NEW e \in Nat, Unbroken(s, e),
           ~HasType(t, "Regular")
    PROVE  Unbroken(s \o t, e)
<1> DEFINE u == s \o t
<1> SUFFICES ASSUME NEW i \in DOMAIN u, u[i].type = "Regular", u[i].id > e + 1
             PROVE  \E j \in 1..i - 1 : u[j].type = "Regular" /\ u[j].id = u[i].id - 1
  BY DEF Unbroken
<1>1. i \in DOMAIN s /\ u[i] = s[i]
  BY InConcat DEF HasType
<1>2. PICK j \in 1..i - 1 : s[j].type = "Regular" /\ s[j].id = s[i].id - 1
  BY <1>1 DEF Unbroken
<1>3. j \in 1..Len(s) /\ u[j] = s[j]
  BY <1>1, ConcatIs
<1> QED
  BY <1>1, <1>2, <1>3

\* Going on with the messages of a queue that starts at what is received or before.
LEMMA UnbrokenQueue ==
    ASSUME NEW s \in Seq(Message), NEW queue \in Seq(Message), NEW e \in Nat, NEW base \in Nat,
           Unbroken(s, e), base <= e,
           \A i \in 1..Len(queue) : queue[i].type = "Regular" /\ queue[i].id = base + i
    PROVE  Unbroken(s \o queue, e)
<1> DEFINE u == s \o queue
<1> SUFFICES ASSUME NEW i \in DOMAIN u, u[i].type = "Regular", u[i].id > e + 1
             PROVE  \E j \in 1..i - 1 : u[j].type = "Regular" /\ u[j].id = u[i].id - 1
  BY DEF Unbroken
<1>1. CASE i \in DOMAIN s /\ u[i] = s[i]
  <2>1. PICK j \in 1..i - 1 : s[j].type = "Regular" /\ s[j].id = s[i].id - 1
    BY <1>1 DEF Unbroken
  <2>2. j \in 1..Len(s) /\ u[j] = s[j]
    BY <1>1, ConcatIs
  <2> QED
    BY <1>1, <2>1, <2>2
<1>2. CASE i - Len(s) \in DOMAIN queue /\ u[i] = queue[i - Len(s)]
  <2> DEFINE k == i - Len(s)
  <2>1. k \in 1..Len(queue) /\ Len(s) \in Nat /\ Len(queue) \in Nat /\ i = Len(s) + k
    BY <1>2, ConcatIs
  <2>2. u[i].id = base + k
    BY <1>2, <2>1
  <2> HIDE DEF k
  <2>3. k - 1 \in 1..Len(queue)
    BY <2>1, <2>2
  <2>4. u[Len(s) + (k - 1)] = queue[k - 1] /\ queue[k - 1].id = base + (k - 1)
        /\ queue[k - 1].type = "Regular"
    BY <2>3, ConcatIs
  <2> HIDE DEF u
  <2>5. Len(s) + (k - 1) \in 1..i - 1 /\ base + (k - 1) = u[i].id - 1
    BY <2>1, <2>2, <2>3
  <2> QED
    BY <2>4, <2>5
<1> QED
  BY <1>1, <1>2, InConcat

\* Going on with the message after the last that was brought or received.
LEMMA UnbrokenNext ==
    ASSUME NEW s \in Seq(Message), NEW m \in Message, NEW e \in Nat, NEW last \in Nat,
           Unbroken(s, e), Brings(s, e, last), m.type = "Regular", m.id = last + 1
    PROVE  Unbroken(s \o <<m>>, e) /\ (e <= last => Brings(s \o <<m>>, e, last + 1))
<1> DEFINE u == s \o <<m>>
<1>0. <<m>> \in Seq(Message) /\ Len(<<m>>) = 1 /\ <<m>>[1] = m /\ DOMAIN <<m>> = {1}
  OBVIOUS
<1>1. /\ DOMAIN s = 1..Len(s) /\ Len(s) \in Nat /\ DOMAIN u = 1..(Len(s) + 1)
      /\ u[Len(s) + 1] = m /\ \A j \in 1..Len(s) : u[j] = s[j]
  BY <1>0, ConcatIs
<1> HIDE DEF u
<1>2. ASSUME NEW i \in DOMAIN u, u[i].type = "Regular", u[i].id > e + 1
      PROVE  \E j \in 1..i - 1 : u[j].type = "Regular" /\ u[j].id = u[i].id - 1
  <2>1. CASE i \in 1..Len(s)
    <3>1. PICK j \in 1..i - 1 : s[j].type = "Regular" /\ s[j].id = s[i].id - 1
      BY <1>1, <1>2, <2>1 DEF Unbroken
    <3>2. j \in 1..Len(s)
      BY <1>1, <2>1
    <3> QED
      BY <1>1, <2>1, <3>1, <3>2
  <2>2. CASE i = Len(s) + 1
    <3>1. u[i].id = last + 1 /\ last \in e + 1..last
      BY <1>1, <1>2, <2>2
    <3>2. PICK j \in DOMAIN s : s[j].type = "Regular" /\ s[j].id = last
      BY <3>1 DEF Brings, Carries
    <3>3. j \in 1..i - 1 /\ u[j] = s[j] /\ u[i].id - 1 = last
      BY <1>1, <2>2, <3>1, <3>2
    <3> QED
      BY <3>2, <3>3
  <2> QED
    BY <1>1, <2>1, <2>2
<1>3. Unbroken(u, e)
  BY <1>2 DEF Unbroken
<1>4. Brings(u, e, last + 1)
  <2> SUFFICES ASSUME NEW id \in e + 1..last + 1 PROVE Carries(u, id)
    BY DEF Brings
  <2>1. CASE id = last + 1
    BY <1>1, <2>1 DEF Carries
  <2>2. CASE id # last + 1
    <3>1. Carries(s, id)
      BY <2>2 DEF Brings
    <3> QED
      BY <1>0, <3>1, CarriesConcat DEF u
  <2> QED
    BY <2>1, <2>2
<1> QED
  BY <1>3, <1>4 DEF u

\* A queue brings what it holds.
LEMMA QueueBrings ==
    ASSUME NEW queue \in Seq(Message), NEW e \in Nat, NEW base \in Nat, NEW last \in Nat, base <= e,
           Len(queue) = last - base,
           \A i \in 1..Len(queue) : queue[i].type = "Regular" /\ queue[i].id = base + i
    PROVE  Brings(queue, e, last)
<1> SUFFICES ASSUME NEW id \in e + 1..last PROVE Carries(queue, id)
  BY DEF Brings
<1>1. DOMAIN queue = 1..Len(queue)
  BY LenProperties
<1>2. id - base \in 1..Len(queue) /\ base + (id - base) = id
  OBVIOUS
<1> QED
  BY <1>1, <1>2 DEF Carries

LEMMA TailIs ==
    ASSUME NEW s \in Seq(Message), s # <<>>
    PROVE  /\ Head(s) \in Message /\ Tail(s) \in Seq(Message) /\ Head(s) = s[1]
           /\ Len(s) \in Nat /\ Len(s) >= 1 /\ DOMAIN s = 1..Len(s)
           /\ DOMAIN Tail(s) = 1..(Len(s) - 1) /\ Len(Tail(s)) = Len(s) - 1
           /\ \A i \in 1..(Len(s) - 1) : Tail(s)[i] = s[i + 1]
<1>1. Len(s) \in Nat /\ DOMAIN s = 1..Len(s) /\ Len(s) # 0
  BY LenProperties, EmptySeq
<1>2. /\ Head(s) \in Message /\ Head(s) = s[1]
      /\ Tail(s) \in Seq(Message) /\ Len(Tail(s)) = Len(s) - 1
      /\ \A i \in 1..Len(Tail(s)) : Tail(s)[i] = s[i + 1]
  BY HeadTailProperties
<1>3. DOMAIN Tail(s) = 1..Len(Tail(s))
  BY <1>2, LenProperties
<1> QED
  BY <1>1, <1>2, <1>3

LEMMA TailHas ==
    ASSUME NEW s \in Seq(Message), s # <<>>, NEW type
    PROVE  HasType(s, type) <=> Head(s).type = type \/ HasType(Tail(s), type)
<1> DEFINE t == Tail(s)
<1>1. /\ DOMAIN s = 1..Len(s) /\ Len(s) \in Nat /\ Len(s) >= 1 /\ Head(s) = s[1]
      /\ DOMAIN t = 1..(Len(s) - 1) /\ \A i \in 1..(Len(s) - 1) : t[i] = s[i + 1]
  BY TailIs
<1> HIDE DEF t
<1>2. ASSUME NEW i \in DOMAIN s, s[i].type = type, Head(s).type # type
      PROVE  HasType(t, type)
  <2>1. i - 1 \in DOMAIN t /\ t[i - 1] = s[i]
    BY <1>1, <1>2
  <2> QED
    BY <1>2, <2>1 DEF HasType
<1>3. ASSUME NEW i \in DOMAIN t, t[i].type = type
      PROVE  HasType(s, type)
  <2>1. i + 1 \in DOMAIN s /\ t[i] = s[i + 1]
    BY <1>1
  <2> QED
    BY <1>3, <2>1 DEF HasType
<1>4. Head(s).type = type => HasType(s, type)
  BY <1>1 DEF HasType
<1> QED
  BY <1>2, <1>3, <1>4 DEF HasType, t

LEMMA TailCarries ==
    ASSUME NEW s \in Seq(Message), s # <<>>, NEW id, Carries(s, id),
           ~(Head(s).type = "Regular" /\ Head(s).id = id)
    PROVE  Carries(Tail(s), id)
<1> DEFINE t == Tail(s)
<1>1. /\ DOMAIN s = 1..Len(s) /\ Len(s) \in Nat /\ Len(s) >= 1 /\ Head(s) = s[1]
      /\ DOMAIN t = 1..(Len(s) - 1) /\ \A i \in 1..(Len(s) - 1) : t[i] = s[i + 1]
  BY TailIs
<1> HIDE DEF t
<1>2. PICK i \in DOMAIN s : s[i].type = "Regular" /\ s[i].id = id
  BY DEF Carries
<1>3. i - 1 \in DOMAIN t /\ t[i - 1] = s[i]
  BY <1>1, <1>2
<1> QED
  BY <1>2, <1>3 DEF Carries, t

\* The next message of a stream without gaps is none that comes too early.
LEMMA HeadIsNext ==
    ASSUME NEW s \in Seq(Message), s # <<>>, NEW e \in Nat, Unbroken(s, e), Head(s).type = "Regular"
    PROVE  Head(s).id <= e + 1
<1>1. 1 \in DOMAIN s /\ Head(s) = s[1]
  BY TailIs
<1>2. 1..1 - 1 = {}
  OBVIOUS
<1>3. s[1].id \in Nat
  BY <1>1, MessageIn
<1>4. ~(s[1].id > e + 1)
  BY <1>1, <1>2 DEF Unbroken
<1> QED
  BY <1>1, <1>3, <1>4

\* When the next message has been received, the rest has no gap, and brings the rest.
LEMMA UnbrokenTail ==
    ASSUME NEW s \in Seq(Message), s # <<>>, NEW e \in Nat, NEW f \in Nat, e <= f, Unbroken(s, e),
           Head(s).type = "Regular" => Head(s).id <= f
    PROVE  Unbroken(Tail(s), f)
<1> DEFINE t == Tail(s)
<1>1. /\ DOMAIN s = 1..Len(s) /\ Len(s) \in Nat /\ Len(s) >= 1 /\ Head(s) = s[1]
      /\ DOMAIN t = 1..(Len(s) - 1) /\ \A i \in 1..(Len(s) - 1) : t[i] = s[i + 1]
  BY TailIs
<1> HIDE DEF t
<1>2. ASSUME NEW i \in DOMAIN t, t[i].type = "Regular", t[i].id > f + 1
      PROVE  \E j \in 1..i - 1 : t[j].type = "Regular" /\ t[j].id = t[i].id - 1
  <2>0. i + 1 \in DOMAIN s /\ t[i] = s[i + 1]
    BY <1>1
  <2>1. i + 1 \in DOMAIN s /\ t[i] = s[i + 1] /\ s[i + 1].id \in Nat
    BY <2>0, MessageIn
  <2>2. s[i + 1].id > e + 1
    BY <1>2, <2>1
  <2> DEFINE k == i + 1
  <2> HIDE DEF k
  <2>3. PICK j \in 1..k - 1 : s[j].type = "Regular" /\ s[j].id = s[k].id - 1
    BY <1>2, <2>1, <2>2 DEF Unbroken, k
  <2>4. j # 1
    BY <1>1, <1>2, <2>1, <2>3 DEF k
  <2>5. j - 1 \in 1..i - 1 /\ j - 1 \in 1..(Len(s) - 1) /\ j - 1 + 1 = j
    BY <1>1, <2>1, <2>3, <2>4 DEF k
  <2>6. t[j - 1] = s[j]
    BY <1>1, <2>5
  <2> QED
    BY <2>1, <2>3, <2>5, <2>6 DEF k
<1> QED
  BY <1>2 DEF Unbroken, t

LEMMA BringsTail ==
    ASSUME NEW s \in Seq(Message), s # <<>>, NEW e \in Nat, NEW f \in Nat, NEW last \in Nat, e <= f,
           Brings(s, e, last), Head(s).type = "Regular" => Head(s).id <= f
    PROVE  Brings(Tail(s), f, last)
<1> SUFFICES ASSUME NEW id \in f + 1..last PROVE Carries(Tail(s), id)
  BY DEF Brings
<1>1. id \in e + 1..last /\ Carries(s, id)
  BY DEF Brings
<1>2. ~(Head(s).type = "Regular" /\ Head(s).id = id)
  OBVIOUS
<1> QED
  BY <1>1, <1>2, TailCarries

LEMMA EndsTail ==
    ASSUME NEW s \in Seq(Message), s # <<>>, NEW type, EndsWith(s, type)
    PROVE  /\ EndsWith(Tail(s), type)
           /\ Head(s).type = type => Tail(s) = <<>>
<1> DEFINE t == Tail(s)
<1>1. /\ DOMAIN s = 1..Len(s) /\ Len(s) \in Nat /\ Len(s) >= 1 /\ Head(s) = s[1]
      /\ Len(t) = Len(s) - 1 /\ t \in Seq(Message)
      /\ DOMAIN t = 1..(Len(s) - 1) /\ \A i \in 1..(Len(s) - 1) : t[i] = s[i + 1]
  BY TailIs
<1> HIDE DEF t
<1>2. EndsWith(t, type)
  <2> SUFFICES ASSUME NEW i \in DOMAIN t, t[i].type = type
               PROVE  i = Len(t)
    BY DEF EndsWith
  <2>1. i + 1 \in DOMAIN s /\ s[i + 1].type = type
    BY <1>1
  <2>2. i + 1 = Len(s)
    BY <2>1 DEF EndsWith
  <2> QED
    BY <1>1, <2>2
<1>3. ASSUME Head(s).type = type PROVE t = <<>>
  <2>1. 1 = Len(s)
    BY <1>1, <1>3 DEF EndsWith
  <2>2. Len(t) = 0
    BY <1>1, <2>1
  <2> QED
    BY <1>1, <2>2, EmptySeq
<1> QED
  BY <1>2, <1>3 DEF t

\* What a stream goes on with does not matter to its first message.
LEMMA TailConcat ==
    ASSUME NEW s \in Seq(Message), NEW t \in Seq(Message), s # <<>>
    PROVE  /\ s \o t # <<>> /\ Head(s \o t) = Head(s)
           /\ Tail(s \o t) = Tail(s) \o t
<1>1. /\ s \o t \in Seq(Message) /\ Len(s) \in Nat /\ Len(t) \in Nat
      /\ Len(s \o t) = Len(s) + Len(t)
      /\ \A i \in 1..Len(s) : (s \o t)[i] = s[i]
      /\ \A i \in 1..Len(t) : (s \o t)[Len(s) + i] = t[i]
  BY ConcatIs
<1>2. Len(s) >= 1 /\ Head(s) = s[1] /\ Tail(s) \in Seq(Message) /\ Len(Tail(s)) = Len(s) - 1
      /\ \A i \in 1..(Len(s) - 1) : Tail(s)[i] = s[i + 1]
  BY TailIs
<1>3. s \o t # <<>>
  BY <1>1, <1>2, EmptySeq
<1>4. /\ Head(s \o t) = (s \o t)[1] /\ Tail(s \o t) \in Seq(Message)
      /\ Len(Tail(s \o t)) = Len(s) + Len(t) - 1
      /\ \A i \in 1..(Len(s) + Len(t) - 1) : Tail(s \o t)[i] = (s \o t)[i + 1]
  BY <1>1, <1>3, TailIs
<1> DEFINE u == s \o t
           x == Tail(u)
           y == Tail(s) \o t
<1>5. /\ y \in Seq(Message) /\ Len(y) = Len(s) - 1 + Len(t)
      /\ \A i \in 1..(Len(s) - 1) : y[i] = Tail(s)[i]
      /\ \A i \in 1..Len(t) : y[Len(s) - 1 + i] = t[i]
  BY <1>2, ConcatIs
<1>6. \A i \in 1..(Len(s) + Len(t) - 1) : x[i] = y[i]
  <2> HIDE DEF u, x, y
  <2> TAKE i \in 1..(Len(s) + Len(t) - 1)
  <2>1. x[i] = u[i + 1]
    BY <1>4 DEF x, u
  <2>2. CASE i <= Len(s) - 1
    <3>1. i + 1 \in 1..Len(s) /\ u[i + 1] = s[i + 1] /\ y[i] = s[i + 1]
      BY <1>1, <1>2, <1>5, <2>2 DEF u
    <3> QED
      BY <2>1, <3>1
  <2>3. CASE i > Len(s) - 1
    <3> DEFINE j == i - (Len(s) - 1)
    <3>1. j \in 1..Len(t) /\ i + 1 = Len(s) + j /\ i = Len(s) - 1 + j
      BY <1>1, <2>3
    <3> HIDE DEF j
    <3>2. u[i + 1] = t[j] /\ y[i] = t[j]
      BY <1>1, <1>5, <3>1 DEF u
    <3> QED
      BY <2>1, <3>2
  <2> QED
    BY <1>1, <2>2, <2>3
<1>7. x = y
  <2>1. x \in Seq(Message) /\ y \in Seq(Message) /\ Len(x) = Len(y)
    BY <1>1, <1>2, <1>4, <1>5
  <2>2. Len(x) = Len(s) + Len(t) - 1
    BY <1>4
  <2> HIDE DEF x, y
  <2> QED
    BY <1>6, <2>1, <2>2, SeqEqual
<1> QED
  BY <1>1, <1>2, <1>3, <1>4, <1>7

\* What is left when the first k messages, which are no data, are taken.
LEMMA SuffixIs ==
    ASSUME NEW s \in Seq(Message), NEW k \in 0..Len(s), NEW type
    PROVE  /\ SubSeq(s, k + 1, Len(s)) \in Seq(Message)
           /\ HasType(SubSeq(s, k + 1, Len(s)), type) => HasType(s, type)
<1> DEFINE t == SubSeq(s, k + 1, Len(s))
<1>1. /\ t \in Seq(Message) /\ Len(t) = Len(s) - k
      /\ \A i \in 1..Len(s) - k : t[i] = s[k + i]
  BY SuffixProperties
<1>2. DOMAIN t = 1..Len(t) /\ DOMAIN s = 1..Len(s) /\ Len(s) \in Nat
  BY <1>1, LenProperties
<1> HIDE DEF t
<1>3. ASSUME HasType(t, type) PROVE HasType(s, type)
  <2>1. PICK i \in DOMAIN t : t[i].type = type
    BY <1>3 DEF HasType
  <2>2. k + i \in DOMAIN s /\ s[k + i].type = type
    BY <1>1, <1>2, <2>1
  <2> QED
    BY <2>2 DEF HasType
<1> QED
  BY <1>1, <1>3 DEF t

-----------------------------------------------------------------------------
(* The parts of the state.                                                   *)

LEMMA Ends ==
    /\ "client" \in Endpoint /\ "server" \in Endpoint /\ "client" # "server"
    /\ Peer("client") = "server" /\ Peer("server") = "client"
    /\ \A p \in Endpoint : p = "client" \/ p = "server"
    /\ \A p \in Endpoint : Peer(p) \in Endpoint /\ Peer(p) # p /\ Peer(Peer(p)) = p
BY DEF Endpoint, Peer

WriterType == [data : Seq(Message), paused : BOOLEAN, timer : BOOLEAN]

LEMMA Parts ==
    ASSUME IInv
    PROVE  /\ wire \in [Endpoint -> [Sockets -> Seq(Message)]]
           /\ out \in [Endpoint -> Half] /\ inc \in [Endpoint -> Incoming]
           /\ writer \in [Endpoint -> WriterType]
           /\ socket \in [Endpoint -> Sockets] /\ closed \in [Sockets -> BOOLEAN]
           /\ isReconnecting \in [Endpoint -> BOOLEAN] /\ disposed \in [Endpoint -> BOOLEAN]
           /\ peerLeft \in [Endpoint -> BOOLEAN]
           /\ handled \in SUBSET Sockets /\ handoff \in SUBSET [socket : Sockets, ack : Nat]
           /\ control \in Nat /\ drops \in Nat /\ Sockets \subseteq Nat
BY State DEF Outs, Incs, Writers, Wires, Handoffs, RestOK, WriterType, Sockets

LEMMA EndParts ==
    ASSUME IInv, NEW p \in Endpoint
    PROVE  /\ out[p] \in Half /\ out[p].msgId \in Nat /\ out[p].ackId \in Nat
           /\ inc[p] \in Incoming /\ inc[p].msgId \in Nat
           /\ writer[p] \in WriterType /\ writer[p].data \in Seq(Message)
           /\ socket[p] \in Sockets /\ closed[socket[p]] \in BOOLEAN
           /\ \A n \in Sockets : wire[p][n] \in Seq(Message)
           /\ wire[Peer(p)][socket[p]] \in Seq(Message)
           /\ Stream(p) \in Seq(Message)
<1>1. wire[Peer(p)][socket[p]] \in Seq(Message) /\ writer[p].data \in Seq(Message)
  BY Parts, Ends DEF WriterType
<1>2. Stream(p) \in Seq(Message)
  BY <1>1, ConcatIs DEF Stream
<1> QED
  BY <1>1, <1>2, Parts DEF Half, Incoming

\* The queue of what is not confirmed, and the numbers of both ends.
LEMMA Numbers ==
    ASSUME IInv, NEW p \in Endpoint
    PROVE  /\ out[p].ackId <= inc[Peer(p)].msgId /\ inc[Peer(p)].msgId <= out[p].msgId
           /\ inc[Peer(p)].msgId = Len(delivered[Peer(p)]) /\ out[p].msgId = Len(sent[p])
           /\ delivered[Peer(p)] \in Seq(Data) /\ sent[p] \in Seq(Data)
           /\ \A i \in 1..Len(delivered[Peer(p)]) : delivered[Peer(p)][i] = sent[p][i]
<1> DEFINE q == Peer(p)
<1>1. q \in Endpoint /\ Peer(q) = p
  BY Ends
<1>2. /\ inc[q].msgId = Len(delivered[q]) /\ Outgoing(p, out[p])
      /\ DeliveredInOrder /\ delivered \in [Endpoint -> Seq(Data)] /\ sent \in [Endpoint -> Seq(Data)]
  BY <1>1, State, InvariantParts DEF RestOK
<1>3. out[p].ackId <= inc[q].msgId /\ out[p].msgId = Len(sent[p])
  BY <1>2 DEF Outgoing
<1>4. /\ Len(delivered[q]) <= Len(sent[p])
      /\ \A i \in 1..Len(delivered[q]) : delivered[q][i] = sent[p][i]
  BY <1>1, <1>2 DEF DeliveredInOrder
<1> QED
  BY <1>1, <1>2, <1>3, <1>4

\* What the properties of the streams say of the parts.
LEMMA StreamsParts ==
    ASSUME Streams
    PROVE  /\ SocketsInOrder /\ ClientWaits /\ NothingCutOff
           /\ \A n \in Sockets : IsQuiet(n)
           /\ \A p \in Endpoint :
                  NoReplayAsked(p) /\ ComesInOrder(p) /\ StreamIsWhole(p) /\ FarewellIsLast(p)
BY DEF Streams

\* The messages of an end that writes nothing but plain messages.
Plains(msgs) == /\ ~HasType(msgs, "Regular") /\ ~HasType(msgs, "ReplayRequest")
                /\ ~HasType(msgs, "Disconnect")

-----------------------------------------------------------------------------
(* Steps of an end that leave the sockets alone.                             *)

LEMMA WritesPlainly ==
    ASSUME IInv, IInv', Streams, NEW p \in Endpoint, NEW msgs \in Seq(Message), Plains(msgs),
           writer'[p].data = writer[p].data \o msgs, writer'[p].paused = writer[p].paused,
           \A q \in Endpoint \ {p} : writer'[q] = writer[q],
           \A q \in Endpoint : inc'[q].msgId = inc[q].msgId /\ out'[q].msgId = out[q].msgId,
           attempt' # "begun" \/ (attempt' = attempt /\ ~HasType(msgs, "Control")),
           UNCHANGED <<isReconnecting, socket, control, wire, closed, handled, handoff, drops,
                       disposed, peerLeft, sent, delivered>>
    PROVE  Streams'
<1>1. /\ Stream(p)' = Stream(p) \o msgs
      /\ \A q \in Endpoint \ {p} : Stream(q)' = Stream(q)
  <2>1. wire[Peer(p)][socket[p]] \in Seq(Message) /\ writer[p].data \in Seq(Message)
    BY EndParts
  <2>2. (wire[Peer(p)][socket[p]] \o writer[p].data) \o msgs
            = wire[Peer(p)][socket[p]] \o (writer[p].data \o msgs)
    BY <2>1, ConcatTwice
  <2> QED
    BY <2>2 DEF Stream
<1>2. \A type : /\ HasType(writer'[p].data, type) <=> HasType(writer[p].data, type) \/ HasType(msgs, type)
                /\ HasType(Stream(p)', type) <=> HasType(Stream(p), type) \/ HasType(msgs, type)
  BY <1>1, HasConcat, EndParts
<1>3. SocketsInOrder'
  BY StreamsParts DEF SocketsInOrder, Unattached, HandedOff
<1>4. ClientWaits'
  <2>1. ClientWaits
    BY StreamsParts
  <2>2. CASE p = "client"
    BY <1>2, <2>1, <2>2 DEF ClientWaits, Plains
  <2>3. CASE p # "client"
    BY <1>1, <2>1, <2>3, Ends DEF ClientWaits
  <2> QED
    BY <2>2, <2>3
<1>5. ASSUME NEW n \in Sockets PROVE IsQuiet(n)'
  <2>1. IsQuiet(n) /\ writer'["client"].paused = writer["client"].paused
    BY StreamsParts, Ends
  <2> QED
    BY <2>1 DEF IsQuiet, Unattached, HandedOff
<1>6. ASSUME NEW q \in Endpoint PROVE NoReplayAsked(q)' /\ ComesInOrder(q)'
  <2>1. NoReplayAsked(q) /\ ComesInOrder(q)
    BY StreamsParts
  <2> QED
    BY <1>2, <2>1 DEF NoReplayAsked, ComesInOrder, Plains
<1>7. ASSUME NEW q \in Endpoint PROVE StreamIsWhole(q)'
  <2>1. StreamIsWhole(q) /\ inc[Peer(q)].msgId \in Nat /\ out[q].msgId \in Nat
        /\ Stream(q) \in Seq(Message)
    BY StreamsParts, EndParts, Ends
  <2>2. CASE q = p
    <3>1. Unbroken(Stream(p), inc[Peer(p)].msgId) => Unbroken(Stream(p)', inc[Peer(p)].msgId)
      BY <1>1, <2>1, <2>2, UnbrokenPlain DEF Plains
    <3>2. Brings(Stream(p), inc[Peer(p)].msgId, out[p].msgId)
              => Brings(Stream(p)', inc[Peer(p)].msgId, out[p].msgId)
      BY <1>1, <2>1, <2>2, BringsConcat
    <3> QED
      BY <2>1, <2>2, <3>1, <3>2, Ends DEF StreamIsWhole
  <2>3. CASE q # p
    BY <1>1, <2>1, <2>3, Ends DEF StreamIsWhole
  <2> QED
    BY <2>2, <2>3
<1>8. ASSUME NEW q \in Endpoint PROVE FarewellIsLast(q)'
  <2>1. FarewellIsLast(q)
    BY StreamsParts
  <2> QED
    BY <1>2, <2>1, Ends DEF FarewellIsLast, Plains
<1>9. NothingCutOff'
  BY StreamsParts DEF NothingCutOff
<1> QED
  BY <1>3, <1>4, <1>5, <1>6, <1>7, <1>8, <1>9 DEF Streams

\* What is written to a writer.
LEMMA WriteIs ==
    ASSUME NEW w \in WriterType, NEW msgs \in Seq(Message)
    PROVE  /\ Write(w, msgs).data = w.data \o msgs /\ Write(w, msgs).paused = w.paused
           /\ w.data \o msgs \in Seq(Message)
BY ConcatIs DEF Write, WriterType

LEMMA PlainMessage ==
    ASSUME NEW type \in Types \ {"Regular", "ReplayRequest", "Disconnect"}, NEW ack \in Nat
    PROVE  /\ Plain(type, ack) \in Message /\ <<Plain(type, ack)>> \in Seq(Message)
           /\ Plains(<<Plain(type, ack)>>)
           /\ \A t : HasType(<<Plain(type, ack)>>, t) <=> t = type
<1>1. Plain(type, ack) \in Message /\ Plain(type, ack).type = type
  BY DEF Plain, Message, Types
<1> QED
  BY <1>1, OneMessage DEF Plains

LEMMA NothingPlain == Plains(<<>>)
BY EmptyStream DEF Plains

\* A step that changes nothing that is sent, waited for or read.
LEMMA TimerStep ==
    ASSUME IInv, IInv', Streams,
           \A q \in Endpoint : inc'[q].msgId = inc[q].msgId /\ out'[q].msgId = out[q].msgId,
           attempt' # "begun" \/ attempt' = attempt,
           UNCHANGED <<writer, isReconnecting, socket, control, wire, closed, handled, handoff, drops,
                       disposed, peerLeft, sent, delivered>>
    PROVE  Streams'
<1>1. writer'["client"].data = writer["client"].data \o <<>>
  BY EndParts, Ends, ConcatTwice
<1> QED
  BY <1>1, Ends, EmptyStream, NothingPlain, WritesPlainly

LEMMA RecvAckCheckNumbers ==
    ASSUME IInv, NEW p \in Endpoint, NEW o \in Half, NEW b,
           RecvAckCheck(p, o, b) \/ RecvAckCheckAnew(p, o)
    PROVE  /\ out'[p].msgId = o.msgId
           /\ \A q \in Endpoint \ {p} : out'[q] = out[q]
<1>1. out' = [out EXCEPT ![p] = o] \/ out' = [out EXCEPT ![p] = [o EXCEPT !.timer = TRUE]]
  BY CheckedHalf
<1>2. [o EXCEPT !.timer = TRUE].msgId = o.msgId
  BY DEF Half
<1> QED
  BY <1>1, <1>2, Parts

LEMMA OutgoingAckTimerStreams ==
    ASSUME IInv, IInv', Streams, NEW p \in Endpoint, OutgoingAckTimer(p)
    PROVE  Streams'
<1> DEFINE o == [out[p] EXCEPT !.timer = FALSE]
<1>1. o \in Half /\ o.msgId = out[p].msgId
  BY EndParts DEF Half
<1>2. out' = [out EXCEPT ![p] = o] \/ RecvAckCheck(p, o, TRUE)
  BY DEF OutgoingAckTimer
<1> HIDE DEF o
<1>3. \A q \in Endpoint : out'[q].msgId = out[q].msgId
  BY <1>1, <1>2, Parts, RecvAckCheckNumbers
<1> QED
  BY <1>3, TimerStep DEF OutgoingAckTimer, linkVars, lifeVars

LEMMA ReplayWindowElapsesStreams ==
    ASSUME IInv, IInv', Streams, NEW p \in Endpoint, ReplayWindowElapses(p)
    PROVE  Streams'
<1>1. \A q \in Endpoint : inc'[q].msgId = inc[q].msgId
  BY Parts DEF ReplayWindowElapses, Incoming
<1> QED
  BY <1>1, TimerStep DEF ReplayWindowElapses, linkVars, lifeVars

LEMMA AttemptFailsStreams ==
    ASSUME IInv, IInv', Streams, AttemptFails
    PROVE  Streams'
BY TimerStep DEF AttemptFails, endVars, lifeVars

\* An end writes one plain message.
LEMMA WritesOne ==
    ASSUME IInv, IInv', Streams, NEW p \in Endpoint,
           NEW type \in Types \ {"Regular", "ReplayRequest", "Disconnect"}, NEW ack \in Nat,
           writer' = [writer EXCEPT ![p] = Write(writer[p], <<Plain(type, ack)>>)],
           \A q \in Endpoint : inc'[q].msgId = inc[q].msgId /\ out'[q].msgId = out[q].msgId,
           attempt' # "begun" \/ (attempt' = attempt /\ type # "Control"),
           UNCHANGED <<isReconnecting, socket, control, wire, closed, handled, handoff, drops,
                       disposed, peerLeft, sent, delivered>>
    PROVE  Streams'
<1> DEFINE msgs == <<Plain(type, ack)>>
<1>1. msgs \in Seq(Message) /\ Plains(msgs) /\ (HasType(msgs, "Control") => type = "Control")
  BY PlainMessage
<1>2. writer' = [writer EXCEPT ![p] = Write(writer[p], msgs)]
  OBVIOUS
<1> HIDE DEF msgs
<1>3. /\ writer'[p].data = writer[p].data \o msgs /\ writer'[p].paused = writer[p].paused
      /\ \A q \in Endpoint \ {p} : writer'[q] = writer[q]
  <2> DEFINE w == Write(writer[p], msgs)
  <2>1. w.data = writer[p].data \o msgs /\ w.paused = writer[p].paused
    BY <1>1, EndParts, WriteIs
  <2>2. writer' = [writer EXCEPT ![p] = w]
    BY <1>2
  <2> HIDE DEF w
  <2> QED
    BY <2>1, <2>2, Parts
<1> QED
  BY <1>1, <1>3, WritesPlainly

LEMMA IncomingAckTimerStreams ==
    ASSUME IInv, IInv', Streams, NEW p \in Endpoint, IncomingAckTimer(p)
    PROVE  Streams'
<1>1. \A q \in Endpoint : inc'[q].msgId = inc[q].msgId
  <2>1. \/ inc' = [inc EXCEPT ![p].timer = FALSE]
        \/ inc' = [inc EXCEPT ![p].timer = FALSE, ![p].ackId = inc[p].msgId]
        \/ inc' = [inc EXCEPT ![p].recent = FALSE]
    BY DEF IncomingAckTimer
  <2>2. inc' = [inc EXCEPT ![p].timer = FALSE] => \A q \in Endpoint : inc'[q].msgId = inc[q].msgId
    BY Parts DEF Incoming
  <2>3. inc' = [inc EXCEPT ![p].timer = FALSE, ![p].ackId = inc[p].msgId]
            => \A q \in Endpoint : inc'[q].msgId = inc[q].msgId
    BY Parts DEF Incoming
  <2>4. inc' = [inc EXCEPT ![p].recent = FALSE] => \A q \in Endpoint : inc'[q].msgId = inc[q].msgId
    BY Parts DEF Incoming
  <2> QED
    BY <2>1, <2>2, <2>3, <2>4
<1>2. /\ UNCHANGED <<out, isReconnecting, socket, attempt, control, wire, closed, handled, handoff,
                     drops, disposed, peerLeft, sent, delivered>>
      /\ \/ UNCHANGED writer
         \/ writer' = [writer EXCEPT ![p] = Write(writer[p], <<Plain("Ack", inc[p].msgId)>>)]
  BY DEF IncomingAckTimer, linkVars, lifeVars
<1>3. "Ack" \in Types \ {"Regular", "ReplayRequest", "Disconnect"} /\ "Ack" # "Control"
  BY DEF Types
<1>4. inc[p].msgId \in Nat
  BY EndParts
<1>5. CASE UNCHANGED writer
  BY <1>1, <1>2, <1>5, TimerStep
<1>6. CASE writer' = [writer EXCEPT ![p] = Write(writer[p], <<Plain("Ack", inc[p].msgId)>>)]
  BY <1>1, <1>2, <1>3, <1>4, <1>6, WritesOne
<1> QED
  BY <1>2, <1>5, <1>6

LEMMA SendKeepAliveStreams ==
    ASSUME IInv, IInv', Streams, NEW p \in Endpoint, SendKeepAlive(p)
    PROVE  Streams'
<1>1. \A q \in Endpoint : inc'[q].msgId = inc[q].msgId
  BY Parts DEF SendKeepAlive, Incoming
<1>2. /\ UNCHANGED <<out, isReconnecting, socket, attempt, control, wire, closed, handled, handoff,
                     drops, disposed, peerLeft, sent, delivered>>
      /\ writer' = [writer EXCEPT ![p] = Write(writer[p], <<Plain("KeepAlive", inc[p].msgId)>>)]
  BY DEF SendKeepAlive, linkVars, lifeVars
<1>3. "KeepAlive" \in Types \ {"Regular", "ReplayRequest", "Disconnect"} /\ "KeepAlive" # "Control"
  BY DEF Types
<1> QED
  BY <1>1, <1>2, <1>3, EndParts, WritesOne

\* The buffer of control messages is empty when the client asks for its connection.
LEMMA ConnectionTypeRequestStreams ==
    ASSUME IInv, IInv', Streams, ConnectionTypeRequest
    PROVE  Streams'
<1>1. control = 0
  BY StreamsParts DEF ClientWaits, ConnectionTypeRequest
<1>2. /\ UNCHANGED <<out, inc, isReconnecting, socket, control, wire, closed, handled, handoff,
                     drops, disposed, peerLeft, sent, delivered>>
      /\ writer' = [writer EXCEPT !["client"] = Write(writer["client"], <<Plain("Control", 0)>>)]
      /\ attempt' = "waiting"
  BY <1>1 DEF ConnectionTypeRequest, lifeVars
<1>3. "Control" \in Types \ {"Regular", "ReplayRequest", "Disconnect"}
  BY DEF Types
<1> QED
  BY <1>2, <1>3, Ends, WritesOne

-----------------------------------------------------------------------------
(* Steps of an end that write to its socket.                                 *)

\* The data p writes goes on its socket's stream when the socket is flushed.
Left(p) == IF closed[socket[p]] THEN wire[Peer(p)][socket[p]]
           ELSE wire[Peer(p)][socket[p]] \o Flushed(writer[p])

LEMMA LeftIsEither ==
    ASSUME IInv, NEW p \in Endpoint
    PROVE  /\ closed[socket[p]] \/ writer[p].paused => Left(p) = wire[Peer(p)][socket[p]]
           /\ ~closed[socket[p]] /\ ~writer[p].paused => Left(p) = Stream(p)
           /\ Left(p) \in Seq(Message)
<1>1. wire[Peer(p)][socket[p]] \in Seq(Message) /\ Stream(p) \in Seq(Message)
  BY EndParts
<1>2. wire[Peer(p)][socket[p]] \o <<>> = wire[Peer(p)][socket[p]]
  BY <1>1, ConcatTwice
<1> QED
  BY <1>1, <1>2 DEF Left, Flushed, Stream

\* Nothing is written that must not be lost to a socket nobody reads.
LEMMA LeftIs ==
    ASSUME IInv, Streams, NEW p \in Endpoint
    PROVE  /\ Left(p) \in Seq(Message) /\ Unbroken(Left(p), inc[Peer(p)].msgId)
           /\ ~HasType(Left(p), "ReplayRequest")
           /\ HasType(Left(p), "Disconnect") => HasType(wire[Peer(p)][socket[p]], "Disconnect")
           /\ HasType(Left(p), "Control") => HasType(Stream(p), "Control")
           /\ p = "client" /\ Unattached(socket[p]) => ~HasType(Left(p), "Regular")
<1> DEFINE q == Peer(p)
           n == socket[p]
           w == wire[q][n]
<1>1. /\ w \in Seq(Message) /\ writer[p].data \in Seq(Message) /\ n \in Sockets /\ q \in Endpoint
      /\ Peer(q) = p
  BY EndParts, Ends
<1>2. \A type : HasType(Stream(p), type) <=> HasType(w, type) \/ HasType(writer[p].data, type)
  BY <1>1, HasConcat DEF Stream
<1>3. /\ NoReplayAsked(p) /\ NoReplayAsked(q) /\ ComesInOrder(q) /\ StreamIsWhole(p)
      /\ FarewellIsLast(p) /\ IsQuiet(n) /\ ClientWaits /\ SocketsInOrder
  BY <1>1, StreamsParts
<1>4. CASE Left(p) = w /\ (closed[n] \/ writer[p].paused)
  <2>1. Unbroken(w, inc[q].msgId) /\ ~HasType(w, "ReplayRequest")
    BY <1>1, <1>3 DEF ComesInOrder, NoReplayAsked
  <2>2. p = "client" /\ Unattached(n) => ~HasType(w, "Regular")
    BY <1>3, Ends DEF IsQuiet
  <2> QED
    BY <1>1, <1>2, <1>4, <2>1, <2>2
<1>5. CASE Left(p) = Stream(p) /\ ~closed[n] /\ ~writer[p].paused
  <2>1. Unbroken(Stream(p), inc[q].msgId)
    BY <1>3, <1>5 DEF StreamIsWhole
  <2>2. ~HasType(Stream(p), "ReplayRequest")
    BY <1>1, <1>2, <1>3 DEF NoReplayAsked
  <2>3. HasType(Stream(p), "Disconnect") => HasType(w, "Disconnect")
    BY <1>2, <1>3 DEF FarewellIsLast
  <2>4. ASSUME p = "client", Unattached(n) PROVE ~HasType(Stream(p), "Regular")
    <3>1. ~HasType(w, "Regular")
      BY <1>3, <2>4, Ends DEF IsQuiet
    <3>2. isReconnecting["client"]
      <4>1. ~disposed["client"]
        BY <1>3, <1>5, <2>4 DEF SocketsInOrder
      <4> QED
        BY <1>3, <1>5, <2>4, <4>1 DEF IsQuiet, ClientWaits, Unattached
    <3>3. ~HasType(writer[p].data, "Regular")
      BY <1>3, <2>4, <3>2 DEF ClientWaits
    <3> QED
      BY <1>2, <3>1, <3>3
  <2> QED
    BY <1>1, <1>5, <2>1, <2>2, <2>3, <2>4, EndParts
<1> QED
  BY <1>4, <1>5, <1>1, LeftIsEither, EndParts

\* The sockets the two ends use are not those that are still to be opened.
LEMMA InUse ==
    ASSUME IInv, Streams, NEW p \in Endpoint
    PROVE  /\ socket[p] \in Sockets /\ socket["client"] \in Nat /\ socket[p] \in Nat
           /\ ~(socket[p] > socket["client"])
           /\ p = "server" => ~Unattached(socket[p])
<1>1. socket[p] \in Sockets /\ socket["client"] \in Nat /\ socket[p] \in Nat
  BY Parts, Ends
<1>2. SocketsInOrder
  BY StreamsParts
<1>3. CASE p = "client"
  BY <1>1, <1>3, Ends
<1>4. CASE p = "server"
  BY <1>1, <1>2, <1>4 DEF SocketsInOrder, Unattached
<1> QED
  BY <1>1, <1>3, <1>4, Ends

LEMMA WriteNowStreams ==
    ASSUME IInv, IInv', Streams, NEW p \in Endpoint, WriteNow(p)
    PROVE  Streams'
<1> DEFINE q == Peer(p)
           n == socket[p]
<1>1. /\ q \in Endpoint /\ Peer(q) = p /\ q # p /\ n \in Sockets
      /\ \A r \in Endpoint : r = p \/ r = q
  BY EndParts, Ends
<1>2. /\ UNCHANGED <<out, inc, isReconnecting, socket, attempt, control, closed, handled, handoff,
                     drops, disposed, peerLeft, sent, delivered>>
      /\ writer'[q] = writer[q] /\ writer'[p].paused = writer[p].paused
      /\ writer'[p].data = IF writer[p].paused THEN writer[p].data ELSE <<>>
  BY <1>1, Parts DEF WriteNow, lifeVars, WriterType
<1>3. wire' = [wire EXCEPT ![q][n] = Left(p)]
  BY DEF WriteNow, Left
<1>4. /\ wire'[q][n] = Left(p) /\ wire'[p] = wire[p]
      /\ \A k \in Sockets \ {n} : wire'[q][k] = wire[q][k]
  BY <1>1, <1>3, Parts
<1> HIDE DEF q, n
<1>5. /\ \A type : HasType(writer'[p].data, type) => HasType(writer[p].data, type)
      /\ Stream(q)' = Stream(q)
  BY <1>1, <1>2, <1>4, EmptyStream DEF Stream
<1>6. /\ Left(p) \in Seq(Message) /\ writer[p].data \in Seq(Message) /\ wire[q][n] \in Seq(Message)
      /\ Stream(p)' = Left(p) \o writer'[p].data
      /\ ~closed[n] => Stream(p)' = Stream(p)
  <2>1. /\ Left(p) \in Seq(Message) /\ writer[p].data \in Seq(Message) /\ wire[q][n] \in Seq(Message)
        /\ Stream(p) \in Seq(Message)
    BY EndParts, LeftIs DEF q, n
  <2>2. Stream(p)' = Left(p) \o writer'[p].data
    BY <1>1, <1>2, <1>4 DEF Stream, q, n
  <2>3. CASE closed[n]
    BY <2>1, <2>2, <2>3
  <2>4. CASE writer[p].paused
    <3>1. Left(p) = wire[q][n]
      BY <2>4, LeftIsEither DEF q, n
    <3> QED
      BY <1>2, <2>1, <2>2, <2>4, <3>1 DEF Stream, q, n
  <2>5. CASE ~closed[n] /\ ~writer[p].paused
    <3>1. Left(p) = Stream(p) /\ Stream(p) \o <<>> = Stream(p)
      BY <2>1, <2>5, LeftIsEither, ConcatTwice DEF q, n
    <3> QED
      BY <1>2, <2>1, <2>2, <2>5, <3>1
  <2> QED
    BY <2>3, <2>4, <2>5
<1>7. SocketsInOrder'
  <2>1. SocketsInOrder /\ ~(n > socket["client"])
    BY InUse, StreamsParts DEF n
  <2>2. \A k \in Sockets : k > socket["client"] => \A r \in Endpoint : wire'[r][k] = wire[r][k]
    BY <1>1, <1>4, <2>1
  <2> QED
    BY <1>2, <2>1, <2>2 DEF SocketsInOrder, Unattached, HandedOff
<1>8. ClientWaits'
  <2>1. ClientWaits
    BY StreamsParts
  <2>2. \A type : HasType(writer'["client"].data, type) => HasType(writer["client"].data, type)
    BY <1>1, <1>2, <1>5, Ends
  <2>3. HasType(Stream("client"), "Control")' => HasType(Stream("client"), "Control")
    <3>1. CASE p = "client"
      <4>1. HasType(Stream(p)', "Control")
               => HasType(Left(p), "Control") \/ HasType(writer'[p].data, "Control")
        <5> DEFINE d == writer'[p].data
        <5>1. d \in Seq(Message) /\ Stream(p)' = Left(p) \o d
          BY <1>2, <1>6, EmptyStream
        <5> HIDE DEF d
        <5>2. HasType(Left(p) \o d, "Control") => HasType(Left(p), "Control") \/ HasType(d, "Control")
          BY <1>6, <5>1, HasConcat
        <5> QED
          BY <5>1, <5>2 DEF d
      <4>2. HasType(writer[p].data, "Control") => HasType(Stream(p), "Control")
        BY <1>6, HasConcat DEF Stream, q, n
      <4> QED
        BY <1>5, <3>1, <4>1, <4>2, LeftIs
    <3>2. CASE p # "client"
      BY <1>1, <1>5, <3>2, Ends
    <3> QED
      BY <3>1, <3>2
  <2> QED
    BY <1>2, <2>1, <2>2, <2>3 DEF ClientWaits
<1>9. ASSUME NEW k \in Sockets PROVE IsQuiet(k)'
  <2>1. IsQuiet(k) /\ writer'["client"].paused = writer["client"].paused
    BY <1>1, <1>2, StreamsParts, Ends
  <2>2. Unattached(k) => wire'["client"][k] = wire["client"][k]
    BY <1>1, <1>4, InUse, Ends DEF n
  <2>3. Unattached(k) /\ HasType(wire'["server"][k], "Regular") => HasType(wire["server"][k], "Regular")
    BY <1>1, <1>4, LeftIs, Ends DEF n
  <2>4. Unattached(k)' = Unattached(k) /\ HandedOff' = HandedOff /\ (k \in HandedOff => Unattached(k))
    BY <1>2 DEF Unattached, HandedOff
  <2>5. k \notin handled => Unattached(k)
    BY DEF Unattached
  <2> QED
    BY <1>2, <2>1, <2>2, <2>3, <2>4, <2>5 DEF IsQuiet, HandOffAnswer, Plain
<1>10. ASSUME NEW r \in Endpoint PROVE NoReplayAsked(r)' /\ ComesInOrder(r)'
  <2>1. NoReplayAsked(r) /\ ComesInOrder(r)
    BY StreamsParts
  <2>2. CASE r = p
    BY <1>2, <1>4, <1>5, <2>1, <2>2 DEF NoReplayAsked, ComesInOrder
  <2>3. CASE r = q
    <3>1. Unbroken(Left(p), inc[q].msgId) /\ ~HasType(Left(p), "ReplayRequest")
      BY LeftIs DEF q
    <3> QED
      BY <1>2, <1>4, <2>1, <2>3, <3>1 DEF NoReplayAsked, ComesInOrder
  <2> QED
    BY <1>1, <2>2, <2>3
<1>11. ASSUME NEW r \in Endpoint PROVE StreamIsWhole(r)'
  <2>1. StreamIsWhole(r)
    BY StreamsParts
  <2>2. ~closed[socket[r]] => Stream(r)' = Stream(r)
    BY <1>1, <1>5, <1>6 DEF n
  <2> QED
    BY <1>2, <2>1, <2>2 DEF StreamIsWhole
<1>12. ASSUME NEW r \in Endpoint PROVE FarewellIsLast(r)'
  <2>1. FarewellIsLast(r) /\ SocketsInOrder
    BY StreamsParts
  <2>2. CASE r = p
    <3>1. HasType(Left(p), "Disconnect") => wire'[q][n] = wire[q][n]
      <4>1. HasType(Left(p), "Disconnect") => HasType(wire[q][n], "Disconnect")
        BY LeftIs DEF q, n
      <4>2. HasType(Left(p), "Disconnect") => closed[n]
        BY <1>1, <2>1, <2>2, <4>1 DEF FarewellIsLast, SocketsInOrder, q, n
      <4> QED
        BY <1>4, <4>2, LeftIsEither DEF q, n
    <3>2. \A k \in Sockets : HasType(wire'[q][k], "Disconnect") => wire'[q][k] = wire[q][k]
      BY <1>4, <3>1
    <3> QED
      BY <1>2, <1>5, <2>1, <2>2, <3>2 DEF FarewellIsLast, q
  <2>3. CASE r = q
    BY <1>1, <1>2, <1>4, <2>1, <2>3 DEF FarewellIsLast
  <2> QED
    BY <1>1, <2>2, <2>3
<1>13. NothingCutOff'
  BY <1>2, StreamsParts DEF NothingCutOff
<1> QED
  BY <1>7, <1>8, <1>9, <1>10, <1>11, <1>12, <1>13 DEF Streams

\* What send() changes; while p reconnects nothing is written.
LEMMA SendIs ==
    ASSUME IInv, NEW p \in Endpoint, NEW d \in Data, Send(p, d)
    PROVE  /\ out'[p].msgId = out[p].msgId + 1 /\ out'[Peer(p)] = out[Peer(p)]
           /\ \A r \in Endpoint : inc'[r].msgId = inc[r].msgId
           /\ isReconnecting[p] => writer' = writer
           /\ ~isReconnecting[p] => \E m \in Message :
                  /\ m.type = "Regular" /\ m.id = out[p].msgId + 1
                  /\ writer'[p].data = writer[p].data \o <<m>>
                  /\ writer'[p].paused = writer[p].paused
                  /\ writer'[Peer(p)] = writer[Peer(p)]
<1> DEFINE m == Regular(out[p].msgId + 1, inc[p].msgId, d)
           u == Append(out[p].unack, m)
           o == [out[p] EXCEPT !.msgId = @ + 1, !.unack = u]
           w == Write(writer[p], <<m>>)
<1>1. m \in Message /\ m.type = "Regular" /\ m.id = out[p].msgId + 1
  BY EndParts DEF Regular, Message, Types
<1>2. o \in Half /\ o.msgId = out[p].msgId + 1
  <2>1. u \in Seq(Message)
    BY <1>1, EndParts, AppendProperties DEF Half
  <2> DEFINE x == out[p]
             i == out[p].msgId + 1
  <2>2. x \in Half /\ i \in Nat
    BY EndParts
  <2>3. o = [x EXCEPT !.msgId = i, !.unack = u]
    OBVIOUS
  <2> HIDE DEF u, x, i, o
  <2>4. o \in Half /\ o.msgId = i
    BY <2>1, <2>2, <2>3 DEF Half
  <2> QED
    BY <2>4 DEF i
<1>3. w.data = writer[p].data \o <<m>> /\ w.paused = writer[p].paused
  BY <1>1, EndParts, WriteIs, OneMessage
<1>4. IF isReconnecting[p]
      THEN out' = [out EXCEPT ![p] = o] /\ UNCHANGED writer
      ELSE writer' = [writer EXCEPT ![p] = w] /\ RecvAckCheck(p, o, timedOut[p])
  BY DEF Send
<1> HIDE DEF m, u, o, w
<1>5. out'[p].msgId = out[p].msgId + 1 /\ out'[Peer(p)] = out[Peer(p)]
  BY <1>2, <1>4, Parts, Ends, RecvAckCheckNumbers
<1>6. \A r \in Endpoint : inc'[r].msgId = inc[r].msgId
  BY Parts DEF Send, Incoming
<1>7. ~isReconnecting[p] => /\ writer'[p].data = writer[p].data \o <<m>>
                            /\ writer'[p].paused = writer[p].paused
                            /\ writer'[Peer(p)] = writer[Peer(p)]
  BY <1>3, <1>4, Parts, Ends
<1> QED
  BY <1>1, <1>4, <1>5, <1>6, <1>7

LEMMA SendStreams ==
    ASSUME IInv, IInv', Streams, NEW p \in Endpoint, NEW d \in Data, Send(p, d)
    PROVE  Streams'
<1> DEFINE q == Peer(p)
<1>1. /\ q \in Endpoint /\ Peer(q) = p /\ q # p /\ \A r \in Endpoint : r = p \/ r = q
  BY Ends
<1>2. /\ UNCHANGED <<isReconnecting, socket, attempt, control, wire, closed, handled, handoff,
                     drops, disposed, peerLeft, delivered>>
      /\ ~disposed[p] /\ sent'[q] = sent[q]
  BY <1>1, State DEF Send, linkVars, lifeVars, RestOK
<1>3. /\ out'[p].msgId = out[p].msgId + 1 /\ out'[q] = out[q]
      /\ \A r \in Endpoint : inc'[r].msgId = inc[r].msgId
      /\ isReconnecting[p] => writer' = writer
  BY SendIs
<1>4. ASSUME ~isReconnecting[p]
      PROVE  \E m \in Message : /\ m.type = "Regular" /\ m.id = out[p].msgId + 1
                                /\ writer'[p].data = writer[p].data \o <<m>>
                                /\ writer'[p].paused = writer[p].paused /\ writer'[q] = writer[q]
  BY <1>4, SendIs
<1>5. FarewellIsLast(p) /\ FarewellIsLast(q) /\ StreamIsWhole(p) /\ StreamIsWhole(q) /\ ClientWaits
  BY <1>1, StreamsParts
<1> HIDE DEF q
<1>6. writer'[p].paused = writer[p].paused /\ writer'[q] = writer[q]
  BY <1>3, <1>4
<1>7. \A r \in Endpoint, type \in {"ReplayRequest", "Disconnect", "Control"} :
          HasType(writer'[r].data, type) => HasType(writer[r].data, type)
  <2>1. CASE isReconnecting[p]
    BY <1>3, <2>1
  <2>2. CASE ~isReconnecting[p]
    <3>1. PICK m \in Message : m.type = "Regular" /\ writer'[p].data = writer[p].data \o <<m>>
      BY <1>4, <2>2
    <3>2. \A type : HasType(writer'[p].data, type) <=> HasType(writer[p].data, type) \/ m.type = type
      <4>1. <<m>> \in Seq(Message) /\ \A type : HasType(<<m>>, type) <=> m.type = type
        BY OneMessage
      <4>2. writer[p].data \in Seq(Message)
        BY EndParts
      <4>3. ASSUME NEW type
            PROVE  HasType(writer[p].data \o <<m>>, type)
                       <=> HasType(writer[p].data, type) \/ HasType(<<m>>, type)
        <5> DEFINE s == writer[p].data
                   t == <<m>>
        <5> HIDE DEF s, t
        <5> QED
          BY <4>1, <4>2, HasConcat DEF s, t
      <4> QED
        BY <3>1, <4>1, <4>3
    <3> QED
      BY <1>1, <1>6, <3>1, <3>2
  <2> QED
    BY <2>1, <2>2
<1>8. SocketsInOrder'
  BY <1>2, StreamsParts DEF SocketsInOrder, Unattached, HandedOff
<1>9. ClientWaits'
  <2>1. isReconnecting["client"] => writer'["client"].data = writer["client"].data
    BY <1>1, <1>3, <1>6, Ends
  <2>2. isReconnecting["client"] => Stream("client")' = Stream("client")
    BY <1>2, <2>1 DEF Stream
  <2> QED
    BY <1>2, <1>5, <2>1, <2>2 DEF ClientWaits
<1>10. ASSUME NEW n \in Sockets PROVE IsQuiet(n)'
  <2>1. IsQuiet(n) /\ writer'["client"].paused = writer["client"].paused
    BY <1>1, <1>6, StreamsParts, Ends
  <2> QED
    BY <1>2, <2>1 DEF IsQuiet, Unattached, HandedOff
<1>11. ASSUME NEW r \in Endpoint PROVE NoReplayAsked(r)' /\ ComesInOrder(r)'
  <2>1. NoReplayAsked(r) /\ ComesInOrder(r)
    BY StreamsParts
  <2> QED
    BY <1>2, <1>3, <1>7, <2>1 DEF NoReplayAsked, ComesInOrder
<1>12. StreamIsWhole(p)'
  <2>1. CASE isReconnecting[p]
    <3>1. Stream(p)' = Stream(p)
      BY <1>2, <1>3, <2>1 DEF Stream
    <3> QED
      BY <1>1, <1>2, <1>3, <1>5, <2>1, <3>1 DEF StreamIsWhole, q
  <2>2. CASE ~isReconnecting[p] /\ ~closed[socket[p]]
    <3>1. PICK m \in Message : /\ m.type = "Regular" /\ m.id = out[p].msgId + 1
                               /\ writer'[p].data = writer[p].data \o <<m>>
      BY <1>4, <2>2
    <3>2. Stream(p)' = Stream(p) \o <<m>>
      <4>1. /\ wire[q][socket[p]] \in Seq(Message) /\ writer[p].data \in Seq(Message)
            /\ <<m>> \in Seq(Message)
        BY EndParts, OneMessage DEF q
      <4>2. (wire[q][socket[p]] \o writer[p].data) \o <<m>> = wire[q][socket[p]] \o (writer[p].data \o <<m>>)
        BY <4>1, ConcatTwice
      <4> QED
        BY <1>2, <3>1, <4>2 DEF Stream, q
    <3>3. /\ inc[q].msgId \in Nat /\ out[p].msgId \in Nat /\ Stream(p) \in Seq(Message)
          /\ inc[q].msgId <= out[p].msgId
      BY <1>1, EndParts, Numbers DEF q
    <3>4. Unbroken(Stream(p), inc[q].msgId) /\ Brings(Stream(p), inc[q].msgId, out[p].msgId)
      BY <1>5, <2>2 DEF StreamIsWhole, q
    <3>5. /\ Unbroken(Stream(p) \o <<m>>, inc[q].msgId)
          /\ Brings(Stream(p) \o <<m>>, inc[q].msgId, out[p].msgId + 1)
      BY <3>1, <3>3, <3>4, UnbrokenNext
    <3> QED
      BY <1>1, <1>2, <1>3, <3>2, <3>5 DEF StreamIsWhole, q
  <2>3. CASE closed[socket[p]]
    BY <1>2, <2>3 DEF StreamIsWhole
  <2> QED
    BY <2>1, <2>2, <2>3
<1>13. StreamIsWhole(q)'
  <2>1. Stream(q)' = Stream(q)
    BY <1>2, <1>6 DEF Stream
  <2> QED
    BY <1>1, <1>2, <1>3, <1>5, <2>1 DEF StreamIsWhole
<1>14. FarewellIsLast(p)' /\ FarewellIsLast(q)'
  <2>1. ~HasType(writer'[p].data, "Disconnect") /\ ~HasType(writer'[q].data, "Disconnect")
    BY <1>1, <1>5, <1>7 DEF FarewellIsLast
  <2>2. FarewellIsLast(p)'
    BY <1>2, <1>5, <2>1 DEF FarewellIsLast
  <2>3. FarewellIsLast(q)'
    BY <1>1, <1>2, <1>3, <1>5, <2>1 DEF FarewellIsLast
  <2> QED
    BY <2>2, <2>3
<1>15. NothingCutOff'
  <2>1. ~peerLeft[q]
    BY <1>2, <1>5 DEF FarewellIsLast, q
  <2>2. NothingCutOff
    BY StreamsParts
  <2>3. ASSUME NEW r \in Endpoint, drops' = 0, peerLeft'[r], ~isReconnecting'[Peer(r)]
        PROVE  delivered'[r] = sent'[Peer(r)]
    <3>1. r = p
      BY <1>1, <1>2, <2>1, <2>3
    <3>2. delivered[r] = sent[q]
      BY <1>2, <2>2, <2>3, <3>1 DEF NothingCutOff, q
    <3> QED
      BY <1>2, <3>1, <3>2 DEF q
  <2> QED
    BY <2>3 DEF NothingCutOff
<1> QED
  BY <1>1, <1>8, <1>9, <1>10, <1>11, <1>12, <1>13, <1>14, <1>15 DEF Streams

-----------------------------------------------------------------------------
(* Steps that take a message off a socket.                                   *)

\* p may go on writing msgs behind any stream without a gap.
GoesOn(p, msgs) ==
    /\ msgs \in Seq(Message)
    /\ ~HasType(msgs, "ReplayRequest") /\ ~HasType(msgs, "Disconnect")
    /\ \A s \in Seq(Message) : Unbroken(s, inc[Peer(p)].msgId)
                                   => Unbroken(s \o msgs, inc[Peer(p)].msgId)

LEMMA NothingGoesOn ==
    ASSUME NEW p
    PROVE  GoesOn(p, <<>>)
BY EmptyStream, ConcatTwice DEF GoesOn

\* The stream that loses its first message, or receives it: f is what p has received then.
LEMMA StreamTail ==
    ASSUME NEW s \in Seq(Message), NEW t \in Seq(Message), s # <<>>, NEW e \in Nat, NEW f \in Nat,
           e <= f, Head(s).type = "Regular" => Head(s).id <= f, NEW last \in Nat
    PROVE  /\ Unbroken(s \o t, e) => Unbroken(Tail(s) \o t, f)
           /\ Brings(s \o t, e, last) => Brings(Tail(s) \o t, f, last)
<1> DEFINE u == s \o t
<1>1. u \in Seq(Message) /\ u # <<>> /\ Head(u) = Head(s) /\ Tail(u) = Tail(s) \o t
  BY TailConcat, ConcatIs
<1> HIDE DEF u
<1>2. Unbroken(u, e) => Unbroken(Tail(u), f)
  BY <1>1, UnbrokenTail
<1>3. Brings(u, e, last) => Brings(Tail(u), f, last)
  BY <1>1, BringsTail
<1> QED
  BY <1>1, <1>2, <1>3 DEF u

LEMMA HeadTaken ==
    ASSUME IInv, IInv', Streams, NEW p \in Endpoint, NEW n \in Sockets, wire[p][n] # <<>>,
           wire' = [wire EXCEPT ![p][n] = Tail(@)],
           NEW msgs, GoesOn(p, msgs), writer'[p].data = writer[p].data \o msgs,
           writer'[Peer(p)].data = writer[Peer(p)].data,
           \A r \in Endpoint : out'[r].msgId = out[r].msgId,
           inc'[Peer(p)].msgId = inc[Peer(p)].msgId, inc[p].msgId <= inc'[p].msgId,
           Head(wire[p][n]).type = "Regular" => Head(wire[p][n]).id <= inc'[p].msgId,
           \A r \in Endpoint : peerLeft'[r] => disposed[Peer(r)],
           isReconnecting'[Peer(p)] = isReconnecting[Peer(p)],
           \/ isReconnecting'[p] = isReconnecting[p]
           \/ ~disposed[p] /\ Brings(msgs, inc[Peer(p)].msgId, out[p].msgId),
           UNCHANGED <<socket, closed, handled, handoff, drops, disposed>>
    PROVE  /\ SocketsInOrder'
           /\ \A r \in Endpoint : /\ NoReplayAsked(r)' /\ ComesInOrder(r)'
                                  /\ StreamIsWhole(r)' /\ FarewellIsLast(r)'
           /\ \A k \in Sockets : \A type : HasType(wire'[p][k], type) => HasType(wire[p][k], type)
           /\ \A type : HasType(Stream(Peer(p))', type) => HasType(Stream(Peer(p)), type)
<1> DEFINE q == Peer(p)
           x == wire[p][n]
<1>1. /\ q \in Endpoint /\ Peer(q) = p /\ q # p /\ \A r \in Endpoint : r = p \/ r = q
      /\ x \in Seq(Message) /\ x # <<>> /\ msgs \in Seq(Message)
      /\ inc[p].msgId \in Nat /\ inc'[p].msgId \in Nat
      /\ out[q].msgId \in Nat /\ out[p].msgId \in Nat /\ inc[q].msgId \in Nat
  <2>1. inc'[p].msgId \in Nat
    <3>1. TypeOK'
      BY DEF IInv
    <3> QED
      BY <3>1 DEF TypeOK
  <2> QED
    BY <2>1, EndParts, Ends DEF GoesOn
<1>2. /\ wire'[p][n] = Tail(x) /\ wire'[q] = wire[q]
      /\ \A k \in Sockets \ {n} : wire'[p][k] = wire[p][k]
  BY <1>1, Parts
<1>3. Head(x).type = "Regular" => Head(x).id <= inc'[p].msgId
  OBVIOUS
<1> HIDE DEF q, x
<1>4. \A k \in Sockets : \A type : HasType(wire'[p][k], type) => HasType(wire[p][k], type)
  <2> TAKE k \in Sockets
  <2> TAKE type
  <2>1. HasType(Tail(x), type) => HasType(x, type)
    BY <1>1, TailHas
  <2> QED
    BY <1>2, <2>1 DEF x
<1>5. /\ FarewellIsLast(p) /\ FarewellIsLast(q) /\ StreamIsWhole(p) /\ StreamIsWhole(q)
      /\ NoReplayAsked(p) /\ NoReplayAsked(q) /\ ComesInOrder(p) /\ ComesInOrder(q) /\ SocketsInOrder
  BY <1>1, StreamsParts
<1>6. /\ writer[q].data \in Seq(Message) /\ writer[p].data \in Seq(Message)
      /\ Stream(p) \in Seq(Message) /\ Stream(q) \in Seq(Message)
      /\ socket[p] \in Sockets /\ socket[q] \in Sockets
      /\ \A k \in Sockets : wire[p][k] \in Seq(Message) /\ wire[q][k] \in Seq(Message)
  BY <1>1, EndParts
<1>7. /\ \A type : HasType(writer'[p].data, type) => HasType(writer[p].data, type) \/ HasType(msgs, type)
      /\ writer'[q].data = writer[q].data
      /\ Stream(p)' = Stream(p) \o msgs
  <2>1. (wire[q][socket[p]] \o writer[p].data) \o msgs = wire[q][socket[p]] \o (writer[p].data \o msgs)
    <3> DEFINE y == wire[q][socket[p]]
               d == writer[p].data
    <3>1. y \in Seq(Message) /\ d \in Seq(Message)
      BY <1>6
    <3> HIDE DEF y, d
    <3>2. (y \o d) \o msgs = y \o (d \o msgs)
      BY <1>1, <3>1, ConcatTwice
    <3> QED
      BY <3>2 DEF y, d
  <2>2. Stream(p)' = Stream(p) \o msgs
    BY <1>2, <2>1 DEF Stream, q
  <2> QED
    BY <1>1, <1>6, <2>2, HasConcat DEF q
<1>8. socket[q] # n => Stream(q)' = Stream(q)
  <2>1. Peer(q) = p /\ socket'[q] = socket[q] /\ writer'[q].data = writer[q].data
    BY <1>1, <1>7
  <2>2. Stream(q) = wire[p][socket[q]] \o writer[q].data
    BY <2>1 DEF Stream
  <2>3. Stream(q)' = wire'[p][socket[q]] \o writer[q].data
    BY <2>1 DEF Stream
  <2>4. socket[q] # n => wire'[p][socket[q]] = wire[p][socket[q]]
    BY <1>2, <1>6
  <2> QED
    BY <2>2, <2>3, <2>4
<1>9. socket[q] = n => Stream(q)' = Tail(x) \o writer[q].data /\ Stream(q) = x \o writer[q].data
  BY <1>1, <1>2, <1>7 DEF Stream, x
<1>10. SocketsInOrder'
  <2>1. \A k \in Sockets : k > socket["client"] => k # n
    BY <1>1, <1>5 DEF SocketsInOrder, x
  <2>2. \A k \in Sockets : k > socket["client"] => \A r \in Endpoint : wire'[r][k] = wire[r][k]
    BY <1>1, <1>2, <2>1
  <2> QED
    BY <1>5, <2>2 DEF SocketsInOrder, Unattached, HandedOff
<1>11. NoReplayAsked(p)' /\ NoReplayAsked(q)'
  BY <1>2, <1>4, <1>5, <1>7 DEF NoReplayAsked, GoesOn
<1>12. ComesInOrder(p)'
  <2>1. ASSUME NEW k \in Sockets PROVE Unbroken(wire'[p][k], inc'[p].msgId)
    <3>1. Unbroken(wire[p][k], inc[p].msgId)
      BY <1>5 DEF ComesInOrder
    <3>2. CASE k = n
      BY <1>1, <1>2, <1>3, <3>1, <3>2, UnbrokenTail DEF x
    <3>3. CASE k # n
      BY <1>1, <1>2, <1>6, <3>1, <3>3, UnbrokenLater
    <3> QED
      BY <3>2, <3>3
  <2> QED
    BY <2>1 DEF ComesInOrder
<1>13. ComesInOrder(q)'
  BY <1>2, <1>5 DEF ComesInOrder, q
<1>14. StreamIsWhole(p)'
  <2> SUFFICES ASSUME ~closed[socket[p]]
               PROVE  /\ Unbroken(Stream(p)', inc[q].msgId)
                      /\ ~isReconnecting'[p] => Brings(Stream(p)', inc[q].msgId, out[p].msgId)
    BY DEF StreamIsWhole, q
  <2>1. /\ Unbroken(Stream(p), inc[q].msgId)
        /\ ~isReconnecting[p] => Brings(Stream(p), inc[q].msgId, out[p].msgId)
    BY <1>5 DEF StreamIsWhole, q
  <2>2. Unbroken(Stream(p) \o msgs, inc[q].msgId)
    BY <1>6, <2>1 DEF GoesOn, q
  <2>3. Brings(Stream(p), inc[q].msgId, out[p].msgId) \/ Brings(msgs, inc[q].msgId, out[p].msgId)
            => Brings(Stream(p) \o msgs, inc[q].msgId, out[p].msgId)
    BY <1>1, <1>6, BringsConcat
  <2> QED
    BY <1>7, <2>1, <2>2, <2>3 DEF q
<1>15. StreamIsWhole(q)'
  <2> SUFFICES ASSUME ~closed[socket[q]]
               PROVE  /\ Unbroken(Stream(q)', inc'[p].msgId)
                      /\ ~isReconnecting[q] => Brings(Stream(q)', inc'[p].msgId, out[q].msgId)
    BY <1>1 DEF StreamIsWhole, q
  <2>1. /\ Unbroken(Stream(q), inc[p].msgId)
        /\ ~isReconnecting[q] => Brings(Stream(q), inc[p].msgId, out[q].msgId)
    BY <1>1, <1>5 DEF StreamIsWhole
  <2>2. CASE socket[q] = n
    <3> DEFINE e == inc[p].msgId
               f == inc'[p].msgId
               d == writer[q].data
    <3>1. e \in Nat /\ f \in Nat /\ e <= f /\ d \in Seq(Message)
      BY <1>1, <1>6
    <3>2. Stream(q) = x \o d /\ Stream(q)' = Tail(x) \o d
      BY <1>9, <2>2
    <3>3. Head(x).type = "Regular" => Head(x).id <= f
      BY <1>3
    <3> HIDE DEF e, f, d
    <3>4. /\ Unbroken(x \o d, e) => Unbroken(Tail(x) \o d, f)
          /\ Brings(x \o d, e, out[q].msgId) => Brings(Tail(x) \o d, f, out[q].msgId)
      BY <1>1, <3>1, <3>3, StreamTail
    <3> QED
      BY <2>1, <3>2, <3>4 DEF e, f
  <2>3. CASE socket[q] # n
    BY <1>1, <1>6, <1>8, <2>1, <2>3, UnbrokenLater, BringsLater
  <2> QED
    BY <2>2, <2>3
<1>16. FarewellIsLast(p)'
  <2>1. \A k \in Sockets : HasType(wire[q][k], "Disconnect") => disposed[p]
    BY <1>5 DEF FarewellIsLast, q
  <2>2. ~HasType(writer'[p].data, "Disconnect")
    BY <1>5, <1>7 DEF FarewellIsLast, GoesOn
  <2>3. peerLeft'[q] => disposed[p]
    BY <1>1
  <2> QED
    BY <1>1, <1>2, <1>5, <2>1, <2>2, <2>3 DEF FarewellIsLast, q
<1>17. FarewellIsLast(q)'
  <2>1. ~HasType(writer'[q].data, "Disconnect") /\ (peerLeft'[p] => disposed[q])
    BY <1>1, <1>5, <1>7 DEF FarewellIsLast, q
  <2>2. ASSUME NEW k \in Sockets, HasType(wire'[p][k], "Disconnect")
        PROVE  /\ EndsWith(wire'[p][k], "Disconnect") /\ k = socket[q] /\ disposed[q]
               /\ ~isReconnecting[q] => Brings(wire'[p][k], inc'[p].msgId, out[q].msgId)
    <3>1. HasType(wire[p][k], "Disconnect")
      BY <1>4, <2>2
    <3>2. /\ EndsWith(wire[p][k], "Disconnect") /\ k = socket[q] /\ disposed[q]
          /\ ~isReconnecting[q] => Brings(wire[p][k], inc[p].msgId, out[q].msgId)
      BY <1>1, <1>5, <3>1 DEF FarewellIsLast
    <3>3. CASE k = n
      BY <1>1, <1>2, <1>3, <3>2, <3>3, EndsTail, BringsTail DEF x
    <3>4. CASE k # n
      <4> DEFINE y == wire[p][k]
      <4>1. y \in Seq(Message) /\ wire'[p][k] = y
        BY <1>2, <1>6, <3>4
      <4> HIDE DEF y
      <4>2. Brings(y, inc[p].msgId, out[q].msgId) => Brings(y, inc'[p].msgId, out[q].msgId)
        BY <1>1, <4>1, BringsLater
      <4> QED
        BY <3>2, <4>1, <4>2 DEF y
    <3> QED
      BY <3>3, <3>4
  <2> QED
    BY <1>1, <2>1, <2>2 DEF FarewellIsLast, q
<1>18. \A type : HasType(Stream(q)', type) => HasType(Stream(q), type)
  <2> TAKE type
  <2>1. CASE socket[q] = n
    <3> DEFINE d == writer[q].data
    <3>0. d \in Seq(Message) /\ Tail(x) \in Seq(Message)
      BY <1>1, <1>6, TailIs
    <3> HIDE DEF d
    <3>1. /\ HasType(Tail(x) \o d, type) <=> HasType(Tail(x), type) \/ HasType(d, type)
          /\ HasType(x \o d, type) <=> HasType(x, type) \/ HasType(d, type)
          /\ HasType(Tail(x), type) => HasType(x, type)
      BY <1>1, <3>0, TailHas, HasConcat
    <3> QED
      BY <1>9, <2>1, <3>1 DEF d
  <2>2. CASE socket[q] # n
    BY <1>8, <2>2
  <2> QED
    BY <2>1, <2>2
<1> QED
  BY <1>1, <1>4, <1>10, <1>11, <1>12, <1>13, <1>14, <1>15, <1>16, <1>17, <1>18 DEF q

\* An end that has heard its peer leave has a peer that has left.
LEMMA LeftHasLeft ==
    ASSUME Streams, NEW r \in Endpoint, peerLeft[r]
    PROVE  disposed[Peer(r)]
<1>1. Peer(r) \in Endpoint /\ Peer(Peer(r)) = r
  BY Ends
<1>2. FarewellIsLast(Peer(r))
  BY <1>1, StreamsParts
<1> QED
  BY <1>1, <1>2 DEF FarewellIsLast

\* What is lost on a socket that nobody reads is no data.
LEMMA LostUnread ==
    ASSUME IInv, IInv', Streams, NEW n \in Sockets, Unattached(n), wire["server"][n] # <<>>,
           wire' = [wire EXCEPT !["server"][n] = Tail(@)],
           UNCHANGED <<endVars, socket, attempt, control, closed, handled, handoff, drops,
                       lifeVars, sent, delivered>>
    PROVE  Streams'
<1>1. UNCHANGED <<out, inc, writer, isReconnecting, socket, attempt, control, closed, handled, handoff,
                  drops, disposed, peerLeft, sent, delivered>>
  BY DEF endVars, lifeVars
<1>2. Head(wire["server"][n]).type # "Regular"
  <2>1. ~HasType(wire["server"][n], "Regular")
    BY StreamsParts DEF IsQuiet
  <2> QED
    BY <2>1, EndParts, Ends, TailHas
<1>3. /\ GoesOn("server", <<>>) /\ writer'["server"].data = writer["server"].data \o <<>>
      /\ inc["server"].msgId <= inc'["server"].msgId
      /\ \A r \in Endpoint : peerLeft'[r] => disposed[Peer(r)]
  BY <1>1, NothingGoesOn, EndParts, Ends, ConcatTwice, LeftHasLeft
<1>4. /\ SocketsInOrder'
      /\ \A r \in Endpoint : /\ NoReplayAsked(r)' /\ ComesInOrder(r)'
                             /\ StreamIsWhole(r)' /\ FarewellIsLast(r)'
      /\ \A k \in Sockets : \A type : HasType(wire'["server"][k], type) => HasType(wire["server"][k], type)
      /\ \A type : HasType(Stream("client")', type) => HasType(Stream("client"), type)
  BY <1>1, <1>2, <1>3, Ends, HeadTaken
<1>5. ClientWaits'
  BY <1>1, <1>4, StreamsParts DEF ClientWaits
<1>6. ASSUME NEW k \in Sockets PROVE IsQuiet(k)'
  <2>1. IsQuiet(k) /\ wire'["client"] = wire["client"]
    BY StreamsParts, Parts, Ends
  <2> QED
    BY <1>1, <1>4, <2>1 DEF IsQuiet, Unattached, HandedOff
<1>7. NothingCutOff'
  BY <1>1, StreamsParts DEF NothingCutOff
<1> QED
  BY <1>4, <1>5, <1>6, <1>7 DEF Streams

LEMMA HandshakeIgnoresStreams ==
    ASSUME IInv, IInv', Streams, NEW n \in Sockets, HandshakeIgnores(n)
    PROVE  Streams'
BY LostUnread DEF HandshakeIgnores, Unattached

LEMMA LoseInHandOffStreams ==
    ASSUME IInv, IInv', Streams, NEW h \in handoff, LoseInHandOff(h)
    PROVE  Streams'
<1>1. h.socket \in Sockets /\ Unattached(h.socket)
  BY Parts DEF Unattached, HandedOff
<1> QED
  BY <1>1, LostUnread DEF LoseInHandOff

\* What is written at the end of a reconnection: all that the peer may lack.
Replay(ack, o, more) == <<Plain("Ack", ack)>> \o o.unack \o more

LEMMA ReplayIs ==
    ASSUME IInv, NEW p \in Endpoint, NEW ack \in Nat, NEW o \in Half, Outgoing(p, o),
           NEW more \in Seq(Message), Plains(more)
    PROVE  /\ GoesOn(p, Replay(ack, o, more))
           /\ Brings(Replay(ack, o, more), inc[Peer(p)].msgId, out[p].msgId)
<1> DEFINE q == Peer(p)
           e == inc[q].msgId
           a == <<Plain("Ack", ack)>>
           u == o.unack
           au == a \o u
<1>1. /\ q \in Endpoint /\ e \in Nat /\ out[p].msgId \in Nat /\ o.ackId \in Nat /\ o.ackId <= e
      /\ o.msgId = out[p].msgId /\ u \in Seq(Message) /\ Len(u) = out[p].msgId - o.ackId
      /\ \A i \in 1..Len(u) : u[i].type = "Regular" /\ u[i].id = o.ackId + i
  <2>1. /\ Len(u) = o.msgId - o.ackId /\ o.msgId = Len(sent[p]) /\ o.ackId <= e
        /\ \A i \in 1..Len(u) : u[i].type = "Regular" /\ u[i].id = o.ackId + i
    BY DEF Outgoing
  <2>2. out[p].msgId = Len(sent[p]) /\ e \in Nat /\ q \in Endpoint /\ out[p].msgId \in Nat
    BY Numbers, EndParts, Ends
  <2> QED
    BY <2>1, <2>2 DEF Half
<1>2. a \in Seq(Message) /\ Plains(a)
  <2>1. "Ack" \in Types \ {"Regular", "ReplayRequest", "Disconnect"}
    BY DEF Types
  <2> QED
    BY <2>1, PlainMessage
<1> HIDE DEF q, e, a, u
<1>3. DOMAIN u = 1..Len(u)
  BY <1>1, LenProperties
<1>4. ~HasType(u, "ReplayRequest") /\ ~HasType(u, "Disconnect")
  BY <1>1, <1>3 DEF HasType
<1>5. /\ au \in Seq(Message)
      /\ \A type : HasType(au, type) <=> HasType(a, type) \/ HasType(u, type)
  BY <1>1, <1>2, ConcatIs, HasConcat
<1>6. Brings(au, e, out[p].msgId)
  <2>1. Brings(u, e, out[p].msgId)
    BY <1>1, QueueBrings
  <2> QED
    BY <1>1, <1>2, <2>1, BringsConcat
<1>7. \A s \in Seq(Message) : Unbroken(s, e) => Unbroken(s \o au, e)
  <2> SUFFICES ASSUME NEW s \in Seq(Message), Unbroken(s, e) PROVE Unbroken(s \o au, e)
    OBVIOUS
  <2> DEFINE x == s \o a
  <2>1. x \in Seq(Message) /\ x \o u = s \o au
    <3>1. x \in Seq(Message)
      BY <1>2, ConcatIs
    <3>2. (s \o a) \o u = s \o (a \o u)
      BY ONLY <1>1, <1>2, s \in Seq(Message), ConcatTwice
    <3> QED
      BY <3>1, <3>2
  <2>2. Unbroken(x, e)
    <3>1. ~HasType(a, "Regular")
      BY <1>2 DEF Plains
    <3> QED
      BY <1>1, <1>2, <3>1, UnbrokenPlain
  <2> HIDE DEF x
  <2>3. Unbroken(x \o u, e)
    BY <1>1, <2>1, <2>2, UnbrokenQueue
  <2> QED
    BY <2>1, <2>3
<1> DEFINE all == au \o more
<1> HIDE DEF au
<1>8. all \in Seq(Message) /\ ~HasType(all, "ReplayRequest") /\ ~HasType(all, "Disconnect")
  BY <1>2, <1>4, <1>5, ConcatIs, HasConcat DEF Plains
<1>9. \A s \in Seq(Message) : Unbroken(s, e) => Unbroken(s \o all, e)
  <2> SUFFICES ASSUME NEW s \in Seq(Message), Unbroken(s, e) PROVE Unbroken(s \o all, e)
    OBVIOUS
  <2> DEFINE x == s \o au
  <2>1. x \in Seq(Message) /\ x \o more = s \o all /\ Unbroken(x, e)
    BY <1>5, <1>7, ConcatIs, ConcatTwice
  <2> HIDE DEF x, all
  <2>2. Unbroken(x \o more, e)
    BY <1>1, <2>1, UnbrokenPlain DEF Plains
  <2> QED
    BY <2>1, <2>2
<1>10. Brings(all, e, out[p].msgId)
  BY <1>1, <1>5, <1>6, BringsConcat
<1>11. Replay(ack, o, more) = all
  BY DEF Replay, all, au, a, u
<1> HIDE DEF all
<1> QED
  BY <1>8, <1>9, <1>10, <1>11 DEF GoesOn, e, q

LEMMA EndAcceptIs ==
    ASSUME IInv, NEW p \in Endpoint, NEW o \in Half, Outgoing(p, o), NEW w \in WriterType,
           NEW more \in Seq(Message), Plains(more), EndAcceptReconnection(p, o, w, more)
    PROVE  /\ writer'[p].data = w.data \o Replay(inc[p].msgId, o, more)
           /\ writer'[p].paused = w.paused /\ writer'[Peer(p)] = writer[Peer(p)]
           /\ isReconnecting'[p] = FALSE /\ isReconnecting'[Peer(p)] = isReconnecting[Peer(p)]
           /\ \A r \in Endpoint : out'[r].msgId = out[r].msgId
<1> DEFINE msgs == Replay(inc[p].msgId, o, more)
           x == Write(w, msgs)
<1>1. msgs \in Seq(Message)
  BY EndParts, ReplayIs DEF GoesOn
<1>2. writer' = [writer EXCEPT ![p] = x] /\ isReconnecting' = [isReconnecting EXCEPT ![p] = FALSE]
  BY DEF EndAcceptReconnection, Replay
<1> HIDE DEF msgs
<1>3. x.data = w.data \o msgs /\ x.paused = w.paused
  BY <1>1, WriteIs
<1> HIDE DEF x
<1>4. RecvAckCheckAnew(p, o)
  BY DEF EndAcceptReconnection
<1>5. o.msgId = out[p].msgId
  BY Numbers DEF Outgoing
<1>6. \A r \in Endpoint : out'[r].msgId = out[r].msgId
  BY <1>4, <1>5, RecvAckCheckNumbers
<1> QED
  BY <1>2, <1>3, <1>6, Parts, Ends DEF msgs

\* A message is received: all but what the peer's leaving means.
LEMMA Receives ==
    ASSUME IInv, IInv', Streams, NEW p \in Endpoint, wire[p][socket[p]] # <<>>,
           wire' = [wire EXCEPT ![p][socket[p]] = Tail(@)],
           NEW msgs, GoesOn(p, msgs), writer'[p].data = writer[p].data \o msgs,
           writer'[Peer(p)] = writer[Peer(p)],
           p = "client" /\ socket[p] \in HandedOff => writer'[p].paused,
           \A r \in Endpoint : out'[r].msgId = out[r].msgId,
           inc'[Peer(p)].msgId = inc[Peer(p)].msgId, inc[p].msgId <= inc'[p].msgId,
           Head(wire[p][socket[p]]).type = "Regular" => Head(wire[p][socket[p]]).id <= inc'[p].msgId,
           \A r \in Endpoint : peerLeft'[r] => disposed[Peer(r)],
           isReconnecting'[Peer(p)] = isReconnecting[Peer(p)],
           \/ isReconnecting'[p] = isReconnecting[p] /\ msgs = <<>>
           \/ /\ ~disposed[p] /\ ~isReconnecting'[p]
              /\ Brings(msgs, inc[Peer(p)].msgId, out[p].msgId),
           p = "server" => UNCHANGED <<attempt, control>>,
           attempt' # "begun" \/ attempt' = attempt,
           UNCHANGED <<socket, closed, handled, handoff, drops, disposed>>
    PROVE  /\ SocketsInOrder' /\ ClientWaits' /\ \A k \in Sockets : IsQuiet(k)'
           /\ \A r \in Endpoint : /\ NoReplayAsked(r)' /\ ComesInOrder(r)'
                                  /\ StreamIsWhole(r)' /\ FarewellIsLast(r)'
<1> DEFINE n == socket[p]
<1>1. /\ n \in Sockets /\ Peer(p) \in Endpoint /\ writer'[Peer(p)].data = writer[Peer(p)].data
      /\ \/ isReconnecting'[p] = isReconnecting[p]
         \/ ~disposed[p] /\ Brings(msgs, inc[Peer(p)].msgId, out[p].msgId)
  BY EndParts, Ends
<1>2. /\ SocketsInOrder'
      /\ \A r \in Endpoint : /\ NoReplayAsked(r)' /\ ComesInOrder(r)'
                             /\ StreamIsWhole(r)' /\ FarewellIsLast(r)'
      /\ \A k \in Sockets : \A type : HasType(wire'[p][k], type) => HasType(wire[p][k], type)
      /\ \A type : HasType(Stream(Peer(p))', type) => HasType(Stream(Peer(p)), type)
  BY <1>1, HeadTaken
<1>3. /\ wire'[p][n] = Tail(wire[p][n]) /\ wire'[Peer(p)] = wire[Peer(p)]
      /\ \A k \in Sockets \ {n} : wire'[p][k] = wire[p][k]
  BY <1>1, Parts, Ends
<1>4. ClientWaits /\ \A k \in Sockets : IsQuiet(k)
  BY StreamsParts
<1>5. p = "client" => n \in handled
  BY <1>1, <1>4 DEF IsQuiet
<1>6. ~isReconnecting["server"] /\ ~isReconnecting'["server"]
  BY <1>4, Ends DEF ClientWaits
<1>7. isReconnecting'["client"] => isReconnecting["client"] /\ writer'["client"].data = writer["client"].data
  <2>1. writer[p].data \o <<>> = writer[p].data
    BY EndParts, ConcatTwice
  <2> QED
    BY <2>1, <1>1, Ends
<1>8. ClientWaits'
  <2>1. CASE p = "client"
    <3>1. attempt' # "begun"
      BY <1>4, <1>5, <2>1 DEF ClientWaits
    <3> QED
      BY <1>4, <1>5, <1>6, <1>7, <2>1, <3>1 DEF ClientWaits
  <2>2. CASE p = "server"
    <3>1. HasType(Stream("client")', "Control") => HasType(Stream("client"), "Control")
      BY <1>2, <2>2, Ends
    <3>2. isReconnecting'["client"] = isReconnecting["client"]
      BY <2>2, Ends
    <3> QED
      BY <1>4, <1>6, <1>7, <2>2, <3>1, <3>2 DEF ClientWaits
  <2> QED
    BY <2>1, <2>2, Ends
<1>9. ASSUME NEW k \in Sockets PROVE IsQuiet(k)'
  <2>1. Unattached(k)' = Unattached(k) /\ HandedOff' = HandedOff
    BY DEF Unattached, HandedOff
  <2>2. CASE p = "client"
    <3>1. wire'["server"] = wire["server"] /\ (k # n => wire'["client"][k] = wire["client"][k])
      BY <1>3, <2>2, Ends
    <3>2. k \notin handled => wire'["client"][k] = <<>>
      BY <1>4, <1>5, <2>2, <3>1 DEF IsQuiet
    <3>3. Unattached(k) => ~HasType(wire'["server"][k], "Regular")
      BY <1>4, <3>1 DEF IsQuiet
    <3>4. CASE k = n
      <4>1. k \in HandedOff => wire'["client"][k] \in {<<>>, Tail(HandOffAnswer), HandOffAnswer}
        <5>1. k \in HandedOff => wire["client"][k] \in {Tail(HandOffAnswer), HandOffAnswer}
          BY <1>1, <1>4, <2>2, <3>4 DEF IsQuiet
        <5>2. Tail(Tail(HandOffAnswer)) = <<>>
          BY DEF HandOffAnswer
        <5> QED
          BY <1>3, <2>2, <3>4, <5>1, <5>2
      <4>2. k \in HandedOff => writer'["client"].paused
        BY <2>2, <3>4
      <4> QED
        BY <2>1, <3>2, <3>3, <4>1, <4>2 DEF IsQuiet
    <3>5. CASE k # n
      BY <1>4, <2>1, <2>2, <3>1, <3>5 DEF IsQuiet
    <3> QED
      BY <3>4, <3>5
  <2>3. CASE p = "server"
    <3>1. /\ wire'["client"] = wire["client"] /\ writer'["client"] = writer["client"]
          /\ isReconnecting'["client"] = isReconnecting["client"]
          /\ HasType(wire'["server"][k], "Regular") => HasType(wire["server"][k], "Regular")
      BY <1>2, <1>3, <2>3, Ends
    <3> QED
      BY <1>4, <2>1, <3>1 DEF IsQuiet
  <2> QED
    BY <2>2, <2>3, Ends
<1> QED
  BY <1>2, <1>8, <1>9

\* The message received and the outgoing half its acknowledgement leaves.
LEMMA ReceivedIs ==
    ASSUME IInv, Streams, NEW p \in Endpoint, NEW m, NEW o, wire[p][socket[p]] # <<>>, ~disposed[p],
           m = Head(wire[p][socket[p]]), o = Confirm(out[p], m.ack)
    PROVE  /\ m \in Message /\ m.id \in Nat /\ o \in Half /\ Outgoing(p, o) /\ o.msgId = out[p].msgId
           /\ m.type = "Regular" => m.id <= inc[p].msgId + 1
           /\ m.type # "ReplayRequest"
           /\ p = "client" /\ socket[p] \in HandedOff =>
                  m.type \in {"Pause", "Control"} /\ (m.type = "Control" => writer[p].paused)
<1> DEFINE x == wire[p][socket[p]]
<1>1. socket[p] \in Sockets /\ x \in Seq(Message) /\ inc[p].msgId \in Nat /\ x # <<>> /\ m = Head(x)
  BY EndParts
<1>2. m \in Message /\ m.id \in Nat
  BY <1>1, TailIs DEF Message
<1>3. o \in Half /\ Outgoing(p, o) /\ o.msgId = out[p].msgId
  <2>1. m \in Written(Peer(p)) /\ m.ack \in Nat /\ m.ack <= inc[Peer(p)].msgId
    BY <1>1, TailKept DEF Written, Message
  <2>2. o \in Half /\ Outgoing(p, o)
    BY <2>1, State, ConfirmKept
  <2> QED
    BY <2>2, Numbers DEF Outgoing
<1>4. NoReplayAsked(p) /\ ComesInOrder(p) /\ IsQuiet(socket[p])
  BY <1>1, StreamsParts
<1> HIDE DEF x
<1>5. m.type = "Regular" => m.id <= inc[p].msgId + 1
  <2>1. Unbroken(x, inc[p].msgId)
    BY <1>1, <1>4 DEF ComesInOrder, x
  <2> QED
    BY <1>1, <2>1, HeadIsNext
<1>6. m.type # "ReplayRequest"
  <2>1. ~HasType(x, "ReplayRequest")
    BY <1>1, <1>4 DEF NoReplayAsked, x
  <2> QED
    BY <1>1, <2>1, TailHas
<1>7. ASSUME p = "client", socket[p] \in HandedOff
      PROVE  m.type \in {"Pause", "Control"} /\ (m.type = "Control" => writer[p].paused)
  <2>1. x \in {Tail(HandOffAnswer), HandOffAnswer}
    BY <1>1, <1>4, <1>7 DEF IsQuiet, x
  <2>2. /\ Head(HandOffAnswer).type = "Pause" /\ Head(Tail(HandOffAnswer)).type = "Control"
        /\ "Pause" # "Control"
    BY DEF HandOffAnswer, Plain
  <2>3. m.type = "Control" => x = Tail(HandOffAnswer)
    BY <1>1, <2>1, <2>2
  <2>4. x = Tail(HandOffAnswer) => writer[p].paused
    BY <1>4, <1>7 DEF IsQuiet, x
  <2> QED
    BY <1>1, <2>1, <2>2, <2>3, <2>4
<1> QED
  BY <1>2, <1>3, <1>5, <1>6, <1>7

\* The cases that write nothing and change no number but, for a new message, its own.
LEMMA ReceivesSilently ==
    ASSUME IInv, IInv', Streams, NEW p \in Endpoint, NEW m, NEW o, wire[p][socket[p]] # <<>>,
           m = Head(wire[p][socket[p]]), o = Confirm(out[p], m.ack), ~disposed[p],
           wire' = [wire EXCEPT ![p][socket[p]] = Tail(@)],
           writer'[p].data = writer[p].data, writer'[Peer(p)] = writer[Peer(p)],
           p = "client" /\ socket[p] \in HandedOff => writer'[p].paused,
           out' = [out EXCEPT ![p] = o],
           inc'[Peer(p)].msgId = inc[Peer(p)].msgId, inc[p].msgId <= inc'[p].msgId,
           m.type = "Regular" => m.id <= inc'[p].msgId,
           \A r \in Endpoint : peerLeft'[r] => disposed[Peer(r)],
           p = "server" => UNCHANGED control,
           UNCHANGED <<isReconnecting, attempt, socket, closed, handled, handoff, drops, disposed>>
    PROVE  NothingCutOff' => Streams'
<1>1. o.msgId = out[p].msgId /\ o \in Half
  BY ReceivedIs
<1>2. \A r \in Endpoint : out'[r].msgId = out[r].msgId
  BY <1>1, Parts
<1>3. GoesOn(p, <<>>) /\ writer'[p].data = writer[p].data \o <<>>
  BY EndParts, ConcatTwice, NothingGoesOn
<1>4. /\ SocketsInOrder' /\ ClientWaits' /\ \A k \in Sockets : IsQuiet(k)'
      /\ \A r \in Endpoint : /\ NoReplayAsked(r)' /\ ComesInOrder(r)'
                             /\ StreamIsWhole(r)' /\ FarewellIsLast(r)'
  BY <1>2, <1>3, Receives
<1> QED
  BY <1>4 DEF Streams

LEMMA ReceiveRegularStreams ==
    ASSUME IInv, IInv', Streams, NEW p \in Endpoint, ReceiveMessage(p), NEW m, NEW o,
           m = Head(wire[p][socket[p]]), o = Confirm(out[p], m.ack), ReceiveRegular(p, m, o)
    PROVE  Streams'
<1>1. /\ ~disposed[p] /\ wire[p][socket[p]] # <<>>
      /\ wire' = [wire EXCEPT ![p][socket[p]] = Tail(@)]
      /\ UNCHANGED <<socket, closed, handled, handoff, drops, disposed, sent>>
  BY DEF ReceiveMessage
<1>2. /\ out' = [out EXCEPT ![p] = o] /\ m.type = "Regular"
      /\ UNCHANGED <<isReconnecting, attempt, control, peerLeft>>
  BY DEF ReceiveRegular
<1>3. /\ m.id \in Nat /\ m.id <= inc[p].msgId + 1 /\ inc[p].msgId \in Nat
      /\ ~(p = "client" /\ socket[p] \in HandedOff)
  BY <1>1, <1>2, ReceivedIs, EndParts
<1>4. ~SkipsAhead(p, m)
  BY <1>3 DEF SkipsAhead
<1>5. \A r \in Endpoint : peerLeft'[r] => disposed[Peer(r)]
  BY <1>2, LeftHasLeft
<1>6. CASE IsDuplicate(p, m) /\ UNCHANGED <<inc, writer, delivered>>
  <2>1. NothingCutOff'
    BY <1>1, <1>2, <1>6, StreamsParts DEF NothingCutOff
  <2>2. m.id <= inc'[p].msgId /\ inc[p].msgId <= inc'[p].msgId
    BY <1>3, <1>6 DEF IsDuplicate
  <2> QED
    BY <1>1, <1>2, <1>3, <1>5, <1>6, <2>1, <2>2, ReceivesSilently
<1>7. CASE /\ ~IsDuplicate(p, m)
           /\ inc' = [inc EXCEPT ![p].msgId = m.id, ![p].recent = inc[p].timer, ![p].timer = TRUE]
           /\ delivered' = [delivered EXCEPT ![p] = Append(@, m.data)]
           /\ UNCHANGED writer
  <2>1. /\ inc'[p].msgId = m.id /\ inc'[Peer(p)] = inc[Peer(p)]
        /\ inc[p].msgId < m.id
    <3> DEFINE x == [inc[p] EXCEPT !.msgId = m.id, !.recent = inc[p].timer, !.timer = TRUE]
    <3>1. inc \in [Endpoint -> Incoming]
      BY Parts
    <3>2. inc' = [inc EXCEPT ![p] = x]
      BY <1>7, <3>1
    <3>3. x.msgId = m.id
      BY <3>1 DEF Incoming
    <3> HIDE DEF x
    <3>4. inc[p].msgId < m.id
      <4>1. ~(m.id <= inc[p].msgId)
        BY <1>7 DEF IsDuplicate
      <4> QED
        BY ONLY <1>3, <4>1
    <3> QED
      BY <3>1, <3>2, <3>3, <3>4, Ends
  <2>2. NothingCutOff'
    <3> DEFINE q == Peer(p)
    <3>1. /\ q \in Endpoint /\ Peer(q) = p /\ \A r \in Endpoint : r = p \/ r = q
          /\ delivered' = [delivered EXCEPT ![p] = Append(delivered[p], m.data)]
          /\ delivered'[q] = delivered[q]
      BY <1>7, Ends, State DEF RestOK
    <3>2. inc'[p].msgId <= Len(sent'[q]) /\ inc[p].msgId = Len(delivered[p])
      <4>1. inc'[p].msgId <= Len(sent'[q])
        BY <3>1 DEF IInv, DeliveredInOrder
      <4>2. inc[p].msgId = Len(delivered[p])
        BY <3>1, Numbers
      <4> QED
        BY <4>1, <4>2
    <3> HIDE DEF q
    <3>3. ASSUME NEW r \in Endpoint, drops' = 0, peerLeft'[r], ~isReconnecting'[Peer(r)]
          PROVE  delivered'[r] = sent'[Peer(r)]
      <4>1. delivered[r] = sent[Peer(r)]
        BY <1>1, <1>2, <3>3, StreamsParts DEF NothingCutOff
      <4>2. r # p
        <5>1. Len(sent[q]) \in Nat /\ Len(delivered[p]) \in Nat
          BY <3>1, State, LenProperties DEF RestOK
        <5> QED
          BY <1>1, <2>1, <3>2, <4>1, <5>1, <1>3 DEF q
      <4> QED
        BY <1>1, <3>1, <4>1, <4>2
    <3> QED
      BY <3>3 DEF NothingCutOff
  <2>3. m.id <= inc'[p].msgId /\ inc[p].msgId <= inc'[p].msgId
    BY <1>3, <2>1
  <2> QED
    BY <1>1, <1>2, <1>3, <1>5, <1>7, <2>1, <2>2, <2>3, ReceivesSilently
<1> QED
  BY <1>4, <1>6, <1>7 DEF ReceiveRegular

LEMMA ReceiveControlStreams ==
    ASSUME IInv, IInv', Streams, NEW p \in Endpoint, ReceiveMessage(p), NEW m, NEW o,
           m = Head(wire[p][socket[p]]), o = Confirm(out[p], m.ack), ReceiveControl(p, m, o)
    PROVE  Streams'
<1>1. /\ ~disposed[p] /\ wire[p][socket[p]] # <<>>
      /\ wire' = [wire EXCEPT ![p][socket[p]] = Tail(@)]
      /\ UNCHANGED <<socket, closed, handled, handoff, drops, disposed, sent>>
  BY DEF ReceiveMessage
<1>2. UNCHANGED <<peerLeft, delivered>> /\ m.type = "Control" /\ "Control" # "Regular"
  BY DEF ReceiveControl
<1>3. /\ o \in Half /\ Outgoing(p, o) /\ inc[p].msgId \in Nat
      /\ p = "client" /\ socket[p] \in HandedOff => writer[p].paused
  BY <1>1, <1>2, ReceivedIs, EndParts
<1>4. \A r \in Endpoint : peerLeft'[r] => disposed[Peer(r)]
  BY <1>2, LeftHasLeft
<1>5. CASE p = "client" /\ attempt = "waiting"
  <2> DEFINE msgs == Replay(inc[p].msgId, o, <<>>)
  <2>1. /\ EndAcceptReconnection(p, o, writer[p], <<>>) /\ attempt' = "none"
        /\ inc' = [inc EXCEPT ![p].ackId = inc[p].msgId]
    BY <1>5 DEF ReceiveControl
  <2>2. /\ writer'[p].data = writer[p].data \o msgs
        /\ writer'[p].paused = writer[p].paused /\ writer'[Peer(p)] = writer[Peer(p)]
        /\ isReconnecting'[p] = FALSE /\ isReconnecting'[Peer(p)] = isReconnecting[Peer(p)]
        /\ \A r \in Endpoint : out'[r].msgId = out[r].msgId
    <3> DEFINE w == writer[p]
               more == <<>>
    <3>1. w \in WriterType /\ more \in Seq(Message) /\ Plains(more)
      BY EndParts, EmptyStream, NothingPlain
    <3>2. EndAcceptReconnection(p, o, w, more)
      BY <2>1
    <3> HIDE DEF w, more
    <3>3. /\ writer'[p].data = w.data \o Replay(inc[p].msgId, o, more)
          /\ writer'[p].paused = w.paused /\ writer'[Peer(p)] = writer[Peer(p)]
          /\ isReconnecting'[p] = FALSE /\ isReconnecting'[Peer(p)] = isReconnecting[Peer(p)]
          /\ \A r \in Endpoint : out'[r].msgId = out[r].msgId
      BY <1>3, <3>1, <3>2, EndAcceptIs, ZenonT(30)
    <3> QED
      BY <3>1, <3>3 DEF w, more
  <2>3. GoesOn(p, msgs) /\ Brings(msgs, inc[Peer(p)].msgId, out[p].msgId)
    BY <1>3, EmptyStream, NothingPlain, ReplayIs
  <2>4. inc'[p].msgId = inc[p].msgId /\ inc'[Peer(p)].msgId = inc[Peer(p)].msgId
    BY <2>1, Parts, Ends DEF Incoming
  <2> HIDE DEF msgs
  <2>5. inc[p].msgId <= inc'[p].msgId
    BY <1>3, <2>4
  <2>6. /\ SocketsInOrder' /\ ClientWaits' /\ \A k \in Sockets : IsQuiet(k)'
        /\ \A r \in Endpoint : /\ NoReplayAsked(r)' /\ ComesInOrder(r)'
                               /\ StreamIsWhole(r)' /\ FarewellIsLast(r)'
    BY <1>1, <1>2, <1>3, <1>4, <1>5, <2>1, <2>2, <2>3, <2>4, <2>5, Receives, Ends
  <2>7. NothingCutOff'
    <3>1. ASSUME NEW r \in Endpoint, drops' = 0, peerLeft'[r], ~isReconnecting'[Peer(r)]
          PROVE  delivered'[r] = sent'[Peer(r)]
      <4>1. Peer(r) # p
        BY <1>1, <1>4, <3>1
      <4>2. isReconnecting'[Peer(r)] = isReconnecting[Peer(r)]
        BY <2>2, <4>1, Ends
      <4> QED
        BY <1>1, <1>2, <3>1, <4>2, StreamsParts DEF NothingCutOff
    <3> QED
      BY <3>1 DEF NothingCutOff
  <2> QED
    BY <2>6, <2>7 DEF Streams
<1>6. CASE ~(p = "client" /\ attempt = "waiting")
  <2>1. /\ out' = [out EXCEPT ![p] = o] /\ UNCHANGED <<inc, writer, isReconnecting, attempt>>
        /\ p = "server" => UNCHANGED control
    BY <1>6, Ends DEF ReceiveControl
  <2>2. NothingCutOff'
    BY <1>1, <1>2, <2>1, StreamsParts DEF NothingCutOff
  <2>3. inc[p].msgId <= inc'[p].msgId /\ (m.type = "Regular" => m.id <= inc'[p].msgId)
    <3>1. inc'[p].msgId = inc[p].msgId /\ inc[p].msgId \in Nat
      BY <1>3, <2>1
    <3>2. inc[p].msgId <= inc'[p].msgId
      BY ONLY <3>1
    <3> QED
      BY ONLY <1>2, <3>2
  <2> QED
    BY <1>1, <1>2, <1>3, <1>4, <2>1, <2>2, <2>3, ReceivesSilently
<1> QED
  BY <1>5, <1>6

LEMMA ReceiveAckStreams ==
    ASSUME IInv, IInv', Streams, NEW p \in Endpoint, ReceiveMessage(p), NEW m, NEW o,
           m = Head(wire[p][socket[p]]), o = Confirm(out[p], m.ack), ReceiveAck(p, m, o)
    PROVE  Streams'
<1>1. /\ ~disposed[p] /\ wire[p][socket[p]] # <<>>
      /\ wire' = [wire EXCEPT ![p][socket[p]] = Tail(@)]
      /\ UNCHANGED <<socket, closed, handled, handoff, drops, disposed, sent>>
  BY DEF ReceiveMessage
<1>2. /\ m.type \in {"Ack", "KeepAlive"} /\ out' = [out EXCEPT ![p] = o]
      /\ UNCHANGED <<inc, writer, isReconnecting, attempt, control, peerLeft, delivered>>
  BY DEF ReceiveAck
<1>3. ~(p = "client" /\ socket[p] \in HandedOff) /\ inc[p].msgId \in Nat /\ m.type # "Regular"
  BY <1>1, <1>2, ReceivedIs, EndParts
<1>4. NothingCutOff'
  BY <1>1, <1>2, StreamsParts DEF NothingCutOff
<1>5. \A r \in Endpoint : peerLeft'[r] => disposed[Peer(r)]
  BY <1>2, LeftHasLeft
<1>6. inc[p].msgId <= inc'[p].msgId /\ (m.type = "Regular" => m.id <= inc'[p].msgId)
  BY <1>2, <1>3
<1> QED
  BY <1>1, <1>2, <1>3, <1>4, <1>5, <1>6, ReceivesSilently

LEMMA ReceivePauseStreams ==
    ASSUME IInv, IInv', Streams, NEW p \in Endpoint, ReceiveMessage(p), NEW m, NEW o,
           m = Head(wire[p][socket[p]]), o = Confirm(out[p], m.ack),
           ReceivePause(p, m, o) \/ ReceiveResume(p, m, o)
    PROVE  Streams'
<1>1. /\ ~disposed[p] /\ wire[p][socket[p]] # <<>>
      /\ wire' = [wire EXCEPT ![p][socket[p]] = Tail(@)]
      /\ UNCHANGED <<socket, closed, handled, handoff, drops, disposed, sent>>
  BY DEF ReceiveMessage
<1>2. /\ m.type # "Regular" /\ out' = [out EXCEPT ![p] = o]
      /\ UNCHANGED <<inc, isReconnecting, attempt, control, peerLeft, delivered>>
  BY DEF ReceivePause, ReceiveResume
<1>3. /\ writer'[p].data = writer[p].data /\ writer'[Peer(p)] = writer[Peer(p)]
      /\ p = "client" /\ socket[p] \in HandedOff => writer'[p].paused
  <2>1. CASE ReceivePause(p, m, o)
    BY <2>1, Parts, Ends DEF ReceivePause, WriterType
  <2>2. CASE ReceiveResume(p, m, o)
    <3>1. ~(p = "client" /\ socket[p] \in HandedOff)
      BY <1>1, <2>2, ReceivedIs DEF ReceiveResume
    <3> DEFINE w == [writer[p] EXCEPT !.paused = FALSE, !.timer = TRUE]
    <3>2. w.data = writer[p].data
      BY EndParts DEF WriterType
    <3>3. writer' = [writer EXCEPT ![p] = w]
      BY <2>2, Parts DEF ReceiveResume
    <3> HIDE DEF w
    <3> QED
      BY <3>1, <3>2, <3>3, Parts, Ends
  <2> QED
    BY <2>1, <2>2
<1>4. NothingCutOff'
  BY <1>1, <1>2, StreamsParts DEF NothingCutOff
<1>5. \A r \in Endpoint : peerLeft'[r] => disposed[Peer(r)]
  BY <1>2, LeftHasLeft
<1>6. inc[p].msgId <= inc'[p].msgId
  BY <1>2, EndParts
<1>7. m.type = "Regular" => m.id <= inc'[p].msgId
  BY <1>2
<1> QED
  BY <1>1, <1>2, <1>3, <1>4, <1>5, <1>6, <1>7, ReceivesSilently

\* Behind the Disconnect there is nothing, before it there was all.
LEMMA ReceiveDisconnectStreams ==
    ASSUME IInv, IInv', Streams, NEW p \in Endpoint, ReceiveMessage(p), NEW m, NEW o,
           m = Head(wire[p][socket[p]]), o = Confirm(out[p], m.ack), ReceiveDisconnect(p, m, o)
    PROVE  Streams'
<1> DEFINE n == socket[p]
           q == Peer(p)
           x == wire[p][n]
<1>1. /\ ~disposed[p] /\ x # <<>> /\ wire' = [wire EXCEPT ![p][n] = Tail(@)]
      /\ UNCHANGED <<socket, closed, handled, handoff, drops, disposed, sent>>
  BY DEF ReceiveMessage
<1>2. /\ m.type = "Disconnect" /\ m.type # "Regular" /\ out' = [out EXCEPT ![p] = o]
      /\ peerLeft' = [peerLeft EXCEPT ![p] = TRUE]
      /\ UNCHANGED <<inc, writer, isReconnecting, attempt, control, delivered>>
  BY DEF ReceiveDisconnect
<1>3. ~(p = "client" /\ n \in HandedOff) /\ inc[p].msgId \in Nat
  BY <1>1, <1>2, ReceivedIs, EndParts
<1>4. /\ n \in Sockets /\ x \in Seq(Message) /\ q \in Endpoint /\ Peer(q) = p
      /\ inc[p].msgId \in Nat /\ out[q].msgId \in Nat /\ inc[p].msgId <= out[q].msgId
  BY EndParts, Ends, Numbers
<1>5. /\ EndsWith(x, "Disconnect") /\ disposed[q]
      /\ ~isReconnecting[q] => Brings(x, inc[p].msgId, out[q].msgId)
  <2>1. HasType(x, "Disconnect")
    BY <1>1, <1>2, <1>4, TailHas
  <2>2. FarewellIsLast(q)
    BY <1>4, StreamsParts
  <2> QED
    BY <1>4, <2>1, <2>2 DEF FarewellIsLast
<1>6. ~isReconnecting[q] => delivered[p] = sent[q]
  <2> SUFFICES ASSUME ~isReconnecting[q] PROVE delivered[p] = sent[q]
    OBVIOUS
  <2>1. Tail(x) = <<>>
    BY <1>1, <1>2, <1>4, <1>5, EndsTail
  <2>2. Brings(Tail(x), inc[p].msgId, out[q].msgId)
    BY <1>1, <1>2, <1>4, <1>5, BringsTail
  <2>3. \A id : ~Carries(<<>>, id)
    BY DEF Carries
  <2>4. ~(inc[p].msgId < out[q].msgId)
    <3>1. inc[p].msgId < out[q].msgId => out[q].msgId \in inc[p].msgId + 1..out[q].msgId
      BY <1>4
    <3> QED
      BY <2>1, <2>2, <2>3, <3>1 DEF Brings
  <2>5. /\ inc[p].msgId = Len(delivered[p]) /\ out[q].msgId = Len(sent[q])
        /\ delivered[p] \in Seq(Data) /\ sent[q] \in Seq(Data)
        /\ \A i \in 1..Len(delivered[p]) : delivered[p][i] = sent[q][i]
    BY <1>4, Numbers
  <2>6. Len(delivered[p]) = Len(sent[q])
    BY <1>4, <2>4, <2>5
  <2> QED
    BY <2>5, <2>6, SeqEqual
<1>7. \A r \in Endpoint : peerLeft'[r] => disposed[Peer(r)]
  BY <1>2, <1>5, LeftHasLeft, Parts
<1>8. NothingCutOff'
  <2>1. ASSUME NEW r \in Endpoint, drops' = 0, peerLeft'[r], ~isReconnecting'[Peer(r)]
        PROVE  delivered'[r] = sent'[Peer(r)]
    <3>1. CASE r = p
      BY <1>1, <1>2, <1>6, <2>1, <3>1
    <3>2. CASE r # p
      BY <1>1, <1>2, <2>1, <3>2, StreamsParts DEF NothingCutOff
    <3> QED
      BY <3>1, <3>2
  <2> QED
    BY <2>1 DEF NothingCutOff
<1>9. inc[p].msgId <= inc'[p].msgId /\ (m.type = "Regular" => m.id <= inc'[p].msgId)
  BY <1>2, <1>3
<1> HIDE DEF q
<1> QED
  BY <1>1, <1>2, <1>3, <1>7, <1>8, <1>9, ReceivesSilently

LEMMA ReceiveMessageStreams ==
    ASSUME IInv, IInv', Streams, NEW p \in Endpoint, ReceiveMessage(p)
    PROVE  Streams'
<1> DEFINE m == Head(wire[p][socket[p]])
           o == Confirm(out[p], m.ack)
<1>1. \/ ReceiveRegular(p, m, o) \/ ReceiveControl(p, m, o) \/ ReceiveAck(p, m, o)
      \/ ReceiveDisconnect(p, m, o) \/ ReceiveReplayRequest(p, m, o)
      \/ ReceivePause(p, m, o) \/ ReceiveResume(p, m, o)
  BY DEF ReceiveMessage
<1>2. m = Head(wire[p][socket[p]]) /\ o = Confirm(out[p], m.ack)
  OBVIOUS
<1> HIDE DEF m, o
<1>3. ~ReceiveReplayRequest(p, m, o)
  BY <1>2, ReceivedIs DEF ReceiveMessage, ReceiveReplayRequest
<1> QED
  BY <1>1, <1>2, <1>3, ReceiveRegularStreams, ReceiveControlStreams, ReceiveAckStreams,
     ReceiveDisconnectStreams, ReceivePauseStreams

-----------------------------------------------------------------------------
(* Steps that give up a socket.                                              *)

LEMMA AbandonedIs ==
    ASSUME IInv, NEW p \in Endpoint, NEW w, wire' = Abandoned(p, w)
    PROVE  /\ wire'[p][socket[p]] = <<>>
           /\ wire'[Peer(p)][socket[p]] = IF closed[socket[p]] THEN wire[Peer(p)][socket[p]]
                                          ELSE wire[Peer(p)][socket[p]] \o Flushed(w)
           /\ \A n \in Sockets \ {socket[p]} : \A r \in Endpoint : wire'[r][n] = wire[r][n]
<1> DEFINE q == Peer(p)
           n == socket[p]
           y == IF closed[n] THEN wire[q][n] ELSE wire[q][n] \o Flushed(w)
<1>1. /\ q \in Endpoint /\ q # p /\ n \in Sockets /\ \A r \in Endpoint : r = p \/ r = q
      /\ wire \in [Endpoint -> [Sockets -> Seq(Message)]]
  BY Parts, Ends
<1>2. wire' = [wire EXCEPT ![q][n] = y, ![p][n] = <<>>]
  BY DEF Abandoned
<1> HIDE DEF q, n, y
<1> DEFINE v == [wire EXCEPT ![q][n] = y]
<1>3. v[q][n] = y /\ v[p] = wire[p] /\ \A k \in Sockets \ {n} : v[q][k] = wire[q][k]
  BY <1>1
<1>4. wire' = [v EXCEPT ![p][n] = <<>>]
  BY <1>1, <1>2
<1>5. v \in [Endpoint -> [Sockets -> {v[r][k] : r \in Endpoint, k \in Sockets}]]
  BY <1>1
<1> HIDE DEF v
<1>6. /\ wire'[p][n] = <<>> /\ wire'[q] = v[q]
      /\ \A k \in Sockets \ {n} : wire'[p][k] = v[p][k]
  BY <1>1, <1>4, <1>5
<1>7. \A k \in Sockets \ {n} : \A r \in Endpoint : wire'[r][k] = wire[r][k]
  BY <1>1, <1>3, <1>6
<1> QED
  BY <1>3, <1>6, <1>7 DEF q, n, y

\* What p leaves behind when it lets go of its socket.
LEMMA LetsGo ==
    ASSUME IInv, NEW p \in Endpoint, wire' = Abandoned(p, writer[p])
    PROVE  /\ wire'[p][socket[p]] = <<>> /\ wire'[Peer(p)][socket[p]] = Left(p)
           /\ \A n \in Sockets \ {socket[p]} : \A r \in Endpoint : wire'[r][n] = wire[r][n]
BY AbandonedIs DEF Left

LEMMA SocketBreaksStreams ==
    ASSUME IInv, IInv', Streams, NEW n \in Sockets, SocketBreaks(n)
    PROVE  Streams'
<1>1. /\ UNCHANGED <<out, inc, writer, isReconnecting, socket, attempt, control, handled, handoff,
                     drops, disposed, peerLeft, sent, delivered>>
      /\ ~(n > socket["client"])
  BY Parts, Ends DEF SocketBreaks, endVars, lifeVars
<1>2. /\ closed'[n] = TRUE /\ \A k \in Sockets \ {n} : closed'[k] = closed[k]
      /\ \A r \in Endpoint : wire'[r][n] = <<>>
      /\ \A r \in Endpoint : \A k \in Sockets \ {n} : wire'[r][k] = wire[r][k]
  <2>1. /\ closed' = [closed EXCEPT ![n] = TRUE]
        /\ wire' = [p \in Endpoint |-> [wire[p] EXCEPT ![n] = <<>>]]
    BY DEF SocketBreaks
  <2> QED
    BY <2>1, Parts
<1>3. \A r \in Endpoint : \A k \in Sockets : wire'[r][k] = wire[r][k] \/ wire'[r][k] = <<>>
  BY <1>2
<1>4. \A r \in Endpoint : \A k \in Sockets : \A type :
          HasType(wire'[r][k], type) => HasType(wire[r][k], type) /\ wire'[r][k] = wire[r][k]
  BY <1>3, EmptyStream
<1>5. SocketsInOrder'
  <2>1. SocketsInOrder
    BY StreamsParts
  <2>2. \A k \in Sockets : k > socket["client"] =>
            k # n /\ closed'[k] = closed[k] /\ \A r \in Endpoint : wire'[r][k] = wire[r][k]
    BY <1>1, <1>2
  <2>3. \A r \in Endpoint : closed[socket[r]] => closed'[socket[r]]
    BY <1>2, EndParts
  <2> QED
    BY <1>1, <2>1, <2>2, <2>3 DEF SocketsInOrder, Unattached, HandedOff
<1>6. ClientWaits'
  <2>1. HasType(Stream("client")', "Control") => HasType(Stream("client"), "Control")
    <3> DEFINE x == wire["server"][socket["client"]]
               y == wire'["server"][socket["client"]]
               d == writer["client"].data
    <3>1. /\ x \in Seq(Message) /\ d \in Seq(Message) /\ y \in {x, <<>>}
          /\ Stream("client") = x \o d /\ Stream("client")' = y \o d
      BY <1>1, <1>3, EndParts, Ends DEF Stream
    <3> HIDE DEF x, y, d
    <3>2. HasType(y \o d, "Control") => HasType(x \o d, "Control")
      BY <3>1, HasConcat, EmptyStream
    <3> QED
      BY <3>1, <3>2
  <2> QED
    BY <1>1, <2>1, StreamsParts DEF ClientWaits
<1>7. ASSUME NEW k \in Sockets PROVE IsQuiet(k)'
  <2>1. IsQuiet(k)
    BY StreamsParts
  <2>2. <<>> # Tail(HandOffAnswer)
    BY DEF HandOffAnswer
  <2> QED
    BY <1>1, <1>3, <1>4, <2>1, <2>2, Ends DEF IsQuiet, Unattached, HandedOff
<1>8. ASSUME NEW r \in Endpoint PROVE NoReplayAsked(r)' /\ ComesInOrder(r)'
  <2>1. NoReplayAsked(r) /\ ComesInOrder(r)
    BY StreamsParts
  <2>2. NoReplayAsked(r)'
    BY <1>1, <1>4, <2>1 DEF NoReplayAsked
  <2>3. ComesInOrder(r)'
    BY <1>1, <1>3, <2>1, EmptyStream DEF ComesInOrder
  <2> QED
    BY <2>2, <2>3
<1>9. ASSUME NEW r \in Endpoint PROVE StreamIsWhole(r)'
  <2>1. StreamIsWhole(r) /\ socket[r] \in Sockets /\ Peer(r) \in Endpoint
    BY StreamsParts, EndParts, Ends
  <2>2. CASE socket[r] = n
    BY <1>1, <1>2, <2>2 DEF StreamIsWhole
  <2>3. CASE socket[r] # n
    BY <1>1, <1>2, <2>1, <2>3 DEF StreamIsWhole, Stream
  <2> QED
    BY <2>2, <2>3
<1>10. ASSUME NEW r \in Endpoint PROVE FarewellIsLast(r)'
  <2>1. FarewellIsLast(r) /\ Peer(r) \in Endpoint
    BY StreamsParts, Ends
  <2> QED
    BY <1>1, <1>4, <2>1 DEF FarewellIsLast
<1>11. NothingCutOff'
  BY <1>1, StreamsParts DEF NothingCutOff
<1> QED
  BY <1>5, <1>6, <1>7, <1>8, <1>9, <1>10, <1>11 DEF Streams

LEMMA ReconnectStreams ==
    ASSUME IInv, IInv', Streams, Reconnect
    PROVE  Streams'
<1> DEFINE n == socket["client"]
<1>1. /\ n \in Sockets /\ n + 1 \in Sockets /\ n \in Nat /\ n + 1 > n /\ n + 1 # n
      /\ \A r \in Endpoint : r = "client" \/ r = "server"
  <2>1. n < MaxSockets /\ n \in Sockets
    BY Parts, Ends DEF Reconnect, Spare
  <2> QED
    BY <2>1, Ends, ConstantsAssumption DEF Sockets
<1>2. /\ ~disposed["client"] /\ wire' = Abandoned("client", writer["client"])
      /\ UNCHANGED <<out, handled, handoff, drops, disposed, peerLeft, sent, delivered>>
      /\ control' = 0
  BY DEF Reconnect, lifeVars
<1>3. /\ socket'["client"] = n + 1 /\ socket'["server"] = socket["server"]
      /\ closed'[n] = TRUE /\ \A k \in Sockets \ {n} : closed'[k] = closed[k]
      /\ isReconnecting'["client"] = TRUE /\ isReconnecting'["server"] = isReconnecting["server"]
      /\ writer'["client"].data = <<>> /\ writer'["server"] = writer["server"]
      /\ writer'["client"].paused = FALSE
  BY Parts, Ends DEF Reconnect, BeginAcceptReconnection, NewWriter
<1>4. \A r \in Endpoint : inc'[r].msgId = inc[r].msgId
  BY Parts DEF Reconnect, Incoming
<1>5. /\ wire'["client"][n] = <<>> /\ wire'["server"][n] = Left("client")
      /\ \A k \in Sockets \ {n} : \A r \in Endpoint : wire'[r][k] = wire[r][k]
  BY <1>2, LetsGo, Ends
<1>6. /\ Left("client") \in Seq(Message) /\ Unbroken(Left("client"), inc["server"].msgId)
      /\ ~HasType(Left("client"), "ReplayRequest")
      /\ HasType(Left("client"), "Disconnect") => HasType(wire["server"][n], "Disconnect")
      /\ Unattached(n) => ~HasType(Left("client"), "Regular")
  BY LeftIs, Ends
<1> HIDE DEF n
<1>7. SocketsInOrder /\ ClientWaits /\ FarewellIsLast("client") /\ FarewellIsLast("server")
  BY StreamsParts, Ends
<1>8. /\ ~closed[n + 1] /\ n + 1 \notin handled /\ \A r \in Endpoint : wire[r][n + 1] = <<>>
      /\ n + 1 \notin HandedOff
  BY <1>1, <1>7 DEF SocketsInOrder, n
<1>9. \A r \in Endpoint : wire'[r][n + 1] = <<>>
  BY <1>1, <1>5, <1>8
<1>10. SocketsInOrder'
  <2>1. \A k \in Sockets : k > n + 1 => k # n /\ k > n
    BY <1>1
  <2>2. \A k \in Sockets : k > n + 1 =>
            ~closed'[k] /\ k \notin handled /\ \A r \in Endpoint : wire'[r][k] = <<>>
    BY <1>3, <1>5, <1>7, <2>1 DEF SocketsInOrder, n
  <2>3. disposed["server"] => closed'[socket["server"]]
    BY <1>3, <1>7, EndParts, Ends DEF SocketsInOrder
  <2> QED
    BY <1>1, <1>2, <1>3, <1>7, <2>2, <2>3 DEF SocketsInOrder, Unattached, HandedOff
<1>11. ClientWaits'
  <2>1. Stream("client")' = <<>>
    BY <1>1, <1>3, <1>9, EmptyStream, ConcatTwice, Ends DEF Stream
  <2> QED
    BY <1>2, <1>3, <1>7, <1>8, <2>1, EmptyStream DEF ClientWaits
<1>12. ASSUME NEW k \in Sockets PROVE IsQuiet(k)'
  <2>1. IsQuiet(k) /\ Unattached(k)' = Unattached(k) /\ HandedOff' = HandedOff
    BY <1>2, StreamsParts DEF Unattached, HandedOff
  <2>2. CASE k = n
    BY <1>1, <1>2, <1>3, <1>5, <1>6, <2>1, <2>2 DEF IsQuiet
  <2>3. CASE k = n + 1
    BY <1>2, <1>3, <1>8, <1>9, <2>1, <2>3, EmptyStream, Ends DEF IsQuiet
  <2>4. CASE k # n /\ k # n + 1
    BY <1>2, <1>3, <1>5, <2>1, <2>4, Ends DEF IsQuiet
  <2> QED
    BY <2>2, <2>3, <2>4
<1>13. ASSUME NEW r \in Endpoint PROVE NoReplayAsked(r)'
  <2>1. NoReplayAsked(r)
    BY StreamsParts
  <2>2. ~HasType(writer'[r].data, "ReplayRequest")
    BY <1>1, <1>3, <2>1, EmptyStream DEF NoReplayAsked
  <2>3. ASSUME NEW k \in Sockets PROVE ~HasType(wire'[r][k], "ReplayRequest")
    BY <1>1, <1>5, <1>6, <2>1, EmptyStream DEF NoReplayAsked
  <2> QED
    BY <2>2, <2>3 DEF NoReplayAsked
<1>14. ASSUME NEW r \in Endpoint PROVE ComesInOrder(r)'
  <2>1. ComesInOrder(r)
    BY StreamsParts
  <2>2. ASSUME NEW k \in Sockets PROVE Unbroken(wire'[r][k], inc[r].msgId)
    BY <1>1, <1>5, <1>6, <2>1, EmptyStream DEF ComesInOrder
  <2> QED
    BY <1>4, <2>2 DEF ComesInOrder
<1>15. StreamIsWhole("client")'
  <2>1. Stream("client")' = <<>>
    BY <1>1, <1>3, <1>9, EmptyStream, ConcatTwice, Ends DEF Stream
  <2> QED
    BY <1>3, <2>1, EmptyStream DEF StreamIsWhole
<1>16. StreamIsWhole("server")'
  <2>1. StreamIsWhole("server") /\ socket["server"] \in Sockets
    BY StreamsParts, EndParts, Ends
  <2>2. CASE socket["server"] = n
    BY <1>3, <2>2 DEF StreamIsWhole
  <2>3. CASE socket["server"] # n
    <3>1. Stream("server")' = Stream("server") /\ closed'[socket["server"]] = closed[socket["server"]]
      <4>1. /\ Stream("server") = wire["client"][socket["server"]] \o writer["server"].data
            /\ Stream("server")' = wire'["client"][socket'["server"]] \o writer'["server"].data
        BY Ends DEF Stream
      <4>2. /\ wire'["client"][socket["server"]] = wire["client"][socket["server"]]
            /\ closed'[socket["server"]] = closed[socket["server"]]
        <5>1. socket["server"] \in Sockets \ {n}
          BY <2>1, <2>3
        <5> QED
          BY <1>3, <1>5, <5>1, Ends
      <4> QED
        BY <1>3, <4>1, <4>2
    <3> QED
      BY <1>2, <1>3, <1>4, <2>1, <3>1, Ends DEF StreamIsWhole
  <2> QED
    BY <2>2, <2>3
<1>17. FarewellIsLast("client")'
  <2>1. \A k \in Sockets : ~HasType(wire["server"][k], "Disconnect")
    BY <1>2, <1>7, Ends DEF FarewellIsLast
  <2>2. \A k \in Sockets : ~HasType(wire'["server"][k], "Disconnect")
    BY <1>1, <1>5, <1>6, <2>1, Ends
  <2> QED
    BY <1>2, <1>3, <1>7, <2>2, EmptyStream, Ends DEF FarewellIsLast
<1>18. FarewellIsLast("server")'
  <2>1. \A k \in Sockets : wire'["client"][k] = wire["client"][k] \/ wire'["client"][k] = <<>>
    BY <1>5, Ends
  <2>2. \A k \in Sockets : HasType(wire'["client"][k], "Disconnect")
                               => wire'["client"][k] = wire["client"][k]
    BY <2>1, EmptyStream
  <2> QED
    BY <1>2, <1>3, <1>4, <1>7, <2>2, Ends DEF FarewellIsLast
<1>19. NothingCutOff'
  <2>1. \A r \in Endpoint : ~isReconnecting'[Peer(r)] => ~isReconnecting[Peer(r)]
    BY <1>1, <1>3, Ends
  <2> QED
    BY <1>2, <2>1, StreamsParts DEF NothingCutOff
<1> QED
  BY <1>1, <1>10, <1>11, <1>12, <1>13, <1>14, <1>15, <1>16, <1>17, <1>18, <1>19 DEF Streams

\* What an end that leaves has written in the end.
LEMMA FarewellIs ==
    ASSUME IInv, Streams, NEW p \in Endpoint, ~disposed[p], wire' = Abandoned(p, Farewell(p))
    PROVE  LET s == wire'[Peer(p)][socket[p]]
           IN  /\ Unbroken(s, inc[Peer(p)].msgId) /\ ~HasType(s, "ReplayRequest")
               /\ HasType(s, "Control") => HasType(Stream(p), "Control")
               /\ p = "client" /\ Unattached(socket[p]) => ~HasType(s, "Regular")
               /\ HasType(s, "Disconnect") =>
                      /\ EndsWith(s, "Disconnect")
                      /\ ~isReconnecting[p] => Brings(s, inc[Peer(p)].msgId, out[p].msgId)
<1> DEFINE q == Peer(p)
           n == socket[p]
           w == wire[q][n]
           s == wire'[q][n]
           d == Plain("Disconnect", 0)
           e == inc[q].msgId
<1>1. /\ w \in Seq(Message) /\ writer[p].data \in Seq(Message) /\ n \in Sockets /\ q \in Endpoint
      /\ Peer(q) = p /\ Stream(p) \in Seq(Message) /\ e \in Nat /\ out[p].msgId \in Nat
      /\ writer[p] \in WriterType
  BY EndParts, Ends
<1>2. d \in Message /\ d.type = "Disconnect"
  BY DEF Plain, Message, Types
<1> HIDE DEF d
<1>3. /\ Farewell(p).data = writer[p].data \o <<d>> /\ Farewell(p).paused = writer[p].paused
      /\ <<d>> \in Seq(Message)
  BY <1>1, <1>2, WriteIs, OneMessage DEF Farewell, d
<1>4. s = IF closed[n] THEN w ELSE w \o Flushed(Farewell(p))
  BY AbandonedIs
<1>5. (closed[n] \/ writer[p].paused) => s = Left(p)
  <2>1. w \o <<>> = w
    BY <1>1, ConcatTwice
  <2> QED
    BY <1>3, <1>4, <2>1, LeftIsEither DEF Flushed
<1>6. ~closed[n] /\ ~writer[p].paused => s = Stream(p) \o <<d>> /\ Left(p) = Stream(p)
  <2> DEFINE y == writer[p].data
  <2>1. y \in Seq(Message) /\ Farewell(p).data = y \o <<d>> /\ Stream(p) = w \o y
    BY <1>1, <1>3 DEF Stream
  <2> DEFINE t == <<d>>
  <2>2. t \in Seq(Message) /\ w \in Seq(Message)
    BY <1>1, <1>3
  <2> HIDE DEF y, w, t
  <2>3. (w \o y) \o t = w \o (y \o t)
    BY <2>1, <2>2, ConcatTwice
  <2> QED
    BY <1>3, <1>4, <2>1, <2>3, LeftIsEither DEF Flushed, t
<1>7. /\ Left(p) \in Seq(Message) /\ Unbroken(Left(p), e) /\ ~HasType(Left(p), "ReplayRequest")
      /\ HasType(Left(p), "Control") => HasType(Stream(p), "Control")
      /\ p = "client" /\ Unattached(n) => ~HasType(Left(p), "Regular")
  BY LeftIs
<1>8. ~HasType(Left(p), "Disconnect")
  <2>1. ~HasType(w, "Disconnect")
    BY <1>1, StreamsParts DEF FarewellIsLast
  <2> QED
    BY <2>1, LeftIs
<1>9. StreamIsWhole(p)
  BY StreamsParts
<1> HIDE DEF q, n, w, s, e
<1>10. CASE closed[n] \/ writer[p].paused
  BY <1>5, <1>7, <1>8, <1>10 DEF q, n, w, s, e
<1>11. CASE ~closed[n] /\ ~writer[p].paused
  <2> DEFINE x == Stream(p)
  <2>1. /\ x \in Seq(Message) /\ s = x \o <<d>> /\ Left(p) = x
        /\ Unbroken(x, e) /\ (~isReconnecting[p] => Brings(x, e, out[p].msgId))
    BY <1>1, <1>6, <1>9, <1>11 DEF StreamIsWhole, e, q, n
  <2> HIDE DEF x
  <2>2. \A type : HasType(<<d>>, type) <=> type = "Disconnect"
    BY <1>2, OneMessage
  <2>3. \A type : HasType(s, type) <=> HasType(x, type) \/ type = "Disconnect"
    BY <1>3, <2>1, <2>2, HasConcat
  <2>4. Unbroken(s, e)
    BY <1>1, <1>3, <2>1, <2>2, UnbrokenPlain
  <2>5. ~isReconnecting[p] => Brings(s, e, out[p].msgId)
    BY <1>1, <1>3, <2>1, BringsConcat
  <2>6. EndsWith(s, "Disconnect")
    <3> SUFFICES ASSUME NEW i \in DOMAIN s, s[i].type = "Disconnect" PROVE i = Len(s)
      BY DEF EndsWith
    <3>1. \/ i \in DOMAIN x /\ s[i] = x[i]
          \/ i - Len(x) \in DOMAIN <<d>> /\ s[i] = <<d>>[i - Len(x)]
      BY <1>3, <2>1, InConcat
    <3>2. ~(i \in DOMAIN x /\ s[i] = x[i])
      BY <1>8, <2>1 DEF HasType
    <3>3. /\ Len(x) \in Nat /\ Len(<<d>>) = 1 /\ Len(s) = Len(x) + 1 /\ DOMAIN <<d>> = {1}
          /\ DOMAIN s = 1..(Len(x) + 1)
      BY <1>3, <2>1, ConcatIs
    <3> QED
      BY <3>1, <3>2, <3>3
  <2> QED
    BY <1>7, <2>1, <2>3, <2>4, <2>5, <2>6 DEF q, n, s, e, x
<1> QED
  BY <1>10, <1>11

LEMMA DisposeStreams ==
    ASSUME IInv, IInv', Streams, NEW p \in Endpoint, Dispose(p)
    PROVE  Streams'
<1> DEFINE n == socket[p]
           q == Peer(p)
           s == wire'[q][n]
<1>1. /\ n \in Sockets /\ q \in Endpoint /\ Peer(q) = p /\ q # p /\ \A r \in Endpoint : r = p \/ r = q
      /\ ~(n > socket["client"])
  BY Ends, InUse
<1>2. /\ ~disposed[p] /\ wire' = Abandoned(p, Farewell(p))
      /\ UNCHANGED <<isReconnecting, socket, attempt, control, handled, handoff, drops, peerLeft,
                     sent, delivered>>
  BY DEF Dispose
<1>3. /\ disposed'[p] = TRUE /\ disposed'[q] = disposed[q]
      /\ closed'[n] = TRUE /\ \A k \in Sockets \ {n} : closed'[k] = closed[k]
      /\ writer'[p].data = <<>> /\ writer'[q] = writer[q]
      /\ \A r \in Endpoint : inc'[r].msgId = inc[r].msgId /\ out'[r].msgId = out[r].msgId
  <2>1. \A r \in Endpoint : inc'[r].msgId = inc[r].msgId
    BY Parts DEF Dispose, Incoming
  <2>2. \A r \in Endpoint : out'[r].msgId = out[r].msgId
    BY Parts DEF Dispose, Half
  <2> QED
    BY <1>1, <2>1, <2>2, Parts DEF Dispose, NewWriter
<1>4. /\ wire'[p][n] = <<>> /\ \A k \in Sockets \ {n} : \A r \in Endpoint : wire'[r][k] = wire[r][k]
  BY <1>2, AbandonedIs
<1>5. /\ Unbroken(s, inc[q].msgId) /\ ~HasType(s, "ReplayRequest")
      /\ HasType(s, "Control") => HasType(Stream(p), "Control")
      /\ p = "client" /\ Unattached(n) => ~HasType(s, "Regular")
      /\ HasType(s, "Disconnect") =>
             /\ EndsWith(s, "Disconnect")
             /\ ~isReconnecting[p] => Brings(s, inc[q].msgId, out[p].msgId)
  BY <1>2, FarewellIs
<1>6. s \in Seq(Message) /\ s = wire'[q][n]
  <2>1. TypeOK'
    BY DEF IInv
  <2> QED
    BY <1>1, <2>1 DEF TypeOK
<1> HIDE DEF n, q, s
<1>7. \A k \in Sockets : wire'[p][k] = wire[p][k] \/ wire'[p][k] = <<>>
  BY <1>4
<1>8. SocketsInOrder'
  <2>1. SocketsInOrder
    BY StreamsParts
  <2>2. \A k \in Sockets : k > socket["client"] =>
            closed'[k] = closed[k] /\ \A r \in Endpoint : wire'[r][k] = wire[r][k]
    BY <1>1, <1>3, <1>4
  <2>3. \A r \in Endpoint : disposed'[r] => closed'[socket[r]]
    <3>1. disposed[q] => closed[socket[q]]
      BY <1>1, <2>1 DEF SocketsInOrder
    <3>2. closed[socket[q]] => closed'[socket[q]]
      BY <1>1, <1>3, EndParts
    <3> QED
      BY <1>1, <1>3, <3>1, <3>2 DEF n
  <2> QED
    BY <1>2, <2>1, <2>2, <2>3 DEF SocketsInOrder, Unattached, HandedOff
<1>9. ClientWaits'
  <2>1. ClientWaits
    BY StreamsParts
  <2>2. HasType(Stream("client")', "Control") => HasType(Stream("client"), "Control")
    <3>1. CASE p = "client"
      <4>1. Stream(p)' = s \o <<>> /\ s \o <<>> = s
        BY <1>2, <1>3, <1>6, ConcatTwice DEF Stream, n, q
      <4> QED
        BY <1>5, <3>1, <4>1
    <3>2. CASE p = "server"
      <4> DEFINE x == wire["server"][socket["client"]]
                 y == wire'["server"][socket["client"]]
                 d == writer["client"].data
      <4>1. /\ x \in Seq(Message) /\ d \in Seq(Message) /\ y \in {x, <<>>}
            /\ Stream("client") = x \o d /\ Stream("client")' = y \o d
        BY <1>2, <1>3, <1>7, <3>2, EndParts, Ends DEF Stream, q
      <4> HIDE DEF x, y, d
      <4>2. HasType(y \o d, "Control") => HasType(x \o d, "Control")
        BY <4>1, HasConcat, EmptyStream
      <4> QED
        BY <4>1, <4>2
    <3> QED
      BY <3>1, <3>2, Ends
  <2>3. HasType(writer'["client"].data, "Regular") => HasType(writer["client"].data, "Regular")
    BY <1>1, <1>3, EmptyStream, Ends
  <2> QED
    BY <1>2, <2>1, <2>2, <2>3 DEF ClientWaits
<1>10. ASSUME NEW k \in Sockets PROVE IsQuiet(k)'
  <2>1. IsQuiet(k) /\ Unattached(k)' = Unattached(k) /\ HandedOff' = HandedOff
        /\ (k \in HandedOff => Unattached(k)) /\ (k \notin handled => Unattached(k))
    BY <1>2, StreamsParts DEF Unattached, HandedOff
  <2>2. CASE p = "client"
    <3>1. k \notin handled => wire'["client"][k] = <<>>
      BY <1>7, <2>1, <2>2 DEF IsQuiet
    <3>2. Unattached(k) => ~HasType(wire'["server"][k], "Regular")
      BY <1>1, <1>4, <1>5, <1>6, <2>1, <2>2, Ends DEF IsQuiet, q
    <3>3. k \in HandedOff => wire'["client"][k] \in {<<>>, Tail(HandOffAnswer), HandOffAnswer}
      BY <1>7, <2>1, <2>2 DEF IsQuiet
    <3> QED
      BY <1>2, <1>3, <2>1, <2>2, <3>1, <3>2, <3>3 DEF IsQuiet
  <2>3. CASE p = "server"
    <3>1. Unattached(k) => k # n
      BY <2>3, InUse DEF n
    <3>2. Unattached(k) => wire'["client"][k] = wire["client"][k] /\ wire'["server"][k] = wire["server"][k]
      BY <1>4, <3>1, Ends
    <3>3. writer'["client"] = writer["client"] /\ disposed'["client"] = disposed["client"]
      BY <1>3, <2>3, Ends DEF q
    <3> QED
      BY <1>2, <2>1, <3>2, <3>3 DEF IsQuiet
  <2> QED
    BY <2>2, <2>3, Ends
<1>11. ASSUME NEW r \in Endpoint PROVE NoReplayAsked(r)' /\ ComesInOrder(r)'
  <2>1. NoReplayAsked(r) /\ ComesInOrder(r)
    BY StreamsParts
  <2>2. ~HasType(writer'[r].data, "ReplayRequest")
    BY <1>1, <1>3, <2>1, EmptyStream DEF NoReplayAsked
  <2>3. ASSUME NEW k \in Sockets
        PROVE  ~HasType(wire'[r][k], "ReplayRequest") /\ Unbroken(wire'[r][k], inc[r].msgId)
    <3>1. ~HasType(wire[r][k], "ReplayRequest") /\ Unbroken(wire[r][k], inc[r].msgId)
      BY <2>1 DEF NoReplayAsked, ComesInOrder
    <3>2. CASE k # n
      BY <1>4, <3>1, <3>2
    <3>3. CASE k = n /\ r = p
      BY <1>4, <3>3, EmptyStream
    <3>4. CASE k = n /\ r = q
      BY <1>5, <1>6, <3>4
    <3> QED
      BY <1>1, <3>2, <3>3, <3>4
  <2> QED
    BY <1>3, <2>2, <2>3 DEF NoReplayAsked, ComesInOrder
<1>12. StreamIsWhole(p)'
  BY <1>2, <1>3 DEF StreamIsWhole, n
<1>13. StreamIsWhole(q)'
  <2>1. StreamIsWhole(q) /\ socket[q] \in Sockets
    BY <1>1, StreamsParts, EndParts
  <2>2. CASE socket[q] = n
    BY <1>2, <1>3, <2>2 DEF StreamIsWhole
  <2>3. CASE socket[q] # n
    <3>1. wire'[p][socket[q]] = wire[p][socket[q]] /\ closed'[socket[q]] = closed[socket[q]]
      BY <1>3, <1>4, <2>1, <2>3
    <3>2. Stream(q)' = Stream(q)
      BY <1>1, <1>2, <1>3, <3>1 DEF Stream
    <3> QED
      BY <1>1, <1>2, <1>3, <2>1, <3>1, <3>2 DEF StreamIsWhole
  <2> QED
    BY <2>2, <2>3
<1>14. FarewellIsLast(p)'
  <2>1. ~HasType(writer'[p].data, "Disconnect")
    BY <1>3, EmptyStream
  <2>2. ASSUME NEW k \in Sockets, HasType(wire'[q][k], "Disconnect")
        PROVE  /\ EndsWith(wire'[q][k], "Disconnect") /\ k = n
               /\ ~isReconnecting[p] => Brings(wire'[q][k], inc[q].msgId, out[p].msgId)
    <3>1. FarewellIsLast(p)
      BY StreamsParts
    <3>2. k = n
      <4>1. ~HasType(wire[q][k], "Disconnect")
        BY <1>2, <3>1 DEF FarewellIsLast, q
      <4> QED
        BY <1>1, <1>4, <2>2, <4>1
    <3> QED
      BY <1>5, <1>6, <2>2, <3>2
  <2> QED
    BY <1>1, <1>2, <1>3, <2>1, <2>2 DEF FarewellIsLast, q, n
<1>15. FarewellIsLast(q)'
  <2>1. FarewellIsLast(q)
    BY <1>1, StreamsParts
  <2>2. \A k \in Sockets : HasType(wire'[p][k], "Disconnect") => wire'[p][k] = wire[p][k]
    BY <1>7, EmptyStream
  <2> QED
    BY <1>1, <1>2, <1>3, <2>1, <2>2 DEF FarewellIsLast
<1>16. NothingCutOff'
  BY <1>2, StreamsParts DEF NothingCutOff
<1> QED
  BY <1>1, <1>8, <1>9, <1>10, <1>11, <1>12, <1>13, <1>14, <1>15, <1>16 DEF Streams

-----------------------------------------------------------------------------
(* Steps that put a socket to use.                                           *)

\* What is left when the first k messages are taken ends as the whole does.
LEMMA SuffixEnds ==
    ASSUME NEW s \in Seq(Message), NEW k \in 0..Len(s), NEW type, EndsWith(s, type)
    PROVE  EndsWith(SubSeq(s, k + 1, Len(s)), type)
<1> DEFINE t == SubSeq(s, k + 1, Len(s))
<1>1. /\ t \in Seq(Message) /\ Len(t) = Len(s) - k
      /\ \A i \in 1..Len(s) - k : t[i] = s[k + i]
  BY SuffixProperties
<1>2. DOMAIN t = 1..Len(t) /\ DOMAIN s = 1..Len(s) /\ Len(s) \in Nat
  BY <1>1, LenProperties
<1> HIDE DEF t
<1> SUFFICES ASSUME NEW i \in DOMAIN t, t[i].type = type PROVE i = Len(t)
  BY DEF EndsWith, t
<1>3. k + i \in DOMAIN s /\ s[k + i].type = type
  BY <1>1, <1>2
<1>4. k + i = Len(s)
  BY <1>3 DEF EndsWith
<1> QED
  BY <1>1, <1>2, <1>4

\* The connection-type request is taken off the wire, and the initial chunk with it.
LEMMA ChunkTaken ==
    ASSUME IInv, Streams, NEW n \in Sockets, MayAccept(n),
           NEW k \in 0..Len(Tail(wire["server"][n]))
    PROVE  LET rest == Tail(wire["server"][n])
               x    == SubSeq(rest, k + 1, Len(rest))
           IN  /\ x \in Seq(Message)
               /\ \A type : HasType(x, type) => HasType(wire["server"][n], type)
               /\ EndsWith(wire["server"][n], "Disconnect") => EndsWith(x, "Disconnect")
               /\ ~(n > socket["client"]) /\ n \notin handled /\ wire["client"][n] = <<>>
               /\ n \notin HandedOff
               /\ attempt = "begun" => socket["client"] # n
<1> DEFINE s == wire["server"][n]
           rest == Tail(s)
           x == SubSeq(rest, k + 1, Len(rest))
<1>1. s \in Seq(Message) /\ s # <<>> /\ Head(s).type = "Control" /\ n \notin handled
  BY EndParts, Ends DEF MayAccept
<1>2. k \in 0..Len(rest)
  OBVIOUS
<1> HIDE DEF s
<1>3. /\ rest \in Seq(Message)
      /\ \A type : HasType(rest, type) => HasType(s, type)
      /\ EndsWith(s, "Disconnect") => EndsWith(rest, "Disconnect")
  BY <1>1, TailIs, TailHas, EndsTail
<1> HIDE DEF rest
<1>4. x \in Seq(Message)
  BY <1>2, <1>3, SuffixProperties
<1>5. ASSUME NEW type, HasType(x, type) PROVE HasType(s, type)
  BY <1>2, <1>3, <1>5, SuffixIs
<1>6. EndsWith(s, "Disconnect") => EndsWith(x, "Disconnect")
  BY <1>2, <1>3, SuffixEnds
<1>7. SocketsInOrder /\ ClientWaits /\ IsQuiet(n)
  BY StreamsParts
<1>8. ~(n > socket["client"]) /\ n \notin HandedOff
  BY <1>1, <1>7, Ends DEF SocketsInOrder, s
<1>9. attempt = "begun" => socket["client"] # n
  <2> SUFFICES ASSUME attempt = "begun", socket["client"] = n PROVE FALSE
    OBVIOUS
  <2> DEFINE d == writer["client"].data
  <2>1. Stream("client") = s \o d /\ d \in Seq(Message)
    BY EndParts, Ends DEF Stream, s
  <2>2. HasType(s, "Control")
    BY <1>1, TailHas
  <2> HIDE DEF d
  <2>3. HasType(s \o d, "Control")
    BY <1>1, <2>1, <2>2, HasConcat
  <2> QED
    BY <1>7, <2>1, <2>3 DEF ClientWaits
<1> HIDE DEF x
<1>10. /\ x \in Seq(Message)
       /\ \A type : HasType(x, type) => HasType(s, type)
       /\ EndsWith(s, "Disconnect") => EndsWith(x, "Disconnect")
       /\ ~(n > socket["client"]) /\ n \notin handled /\ wire["client"][n] = <<>>
       /\ n \notin HandedOff
       /\ attempt = "begun" => socket["client"] # n
  BY <1>1, <1>4, <1>5, <1>6, <1>7, <1>8, <1>9 DEF IsQuiet
<1> QED
  BY <1>10 DEF x, rest, s

\* What the client writes, when the server puts socket n to use.
LEMMA ClientsSide ==
    ASSUME IInv, IInv', Streams, NEW n \in Sockets, Unattached(n), NEW x \in Seq(Message),
           wire'["server"][n] = x,
           \A type : HasType(x, type) => HasType(wire["server"][n], type),
           EndsWith(wire["server"][n], "Disconnect") => EndsWith(x, "Disconnect"),
           x = wire["server"][n] \/ n \notin handled,
           attempt = "begun" => socket["client"] # n,
           handled' = handled \cup {n},
           \A k \in Sockets \ {n} : \/ wire'["server"][k] = wire["server"][k]
                                    \/ closed'[k] /\ wire'["server"][k] = <<>>,
           \A k \in Sockets : closed[k] => closed'[k],
           isReconnecting' = isReconnecting,
           socket'["client"] = socket["client"], writer'["client"] = writer["client"],
           \A r \in Endpoint : inc'[r].msgId = inc[r].msgId /\ out'[r].msgId = out[r].msgId,
           UNCHANGED <<attempt, control, disposed, peerLeft>>
    PROVE  ClientWaits' /\ StreamIsWhole("client")' /\ FarewellIsLast("client")'
<1> DEFINE s == socket["client"]
           w == wire["server"]
           v == wire'["server"]
           d == writer["client"].data
           e == inc["server"].msgId
<1>1. /\ s \in Sockets /\ d \in Seq(Message) /\ e \in Nat /\ \A k \in Sockets : w[k] \in Seq(Message)
      /\ \A r \in Endpoint : r = "client" \/ r = "server"
  BY EndParts, Ends
<1>2. /\ Stream("client") = w[s] \o d /\ Stream("client")' = v[s] \o d
      /\ inc'["server"].msgId = e /\ out'["client"].msgId = out["client"].msgId
      /\ writer'["client"].data = d
  BY Ends DEF Stream
<1>3. v[n] = x /\ \A k \in Sockets \ {n} : v[k] = w[k] \/ (closed'[k] /\ v[k] = <<>>)
  OBVIOUS
<1>4. /\ ClientWaits /\ IsQuiet(n) /\ StreamIsWhole("client") /\ FarewellIsLast("client")
  BY StreamsParts, Ends
<1>5. n = s /\ n \notin handled => isReconnecting["client"] /\ ~HasType(d, "Regular")
  BY <1>4 DEF ClientWaits
<1>6. ~HasType(x, "Regular")
  BY <1>4 DEF IsQuiet
<1> HIDE DEF s, w, v, d, e
<1>7. ASSUME NEW k \in Sockets
      PROVE  v[k] \in Seq(Message) /\ \A type : HasType(v[k], type) => HasType(w[k], type)
  <2>1. CASE k = n
    BY <1>3, <2>1 DEF w
  <2>2. CASE k # n
    BY <1>1, <1>3, <2>2, EmptyStream
  <2> QED
    BY <2>1, <2>2
<1>8. ClientWaits'
  <2>1. HasType(v[s] \o d, "Control") => HasType(w[s] \o d, "Control")
    BY <1>1, <1>7, HasConcat
  <2>2. attempt = "begun" => s \notin handled /\ s # n /\ ~HasType(w[s] \o d, "Control")
    BY <1>2, <1>4 DEF ClientWaits, s
  <2> QED
    BY <1>2, <1>4, <2>1, <2>2 DEF ClientWaits, s
<1>9. StreamIsWhole("client")'
  <2> SUFFICES ASSUME ~closed'[s]
               PROVE  /\ Unbroken(v[s] \o d, e)
                      /\ ~isReconnecting["client"] => Brings(v[s] \o d, e, out["client"].msgId)
    BY <1>2, Ends DEF StreamIsWhole, s, e
  <2>1. /\ Unbroken(w[s] \o d, e)
        /\ ~isReconnecting["client"] => Brings(w[s] \o d, e, out["client"].msgId)
    BY <1>1, <1>2, <1>4, Ends DEF StreamIsWhole, s, e
  <2>2. CASE v[s] = w[s]
    BY <2>1, <2>2
  <2>3. CASE v[s] # w[s]
    <3>1. s = n /\ n \notin handled
      BY <1>1, <1>3, <2>3 DEF w
    <3>2. ~HasType(x \o d, "Regular") /\ isReconnecting["client"] /\ v[s] = x
      BY <1>1, <1>3, <1>5, <1>6, <3>1, HasConcat
    <3> QED
      BY <3>2, QuietIsUnbroken
  <2> QED
    BY <2>2, <2>3
<1>10. FarewellIsLast("client")'
  <2>1. ASSUME NEW k \in Sockets, HasType(v[k], "Disconnect")
        PROVE  /\ EndsWith(v[k], "Disconnect") /\ k = s /\ disposed["client"]
               /\ ~isReconnecting["client"] => Brings(v[k], e, out["client"].msgId)
    <3>1. HasType(w[k], "Disconnect")
      BY <1>7, <2>1
    <3>2. /\ EndsWith(w[k], "Disconnect") /\ k = s /\ disposed["client"]
          /\ ~isReconnecting["client"] => Brings(w[k], e, out["client"].msgId)
      BY <1>4, <3>1, Ends DEF FarewellIsLast, w, s, e
    <3>3. CASE v[k] = w[k]
      BY <3>2, <3>3
    <3>4. CASE v[k] # w[k]
      <4>1. k = n
        BY <1>3, <2>1, <3>4, EmptyStream
      <4>2. v[k] = x /\ n \notin handled
        BY <1>3, <3>4, <4>1 DEF w
      <4>3. EndsWith(x, "Disconnect")
        BY <3>2, <4>1 DEF w
      <4> QED
        BY <1>5, <3>2, <4>1, <4>2, <4>3
    <3> QED
      BY <3>3, <3>4
  <2> QED
    BY <1>2, <1>4, <2>1, Ends DEF FarewellIsLast, v, s, e
<1> QED
  BY <1>8, <1>9, <1>10

\* One message of the answer is neither none nor both.
LEMMA HandOffAnswerTail ==
    Tail(HandOffAnswer) # <<>> /\ Tail(HandOffAnswer) # HandOffAnswer
<1> DEFINE a == Plain("Pause", 0)
           b == Plain("Control", 0)
           s == <<a, b>>
<1>1. a \in Message /\ b \in Message /\ a.type = "Pause" /\ b.type = "Control"
  BY DEF Plain, Message, Types
<1> HIDE DEF a, b
<1>2. s \in Seq(Message) /\ s # <<>> /\ Len(s) = 2 /\ s[1] = a /\ s[2] = b
  BY <1>1
<1> HIDE DEF s
<1>3. 1 \in DOMAIN Tail(s) /\ Tail(s)[1] = b
  <2>1. /\ DOMAIN Tail(s) = 1..(Len(s) - 1)
        /\ \A i \in 1..(Len(s) - 1) : Tail(s)[i] = s[i + 1]
    BY ONLY <1>2, TailIs
  <2>2. 1 \in 1..(Len(s) - 1) /\ 1 + 1 = 2
    BY <1>2
  <2> QED
    BY ONLY <1>2, <2>1, <2>2
<1>4. HasType(Tail(s), "Control")
  BY <1>1, <1>3 DEF HasType
<1>5. Tail(s) # <<>>
  BY <1>4, EmptyStream
<1>6. Tail(s) # s
  BY <1>1, <1>2, <1>3
<1> QED
  BY <1>5, <1>6 DEF s, a, b, HandOffAnswer

\* What the server process, or the extension host process, writes on its own.
LEMMA HandOffAnswerIs ==
    ASSUME NEW y \in {<<>>, Tail(HandOffAnswer), HandOffAnswer}
    PROVE  y \in Seq(Message) /\ Plains(y)
<1>1. Plain("Pause", 0) \in Message /\ Plain("Control", 0) \in Message
  BY DEF Plain, Message, Types
<1>2. /\ HandOffAnswer \in Seq(Message) /\ HandOffAnswer # <<>> /\ Len(HandOffAnswer) = 2
      /\ DOMAIN HandOffAnswer = 1..2
      /\ HandOffAnswer[1].type = "Pause" /\ HandOffAnswer[2].type = "Control"
  BY <1>1 DEF HandOffAnswer, Plain
<1>3. Plains(HandOffAnswer)
  BY <1>2 DEF Plains, HasType
<1>4. Tail(HandOffAnswer) \in Seq(Message) /\ Plains(Tail(HandOffAnswer))
  BY <1>2, <1>3, TailIs, TailHas DEF Plains
<1>5. CASE y = <<>>
  BY <1>5, EmptyStream, NothingPlain
<1>6. CASE y = HandOffAnswer
  BY <1>2, <1>3, <1>6
<1>7. CASE y = Tail(HandOffAnswer)
  BY <1>4, <1>7
<1> QED
  BY <1>5, <1>6, <1>7

LEMMA HandOffStreams ==
    ASSUME IInv, IInv', Streams, NEW n \in Sockets, HandOff(n)
    PROVE  Streams'
<1> DEFINE s == "server"
           c == "client"
           rest == Tail(wire[s][n])
<1>1. PICK k \in 0..Len(rest) : \E a \in ChunkAcks(rest, k) :
         /\ wire' = [wire EXCEPT ![s][n] = SubSeq(rest, k + 1, Len(rest)),
                                 ![c][n] = IF closed[n] THEN @ ELSE @ \o HandOffAnswer]
         /\ handoff' = handoff \cup {[socket |-> n, ack |-> a]}
  BY DEF HandOff
<1>2. PICK a \in ChunkAcks(rest, k) :
         /\ wire' = [wire EXCEPT ![s][n] = SubSeq(rest, k + 1, Len(rest)),
                                 ![c][n] = IF closed[n] THEN @ ELSE @ \o HandOffAnswer]
         /\ handoff' = handoff \cup {[socket |-> n, ack |-> a]}
  BY <1>1
<1> DEFINE x == SubSeq(rest, k + 1, Len(rest))
           y == IF closed[n] THEN <<>> ELSE HandOffAnswer
<1>3. MayAccept(n) /\ ~disposed[s]
  BY DEF HandOff
<1>4. /\ x \in Seq(Message)
      /\ \A type : HasType(x, type) => HasType(wire[s][n], type)
      /\ EndsWith(wire[s][n], "Disconnect") => EndsWith(x, "Disconnect")
      /\ ~(n > socket[c]) /\ n \notin handled /\ wire[c][n] = <<>> /\ n \notin HandedOff
      /\ attempt = "begun" => socket[c] # n
  BY <1>3, ChunkTaken
<1>5. wire' = [wire EXCEPT ![s][n] = x, ![c][n] = y]
  <2>1. <<>> \o HandOffAnswer = HandOffAnswer
    BY HandOffAnswerIs, ConcatTwice
  <2> QED
    BY <1>2, <1>4, <2>1
<1> HIDE DEF x, y, rest
<1>6. /\ wire'[s][n] = x /\ wire'[c][n] = y
      /\ \A m \in Sockets \ {n} : \A r \in Endpoint : wire'[r][m] = wire[r][m]
  BY <1>5, Parts, Ends
<1>7. /\ handled' = handled \cup {n} /\ HandedOff' = HandedOff \cup {n}
      /\ UNCHANGED <<out, inc, writer, isReconnecting, timedOut, socket, attempt, control, closed,
                     drops, disposed, peerLeft, sent, delivered>>
  <2> DEFINE r == [socket |-> n, ack |-> a]
  <2>1. handoff' = handoff \cup {r} /\ r.socket = n
    BY <1>2
  <2> HIDE DEF r
  <2>2. HandedOff' = HandedOff \cup {n}
    BY <2>1 DEF HandedOff
  <2> QED
    BY <2>2 DEF HandOff, endVars, lifeVars
<1>8. Unattached(n) /\ \A m \in Sockets \ {n} : Unattached(m)' = Unattached(m)
  BY <1>4, <1>7 DEF Unattached
<1>9. y \in {<<>>, HandOffAnswer} /\ y \in Seq(Message) /\ Plains(y)
  BY HandOffAnswerIs DEF y
<1>10. ClientWaits' /\ StreamIsWhole(c)' /\ FarewellIsLast(c)'
  BY <1>4, <1>6, <1>7, <1>8, ClientsSide, Ends
<1>11. /\ SocketsInOrder /\ ClientWaits /\ IsQuiet(n) /\ StreamIsWhole(s) /\ FarewellIsLast(s)
       /\ NothingCutOff
  BY StreamsParts, Ends
<1>12. socket[s] # n /\ socket[s] \in Sockets
  BY <1>8, <1>11, EndParts, Ends DEF SocketsInOrder
<1>13. SocketsInOrder'
  <2>1. \A m \in Sockets : m > socket[c] => m # n
    BY <1>4
  <2>2. \A g, h \in handoff' : g.socket = h.socket => g = h
    <3>1. \A g \in handoff : g.socket # n
      BY <1>4 DEF HandedOff
    <3>2. \A g, h \in handoff : g.socket = h.socket => g = h
      BY <1>11 DEF SocketsInOrder
    <3> QED
      BY <1>2, <3>1, <3>2
  <2> QED
    BY <1>6, <1>7, <1>8, <1>11, <1>12, <2>1, <2>2 DEF SocketsInOrder
<1>14. ASSUME NEW m \in Sockets PROVE IsQuiet(m)'
  <2>1. CASE m = n
    <3>1. ~HasType(x, "Regular")
      BY <1>4, <1>8, <1>11 DEF IsQuiet
    <3>2. y # Tail(HandOffAnswer)
      BY <1>9, HandOffAnswerTail
    <3>3. n = socket[c] => isReconnecting[c]
      BY <1>4, <1>11 DEF ClientWaits
    <3>4. ~HasType(y, "Regular")
      BY <1>9 DEF Plains
    <3> QED
      BY <1>6, <1>7, <1>9, <2>1, <3>1, <3>2, <3>3, <3>4 DEF IsQuiet
  <2>2. CASE m # n
    <3>1. IsQuiet(m) /\ \A r \in Endpoint : wire'[r][m] = wire[r][m]
      BY <1>6, <2>2, StreamsParts
    <3> QED
      BY <1>7, <1>8, <2>2, <3>1, Ends DEF IsQuiet
  <2> QED
    BY <2>1, <2>2
<1>15. ASSUME NEW r \in Endpoint PROVE NoReplayAsked(r)' /\ ComesInOrder(r)'
  <2>1. NoReplayAsked(r) /\ ComesInOrder(r)
    BY StreamsParts
  <2>2. ~HasType(wire'[r][n], "ReplayRequest") /\ ~HasType(wire'[r][n], "Regular")
    BY <1>4, <1>6, <1>8, <1>9, <1>11, StreamsParts, Ends DEF Plains, NoReplayAsked, IsQuiet
  <2>3. Unbroken(wire'[r][n], inc[r].msgId)
    BY <2>2, QuietIsUnbroken
  <2> QED
    BY <1>6, <1>7, <2>1, <2>2, <2>3 DEF NoReplayAsked, ComesInOrder
<1>16. StreamIsWhole(s)'
  <2>1. Stream(s)' = Stream(s)
    BY <1>6, <1>7, <1>12, Ends DEF Stream
  <2> QED
    BY <1>7, <1>11, <2>1 DEF StreamIsWhole
<1>17. FarewellIsLast(s)'
  <2>1. \A m \in Sockets : ~HasType(wire[c][m], "Disconnect")
    BY <1>3, <1>11, Ends DEF FarewellIsLast
  <2>2. \A m \in Sockets : ~HasType(wire'[c][m], "Disconnect")
    BY <1>6, <1>9, <2>1, Ends DEF Plains
  <2> QED
    BY <1>7, <1>11, <2>2, Ends DEF FarewellIsLast
<1>18. NothingCutOff'
  BY <1>7, <1>11 DEF NothingCutOff
<1> QED
  BY <1>10, <1>13, <1>14, <1>15, <1>16, <1>17, <1>18, Ends DEF Streams

\* The server lets go of its socket and goes on, with a replay, on socket n.
LEMMA ServerMoves ==
    ASSUME IInv, IInv', Streams, NEW n \in Sockets, Unattached(n), ~disposed["server"],
           ~(n > socket["client"]), attempt = "begun" => socket["client"] # n,
           NEW x \in Seq(Message), NEW y \in Seq(Message), NEW msgs,
           \A type : HasType(x, type) => HasType(wire["server"][n], type),
           EndsWith(wire["server"][n], "Disconnect") => EndsWith(x, "Disconnect"),
           x = wire["server"][n] \/ n \notin handled,
           Plains(y), GoesOn("server", msgs),
           Brings(msgs, inc["client"].msgId, out["server"].msgId),
           wire'["server"][n] = x, wire'["client"][n] = y,
           wire'["server"][socket["server"]] = <<>>,
           wire'["client"][socket["server"]] = Left("server"),
           \A k \in Sockets \ {n, socket["server"]} : \A r \in Endpoint : wire'[r][k] = wire[r][k],
           socket' = [socket EXCEPT !["server"] = n],
           closed' = [closed EXCEPT ![socket["server"]] = TRUE],
           writer'["server"].data = msgs, writer'["client"] = writer["client"],
           \A r \in Endpoint : inc'[r].msgId = inc[r].msgId /\ out'[r].msgId = out[r].msgId,
           isReconnecting' = isReconnecting,
           handled' = handled \cup {n}, handoff' = {h \in handoff : h.socket # n},
           UNCHANGED <<attempt, control, drops, disposed, peerLeft, sent, delivered>>
    PROVE  Streams'
<1> DEFINE s == "server"
           c == "client"
           o == socket[s]
<1>1. /\ SocketsInOrder /\ ClientWaits /\ IsQuiet(n) /\ StreamIsWhole(s) /\ FarewellIsLast(s)
      /\ NothingCutOff
  BY StreamsParts, Ends
<1>2. /\ o # n /\ o \in Sockets /\ ~Unattached(o) /\ ~(o > socket[c])
      /\ socket'[s] = n /\ socket'[c] = socket[c]
      /\ closed'[o] = TRUE /\ \A k \in Sockets \ {o} : closed'[k] = closed[k]
  BY <1>1, InUse, Parts, Ends DEF SocketsInOrder
<1>3. /\ HandedOff' = HandedOff \ {n} /\ ~Unattached(n)'
      /\ \A k \in Sockets \ {n} : Unattached(k)' = Unattached(k)
  <2>1. HandedOff' = HandedOff \ {n}
    BY DEF HandedOff
  <2> QED
    BY <2>1 DEF Unattached
<1>4. \A k \in Sockets : closed[k] => closed'[k]
  BY <1>2
<1>5. \A k \in Sockets \ {n} : \/ wire'[s][k] = wire[s][k]
                               \/ closed'[k] /\ wire'[s][k] = <<>>
  BY <1>2, Ends
<1>6. ClientWaits' /\ StreamIsWhole(c)' /\ FarewellIsLast(c)'
  BY <1>2, <1>4, <1>5, ClientsSide
<1>7. /\ Left(s) \in Seq(Message) /\ Unbroken(Left(s), inc[c].msgId)
      /\ ~HasType(Left(s), "ReplayRequest") /\ ~HasType(Left(s), "Disconnect")
  <2>1. ~HasType(wire[c][o], "Disconnect")
    BY <1>1, <1>2, Ends DEF FarewellIsLast
  <2> QED
    BY <2>1, LeftIs, Ends
<1> HIDE DEF o
<1>8. SocketsInOrder'
  <2>1. \A k \in Sockets : k > socket[c] => k # n /\ k # o
    BY <1>2 DEF o
  <2>2. \A k \in Sockets : k > socket[c] =>
            ~closed'[k] /\ k \notin handled' /\ \A r \in Endpoint : wire'[r][k] = wire[r][k]
    BY <1>1, <1>2, <2>1 DEF SocketsInOrder, o
  <2>3. HandedOff' \subseteq handled' /\ \A g, h \in handoff' : g.socket = h.socket => g = h
    BY <1>1, <1>3 DEF SocketsInOrder
  <2>4. disposed[c] => closed'[socket[c]]
    BY <1>1, <1>4, EndParts, Ends DEF SocketsInOrder
  <2> QED
    BY <1>1, <1>2, <1>3, <2>2, <2>3, <2>4, Ends DEF SocketsInOrder
<1>9. ASSUME NEW k \in Sockets PROVE IsQuiet(k)'
  <2>1. CASE k = n
    BY <1>3, <2>1 DEF IsQuiet, Unattached
  <2>2. CASE k = o
    <3>1. ~Unattached(k)'
      BY <1>2, <1>3, <2>2
    <3> QED
      BY <3>1 DEF IsQuiet, Unattached
  <2>3. CASE k # n /\ k # o
    <3>1. IsQuiet(k) /\ \A r \in Endpoint : wire'[r][k] = wire[r][k]
      BY <2>3, StreamsParts DEF o
    <3>2. (k \notin handled' => k \notin handled) /\ (k \in HandedOff' => k \in HandedOff)
          /\ (Unattached(k)' => Unattached(k))
      BY <1>3, <2>3
    <3> QED
      BY <1>2, <3>1, <3>2, Ends DEF IsQuiet
  <2> QED
    BY <2>1, <2>2, <2>3
<1>10. ASSUME NEW r \in Endpoint PROVE NoReplayAsked(r)' /\ ComesInOrder(r)'
  <2>1. NoReplayAsked(r) /\ ComesInOrder(r) /\ NoReplayAsked(s)
    BY StreamsParts, Ends
  <2>2. ~HasType(wire'[r][n], "ReplayRequest") /\ ~HasType(wire'[r][n], "Regular")
    BY <1>1, <2>1, Ends DEF Plains, NoReplayAsked, IsQuiet
  <2>3. Unbroken(wire'[r][n], inc[r].msgId)
    BY <2>2, QuietIsUnbroken
  <2>4. ~HasType(wire'[r][o], "ReplayRequest") /\ Unbroken(wire'[r][o], inc[r].msgId)
    <3>1. wire'[s][o] = <<>> /\ wire'[c][o] = Left(s)
      BY DEF o
    <3>2. CASE r = s
      BY <3>1, <3>2, EmptyStream
    <3>3. CASE r = c
      BY <1>7, <3>1, <3>3
    <3> QED
      BY <3>2, <3>3, Ends
  <2>5. ~HasType(writer'[r].data, "ReplayRequest")
    BY <2>1, Ends DEF NoReplayAsked, GoesOn
  <2>6. \A k \in Sockets \ {n, o} : wire'[r][k] = wire[r][k]
    BY DEF o
  <2> QED
    BY <2>1, <2>2, <2>3, <2>4, <2>5, <2>6 DEF NoReplayAsked, ComesInOrder
<1>11. StreamIsWhole(s)'
  <2> DEFINE e == inc[c].msgId
             last == out[s].msgId
  <2>1. /\ Stream(s)' = y \o msgs /\ e \in Nat /\ last \in Nat /\ msgs \in Seq(Message)
        /\ inc'[c].msgId = e /\ out'[s].msgId = last
    BY <1>2, EndParts, Ends DEF Stream, GoesOn
  <2> HIDE DEF e, last
  <2>2. Unbroken(y \o msgs, e)
    <3>1. Unbroken(y, e)
      BY QuietIsUnbroken DEF Plains
    <3> QED
      BY <3>1, Ends DEF GoesOn, e
  <2>3. Brings(y \o msgs, e, last)
    BY <2>1, BringsConcat DEF e, last
  <2> QED
    BY <2>1, <2>2, <2>3, Ends DEF StreamIsWhole
<1>12. FarewellIsLast(s)'
  <2>1. \A k \in Sockets : ~HasType(wire[c][k], "Disconnect")
    BY <1>1, Ends DEF FarewellIsLast
  <2>2. ~HasType(wire'[c][n], "Disconnect") /\ ~HasType(wire'[c][o], "Disconnect")
    BY <1>7 DEF Plains, o
  <2>3. \A k \in Sockets : ~HasType(wire'[c][k], "Disconnect")
    BY <2>1, <2>2, Ends DEF o
  <2> QED
    BY <1>1, <2>3, Ends DEF FarewellIsLast, GoesOn
<1>13. NothingCutOff'
  BY <1>1 DEF NothingCutOff
<1> QED
  BY <1>6, <1>8, <1>9, <1>10, <1>11, <1>12, <1>13, Ends DEF Streams

\* The server's end on its new socket: what it writes there brings what the client lacks.
LEMMA ServerEnds ==
    ASSUME IInv, Streams, NEW a \in Nat, a <= inc["client"].msgId,
           NEW more \in Seq(Message), Plains(more),
           EndAcceptReconnection("server", Confirm(out["server"], a), NewWriter, more)
    PROVE  /\ GoesOn("server", writer'["server"].data)
           /\ Brings(writer'["server"].data, inc["client"].msgId, out["server"].msgId)
           /\ writer'["client"] = writer["client"]
           /\ isReconnecting' = isReconnecting
           /\ \A r \in Endpoint : out'[r].msgId = out[r].msgId
<1> DEFINE s == "server"
           o == Confirm(out[s], a)
           w == NewWriter
           msgs == Replay(inc[s].msgId, o, more)
<1>1. o \in Half /\ Outgoing(s, o)
  BY State, ConfirmKept, Ends
<1>2. w \in WriterType /\ w.data = <<>>
  BY EmptyStream DEF NewWriter, WriterType
<1>3. EndAcceptReconnection(s, o, w, more)
  OBVIOUS
<1>4. inc[s].msgId \in Nat
  BY EndParts, Ends
<1> HIDE DEF o, w
<1>5. GoesOn(s, msgs) /\ Brings(msgs, inc[Peer(s)].msgId, out[s].msgId)
  BY <1>1, <1>4, ReplayIs, Ends
<1>6. /\ writer'[s].data = w.data \o msgs /\ writer'[Peer(s)] = writer[Peer(s)]
      /\ \A r \in Endpoint : out'[r].msgId = out[r].msgId
  BY <1>1, <1>2, <1>3, EndAcceptIs, Ends, ZenonT(30)
<1> HIDE DEF msgs
<1>7. writer'[s].data = msgs
  BY <1>2, <1>5, <1>6, ConcatTwice DEF GoesOn
<1>8. isReconnecting' = isReconnecting
  <2>1. ~isReconnecting[s]
    BY StreamsParts DEF ClientWaits
  <2>2. isReconnecting' = [isReconnecting EXCEPT ![s] = FALSE]
    BY <1>3 DEF EndAcceptReconnection
  <2> QED
    BY <2>1, <2>2, Parts, Ends
<1> QED
  BY <1>5, <1>6, <1>7, <1>8, Ends

LEMMA IncomingKept ==
    ASSUME IInv, NEW p \in Endpoint,
           inc' = [inc EXCEPT ![p].replayAsked = FALSE, ![p].ackId = inc[p].msgId]
    PROVE  \A r \in Endpoint : inc'[r].msgId = inc[r].msgId
<1> DEFINE x == [inc EXCEPT ![p].replayAsked = FALSE]
<1>1. inc \in [Endpoint -> Incoming]
  BY Parts
<1>2. /\ x \in [Endpoint -> Incoming] /\ \A r \in Endpoint : x[r].msgId = inc[r].msgId
      /\ inc' = [x EXCEPT ![p].ackId = inc[p].msgId]
  BY <1>1 DEF Incoming
<1> HIDE DEF x
<1> QED
  BY <1>2 DEF Incoming

LEMMA AcceptReconnectionStreams ==
    ASSUME IInv, IInv', Streams, NEW n \in Sockets, AcceptReconnection(n)
    PROVE  Streams'
<1> DEFINE s == "server"
           c == "client"
           rest == Tail(wire[s][n])
           left == Abandoned(s, writer[s])
<1>1. PICK k \in 0..Len(rest) : \E a \in ChunkAcks(rest, k) :
         /\ wire' = [left EXCEPT ![s][n] = SubSeq(rest, k + 1, Len(rest)),
                                 ![c][n] = IF closed[n] THEN @
                                           ELSE Append(@, Plain("Control", 0))]
         /\ EndAcceptReconnection(s, Confirm(out[s], a), NewWriter, <<>>)
  BY DEF AcceptReconnection
<1>2. PICK a \in ChunkAcks(rest, k) :
         /\ wire' = [left EXCEPT ![s][n] = SubSeq(rest, k + 1, Len(rest)),
                                 ![c][n] = IF closed[n] THEN @
                                           ELSE Append(@, Plain("Control", 0))]
         /\ EndAcceptReconnection(s, Confirm(out[s], a), NewWriter, <<>>)
  BY <1>1
<1> DEFINE x == SubSeq(rest, k + 1, Len(rest))
           y == IF closed[n] THEN <<>> ELSE <<Plain("Control", 0)>>
<1>3. MayAccept(n) /\ ~disposed[s]
  BY DEF AcceptReconnection
<1>4. /\ x \in Seq(Message)
      /\ \A type : HasType(x, type) => HasType(wire[s][n], type)
      /\ EndsWith(wire[s][n], "Disconnect") => EndsWith(x, "Disconnect")
      /\ ~(n > socket[c]) /\ n \notin handled /\ wire[c][n] = <<>> /\ n \notin HandedOff
      /\ attempt = "begun" => socket[c] # n
  BY <1>3, ChunkTaken
<1>5. a \in Nat /\ a <= inc[c].msgId
  BY <1>3, RestKept, ChunkAckKept DEF MayAccept
<1>6. y \in Seq(Message) /\ Plains(y)
  <2>1. "Control" \in Types \ {"Regular", "ReplayRequest", "Disconnect"}
    BY DEF Types
  <2> QED
    BY <2>1, PlainMessage, EmptyStream, NothingPlain
<1>7. Unattached(n) /\ socket[s] # n /\ socket[s] \in Sockets
  <2>1. ~Unattached(socket[s]) /\ socket[s] \in Sockets
    BY InUse, Ends
  <2> QED
    BY <1>4, <2>1 DEF Unattached
<1>8. /\ wire'[s][n] = x /\ wire'[c][n] = y
      /\ wire'[s][socket[s]] = <<>> /\ wire'[c][socket[s]] = Left(s)
      /\ \A m \in Sockets \ {n, socket[s]} : \A r \in Endpoint : wire'[r][m] = wire[r][m]
  <2>1. /\ left[s][socket[s]] = <<>> /\ left[c][socket[s]] = Left(s)
        /\ left[c][n] = wire[c][n] /\ left \in [Endpoint -> [Sockets -> Seq(Message)]]
        /\ \A m \in Sockets \ {socket[s]} : \A r \in Endpoint : left[r][m] = wire[r][m]
    <3> DEFINE u == IF closed[socket[s]] THEN wire[c][socket[s]]
                    ELSE wire[c][socket[s]] \o Flushed(writer[s])
    <3>1. left = [wire EXCEPT ![c][socket[s]] = u, ![s][socket[s]] = <<>>]
      BY Ends DEF Abandoned
    <3>2. u = Left(s) /\ u \in Seq(Message)
      BY LeftIs, Ends DEF Left
    <3> HIDE DEF u, left
    <3> QED
      BY <1>7, <3>1, <3>2, Parts, Ends, EmptyStream
  <2>2. wire' = [left EXCEPT ![s][n] = x, ![c][n] = y]
    <3> DEFINE v == [left EXCEPT ![s][n] = x]
               d == Plain("Control", 0)
    <3>1. v[c][n] = <<>>
      BY <1>4, <2>1, Ends
    <3>2. wire' = [v EXCEPT ![c][n] = IF closed[n] THEN v[c][n] ELSE Append(v[c][n], d)]
      BY <1>2
    <3>3. y = IF closed[n] THEN <<>> ELSE <<d>>
      OBVIOUS
    <3> HIDE DEF v, d, x, y
    <3>4. Append(<<>>, d) = <<d>>
      OBVIOUS
    <3>5. wire' = [v EXCEPT ![c][n] = y]
      BY <3>1, <3>2, <3>3, <3>4
    <3> QED
      BY <3>5 DEF v
  <2> HIDE DEF x, y, left
  <2> QED
    BY <1>7, <2>1, <2>2, Ends
<1>9. /\ GoesOn(s, writer'[s].data) /\ Brings(writer'[s].data, inc[c].msgId, out[s].msgId)
      /\ writer'[c] = writer[c] /\ isReconnecting' = isReconnecting
      /\ \A r \in Endpoint : out'[r].msgId = out[r].msgId
  <2> DEFINE more == <<>>
  <2>1. more \in Seq(Message) /\ Plains(more)
    BY EmptyStream, NothingPlain
  <2>2. EndAcceptReconnection(s, Confirm(out[s], a), NewWriter, more)
    BY <1>2
  <2> HIDE DEF more
  <2> QED
    BY <1>5, <2>1, <2>2, ServerEnds
<1>10. /\ \A r \in Endpoint : inc'[r].msgId = inc[r].msgId
       /\ socket' = [socket EXCEPT ![s] = n] /\ closed' = [closed EXCEPT ![socket[s]] = TRUE]
       /\ handled' = handled \cup {n}
       /\ UNCHANGED <<attempt, control, drops, disposed, peerLeft, sent, delivered>>
  BY IncomingKept, Ends DEF AcceptReconnection, BeginAcceptReconnection, lifeVars
<1>11. handoff' = {h \in handoff : h.socket # n}
  BY <1>4 DEF AcceptReconnection, HandedOff
<1> HIDE DEF x, y, rest, left
<1> QED
  BY <1>3, <1>4, <1>6, <1>7, <1>8, <1>9, <1>10, <1>11, ServerMoves

LEMMA AttachInExtHostStreams ==
    ASSUME IInv, IInv', Streams, NEW h \in handoff, AttachInExtHost(h)
    PROVE  Streams'
<1> DEFINE s == "server"
           c == "client"
           n == h.socket
           x == wire[s][n]
           y == wire[c][n]
<1>1. /\ n \in Sockets /\ h.ack \in Nat /\ h.ack <= inc[c].msgId
  BY State DEF Handoffs
<1>2. n \in HandedOff /\ Unattached(n)
  BY DEF HandedOff, Unattached
<1>3. SocketsInOrder /\ ClientWaits /\ IsQuiet(n)
  BY <1>1, StreamsParts
<1>4. n \in handled /\ ~(n > socket[c]) /\ socket[s] # n /\ socket[s] \in Sockets
  BY <1>1, <1>2, <1>3, EndParts, Ends DEF SocketsInOrder
<1>5. attempt = "begun" => socket[c] # n
  BY <1>3, <1>4 DEF ClientWaits
<1>6. x \in Seq(Message) /\ y \in Seq(Message) /\ Plains(y)
  <2>1. y \in {<<>>, Tail(HandOffAnswer), HandOffAnswer}
    BY <1>2, <1>3 DEF IsQuiet
  <2> QED
    BY <1>1, <2>1, HandOffAnswerIs, EndParts, Ends
<1>7. /\ ~disposed[s] /\ wire' = Abandoned(s, writer[s])
      /\ EndAcceptReconnection(s, Confirm(out[s], h.ack), NewWriter, AttachAnswer)
  BY DEF AttachInExtHost
<1>8. /\ wire'[s][n] = x /\ wire'[c][n] = y
      /\ wire'[s][socket[s]] = <<>> /\ wire'[c][socket[s]] = Left(s)
      /\ \A m \in Sockets \ {n, socket[s]} : \A r \in Endpoint : wire'[r][m] = wire[r][m]
  BY <1>1, <1>4, <1>7, LetsGo, Ends
<1>9. AttachAnswer \in Seq(Message) /\ Plains(AttachAnswer)
  <2>1. "Resume" \in Types \ {"Regular", "ReplayRequest", "Disconnect"}
    BY DEF Types
  <2> QED
    BY <2>1, PlainMessage DEF AttachAnswer
<1>10. /\ GoesOn(s, writer'[s].data) /\ Brings(writer'[s].data, inc[c].msgId, out[s].msgId)
       /\ writer'[c] = writer[c] /\ isReconnecting' = isReconnecting
       /\ \A r \in Endpoint : out'[r].msgId = out[r].msgId
  BY <1>1, <1>7, <1>9, ServerEnds
<1>11. /\ \A r \in Endpoint : inc'[r].msgId = inc[r].msgId
       /\ socket' = [socket EXCEPT ![s] = n] /\ closed' = [closed EXCEPT ![socket[s]] = TRUE]
       /\ handled' = handled \cup {n}
       /\ UNCHANGED <<attempt, control, drops, disposed, peerLeft, sent, delivered>>
  <2>1. handled' = handled \cup {n}
    BY <1>4 DEF AttachInExtHost
  <2>2. \A r \in Endpoint : inc'[r].msgId = inc[r].msgId
    BY IncomingKept, Ends DEF AttachInExtHost
  <2> QED
    BY <2>1, <2>2 DEF AttachInExtHost, BeginAcceptReconnection, lifeVars
<1>12. handoff' = {g \in handoff : g.socket # n}
  <2>1. \A g \in handoff : g.socket = h.socket => g = h
    BY <1>3 DEF SocketsInOrder
  <2> QED
    BY <2>1 DEF AttachInExtHost
<1> HIDE DEF n, x, y
<1>13. /\ \A type : HasType(x, type) => HasType(wire[s][n], type)
       /\ EndsWith(wire[s][n], "Disconnect") => EndsWith(x, "Disconnect")
       /\ x = wire[s][n] \/ n \notin handled
  BY DEF x
<1> QED
  BY <1>1, <1>2, <1>4, <1>5, <1>6, <1>7, <1>8, <1>10, <1>11, <1>12, <1>13, ServerMoves

-----------------------------------------------------------------------------
(* The invariant.                                                            *)

LEMMA InitStreams ==
    ASSUME Init
    PROVE  SInv
<1>1. IInv
  BY InitInvariant
<1>2. \A p \in Endpoint : writer[p].data \in {<<>>, <<Plain("Resume", 0)>>}
  BY EmptyStream, Ends, ConcatTwice, PlainMessage DEF Init, NewWriter, Write, Types
<1>3. \A p \in Endpoint : writer[p].data \in Seq(Message) /\ Plains(writer[p].data)
  <2>1. "Resume" \in Types \ {"Regular", "ReplayRequest", "Disconnect"}
    BY DEF Types
  <2>2. <<Plain("Resume", 0)>> \in Seq(Message) /\ Plains(<<Plain("Resume", 0)>>)
    BY <2>1, PlainMessage
  <2> QED
    BY <1>2, <2>2, EmptyStream, NothingPlain
<1>4. \A p \in Endpoint : /\ socket[p] = 1 /\ ~isReconnecting[p] /\ ~disposed[p] /\ ~peerLeft[p]
                          /\ inc[p].msgId = 0 /\ out[p].msgId = 0
                          /\ \A n \in Sockets : wire[p][n] = <<>>
  BY DEF Init
<1>5. /\ attempt = "none" /\ handled = {1} /\ HandedOff = {} /\ handoff = {} /\ 1 \in Sockets
      /\ \A n \in Sockets : ~closed[n]
  BY ConstantsAssumption DEF Init, HandedOff, Sockets
<1>6. SocketsInOrder
  BY <1>4, <1>5, Ends DEF SocketsInOrder, Unattached
<1>7. ClientWaits
  BY <1>4, <1>5, Ends DEF ClientWaits
<1>8. ASSUME NEW n \in Sockets PROVE IsQuiet(n)
  BY <1>4, <1>5, EmptyStream, Ends DEF IsQuiet
<1>9. ASSUME NEW p \in Endpoint
      PROVE  NoReplayAsked(p) /\ ComesInOrder(p) /\ StreamIsWhole(p) /\ FarewellIsLast(p)
  <2> DEFINE d == writer[p].data
  <2>1. d \in Seq(Message) /\ Plains(d)
    BY <1>3
  <2>2. Stream(p) = d
    <3>1. Stream(p) = <<>> \o d
      BY <1>4, <1>5, Ends DEF Stream
    <3> HIDE DEF d
    <3> QED
      BY <2>1, <3>1, ConcatTwice
  <2>3. Unbroken(d, 0) /\ Brings(d, 0, 0)
    BY <2>1, QuietIsUnbroken DEF Plains, Brings
  <2>4. NoReplayAsked(p) /\ ComesInOrder(p)
    BY <1>4, <2>1, EmptyStream DEF NoReplayAsked, ComesInOrder, Plains
  <2>5. StreamIsWhole(p)
    BY <1>4, <2>2, <2>3, Ends DEF StreamIsWhole
  <2>6. FarewellIsLast(p)
    BY <1>4, <2>1, EmptyStream, Ends DEF FarewellIsLast, Plains
  <2> QED
    BY <2>4, <2>5, <2>6
<1>10. NothingCutOff
  BY <1>4 DEF NothingCutOff
<1> QED
  BY <1>1, <1>6, <1>7, <1>8, <1>9, <1>10 DEF Streams, SInv

LEMMA StutterStreams ==
    ASSUME IInv, IInv', Streams, UNCHANGED vars
    PROVE  Streams'
<1>1. UNCHANGED attempt
  BY DEF vars, linkVars
<1> QED
  BY <1>1, TimerStep DEF vars, endVars, linkVars, lifeVars

\* A message that was lost on a working socket stays lost.
LEMMA DropsStay ==
    ASSUME IInv, [Next]_vars, drops' = 0
    PROVE  drops = 0 /\ ~\E p \in Endpoint : SocketDrops(p)
<1>1. drops \in Nat
  BY Parts
<1>2. ASSUME NEW p \in Endpoint, NEW d \in Data, Send(p, d) PROVE UNCHANGED drops
  BY <1>2 DEF Send, linkVars
<1>3. ASSUME NEW p \in Endpoint,
             WriteNow(p) \/ ReceiveMessage(p) \/ OutgoingAckTimer(p) \/ IncomingAckTimer(p)
      PROVE  UNCHANGED drops
  BY <1>3 DEF WriteNow, ReceiveMessage, OutgoingAckTimer, IncomingAckTimer, linkVars
<1>4. ASSUME NEW p \in Endpoint, ReplayWindowElapses(p) \/ SendKeepAlive(p) \/ Dispose(p)
      PROVE  UNCHANGED drops
  BY <1>4 DEF ReplayWindowElapses, SendKeepAlive, Dispose, linkVars
<1>5. ASSUME Reconnect \/ ConnectionTypeRequest \/ AttemptFails PROVE UNCHANGED drops
  BY <1>5 DEF Reconnect, ConnectionTypeRequest, AttemptFails
<1>6. ASSUME NEW n \in Sockets,
             \/ HandshakeIgnores(n) \/ AcceptReconnection(n) \/ HandOff(n) \/ SocketBreaks(n)
      PROVE  UNCHANGED drops
  BY <1>6 DEF HandshakeIgnores, AcceptReconnection, HandOff, SocketBreaks
<1>7. ASSUME NEW h \in handoff, LoseInHandOff(h) \/ AttachInExtHost(h) PROVE UNCHANGED drops
  BY <1>7 DEF LoseInHandOff, AttachInExtHost
<1>8. \A p \in Endpoint : SocketDrops(p) => drops' = drops + 1
  BY DEF SocketDrops
<1>9. UNCHANGED drops \/ \E p \in Endpoint : SocketDrops(p)
  BY <1>2, <1>3, <1>4, <1>5, <1>6, <1>7 DEF Next, vars, linkVars
<1> QED
  BY <1>1, <1>8, <1>9

LEMMA NextStreams ==
    ASSUME SInv, [Next]_vars
    PROVE  SInv'
<1>1. IInv /\ IInv'
  BY NextInvariant DEF SInv
<1> SUFFICES ASSUME drops' = 0 PROVE Streams'
  BY <1>1 DEF SInv
<1>2. Streams /\ ~\E p \in Endpoint : SocketDrops(p)
  BY <1>1, DropsStay DEF SInv
<1>3. ASSUME NEW p \in Endpoint, NEW d \in Data, Send(p, d) PROVE Streams'
  BY <1>1, <1>2, <1>3, SendStreams
<1>4. ASSUME NEW p \in Endpoint,
             \/ WriteNow(p) \/ ReceiveMessage(p) \/ OutgoingAckTimer(p) \/ IncomingAckTimer(p)
             \/ ReplayWindowElapses(p) \/ SendKeepAlive(p) \/ Dispose(p)
      PROVE  Streams'
  BY <1>1, <1>2, <1>4, WriteNowStreams, ReceiveMessageStreams, OutgoingAckTimerStreams,
     IncomingAckTimerStreams, ReplayWindowElapsesStreams, SendKeepAliveStreams, DisposeStreams
<1>5. ASSUME Reconnect \/ ConnectionTypeRequest \/ AttemptFails PROVE Streams'
  BY <1>1, <1>2, <1>5, ReconnectStreams, ConnectionTypeRequestStreams, AttemptFailsStreams
<1>6. ASSUME NEW n \in Sockets,
             \/ HandshakeIgnores(n) \/ AcceptReconnection(n) \/ HandOff(n) \/ SocketBreaks(n)
      PROVE  Streams'
  BY <1>1, <1>2, <1>6, HandshakeIgnoresStreams, AcceptReconnectionStreams, HandOffStreams,
     SocketBreaksStreams
<1>7. ASSUME NEW h \in handoff, LoseInHandOff(h) \/ AttachInExtHost(h) PROVE Streams'
  BY <1>1, <1>2, <1>7, LoseInHandOffStreams, AttachInExtHostStreams
<1>8. ASSUME UNCHANGED vars PROVE Streams'
  BY <1>1, <1>2, <1>8, StutterStreams
<1> QED
  BY <1>2, <1>3, <1>4, <1>5, <1>6, <1>7, <1>8 DEF Next

-----------------------------------------------------------------------------
(* The theorems.                                                             *)

\* As long as no working socket has lost a message, each stream goes on where
\* what its reader has received ends and carries all the reader lacks; the ends
\* write no data to a socket before its reader is there; a farewell comes last.
THEOREM StreamsInvariance == Spec => []SInv
<1>1. Init => SInv
  BY InitStreams
<1>2. SInv /\ [Next]_vars => SInv'
  BY NextStreams
<1> QED
  BY <1>1, <1>2, PTL DEF Spec

\* Then no message arrives ahead of its predecessor, whatever the sockets that
\* were given up have done: the replay request is never needed.
THEOREM StreamsHaveNoGap == Spec => []NoGap
<1>1. SInv => NoGap
  <2> SUFFICES ASSUME SInv, NEW p \in Endpoint, drops = 0, wire[p][socket[p]] # <<>>,
                      Head(wire[p][socket[p]]).type = "Regular"
               PROVE  Head(wire[p][socket[p]]).id <= inc[p].msgId + 1
    BY DEF NoGap
  <2> DEFINE w == wire[p][socket[p]]
             e == inc[p].msgId
  <2>1. IInv /\ ComesInOrder(p)
    BY StreamsParts DEF SInv
  <2>2. w \in Seq(Message) /\ e \in Nat /\ Unbroken(w, e)
    BY <2>1, EndParts DEF ComesInOrder
  <2> HIDE DEF w, e
  <2> QED
    BY <2>2, HeadIsNext DEF w, e
<1> QED
  BY <1>1, StreamsInvariance, PTL

\* Once both ends use the same socket, each message the peer lacks is buffered
\* for it or under way on it: endAcceptReconnection has replayed enough, and
\* nothing was written to a socket or a writer that was given up.
THEOREM NoneIsStranded == Spec => []NothingStranded
<1>1. SInv => NothingStranded
  <2> SUFFICES ASSUME SInv, NEW p \in Endpoint, drops = 0, socket[Peer(p)] = socket[p],
                      ~closed[socket[p]], ~isReconnecting[p],
                      NEW id \in inc[Peer(p)].msgId + 1 .. out[p].msgId
               PROVE  \/ \E i \in DOMAIN writer[p].data : writer[p].data[i].id = id
                      \/ \E i \in DOMAIN wire[Peer(p)][socket[p]] :
                             wire[Peer(p)][socket[p]][i].id = id
    BY DEF NothingStranded
  <2> DEFINE w == wire[Peer(p)][socket[p]]
             d == writer[p].data
  <2>1. IInv /\ StreamIsWhole(p)
    BY StreamsParts DEF SInv
  <2>2. w \in Seq(Message) /\ d \in Seq(Message) /\ Stream(p) = w \o d
    BY <2>1, EndParts DEF Stream
  <2>3. Carries(Stream(p), id)
    BY <2>1 DEF StreamIsWhole, Brings
  <2> HIDE DEF w, d
  <2>4. Carries(w, id) \/ Carries(d, id)
    BY <2>2, <2>3, CarriesConcat
  <2> QED
    BY <2>4 DEF Carries, w, d
<1> QED
  BY <1>1, StreamsInvariance, PTL

\* An end that is told that its peer has left has been given all that the peer
\* had sent, unless the peer left in the middle of a reconnection.
THEOREM NoneIsCutOff == Spec => []NothingCutOff
<1>1. SInv => NothingCutOff
  BY StreamsParts DEF SInv, NothingCutOff
<1> QED
  BY <1>1, StreamsInvariance, PTL
=============================================================================
