------------------------- MODULE PrivateBoardProofs -------------------------
(* A private board proved for any number of clients, instances, connections   *)
(* and rows: its types, that snapshots cover what they replace, and that what *)
(* is shown as saved has been received. For a single instance: that it is     *)
(* stored, and that nobody waits for an acknowledgement that does not come.   *)
EXTENDS PrivateBoard, FiniteSetTheorems, SequenceTheorems, TLAPS

-----------------------------------------------------------------------------
(* Numbers, sequences and what they hold. *)

LEMMA SmallestNumber ==
    ASSUME NEW S \in SUBSET Nat, S # {}
    PROVE  \E n \in S : \A m \in S : n <= m
<1>1. \E n \in S : \A m \in S : ~ (<<m, n>> \in OpToRel(<, Nat))
  BY NatLessThanWellFounded, WFMin, Zenon
<1>2. PICK n \in S : \A m \in S : ~ (<<m, n>> \in OpToRel(<, Nat))
  BY Zenon, <1>1
<1>3. \A m \in S : ~(m < n)
  BY Zenon, <1>2 DEF OpToRel
<1> QED
  BY <1>3

\* A bounded set of numbers has a greatest one: its least upper bound.
LEMMA Greatest ==
    ASSUME NEW S \in SUBSET Nat, S # {}, NEW n \in Nat, \A x \in S : x <= n
    PROVE  Max(S) \in S /\ \A x \in S : x <= Max(S)
<1> DEFINE Bounds == {b \in Nat : \A x \in S : x <= b}
<1>1. n \in Bounds /\ Bounds \in SUBSET Nat
  OBVIOUS
<1>2. PICK b \in Bounds : \A m \in Bounds : b <= m
  <2> HIDE DEF Bounds
  <2> QED
    BY <1>1, SmallestNumber
<1>3. b \in Nat /\ \A x \in S : x <= b
  BY <1>2
<1>4. b \in S
  <2> SUFFICES ASSUME b \notin S PROVE FALSE
    OBVIOUS
  <2>1. \A x \in S : x \in Nat /\ x < b /\ x <= b - 1
    BY <1>3
  <2>2. b # 0 /\ b - 1 \in Nat
    <3> PICK x \in S : TRUE
      BY Zenon
    <3> QED
      BY <1>3, <2>1
  <2>3. b - 1 \in Bounds
    BY <2>1, <2>2
  <2>4. b <= b - 1
    <3> HIDE DEF Bounds
    <3> QED
      BY <1>2, <2>3
  <2> QED
    BY <1>3, <2>4
<1>5. \E x \in S : \A y \in S : x >= y
  BY <1>3, <1>4
<1>6. Max(S) \in S /\ \A y \in S : Max(S) >= y
  BY Zenon, <1>5 DEF Max
<1> QED
  BY <1>6

\* A sequence of numbers is bounded.
LEMMA Bounded ==
    ASSUME NEW s \in Seq(Nat)
    PROVE  \E n \in Nat : \A k \in DOMAIN s : s[k] <= n
<1> DEFINE Below(n, j) == \A k \in 1..j : s[k] <= n
<1> DEFINE Fails == {j \in 0..Len(s) : \A n \in Nat : ~Below(n, j)}
<1>1. Len(s) \in Nat /\ DOMAIN s = 1..Len(s) /\ \A k \in 1..Len(s) : s[k] \in Nat
  BY LenProperties, ElementOfSeq
<1>2. Fails = {}
  <2> SUFFICES ASSUME Fails # {} PROVE FALSE
    BY Zenon
  <2>1. Fails \in SUBSET Nat
    BY <1>1
  <2>2. PICK j \in Fails : \A m \in Fails : j <= m
    BY <2>1, SmallestNumber
  <2>3. j \in 0..Len(s) /\ j \in Nat
    BY <1>1, <2>2
  <2>4. j # 0
    BY <2>2
  <2>5. j - 1 \in 0..Len(s) /\ ~(j <= j - 1)
    BY <1>1, <2>3, <2>4
  <2>6. PICK n \in Nat : Below(n, j - 1)
    BY <2>2, <2>5
  <2>7. s[j] \in Nat
    BY <1>1, <2>3, <2>4
  <2>8. \A k \in 1..j : s[k] \in Nat /\ (k = j \/ s[k] <= n)
    <3> HIDE DEF Fails
    <3> TAKE k \in 1..j
    <3>1. k \in 1..Len(s) /\ (k = j \/ k \in 1..(j - 1))
      BY <1>1, <2>3
    <3> QED
      BY <1>1, <2>6, <3>1
  <2>9. \E b \in Nat : Below(b, j)
    <3> HIDE DEF Fails
    <3>1. PICK m \in Nat : m = s[j]
      BY <2>7
    <3>2. CASE m <= n
      BY <2>8, <3>1, <3>2
    <3>3. CASE ~(m <= n)
      <4>1. Below(m, j)
        BY <2>8, <3>1, <3>3
      <4> QED
        BY Zenon, <4>1
    <3> QED
      BY <3>2, <3>3
  <2> QED
    BY Zenon, <2>2, <2>9
<1>3. Len(s) \notin Fails
  BY Zenon, <1>2
<1> QED
  BY <1>1, <1>3

LEMMA TailOf ==
    ASSUME NEW S, NEW q \in Seq(S), q # <<>>
    PROVE  /\ Tail(q) \in Seq(S) /\ Head(q) \in S /\ Head(q) = q[1]
           /\ Len(q) \in Nat /\ 1 <= Len(q) /\ Len(Tail(q)) = Len(q) - 1
           /\ DOMAIN q = 1..Len(q) /\ DOMAIN Tail(q) = 1..(Len(q) - 1)
           /\ \A i \in DOMAIN Tail(q) : i + 1 \in DOMAIN q /\ Tail(q)[i] = q[i + 1]
BY HeadTailProperties, LenProperties, EmptySeq

LEMMA JoinedBy ==
    ASSUME NEW S, NEW q \in Seq(S), NEW r \in Seq(S)
    PROVE  /\ q \o r \in Seq(S)
           /\ Len(q) \in Nat /\ Len(r) \in Nat /\ Len(q \o r) = Len(q) + Len(r)
           /\ DOMAIN q = 1..Len(q) /\ DOMAIN r = 1..Len(r)
           /\ DOMAIN (q \o r) = 1..(Len(q) + Len(r))
           /\ \A i \in DOMAIN q : (q \o r)[i] = q[i]
           /\ \A i \in DOMAIN r : (q \o r)[Len(q) + i] = r[i]
           /\ \A i \in DOMAIN (q \o r) \ DOMAIN q : i - Len(q) \in DOMAIN r /\ (q \o r)[i] = r[i - Len(q)]
BY ConcatProperties, LenProperties

LEMMA OneOf ==
    ASSUME NEW S, NEW x \in S
    PROVE  <<x>> \in Seq(S) /\ Len(<<x>>) = 1 /\ DOMAIN <<x>> = {1} /\ <<x>>[1] = x
  OBVIOUS

LEMMA RangeOfOne ==
    ASSUME NEW S, NEW x \in S
    PROVE  <<x>> \in Seq(S) /\ Range(<<x>>) = {x}
BY OneOf DEF Range

LEMMA RangeOfNone ==
    ASSUME NEW S
    PROVE  <<>> \in Seq(S) /\ Range(<<>>) = {}
BY EmptySeq DEF Range

LEMMA RangeOfJoined ==
    ASSUME NEW S, NEW q \in Seq(S), NEW r \in Seq(S)
    PROVE  q \o r \in Seq(S) /\ Range(q \o r) = Range(q) \cup Range(r)
  BY ConcatProperties, RangeConcatenation

LEMMA RangeOfLonger ==
    ASSUME NEW S, NEW q \in Seq(S), NEW x \in S
    PROVE  Append(q, x) \in Seq(S) /\ Range(Append(q, x)) = Range(q) \cup {x}
<1>1. Append(q, x) = q \o <<x>>
  BY AppendIsConcat
<1>2. PICK one \in Seq(S) : one = <<x>> /\ Range(one) = {x}
  BY Zenon, RangeOfOne
<1>3. Append(q, x) = q \o one
  BY <1>1, <1>2, Zenon
<1>4. q \o one \in Seq(S) /\ Range(q \o one) = Range(q) \cup Range(one)
  BY RangeOfJoined
<1> QED
  BY <1>2, <1>3, <1>4, Zenon

LEMMA RangeOfRest ==
    ASSUME NEW S, NEW q \in Seq(S), q # <<>>
    PROVE  /\ Tail(q) \in Seq(S) /\ Head(q) \in S /\ Head(q) \in Range(q)
           /\ Range(Tail(q)) \subseteq Range(q) /\ Range(q) = {Head(q)} \cup Range(Tail(q))
<1>1. /\ Tail(q) \in Seq(S) /\ Head(q) \in S /\ Head(q) = q[1] /\ Len(q) \in Nat /\ 1 <= Len(q)
      /\ DOMAIN q = 1..Len(q) /\ DOMAIN Tail(q) = 1..(Len(q) - 1)
      /\ \A i \in DOMAIN Tail(q) : i + 1 \in DOMAIN q /\ Tail(q)[i] = q[i + 1]
  BY TailOf
<1>2. Head(q) \in Range(q)
  BY <1>1 DEF Range
<1>3. \A x \in Range(Tail(q)) : x \in Range(q)
  BY <1>1 DEF Range
<1>4. \A x \in Range(q) : x = Head(q) \/ x \in Range(Tail(q))
  <2> TAKE x \in Range(q)
  <2>1. PICK k \in 1..Len(q) : x = q[k]
    BY <1>1 DEF Range
  <2>2. CASE k = 1
    BY <1>1, <2>1, <2>2
  <2>3. CASE k # 1
    <3>1. k - 1 \in DOMAIN Tail(q) /\ (k - 1) + 1 = k
      BY <1>1, <2>3
    <3>2. Tail(q)[k - 1] = q[k]
      BY <1>1, <3>1
    <3> QED
      BY Zenon, <2>1, <3>1, <3>2 DEF Range
  <2> QED
    BY <2>2, <2>3
<1> QED
  BY <1>1, <1>2, <1>3, <1>4

LEMMA ElementsOf ==
    ASSUME NEW S, NEW q \in Seq(S)
    PROVE  /\ \A x \in Range(q) : x \in S
           /\ Len(q) \in Nat /\ DOMAIN q = 1..Len(q)
           /\ \A k \in DOMAIN q : q[k] \in S /\ q[k] \in Range(q)
           /\ \A x \in Range(q) : \E k \in DOMAIN q : x = q[k]
BY LenProperties, ElementOfSeq DEF Range

\* The numbers of a finite set in ascending order.
LEMMA AscendingOf ==
    ASSUME NEW S \in SUBSET Nat, IsFiniteSet(S)
    PROVE  /\ Ascending(S) \in [1..Cardinality(S) -> S] /\ Cardinality(S) \in Nat
           /\ Ascending(S) \in Seq(S) /\ Range(Ascending(S)) = S
           /\ DOMAIN Ascending(S) = 1..Cardinality(S)
<1> DEFINE Sorts(q, T) ==
        /\ q \in [1..Cardinality(T) -> T] /\ Range(q) = T
        /\ \A j, k \in DOMAIN q : j < k => q[j] < q[k]
<1> DEFINE Fails ==
        {n \in Nat : \E T \in SUBSET S : IsFiniteSet(T) /\ Cardinality(T) = n
                                         /\ ~ \E q : Sorts(q, T)}
<1>1. \A T \in SUBSET S : T \in SUBSET Nat /\ IsFiniteSet(T) /\ Cardinality(T) \in Nat
  BY Zenon, FS_Subset, FS_CardinalityType
<1>2. Fails = {}
  <2> SUFFICES ASSUME Fails # {} PROVE FALSE
    OBVIOUS
  <2>1. PICK n \in Fails : \A m \in Fails : n <= m
    BY SmallestNumber
  <2>2. PICK T \in SUBSET S : /\ IsFiniteSet(T) /\ Cardinality(T) = n /\ n \in Nat
                              /\ ~ \E q : Sorts(q, T)
    BY <2>1
  <2>3. T # {}
    <3> SUFFICES ASSUME T = {} PROVE FALSE
      OBVIOUS
    <3>1. n = 0
      BY <2>2, FS_EmptySet
    <3>2. <<>> \in [1..0 -> T] /\ DOMAIN <<>> = {}
      OBVIOUS
    <3>3. Range(<<>>) = {}
      BY RangeOfNone
    <3>4. Sorts(<<>>, T)
      BY <2>2, <3>1, <3>2, <3>3
    <3> QED
      BY Zenon, <2>2, <3>4
  <2>4. PICK m \in T : \A x \in T : m <= x
    BY <1>1, <2>2, <2>3, SmallestNumber
  <2>5. /\ T \ {m} \in SUBSET S /\ IsFiniteSet(T \ {m}) /\ Cardinality(T \ {m}) = n - 1
        /\ n - 1 \in Nat
    <3> HIDE DEF Sorts, Fails
    <3>1. IsFiniteSet(T \ {m}) /\ Cardinality(T \ {m}) = n - 1
      BY <2>2, <2>4, FS_RemoveElement
    <3>2. T \ {m} \in SUBSET S
      OBVIOUS
    <3>3. Cardinality(T \ {m}) \in Nat
      BY <1>1, <3>2
    <3> QED
      BY <3>1, <3>2, <3>3
  <2>6. PICK q : Sorts(q, T \ {m})
    <3>1. ~(n <= n - 1)
      BY <2>2
    <3>2. n - 1 \notin Fails
      BY <2>1, <3>1
    <3>3. \A R \in SUBSET S : IsFiniteSet(R) /\ Cardinality(R) = n - 1 => \E q : Sorts(q, R)
      BY <2>5, <3>2
    <3> HIDE DEF Sorts, Fails
    <3> QED
      BY <2>5, <3>3
  <2>7. /\ q \in [1..(n - 1) -> T \ {m}] /\ Range(q) = T \ {m} /\ DOMAIN q = 1..(n - 1)
        /\ \A j, k \in 1..(n - 1) : j < k => q[j] < q[k]
    BY Zenon, <2>5, <2>6
  <2> DEFINE r == [k \in 1..n |-> IF k = 1 THEN m ELSE q[k - 1]]
  <2> HIDE DEF Fails
  <2>8. /\ r \in [1..n -> T] /\ DOMAIN r = 1..n /\ r[1] = m
        /\ \A k \in 1..n : k # 1 => k - 1 \in 1..(n - 1) /\ r[k] = q[k - 1]
    BY <2>2, <2>4, <2>7, <2>5
  <2> HIDE DEF r
  <2>9. Range(r) = T
    <3>1. \A x \in Range(r) : x \in T
      BY <2>8 DEF Range
    <3>2. ASSUME NEW x \in T PROVE x \in Range(r)
      <4>1. 1 \in 1..n
        BY <2>2, <2>5
      <4>2. CASE x = m
        BY <2>8, <4>1, <4>2 DEF Range
      <4>3. CASE x # m
        <5>1. x \in Range(q)
          BY <2>7, <4>3
        <5>2. PICK k \in 1..(n - 1) : x = q[k]
          BY <2>7, <5>1 DEF Range
        <5>3. k + 1 \in 1..n /\ k + 1 # 1 /\ (k + 1) - 1 = k
          BY <2>2, <5>2
        <5>4. r[k + 1] = x
          BY <2>8, <5>2, <5>3
        <5> QED
          BY <2>8, <5>3, <5>4 DEF Range
      <4> QED
        BY <4>2, <4>3
    <3> QED
      BY Zenon, <3>1, <3>2
  <2>10. ASSUME NEW j \in 1..n, NEW k \in 1..n, j < k PROVE r[j] < r[k]
    <3>1. k # 1 /\ k - 1 \in 1..(n - 1) /\ r[k] = q[k - 1]
      BY <2>2, <2>8, <2>10
    <3>2. q[k - 1] \in T \ {m}
      BY <2>7, <3>1
    <3>3. CASE j = 1
      <4>1. m <= q[k - 1] /\ m # q[k - 1] /\ m \in Nat /\ q[k - 1] \in Nat
        BY Zenon, <1>1, <2>4, <3>2
      <4>2. r[j] = m
        BY <2>8, <3>3
      <4> QED
        BY <3>1, <4>1, <4>2
    <3>4. CASE j # 1
      BY <2>2, <2>8, <2>10, <3>4, <2>7, <3>1
    <3> QED
      BY <3>3, <3>4
  <2>11. Sorts(r, T)
    BY <2>2, <2>8, <2>9, <2>10
  <2> HIDE DEF Sorts
  <2> QED
    BY <2>2, <2>11
<1>3. \E q : Sorts(q, S)
  BY <1>1, <1>2
<1>4. Sorts(Ascending(S), S)
  BY Zenon, <1>3 DEF Ascending
<1>5. Ascending(S) \in [1..Cardinality(S) -> S] /\ Cardinality(S) \in Nat
  BY <1>1, <1>4
<1>6. Ascending(S) \in Seq(S)
  BY <1>5
<1> QED
  BY <1>4, <1>5, <1>6

LEMMA FiniteDomain ==
    ASSUME NEW T, NEW s \in Seq(T), NEW P \in SUBSET DOMAIN s
    PROVE  P \in SUBSET Nat /\ IsFiniteSet(P)
<1>1. Len(s) \in Nat /\ DOMAIN s = 1..Len(s)
  BY LenProperties
<1>2. IsFiniteSet(1..Len(s))
  BY <1>1, FS_Interval
<1> QED
  BY <1>1, <1>2, FS_Subset

\* What is picked is what there was at those positions.
LEMMA PickedOf ==
    ASSUME NEW T, NEW s \in Seq(T), NEW P \in SUBSET DOMAIN s
    PROVE  /\ Picked(s, P) \in Seq(T)
           /\ \A x \in Range(Picked(s, P)) : \E k \in P : x = s[k]
           /\ \A k \in P : s[k] \in Range(Picked(s, P))
           /\ Range(Picked(s, P)) \subseteq Range(s)
<1> DEFINE q == Ascending(P)
<1>1. P \in SUBSET Nat /\ IsFiniteSet(P)
  BY FiniteDomain
<1>2. /\ q \in [1..Cardinality(P) -> P] /\ Cardinality(P) \in Nat /\ Range(q) = P
      /\ DOMAIN q = 1..Cardinality(P)
  BY <1>1, AscendingOf
<1>3. Picked(s, P) = [k \in DOMAIN q |-> s[q[k]]]
  BY DEF Picked
<1> HIDE DEF q
<1>4. \A k \in P : s[k] \in T
  BY ElementsOf
<1>5. Picked(s, P) \in [1..Cardinality(P) -> T]
  BY <1>2, <1>3, <1>4
<1>6. Picked(s, P) \in Seq(T)
  BY <1>2, <1>5
<1>7. DOMAIN Picked(s, P) = DOMAIN q /\ \A k \in DOMAIN q : Picked(s, P)[k] = s[q[k]] /\ q[k] \in P
  BY <1>2, <1>3
<1>8. \A x \in Range(Picked(s, P)) : \E k \in P : x = s[k]
  BY <1>7 DEF Range
<1>9. ASSUME NEW k \in P PROVE s[k] \in Range(Picked(s, P))
  BY <1>2, <1>7 DEF Range
<1>10. Range(Picked(s, P)) \subseteq Range(s)
  BY <1>8 DEF Range
<1> QED
  BY <1>6, <1>8, <1>9, <1>10

-----------------------------------------------------------------------------
(* Types. *)

EntryRecord == [blob : Blobs, ack : Nat, seq : Nat]
LogRecord ==
    [upto : Nat, snapshot : SUBSET Written, entries : Seq(EntryRecord), known : SUBSET Blobs,
     acks : [Connections -> Nat], last : Nat]

LEMMA EntryOf ==
    ASSUME NEW blob \in Blobs, NEW ack \in Nat, NEW seq \in Nat
    PROVE  /\ Entry(blob, ack, seq) \in EntryRecord
           /\ Entry(blob, ack, seq).blob = blob /\ Entry(blob, ack, seq).ack = ack
           /\ Entry(blob, ack, seq).seq = seq
  BY DEF Entry, EntryRecord

LEMMA BlobFields ==
    ASSUME NEW blob \in Blobs
    PROVE  /\ blob.conn \in Connections \cup {NoConnection} /\ blob.n \in Nat
           /\ blob.edits \in SUBSET Written
  BY DEF Blobs

LEMMA EntryFields ==
    ASSUME NEW e \in EntryRecord
    PROVE  e.blob \in Blobs /\ e.ack \in Nat /\ e.seq \in Nat
  BY DEF EntryRecord

LEMMA BlobsOfEntries ==
    ASSUME NEW s \in Seq(EntryRecord)
    PROVE  /\ BlobsOf(s) \in Seq(Blobs) /\ DOMAIN BlobsOf(s) = DOMAIN s
           /\ \A k \in DOMAIN s : BlobsOf(s)[k] = s[k].blob
           /\ \A e \in Range(s) : e.blob \in Range(BlobsOf(s))
           /\ \A b \in Range(BlobsOf(s)) : \E e \in Range(s) : b = e.blob
<1>1. Len(s) \in Nat /\ DOMAIN s = 1..Len(s) /\ \A k \in DOMAIN s : s[k] \in EntryRecord
  BY ElementsOf
<1>2. \A k \in DOMAIN s : s[k].blob \in Blobs
  BY <1>1, EntryFields
<1>3. BlobsOf(s) \in [1..Len(s) -> Blobs]
  BY <1>1, <1>2 DEF BlobsOf
<1>4. BlobsOf(s) \in Seq(Blobs)
  BY <1>1, <1>3
<1>5. DOMAIN BlobsOf(s) = DOMAIN s /\ \A k \in DOMAIN s : BlobsOf(s)[k] = s[k].blob
  BY DEF BlobsOf
<1>6. \A e \in Range(s) : e.blob \in Range(BlobsOf(s))
  BY <1>5 DEF Range
<1>7. \A b \in Range(BlobsOf(s)) : \E e \in Range(s) : b = e.blob
  BY <1>5 DEF Range
<1> QED
  BY <1>4, <1>5, <1>6, <1>7

LEMMA PlainOf ==
    ASSUME NEW blobs \in SUBSET Blobs
    PROVE  /\ Plain(blobs) \in SUBSET Written
           /\ \A b \in blobs : b.edits \subseteq Plain(blobs)
           /\ \A x \in Plain(blobs) : \E b \in blobs : x \in b.edits
BY BlobFields DEF Plain

\* What the holder of a log can show: its snapshot and what its entries carry.
LEMMA ContentOf ==
    ASSUME NEW l \in LogRecord
    PROVE  /\ Content(l) \in SUBSET Written /\ l.snapshot \subseteq Content(l)
           /\ \A e \in Range(l.entries) : e.blob.edits \subseteq Content(l)
           /\ \A x \in Content(l) : \/ x \in l.snapshot
                                    \/ \E e \in Range(l.entries) : x \in e.blob.edits
<1>1. l.entries \in Seq(EntryRecord) /\ l.snapshot \in SUBSET Written
  BY DEF LogRecord
<1>2. Range(BlobsOf(l.entries)) \in SUBSET Blobs
  BY <1>1, BlobsOfEntries, ElementsOf
<1>3. /\ \A e \in Range(l.entries) : e.blob \in Range(BlobsOf(l.entries))
      /\ \A b \in Range(BlobsOf(l.entries)) : \E e \in Range(l.entries) : b = e.blob
  BY <1>1, BlobsOfEntries
<1>4. Content(l) = l.snapshot \cup Plain(Range(BlobsOf(l.entries)))
  BY DEF Content
<1>5. \A e \in Range(l.entries) : e.blob.edits \subseteq Content(l)
  BY <1>2, <1>3, <1>4, PlainOf
<1>6. \A x \in Content(l) : \/ x \in l.snapshot
                            \/ \E e \in Range(l.entries) : x \in e.blob.edits
  BY <1>2, <1>3, <1>4, PlainOf
<1> QED
  BY <1>1, <1>2, <1>4, <1>5, <1>6, PlainOf

LEMMA AckedOf ==
    ASSUME NEW acks \in [Connections -> Nat], NEW new \in Seq(EntryRecord)
    PROVE  /\ Acked(acks, new) \in [Connections -> Nat]
           /\ \A p \in Connections :
                /\ acks[p] <= Acked(acks, new)[p]
                /\ \A e \in Range(new) : e.blob.conn = p => e.ack <= Acked(acks, new)[p]
                /\ \/ Acked(acks, new)[p] = acks[p]
                   \/ \E e \in Range(new) : e.blob.conn = p /\ Acked(acks, new)[p] = e.ack
<1> DEFINE numbers == [k \in DOMAIN new |-> new[k].ack]
<1>1. /\ Len(new) \in Nat /\ DOMAIN new = 1..Len(new) /\ \A k \in DOMAIN new : new[k] \in EntryRecord
      /\ \A e \in Range(new) : e \in EntryRecord /\ \E k \in DOMAIN new : e = new[k]
  BY ElementsOf
<1>2. numbers \in Seq(Nat)
  BY <1>1, EntryFields
<1>3. PICK n \in Nat : \A k \in DOMAIN new : new[k].ack <= n
  BY <1>2, Bounded
<1>4. ASSUME NEW p \in Connections
      PROVE  /\ Acked(acks, new)[p] \in Nat
             /\ acks[p] <= Acked(acks, new)[p]
             /\ \A e \in Range(new) : e.blob.conn = p => e.ack <= Acked(acks, new)[p]
             /\ \/ Acked(acks, new)[p] = acks[p]
                \/ \E e \in Range(new) : e.blob.conn = p /\ Acked(acks, new)[p] = e.ack
  <2> DEFINE S == {acks[p]} \cup {e.ack : e \in {f \in Range(new) : f.blob.conn = p}}
  <2>1. acks[p] \in Nat /\ \A e \in Range(new) : e.ack \in Nat /\ e.ack <= n
    BY <1>1, <1>3, EntryFields
  <2>2. S \in SUBSET Nat /\ acks[p] \in S
    BY <2>1
  <2>3. PICK m \in Nat : m = IF acks[p] <= n THEN n ELSE acks[p]
    BY <2>1
  <2>4. \A x \in S : x <= m
    BY <2>1, <2>3
  <2>5. Acked(acks, new)[p] = Max(S)
    BY DEF Acked
  <2>6. Max(S) \in S /\ \A x \in S : x <= Max(S)
    BY <2>2, <2>4, Greatest
  <2>7. \A e \in Range(new) : e.blob.conn = p => e.ack \in S
    OBVIOUS
  <2>8. \A x \in S : x = acks[p] \/ \E e \in Range(new) : e.blob.conn = p /\ x = e.ack
    OBVIOUS
  <2> HIDE DEF S
  <2> QED
    BY Zenon, <2>2, <2>5, <2>6, <2>7, <2>8
<1>5. Acked(acks, new) \in [Connections -> Nat]
  BY <1>4 DEF Acked
<1> QED
  BY <1>4, <1>5

-----------------------------------------------------------------------------
(* What the operations of a log do. *)

\* m is l after these entries were added.
Extends(l, new, m) ==
    /\ m \in LogRecord
    /\ m.upto = l.upto /\ m.snapshot = l.snapshot
    /\ m.entries = l.entries \o new
    /\ m.known = l.known \cup Range(BlobsOf(new))
    /\ \A p \in Connections :
        /\ l.acks[p] <= m.acks[p]
        /\ \A e \in Range(new) : e.blob.conn = p => e.ack <= m.acks[p]
        /\ \/ m.acks[p] = l.acks[p]
           \/ \E e \in Range(new) : e.blob.conn = p /\ m.acks[p] = e.ack

LEMMA LogFields ==
    ASSUME NEW l \in LogRecord
    PROVE  /\ l.upto \in Nat /\ l.snapshot \in SUBSET Written /\ l.entries \in Seq(EntryRecord)
           /\ l.known \in SUBSET Blobs /\ l.acks \in [Connections -> Nat] /\ l.last \in Nat
  BY DEF LogRecord

LEMMA MaxOfSeqs ==
    ASSUME NEW last \in Nat, NEW new \in Seq(EntryRecord)
    PROVE  LET S == {last} \cup {e.seq : e \in Range(new)}
           IN Max(S) \in S /\ \A x \in S : x <= Max(S)
<1> DEFINE numbers == [k \in DOMAIN new |-> new[k].seq]
<1> DEFINE S == {last} \cup {e.seq : e \in Range(new)}
<1>1. /\ Len(new) \in Nat /\ DOMAIN new = 1..Len(new) /\ \A k \in DOMAIN new : new[k] \in EntryRecord
      /\ \A e \in Range(new) : e \in EntryRecord /\ \E k \in DOMAIN new : e = new[k]
  BY ElementsOf
<1>2. numbers \in Seq(Nat)
  BY <1>1, EntryFields
<1>3. PICK n \in Nat : \A k \in DOMAIN new : new[k].seq <= n
  BY <1>2, Bounded
<1>4. \A e \in Range(new) : e.seq \in Nat /\ e.seq <= n
  BY <1>1, <1>3, EntryFields
<1>5. PICK m \in Nat : m = IF last <= n THEN n ELSE last
  OBVIOUS
<1>6. S \in SUBSET Nat /\ S # {} /\ \A x \in S : x <= m
  BY <1>4, <1>5
<1> HIDE DEF S
<1>7. Max(S) \in S /\ \A x \in S : x <= Max(S)
  BY Zenon, <1>6, Greatest
<1> QED
  BY Zenon, <1>7 DEF S

LEMMA AddOf ==
    ASSUME NEW l \in LogRecord, NEW new \in Seq(EntryRecord)
    PROVE  /\ Extends(l, new, Add(l, new))
           /\ l.last <= Add(l, new).last
           /\ \A e \in Range(new) : e.seq <= Add(l, new).last
           /\ \/ Add(l, new).last = l.last
              \/ \E e \in Range(new) : Add(l, new).last = e.seq
<1>1. /\ l.upto \in Nat /\ l.snapshot \in SUBSET Written /\ l.entries \in Seq(EntryRecord)
      /\ l.known \in SUBSET Blobs /\ l.acks \in [Connections -> Nat] /\ l.last \in Nat
  BY LogFields
<1> DEFINE S == {l.last} \cup {e.seq : e \in Range(new)}
<1>2. PICK last \in Nat : last = Max(S) /\ last \in S /\ \A x \in S : x <= last
  <2>1. Max(S) \in S /\ \A x \in S : x <= Max(S)
    BY Zenon, <1>1, MaxOfSeqs
  <2>2. S \in SUBSET Nat
    BY <1>1, ElementsOf, EntryFields
  <2> HIDE DEF S
  <2> QED
    BY Zenon, <2>1, <2>2
<1>3. PICK acks \in [Connections -> Nat] :
        /\ acks = Acked(l.acks, new)
        /\ \A p \in Connections :
            /\ l.acks[p] <= acks[p]
            /\ \A e \in Range(new) : e.blob.conn = p => e.ack <= acks[p]
            /\ \/ acks[p] = l.acks[p]
               \/ \E e \in Range(new) : e.blob.conn = p /\ acks[p] = e.ack
  BY <1>1, AckedOf
<1>4. PICK known \in SUBSET Blobs : known = l.known \cup Range(BlobsOf(new))
  BY BlobsOfEntries, ElementsOf, <1>1
<1>5. PICK entries \in Seq(EntryRecord) : entries = l.entries \o new
  BY Zenon, <1>1, RangeOfJoined
<1>6. Add(l, new) = [l EXCEPT !.known = known, !.entries = entries, !.acks = acks, !.last = last]
  BY <1>2, <1>3, <1>4, <1>5 DEF Add
<1> HIDE DEF S
<1>7. PICK m : m = Add(l, new)
  OBVIOUS
<1>8. /\ m \in LogRecord
      /\ m.upto = l.upto /\ m.snapshot = l.snapshot /\ m.entries = entries /\ m.known = known
      /\ m.acks = acks /\ m.last = last
  BY Zenon, <1>6, <1>7 DEF LogRecord
<1>9. Extends(l, new, m)
  BY <1>3, <1>4, <1>5, <1>8 DEF Extends
<1>10. /\ l.last <= m.last
       /\ \A e \in Range(new) : e.seq <= m.last
       /\ \/ m.last = l.last
          \/ \E e \in Range(new) : m.last = e.seq
  BY Zenon, <1>2, <1>8 DEF S
<1> QED
  BY <1>7, <1>9, <1>10

LEMMA ExtendsContent ==
    ASSUME NEW l \in LogRecord, NEW new \in Seq(EntryRecord), NEW m, Extends(l, new, m)
    PROVE  /\ Content(l) \subseteq Content(m)
           /\ \A e \in Range(new) : e.blob.edits \subseteq Content(m)
           /\ \A x \in Content(m) : x \in Content(l) \/ \E e \in Range(new) : x \in e.blob.edits
           /\ Range(m.entries) = Range(l.entries) \cup Range(new)
           /\ \A b \in m.known : b \in l.known \/ \E e \in Range(new) : b = e.blob
           /\ l.known \subseteq m.known
           /\ \A e \in Range(new) : e.blob \in m.known
<1>1. m \in LogRecord /\ m.snapshot = l.snapshot /\ m.entries = l.entries \o new
      /\ m.known = l.known \cup Range(BlobsOf(new))
  BY DEF Extends
<1>2. Range(m.entries) = Range(l.entries) \cup Range(new)
  BY <1>1, LogFields, RangeOfJoined
<1>3. /\ Content(l) \in SUBSET Written /\ l.snapshot \subseteq Content(l)
      /\ \A e \in Range(l.entries) : e.blob.edits \subseteq Content(l)
      /\ \A x \in Content(l) : \/ x \in l.snapshot
                               \/ \E e \in Range(l.entries) : x \in e.blob.edits
  BY ContentOf
<1>4. /\ m.snapshot \subseteq Content(m)
      /\ \A e \in Range(m.entries) : e.blob.edits \subseteq Content(m)
      /\ \A x \in Content(m) : \/ x \in m.snapshot
                               \/ \E e \in Range(m.entries) : x \in e.blob.edits
  BY Zenon, <1>1, ContentOf
<1>5. Content(l) \subseteq Content(m)
  BY <1>1, <1>2, <1>3, <1>4
<1>6. \A e \in Range(new) : e.blob.edits \subseteq Content(m)
  BY <1>2, <1>4
<1>7. \A x \in Content(m) : x \in Content(l) \/ \E e \in Range(new) : x \in e.blob.edits
  BY <1>1, <1>2, <1>3, <1>4
<1>8. /\ \A e \in Range(new) : e.blob \in Range(BlobsOf(new))
      /\ \A b \in Range(BlobsOf(new)) : \E e \in Range(new) : b = e.blob
  BY BlobsOfEntries
<1> QED
  BY <1>1, <1>2, <1>5, <1>6, <1>7, <1>8

\* Rows as entries: each has its seq, and every row becomes known.
LEMMA RowEntriesOf ==
    ASSUME NEW l \in LogRecord, NEW r \in Seq(Blobs), NEW seqs \in SUBSET DOMAIN r
    PROVE  /\ RowEntries(l, r, seqs) \in Seq(EntryRecord)
           /\ \A e \in Range(RowEntries(l, r, seqs)) :
                e.seq \in seqs /\ e.blob = r[e.seq] /\ e.ack = 0 /\ e.seq # 0
           /\ \A s \in seqs : \/ r[s] \in l.known
                              \/ \E e \in Range(RowEntries(l, r, seqs)) : e.blob = r[s]
<1> DEFINE first == {s \in seqs : /\ r[s] \notin l.known
                                  /\ \A t \in seqs : t < s => r[t] /= r[s]}
<1> DEFINE q == Ascending(first)
<1> DEFINE new == RowEntries(l, r, seqs)
<1>1. first \in SUBSET Nat /\ IsFiniteSet(first) /\ seqs \in SUBSET Nat
  BY FiniteDomain
<1>2. /\ q \in [1..Cardinality(first) -> first] /\ Cardinality(first) \in Nat
      /\ Range(q) = first /\ DOMAIN q = 1..Cardinality(first)
  <2> HIDE DEF first
  <2> QED
    BY <1>1, AscendingOf
<1>3. new = [k \in DOMAIN q |-> Entry(r[q[k]], 0, q[k])]
  BY DEF RowEntries
<1>4. \A s \in first : s \in seqs /\ s \in Nat /\ s # 0 /\ r[s] \in Blobs
  BY <1>1, ElementsOf
<1>5. \A s \in seqs : r[s] \notin l.known => \E t \in first : r[t] = r[s]
  <2> TAKE s \in seqs
  <2> SUFFICES ASSUME r[s] \notin l.known PROVE \E t \in first : r[t] = r[s]
    OBVIOUS
  <2> DEFINE same == {t \in seqs : r[t] = r[s]}
  <2>1. same \in SUBSET Nat /\ s \in same
    BY <1>1
  <2>2. PICK t \in same : \A u \in same : t <= u
    <3> HIDE DEF same
    <3> QED
      BY <2>1, SmallestNumber
  <2>3. t \in seqs /\ r[t] = r[s] /\ t \in Nat
    BY <2>1, <2>2
  <2>4. \A u \in seqs : u < t => r[u] # r[t]
    BY <1>1, <2>2, <2>3
  <2> QED
    BY <2>3, <2>4
<1> HIDE DEF first
<1> HIDE DEF q
<1> HIDE DEF new
<1>6. \A k \in DOMAIN q : /\ q[k] \in first /\ Entry(r[q[k]], 0, q[k]) \in EntryRecord
                          /\ new[k] = Entry(r[q[k]], 0, q[k])
                          /\ new[k].blob = r[q[k]] /\ new[k].ack = 0 /\ new[k].seq = q[k]
  <2> TAKE k \in DOMAIN q
  <2>1. q[k] \in first
    BY <1>2
  <2>2. r[q[k]] \in Blobs /\ q[k] \in Nat
    BY <1>4, <2>1
  <2>3. new[k] = Entry(r[q[k]], 0, q[k])
    BY <1>3
  <2>4. /\ Entry(r[q[k]], 0, q[k]) \in EntryRecord
        /\ Entry(r[q[k]], 0, q[k]).blob = r[q[k]] /\ Entry(r[q[k]], 0, q[k]).ack = 0
        /\ Entry(r[q[k]], 0, q[k]).seq = q[k]
    BY <2>2, EntryOf
  <2> QED
    BY <2>1, <2>3, <2>4
<1>7. DOMAIN new = DOMAIN q
  BY <1>3
<1>8. new \in Seq(EntryRecord)
  BY <1>2, <1>3, <1>6
<1>9. \A e \in Range(new) : e.seq \in seqs /\ e.blob = r[e.seq] /\ e.ack = 0 /\ e.seq # 0
  BY <1>7, <1>4, <1>6 DEF Range
<1>10. \A s \in seqs : r[s] \in l.known \/ \E e \in Range(new) : e.blob = r[s]
  BY <1>5, <1>2, <1>7, <1>6 DEF Range
<1> QED
  BY <1>8, <1>9, <1>10 DEF new

LEMMA LoadedOf ==
    ASSUME NEW l \in LogRecord, NEW r \in Seq(Blobs), NEW seqs \in SUBSET DOMAIN r
    PROVE  /\ RowEntries(l, r, seqs) \in Seq(EntryRecord)
           /\ Extends(l, RowEntries(l, r, seqs), Loaded(l, r, seqs))
           /\ Loaded(l, r, seqs).last = l.upto \/ Loaded(l, r, seqs).last \in seqs
<1>1. PICK new \in Seq(EntryRecord) : new = RowEntries(l, r, seqs)
  BY RowEntriesOf
<1>2. PICK a : a = Add(l, new) /\ Extends(l, new, a)
  BY AddOf
<1>3. Len(r) \in Nat /\ DOMAIN r = 1..Len(r) /\ l.upto \in Nat
  BY LogFields, LenProperties
<1>4. PICK b \in Nat : l.upto <= b /\ Len(r) <= b
  BY <1>3
<1> DEFINE S == {l.upto} \cup seqs
<1>5. S \in SUBSET Nat /\ S # {} /\ \A x \in S : x <= b
  BY <1>3, <1>4 DEF S
<1>6. PICK last \in Nat : last = Max(S) /\ last \in S
  <2> HIDE DEF S
  <2> QED
    BY Zenon, <1>5, Greatest
<1>7. Loaded(l, r, seqs) = [a EXCEPT !.last = last]
  BY <1>1, <1>2, <1>6 DEF Loaded
<1>8. PICK m : m = Loaded(l, r, seqs)
  OBVIOUS
<1>9. a \in LogRecord
  BY <1>2 DEF Extends
<1>10. /\ m \in LogRecord /\ m.upto = a.upto /\ m.snapshot = a.snapshot /\ m.entries = a.entries
       /\ m.known = a.known /\ m.acks = a.acks /\ m.last = last
  BY Zenon, <1>7, <1>8, <1>9 DEF LogRecord
<1>11. Extends(l, new, m)
  BY <1>2, <1>10 DEF Extends
<1> QED
  BY <1>1, <1>6, <1>8, <1>10, <1>11

LEMMA InstallOf ==
    ASSUME NEW l \in LogRecord, NEW upto \in Nat, NEW snapshot \in SUBSET Written
    PROVE  /\ Install(l, upto, snapshot) \in LogRecord
           /\ Install(l, upto, snapshot).upto = upto
           /\ Install(l, upto, snapshot).snapshot = snapshot
           /\ Install(l, upto, snapshot).known = l.known
           /\ Install(l, upto, snapshot).acks = l.acks
           /\ Install(l, upto, snapshot).last = l.last
           /\ Range(Install(l, upto, snapshot).entries) \subseteq Range(l.entries)
           /\ \A e \in Range(l.entries) :
                e.seq = 0 \/ e.seq > upto => e \in Range(Install(l, upto, snapshot).entries)
<1>1. l.entries \in Seq(EntryRecord)
  BY LogFields
<1> DEFINE P == {k \in DOMAIN l.entries : l.entries[k].seq = 0 \/ l.entries[k].seq > upto}
<1>2. PICK entries \in Seq(EntryRecord) :
        /\ entries = Picked(l.entries, P)
        /\ \A k \in P : l.entries[k] \in Range(entries)
        /\ Range(entries) \subseteq Range(l.entries)
  <2>1. P \in SUBSET DOMAIN l.entries
    OBVIOUS
  <2> HIDE DEF P
  <2> QED
    BY <1>1, <2>1, PickedOf
<1>3. PICK m : m = Install(l, upto, snapshot)
  OBVIOUS
<1>4. m = [l EXCEPT !.upto = upto, !.snapshot = snapshot, !.entries = entries]
  BY <1>2, <1>3 DEF Install
<1>5. \A e \in Range(l.entries) : e.seq = 0 \/ e.seq > upto => e \in Range(entries)
  BY <1>2 DEF Range
<1> HIDE DEF P
<1>6. /\ m \in LogRecord /\ m.upto = upto /\ m.snapshot = snapshot /\ m.entries = entries
      /\ m.known = l.known /\ m.acks = l.acks /\ m.last = l.last
  BY Zenon, <1>4 DEF LogRecord
<1> QED
  BY <1>2, <1>3, <1>5, <1>6

LEMMA StoredSeqOf ==
    ASSUME NEW r \in Seq(Blobs), NEW after \in Nat, NEW blob
    PROVE  /\ StoredSeq(r, after, blob) \in Nat
           /\ StoredSeq(r, after, blob) # 0 =>
                /\ StoredSeq(r, after, blob) \in DOMAIN r
                /\ r[StoredSeq(r, after, blob)] = blob
           /\ \A s \in DOMAIN r : s > after /\ r[s] = blob => StoredSeq(r, after, blob) # 0
<1> DEFINE S == {0} \cup {s \in DOMAIN r : s > after /\ r[s] = blob}
<1>1. Len(r) \in Nat /\ DOMAIN r = 1..Len(r)
  BY LenProperties
<1>2. S \in SUBSET Nat /\ S # {} /\ \A x \in S : x <= Len(r)
  BY <1>1
<1>3. StoredSeq(r, after, blob) = Max(S)
  BY DEF StoredSeq
<1>4. Max(S) \in S /\ \A x \in S : x <= Max(S)
  <2> HIDE DEF S
  <2> QED
    BY Zenon, <1>1, <1>2, Greatest
<1>5. PICK n \in Nat : n = Max(S) /\ n \in S /\ \A x \in S : x <= n
  BY Zenon, <1>2, <1>4
<1>6. n # 0 => n \in DOMAIN r /\ r[n] = blob
  BY <1>5
<1>7. ASSUME NEW s \in DOMAIN r, s > after, r[s] = blob PROVE n # 0
  BY <1>1, <1>5, <1>7
<1> HIDE DEF S
<1> QED
  BY <1>3, <1>5, <1>6, <1>7

\* m is l with other seqs: the entries carry the same envelopes with the same counters.
Renumbers(l, m) ==
    /\ m \in LogRecord
    /\ m.upto = l.upto /\ m.snapshot = l.snapshot /\ m.known = l.known /\ m.acks = l.acks
    /\ DOMAIN m.entries = DOMAIN l.entries
    /\ \A k \in DOMAIN l.entries :
        m.entries[k].blob = l.entries[k].blob /\ m.entries[k].ack = l.entries[k].ack

LEMMA RenumbersContent ==
    ASSUME NEW l \in LogRecord, NEW m, Renumbers(l, m)
    PROVE  /\ Content(m) = Content(l)
           /\ \A e \in Range(m.entries) : \E f \in Range(l.entries) : e.blob = f.blob /\ e.ack = f.ack
<1>1. /\ m \in LogRecord /\ m.snapshot = l.snapshot
      /\ \A e \in Range(m.entries) : \E f \in Range(l.entries) : e.blob = f.blob /\ e.ack = f.ack
      /\ \A f \in Range(l.entries) : \E e \in Range(m.entries) : e.blob = f.blob
  BY DEF Renumbers, Range
<1>2. \A x \in Content(m) : x \in Content(l)
  BY <1>1, ContentOf
<1>3. \A x \in Content(l) : x \in Content(m)
  BY <1>1, ContentOf
<1> QED
  BY Zenon, <1>1, <1>2, <1>3

LEMMA TaggedOf ==
    ASSUME NEW l \in LogRecord, NEW r \in Seq(Blobs)
    PROVE  /\ Renumbers(l, Tagged(l, r)) /\ Tagged(l, r).last = l.last
           /\ \A k \in DOMAIN l.entries :
                \/ Tagged(l, r).entries[k].seq = l.entries[k].seq
                \/ /\ Tagged(l, r).entries[k].seq \in DOMAIN r
                   /\ r[Tagged(l, r).entries[k].seq] = l.entries[k].blob
<1>1. /\ l.entries \in Seq(EntryRecord) /\ Len(l.entries) \in Nat
      /\ DOMAIN l.entries = 1..Len(l.entries)
      /\ \A k \in DOMAIN l.entries : l.entries[k] \in EntryRecord
      /\ l.upto \in Nat
  BY LogFields, ElementsOf
<1> DEFINE seq(k) == StoredSeq(r, l.upto, l.entries[k].blob)
<1> DEFINE tagged == [k \in DOMAIN l.entries |->
                        IF seq(k) = 0 THEN l.entries[k] ELSE [l.entries[k] EXCEPT !.seq = seq(k)]]
<1>2. \A k \in DOMAIN l.entries :
        seq(k) \in Nat /\ (seq(k) # 0 => seq(k) \in DOMAIN r /\ r[seq(k)] = l.entries[k].blob)
  BY <1>1, StoredSeqOf
<1>3. \A k \in DOMAIN l.entries :
        /\ tagged[k] \in EntryRecord
        /\ tagged[k].blob = l.entries[k].blob /\ tagged[k].ack = l.entries[k].ack
        /\ \/ tagged[k].seq = l.entries[k].seq
           \/ tagged[k].seq \in DOMAIN r /\ r[tagged[k].seq] = l.entries[k].blob
  BY <1>2, <1>1 DEF EntryRecord
<1>4. DOMAIN tagged = DOMAIN l.entries /\ tagged = [k \in DOMAIN l.entries |-> tagged[k]]
  OBVIOUS
<1>5. Tagged(l, r) = [l EXCEPT !.entries = tagged]
  BY DEF Tagged
<1> HIDE DEF tagged
<1>6. tagged \in Seq(EntryRecord)
  <2>1. tagged \in [1..Len(l.entries) -> EntryRecord]
    BY Zenon, <1>1, <1>3, <1>4
  <2> QED
    BY <1>1, <2>1
<1>7. PICK m : m = Tagged(l, r)
  OBVIOUS
<1>8. /\ m \in LogRecord /\ m.upto = l.upto /\ m.snapshot = l.snapshot /\ m.entries = tagged
      /\ m.known = l.known /\ m.acks = l.acks /\ m.last = l.last
  BY Zenon, <1>5, <1>6, <1>7 DEF LogRecord
<1>9. Renumbers(l, m)
  BY <1>3, <1>4, <1>8 DEF Renumbers
<1> QED
  BY <1>3, <1>7, <1>8, <1>9

LEMMA CommittedOf ==
    ASSUME NEW l \in LogRecord, NEW b \in Seq(Blobs), NEW f \in Nat, f # 0
    PROVE  /\ Renumbers(l, Committed(l, b, f))
           /\ Committed(l, b, f).last = l.last \/ Committed(l, b, f).last = LastOf(b, f)
           /\ \A k \in DOMAIN l.entries :
                \/ Committed(l, b, f).entries[k].seq = l.entries[k].seq
                \/ \E j \in DOMAIN b : /\ b[j] = l.entries[k].blob
                                       /\ Committed(l, b, f).entries[k].seq = f - 1 + j
<1>1. /\ l.entries \in Seq(EntryRecord) /\ Len(l.entries) \in Nat
      /\ DOMAIN l.entries = 1..Len(l.entries)
      /\ \A k \in DOMAIN l.entries : l.entries[k] \in EntryRecord
      /\ l.upto \in Nat /\ l.last \in Nat
  BY LogFields, ElementsOf
<1> DEFINE seq(k) == f - 1 + StoredSeq(b, 0, l.entries[k].blob)
<1> DEFINE given == [k \in DOMAIN l.entries |->
                        IF Contains(b, l.entries[k].blob)
                        THEN [l.entries[k] EXCEPT !.seq = seq(k)] ELSE l.entries[k]]
<1>2. ASSUME NEW k \in DOMAIN l.entries, Contains(b, l.entries[k].blob)
      PROVE  /\ seq(k) \in Nat
             /\ \E j \in DOMAIN b : b[j] = l.entries[k].blob /\ seq(k) = f - 1 + j
  <2>1. Len(b) \in Nat /\ DOMAIN b = 1..Len(b)
    BY LenProperties
  <2>2. PICK n \in 1..Len(b) : b[n] = l.entries[k].blob
    BY <1>2 DEF Contains
  <2>3. PICK blob : blob = l.entries[k].blob
    OBVIOUS
  <2>4. PICK j \in Nat : /\ j = StoredSeq(b, 0, blob)
                         /\ j # 0 => j \in DOMAIN b /\ b[j] = blob
                         /\ \A s \in DOMAIN b : s > 0 /\ b[s] = blob => j # 0
    BY StoredSeqOf
  <2>5. n \in DOMAIN b /\ n > 0
    BY <2>1
  <2>6. j \in DOMAIN b /\ b[j] = blob
    BY <2>2, <2>3, <2>4, <2>5
  <2> QED
    BY <2>1, <2>3, <2>4, <2>6
<1>3. \A k \in DOMAIN l.entries :
        /\ given[k] \in EntryRecord
        /\ given[k].blob = l.entries[k].blob /\ given[k].ack = l.entries[k].ack
        /\ \/ given[k].seq = l.entries[k].seq
           \/ \E j \in DOMAIN b : b[j] = l.entries[k].blob /\ given[k].seq = f - 1 + j
  BY <1>1, <1>2 DEF EntryRecord
<1>4. DOMAIN given = DOMAIN l.entries /\ given = [k \in DOMAIN l.entries |-> given[k]]
  OBVIOUS
<1>5. PICK last \in Nat : /\ last = IF LastOf(b, f) > l.last THEN LastOf(b, f) ELSE l.last
                          /\ last = l.last \/ last = LastOf(b, f)
  BY LenProperties, <1>1 DEF LastOf
<1>6. Committed(l, b, f) = [l EXCEPT !.entries = given, !.last = last]
  BY <1>5 DEF Committed
<1> HIDE DEF given
<1>7. given \in Seq(EntryRecord)
  <2>1. given \in [1..Len(l.entries) -> EntryRecord]
    BY Zenon, <1>1, <1>3, <1>4
  <2> QED
    BY <1>1, <2>1
<1>8. PICK m : m = Committed(l, b, f)
  OBVIOUS
<1>9. /\ m \in LogRecord /\ m.upto = l.upto /\ m.snapshot = l.snapshot /\ m.entries = given
      /\ m.known = l.known /\ m.acks = l.acks /\ m.last = last
  BY Zenon, <1>6, <1>7, <1>8 DEF LogRecord
<1>10. Renumbers(l, m)
  BY <1>3, <1>4, <1>9 DEF Renumbers
<1> QED
  BY <1>3, <1>5, <1>8, <1>9, <1>10

LEMMA UnstoredOf ==
    ASSUME NEW l \in LogRecord
    PROVE  /\ Unstored(l) \in Seq(Blobs)
           /\ \A b \in Range(Unstored(l)) : \E e \in Range(l.entries) : b = e.blob
BY LogFields, PickedOf, BlobsOfEntries DEF Unstored

\* Entries on the bus: the same envelopes and counters.
LEMMA EntriesOf ==
    ASSUME NEW s \in Seq(EntryRecord)
    PROVE  /\ Entries(s).kind = "entries" /\ Entries(s).entries \in Seq(EntryRecord)
           /\ \A e \in Range(Entries(s).entries) :
                /\ e.seq = 0
                /\ \E f \in Range(s) : e.blob = f.blob /\ e.ack = f.ack
<1> DEFINE copies == [k \in DOMAIN s |-> Entry(s[k].blob, s[k].ack, 0)]
<1>1. Len(s) \in Nat /\ DOMAIN s = 1..Len(s) /\ \A k \in DOMAIN s : s[k] \in EntryRecord
  BY ElementsOf
<1>2. \A k \in DOMAIN s : /\ copies[k] \in EntryRecord
                          /\ copies[k].blob = s[k].blob /\ copies[k].ack = s[k].ack /\ copies[k].seq = 0
  BY <1>1, EntryFields, EntryOf
<1>3. Entries(s) = [kind |-> "entries", entries |-> copies]
  BY DEF Entries
<1>4. DOMAIN copies = DOMAIN s /\ copies = [k \in DOMAIN s |-> copies[k]]
  OBVIOUS
<1> HIDE DEF copies
<1>5. copies \in Seq(EntryRecord)
  BY <1>1, <1>2, <1>4
<1>6. Entries(s).kind = "entries" /\ Entries(s).entries = copies
  BY <1>3
<1>7. \A e \in Range(copies) : e.seq = 0 /\ \E f \in Range(s) : e.blob = f.blob /\ e.ack = f.ack
  BY <1>2, <1>4 DEF Range
<1> QED
  BY <1>5, <1>6, <1>7

-----------------------------------------------------------------------------
(* Messages. *)

DownMessage ==
    [type : {"state", "update"}, edits : SUBSET Written] \cup
    [type : {"persisted"}, n : Nat] \cup [type : {"request"}, id : Nat]
UpMessage ==
    [type : {"update"}, blob : Blobs] \cup
    [type : {"snapshot"}, id : Nat, edits : SUBSET Written]
SendItem ==
    [conn : Connections, type : {"update"}, edits : SUBSET Written] \cup
    [conn : Connections, type : {"snapshot"}, id : Nat, edits : SUBSET Written]
Vector == [Connections -> Nat]
BusMessage ==
    [kind : {"entries"}, entries : Seq(EntryRecord)] \cup
    [kind : {"syncRequest"}, from : Instances, known : SUBSET Blobs] \cup
    [kind : {"persisted"}, vector : Vector]
RequestRecord == [id : Nat, upto : Nat, peer : Connections]
StartRecord == [upto : Nat, covered : Nat]
InstallRecord == [id : Nat, upto : Nat, edits : SUBSET Written, done : BOOLEAN]

\* What a message adds to its reader's document.
Shown(m) == IF m.type \in {"state", "update"} THEN m.edits ELSE {}

LEMMA DownFields ==
    ASSUME NEW m \in DownMessage
    PROVE  /\ m.type \in {"state", "update", "persisted", "request"}
           /\ m.type \in {"state", "update"} => m.edits \in SUBSET Written
           /\ m.type = "persisted" => m.n \in Nat
           /\ m.type = "request" => m.id \in Nat
           /\ Shown(m) \in SUBSET Written
  BY DEF DownMessage, Shown

LEMMA UpFields ==
    ASSUME NEW m \in UpMessage
    PROVE  /\ m.type \in {"update", "snapshot"}
           /\ m.type = "update" => m.blob \in Blobs
           /\ m.type = "snapshot" => m.id \in Nat /\ m.edits \in SUBSET Written
  BY DEF UpMessage

LEMMA SendFields ==
    ASSUME NEW m \in SendItem
    PROVE  /\ m.type \in {"update", "snapshot"} /\ m.conn \in Connections
           /\ m.edits \in SUBSET Written
           /\ m.type = "snapshot" => m.id \in Nat
  BY DEF SendItem

LEMMA BusFields ==
    ASSUME NEW m \in BusMessage
    PROVE  /\ m.kind \in {"entries", "syncRequest", "persisted"}
           /\ m.kind = "entries" => m.entries \in Seq(EntryRecord)
           /\ m.kind = "syncRequest" => m.from \in Instances /\ m.known \in SUBSET Blobs
           /\ m.kind = "persisted" => m.vector \in Vector
  BY DEF BusMessage

LEMMA MessagesOf ==
    /\ \A b \in Blobs : ServerUpdate(b) \in DownMessage /\ ServerUpdate(b).type = "update"
                        /\ ServerUpdate(b).edits = b.edits
    /\ \A n \in Nat : Persisted(n) \in DownMessage /\ Persisted(n).type = "persisted"
                      /\ Persisted(n).n = n
    /\ \A id \in Nat : SnapshotRequest(id) \in DownMessage
                       /\ SnapshotRequest(id).type = "request" /\ SnapshotRequest(id).id = id
    /\ \A edits \in SUBSET Written :
        EncryptedState(edits) \in DownMessage /\ EncryptedState(edits).type = "state"
        /\ EncryptedState(edits).edits = edits
BY BlobFields DEF ServerUpdate, Persisted, SnapshotRequest, EncryptedState, DownMessage

LEMMA RepliesOf ==
    /\ \A b \in Blobs : ClientUpdate(b) \in UpMessage /\ ClientUpdate(b).type = "update"
                        /\ ClientUpdate(b).blob = b
    /\ \A id \in Nat, edits \in SUBSET Written :
        SnapshotReply(id, edits) \in UpMessage /\ SnapshotReply(id, edits).type = "snapshot"
        /\ SnapshotReply(id, edits).id = id /\ SnapshotReply(id, edits).edits = edits
  BY DEF ClientUpdate, SnapshotReply, UpMessage

LEMMA NoticesOf ==
    /\ \A i \in Instances, known \in SUBSET Blobs :
        SyncRequest(i, known) \in BusMessage /\ SyncRequest(i, known).kind = "syncRequest"
    /\ \A v \in Vector : PersistedVector(v) \in BusMessage /\ PersistedVector(v).kind = "persisted"
                         /\ PersistedVector(v).vector = v
    /\ \A s \in Seq(EntryRecord) : Entries(s) \in BusMessage /\ Entries(s).kind = "entries"
BY EntriesOf DEF Entries, BusMessage, SyncRequest, PersistedVector

LEMMA UpdatesOf ==
    ASSUME NEW blobs \in Seq(Blobs)
    PROVE  /\ Updates(blobs) \in Seq(DownMessage) /\ DOMAIN Updates(blobs) = DOMAIN blobs
           /\ \A k \in DOMAIN blobs : Updates(blobs)[k] = ServerUpdate(blobs[k])
           /\ \A m \in Range(Updates(blobs)) : \E b \in Range(blobs) : m = ServerUpdate(b)
           /\ \A b \in Range(blobs) : ServerUpdate(b) \in Range(Updates(blobs))
BY ElementsOf, MessagesOf DEF Updates, Range

LEMMA MergedOf ==
    ASSUME NEW a \in Vector, NEW b \in Vector
    PROVE  /\ MergeStateVectors(a, b) \in Vector
           /\ \A p \in Connections : /\ a[p] <= MergeStateVectors(a, b)[p]
                                     /\ b[p] <= MergeStateVectors(a, b)[p]
                                     /\ \/ MergeStateVectors(a, b)[p] = a[p]
                                        \/ MergeStateVectors(a, b)[p] = b[p]
  BY DEF MergeStateVectors, Vector

-----------------------------------------------------------------------------
(* Types. *)

StreamTypes ==
    /\ opened \in 0..MaxConnections
    /\ reading \in SUBSET Connections /\ member \in SUBSET Connections
    /\ up \in [Connections -> Seq(UpMessage)]
DownTypes == down \in [Connections -> Seq(DownMessage)]
ClientTypes ==
    /\ doc \in [Clients -> SUBSET Written]
    /\ conn \in [Clients -> Connections \cup {NoConnection}]
    /\ synced \in [Clients -> BOOLEAN] /\ unsent \in [Clients -> BOOLEAN]
    /\ counter \in [Clients -> Nat] /\ confirmed \in [Clients -> Nat]
    /\ pending \in [Clients -> SUBSET Written]
    /\ sending \in [Clients -> Seq(SendItem)]
    /\ sent \in SUBSET Blobs
    /\ \A c \in Clients : pending[c] # {} => conn[c] # NoConnection
DatabaseTypes ==
    /\ rows \in Seq(Blobs) /\ late \in SUBSET Seq(Blobs) /\ snapUpto \in Nat
    /\ snapState \in SUBSET Written /\ forgotten \in SUBSET Written /\ hidden \in SUBSET Blobs
LogTypes == log \in [Instances -> LogRecord]
QueueTypes ==
    /\ active \in [Instances -> BOOLEAN] /\ catching \in [Instances -> BOOLEAN]
    /\ queue \in [Instances -> Seq(Blobs)] /\ batch \in [Instances -> Seq(Blobs)]
    /\ firstSeq \in [Instances -> Nat] /\ marker \in [Instances -> Vector]
ToldTypes == told \in [Instances -> Vector]
RoomTypes ==
    /\ phase \in [Instances -> {"down", "loading", "leasing", "draining", "open"}]
    /\ home \in [Connections -> Instances \cup {NoRoom}]
    /\ \A p \in member : home[p] \in Instances
SnapshotTypes ==
    /\ request \in [Instances -> SUBSET RequestRecord]
    /\ starting \in [Instances -> SUBSET StartRecord]
    /\ installing \in [Instances -> SUBSET InstallRecord]
    /\ asked \in Nat
BusTypes ==
    /\ inbox \in [Instances -> Seq(BusMessage)]
    /\ listening \in [Instances -> BOOLEAN]

Types ==
    /\ StreamTypes /\ DownTypes /\ ClientTypes /\ DatabaseTypes /\ LogTypes /\ QueueTypes
    /\ ToldTypes /\ RoomTypes /\ SnapshotTypes /\ BusTypes

LEMMA NoCountersTyped == NoCounters \in Vector
  BY DEF NoCounters, Vector

LEMMA EmptyLogTyped == EmptyLog \in LogRecord
BY EmptySeq DEF NoCounters, EmptyLog, LogRecord

LEMMA EarlierRowsTyped == EarlierRows \in Seq(Blobs)
BY EmptySeq, OneOf DEF EarlierRows, Blobs, Written

LEMMA TypesInit == Init => Types
<1> SUFFICES ASSUME Init PROVE Types
  OBVIOUS
<1> USE DEF Init
<1>1. StreamTypes
  BY EmptySeq, ProtocolAssumption DEF StreamTypes
<1>2. DownTypes
  BY EmptySeq DEF DownTypes
<1>3. ClientTypes
  BY EmptySeq DEF ClientTypes, ProviderInit
<1>4. DatabaseTypes
  BY EarlierRowsTyped DEF DatabaseTypes, RoomInit
<1>5. LogTypes
  BY EmptyLogTyped DEF LogTypes, RoomInit
<1>6. QueueTypes
  BY EmptySeq, NoCountersTyped DEF QueueTypes, RoomInit
<1>7. ToldTypes
  BY NoCountersTyped DEF ToldTypes, RoomInit
<1>8. RoomTypes
  BY DEF RoomTypes, RoomInit
<1>9. SnapshotTypes
  BY EmptySeq DEF SnapshotTypes, RoomInit
<1>10. BusTypes
  BY EmptySeq DEF BusTypes, RoomInit
<1> QED
  BY <1>1, <1>2, <1>3, <1>4, <1>5, <1>6, <1>7, <1>8, <1>9, <1>10 DEF Types

\* A broadcast: every member that still reads gets its messages, nobody else anything.
LEMMA DeliverOf ==
    ASSUME DownTypes, NEW i, NEW messages,
           \A p \in Connections : messages[p] \in Seq(DownMessage), Deliver(i, messages)
    PROVE  /\ DownTypes'
           /\ \A p \in Connections :
                /\ p \in MembersOf(i) \cap reading => down'[p] = down[p] \o messages[p]
                /\ p \notin MembersOf(i) \cap reading => down'[p] = down[p]
BY RangeOfJoined DEF DownTypes, Deliver

LEMMA PublishOf ==
    ASSUME BusTypes, NEW i \in Instances, NEW rest \in Seq(BusMessage),
           NEW messages \in Seq(BusMessage), Publish(i, rest, messages)
    PROVE  /\ inbox' \in [Instances -> Seq(BusMessage)] /\ inbox'[i] = rest
           /\ \A j \in Instances \ {i} :
                inbox'[j] = inbox[j] \/ inbox'[j] = inbox[j] \o messages
BY RangeOfJoined DEF BusTypes, Publish

LEMMA SameTypes ==
    ASSUME Types
    PROVE  /\ UNCHANGED <<opened, reading, member, up>> => StreamTypes'
           /\ UNCHANGED down => DownTypes'
           /\ UNCHANGED providerVars => ClientTypes'
           /\ UNCHANGED <<databaseVars, late>> => DatabaseTypes'
           /\ UNCHANGED log => LogTypes'
           /\ UNCHANGED queueVars => QueueTypes'
           /\ UNCHANGED told => ToldTypes'
           /\ UNCHANGED <<phase, home, member>> => RoomTypes'
           /\ UNCHANGED snapshotVars => SnapshotTypes'
           /\ UNCHANGED busVars => BusTypes'
<1> USE DEF Types
<1>1. UNCHANGED <<opened, reading, member, up>> => StreamTypes'
  BY DEF StreamTypes
<1>2. UNCHANGED down => DownTypes'
  BY DEF DownTypes
<1>3. UNCHANGED providerVars => ClientTypes'
  BY DEF ClientTypes, providerVars
<1>4. UNCHANGED <<databaseVars, late>> => DatabaseTypes'
  BY DEF DatabaseTypes, databaseVars
<1>5. UNCHANGED log => LogTypes'
  BY DEF LogTypes
<1>6. UNCHANGED queueVars => QueueTypes'
  BY DEF QueueTypes, queueVars
<1>7. UNCHANGED told => ToldTypes'
  BY DEF ToldTypes
<1>8. UNCHANGED <<phase, home, member>> => RoomTypes'
  BY DEF RoomTypes
<1>9. UNCHANGED snapshotVars => SnapshotTypes'
  BY DEF SnapshotTypes, snapshotVars
<1>10. UNCHANGED busVars => BusTypes'
  BY DEF BusTypes, busVars
<1> QED
  BY <1>1, <1>2, <1>3, <1>4, <1>5, <1>6, <1>7, <1>8, <1>9, <1>10

LEMMA UpdateItem ==
    ASSUME ClientTypes, NEW c \in Clients, conn[c] # NoConnection
    PROVE  /\ conn[c] \in Connections
           /\ \A edits \in SUBSET Written : /\ Update(c, edits) \in SendItem
                                            /\ Update(c, edits).conn = conn[c]
                                            /\ Update(c, edits).type = "update"
                                            /\ Update(c, edits).edits = edits
           /\ \A id \in Nat : /\ Snapshot(c, id) \in SendItem
                              /\ Snapshot(c, id).conn = conn[c]
                              /\ Snapshot(c, id).type = "snapshot"
                              /\ Snapshot(c, id).id = id /\ Snapshot(c, id).edits = doc[c]
BY DEF ClientTypes, Update, Snapshot, SendItem

\* Where a client's document and queue are after it handled the next message.
LEMMA HandledBy ==
    ASSUME Types, NEW c \in Clients, HandleNext(c)
    PROVE  LET m == Head(down[conn[c]])
           IN /\ conn[c] \in Connections /\ conn[c] # NoConnection
              /\ down[conn[c]] \in Seq(DownMessage) /\ down[conn[c]] # <<>>
              /\ m \in DownMessage
              /\ doc' = [doc EXCEPT ![c] = doc[c] \cup Shown(m)]
              /\ down' = [down EXCEPT ![conn[c]] = Tail(down[conn[c]])]
              /\ UNCHANGED <<conn, counter, pending, sent, opened, reading, member, up>>
BY RangeOfRest DEF HandleNext, Types, ClientTypes, DownTypes, HandleState, Shown, HandleUpdate,
   HandlePersisted, HandleRequest

LEMMA TypesClient ==
    ASSUME Types, NEW c \in Clients, ClientStep(c)
    PROVE  Types'
<1>1. UNCHANGED roomVars
  BY DEF ClientStep
<1>2. UNCHANGED <<databaseVars, late, log, queueVars, told, phase, home, snapshotVars, busVars>>
  BY <1>1 DEF roomVars, faultVars
<1>3. DatabaseTypes' /\ LogTypes' /\ QueueTypes' /\ ToldTypes' /\ SnapshotTypes' /\ BusTypes'
  BY <1>2, SameTypes
<1>4. UNCHANGED member => RoomTypes'
  BY <1>2, SameTypes
<1> DEFINE Fine == StreamTypes' /\ DownTypes' /\ ClientTypes' /\ UNCHANGED member
<1> SUFFICES Fine
  BY <1>3, <1>4 DEF Types
<1> USE DEF streamVars
<1>5. CASE \E e \in Edits : Edit(c, e)
  <2> PICK e \in Edits : Edit(c, e)
    BY <1>5
  <2>1. UNCHANGED <<conn, synced, counter, confirmed, sending, sent, opened, reading, member, up, down>>
    BY DEF Edit
  <2>2. StreamTypes' /\ DownTypes'
    BY <2>1, SameTypes
  <2>3. doc' \in [Clients -> SUBSET Written] /\ e \in Written
    BY DEF Edit, Types, ClientTypes, Written
  <2>4. CASE conn[c] = NoConnection \/ ~synced[c]
    <3>1. unsent' = [unsent EXCEPT ![c] = TRUE] /\ UNCHANGED pending
      BY <2>4 DEF Edit
    <3>2. ClientTypes'
      BY <2>1, <2>3, <3>1 DEF Types, ClientTypes
    <3> QED
      BY <2>1, <2>2, <3>2
  <2>5. CASE ~(conn[c] = NoConnection \/ ~synced[c])
    <3>1. pending' = [pending EXCEPT ![c] = pending[c] \cup {e}] /\ UNCHANGED unsent
      BY <2>5 DEF Edit
    <3>2. pending' \in [Clients -> SUBSET Written]
      BY <2>3, <3>1 DEF Types, ClientTypes
    <3>3. \A d \in Clients : pending'[d] # {} => conn[d] # NoConnection
      BY <2>5, <3>1 DEF Types, ClientTypes
    <3>4. ClientTypes'
      BY Zenon, <2>1, <2>3, <3>1, <3>2, <3>3 DEF Types, ClientTypes
    <3> QED
      BY <2>1, <2>2, <3>4
  <2> QED
    BY <2>4, <2>5
<1>6. CASE FlushFrame(c)
  <2>1. UNCHANGED <<doc, conn, synced, counter, confirmed, unsent, sent, opened, reading, member, up, down>>
    BY <1>6 DEF FlushFrame
  <2>2. StreamTypes' /\ DownTypes'
    BY <2>1, SameTypes
  <2>3. pending[c] \in SUBSET Written /\ conn[c] # NoConnection /\ sending[c] \in Seq(SendItem)
    BY <1>6 DEF FlushFrame, Types, ClientTypes
  <2>4. Append(sending[c], Update(c, pending[c])) \in Seq(SendItem)
    BY <2>3, UpdateItem, RangeOfLonger DEF Types
  <2>5. ClientTypes'
    BY <1>6, <2>1, <2>4 DEF FlushFrame, Types, ClientTypes
  <2> QED
    BY <2>1, <2>2, <2>5
<1>7. CASE SendNext(c)
  <2>1. UNCHANGED <<doc, conn, synced, confirmed, unsent, pending, opened, reading, member, down>>
    BY <1>7 DEF SendNext
  <2>2. DownTypes'
    BY <2>1, SameTypes
  <2>3. sending[c] \in Seq(SendItem) /\ sending[c] # <<>>
    BY <1>7 DEF SendNext, Types, ClientTypes
  <2>4. Tail(sending[c]) \in Seq(SendItem)
    BY <2>3, RangeOfRest
  <2>5. PICK item \in SendItem : item = Head(sending[c])
    BY <2>3, RangeOfRest
  <2>6. sending' = [sending EXCEPT ![c] = Tail(sending[c])]
    BY <1>7 DEF SendNext
  <2>7. item.conn \in Connections /\ item.edits \in SUBSET Written /\ item.type \in {"update", "snapshot"}
        /\ (item.type = "snapshot" => item.id \in Nat)
    BY SendFields
  <2>8. CASE item.conn # conn[c]
    BY <1>7, <2>5, <2>8, <2>1, SameTypes, <2>4, <2>6, <2>2 DEF SendNext, Types, ClientTypes
  <2>9. CASE item.conn = conn[c] /\ item.type = "update"
    <3> PICK n \in Nat : n = counter[c] + 1
      BY DEF Types, ClientTypes
    <3>1. PICK b \in Blobs : b = Blob(conn[c], counter[c] + 1, item.edits)
      BY Zenon, <2>7, <2>9 DEF Blob, Blobs
    <3>2. /\ counter' = [counter EXCEPT ![c] = counter[c] + 1] /\ sent' = sent \cup {b}
          /\ up' = [up EXCEPT ![conn[c]] = Append(up[conn[c]], ClientUpdate(b))]
      BY <1>7, <2>5, <2>9, <3>1 DEF SendNext
    <3>3. Append(up[conn[c]], ClientUpdate(b)) \in Seq(UpMessage)
      BY <2>7, <2>9, RepliesOf, RangeOfLonger DEF Types, StreamTypes
    <3>4. StreamTypes'
      BY Zenon, <2>1, <3>2, <3>3 DEF Types, StreamTypes
    <3>5. ClientTypes'
      BY <2>1, <2>4, <2>6, <3>2 DEF Types, ClientTypes
    <3> QED
      BY <2>1, <2>2, <3>4, <3>5
  <2>10. CASE item.conn = conn[c] /\ item.type = "snapshot"
    <3>1. /\ UNCHANGED <<counter, sent>>
          /\ up' = [up EXCEPT ![conn[c]] = Append(up[conn[c]], SnapshotReply(item.id, item.edits))]
      BY <1>7, <2>5, <2>10 DEF SendNext
    <3>2. Append(up[conn[c]], SnapshotReply(item.id, item.edits)) \in Seq(UpMessage)
      BY <2>7, <2>10, RepliesOf, RangeOfLonger DEF Types, StreamTypes
    <3>3. StreamTypes'
      BY Zenon, <2>1, <3>1, <3>2 DEF Types, StreamTypes
    <3>4. ClientTypes'
      BY <2>1, <2>4, <2>6, <3>1 DEF Types, ClientTypes
    <3> QED
      BY <2>1, <2>2, <3>3, <3>4
  <2> QED
    BY <2>7, <2>8, <2>9, <2>10
<1>8. CASE HandleNext(c)
  <2>1. PICK m \in DownMessage :
            /\ m = Head(down[conn[c]])
            /\ doc' = [doc EXCEPT ![c] = doc[c] \cup Shown(m)]
    BY <1>8, HandledBy
  <2>2. /\ conn[c] \in Connections /\ conn[c] # NoConnection
        /\ down[conn[c]] \in Seq(DownMessage) /\ down[conn[c]] # <<>>
        /\ down' = [down EXCEPT ![conn[c]] = Tail(down[conn[c]])]
        /\ UNCHANGED <<conn, counter, pending, sent, opened, reading, member, up>>
    BY <1>8, HandledBy
  <2>3. DownTypes'
    BY <2>2, RangeOfRest DEF Types, DownTypes
  <2>4. StreamTypes'
    BY <2>2, SameTypes
  <2>5. doc' \in [Clients -> SUBSET Written]
    BY <2>1, DownFields DEF Types, ClientTypes
  <2>6. /\ synced' \in [Clients -> BOOLEAN] /\ unsent' \in [Clients -> BOOLEAN]
        /\ confirmed' \in [Clients -> Nat] /\ sending' \in [Clients -> Seq(SendItem)]
    <3>1. sending[c] \in Seq(SendItem)
      BY DEF Types, ClientTypes
    <3>2. CASE m.type = "state" /\ HandleState(c, m)
      BY <3>2, DownFields, <2>2, <3>1, UpdateItem, RangeOfLonger DEF Missing, Types, ClientTypes,
         HandleState
    <3>3. CASE m.type = "update" /\ HandleUpdate(c, m)
      BY <3>3 DEF HandleUpdate, Types, ClientTypes
    <3>4. CASE m.type = "persisted" /\ HandlePersisted(c, m)
      BY <3>4, DownFields DEF HandlePersisted, Types, ClientTypes
    <3>5. CASE m.type = "request" /\ HandleRequest(c, m)
      BY <2>2, <3>1, <3>5, DownFields, UpdateItem, RangeOfLonger DEF Types, HandleRequest,
         ClientTypes
    <3> QED
      BY <1>8, <2>1, <3>2, <3>3, <3>4, <3>5 DEF HandleNext
  <2>7. ClientTypes'
    BY <2>2, <2>5, <2>6 DEF Types, ClientTypes
  <2> QED
    BY <2>2, <2>3, <2>4, <2>7
<1>9. CASE Disconnect(c)
  BY <1>9, EmptySeq DEF Disconnect, Types, ClientTypes, DownTypes, StreamTypes
<1> HIDE DEF Fine
<1> QED
  BY <1>5, <1>6, <1>7, <1>8, <1>9 DEF ClientStep

LEMMA RoomFields ==
    ASSUME Types, NEW i \in Instances
    PROVE  /\ log[i] \in LogRecord /\ rows \in Seq(Blobs) /\ Len(rows) \in Nat
           /\ DOMAIN rows = 1..Len(rows)
           /\ queue[i] \in Seq(Blobs) /\ batch[i] \in Seq(Blobs) /\ firstSeq[i] \in Nat
           /\ marker[i] \in Vector /\ told[i] \in Vector
           /\ request[i] \in SUBSET RequestRecord /\ starting[i] \in SUBSET StartRecord
           /\ installing[i] \in SUBSET InstallRecord /\ inbox[i] \in Seq(BusMessage)
           /\ snapUpto \in Nat /\ snapState \in SUBSET Written
  BY LenProperties DEF Types, LogTypes, DatabaseTypes, QueueTypes, ToldTypes, SnapshotTypes, BusTypes

\* An install commits or is refused; the room then hears of it.
Commits(i, s) ==
    /\ s \in installing[i] /\ s.upto \in Nat /\ s.edits \in SUBSET Written
    /\ \/ /\ installing'[i] \subseteq installing[i]
          /\ UNCHANGED <<snapUpto, snapState, forgotten>>
       \/ /\ s.upto > snapUpto /\ s.upto <= Len(rows)
          /\ snapUpto' = s.upto /\ snapState' = s.edits
          /\ forgotten' = forgotten \cup (snapState \ (s.edits \cup Plain(Range(rows))))
          /\ \E t \in InstallRecord :
                t.upto = s.upto /\ t.edits = s.edits /\ installing'[i] \subseteq installing[i] \cup {t}
Returns(i, s) ==
    /\ s \in installing[i] /\ s.done /\ s.upto \in Nat /\ s.edits \in SUBSET Written
    /\ log'[i] = Install(log[i], s.upto, s.edits) /\ hidden' = hidden \cup Hides(i, s)

LEMMA InstallFields ==
    ASSUME Types, NEW i \in Instances, NEW s \in installing[i]
    PROVE  s \in InstallRecord /\ s.upto \in Nat /\ s.edits \in SUBSET Written /\ s.done \in BOOLEAN
<1>1. s \in InstallRecord
  BY RoomFields
<1> QED
  BY <1>1 DEF InstallRecord

LEMMA InstallCommitted ==
    ASSUME Types, NEW i \in Instances, InstallCommits(i)
    PROVE  /\ \E s : Commits(i, s)
           /\ SnapshotTypes' /\ UNCHANGED <<rows, hidden, log, request, starting>>
           /\ \A j \in Instances \ {i} : installing'[j] = installing[j]
<1>0. UNCHANGED <<rows, hidden, log, request, starting, asked>>
  BY DEF InstallCommits
<1>1. PICK s \in installing[i] :
        IF s.upto > snapUpto /\ s.upto <= Len(rows)
        THEN /\ snapUpto' = s.upto /\ snapState' = s.edits
             /\ forgotten' = forgotten \cup (snapState \ (s.edits \cup Plain(Range(rows))))
             /\ installing' = [installing EXCEPT ![i] = (@ \ {s}) \cup {[s EXCEPT !.done = TRUE]}]
        ELSE /\ installing' = [installing EXCEPT ![i] = @ \ {s}]
             /\ UNCHANGED <<snapUpto, snapState, forgotten>>
  BY Zenon DEF InstallCommits
<1>2. s \in InstallRecord /\ s.upto \in Nat /\ s.edits \in SUBSET Written
  BY InstallFields
<1>3. PICK t : t = [s EXCEPT !.done = TRUE]
  BY Zenon
<1>4. t \in InstallRecord /\ t.upto = s.upto /\ t.edits = s.edits
  BY <1>2, <1>3 DEF InstallRecord
<1>5. \/ installing' = [installing EXCEPT ![i] = installing[i] \ {s}]
      \/ installing' = [installing EXCEPT ![i] = (installing[i] \ {s}) \cup {t}]
  BY Zenon, <1>1, <1>3
<1>6. /\ SnapshotTypes' /\ \A j \in Instances \ {i} : installing'[j] = installing[j]
      /\ installing'[i] \subseteq installing[i] \cup {t}
  BY <1>0, <1>4, <1>5 DEF Types, SnapshotTypes
<1>7. CASE s.upto > snapUpto /\ s.upto <= Len(rows)
  BY <1>0, <1>1, <1>2, <1>4, <1>6, <1>7 DEF Commits
<1>8. CASE ~(s.upto > snapUpto /\ s.upto <= Len(rows))
  <2>1. installing'[i] \subseteq installing[i]
    BY <1>1, <1>8 DEF Types, SnapshotTypes
  <2> QED
    BY <1>0, <1>1, <1>2, <1>6, <1>8, <2>1 DEF Commits
<1> QED
  BY <1>7, <1>8

LEMMA InstallReturned ==
    ASSUME Types, NEW i \in Instances, InstallReturns(i)
    PROVE  /\ \E s : Returns(i, s) /\ log' = [log EXCEPT ![i] = Install(log[i], s.upto, s.edits)]
           /\ SnapshotTypes' /\ DatabaseTypes' /\ installing'[i] \subseteq installing[i]
           /\ \A j \in Instances \ {i} : installing'[j] = installing[j] /\ log'[j] = log[j]
           /\ UNCHANGED <<rows, snapUpto, snapState, forgotten, request, starting>>
<1>0. UNCHANGED <<rows, snapUpto, snapState, forgotten, request, starting, asked, late>>
  BY DEF InstallReturns, faultVars
<1>1. PICK s \in installing[i] :
        /\ s.done
        /\ log' = [log EXCEPT ![i] = Install(@, s.upto, s.edits)]
        /\ hidden' = hidden \cup Hides(i, s)
        /\ installing' = [installing EXCEPT ![i] = @ \ {s}]
  BY Zenon DEF InstallReturns
<1>2. /\ SnapshotTypes' /\ installing'[i] \subseteq installing[i]
      /\ \A j \in Instances \ {i} : installing'[j] = installing[j] /\ log'[j] = log[j]
  BY <1>0, <1>1 DEF Types, SnapshotTypes, LogTypes
<1>3. DatabaseTypes'
  BY <1>0, <1>1, ElementsOf DEF Types, DatabaseTypes, Hides
<1>4. Returns(i, s)
  BY <1>1, InstallFields DEF Returns, Types, LogTypes
<1> QED
  BY <1>0, <1>1, <1>2, <1>3, <1>4

LEMMA ReturnedOf ==
    ASSUME Types, NEW i \in Instances, NEW s, Returns(i, s)
    PROVE  /\ log'[i] \in LogRecord /\ log'[i].upto = s.upto /\ log'[i].snapshot = s.edits
           /\ log'[i].known = log[i].known /\ log'[i].acks = log[i].acks /\ log'[i].last = log[i].last
           /\ Range(log'[i].entries) \subseteq Range(log[i].entries)
           /\ \A e \in Range(log[i].entries) : e.seq = 0 \/ e.seq > s.upto => e \in Range(log'[i].entries)
<1>1. PICK l \in LogRecord, u \in Nat, d \in SUBSET Written : l = log[i] /\ u = s.upto /\ d = s.edits
  BY RoomFields DEF Returns
<1>2. PICK m : m = Install(l, u, d)
  OBVIOUS
<1>3. /\ m \in LogRecord /\ m.upto = u /\ m.snapshot = d /\ m.known = l.known /\ m.acks = l.acks
      /\ m.last = l.last /\ Range(m.entries) \subseteq Range(l.entries)
      /\ \A e \in Range(l.entries) : e.seq = 0 \/ e.seq > u => e \in Range(m.entries)
  BY <1>2, InstallOf
<1>4. log'[i] = m
  BY <1>1, <1>2 DEF Returns
<1> QED
  BY Zenon, <1>1, <1>3, <1>4

LEMMA InstallFailed ==
    ASSUME Types, NEW i \in Instances, InstallFails(i)
    PROVE  /\ SnapshotTypes' /\ installing'[i] \subseteq installing[i]
           /\ \A j \in Instances \ {i} : installing'[j] = installing[j]
           /\ UNCHANGED <<databaseVars, log, request, starting>>
BY DEF InstallFails, Types, SnapshotTypes

LEMMA ReceivedSnapshot ==
    ASSUME Types, NEW p \in Connections, ReceiveSnapshot(p)
    PROVE  /\ home[p] \in Instances
           /\ \A s \in installing'[home[p]] :
                \/ s \in installing[home[p]]
                \/ /\ ~s.done
                   /\ \E r \in request[home[p]] : \E reply \in Range(up[p]) :
                        /\ r.peer = p /\ reply.type = "snapshot" /\ reply.id = r.id
                        /\ s.upto = r.upto /\ s.edits = reply.edits
           /\ \A j \in Instances \ {home[p]} : installing'[j] = installing[j]
<1>1. /\ home[p] \in Instances /\ Head(up[p]) \in Range(up[p]) /\ Head(up[p]).type = "snapshot"
  BY RangeOfRest DEF ReceiveSnapshot, Types, StreamTypes, RoomTypes
<1>2. PICK reply : reply = Head(up[p])
  OBVIOUS
<1>3. PICK new : new = {[id |-> r.id, upto |-> r.upto, edits |-> reply.edits, done |-> FALSE] :
                            r \in {q \in request[home[p]] : q.peer = p /\ q.id = reply.id}}
  OBVIOUS
<1>4. installing' = [installing EXCEPT ![home[p]] = installing[home[p]] \cup new]
  BY <1>2, <1>3, Zenon DEF ReceiveSnapshot, Answered
<1>5. \A s \in new : /\ ~s.done
                     /\ \E r \in request[home[p]] : /\ r.peer = p /\ reply.id = r.id
                                                    /\ s.upto = r.upto /\ s.edits = reply.edits
  BY <1>3
<1> QED
  BY <1>1, <1>2, <1>4, <1>5 DEF Types, SnapshotTypes

\* markPersisted: the vector is merged, the members are told.
LEMMA MarkPersistedOf ==
    ASSUME Types, NEW i \in Instances, NEW rest \in Seq(BusMessage), NEW vector \in Vector,
           MarkPersisted(i, rest, vector)
    PROVE  LET merged == MergeStateVectors(told[i], vector)
           IN /\ merged \in Vector /\ told' = [told EXCEPT ![i] = merged]
              /\ ToldTypes' /\ DownTypes'
              /\ \A p \in Connections :
                    /\ p \in MembersOf(i) \cap reading
                         => down'[p] = down[p] \o <<Persisted(merged[p])>>
                    /\ p \notin MembersOf(i) \cap reading => down'[p] = down[p]
              /\ inbox' \in [Instances -> Seq(BusMessage)] /\ inbox'[i] = rest
              /\ \A j \in Instances \ {i} :
                    inbox'[j] = inbox[j] \/ inbox'[j] = inbox[j] \o <<PersistedVector(vector)>>
<1>1. PICK merged \in Vector : merged = MergeStateVectors(told[i], vector)
  BY RoomFields, MergedOf
<1>2. told' = [told EXCEPT ![i] = merged] /\ ToldTypes'
  BY <1>1 DEF MarkPersisted, Types, ToldTypes
<1> DEFINE messages == [p \in Connections |-> <<Persisted(merged[p])>>]
<1>3. Deliver(i, messages) /\ \A p \in Connections : messages[p] = <<Persisted(merged[p])>>
  BY <1>1 DEF MarkPersisted
<1>4. \A p \in Connections : messages[p] \in Seq(DownMessage)
  BY MessagesOf, OneOf DEF Vector
<1> HIDE DEF messages
<1>5. /\ DownTypes'
      /\ \A p \in Connections :
            /\ p \in MembersOf(i) \cap reading
                 => down'[p] = down[p] \o <<Persisted(merged[p])>>
            /\ p \notin MembersOf(i) \cap reading => down'[p] = down[p]
  <2>1. DownTypes
    BY DEF Types
  <2>2. /\ DownTypes'
        /\ \A p \in Connections :
            /\ p \in MembersOf(i) \cap reading => down'[p] = down[p] \o messages[p]
            /\ p \notin MembersOf(i) \cap reading => down'[p] = down[p]
    BY Zenon, <1>3, <1>4, <2>1, DeliverOf
  <2> QED
    BY Zenon, <1>3, <2>2
<1>6. PICK notice \in Seq(BusMessage) : notice = <<PersistedVector(vector)>>
  BY Zenon, NoticesOf, OneOf
<1>7. /\ inbox' \in [Instances -> Seq(BusMessage)] /\ inbox'[i] = rest
      /\ \A j \in Instances \ {i} : inbox'[j] = inbox[j] \/ inbox'[j] = inbox[j] \o notice
  BY <1>6, PublishOf DEF MarkPersisted, Types
<1> QED
  BY Zenon, <1>1, <1>2, <1>5, <1>6, <1>7

LEMMA EnqueueTyped ==
    ASSUME Types, NEW i \in Instances, NEW blobs \in Seq(Blobs), Enqueue(i, blobs)
    PROVE  queue' \in [Instances -> Seq(Blobs)]
BY RoomFields, RangeOfJoined DEF Enqueue, Types, QueueTypes

\* Nothing but the log changes, and what that is.
LEMMA LogTyped ==
    ASSUME Types, NEW i, NEW l \in LogRecord, log' = [log EXCEPT ![i] = l]
    PROVE  LogTypes'
  BY Zenon DEF Types, LogTypes

\* Loading.
LEMMA TypesLoading ==
    ASSUME Types, NEW i \in Instances,
           LoadSnapshot(i) \/ LoadUpdates(i) \/ AskLease(i) \/ FinishLoading(i),
           UNCHANGED providerVars
    PROVE  Types'
<1> USE DEF streamVars, faultVars, busVars, queueVars
<1>1. CASE LoadSnapshot(i)
  <2>1. PICK l : l = [log[i] EXCEPT !.upto = snapUpto, !.snapshot = snapState]
    OBVIOUS
  <2>2. l \in LogRecord
    BY Zenon, <2>1, RoomFields DEF LogRecord
  <2>3. LogTypes'
    BY Zenon, <1>1, <2>1, <2>2, LogTyped DEF LoadSnapshot
  <2>4. RoomTypes' /\ BusTypes'
    BY <1>1 DEF LoadSnapshot, Types, RoomTypes, BusTypes
  <2>5. UNCHANGED <<databaseVars, late, queueVars, told, snapshotVars, opened, reading, member, up, down>>
    BY <1>1 DEF LoadSnapshot
  <2> QED
    BY <2>3, <2>4, <2>5, SameTypes DEF Types
<1>2. CASE LoadUpdates(i)
  BY <1>2, RoomFields, LoadedOf, LogTyped, SameTypes DEF LoadUpdates, Extends, Types, RoomTypes
<1>3. CASE AskLease(i)
  BY <1>3, SameTypes DEF AskLease, Types, QueueTypes, RoomTypes
<1>4. CASE FinishLoading(i)
  BY RoomFields, LogFields, NoticesOf, OneOf, <1>4, PublishOf, EmptySeq, SameTypes DEF
     FinishLoading, Types, RoomTypes, BusTypes
<1> QED
  BY <1>1, <1>2, <1>3, <1>4

LEMMA TypesWelcome ==
    ASSUME Types, NEW i \in Instances, NEW p, Welcome(i, p)
    PROVE  /\ StreamTypes' /\ DownTypes' /\ DatabaseTypes' /\ LogTypes' /\ QueueTypes' /\ ToldTypes'
           /\ RoomTypes' /\ SnapshotTypes' /\ BusTypes'
           /\ p \in Connections /\ p = opened + 1 /\ p # NoConnection
<1>1. p \in Connections /\ p = opened + 1 /\ p \in 0..MaxConnections
  BY ProtocolAssumption DEF Welcome, Types, StreamTypes, Connections
<1>2. p # NoConnection
  BY <1>1 DEF Connections, NoConnection
<1>3. PICK told1 \in Vector : told1 = told[i]
  BY RoomFields
<1>4. EncryptedState(Content(log[i])) \in DownMessage /\ Persisted(told1[p]) \in DownMessage
  BY <1>1, RoomFields, ContentOf, MessagesOf DEF Vector
<1>5. <<EncryptedState(Content(log[i])), Persisted(told1[p])>> \in Seq(DownMessage)
  BY <1>4
<1>6. down' = [down EXCEPT ![p] = <<EncryptedState(Content(log[i])), Persisted(told1[p])>>]
  BY <1>3 DEF Welcome
<1>7. PICK first \in Seq(DownMessage) :
            first = <<EncryptedState(Content(log[i])), Persisted(told1[p])>>
  BY Zenon, <1>5
<1>8. down' = [down EXCEPT ![p] = first]
  BY <1>6, <1>7, Zenon
<1>9. DownTypes'
  BY Zenon, <1>8 DEF Types, DownTypes
<1>10. StreamTypes' /\ RoomTypes'
  BY Zenon, <1>1 DEF Welcome, Types, StreamTypes, RoomTypes
<1>11. UNCHANGED <<databaseVars, late, log, queueVars, told, snapshotVars, busVars>>
  BY DEF Welcome, faultVars
<1> QED
  BY <1>1, <1>2, <1>9, <1>10, <1>11, SameTypes

LEMMA TypesConnect ==
    ASSUME Types, NEW c \in Clients, NEW i \in Instances, Connect(c, i)
    PROVE  Types'
BY TypesWelcome DEF Connect, Types, ClientTypes

\* What a room takes from a member.
LEMMA TypesMember ==
    ASSUME Types, NEW p \in Connections, MemberStep(p)
    PROVE  Types'
<1> USE DEF streamVars, faultVars, busVars, queueVars, snapshotVars
<1>0. UNCHANGED providerVars
  BY DEF MemberStep
<1>1. CASE ReceiveUpdate(p)
  <2> DEFINE i == home[p]
  <2>1. i \in Instances /\ up[p] \in Seq(UpMessage) /\ up[p] # <<>> /\ Head(up[p]) \in UpMessage
        /\ Tail(up[p]) \in Seq(UpMessage)
    BY <1>1, RangeOfRest DEF ReceiveUpdate, Types, StreamTypes, RoomTypes
  <2>2. PICK b \in Blobs : b = Head(up[p]).blob
    BY <1>1, <2>1, UpFields DEF ReceiveUpdate
  <2>3. PICK new \in Seq(EntryRecord) : new = <<Entry(b, b.n, 0)>>
    BY Zenon, BlobFields, EntryOf, OneOf
  <2>4. StreamTypes' /\ RoomTypes'
    BY <1>1, <2>1 DEF ReceiveUpdate, Types, StreamTypes, RoomTypes
  <2>5. UNCHANGED <<databaseVars, late, active, catching, batch, firstSeq, marker, told, snapshotVars, listening>>
    BY <1>1 DEF ReceiveUpdate
  <2>6. CASE b \in log[i].known
    BY <1>1, <2>2, <2>6, <1>0, <2>4, <2>5, SameTypes DEF ReceiveUpdate, Types
  <2>7. CASE b \notin log[i].known
    <3> DEFINE messages == [q \in Connections |-> IF q = p THEN <<>> ELSE <<ServerUpdate(b)>>]
    <3>1. /\ log' = [log EXCEPT ![i] = Add(log[i], new)]
          /\ Deliver(i, messages) /\ Enqueue(i, <<b>>) /\ Publish(i, inbox[i], <<Entries(new)>>)
      BY <1>1, <2>2, <2>3, <2>7 DEF ReceiveUpdate
    <3>2. LogTypes'
      BY Zenon, <2>1, <2>3, <3>1, RoomFields, AddOf, LogTyped DEF Extends
    <3>3. \A q \in Connections : messages[q] \in Seq(DownMessage)
      BY MessagesOf, OneOf, RangeOfNone
    <3> HIDE DEF messages
    <3>4. DownTypes'
      BY Zenon, <3>1, <3>3, DeliverOf DEF Types
    <3>5. PICK one \in Seq(Blobs) : one = <<b>>
      BY Zenon, OneOf
    <3>6. QueueTypes'
      BY Zenon, <2>1, <2>5, <3>1, <3>5, EnqueueTyped DEF Types, QueueTypes
    <3>7. PICK notice \in Seq(BusMessage) : notice = <<Entries(new)>>
      BY Zenon, NoticesOf, OneOf
    <3>8. inbox' \in [Instances -> Seq(BusMessage)]
      BY Zenon, <2>1, <3>1, <3>7, RoomFields, PublishOf DEF Types
    <3>9. BusTypes'
      BY <2>5, <3>8 DEF Types, BusTypes
    <3> QED
      BY <1>0, <2>4, <2>5, <3>2, <3>4, <3>6, <3>9, SameTypes DEF Types
  <2> QED
    BY <2>6, <2>7
<1>2. CASE ReceiveSnapshot(p)
  <2> DEFINE i == home[p]
  <2>1. i \in Instances /\ up[p] \in Seq(UpMessage) /\ up[p] # <<>> /\ Head(up[p]) \in UpMessage
        /\ Tail(up[p]) \in Seq(UpMessage)
    BY <1>2, RangeOfRest DEF ReceiveSnapshot, Types, StreamTypes, RoomTypes
  <2>2. PICK edits \in SUBSET Written : edits = Head(up[p]).edits
    BY <1>2, <2>1, UpFields DEF ReceiveSnapshot
  <2>a. PICK answered : answered = Answered(i, p, Head(up[p]).id)
    OBVIOUS
  <2>3. StreamTypes' /\ RoomTypes'
    BY <1>2, <2>1 DEF ReceiveSnapshot, Types, StreamTypes, RoomTypes
  <2>4. UNCHANGED <<databaseVars, late, log, queueVars, told, starting, asked, busVars, down>>
    BY <1>2 DEF ReceiveSnapshot
  <2>5. /\ answered \in SUBSET request[i]
        /\ request' = [request EXCEPT ![i] = request[i] \ answered]
        /\ installing' = [installing EXCEPT ![i] = installing[i] \cup
                {[id |-> r.id, upto |-> r.upto, edits |-> edits, done |-> FALSE] : r \in answered}]
    <3>1. answered \in SUBSET request[i]
      BY <2>a DEF Answered
    <3> QED
      BY Zenon, <1>2, <2>2, <2>a, <3>1 DEF ReceiveSnapshot
  <2>6. request' \in [Instances -> SUBSET RequestRecord]
    BY Zenon, <2>5 DEF Types, SnapshotTypes
  <2>7. installing' \in [Instances -> SUBSET InstallRecord]
    <3>1. \A r \in answered : r \in RequestRecord /\ r.id \in Nat /\ r.upto \in Nat
      BY <2>1, <2>5, RoomFields DEF RequestRecord
    <3>2. \A r \in answered : [id |-> r.id, upto |-> r.upto, edits |-> edits, done |-> FALSE] \in InstallRecord
      BY <3>1 DEF InstallRecord
    <3> QED
      BY <2>5, <3>2 DEF Types, SnapshotTypes
  <2>8. SnapshotTypes'
    BY <2>4, <2>6, <2>7 DEF Types, SnapshotTypes
  <2> QED
    BY <1>0, <2>3, <2>4, <2>8, SameTypes DEF Types
<1>3. CASE RemoveMember(p)
  BY <1>3, EmptySeq, <1>0, SameTypes DEF RemoveMember, Types, RoomTypes, StreamTypes, SnapshotTypes
<1> QED
  BY <1>1, <1>2, <1>3 DEF MemberStep

\* The write queue.
LEMMA TypesQueue ==
    ASSUME Types, NEW i \in Instances,
           \/ Flush(i) \/ AppendCommits(i) \/ AppendReturns(i) \/ AppendFails(i)
           \/ TakeLease(i) \/ CatchUp(i) \/ CatchUpFails(i),
           UNCHANGED providerVars
    PROVE  Types'
<1> USE DEF streamVars, faultVars, busVars, queueVars, snapshotVars
<1>1. CASE Flush(i)
  BY RoomFields, LogFields, <1>1, EmptySeq, SameTypes DEF Vector, Flush, Types, QueueTypes
<1>2. CASE AppendCommits(i)
  BY RoomFields, RangeOfJoined, <1>2, SameTypes DEF AppendCommits, Types, DatabaseTypes, QueueTypes
<1>3. CASE AppendReturns(i)
  BY <1>3, RoomFields, CommittedOf, LogTyped, MarkPersistedOf, EmptySeq, NoCountersTyped, SameTypes
     DEF AppendReturns, Renumbers, Marker, Types, QueueTypes, BusTypes
<1>4. CASE AppendFails(i)
  BY RoomFields, RangeOfJoined, <1>4, EmptySeq, NoCountersTyped, SameTypes DEF AppendFails, Types,
     QueueTypes
<1>5. CASE TakeLease(i)
  BY <1>5, SameTypes DEF TakeLease, Types, QueueTypes
<1>6. CASE CatchUp(i)
  <2>1. PICK tagged : tagged = Tagged(log[i], rows)
    OBVIOUS
  <2>2. tagged \in LogRecord
    BY <2>1, RoomFields, TaggedOf DEF Renumbers
  <2>3. LogTypes'
    BY Zenon, <1>6, <2>1, <2>2, LogTyped DEF CatchUp
  <2>4. Unstored(tagged) \o queue[i] \in Seq(Blobs)
    BY <2>2, RoomFields, UnstoredOf, RangeOfJoined
  <2>5. QueueTypes'
    BY <1>6, <2>1, <2>4 DEF CatchUp, Types, QueueTypes
  <2>6. ToldTypes' /\ DownTypes' /\ inbox' \in [Instances -> Seq(BusMessage)]
    BY <2>2, LogFields, <1>6, <2>1, RoomFields, MarkPersistedOf DEF Vector, CatchUp, Types,
       ToldTypes, DownTypes, BusTypes
  <2>7. BusTypes'
    BY <1>6, <2>6 DEF CatchUp, Types, BusTypes
  <2>8. UNCHANGED <<databaseVars, late, phase, home, snapshotVars, opened, reading, member, up>>
    BY <1>6 DEF CatchUp
  <2> QED
    BY <2>3, <2>5, <2>6, <2>7, <2>8, SameTypes DEF Types
<1>7. CASE CatchUpFails(i)
  BY RoomFields, UnstoredOf, RangeOfJoined, <1>7, SameTypes DEF CatchUpFails, Types, QueueTypes
<1> QED
  BY <1>1, <1>2, <1>3, <1>4, <1>5, <1>6, <1>7

\* Snapshots.
LEMMA TypesSnapshots ==
    ASSUME Types, NEW i \in Instances,
           \/ RequestSnapshot(i) \/ AskClient(i) \/ AskFails(i) \/ RequestTimesOut(i)
           \/ InstallCommits(i) \/ InstallReturns(i) \/ InstallFails(i),
           UNCHANGED providerVars
    PROVE  Types'
<1> USE DEF streamVars, faultVars, busVars, queueVars
<1>1. CASE RequestSnapshot(i)
  BY RoomFields, LogFields, <1>1, SameTypes DEF StartRecord, RequestSnapshot, Types, SnapshotTypes
<1>2. CASE AskClient(i)
  <2>1. PICK start \in starting[i] :
          LET relayed == Updates(BlobsOf(Unseen(i, start)))
              id == asked + 1
          IN /\ starting' = [starting EXCEPT ![i] = {}]
             /\ log' = [log EXCEPT ![i] = Add(@, Unseen(i, start))]
             /\ \/ /\ MembersOf(i) = {}
                   /\ UNCHANGED <<request, asked, down>>
                \/ \E p \in MembersOf(i) :
                      /\ asked' = id
                      /\ request' = [request EXCEPT ![i] =
                                      {[id |-> id, upto |-> start.upto, peer |-> p]}]
                      /\ Deliver(i, [q \in Connections |->
                                      IF q = p THEN relayed \o <<SnapshotRequest(id)>>
                                      ELSE relayed])
             /\ UNCHANGED <<databaseVars, lease, phase, home, queueVars, told, installing,
                            busVars, opened, reading, member, up, faultVars>>
    BY Zenon, <1>2 DEF AskClient
  <2>2. PICK unseen \in Seq(EntryRecord) : unseen = Unseen(i, start)
    BY RoomFields, RowEntriesOf DEF Unseen
  <2>3. LogTypes'
    BY Zenon, <2>1, <2>2, RoomFields, AddOf, LogTyped DEF Extends
  <2>4. PICK relayed \in Seq(DownMessage) : relayed = Updates(BlobsOf(unseen))
    BY BlobsOfEntries, UpdatesOf
  <2>5. start.upto \in Nat
    BY <2>1, RoomFields DEF StartRecord
  <2>6. PICK id \in Nat : id = asked + 1
    BY DEF Types, SnapshotTypes
  <2>7. PICK ask \in DownMessage : ask = SnapshotRequest(id)
    BY MessagesOf
  <2>8. request' \in [Instances -> SUBSET RequestRecord] /\ asked' \in Nat /\ DownTypes'
    <3>1. CASE UNCHANGED <<request, asked, down>>
      BY <3>1 DEF Types, SnapshotTypes, DownTypes
    <3>2. ASSUME NEW p \in MembersOf(i),
                 asked' = id,
                 request' = [request EXCEPT ![i] = {[id |-> id, upto |-> start.upto, peer |-> p]}],
                 Deliver(i, [q \in Connections |->
                                IF q = p THEN relayed \o <<ask>> ELSE relayed])
          PROVE  request' \in [Instances -> SUBSET RequestRecord] /\ asked' \in Nat /\ DownTypes'
      <4>1. p \in Connections
        BY DEF MembersOf, Types, StreamTypes
      <4>2. PICK r \in RequestRecord : r = [id |-> id, upto |-> start.upto, peer |-> p]
        BY Zenon, <2>5, <4>1 DEF RequestRecord
      <4>3. request' \in [Instances -> SUBSET RequestRecord]
        BY <3>2, <4>2 DEF Types, SnapshotTypes
      <4> DEFINE messages == [q \in Connections |-> IF q = p THEN relayed \o <<ask>> ELSE relayed]
      <4>4. relayed \o <<ask>> \in Seq(DownMessage)
        BY OneOf, RangeOfJoined
      <4>5. \A q \in Connections : messages[q] \in Seq(DownMessage)
        BY <4>4
      <4>6. Deliver(i, messages)
        BY <3>2
      <4> HIDE DEF messages
      <4>7. DownTypes'
        BY Zenon, <4>5, <4>6, DeliverOf DEF Types
      <4> QED
        BY <3>2, <4>3, <4>7
    <3> QED
      BY Zenon, <2>1, <2>2, <2>4, <2>6, <2>7, <3>1, <3>2
  <2>9. SnapshotTypes'
    BY Zenon, <2>1, <2>8 DEF Types, SnapshotTypes
  <2>10. UNCHANGED <<databaseVars, late, phase, home, queueVars, told, busVars, opened, reading, member, up>>
    BY <2>1
  <2> QED
    BY <2>3, <2>8, <2>9, <2>10, SameTypes DEF Types
<1>3. CASE AskFails(i) \/ RequestTimesOut(i)
  BY <1>3, SameTypes DEF AskFails, RequestTimesOut, Types, SnapshotTypes
<1>4. CASE InstallCommits(i)
  <2>1. PICK s : Commits(i, s)
    BY <1>4, InstallCommitted
  <2>2. UNCHANGED <<rows, hidden, late, phase, home, log, queueVars, told, busVars, opened, reading, member,
                    up, down>>
    BY <1>4 DEF InstallCommits
  <2>3. DatabaseTypes'
    BY <2>1, <2>2 DEF Commits, Types, DatabaseTypes
  <2> QED
    BY <1>4, InstallCommitted, <2>2, <2>3, SameTypes DEF Types
<1>5. CASE InstallReturns(i)
  <2>1. PICK s : Returns(i, s) /\ log' = [log EXCEPT ![i] = Install(log[i], s.upto, s.edits)]
    BY <1>5, InstallReturned
  <2>2. PICK l \in LogRecord : l = Install(log[i], s.upto, s.edits)
    BY <2>1, RoomFields, InstallOf DEF Returns
  <2>3. LogTypes'
    BY Zenon, <2>1, <2>2, LogTyped
  <2>4. UNCHANGED <<phase, home, queueVars, told, busVars, opened, reading, member, up, down>>
    BY <1>5 DEF InstallReturns
  <2> QED
    BY <1>5, InstallReturned, <2>3, <2>4, SameTypes DEF Types
<1>6. CASE InstallFails(i)
  <2>1. UNCHANGED <<late, phase, home, queueVars, told, busVars, opened, reading, member, up, down>>
    BY <1>6 DEF InstallFails
  <2> QED
    BY <1>6, InstallFailed, <2>1, SameTypes DEF Types
<1> QED
  BY <1>1, <1>2, <1>3, <1>4, <1>5, <1>6

\* What is lacking here, and what is asked back.
LEMMA AnswersOf ==
    ASSUME Types, NEW i \in Instances, NEW known
    PROVE  /\ Lacking(i, known) \in Seq(BusMessage) /\ AskToo(i, known) \in Seq(BusMessage)
           /\ \A m \in Range(Lacking(i, known)) :
                /\ m.kind = "entries"
                /\ \A e \in Range(m.entries) :
                    e.seq = 0 /\ \E f \in Range(log[i].entries) : e.blob = f.blob /\ e.ack = f.ack
           /\ \A m \in Range(AskToo(i, known)) : m.kind = "syncRequest"
<1>1. Lacking(i, known) \in Seq(BusMessage)
      /\ \A m \in Range(Lacking(i, known)) :
            /\ m.kind = "entries"
            /\ \A e \in Range(m.entries) :
                e.seq = 0 /\ \E f \in Range(log[i].entries) : e.blob = f.blob /\ e.ack = f.ack
  <2>1. PICK entries \in Seq(EntryRecord) : entries = log[i].entries
    BY RoomFields, LogFields
  <2> DEFINE lacking == {k \in DOMAIN entries : entries[k].blob \notin known}
  <2>2. Lacking(i, known) = IF lacking = {} THEN <<>> ELSE <<Entries(Picked(entries, lacking))>>
    BY <2>1 DEF Lacking
  <2>3. lacking \in SUBSET DOMAIN entries
    OBVIOUS
  <2> HIDE DEF lacking
  <2>4. PICK picked \in Seq(EntryRecord) :
            picked = Picked(entries, lacking) /\ Range(picked) \subseteq Range(entries)
    BY <2>3, PickedOf
  <2>5. PICK m \in BusMessage : m = Entries(picked)
    BY NoticesOf
  <2>6. /\ m.kind = "entries"
        /\ \A e \in Range(m.entries) :
            e.seq = 0 /\ \E f \in Range(picked) : e.blob = f.blob /\ e.ack = f.ack
    BY <2>5, EntriesOf
  <2>7. <<m>> \in Seq(BusMessage) /\ Range(<<m>>) = {m}
    BY RangeOfOne
  <2>8. <<>> \in Seq(BusMessage) /\ Range(<<>>) = {}
    BY RangeOfNone
  <2>9. Lacking(i, known) = <<>> \/ Lacking(i, known) = <<m>>
    BY <2>2, <2>4, <2>5
  <2>10. CASE Lacking(i, known) = <<>>
    BY <2>8, <2>10, Zenon
  <2>11. CASE Lacking(i, known) = <<m>>
    BY <2>7, <2>11, <2>1, <2>4, <2>6
  <2> QED
    BY <2>9, <2>10, <2>11
<1>2. AskToo(i, known) \in Seq(BusMessage) /\ \A m \in Range(AskToo(i, known)) : m.kind = "syncRequest"
  BY RoomFields, LogFields, NoticesOf, RangeOfOne, RangeOfNone DEF AskToo
<1> QED
  BY <1>1, <1>2

\* The entries of a message that are new.
LEMMA NewOnes ==
    ASSUME NEW l \in LogRecord, NEW entries \in Seq(EntryRecord)
    PROVE  LET new == Picked(entries, FirstOnes(l, entries))
           IN new \in Seq(EntryRecord) /\ Range(new) \subseteq Range(entries)
BY PickedOf DEF FirstOnes

\* The bus.
LEMMA TypesBus ==
    ASSUME Types, NEW i \in Instances,
           \/ HandleEntries(i) \/ HandleSyncRequest(i) \/ HandlePersistedVector(i)
           \/ LoseBus(i) \/ RegainBus(i) \/ Resync(i),
           UNCHANGED providerVars
    PROVE  Types'
<1> USE DEF streamVars, faultVars, queueVars, snapshotVars
<1>0. inbox[i] \in Seq(BusMessage)
      /\ (inbox[i] # <<>> => Head(inbox[i]) \in BusMessage /\ Tail(inbox[i]) \in Seq(BusMessage))
  BY RoomFields, RangeOfRest
<1>1. CASE HandleEntries(i)
  <2>1. PICK entries \in Seq(EntryRecord) : entries = Head(inbox[i]).entries
    BY <1>0, <1>1, BusFields DEF HandleEntries
  <2>2. PICK new \in Seq(EntryRecord) : new = Picked(entries, FirstOnes(log[i], entries))
    BY RoomFields, NewOnes
  <2>3. /\ inbox' = [inbox EXCEPT ![i] = Tail(inbox[i])]
        /\ log' = [log EXCEPT ![i] = Add(log[i], new)]
        /\ Deliver(i, [p \in Connections |-> Updates(BlobsOf(new))])
        /\ Enqueue(i, BlobsOf(new))
        /\ UNCHANGED <<databaseVars, late, phase, home, active, catching, batch, firstSeq,
                       marker, told, snapshotVars, listening, opened, reading, member, up>>
    BY <1>1, <2>1, <2>2 DEF HandleEntries
  <2>4. LogTypes'
    BY Zenon, <2>3, RoomFields, AddOf, LogTyped DEF Extends
  <2>5. BlobsOf(new) \in Seq(Blobs)
    BY BlobsOfEntries
  <2>6. QueueTypes'
    BY Zenon, <2>3, <2>5, EnqueueTyped DEF Types, QueueTypes
  <2> DEFINE messages == [p \in Connections |-> Updates(BlobsOf(new))]
  <2>7. \A p \in Connections : messages[p] \in Seq(DownMessage)
    BY <2>5, UpdatesOf
  <2>8. Deliver(i, messages)
    BY <2>3
  <2> HIDE DEF messages
  <2>9. DownTypes'
    BY Zenon, <2>7, <2>8, DeliverOf DEF Types
  <2>10. BusTypes'
    BY <1>0, <1>1, <2>3 DEF HandleEntries, Types, BusTypes
  <2> QED
    BY <2>3, <2>4, <2>6, <2>9, <2>10, SameTypes DEF Types
<1>2. CASE HandleSyncRequest(i)
  BY <1>0, <1>2, AnswersOf, RangeOfJoined, SameTypes DEF HandleSyncRequest, Types, BusTypes
<1>3. CASE HandlePersistedVector(i)
  <2>1. PICK vector \in Vector : vector = Head(inbox[i]).vector
    BY <1>0, <1>3, BusFields DEF HandlePersistedVector
  <2>2. PICK merged \in Vector : merged = MergeStateVectors(told[i], vector)
    BY RoomFields, MergedOf
  <2>3. ToldTypes' /\ DownTypes'
    <3>1. CASE UNCHANGED <<told, down>>
      BY <3>1 DEF Types, ToldTypes, DownTypes
    <3>2. CASE /\ told' = [told EXCEPT ![i] = merged]
               /\ Deliver(i, [p \in Connections |-> <<Persisted(merged[p])>>])
      BY MessagesOf, OneOf, <3>2, DeliverOf DEF Vector, Types, ToldTypes
    <3> QED
      BY <1>3, <2>1, <2>2, <3>1, <3>2 DEF HandlePersistedVector
  <2>4. BusTypes'
    BY <1>0, <1>3 DEF HandlePersistedVector, Types, BusTypes
  <2>5. UNCHANGED <<databaseVars, late, phase, home, log, queueVars, snapshotVars, opened, reading, member, up>>
    BY <1>3 DEF HandlePersistedVector
  <2> QED
    BY <2>3, <2>4, <2>5, SameTypes DEF Types
<1>4. CASE LoseBus(i) \/ RegainBus(i) \/ Resync(i)
  BY RoomFields, LogFields, NoticesOf, OneOf, <1>4, <1>0, PublishOf, SameTypes DEF LoseBus,
     RegainBus, Resync, Types, BusTypes
<1> QED
  BY <1>1, <1>2, <1>3, <1>4

LEMMA TypesCrash ==
    ASSUME Types, NEW i \in Instances, Crash(i), UNCHANGED providerVars
    PROVE  Types'
<1>1. UNCHANGED <<databaseVars, home, asked, opened, reading, down>>
  BY DEF Crash
<1>2. DatabaseTypes'
  BY <1>1, RoomFields DEF Crash, Types, DatabaseTypes, databaseVars
<1>3. LogTypes'
  BY EmptyLogTyped DEF Crash, Types, LogTypes
<1>4. QueueTypes' /\ ToldTypes'
  BY EmptySeq, NoCountersTyped DEF Crash, Types, QueueTypes, ToldTypes
<1>5. StreamTypes' /\ RoomTypes'
  BY <1>1, EmptySeq DEF Crash, Types, StreamTypes, RoomTypes
<1>6. SnapshotTypes' /\ BusTypes'
  BY <1>1, EmptySeq DEF Crash, Types, SnapshotTypes, BusTypes
<1> QED
  BY <1>1, <1>2, <1>3, <1>4, <1>5, <1>6, SameTypes DEF Types

LEMMA TypesLateCommit ==
    ASSUME Types, LateCommit, UNCHANGED providerVars
    PROVE  Types'
BY RangeOfJoined, SameTypes DEF LateCommit, Types, DatabaseTypes, streamVars

LEMMA TypesStep == Types /\ [Next]_vars => Types'
<1> SUFFICES ASSUME Types, [Next]_vars PROVE Types'
  OBVIOUS
<1>1. ASSUME NEW c \in Clients, ClientStep(c) PROVE Types'
  BY <1>1, TypesClient
<1>2. ASSUME NEW i \in Instances, RoomStep(i) PROVE Types'
  BY <1>2, TypesLoading, TypesQueue, TypesSnapshots, TypesBus, TypesCrash DEF RoomStep
<1>3. CASE LateCommit /\ UNCHANGED <<providerVars, resumed>>
  BY <1>3, TypesLateCommit
<1>4. CASE UNCHANGED vars
  BY <1>4, SameTypes DEF vars, roomVars, faultVars, streamVars, Types
<1> QED
  BY <1>1, <1>2, <1>3, <1>4, TypesConnect, TypesMember DEF Next

-----------------------------------------------------------------------------
(* What the room's actions have in common. *)

\* New entries are added and sent to the members, but not to the one they came from.
Adds(i, new, sender) ==
    /\ new \in Seq(EntryRecord) /\ Extends(log[i], new, log'[i])
    /\ \A j \in Instances \ {i} : log'[j] = log[j]
    /\ \A p \in Connections :
        /\ p \in MembersOf(i) \cap reading /\ p # sender
             => down'[p] = down[p] \o Updates(BlobsOf(new))
        /\ p \notin MembersOf(i) \cap reading \/ p = sender => down'[p] = down[p]

\* What is stored is announced: the members get their entry of the merged vector.
Announces(i, vector) ==
    /\ vector \in Vector
    /\ told'[i] = MergeStateVectors(told[i], vector) /\ told'[i] \in Vector
    /\ \A j \in Instances \ {i} : told'[j] = told[j]
    /\ \A p \in Connections :
        /\ p \in MembersOf(i) \cap reading => down'[p] = down[p] \o <<Persisted(told'[i][p])>>
        /\ p \notin MembersOf(i) \cap reading => down'[p] = down[p]

LEMMA ReceivedUpdate ==
    ASSUME Types, NEW p \in Connections, ReceiveUpdate(p)
    PROVE  /\ p \in member /\ home[p] \in Instances
           /\ up[p] \in Seq(UpMessage) /\ up[p] # <<>> /\ Head(up[p]) \in UpMessage
           /\ Head(up[p]).type = "update" /\ Head(up[p]).blob \in Blobs
           /\ up' = [up EXCEPT ![p] = Tail(up[p])]
           /\ UNCHANGED <<databaseVars, lease, phase, home, active, catching, batch, firstSeq,
                          marker, told, snapshotVars, listening, opened, reading, member, faultVars>>
           /\ \/ /\ Head(up[p]).blob \in log[home[p]].known
                 /\ UNCHANGED <<log, down, queue, inbox>>
              \/ \E new \in Seq(EntryRecord) :
                    /\ new = <<Entry(Head(up[p]).blob, Head(up[p]).blob.n, 0)>>
                    /\ Head(up[p]).blob \notin log[home[p]].known
                    /\ Adds(home[p], new, p)
                    /\ log'[home[p]].last = log[home[p]].last
                    /\ Enqueue(home[p], BlobsOf(new))
                    /\ inbox'[home[p]] = inbox[home[p]]
                    /\ \A j \in Instances \ {home[p]} :
                        inbox'[j] = inbox[j] \/ inbox'[j] = inbox[j] \o <<Entries(new)>>
<1> DEFINE i == home[p]
<1>1. /\ p \in member /\ i \in Instances
      /\ up[p] \in Seq(UpMessage) /\ up[p] # <<>> /\ Head(up[p]) \in UpMessage
      /\ Head(up[p]).type = "update" /\ Head(up[p]).blob \in Blobs
  BY RangeOfRest, UpFields DEF ReceiveUpdate, Types, StreamTypes, RoomTypes
<1>2. PICK b \in Blobs : b = Head(up[p]).blob
  BY <1>1
<1>3. CASE b \in log[i].known
  BY <1>1, <1>2, <1>3 DEF ReceiveUpdate
<1>4. CASE b \notin log[i].known
  <2>0. PICK e \in EntryRecord : e = Entry(b, b.n, 0) /\ e.blob = b /\ e.seq = 0
    BY BlobFields, EntryOf
  <2>1. PICK new \in Seq(EntryRecord) : new = <<e>>
    BY Zenon, OneOf
  <2>2. /\ log' = [log EXCEPT ![i] = Add(log[i], new)] /\ Enqueue(i, <<b>>)
        /\ Deliver(i, [q \in Connections |-> IF q = p THEN <<>> ELSE <<ServerUpdate(b)>>])
        /\ Publish(i, inbox[i], <<Entries(new)>>)
    BY <1>2, <1>4, <2>0, <2>1 DEF ReceiveUpdate
  <2>3. Range(new) = {e} /\ DOMAIN new = {1} /\ new[1] = e /\ Len(new) = 1
    BY <2>1, RangeOfOne, OneOf
  <2>4. BlobsOf(new) = <<b>>
    BY OneOf, <2>0, <2>3, BlobsOfEntries
  <2>5. Updates(BlobsOf(new)) = <<ServerUpdate(b)>>
    <3>1. PICK one \in Seq(Blobs) : one = <<b>> /\ Len(one) = 1 /\ DOMAIN one = {1} /\ one[1] = b
      BY Zenon, OneOf
    <3>2. Updates(one) \in Seq(DownMessage) /\ DOMAIN Updates(one) = {1} /\ Updates(one)[1] = ServerUpdate(b)
      BY Zenon, <3>1, UpdatesOf
    <3>3. PICK m \in DownMessage : m = ServerUpdate(b)
      BY MessagesOf
    <3>4. PICK other \in Seq(DownMessage) : other = <<m>> /\ Len(other) = 1 /\ DOMAIN other = {1} /\ other[1] = m
      BY Zenon, OneOf
    <3>5. Updates(one) = other
      BY <3>2, <3>3, <3>4
    <3> QED
      BY <2>4, <3>1, <3>3, <3>4, <3>5
  <2>6. PICK relayed \in Seq(DownMessage) : relayed = Updates(BlobsOf(new)) /\ relayed = <<ServerUpdate(b)>>
    BY <2>5, BlobsOfEntries, UpdatesOf
  <2>7. log'[i] = Add(log[i], new) /\ \A j \in Instances \ {i} : log'[j] = log[j]
    BY <1>1, <2>2 DEF Types, LogTypes
  <2>8. Extends(log[i], new, log'[i]) /\ log'[i].last = log[i].last
    BY <1>1, RoomFields, AddOf, <2>0, <2>3, LogFields, <2>7
  <2>9. \A q \in Connections :
            /\ q \in MembersOf(i) \cap reading /\ q # p => down'[q] = down[q] \o relayed
            /\ q \notin MembersOf(i) \cap reading \/ q = p => down'[q] = down[q]
    <3> DEFINE messages == [q \in Connections |-> IF q = p THEN <<>> ELSE relayed]
    <3>1. Deliver(i, messages)
      BY <2>2, <2>6
    <3>2. \A q \in Connections : messages[q] \in Seq(DownMessage)
      BY RangeOfNone
    <3>3. \A q \in Connections \ {p} : messages[q] = relayed
      OBVIOUS
    <3>4. messages[p] = <<>>
      OBVIOUS
    <3> HIDE DEF messages
    <3>5. \A q \in Connections :
            /\ q \in MembersOf(i) \cap reading => down'[q] = down[q] \o messages[q]
            /\ q \notin MembersOf(i) \cap reading => down'[q] = down[q]
      BY Zenon, <3>1, <3>2, DeliverOf DEF Types
    <3>6. p \in MembersOf(i) \cap reading => down'[p] = down[p]
      BY ConcatEmptySeq, <3>4, <3>5 DEF Types, DownTypes
    <3> QED
      BY Zenon, <3>3, <3>5, <3>6
  <2>10. Adds(i, new, p)
    BY <2>6, <2>7, <2>8, <2>9 DEF Adds
  <2>11. PICK notice \in Seq(BusMessage) : notice = <<Entries(new)>>
    BY Zenon, NoticesOf, OneOf
  <2>12. inbox'[i] = inbox[i]
         /\ \A j \in Instances \ {i} : inbox'[j] = inbox[j] \/ inbox'[j] = inbox[j] \o <<Entries(new)>>
    BY Zenon, <1>1, <2>2, <2>11, RoomFields, PublishOf DEF Types
  <2>13. Enqueue(i, BlobsOf(new))
    BY <2>2, <2>4
  <2>14. new = <<Entry(Head(up[p]).blob, Head(up[p]).blob.n, 0)>>
    BY <1>2, <2>0, <2>1
  <2> QED
    BY Zenon, <1>1, <1>2, <1>4, <2>8, <2>10, <2>12, <2>13, <2>14 DEF ReceiveUpdate
<1> QED
  BY Zenon, <1>2, <1>3, <1>4

LEMMA HandledEntries ==
    ASSUME Types, NEW i \in Instances, HandleEntries(i)
    PROVE  /\ inbox[i] \in Seq(BusMessage) /\ inbox[i] # <<>> /\ Head(inbox[i]) \in BusMessage
           /\ Head(inbox[i]).kind = "entries" /\ Head(inbox[i]).entries \in Seq(EntryRecord)
           /\ inbox' = [inbox EXCEPT ![i] = Tail(inbox[i])]
           /\ UNCHANGED <<databaseVars, lease, phase, home, active, catching, batch, firstSeq,
                          marker, told, snapshotVars, listening, opened, reading, member, up, faultVars>>
           /\ \E new \in Seq(EntryRecord) :
                /\ Range(new) \subseteq Range(Head(inbox[i]).entries)
                /\ Adds(i, new, NoConnection)
                /\ Enqueue(i, BlobsOf(new))
                /\ \/ log'[i].last = log[i].last
                   \/ \E e \in Range(new) : log'[i].last = e.seq
<1>1. /\ inbox[i] \in Seq(BusMessage) /\ inbox[i] # <<>> /\ Head(inbox[i]) \in BusMessage
      /\ Head(inbox[i]).kind = "entries" /\ Head(inbox[i]).entries \in Seq(EntryRecord)
  BY RoomFields, RangeOfRest, BusFields DEF HandleEntries
<1>2. PICK entries \in Seq(EntryRecord) : entries = Head(inbox[i]).entries
  BY <1>1
<1>3. PICK new \in Seq(EntryRecord) :
          new = Picked(entries, FirstOnes(log[i], entries)) /\ Range(new) \subseteq Range(entries)
  BY RoomFields, NewOnes
<1>4. /\ log' = [log EXCEPT ![i] = Add(log[i], new)]
      /\ Deliver(i, [p \in Connections |-> Updates(BlobsOf(new))])
      /\ Enqueue(i, BlobsOf(new))
  BY <1>2, <1>3 DEF HandleEntries
<1>5. log'[i] = Add(log[i], new) /\ \A j \in Instances \ {i} : log'[j] = log[j]
  BY <1>4 DEF Types, LogTypes
<1>6. PICK relayed \in Seq(DownMessage) : relayed = Updates(BlobsOf(new))
  BY BlobsOfEntries, UpdatesOf
<1>7. \A q \in Connections :
        /\ q \in MembersOf(i) \cap reading => down'[q] = down[q] \o relayed
        /\ q \notin MembersOf(i) \cap reading => down'[q] = down[q]
  <2> DEFINE messages == [q \in Connections |-> relayed]
  <2>1. Deliver(i, messages)
    BY <1>4, <1>6
  <2>2. \A q \in Connections : messages[q] = relayed /\ messages[q] \in Seq(DownMessage)
    OBVIOUS
  <2> HIDE DEF messages
  <2>3. \A q \in Connections :
            /\ q \in MembersOf(i) \cap reading => down'[q] = down[q] \o messages[q]
            /\ q \notin MembersOf(i) \cap reading => down'[q] = down[q]
    BY Zenon, <2>1, <2>2, DeliverOf DEF Types
  <2> QED
    BY Zenon, <2>2, <2>3
<1>8. Adds(i, new, NoConnection)
  BY <1>5, RoomFields, AddOf, <1>6, <1>7 DEF NoConnection, Connections, Adds
<1>9. log'[i].last = log[i].last \/ \E e \in Range(new) : log'[i].last = e.seq
  BY <1>5, RoomFields, AddOf
<1> QED
  BY Zenon, <1>1, <1>2, <1>3, <1>4, <1>8, <1>9 DEF HandleEntries

LEMMA MarkedPersisted ==
    ASSUME Types, NEW i \in Instances, NEW vector \in Vector, MarkPersisted(i, inbox[i], vector)
    PROVE  /\ Announces(i, vector) /\ inbox'[i] = inbox[i]
           /\ \A j \in Instances \ {i} :
                inbox'[j] = inbox[j] \/ inbox'[j] = inbox[j] \o <<PersistedVector(vector)>>
<1>1. PICK merged \in Vector : merged = MergeStateVectors(told[i], vector)
  BY RoomFields, MergedOf
<1>2. told'[i] = merged /\ \A j \in Instances \ {i} : told'[j] = told[j]
  BY <1>1 DEF MarkPersisted, Types, ToldTypes
<1>3. /\ \A p \in Connections :
            /\ p \in MembersOf(i) \cap reading => down'[p] = down[p] \o <<Persisted(merged[p])>>
            /\ p \notin MembersOf(i) \cap reading => down'[p] = down[p]
      /\ inbox'[i] = inbox[i]
      /\ \A j \in Instances \ {i} :
            inbox'[j] = inbox[j] \/ inbox'[j] = inbox[j] \o <<PersistedVector(vector)>>
  BY <1>1, RoomFields, MarkPersistedOf
<1> QED
  BY <1>1, <1>2, <1>3 DEF Announces

LEMMA HandledVector ==
    ASSUME Types, NEW i \in Instances, HandlePersistedVector(i)
    PROVE  /\ inbox[i] \in Seq(BusMessage) /\ inbox[i] # <<>> /\ Head(inbox[i]) \in BusMessage
           /\ Head(inbox[i]).kind = "persisted" /\ Head(inbox[i]).vector \in Vector
           /\ inbox' = [inbox EXCEPT ![i] = Tail(inbox[i])]
           /\ UNCHANGED <<databaseVars, lease, phase, home, log, queueVars, snapshotVars,
                          listening, opened, reading, member, up, faultVars>>
           /\ UNCHANGED <<told, down>> \/ Announces(i, Head(inbox[i]).vector)
<1>1. /\ inbox[i] \in Seq(BusMessage) /\ inbox[i] # <<>> /\ Head(inbox[i]) \in BusMessage
      /\ Head(inbox[i]).kind = "persisted" /\ Head(inbox[i]).vector \in Vector
  BY RoomFields, RangeOfRest, BusFields DEF HandlePersistedVector
<1>2. PICK vector \in Vector : vector = Head(inbox[i]).vector
  BY <1>1
<1>3. PICK merged \in Vector : merged = MergeStateVectors(told[i], vector)
  BY RoomFields, MergedOf
<1>4. ASSUME told' = [told EXCEPT ![i] = merged],
             Deliver(i, [p \in Connections |-> <<Persisted(merged[p])>>])
      PROVE  Announces(i, vector)
  <2> DEFINE messages == [p \in Connections |-> <<Persisted(merged[p])>>]
  <2>1. Deliver(i, messages) /\ \A p \in Connections : messages[p] = <<Persisted(merged[p])>>
    BY <1>4
  <2>2. \A p \in Connections : messages[p] \in Seq(DownMessage)
    BY MessagesOf, OneOf DEF Vector
  <2> HIDE DEF messages
  <2>3. \A p \in Connections :
            /\ p \in MembersOf(i) \cap reading => down'[p] = down[p] \o messages[p]
            /\ p \notin MembersOf(i) \cap reading => down'[p] = down[p]
    BY Zenon, <2>1, <2>2, DeliverOf DEF Types
  <2>4. told'[i] = merged /\ \A j \in Instances \ {i} : told'[j] = told[j]
    BY <1>4 DEF Types, ToldTypes
  <2> QED
    BY Zenon, <1>3, <2>1, <2>3, <2>4 DEF Announces
<1> QED
  BY <1>1, <1>2, <1>3, <1>4 DEF HandlePersistedVector

\* A member is asked for a snapshot, or there is none left; what was unseen is relayed first.
Asks(i, start, new, p, id) ==
    /\ start \in starting[i] /\ start \in StartRecord
    /\ new \in Seq(EntryRecord) /\ Extends(log[i], new, log'[i])
    /\ \A j \in Instances \ {i} : log'[j] = log[j]
    /\ \A e \in Range(new) : e.ack = 0 /\ e.seq \in DOMAIN rows /\ e.blob = rows[e.seq]
    /\ log'[i].last = log[i].last \/ \E e \in Range(new) : log'[i].last = e.seq
    /\ \A s \in DOMAIN rows : start.covered < s /\ s <= start.upto =>
            \/ rows[s] \in log[i].known
            \/ \E e \in Range(new) : e.blob = rows[s]
    /\ \/ /\ MembersOf(i) = {} /\ UNCHANGED <<request, asked, down>>
       \/ /\ p \in MembersOf(i) /\ id = asked + 1 /\ asked' = id /\ id \in Nat
          /\ request' = [request EXCEPT ![i] = {[id |-> id, upto |-> start.upto, peer |-> p]}]
          /\ \A q \in Connections :
                /\ q \in MembersOf(i) \cap reading /\ q # p
                     => down'[q] = down[q] \o Updates(BlobsOf(new))
                /\ q \in MembersOf(i) \cap reading /\ q = p
                     => down'[q] = down[q] \o (Updates(BlobsOf(new)) \o <<SnapshotRequest(id)>>)
                /\ q \notin MembersOf(i) \cap reading => down'[q] = down[q]

LEMMA AskedClient ==
    ASSUME Types, NEW i \in Instances, AskClient(i)
    PROVE  /\ \E start, new, p, id : Asks(i, start, new, p, id)
           /\ starting' = [starting EXCEPT ![i] = {}]
           /\ UNCHANGED <<databaseVars, lease, phase, home, queueVars, told, installing,
                          busVars, opened, reading, member, up, faultVars>>
<1>1. PICK start \in starting[i] :
        LET relayed == Updates(BlobsOf(Unseen(i, start)))
            id == asked + 1
        IN /\ starting' = [starting EXCEPT ![i] = {}]
           /\ log' = [log EXCEPT ![i] = Add(@, Unseen(i, start))]
           /\ \/ /\ MembersOf(i) = {}
                 /\ UNCHANGED <<request, asked, down>>
              \/ \E p \in MembersOf(i) :
                    /\ asked' = id
                    /\ request' = [request EXCEPT ![i] =
                                    {[id |-> id, upto |-> start.upto, peer |-> p]}]
                    /\ Deliver(i, [q \in Connections |->
                                    IF q = p THEN relayed \o <<SnapshotRequest(id)>>
                                    ELSE relayed])
           /\ UNCHANGED <<databaseVars, lease, phase, home, queueVars, told, installing,
                          busVars, opened, reading, member, up, faultVars>>
  BY Zenon DEF AskClient
<1> DEFINE seqs == {s \in DOMAIN rows : start.covered < s /\ s <= start.upto}
<1>2. PICK new \in Seq(EntryRecord) :
        /\ new = Unseen(i, start)
        /\ \A e \in Range(new) : e.seq \in seqs /\ e.blob = rows[e.seq] /\ e.ack = 0 /\ e.seq # 0
        /\ \A s \in seqs : \/ rows[s] \in log[i].known
                           \/ \E e \in Range(new) : e.blob = rows[s]
  <2>1. seqs \in SUBSET DOMAIN rows
    OBVIOUS
  <2>2. PICK l \in LogRecord : l = log[i] /\ rows \in Seq(Blobs)
    BY RoomFields
  <2>3. Unseen(i, start) = RowEntries(l, rows, seqs)
    BY Zenon, <2>2 DEF Unseen
  <2> HIDE DEF seqs
  <2>4. PICK new : new = RowEntries(l, rows, seqs)
    OBVIOUS
  <2>5. /\ new \in Seq(EntryRecord)
        /\ \A e \in Range(new) : e.seq \in seqs /\ e.blob = rows[e.seq] /\ e.ack = 0 /\ e.seq # 0
        /\ \A s \in seqs : rows[s] \in l.known \/ \E e \in Range(new) : e.blob = rows[s]
    BY <2>1, <2>2, <2>4, RowEntriesOf
  <2> QED
    BY Zenon, <2>2, <2>3, <2>4, <2>5
<1>3. log'[i] = Add(log[i], new) /\ \A j \in Instances \ {i} : log'[j] = log[j]
  BY <1>1, <1>2 DEF Types, LogTypes
<1>4. Extends(log[i], new, log'[i])
      /\ (log'[i].last = log[i].last \/ \E e \in Range(new) : log'[i].last = e.seq)
  BY <1>3, RoomFields, AddOf
<1>5. start \in StartRecord
  BY RoomFields
<1>6. PICK relayed \in Seq(DownMessage) : relayed = Updates(BlobsOf(new))
  BY BlobsOfEntries, UpdatesOf
<1>7. PICK id \in Nat : id = asked + 1
  BY DEF Types, SnapshotTypes
<1>8. PICK ask \in Seq(DownMessage) : ask = <<SnapshotRequest(id)>>
  BY Zenon, MessagesOf, OneOf
<1>9. PICK last \in Seq(DownMessage) : last = relayed \o ask
  BY Zenon, RangeOfJoined
<1>10. \E p : \/ MembersOf(i) = {} /\ UNCHANGED <<request, asked, down>>
              \/ /\ p \in MembersOf(i) /\ id = asked + 1 /\ asked' = id /\ id \in Nat
                 /\ request' = [request EXCEPT ![i] = {[id |-> id, upto |-> start.upto, peer |-> p]}]
                 /\ \A q \in Connections :
                    /\ q \in MembersOf(i) \cap reading /\ q # p => down'[q] = down[q] \o relayed
                    /\ q \in MembersOf(i) \cap reading /\ q = p => down'[q] = down[q] \o last
                    /\ q \notin MembersOf(i) \cap reading => down'[q] = down[q]
  <2>1. CASE MembersOf(i) = {} /\ UNCHANGED <<request, asked, down>>
    BY <2>1
  <2>2. ASSUME NEW p \in MembersOf(i), asked' = id,
               request' = [request EXCEPT ![i] = {[id |-> id, upto |-> start.upto, peer |-> p]}],
               Deliver(i, [q \in Connections |-> IF q = p THEN last ELSE relayed])
        PROVE  \A q \in Connections :
                    /\ q \in MembersOf(i) \cap reading /\ q # p => down'[q] = down[q] \o relayed
                    /\ q \in MembersOf(i) \cap reading /\ q = p => down'[q] = down[q] \o last
                    /\ q \notin MembersOf(i) \cap reading => down'[q] = down[q]
    <3> DEFINE messages == [q \in Connections |-> IF q = p THEN last ELSE relayed]
    <3>1. Deliver(i, messages)
      BY <2>2
    <3>2. \A q \in Connections : /\ messages[q] \in Seq(DownMessage)
                                 /\ q = p => messages[q] = last
                                 /\ q # p => messages[q] = relayed
      OBVIOUS
    <3> HIDE DEF messages
    <3>3. \A q \in Connections :
            /\ q \in MembersOf(i) \cap reading => down'[q] = down[q] \o messages[q]
            /\ q \notin MembersOf(i) \cap reading => down'[q] = down[q]
      BY Zenon, <3>1, <3>2, DeliverOf DEF Types
    <3> QED
      BY Zenon, <3>2, <3>3
  <2>3. \/ MembersOf(i) = {} /\ UNCHANGED <<request, asked, down>>
        \/ \E p \in MembersOf(i) :
              /\ asked' = id
              /\ request' = [request EXCEPT ![i] = {[id |-> id, upto |-> start.upto, peer |-> p]}]
              /\ Deliver(i, [q \in Connections |-> IF q = p THEN last ELSE relayed])
    BY Zenon, <1>1, <1>2, <1>6, <1>7, <1>8, <1>9
  <2>4. CASE \E p \in MembersOf(i) :
              /\ asked' = id
              /\ request' = [request EXCEPT ![i] = {[id |-> id, upto |-> start.upto, peer |-> p]}]
              /\ Deliver(i, [q \in Connections |-> IF q = p THEN last ELSE relayed])
    BY <2>4, <2>2, <1>7
  <2> QED
    BY Zenon, <2>1, <2>3, <2>4
<1>11. PICK p : \/ MembersOf(i) = {} /\ UNCHANGED <<request, asked, down>>
                \/ /\ p \in MembersOf(i) /\ id = asked + 1 /\ asked' = id /\ id \in Nat
                   /\ request' = [request EXCEPT ![i] = {[id |-> id, upto |-> start.upto, peer |-> p]}]
                   /\ \A q \in Connections :
                      /\ q \in MembersOf(i) \cap reading /\ q # p => down'[q] = down[q] \o relayed
                      /\ q \in MembersOf(i) \cap reading /\ q = p => down'[q] = down[q] \o last
                      /\ q \notin MembersOf(i) \cap reading => down'[q] = down[q]
  BY Zenon, <1>10
<1>12. Asks(i, start, new, p, id)
  BY Zenon, <1>2, <1>3, <1>4, <1>5, <1>6, <1>8, <1>9, <1>11 DEF Asks
<1> QED
  BY <1>1, <1>12

-----------------------------------------------------------------------------
(* Connections: each has one client, and only a room that is open has members. *)

Members ==
    /\ \A c \in Clients : conn[c] # NoConnection => conn[c] <= opened /\ conn[c] \in reading
    /\ \A c, d \in Clients : conn[c] = conn[d] /\ conn[c] # NoConnection => c = d
    /\ \A p \in member : p <= opened /\ phase[home[p]] = "open"
    /\ \A p \in Connections : p > opened => up[p] = <<>>
    /\ \A c \in Clients : \A m \in Range(sending[c]) : m.conn <= opened

\* A connection of a client that has not changed is one still.
LEMMA MembersKept ==
    ASSUME Members, UNCHANGED <<conn, opened, home, reading>>,
           \A c \in Clients : Range(sending'[c]) \subseteq Range(sending[c]),
           member' \subseteq member, \A p \in member' : phase'[home[p]] = "open",
           \A p \in Connections : up[p] = <<>> => up'[p] = <<>>
    PROVE  Members'
  BY DEF Members

LEMMA OpenedOf ==
    ASSUME Types
    PROVE  /\ opened \in Nat /\ opened <= MaxConnections /\ MaxConnections \in Nat
           /\ Connections = 1..MaxConnections /\ NoConnection = 0
           /\ \A c \in Clients : conn[c] \in Connections \cup {NoConnection}
  BY ProtocolAssumption DEF Types, StreamTypes, ClientTypes, Connections, NoConnection

LEMMA ClientFields ==
    ASSUME Types, NEW c \in Clients
    PROVE  /\ sending[c] \in Seq(SendItem) /\ doc[c] \in SUBSET Written /\ pending[c] \in SUBSET Written
           /\ counter[c] \in Nat /\ confirmed[c] \in Nat
           /\ conn[c] \in Connections \cup {NoConnection}
           /\ synced[c] \in BOOLEAN /\ unsent[c] \in BOOLEAN
           /\ pending[c] # {} => conn[c] # NoConnection /\ conn[c] \in Connections
  BY DEF Types, ClientTypes

\* Handling a message queues at most one: the rest of the document, or a snapshot of it.
Queued(c, m) ==
    \/ sending' = sending
    \/ /\ m.type = "state" /\ m.edits \in SUBSET Written /\ doc[c] \ m.edits # {}
       /\ sending' = [sending EXCEPT ![c] = Append(sending[c], Update(c, doc[c] \ m.edits))]
    \/ /\ m.type = "request" /\ m.id \in Nat /\ synced[c]
       /\ sending' = [sending EXCEPT ![c] = Append(sending[c], Snapshot(c, m.id))]

LEMMA QueuedBy ==
    ASSUME Types, NEW c \in Clients, HandleNext(c)
    PROVE  Queued(c, Head(down[conn[c]]))
BY HandledBy, DownFields DEF HandleState, Missing, Queued, HandleUpdate, HandlePersisted,
   HandleRequest, HandleNext

\* What a client has queued after a step: what it had, or one more for its connection.
LEMMA LongerQueue ==
    ASSUME Types, NEW c \in Clients, NEW m \in SendItem,
           sending' = [sending EXCEPT ![c] = Append(sending[c], m)]
    PROVE  /\ Range(sending'[c]) = Range(sending[c]) \cup {m}
           /\ \A d \in Clients \ {c} : sending'[d] = sending[d]
BY ClientFields, RangeOfLonger DEF Types, ClientTypes

LEMMA ShorterQueue ==
    ASSUME Types, NEW c \in Clients, SendNext(c)
    PROVE  /\ Head(sending[c]) \in SendItem /\ Head(sending[c]) \in Range(sending[c])
           /\ Range(sending'[c]) \subseteq Range(sending[c])
           /\ Range(sending[c]) = Range(sending'[c]) \cup {Head(sending[c])}
           /\ \A d \in Clients \ {c} : sending'[d] = sending[d]
BY ClientFields, RangeOfRest DEF SendNext, Types, ClientTypes

\* The stream of a client's connection after it sent its next message.
LEMMA SentNext ==
    ASSUME Types, NEW c \in Clients, SendNext(c)
    PROVE  LET item == Head(sending[c])
           IN /\ UNCHANGED <<doc, conn, synced, confirmed, unsent, pending, opened, reading, member, down>>
              /\ \/ item.conn # conn[c] /\ UNCHANGED <<counter, sent, up>>
                 \/ \E b \in Blobs :
                    /\ item.conn = conn[c] /\ item.type = "update" /\ conn[c] \in Connections
                    /\ b.conn = conn[c] /\ b.n = counter[c] + 1 /\ b.edits = item.edits
                    /\ counter' = [counter EXCEPT ![c] = b.n] /\ sent' = sent \cup {b}
                    /\ ClientUpdate(b) \in UpMessage
                    /\ up' = [up EXCEPT ![conn[c]] = Append(up[conn[c]], ClientUpdate(b))]
                    /\ up'[conn[c]] = Append(up[conn[c]], ClientUpdate(b))
                    /\ Range(up'[conn[c]]) = Range(up[conn[c]]) \cup {ClientUpdate(b)}
                    /\ \A p \in Connections \ {conn[c]} : up'[p] = up[p]
                 \/ \E m \in UpMessage :
                    /\ item.conn = conn[c] /\ item.type = "snapshot" /\ conn[c] \in Connections
                    /\ m = SnapshotReply(item.id, item.edits)
                    /\ UNCHANGED <<counter, sent>>
                    /\ up' = [up EXCEPT ![conn[c]] = Append(up[conn[c]], m)]
                    /\ up'[conn[c]] = Append(up[conn[c]], m)
                    /\ Range(up'[conn[c]]) = Range(up[conn[c]]) \cup {m}
                    /\ \A p \in Connections \ {conn[c]} : up'[p] = up[p]
<1>1. PICK item \in SendItem : item = Head(sending[c])
  BY ShorterQueue
<1>2. /\ UNCHANGED <<doc, conn, synced, confirmed, unsent, pending, opened, reading, member, down>>
      /\ item.type \in {"update", "snapshot"} /\ item.conn \in Connections /\ item.edits \in SUBSET Written
      /\ item.type = "snapshot" => item.id \in Nat
  BY SendFields DEF SendNext
<1>3. CASE item.conn # conn[c]
  BY <1>1, <1>2, <1>3 DEF SendNext
<1>4. CASE item.conn = conn[c] /\ item.type = "update"
  <2>0. PICK n \in Nat : n = counter[c] + 1
    BY ClientFields
  <2>1. PICK b \in Blobs : /\ b = Blob(conn[c], counter[c] + 1, item.edits)
                           /\ b.conn = conn[c] /\ b.n = n /\ b.edits = item.edits
    <3>1. conn[c] \in Connections
      BY <1>2, <1>4
    <3>2. PICK b : b = [conn |-> conn[c], n |-> n, edits |-> item.edits]
      BY Zenon
    <3>3. b \in Blobs /\ b.conn = conn[c] /\ b.n = n /\ b.edits = item.edits
      BY <1>2, <3>1, <3>2 DEF Blobs
    <3> QED
      BY <2>0, <3>2, <3>3 DEF Blob
  <2>2. /\ counter' = [counter EXCEPT ![c] = b.n] /\ sent' = sent \cup {b}
        /\ up' = [up EXCEPT ![conn[c]] = Append(up[conn[c]], ClientUpdate(b))]
    BY <1>1, <1>4, <2>0, <2>1 DEF SendNext
  <2>3. ClientUpdate(b) \in UpMessage /\ up[conn[c]] \in Seq(UpMessage)
    BY <1>2, <1>4, RepliesOf DEF Types, StreamTypes
  <2>4. /\ up'[conn[c]] = Append(up[conn[c]], ClientUpdate(b))
        /\ \A p \in Connections \ {conn[c]} : up'[p] = up[p]
    BY <1>2, <1>4, <2>2 DEF Types, StreamTypes
  <2>5. Range(up'[conn[c]]) = Range(up[conn[c]]) \cup {ClientUpdate(b)}
    BY <2>3, <2>4, RangeOfLonger
  <2> QED
    BY Zenon, <1>1, <1>2, <1>4, <2>0, <2>1, <2>2, <2>3, <2>4, <2>5
<1>5. CASE item.conn = conn[c] /\ item.type = "snapshot"
  <2>1. PICK m \in UpMessage : m = SnapshotReply(item.id, item.edits)
    BY <1>2, <1>5, RepliesOf
  <2>2. /\ UNCHANGED <<counter, sent>>
        /\ up' = [up EXCEPT ![conn[c]] = Append(up[conn[c]], m)]
    BY <1>1, <1>5, <2>1 DEF SendNext
  <2>3. up[conn[c]] \in Seq(UpMessage)
    BY <1>2, <1>5 DEF Types, StreamTypes
  <2>4. /\ up'[conn[c]] = Append(up[conn[c]], m)
        /\ \A p \in Connections \ {conn[c]} : up'[p] = up[p]
    BY <1>2, <1>5, <2>2 DEF Types, StreamTypes
  <2>5. Range(up'[conn[c]]) = Range(up[conn[c]]) \cup {m}
    BY <2>3, <2>4, RangeOfLonger
  <2> QED
    BY Zenon, <1>1, <1>2, <1>5, <2>1, <2>2, <2>4, <2>5
<1> QED
  BY <1>2, <1>3, <1>4, <1>5

LEMMA MembersInit == Init => Members
BY RangeOfNone DEF Init, ProviderInit, Members

LEMMA MembersClient ==
    ASSUME Types, Members, NEW c \in Clients, ClientStep(c)
    PROVE  Members'
<1>0. UNCHANGED <<phase, home>>
  BY DEF ClientStep, roomVars
<1> DEFINE Fine == Members'
<1> SUFFICES Fine
  OBVIOUS
<1>1. ASSUME NEW e \in Edits, Edit(c, e) PROVE Fine
  BY <1>0, <1>1 DEF Edit, streamVars, Members
<1>2. CASE FlushFrame(c)
  <2>1. UNCHANGED <<conn, opened, home, reading, member, phase, up>>
    BY <1>0, <1>2 DEF FlushFrame, streamVars
  <2>2. pending[c] \in SUBSET Written /\ conn[c] # NoConnection
    BY <1>2, ClientFields DEF FlushFrame
  <2>3. PICK m \in SendItem : m = Update(c, pending[c]) /\ m.conn = conn[c]
    BY <2>2, UpdateItem DEF Types
  <2>4. sending' = [sending EXCEPT ![c] = Append(sending[c], m)]
    BY <1>2, <2>3 DEF FlushFrame
  <2>5. /\ Range(sending'[c]) = Range(sending[c]) \cup {m}
        /\ \A d \in Clients \ {c} : sending'[d] = sending[d]
    BY Zenon, <2>4, LongerQueue
  <2>6. m.conn <= opened
    BY <2>2, <2>3 DEF Members
  <2>7. \A d \in Clients : \A x \in Range(sending'[d]) : x.conn <= opened
    BY <2>5, <2>6 DEF Members
  <2> QED
    BY <2>1, <2>7 DEF Members
<1>3. CASE SendNext(c)
  <2>1. UNCHANGED <<conn, opened, reading, member>>
    BY <1>3 DEF SendNext
  <2>2. \A d \in Clients : Range(sending'[d]) \subseteq Range(sending[d])
    BY <1>3, ShorterQueue
  <2>3. \A p \in Connections : p > opened => up'[p] = <<>>
    BY <1>3, SentNext, OpenedOf DEF Members
  <2> QED
    BY <1>0, <2>1, <2>2, <2>3 DEF Members
<1>4. CASE HandleNext(c)
  <2>1. UNCHANGED <<conn, opened, reading, member, up>> /\ conn[c] # NoConnection /\ conn[c] \in Connections
    BY <1>4, HandledBy
  <2>2. Queued(c, Head(down[conn[c]]))
    BY <1>4, QueuedBy
  <2>3. sending' = sending \/ \E m \in SendItem :
            m.conn = conn[c] /\ sending' = [sending EXCEPT ![c] = Append(sending[c], m)]
    <3>1. doc[c] \in SUBSET Written
      BY ClientFields
    <3> QED
      BY <2>1, <2>2, <3>1, UpdateItem DEF Queued, Types
  <2>4. \A d \in Clients : \A x \in Range(sending'[d]) : x.conn <= opened
    BY <2>1, <2>3, LongerQueue DEF Members
  <2> QED
    BY <1>0, <2>1, <2>4 DEF Members
<1>5. CASE Disconnect(c)
  BY <1>5, <1>0 DEF Disconnect, Types, ClientTypes, Members
<1> HIDE DEF Fine
<1> QED
  BY <1>1, <1>2, <1>3, <1>4, <1>5 DEF ClientStep

LEMMA ConnectedBy ==
    ASSUME Types, Members, NEW c \in Clients, NEW i \in Instances, Connect(c, i)
    PROVE  LET p == opened + 1
           IN /\ p \in Connections /\ p # NoConnection /\ conn[c] = NoConnection
              /\ opened' = p /\ phase[i] = "open"
              /\ member' = member \cup {p} /\ reading' = reading \cup {p}
              /\ p \notin member
              /\ conn'[c] = p /\ \A d \in Clients \ {c} : conn'[d] = conn[d] /\ conn[d] # p
              /\ home'[p] = i /\ \A q \in Connections \ {p} : home'[q] = home[q] /\ down'[q] = down[q]
              /\ down'[p] = <<EncryptedState(Content(log[i])), Persisted(told[i][p])>>
              /\ up[p] = <<>>
              /\ UNCHANGED <<databaseVars, lease, phase, log, queueVars, told, snapshotVars, busVars,
                             up, faultVars, doc, synced, counter, confirmed, unsent, pending, sending, sent>>
BY TypesWelcome, OpenedOf DEF Connect, Members, Types, ClientTypes, Welcome, RoomTypes, DownTypes

LEMMA MembersConnect ==
    ASSUME Types, Members, NEW c \in Clients, NEW i \in Instances, Connect(c, i)
    PROVE  Members'
<1>1. PICK p \in Connections :
        /\ p = opened + 1 /\ p # NoConnection /\ conn[c] = NoConnection
        /\ opened' = p /\ phase[i] = "open"
        /\ member' = member \cup {p} /\ reading' = reading \cup {p}
        /\ conn'[c] = p /\ \A d \in Clients \ {c} : conn'[d] = conn[d] /\ conn[d] # p
        /\ home'[p] = i /\ \A q \in Connections \ {p} : home'[q] = home[q]
        /\ UNCHANGED <<phase, up, sending>>
  BY ConnectedBy
<1>2. opened \in Nat /\ \A q \in Connections : q \in Nat
  BY OpenedOf
<1>3. \A d \in Clients : conn'[d] # NoConnection => conn'[d] <= opened' /\ conn'[d] \in reading'
  BY <1>1, <1>2, OpenedOf DEF Members
<1>4. \A d, f \in Clients : conn'[d] = conn'[f] /\ conn'[d] # NoConnection => d = f
  BY <1>1 DEF Members
<1>5. \A q \in member' : q <= opened' /\ phase'[home'[q]] = "open"
  <2>1. member \in SUBSET Connections
    BY DEF Types, StreamTypes
  <2> QED
    BY <1>1, <1>2, <2>1 DEF Members
<1>6. \A q \in Connections : q > opened' => up'[q] = <<>>
  <2> TAKE q \in Connections
  <2>1. q \in Nat /\ opened \in Nat /\ opened' = opened + 1
    BY Zenon, <1>1, <1>2
  <2>2. q > opened' => q > opened
    BY <2>1
  <2>3. q > opened => up[q] = <<>>
    BY DEF Members
  <2> QED
    BY <1>1, <2>2, <2>3
<1>7. \A d \in Clients : \A m \in Range(sending'[d]) : m.conn <= opened'
  <2> TAKE d \in Clients
  <2>1. ASSUME NEW m \in Range(sending[d]) PROVE m.conn <= opened'
    <3>1. m.conn \in Nat
      BY <1>2, ClientFields, ElementsOf, SendFields
    <3>2. m.conn <= opened /\ opened' = opened + 1
      BY <1>1 DEF Members
    <3> QED
      BY <1>2, <3>1, <3>2
  <2> QED
    BY <1>1, <2>1
<1> QED
  BY <1>3, <1>4, <1>5, <1>6, <1>7 DEF Members

LEMMA MembersRoom ==
    ASSUME Types, Members, NEW i \in Instances, RoomStep(i)
    PROVE  Members'
<1>1. UNCHANGED <<conn, opened, home, reading, sending>>
  BY Zenon DEF RoomStep, providerVars, LoadSnapshot, LoadUpdates, AskLease, FinishLoading, Flush,
     AppendCommits, AppendReturns, AppendFails, TakeLease, CatchUp, CatchUpFails, RequestSnapshot,
     AskClient, AskFails, RequestTimesOut, InstallFails, InstallCommits, InstallReturns, HandleEntries,
     HandleSyncRequest, HandlePersistedVector, LoseBus, RegainBus, Resync, Crash, streamVars
<1>2. CASE Crash(i)
  BY <1>2, <1>1, MembersKept DEF Crash, MembersOf, Members, Types, RoomTypes
<1>3. CASE LoadSnapshot(i) \/ LoadUpdates(i) \/ AskLease(i) \/ FinishLoading(i)
  <2>1. member' = member /\ up' = up /\ phase[i] # "open" /\ \E x : phase' = [phase EXCEPT ![i] = x]
    BY <1>3 DEF LoadSnapshot, LoadUpdates, AskLease, FinishLoading, streamVars
  <2>2. \A p \in member' : phase'[home[p]] = "open"
    BY <2>1 DEF Members
  <2> QED
    BY <1>1, <2>1, <2>2, MembersKept
<1>4. CASE ~Crash(i) /\ ~(LoadSnapshot(i) \/ LoadUpdates(i) \/ AskLease(i) \/ FinishLoading(i))
  <2>1. UNCHANGED <<member, up, phase>>
    BY <1>4, Zenon DEF RoomStep, Flush,
     AppendCommits, AppendReturns, AppendFails, TakeLease, CatchUp, CatchUpFails, RequestSnapshot,
     AskClient, AskFails, RequestTimesOut, InstallFails, InstallCommits, InstallReturns, HandleEntries,
     HandleSyncRequest, HandlePersistedVector, LoseBus, RegainBus, Resync, streamVars
  <2> QED
    BY <1>1, <2>1 DEF Members
<1> QED
  BY <1>2, <1>3, <1>4

LEMMA MembersMember ==
    ASSUME Types, Members, NEW p \in Connections, MemberStep(p)
    PROVE  Members'
BY MembersKept DEF MemberStep, providerVars, ReceiveUpdate, ReceiveSnapshot, RemoveMember, Types,
   StreamTypes, Members

LEMMA MembersStep == Types /\ Members /\ [Next]_vars => Members'
BY MembersClient, MembersConnect, MembersRoom, MembersMember DEF LateCommit, providerVars,
   streamVars, Members, vars, roomVars, Next

LEMMA PairOf ==
    ASSUME NEW S, NEW a \in S, NEW b \in S
    PROVE  /\ <<a, b>> \in Seq(S) /\ Range(<<a, b>>) = {a, b}
           /\ Len(<<a, b>>) = 2 /\ DOMAIN <<a, b>> = 1..2
           /\ <<a, b>>[1] = a /\ <<a, b>>[2] = b
BY DEF Range

\* What was in a stream stays where it is.
Longer(old, new) == DOMAIN old \subseteq DOMAIN new /\ \A k \in DOMAIN old : new[k] = old[k]

LEMMA LongerBy ==
    ASSUME NEW S, NEW old \in Seq(S), NEW more \in Seq(S)
    PROVE  /\ Longer(old, old) /\ Longer(old, old \o more)
           /\ Range(old \o more) = Range(old) \cup Range(more)
BY JoinedBy, RangeOfJoined DEF Longer

Joined(q, r, all) == all = q \o r

JoinFacts(q, r, all) ==
    /\ Len(q) \in Nat /\ Len(r) \in Nat /\ Len(all) = Len(q) + Len(r)
    /\ DOMAIN q = 1..Len(q) /\ DOMAIN r = 1..Len(r)
    /\ DOMAIN all = 1..(Len(q) + Len(r))
    /\ \A k \in DOMAIN q : all[k] = q[k]
    /\ \A k \in DOMAIN r : all[Len(q) + k] = r[k]
    /\ \A k \in DOMAIN all \ DOMAIN q : k - Len(q) \in DOMAIN r /\ all[k] = r[k - Len(q)]
    /\ Range(all) = Range(q) \cup Range(r) /\ Longer(q, all)

LEMMA JoinedFacts ==
    ASSUME NEW S, NEW q \in Seq(S), NEW r \in Seq(S), NEW all, Joined(q, r, all)
    PROVE  all \in Seq(S) /\ JoinFacts(q, r, all)
  BY JoinedBy, LongerBy DEF Joined, JoinFacts

\* A sequence, more of them and one: everything else comes before that one.
OneComesLast(old, more, all) ==
    \A k \in DOMAIN all :
        \/ k \in DOMAIN old
        \/ \E g \in DOMAIN more : all[k] = more[g]
        \/ /\ \A j \in DOMAIN old : j < k
           /\ \A g \in DOMAIN more : \E j \in DOMAIN all : j < k /\ all[j] = more[g]

LEMMA LastOne ==
    ASSUME NEW S, NEW old \in Seq(S), NEW more \in Seq(S), NEW one \in Seq(S), Len(one) = 1,
           NEW last \in Seq(S), Joined(more, one, last), NEW all \in Seq(S), Joined(old, last, all)
    PROVE  OneComesLast(old, more, all)
<1>1. JoinFacts(more, one, last) /\ JoinFacts(old, last, all)
  BY JoinedFacts
<1>2. PICK a \in Nat : a = Len(old)
  BY <1>1, Zenon DEF JoinFacts
<1>3. PICK b \in Nat : b = Len(more)
  BY <1>1, Zenon DEF JoinFacts
<1>4. /\ DOMAIN more = 1..b /\ DOMAIN last = 1..(b + 1) /\ Len(last) = b + 1
      /\ \A g \in DOMAIN more : last[g] = more[g]
  BY <1>1, <1>3 DEF JoinFacts
<1>5. /\ DOMAIN old = 1..a /\ DOMAIN all = 1..(a + (b + 1))
      /\ \A j \in DOMAIN last : all[a + j] = last[j]
      /\ \A j \in DOMAIN all \ DOMAIN old : j - a \in DOMAIN last /\ all[j] = last[j - a]
  BY Zenon, <1>1, <1>2, <1>4 DEF JoinFacts
<1>6. ASSUME NEW k \in DOMAIN all, k \notin DOMAIN old, k # a + b + 1
      PROVE  \E g \in DOMAIN more : all[k] = more[g]
  <2>1. k - a \in 1..b
    BY <1>5, <1>6
  <2> QED
    BY <1>4, <1>5, <1>6, <2>1
<1>7. \A j \in DOMAIN old : j < a + b + 1
  BY <1>5
<1>8. ASSUME NEW g \in DOMAIN more
      PROVE  \E j \in DOMAIN all : j < a + b + 1 /\ all[j] = more[g]
  <2>1. g \in Nat /\ 1 <= g /\ g <= b /\ g \in DOMAIN last
    BY <1>4
  <2>2. a + g \in DOMAIN all /\ a + g < a + b + 1
    BY <1>5, <2>1
  <2>3. all[a + g] = more[g]
    BY <1>4, <1>5, <2>1
  <2> QED
    BY <2>2, <2>3
<1> QED
  BY Zenon, <1>6, <1>7, <1>8 DEF OneComesLast

LEMMA DownOf ==
    ASSUME Types, NEW p \in Connections
    PROVE  /\ down[p] \in Seq(DownMessage) /\ \A m \in Range(down[p]) : m \in DownMessage
           /\ up[p] \in Seq(UpMessage) /\ \A m \in Range(up[p]) : m \in UpMessage
BY ElementsOf DEF Types, DownTypes, StreamTypes

\* What the members are sent when entries are added.
LEMMA AddsSends ==
    ASSUME Types, NEW i \in Instances, NEW new, NEW sender, Adds(i, new, sender),
           NEW p \in Connections
    PROVE  /\ Longer(down[p], down'[p]) /\ Range(down[p]) \subseteq Range(down'[p])
           /\ \A m \in Range(down'[p]) :
                \/ m \in Range(down[p])
                \/ /\ p \in MembersOf(i) /\ m.type = "update"
                   /\ \E e \in Range(new) : m.edits = e.blob.edits
           /\ p \in MembersOf(i) \cap reading /\ p # sender =>
                \A e \in Range(new) : \E m \in Range(down'[p]) : Shown(m) = e.blob.edits
<1>1. new \in Seq(EntryRecord) /\ down[p] \in Seq(DownMessage)
  BY DownOf DEF Adds
<1>2. PICK relayed \in Seq(DownMessage) :
        /\ relayed = Updates(BlobsOf(new))
        /\ \A m \in Range(relayed) : \E b \in Range(BlobsOf(new)) : m = ServerUpdate(b)
        /\ \A b \in Range(BlobsOf(new)) : ServerUpdate(b) \in Range(relayed)
  BY <1>1, BlobsOfEntries, UpdatesOf
<1>3. /\ BlobsOf(new) \in Seq(Blobs) /\ \A e \in Range(new) : e.blob \in Range(BlobsOf(new))
      /\ \A b \in Range(BlobsOf(new)) : b \in Blobs /\ \E e \in Range(new) : b = e.blob
  BY <1>1, BlobsOfEntries, ElementsOf
<1>4. \A m \in Range(relayed) : m.type = "update" /\ \E e \in Range(new) : m.edits = e.blob.edits
  BY <1>2, <1>3, MessagesOf
<1>5. \A e \in Range(new) : \E m \in Range(relayed) : Shown(m) = e.blob.edits
  BY <1>2, <1>3, MessagesOf DEF Shown
<1>6. down'[p] = down[p] \/ (p \in MembersOf(i) /\ down'[p] = down[p] \o relayed)
  BY <1>2 DEF Adds
<1>7. p \in MembersOf(i) \cap reading /\ p # sender => down'[p] = down[p] \o relayed
  BY <1>2 DEF Adds
<1>8. Range(down[p] \o relayed) = Range(down[p]) \cup Range(relayed)
      /\ Longer(down[p], down[p] \o relayed) /\ Longer(down[p], down[p])
  BY <1>1, LongerBy
<1> QED
  BY Zenon, <1>4, <1>5, <1>6, <1>7, <1>8

LEMMA AnnouncesSends ==
    ASSUME Types, NEW i \in Instances, NEW vector, Announces(i, vector), NEW p \in Connections
    PROVE  /\ Longer(down[p], down'[p]) /\ Range(down[p]) \subseteq Range(down'[p])
           /\ \A m \in Range(down'[p]) :
                \/ m \in Range(down[p])
                \/ p \in MembersOf(i) /\ m.type = "persisted" /\ m.n = told'[i][p]
<1>1. told'[i][p] \in Nat /\ down[p] \in Seq(DownMessage)
  BY DownOf DEF Announces, Vector
<1>2. PICK m \in DownMessage : m = Persisted(told'[i][p]) /\ m.type = "persisted" /\ m.n = told'[i][p]
  BY <1>1, MessagesOf
<1>3. PICK one \in Seq(DownMessage) : one = <<m>> /\ Range(one) = {m}
  BY Zenon, RangeOfOne
<1>6. Range(one) = {m}
  BY <1>3
<1>4. down'[p] = down[p] \/ (p \in MembersOf(i) /\ down'[p] = down[p] \o one)
  BY <1>2, <1>3 DEF Announces
<1>5. Range(down[p] \o one) = Range(down[p]) \cup {m}
      /\ Longer(down[p], down[p] \o one) /\ Longer(down[p], down[p])
  BY <1>1, <1>6, LongerBy
<1> QED
  BY Zenon, <1>2, <1>4, <1>5

\* ... and when one of them is asked for a snapshot: the request comes last.
LEMMA AsksSends ==
    ASSUME Types, NEW i \in Instances, NEW start, NEW new, NEW peer, NEW id,
           Asks(i, start, new, peer, id), MembersOf(i) # {}, NEW p \in Connections
    PROVE  /\ Longer(down[p], down'[p]) /\ Range(down[p]) \subseteq Range(down'[p])
           /\ \A m \in Range(down'[p]) :
                \/ m \in Range(down[p])
                \/ /\ p \in MembersOf(i) /\ m.type = "update"
                   /\ \E e \in Range(new) : m.edits = e.blob.edits
                \/ p = peer /\ m = SnapshotRequest(id) /\ m.type = "request" /\ m.id = id
           /\ p \in MembersOf(i) \cap reading =>
                \A e \in Range(new) : \E m \in Range(down'[p]) : Shown(m) = e.blob.edits
           /\ p \in MembersOf(i) \cap reading /\ p = peer =>
                \A k \in DOMAIN down'[p] : down'[p][k].type = "request" =>
                    \/ k \in DOMAIN down[p]
                    \/ /\ \A j \in DOMAIN down[p] : j < k
                       /\ \A e \in Range(new) :
                            \E j \in DOMAIN down'[p] : j < k /\ Shown(down'[p][j]) = e.blob.edits
<1>1. new \in Seq(EntryRecord) /\ down[p] \in Seq(DownMessage)
  BY DownOf DEF Asks
<1>2. PICK relayed \in Seq(DownMessage) :
        /\ relayed = Updates(BlobsOf(new))
        /\ \A m \in Range(relayed) : \E b \in Range(BlobsOf(new)) : m = ServerUpdate(b)
        /\ \A b \in Range(BlobsOf(new)) : ServerUpdate(b) \in Range(relayed)
  BY <1>1, BlobsOfEntries, UpdatesOf
<1>3. /\ BlobsOf(new) \in Seq(Blobs) /\ \A e \in Range(new) : e.blob \in Range(BlobsOf(new))
      /\ \A b \in Range(BlobsOf(new)) : b \in Blobs /\ \E e \in Range(new) : b = e.blob
  BY <1>1, BlobsOfEntries, ElementsOf
<1>4. \A m \in Range(relayed) : m.type = "update" /\ \E e \in Range(new) : m.edits = e.blob.edits
  BY <1>2, <1>3, MessagesOf
<1>5. \A e \in Range(new) : \E m \in Range(relayed) : Shown(m) = e.blob.edits
  BY <1>2, <1>3, MessagesOf DEF Shown
<1>6. PICK ask \in DownMessage : ask = SnapshotRequest(id) /\ ask.type = "request" /\ ask.id = id
  BY Zenon, MessagesOf DEF Asks
<1>7. PICK one \in Seq(DownMessage) :
        one = <<ask>> /\ Range(one) = {ask} /\ Len(one) = 1 /\ DOMAIN one = {1} /\ one[1] = ask
  BY Zenon, RangeOfOne, OneOf
<1>15. Range(one) = {ask} /\ Len(one) = 1
  BY <1>7
<1>16. PICK last : Joined(relayed, one, last) /\ last = relayed \o one
  BY Zenon DEF Joined
<1>8. last \in Seq(DownMessage) /\ Range(last) = Range(relayed) \cup {ask} /\ Joined(relayed, one, last)
  BY <1>15, <1>16, JoinedFacts DEF JoinFacts
<1>9. \/ down'[p] = down[p] \o relayed /\ p \in MembersOf(i) \cap reading /\ p # peer
      \/ down'[p] = down[p] \o last /\ p \in MembersOf(i) \cap reading /\ p = peer
      \/ down'[p] = down[p] /\ p \notin MembersOf(i) \cap reading
  BY Zenon, <1>2, <1>6, <1>7, <1>16 DEF Asks
<1>10. /\ Range(down[p] \o relayed) = Range(down[p]) \cup Range(relayed)
       /\ Range(down[p] \o last) = Range(down[p]) \cup Range(last)
       /\ Longer(down[p], down[p] \o relayed) /\ Longer(down[p], down[p] \o last)
       /\ Longer(down[p], down[p])
  BY <1>1, LongerBy, <1>8 DEF Longer
<1>11. ASSUME down'[p] = down[p] \o last,
              NEW k \in DOMAIN down'[p], down'[p][k].type = "request", k \notin DOMAIN down[p]
       PROVE  /\ \A j \in DOMAIN down[p] : j < k
              /\ \A e \in Range(new) :
                   \E j \in DOMAIN down'[p] : j < k /\ Shown(down'[p][j]) = e.blob.edits
  <2>1. PICK old \in Seq(DownMessage) : old = down[p]
    BY <1>1
  <2>2. PICK all \in Seq(DownMessage) : all = down'[p] /\ Joined(old, last, all)
    BY Zenon, <1>8, <1>11, <2>1, RangeOfJoined DEF Joined
  <2>4. \A g \in DOMAIN relayed : relayed[g].type = "update"
    BY <1>4, ElementsOf
  <2>5. /\ \A j \in DOMAIN old : j < k
        /\ \A g \in DOMAIN relayed : \E j \in DOMAIN all : j < k /\ all[j] = relayed[g]
    <3>1. OneComesLast(old, relayed, all)
      BY <1>8, <1>15, <2>2, LastOne
    <3>2. k \in DOMAIN all /\ all[k].type = "request" /\ k \notin DOMAIN old
      BY <1>11, <2>1, <2>2
    <3> QED
      BY Zenon, <2>4, <3>1, <3>2 DEF OneComesLast
  <2>6. \A e \in Range(new) : \E g \in DOMAIN relayed : Shown(relayed[g]) = e.blob.edits
    <3>1. \A m \in Range(relayed) : \E g \in DOMAIN relayed : m = relayed[g]
      BY ElementsOf
    <3> QED
      BY <1>5, <3>1
  <2> QED
    BY Zenon, <2>1, <2>2, <2>5, <2>6
<1>12. \A e \in Range(new) : p \in MembersOf(i) \cap reading => \E m \in Range(down'[p]) : Shown(m) = e.blob.edits
  BY Zenon, <1>5, <1>8, <1>9, <1>10
<1>13. \A m \in Range(down'[p]) :
                \/ m \in Range(down[p])
                \/ /\ p \in MembersOf(i) /\ m.type = "update"
                   /\ \E e \in Range(new) : m.edits = e.blob.edits
                \/ p = peer /\ m = SnapshotRequest(id) /\ m.type = "request" /\ m.id = id
  BY Zenon, <1>4, <1>6, <1>8, <1>9, <1>10
<1>14. Longer(down[p], down'[p]) /\ Range(down[p]) \subseteq Range(down'[p])
  BY Zenon, <1>9, <1>10
<1> QED
  BY Zenon, <1>9, <1>11, <1>12, <1>13, <1>14

LEMMA ReturnedAppend ==
    ASSUME Types, NEW i \in Instances, AppendReturns(i)
    PROVE  /\ firstSeq[i] # 0 /\ Announces(i, marker[i])
           /\ log'[i] = Committed(log[i], batch[i], firstSeq[i])
           /\ \A j \in Instances \ {i} : log'[j] = log[j]
           /\ inbox'[i] = inbox[i]
           /\ \A j \in Instances \ {i} :
                inbox'[j] = inbox[j] \/ inbox'[j] = inbox[j] \o <<PersistedVector(marker[i])>>
           /\ batch' = [batch EXCEPT ![i] = <<>>] /\ firstSeq' = [firstSeq EXCEPT ![i] = 0]
           /\ marker' = [marker EXCEPT ![i] = NoCounters]
           /\ UNCHANGED <<databaseVars, lease, phase, home, active, catching, queue, snapshotVars,
                          listening, opened, reading, member, up, faultVars>>
BY RoomFields, MarkedPersisted DEF AppendReturns, Marker, Types, LogTypes

LEMMA CaughtUp ==
    ASSUME Types, NEW i \in Instances, CatchUp(i)
    PROVE  /\ catching[i] /\ log'[i] = Tagged(log[i], rows) /\ Renumbers(log[i], log'[i])
           /\ \A j \in Instances \ {i} : log'[j] = log[j]
           /\ Announces(i, log[i].acks) \/ UNCHANGED <<told, down>>
           /\ inbox'[i] = inbox[i]
           /\ \A j \in Instances \ {i} :
                \/ inbox'[j] = inbox[j]
                \/ inbox'[j] = inbox[j] \o <<PersistedVector(log[i].acks)>> /\ log[i].acks \in Vector
           /\ UNCHANGED <<databaseVars, lease, phase, home, active, batch, firstSeq, marker,
                          snapshotVars, listening, opened, reading, member, up, faultVars>>
<1>1. PICK tagged : tagged = Tagged(log[i], rows)
  OBVIOUS
<1>2. log'[i] = tagged /\ \A j \in Instances \ {i} : log'[j] = log[j]
  BY <1>1 DEF CatchUp, Types, LogTypes
<1>3. Renumbers(log[i], tagged)
  BY <1>1, RoomFields, TaggedOf
<1>4. PICK vector \in Vector : vector = log[i].acks /\ vector = tagged.acks
  BY <1>3, RoomFields, LogFields DEF Renumbers, Vector
<1>5. MarkPersisted(i, inbox[i], vector) \/ UNCHANGED <<told, down, inbox>>
  BY <1>1, <1>4 DEF CatchUp
<1>6. CASE MarkPersisted(i, inbox[i], vector)
  BY <1>1, <1>2, <1>3, <1>4, <1>6, MarkedPersisted DEF CatchUp
<1>7. CASE UNCHANGED <<told, down, inbox>>
  BY <1>1, <1>2, <1>3, <1>4, <1>7 DEF CatchUp
<1> QED
  BY <1>5, <1>6, <1>7

\* A room that does not ask sends updates and acknowledgements.
LEMMA RoomSends ==
    ASSUME Types, NEW i \in Instances,
           \/ RoomStep(i) /\ ~AskClient(i)
           \/ \E p \in Connections : MemberStep(p) /\ home[p] = i,
           NEW q \in Connections
    PROVE  /\ Longer(down[q], down'[q]) /\ Range(down[q]) \subseteq Range(down'[q])
           /\ \A m \in Range(down'[q]) : m \in Range(down[q]) \/ m.type \in {"update", "persisted"}
<1>1. CASE down' = down
  BY <1>1 DEF Longer
<1>2. CASE \E vector : Announces(i, vector)
  BY <1>2, AnnouncesSends
<1>3. CASE \E new, sender : Adds(i, new, sender)
  BY <1>3, AddsSends
<1>4. ASSUME NEW p \in Connections, MemberStep(p), home[p] = i
      PROVE  down' = down \/ \E new, sender : Adds(i, new, sender)
  BY Zenon, <1>4, ReceivedUpdate DEF MemberStep, ReceiveSnapshot, RemoveMember
<1>5. ASSUME RoomStep(i), ~AskClient(i)
      PROVE  down' = down \/ (\E new, sender : Adds(i, new, sender)) \/ (\E vector : Announces(i, vector))
  <2>1. CASE AppendReturns(i) \/ CatchUp(i) \/ HandlePersistedVector(i) \/ HandleEntries(i)
    BY Zenon, <2>1, ReturnedAppend, CaughtUp, HandledVector, HandledEntries
  <2>2. CASE ~(AppendReturns(i) \/ CatchUp(i) \/ HandlePersistedVector(i) \/ HandleEntries(i))
    BY <1>5, <2>2, Zenon DEF RoomStep, LoadSnapshot, LoadUpdates, AskLease, FinishLoading, Flush,
     AppendCommits, AppendFails, TakeLease, CatchUpFails, RequestSnapshot,
     AskFails, RequestTimesOut, InstallFails, InstallCommits, InstallReturns,
     HandleSyncRequest, LoseBus, RegainBus, Resync, Crash, streamVars
  <2> QED
    BY <2>1, <2>2
<1> QED
  BY <1>1, <1>2, <1>3, <1>4, <1>5

-----------------------------------------------------------------------------
(* Requests have numbers of their own, and are addressed to members. *)

Numbered ==
    /\ \A i \in Instances : \A r \in request[i] :
        r.id <= asked /\ r.peer \in member /\ home[r.peer] = i
    /\ \A p \in Connections :
        /\ \A m \in Range(down[p]) : m.type = "request" => m.id <= asked
        /\ \A m \in Range(up[p]) : m.type = "snapshot" => m.id <= asked
    /\ \A c \in Clients : \A m \in Range(sending[c]) : m.type = "snapshot" => m.id <= asked

LEMMA NumberedInit == Init => Numbered
BY RangeOfNone DEF Init, ProviderInit, RoomInit, Numbered

\* What is left of a stream, and what is queued, was there before.
LEMMA NumberedKept ==
    ASSUME Numbered, asked' = asked,
           \A i \in Instances : \A r \in request'[i] :
                r \in request[i] /\ r.peer \in member' /\ home'[r.peer] = home[r.peer],
           \A p \in Connections :
                /\ \A m \in Range(down'[p]) : m \in Range(down[p]) \/ m.type # "request"
                /\ \A m \in Range(up'[p]) : m \in Range(up[p]) \/ m.type # "snapshot",
           \A c \in Clients : Range(sending'[c]) \subseteq Range(sending[c])
    PROVE  Numbered'
BY DEF Numbered

\* What is left of a client's stream of messages.
LEMMA ShorterDown ==
    ASSUME Types, NEW c \in Clients, HandleNext(c)
    PROVE  /\ conn[c] \in Connections /\ Head(down[conn[c]]) \in Range(down[conn[c]])
           /\ Head(down[conn[c]]) \in DownMessage
           /\ down'[conn[c]] = Tail(down[conn[c]])
           /\ Range(down'[conn[c]]) \subseteq Range(down[conn[c]])
           /\ Range(down[conn[c]]) = Range(down'[conn[c]]) \cup {Head(down[conn[c]])}
           /\ \A p \in Connections \ {conn[c]} : down'[p] = down[p]
BY HandledBy, RangeOfRest DEF Types, DownTypes

LEMMA NumberedClient ==
    ASSUME Types, Numbered, NEW c \in Clients, ClientStep(c)
    PROVE  Numbered'
<1>0. UNCHANGED <<home, request, asked>>
  BY DEF ClientStep, roomVars, snapshotVars
<1>10. asked \in Nat
  BY DEF Types, SnapshotTypes
<1> DEFINE Fine == Numbered'
<1> SUFFICES Fine
  OBVIOUS
<1>1. ASSUME NEW e \in Edits, Edit(c, e) PROVE Fine
  BY <1>0, <1>1, NumberedKept DEF Edit, streamVars, Numbered
<1>2. CASE FlushFrame(c)
  <2>1. UNCHANGED <<member, up, down>>
    BY <1>2 DEF FlushFrame, streamVars
  <2>2. PICK m \in SendItem : m = Update(c, pending[c]) /\ m.type = "update"
    BY <1>2, ClientFields, UpdateItem DEF FlushFrame, Types
  <2>3. sending' = [sending EXCEPT ![c] = Append(sending[c], m)]
    BY <1>2, <2>2 DEF FlushFrame
  <2>5. /\ Range(sending'[c]) = Range(sending[c]) \cup {m}
        /\ \A d \in Clients \ {c} : sending'[d] = sending[d]
    BY Zenon, <2>2, <2>3, LongerQueue
  <2>6. m.type # "snapshot"
    BY <2>2
  <2>4. \A d \in Clients : \A x \in Range(sending'[d]) : x.type = "snapshot" => x.id <= asked
    BY <2>5, <2>6 DEF Numbered
  <2> QED
    BY <1>0, <2>1, <2>4 DEF Numbered
<1>3. CASE SendNext(c)
  <2>1. UNCHANGED <<member, down>>
    BY <1>3 DEF SendNext
  <2>2. \A d \in Clients : Range(sending'[d]) \subseteq Range(sending[d])
    BY <1>3, ShorterQueue
  <2>3. \A p \in Connections : \A m \in Range(up'[p]) : m.type = "snapshot" => m.id <= asked
    <3> PICK item \in SendItem : item = Head(sending[c]) /\ item \in Range(sending[c])
      BY <1>3, ShorterQueue
    <3>1. CASE UNCHANGED up
      BY <3>1 DEF Numbered
    <3>2. ASSUME NEW m \in UpMessage, m.type = "snapshot" => m.id <= asked, conn[c] \in Connections,
                 Range(up'[conn[c]]) = Range(up[conn[c]]) \cup {m},
                 \A p \in Connections \ {conn[c]} : up'[p] = up[p]
          PROVE  \A p \in Connections : \A x \in Range(up'[p]) : x.type = "snapshot" => x.id <= asked
      BY <3>2 DEF Numbered
    <3>3. \A b \in Blobs : ClientUpdate(b).type = "update"
      BY RepliesOf
    <3>4. item.type = "snapshot" =>
             LET m == SnapshotReply(item.id, item.edits) IN m.id = item.id /\ item.id <= asked
      BY SendFields, RepliesOf DEF Numbered
    <3> QED
      BY Zenon, <1>3, <3>1, <3>2, <3>3, <3>4, SentNext
  <2> QED
    BY <1>0, <2>1, <2>2, <2>3 DEF Numbered
<1>4. CASE HandleNext(c)
  <2>1. UNCHANGED <<member, up>> /\ conn[c] # NoConnection /\ conn[c] \in Connections
    BY <1>4, HandledBy
  <2>2. PICK m \in DownMessage : m = Head(down[conn[c]]) /\ m \in Range(down[conn[c]])
    BY <1>4, ShorterDown
  <2>3. Queued(c, m)
    BY <1>4, <2>2, QueuedBy
  <2>4. sending' = sending \/ \E x \in SendItem :
            /\ x.type = "snapshot" => x.id <= asked
            /\ sending' = [sending EXCEPT ![c] = Append(sending[c], x)]
    <3>1. doc[c] \in SUBSET Written /\ (m.type = "request" => m.id <= asked)
      BY <2>1, <2>2, ClientFields DEF Numbered
    <3> QED
      BY Zenon, <2>1, <2>3, <3>1, UpdateItem DEF Queued, Types
  <2>5. \A d \in Clients : \A x \in Range(sending'[d]) : x.type = "snapshot" => x.id <= asked
    BY <2>4, LongerQueue DEF Numbered
  <2>6. \A p \in Connections : Range(down'[p]) \subseteq Range(down[p])
    BY <1>4, ShorterDown
  <2> QED
    BY <1>0, <2>1, <2>5, <2>6 DEF Numbered
<1>5. CASE Disconnect(c)
  BY <1>5, ClientFields, RangeOfNone, <1>0 DEF Disconnect, Types, DownTypes, Numbered
<1> HIDE DEF Fine
<1> QED
  BY <1>1, <1>2, <1>3, <1>4, <1>5 DEF ClientStep

LEMMA WelcomedBy ==
    ASSUME Types, Members, NEW c \in Clients, NEW i \in Instances, Connect(c, i)
    PROVE  \E state \in DownMessage, ack \in DownMessage :
            /\ state.type = "state" /\ state.edits = Content(log[i]) /\ Shown(state) = Content(log[i])
            /\ ack.type = "persisted" /\ ack.n = told[i][opened + 1] /\ ack.n \in Nat /\ Shown(ack) = {}
            /\ down'[opened + 1] = <<state, ack>>
            /\ Range(down'[opened + 1]) = {state, ack}
<1>0. opened + 1 \in Connections
  BY ConnectedBy
<1>1. PICK p \in Connections : p = opened + 1
  BY <1>0
<1>2. Content(log[i]) \in SUBSET Written /\ told[i][p] \in Nat
  BY RoomFields, ContentOf DEF Vector
<1>3. PICK state \in DownMessage : /\ state = EncryptedState(Content(log[i]))
                                   /\ state.type = "state" /\ state.edits = Content(log[i])
  BY <1>2, MessagesOf
<1>4. PICK ack \in DownMessage : /\ ack = Persisted(told[i][p])
                                 /\ ack.type = "persisted" /\ ack.n = told[i][p]
  BY <1>2, MessagesOf
<1>5. down'[p] = <<state, ack>>
  BY <1>1, <1>3, <1>4, ConnectedBy
<1>6. Range(<<state, ack>>) = {state, ack}
  BY PairOf
<1>7. Range(down'[p]) = {state, ack}
  BY <1>5, <1>6, Zenon
<1>8. Shown(state) = Content(log[i]) /\ Shown(ack) = {}
  BY <1>3, <1>4 DEF Shown
<1> QED
  BY <1>1, <1>2, <1>3, <1>4, <1>5, <1>7, <1>8

LEMMA NumberedConnect ==
    ASSUME Types, Members, Numbered, NEW c \in Clients, NEW i \in Instances, Connect(c, i)
    PROVE  Numbered'
<1>1. PICK p \in Connections :
        /\ p = opened + 1 /\ p \notin member /\ member' = member \cup {p}
        /\ \A q \in Connections \ {p} : home'[q] = home[q] /\ down'[q] = down[q]
        /\ UNCHANGED <<request, asked, up, sending>>
  BY ConnectedBy DEF snapshotVars
<1>2. \A m \in Range(down'[p]) : m.type # "request"
  BY <1>1, WelcomedBy
<1>3. \A j \in Instances : \A r \in request'[j] :
        r \in request[j] /\ r.peer \in member' /\ home'[r.peer] = home[r.peer]
  BY RoomFields, <1>1 DEF RequestRecord, Numbered
<1> QED
  BY <1>1, <1>2, <1>3, NumberedKept

\* What a room has not handled yet of a stream.
LEMMA ShorterUp ==
    ASSUME Types, NEW q \in Connections
    PROVE  /\ \A p \in Connections : MemberStep(p) => Range(up'[q]) \subseteq Range(up[q])
           /\ \A i \in Instances : RoomStep(i) => Range(up'[q]) \subseteq Range(up[q])
<1>1. ASSUME NEW p \in Connections, MemberStep(p) PROVE Range(up'[q]) \subseteq Range(up[q])
  <2>1. CASE ReceiveUpdate(p) \/ ReceiveSnapshot(p)
    <3>1. up[p] \in Seq(UpMessage) /\ up[p] # <<>> /\ up' = [up EXCEPT ![p] = Tail(up[p])]
      BY <2>1, DownOf DEF ReceiveUpdate, ReceiveSnapshot
    <3>2. Range(Tail(up[p])) \subseteq Range(up[p])
      BY <3>1, RangeOfRest
    <3>3. up'[q] = IF q = p THEN Tail(up[p]) ELSE up[q]
      BY <3>1 DEF Types, StreamTypes
    <3> QED
      BY <3>2, <3>3
  <2>2. CASE RemoveMember(p)
    BY <2>2, RangeOfNone DEF RemoveMember, Types, StreamTypes
  <2> QED
    BY <1>1, <2>1, <2>2 DEF MemberStep
<1>2. ASSUME NEW i \in Instances, RoomStep(i) PROVE Range(up'[q]) \subseteq Range(up[q])
  <2>1. up' = up \/ up' = [p \in Connections |-> IF p \in MembersOf(i) THEN <<>> ELSE up[p]]
    BY <1>2, Zenon DEF RoomStep, LoadSnapshot, LoadUpdates, AskLease, FinishLoading, Flush,
     AppendCommits, AppendReturns, AppendFails, TakeLease, CatchUp, CatchUpFails, RequestSnapshot,
     AskClient, AskFails, RequestTimesOut, InstallFails, InstallCommits, InstallReturns, HandleEntries,
     HandleSyncRequest, HandlePersistedVector, LoseBus, RegainBus, Resync, Crash, streamVars
  <2>2. up'[q] = <<>> \/ up'[q] = up[q]
    BY <2>1
  <2>3. up'[q] = <<>> => Range(up'[q]) = {}
    BY RangeOfNone, Zenon
  <2> QED
    BY <2>2, <2>3
<1> QED
  BY <1>1, <1>2

LEMMA NumberedMember ==
    ASSUME Types, Members, Numbered, NEW p \in Connections, MemberStep(p)
    PROVE  Numbered'
<1>1. UNCHANGED <<asked, home, sending>> /\ home[p] \in Instances
  BY DEF MemberStep, ReceiveUpdate, ReceiveSnapshot, RemoveMember, snapshotVars, providerVars, Types, RoomTypes
<1>2. \A q \in Connections :
        /\ \A m \in Range(down'[q]) : m \in Range(down[q]) \/ m.type # "request"
        /\ Range(up'[q]) \subseteq Range(up[q])
  BY <1>1, RoomSends, ShorterUp
<1>3. \A i \in Instances : \A r \in request'[i] : r \in request[i] /\ r.peer \in member'
  <2>1. CASE ReceiveUpdate(p)
    BY <2>1 DEF ReceiveUpdate, snapshotVars, Numbered
  <2>2. CASE ReceiveSnapshot(p)
    BY <2>2 DEF ReceiveSnapshot, Numbered, Types, SnapshotTypes
  <2>3. CASE RemoveMember(p)
    BY <2>3, <1>1 DEF RemoveMember, Types, SnapshotTypes, Numbered
  <2> QED
    BY <2>1, <2>2, <2>3 DEF MemberStep
<1> QED
  BY <1>1, <1>2, <1>3, NumberedKept

LEMMA NumberedRoom ==
    ASSUME Types, Members, Numbered, NEW i \in Instances, RoomStep(i)
    PROVE  Numbered'
<1>1. UNCHANGED <<home, sending>> /\ \A q \in Connections : Range(up'[q]) \subseteq Range(up[q])
  <2>1. UNCHANGED <<home, sending>>
    BY Zenon DEF RoomStep, providerVars, LoadSnapshot, LoadUpdates, AskLease, FinishLoading, Flush,
     AppendCommits, AppendReturns, AppendFails, TakeLease, CatchUp, CatchUpFails, RequestSnapshot,
     AskClient, AskFails, RequestTimesOut, InstallFails, InstallCommits, InstallReturns, HandleEntries,
     HandleSyncRequest, HandlePersistedVector, LoseBus, RegainBus, Resync, Crash
  <2> QED
    BY <2>1, ShorterUp
<1>2. CASE AskClient(i)
  <2>0. UNCHANGED <<home, sending, member, up>>
    BY <1>1, <1>2, AskedClient
  <2>1. PICK start, new, p, id : Asks(i, start, new, p, id)
    BY <1>2, AskedClient
  <2>2. CASE UNCHANGED <<request, asked, down>>
    BY <2>0, <2>2 DEF Numbered
  <2>3. CASE MembersOf(i) # {}
    <3>1. /\ p \in MembersOf(i) /\ id = asked + 1 /\ asked' = id /\ id \in Nat
          /\ request' = [request EXCEPT ![i] = {[id |-> id, upto |-> start.upto, peer |-> p]}]
      BY Zenon, <2>1, <2>3 DEF Asks
    <3>7. asked \in Nat /\ asked' = asked + 1
      BY <3>1 DEF Types, SnapshotTypes
    <3>2. \A n \in Nat : n <= asked => n <= asked'
      BY <3>7
    <3>3. \A j \in Instances : \A r \in request'[j] :
            r.id <= asked' /\ r.peer \in member /\ home[r.peer] = j
      BY RoomFields, <3>2, <3>1 DEF RequestRecord, Numbered, MembersOf, Types, SnapshotTypes
    <3>4. \A q \in Connections : \A m \in Range(down'[q]) : m.type = "request" => m.id <= asked'
      BY DownOf, DownFields, <3>2, <2>1, <2>3, AsksSends, <3>1 DEF Numbered
    <3>5. \A q \in Connections : \A m \in Range(up'[q]) : m.type = "snapshot" => m.id <= asked'
      BY DownOf, UpFields, <3>2, <2>0 DEF Numbered
    <3>6. \A c \in Clients : \A m \in Range(sending'[c]) : m.type = "snapshot" => m.id <= asked'
      BY ClientFields, ElementsOf, SendFields, <3>2, <2>0 DEF Numbered
    <3> QED
      BY <2>0, <3>3, <3>4, <3>5, <3>6 DEF Numbered
  <2> QED
    BY Zenon, <2>1, <2>2, <2>3 DEF Asks
<1>3. CASE ~AskClient(i)
  <2>1. \A q \in Connections : \A m \in Range(down'[q]) : m \in Range(down[q]) \/ m.type # "request"
    BY <1>3, RoomSends
  <2>2. asked' = asked
    BY <1>3, Zenon DEF RoomStep, LoadSnapshot, LoadUpdates, AskLease, FinishLoading, Flush,
     AppendCommits, AppendReturns, AppendFails, TakeLease, CatchUp, CatchUpFails, RequestSnapshot,
     AskFails, RequestTimesOut, InstallFails, InstallCommits, InstallReturns, HandleEntries,
     HandleSyncRequest, HandlePersistedVector, LoseBus, RegainBus, Resync, Crash, snapshotVars
  <2>3. \A j \in Instances : \A r \in request'[j] : r \in request[j] /\ r.peer \in member'
    <3>1. CASE Crash(i)
      BY <3>1 DEF Crash, Types, SnapshotTypes, Numbered, MembersOf
    <3>2. CASE ~Crash(i)
      <4>1. member' = member /\ (request' = request \/ request' = [request EXCEPT ![i] = {}])
        BY <1>3, <3>2, Zenon DEF RoomStep, LoadSnapshot, LoadUpdates, AskLease, FinishLoading, Flush,
         AppendCommits, AppendReturns, AppendFails, TakeLease, CatchUp, CatchUpFails, RequestSnapshot,
         AskFails, RequestTimesOut, InstallFails, InstallCommits, InstallReturns, HandleEntries,
         HandleSyncRequest, HandlePersistedVector, LoseBus, RegainBus, Resync, snapshotVars, streamVars
      <4> QED
        BY <4>1 DEF Numbered, Types, SnapshotTypes
    <3> QED
      BY <3>1, <3>2
  <2> QED
    BY <1>1, <2>1, <2>2, <2>3, NumberedKept
<1> QED
  BY <1>2, <1>3

LEMMA NumberedStep == Types /\ Members /\ Numbered /\ [Next]_vars => Numbered'
BY NumberedClient, NumberedConnect, NumberedRoom, NumberedMember DEF LateCommit, providerVars,
   streamVars, snapshotVars, Numbered, vars, roomVars, Next

-----------------------------------------------------------------------------
(* What a step leaves alone. *)

\* Rows are only added, and a snapshot is only replaced by a later one.
Grown ==
    /\ Len(rows) <= Len(rows') /\ DOMAIN rows \subseteq DOMAIN rows'
    /\ \A s \in DOMAIN rows : rows'[s] = rows[s]
    /\ snapUpto <= snapUpto' /\ hidden \subseteq hidden' /\ hidden' \subseteq hidden \cup Range(rows)

LEMMA JoinedRows ==
    ASSUME Types, NEW more \in Seq(Blobs), rows' = rows \o more
    PROVE  /\ Len(rows') = Len(rows) + Len(more) /\ Len(rows) <= Len(rows')
           /\ DOMAIN rows \subseteq DOMAIN rows'
           /\ \A s \in DOMAIN rows : rows'[s] = rows[s]
           /\ \A k \in DOMAIN more : rows'[Len(rows) + k] = more[k] /\ Len(rows) + k \in DOMAIN rows'
           /\ Range(rows') = Range(rows) \cup Range(more)
<1>1. rows \in Seq(Blobs)
  BY DEF Types, DatabaseTypes
<1>2. PICK all : all = rows \o more
  BY Zenon
<1>3. Joined(rows, more, all)
  BY <1>2 DEF Joined
<1>4. JoinFacts(rows, more, all)
  BY <1>1, <1>3, JoinedFacts
<1>5. Len(more) \in Nat /\ DOMAIN more = 1..Len(more) /\ Len(rows) \in Nat
  BY <1>1, ElementsOf
<1>6. rows' = all
  BY <1>2
<1>7. /\ Len(all) = Len(rows) + Len(more) /\ DOMAIN rows = 1..Len(rows)
      /\ DOMAIN all = 1..(Len(rows) + Len(more))
      /\ \A k \in DOMAIN rows : all[k] = rows[k]
      /\ \A k \in DOMAIN more : all[Len(rows) + k] = more[k]
      /\ Range(all) = Range(rows) \cup Range(more)
  BY <1>4 DEF JoinFacts
<1>8. Len(rows) <= Len(rows) + Len(more) /\ 1..Len(rows) \subseteq 1..(Len(rows) + Len(more))
      /\ \A k \in 1..Len(more) : Len(rows) + k \in 1..(Len(rows) + Len(more))
  BY <1>5
<1> QED
  BY <1>5, <1>6, <1>7, <1>8

LEMMA GrownBy ==
    ASSUME Types, [Next]_vars
    PROVE  Grown
<1>0. Len(rows) \in Nat /\ snapUpto \in Nat
  BY DEF Types, DatabaseTypes
<1>1. CASE UNCHANGED <<rows, snapUpto>> /\ hidden \subseteq hidden' /\ hidden' \subseteq hidden \cup Range(rows)
  BY <1>0, <1>1 DEF Grown
<1>2. ASSUME NEW i \in Instances, AppendCommits(i)
      PROVE  Grown
  BY <1>2, RoomFields, <1>0, JoinedRows DEF AppendCommits, Grown
<1>3. CASE LateCommit
  BY <1>3, <1>0, JoinedRows DEF LateCommit, Types, DatabaseTypes, Grown
<1>4. ASSUME NEW i \in Instances, InstallCommits(i)
      PROVE  Grown
  <2>1. PICK s : Commits(i, s)
    BY <1>4, InstallCommitted
  <2> QED
    BY <1>0, <1>4, InstallCommitted, <2>1 DEF Commits, Grown
<1>9. ASSUME NEW i \in Instances, InstallReturns(i)
      PROVE  UNCHANGED <<rows, snapUpto>> /\ hidden \subseteq hidden' /\ hidden' \subseteq hidden \cup Range(rows)
  <2>1. PICK s : Returns(i, s)
    BY <1>9, InstallReturned
  <2>2. Hides(i, s) \subseteq Range(rows)
    BY DEF Hides, Range
  <2> QED
    BY <1>9, <2>1, <2>2, InstallReturned DEF Returns
<1>5. ASSUME NEW i \in Instances, RoomStep(i), ~AppendCommits(i), ~InstallCommits(i), ~InstallReturns(i)
      PROVE  UNCHANGED <<rows, snapUpto, hidden>>
  BY <1>5, Zenon DEF RoomStep, LoadSnapshot, LoadUpdates, AskLease, FinishLoading, Flush,
     AppendReturns, AppendFails, TakeLease, CatchUp, CatchUpFails, RequestSnapshot,
     AskClient, AskFails, RequestTimesOut, InstallFails, HandleEntries,
     HandleSyncRequest, HandlePersistedVector, LoseBus, RegainBus, Resync, Crash, databaseVars
<1>6. ASSUME NEW p \in Connections, MemberStep(p)
      PROVE  UNCHANGED <<rows, snapUpto, hidden>>
  BY <1>6 DEF MemberStep, ReceiveUpdate, ReceiveSnapshot, RemoveMember, databaseVars
<1>7. ASSUME NEW c \in Clients, ClientStep(c) \/ \E i \in Instances : Connect(c, i)
      PROVE  UNCHANGED <<rows, snapUpto, hidden>>
  BY <1>7 DEF ClientStep, roomVars, databaseVars, Connect, Welcome
<1>8. CASE UNCHANGED vars
  BY <1>1, <1>8 DEF vars, roomVars, databaseVars
<1> QED
  BY <1>1, <1>2, <1>3, <1>4, <1>5, <1>6, <1>7, <1>8, <1>9 DEF Next

\* An instance does its own work.
SameRoom(j) ==
    /\ phase'[j] = phase[j] /\ log'[j] = log[j] /\ active'[j] = active[j]
    /\ catching'[j] = catching[j] /\ queue'[j] = queue[j] /\ batch'[j] = batch[j]
    /\ firstSeq'[j] = firstSeq[j] /\ marker'[j] = marker[j] /\ told'[j] = told[j]
    /\ request'[j] = request[j] /\ starting'[j] = starting[j] /\ installing'[j] = installing[j]

LEMMA RoomsApart ==
    ASSUME Types, NEW i, NEW j \in Instances, j # i,
           \/ RoomStep(i) /\ i \in Instances
           \/ \E p \in Connections : MemberStep(p) /\ home[p] = i
    PROVE  SameRoom(j)
<1>1. ASSUME NEW p \in Connections, MemberStep(p), home[p] = i
      PROVE  SameRoom(j)
  <2>1. CASE ReceiveUpdate(p)
    BY <1>1, <2>1 DEF ReceiveUpdate, SameRoom, snapshotVars, Enqueue, Types, QueueTypes, LogTypes
  <2>2. CASE ReceiveSnapshot(p)
    BY Zenon, <1>1, <2>2 DEF ReceiveSnapshot, SameRoom, queueVars, Types, SnapshotTypes
  <2>3. CASE RemoveMember(p)
    BY <1>1, <2>3 DEF RemoveMember, SameRoom, queueVars, Types, SnapshotTypes
  <2> QED
    BY <1>1, <2>1, <2>2, <2>3 DEF MemberStep
<1>2. CASE RoomStep(i) /\ i \in Instances
  <2> USE DEF SameRoom, Types, QueueTypes, LogTypes, SnapshotTypes, RoomTypes, ToldTypes, queueVars, snapshotVars
  <2>1. CASE LoadSnapshot(i) \/ LoadUpdates(i) \/ AskLease(i) \/ FinishLoading(i)
    BY <2>1 DEF LoadSnapshot, LoadUpdates, AskLease, FinishLoading
  <2>2. CASE Flush(i) \/ AppendCommits(i) \/ AppendFails(i)
    BY <2>2 DEF Flush, AppendCommits, AppendFails
  <2>3. CASE AppendReturns(i)
    BY <2>3 DEF AppendReturns, MarkPersisted
  <2>4. CASE TakeLease(i) \/ CatchUpFails(i)
    BY Zenon, <2>4 DEF TakeLease, CatchUpFails
  <2>5. CASE CatchUp(i)
    BY <2>5 DEF CatchUp, MarkPersisted
  <2>6. CASE RequestSnapshot(i) \/ AskClient(i) \/ AskFails(i) \/ RequestTimesOut(i)
    BY Zenon, <2>6 DEF RequestSnapshot, AskClient, AskFails, RequestTimesOut
  <2>7. CASE InstallCommits(i) \/ InstallReturns(i) \/ InstallFails(i)
    BY <2>7, Zenon DEF InstallCommits, InstallReturns, InstallFails
  <2>8. CASE HandleEntries(i)
    BY <2>8 DEF HandleEntries, Enqueue
  <2>9. CASE HandleSyncRequest(i) \/ HandlePersistedVector(i)
    BY Zenon, <2>9 DEF HandleSyncRequest, HandlePersistedVector
  <2>10. CASE LoseBus(i) \/ RegainBus(i) \/ Resync(i)
    BY <2>10 DEF LoseBus, RegainBus, Resync
  <2>11. CASE Crash(i)
    BY <2>11 DEF Crash
  <2> QED
    BY <1>2, <2>1, <2>2, <2>3, <2>4, <2>5, <2>6, <2>7, <2>8, <2>9, <2>10, <2>11 DEF RoomStep
<1> QED
  BY <1>1, <1>2

-----------------------------------------------------------------------------
(* Logs: what their seqs, requests and installs stand for. *)

\* The log holds the rows up to a seq, in its snapshot or as envelopes, but for those that went
\* with a snapshot it had.
Held(i, u) ==
    /\ u <= Len(rows)
    /\ \A s \in 1..u : s <= log[i].upto \/ rows[s] \in log[i].known \/ rows[s] \in hidden

Seqs(i) ==
    /\ \A e \in Range(log[i].entries) : e.seq # 0 => e.seq \in DOMAIN rows /\ rows[e.seq] = e.blob
    /\ log[i].last <= Len(rows) /\ log[i].upto <= snapUpto
Asleep(i) ==
    phase[i] = "down" =>
        /\ log[i].known = {} /\ log[i].entries = <<>> /\ log[i].acks = NoCounters
        /\ installing[i] = {} /\ starting[i] = {} /\ ~catching[i] /\ batch[i] = <<>>
PromisedStart(i, s) ==
    /\ s.covered <= Len(rows) /\ s.upto <= Len(rows)
    /\ \A n \in DOMAIN rows : n <= s.covered => n <= log[i].upto \/ rows[n] \in hidden
Promised(i) ==
    /\ \A s \in starting[i] : PromisedStart(i, s)
    /\ \A r \in request[i] : Held(i, r.upto)
    /\ \A s \in installing[i] : Held(i, s.upto)
Ordered(i) == \A s \in installing[i] : s.done => s.upto <= snapUpto
Appended(i) ==
    firstSeq[i] # 0 =>
        /\ batch[i] # <<>> /\ LastOf(batch[i], firstSeq[i]) <= Len(rows)
        /\ \A k \in DOMAIN batch[i] :
            firstSeq[i] - 1 + k \in DOMAIN rows /\ rows[firstSeq[i] - 1 + k] = batch[i][k]
Fresh(i) ==
    \A m \in Range(inbox[i]) : m.kind = "entries" => \A e \in Range(m.entries) : e.seq = 0

LogOf(i) == Seqs(i) /\ Asleep(i) /\ Promised(i) /\ Ordered(i) /\ Appended(i) /\ Fresh(i)
Logs == snapUpto <= Len(rows) /\ hidden \subseteq Range(rows) /\ \A i \in Instances : LogOf(i)

LEMMA LogsInit == Init => Logs
BY TypesInit, ElementsOf, RangeOfNone DEF Types, DatabaseTypes, Init, RoomInit, EmptyLog, Seqs,
   Asleep, Promised, Ordered, Appended, Fresh, LogOf, Logs

\* The log has what it had, but for the rows it lost to an older snapshot.
Advances(i) ==
    /\ log[i].known \subseteq log'[i].known
    /\ \A s \in DOMAIN rows : s <= log[i].upto => s <= log'[i].upto \/ rows[s] \in hidden'

LEMMA HeldKept ==
    ASSUME Types, Types', Grown, NEW i \in Instances, Advances(i), NEW u \in Nat, Held(i, u)
    PROVE  Held(i, u)'
<1>1. /\ log[i].upto \in Nat /\ log'[i].upto \in Nat /\ Len(rows) \in Nat /\ Len(rows') \in Nat
      /\ DOMAIN rows = 1..Len(rows)
  BY RoomFields, ElementsOf, LogFields DEF Types, LogTypes, DatabaseTypes
<1>2. u <= Len(rows) /\ Len(rows) <= Len(rows')
  BY DEF Held, Grown
<1>3. u <= Len(rows')
  BY <1>1, <1>2
<1>4. ASSUME NEW s \in 1..u
      PROVE  s <= log'[i].upto \/ rows'[s] \in log'[i].known \/ rows'[s] \in hidden'
  <2>1. s \in DOMAIN rows /\ rows'[s] = rows[s]
    BY <1>1, <1>2 DEF Grown
  <2>2. s <= log[i].upto \/ rows[s] \in log[i].known \/ rows[s] \in hidden
    BY DEF Held
  <2> QED
    BY <2>1, <2>2 DEF Grown, Advances
<1> QED
  BY <1>3, <1>4 DEF Held

LEMMA SnapshotFields ==
    ASSUME Types, NEW i \in Instances
    PROVE  /\ \A r \in request[i] : r.id \in Nat /\ r.upto \in Nat /\ r.peer \in Connections
           /\ \A s \in starting[i] : s.upto \in Nat /\ s.covered \in Nat
           /\ \A s \in installing[i] : s.upto \in Nat /\ s.edits \in SUBSET Written /\ s.done \in BOOLEAN
<1>1. /\ \A r \in request[i] : r \in RequestRecord
      /\ \A s \in starting[i] : s \in StartRecord
  BY RoomFields
<1> QED
  BY <1>1, InstallFields DEF RequestRecord, StartRecord

LEMMA StartKept ==
    ASSUME Types, Types', Grown, NEW i \in Instances, Advances(i), Promised(i), NEW s \in starting[i]
    PROVE  PromisedStart(i, s)'
<1>1. /\ s.upto \in Nat /\ s.covered \in Nat /\ s.upto <= Len(rows) /\ s.covered <= Len(rows)
      /\ \A n \in DOMAIN rows : n <= s.covered => n <= log[i].upto \/ rows[n] \in hidden
  BY SnapshotFields DEF Promised, PromisedStart
<1>2. Len(rows) \in Nat /\ Len(rows') \in Nat /\ DOMAIN rows = 1..Len(rows) /\ DOMAIN rows' = 1..Len(rows')
  BY RoomFields, ElementsOf DEF Types, DatabaseTypes
<1>3. ASSUME NEW n \in DOMAIN rows', n <= s.covered PROVE n <= log'[i].upto \/ rows'[n] \in hidden'
  <2>1. n \in DOMAIN rows /\ rows'[n] = rows[n]
    BY <1>1, <1>2, <1>3 DEF Grown
  <2> QED
    BY <1>1, <1>3, <2>1 DEF Grown, Advances
<1> QED
  BY <1>1, <1>2, <1>3 DEF Grown, PromisedStart

LEMMA PromisedKept ==
    ASSUME Types, Types', Grown, NEW i \in Instances, Advances(i), Promised(i),
           starting'[i] \subseteq starting[i], request'[i] \subseteq request[i],
           installing'[i] \subseteq installing[i]
    PROVE  Promised(i)'
<1>1. \A s \in starting'[i] : PromisedStart(i, s)'
  BY StartKept
<1>2. \A r \in request'[i] : Held(i, r.upto)'
  BY SnapshotFields, HeldKept DEF Promised, Held
<1>3. \A r \in installing'[i] : Held(i, r.upto)'
  BY SnapshotFields, HeldKept DEF Promised, Held
<1> QED
  BY <1>1, <1>2, <1>3 DEF Promised

LEMMA NumbersOf ==
    ASSUME Types, NEW i \in Instances
    PROVE  /\ log[i].upto \in Nat /\ log[i].last \in Nat /\ Len(rows) \in Nat /\ snapUpto \in Nat
           /\ DOMAIN rows = 1..Len(rows)
BY RoomFields, LogFields

\* Entries of the log: those it had, some without a seq, or with the seq of their row.
LEMMA SeqsKept ==
    ASSUME Types, Types', Grown, NEW i \in Instances, Seqs(i),
           \A e \in Range(log'[i].entries) :
                \/ e \in Range(log[i].entries) \/ e.seq = 0
                \/ e.seq \in DOMAIN rows' /\ rows'[e.seq] = e.blob,
           \/ log'[i].last = log[i].last
           \/ log'[i].last \in DOMAIN rows'
           \/ log'[i].last = log[i].upto /\ snapUpto <= Len(rows),
           log'[i].upto = log[i].upto \/ log'[i].upto <= snapUpto'
    PROVE  Seqs(i)'
<1>1. \A e \in Range(log'[i].entries) : e.seq # 0 => e.seq \in DOMAIN rows' /\ rows'[e.seq] = e.blob
  BY DEF Seqs, Grown
<1>2. /\ log[i].upto \in Nat /\ log[i].last \in Nat /\ Len(rows) \in Nat /\ snapUpto \in Nat
  BY NumbersOf
<1>3. log'[i] \in LogRecord /\ rows' \in Seq(Blobs) /\ snapUpto' \in Nat
  BY DEF Types, LogTypes, DatabaseTypes
<1>4. log'[i].last \in Nat /\ log'[i].upto \in Nat /\ Len(rows') \in Nat /\ DOMAIN rows' = 1..Len(rows')
  BY <1>3, LogFields, ElementsOf
<1>5. log[i].last <= Len(rows) /\ log[i].upto <= snapUpto /\ Len(rows) <= Len(rows') /\ snapUpto <= snapUpto'
  BY DEF Seqs, Grown
<1>6. log'[i].last <= Len(rows')
  BY <1>2, <1>4, <1>5
<1>7. log'[i].upto <= snapUpto'
  BY <1>2, <1>3, <1>4, <1>5
<1> QED
  BY <1>1, <1>6, <1>7 DEF Seqs

LEMMA OrderedKept ==
    ASSUME Types, Types', Grown, NEW i \in Instances, Ordered(i),
           installing'[i] \subseteq installing[i]
    PROVE  Ordered(i)'
<1> SUFFICES ASSUME NEW s \in installing'[i], s.done PROVE s.upto <= snapUpto'
  BY DEF Ordered
<1>1. s \in installing[i] /\ s.upto <= snapUpto
  BY DEF Ordered
<1>2. s.upto \in Nat /\ snapUpto \in Nat /\ snapUpto' \in Nat
  BY <1>1, InstallFields DEF Types, DatabaseTypes
<1> QED
  BY <1>1, <1>2 DEF Grown

LEMMA AppendedKept ==
    ASSUME Types, Types', Grown, NEW i \in Instances, Appended(i),
           batch'[i] = batch[i], firstSeq'[i] = firstSeq[i]
    PROVE  Appended(i)'
BY ElementsOf, RoomFields DEF Appended, LastOf, Types, DatabaseTypes, Grown

\* An instance that does nothing keeps its log.
LEMMA LogOfKept ==
    ASSUME Types, Types', Grown, NEW i \in Instances, LogOf(i), SameRoom(i), Fresh(i)'
    PROVE  LogOf(i)'
BY SeqsKept, NumbersOf, PromisedKept, OrderedKept, AppendedKept DEF LogOf, SameRoom, Asleep,
   Advances

\* What a room says on the bus: what its log holds, what it took from a member, what is stored.
Tells(i, m) ==
    \/ m.kind = "syncRequest"
    \/ m.kind = "persisted" /\ (m.vector = marker[i] \/ m.vector = log[i].acks)
    \/ /\ m.kind = "entries"
       /\ \A e \in Range(m.entries) :
            /\ e.seq = 0
            /\ \/ \E f \in Range(log[i].entries) : e.blob = f.blob /\ e.ack = f.ack
               \/ \E p \in Connections :
                    /\ ReceiveUpdate(p) /\ home[p] = i
                    /\ e.blob = Head(up[p]).blob /\ e.ack = Head(up[p]).blob.n

LEMMA ToldLater ==
    ASSUME Types, NEW i, NEW j \in Instances, NEW more \in Seq(BusMessage),
           inbox'[j] = inbox[j] \/ inbox'[j] = inbox[j] \o more,
           \A m \in Range(more) : Tells(i, m)
    PROVE  \A m \in Range(inbox'[j]) : m \in Range(inbox[j]) \/ Tells(i, m)
<1>1. inbox[j] \in Seq(BusMessage)
  BY RoomFields
<1>2. Range(inbox[j] \o more) = Range(inbox[j]) \cup Range(more)
  BY <1>1, RangeOfJoined
<1> QED
  BY Zenon, <1>2

LEMMA NoticeTold ==
    ASSUME Types, NEW i \in Instances
    PROVE  /\ \A known \in SUBSET Blobs : LET s == <<SyncRequest(i, known)>>
                IN s \in Seq(BusMessage) /\ \A m \in Range(s) : Tells(i, m)
           /\ \A v \in Vector : v = marker[i] \/ v = log[i].acks =>
                LET s == <<PersistedVector(v)>>
                IN s \in Seq(BusMessage) /\ \A m \in Range(s) : Tells(i, m)
BY NoticesOf, RangeOfOne DEF Tells

LEMMA RoomTells ==
    ASSUME Types, NEW i \in Instances, RoomStep(i), NEW j \in Instances
    PROVE  \A m \in Range(inbox'[j]) : m \in Range(inbox[j]) \/ Tells(i, m)
<1> DEFINE Fine == \A m \in Range(inbox'[j]) : m \in Range(inbox[j]) \/ Tells(i, m)
<1> SUFFICES Fine
  OBVIOUS
<1>1. CASE inbox'[j] = inbox[j]
  BY <1>1
<1>2. log[i].known \in SUBSET Blobs /\ log[i].acks \in Vector /\ marker[i] \in Vector /\ inbox[i] \in Seq(BusMessage)
  BY RoomFields, LogFields DEF Vector
<1>3. CASE FinishLoading(i) \/ RegainBus(i) \/ Resync(i)
  <2>1. PICK s \in Seq(BusMessage) : s = <<SyncRequest(i, log[i].known)>> /\ \A m \in Range(s) : Tells(i, m)
    BY Zenon, <1>2, NoticeTold
  <2>2. PICK rest \in Seq(BusMessage) : rest = inbox[i]
    BY <1>2
  <2>3. UNCHANGED inbox \/ Publish(i, rest, s)
    BY <1>3, <2>1, <2>2 DEF FinishLoading, RegainBus, Resync
  <2>4. CASE Publish(i, rest, s)
    <3>1. BusTypes
      BY DEF Types
    <3>2. inbox'[i] = rest /\ \A k \in Instances \ {i} : inbox'[k] = inbox[k] \/ inbox'[k] = inbox[k] \o s
      BY <2>4, <3>1, PublishOf
    <3>3. inbox'[j] = inbox[j] \/ inbox'[j] = inbox[j] \o s
      BY <2>2, <3>2
    <3> HIDE DEF Fine
    <3> QED
      BY Zenon, <2>1, <3>3, ToldLater DEF Fine
  <2> QED
    BY <1>1, <2>3, <2>4
<1>4. CASE AppendReturns(i)
  BY <1>2, NoticeTold, <1>4, ReturnedAppend, ToldLater DEF Fine
<1>5. CASE CatchUp(i)
  BY <1>2, NoticeTold, <1>5, CaughtUp, ToldLater DEF Fine
<1>6. CASE HandleEntries(i) \/ HandlePersistedVector(i)
  <2>1. inbox[i] # <<>> /\ inbox' = [inbox EXCEPT ![i] = Tail(inbox[i])]
    BY <1>6, HandledEntries, HandledVector
  <2>2. Range(Tail(inbox[i])) \subseteq Range(inbox[i])
    BY <1>2, <2>1, RangeOfRest
  <2> QED
    BY <2>1, <2>2 DEF Types, BusTypes
<1>7. CASE HandleSyncRequest(i)
  <2>1. PICK m : m = Head(inbox[i])
    OBVIOUS
  <2>2. PICK known, from : known = m.known /\ from = m.from
    OBVIOUS
  <2>3. inbox[i] # <<>> /\ inbox' = [k \in Instances |->
            IF k = i THEN Tail(inbox[i])
            ELSE IF ~listening[k] THEN inbox[k]
            ELSE IF k = from THEN inbox[k] \o Lacking(i, known) \o AskToo(i, known)
            ELSE inbox[k] \o AskToo(i, known)]
    BY <1>7, <2>1, <2>2 DEF HandleSyncRequest
  <2>4. /\ Lacking(i, known) \in Seq(BusMessage) /\ AskToo(i, known) \in Seq(BusMessage)
        /\ \A x \in Range(Lacking(i, known)) : Tells(i, x)
        /\ \A x \in Range(AskToo(i, known)) : Tells(i, x)
    BY AnswersOf DEF Tells
  <2>8. PICK lacking \in Seq(BusMessage) : lacking = Lacking(i, known)
    BY <2>4
  <2>9. PICK too \in Seq(BusMessage) : too = AskToo(i, known)
    BY <2>4
  <2>10. (\A x \in Range(lacking) : Tells(i, x)) /\ (\A x \in Range(too) : Tells(i, x))
    BY <2>4, <2>8, <2>9
  <2>5. CASE j = i
    BY <1>2, <2>3, RangeOfRest, <2>5
  <2>6. CASE inbox'[j] = inbox[j] \o too
    BY <2>6, <2>10, ToldLater DEF Fine
  <2>7. CASE inbox'[j] = inbox[j] \o lacking \o too
    <3>1. inbox[j] \in Seq(BusMessage)
      BY RoomFields
    <3>2. inbox[j] \o lacking \in Seq(BusMessage) /\ Range(inbox[j] \o lacking) = Range(inbox[j]) \cup Range(lacking)
      BY <3>1, RangeOfJoined
    <3>5. PICK first \in Seq(BusMessage) : first = inbox[j] \o lacking
      BY Zenon, <3>2
    <3>3. Range(first \o too) = Range(first) \cup Range(too)
      BY RangeOfJoined
    <3>4. Range(inbox'[j]) = Range(inbox[j]) \cup Range(lacking) \cup Range(too)
      BY <2>7, <3>2, <3>3, <3>5
    <3> QED
      BY <2>10, <3>4
  <2> QED
    BY Zenon, <1>1, <2>3, <2>8, <2>9, <2>5, <2>6, <2>7
<1>8. CASE Crash(i)
  BY <1>8, RangeOfNone DEF Crash, Types, BusTypes
<1>9. CASE ~(FinishLoading(i) \/ RegainBus(i) \/ Resync(i) \/ AppendReturns(i) \/ CatchUp(i)
             \/ HandleEntries(i) \/ HandlePersistedVector(i) \/ HandleSyncRequest(i) \/ Crash(i))
  <2>1. inbox' = inbox
    BY Zenon, <1>9 DEF RoomStep, LoadSnapshot, LoadUpdates, AskLease, Flush,
     AppendCommits, AppendFails, TakeLease, CatchUpFails, RequestSnapshot,
     AskClient, AskFails, RequestTimesOut, InstallFails, InstallCommits, InstallReturns,
     LoseBus, busVars
  <2> QED
    BY <1>1, <2>1
<1> HIDE DEF Fine
<1> QED
  BY <1>3, <1>4, <1>5, <1>6, <1>7, <1>8, <1>9

LEMMA MemberTells ==
    ASSUME Types, NEW p \in Connections, MemberStep(p), NEW j \in Instances
    PROVE  \A m \in Range(inbox'[j]) : m \in Range(inbox[j]) \/ Tells(home[p], m)
<1> DEFINE Fine == \A m \in Range(inbox'[j]) : m \in Range(inbox[j]) \/ Tells(home[p], m)
<1> SUFFICES Fine
  OBVIOUS
<1>1. CASE inbox'[j] = inbox[j]
  BY <1>1
<1>2. CASE ReceiveUpdate(p)
  <2>0. PICK b \in Blobs : b = Head(up[p]).blob /\ b.n \in Nat
    BY <1>2, ReceivedUpdate, BlobFields
  <2>1. PICK e \in EntryRecord : e = Entry(b, b.n, 0) /\ e.blob = b /\ e.ack = b.n /\ e.seq = 0
    BY <2>0, EntryOf
  <2>2. \/ UNCHANGED inbox
        \/ \E new \in Seq(EntryRecord) :
            /\ new = <<e>>
            /\ inbox'[home[p]] = inbox[home[p]]
            /\ \A k \in Instances \ {home[p]} :
                        inbox'[k] = inbox[k] \/ inbox'[k] = inbox[k] \o <<Entries(new)>>
    BY Zenon, <1>2, <2>0, <2>1, ReceivedUpdate
  <2>3. ASSUME NEW new \in Seq(EntryRecord), new = <<e>>, NEW k \in Instances,
               inbox'[k] = inbox[k] \o <<Entries(new)>>
        PROVE  \A m \in Range(inbox'[k]) : m \in Range(inbox[k]) \/ Tells(home[p], m)
    <3>1. Range(new) = {e}
      BY <2>1, <2>3, RangeOfOne
    <3>2. PICK m \in BusMessage : m = Entries(new) /\ m.kind = "entries" /\
            \A x \in Range(m.entries) : x.seq = 0 /\ \E f \in Range(new) : x.blob = f.blob /\ x.ack = f.ack
      BY Zenon, <2>3, EntriesOf, NoticesOf
    <3>3. Tells(home[p], m)
      BY <1>2, <2>0, <2>1, <3>1, <3>2 DEF Tells
    <3>4. PICK s \in Seq(BusMessage) : s = <<m>> /\ Range(s) = {m}
      BY Zenon, <3>2, RangeOfOne
    <3>5. inbox'[k] = inbox[k] \o s
      BY <2>3, <3>2, <3>4
    <3> QED
      BY Zenon, <3>3, <3>4, <3>5, ToldLater
  <2> QED
    BY Zenon, <1>1, <2>2, <2>3
<1>3. CASE ~ReceiveUpdate(p)
  BY <1>3, <1>1 DEF MemberStep, ReceiveSnapshot, RemoveMember, busVars
<1> QED
  BY <1>2, <1>3

\* Entries on the bus come without a seq.
LEMMA FreshStep ==
    ASSUME Types, NEW j \in Instances, Fresh(j),
           \/ \E i \in Instances : RoomStep(i)
           \/ \E p \in Connections : MemberStep(p)
    PROVE  Fresh(j)'
BY RoomTells, MemberTells DEF Fresh, Tells

\* A room that is down does nothing but load; only a crash takes it down.
LEMMA AsleepStep ==
    ASSUME Types, NEW i \in Instances, Asleep(i), Appended(i), RoomStep(i)
    PROVE  Asleep(i)'
<1>1. CASE LoadSnapshot(i)
  BY <1>1 DEF LoadSnapshot, Types, RoomTypes, Asleep
<1>2. CASE Crash(i)
  BY <1>2 DEF Crash, Types, LogTypes, QueueTypes, SnapshotTypes, Asleep, EmptyLog
<1>3. CASE phase[i] # "down" /\ ~Crash(i)
  <2>1. phase'[i] # "down"
    BY <1>3, Zenon DEF RoomStep, LoadSnapshot, LoadUpdates, AskLease, FinishLoading, Flush,
     AppendCommits, AppendReturns, AppendFails, TakeLease, CatchUp, CatchUpFails, RequestSnapshot,
     AskClient, AskFails, RequestTimesOut, InstallFails, InstallCommits, InstallReturns, HandleEntries,
     HandleSyncRequest, HandlePersistedVector, LoseBus, RegainBus, Resync, Types, RoomTypes
  <2> QED
    BY <2>1 DEF Asleep
<1>4. CASE phase[i] = "down" /\ ~LoadSnapshot(i) /\ ~Crash(i)
  <2>1. /\ installing[i] = {} /\ starting[i] = {} /\ ~catching[i] /\ batch[i] = <<>> /\ firstSeq[i] = 0
        /\ log[i].known = {} /\ log[i].entries = <<>> /\ log[i].acks = NoCounters
    BY <1>4 DEF Asleep, Appended
  <2>2. RequestTimesOut(i) \/ LoseBus(i)
    BY Zenon, <1>4, <2>1 DEF RoomStep, LoadUpdates, AskLease, FinishLoading, Flush,
     AppendCommits, AppendReturns, AppendFails, TakeLease, CatchUp, CatchUpFails, RequestSnapshot,
     AskClient, AskFails, InstallCommits, InstallReturns, InstallFails, HandleEntries,
     HandleSyncRequest, HandlePersistedVector, RegainBus, Resync
  <2> QED
    BY <2>1, <2>2 DEF RequestTimesOut, LoseBus, Asleep, queueVars, snapshotVars
<1> QED
  BY <1>1, <1>2, <1>3, <1>4

\* The log after each of the room's steps.
LEMMA SeqsStep ==
    ASSUME Types, Types', Grown, NEW i \in Instances, LogOf(i), snapUpto <= Len(rows), RoomStep(i)
    PROVE  Seqs(i)'
<1> DEFINE Fine == Seqs(i)'
<1> SUFFICES Fine
  OBVIOUS
<1>0. /\ Seqs(i) /\ Asleep(i) /\ Promised(i) /\ Ordered(i) /\ Appended(i) /\ Fresh(i)
      /\ log[i] \in LogRecord /\ rows \in Seq(Blobs) /\ log \in [Instances -> LogRecord]
  BY RoomFields DEF LogOf, Types, LogTypes
<1>1. CASE log'[i] = log[i]
  <2> QED
    BY <1>0, <1>1, SeqsKept
<1>2. CASE LoadSnapshot(i)
  <2>1. log'[i] = [log[i] EXCEPT !.upto = snapUpto, !.snapshot = snapState] /\ snapUpto' = snapUpto
    BY <1>0, <1>2 DEF LoadSnapshot, databaseVars
  <2>2. log'[i].entries = log[i].entries /\ log'[i].last = log[i].last /\ log'[i].upto = snapUpto
    BY <1>0, <2>1 DEF LogRecord
  <2>3. log'[i].upto <= snapUpto'
    BY <2>1, <2>2, NumbersOf
  <2> HIDE DEF Fine
  <2> QED
    BY <1>0, <2>2, <2>3, SeqsKept DEF Fine
<1>3. CASE LoadUpdates(i)
  <2>1. PICK live : live = {s \in DOMAIN rows : s > snapUpto /\ s > log[i].upto}
    BY Zenon
  <2>2. log'[i] = Loaded(log[i], rows, live) /\ UNCHANGED <<rows, snapUpto>>
    BY <1>0, <1>3, <2>1 DEF LoadUpdates, databaseVars
  <2>3. live \in SUBSET DOMAIN rows
    BY <2>1
  <2>4. PICK new \in Seq(EntryRecord) : new = RowEntries(log[i], rows, live)
    BY <1>0, <2>3, RowEntriesOf
  <2>5. /\ Extends(log[i], new, log'[i])
        /\ log'[i].last = log[i].upto \/ log'[i].last \in live
    BY <1>0, <2>2, <2>3, <2>4, LoadedOf
  <2>6. \A e \in Range(new) : e.seq \in live /\ e.blob = rows[e.seq]
    BY <1>0, <2>3, <2>4, RowEntriesOf
  <2>7. Range(log'[i].entries) = Range(log[i].entries) \cup Range(new)
    BY Zenon, <1>0, <2>5, ExtendsContent
  <2>8. log'[i].upto = log[i].upto
    BY <2>5 DEF Extends
  <2> HIDE DEF Fine
  <2> QED
    BY <1>0, <2>2, <2>3, <2>5, <2>6, <2>7, <2>8, SeqsKept DEF Fine
<1>4. CASE AskClient(i)
  <2>1. PICK start, new, p, id : Asks(i, start, new, p, id)
    BY <1>4, AskedClient
  <2>2. /\ new \in Seq(EntryRecord) /\ Extends(log[i], new, log'[i])
        /\ \A e \in Range(new) : e.ack = 0 /\ e.seq \in DOMAIN rows /\ e.blob = rows[e.seq]
        /\ log'[i].last = log[i].last \/ \E e \in Range(new) : log'[i].last = e.seq
    BY <2>1 DEF Asks
  <2>3. Range(log'[i].entries) = Range(log[i].entries) \cup Range(new) /\ log'[i].upto = log[i].upto
    BY Zenon, <1>0, <2>2, ExtendsContent DEF Extends
  <2>4. rows' = rows
    BY <1>4, AskedClient DEF databaseVars
  <2> HIDE DEF Fine
  <2> QED
    BY <1>0, <2>2, <2>3, <2>4, SeqsKept DEF Fine
<1>5. CASE HandleEntries(i)
  <2>1. PICK new \in Seq(EntryRecord) :
                /\ Range(new) \subseteq Range(Head(inbox[i]).entries)
                /\ Adds(i, new, NoConnection)
                /\ log'[i].last = log[i].last \/ \E e \in Range(new) : log'[i].last = e.seq
    BY Zenon, <1>5, HandledEntries
  <2>2. \A e \in Range(new) : e.seq = 0
    BY <1>5, HandledEntries, RangeOfRest, <1>0, <2>1 DEF Fresh
  <2>3. Extends(log[i], new, log'[i])
    BY <2>1 DEF Adds
  <2>4. Range(log'[i].entries) = Range(log[i].entries) \cup Range(new) /\ log'[i].upto = log[i].upto
    BY Zenon, <1>0, <2>3, ExtendsContent DEF Extends
  <2>5. CASE log'[i].last = log[i].last
    <3> HIDE DEF Fine
    <3> QED
      BY <1>0, <2>2, <2>4, <2>5, SeqsKept DEF Fine
  <2>6. CASE log'[i].last = 0
    BY <1>0, <2>2, <2>4, <1>5, HandledEntries, NumbersOf, <2>6 DEF Seqs, Grown, databaseVars
  <2> HIDE DEF Fine
  <2> QED
    BY <2>1, <2>2, <2>5, <2>6
<1>6. CASE CatchUp(i)
  <2>1. PICK m : m = Tagged(log[i], rows) /\ m = log'[i] /\ Renumbers(log[i], m) /\ rows' = rows
    BY Zenon, <1>6, CaughtUp DEF databaseVars
  <2>2. /\ m.last = log[i].last
        /\ \A k \in DOMAIN log[i].entries :
                \/ m.entries[k].seq = log[i].entries[k].seq
                \/ /\ m.entries[k].seq \in DOMAIN rows
                   /\ rows[m.entries[k].seq] = log[i].entries[k].blob
    BY Zenon, <1>0, <2>1, TaggedOf
  <2>3. /\ m \in LogRecord /\ DOMAIN m.entries = DOMAIN log[i].entries /\ m.upto = log[i].upto
        /\ \A k \in DOMAIN log[i].entries : m.entries[k].blob = log[i].entries[k].blob
    BY <2>1 DEF Renumbers
  <2>4. m.entries \in Seq(EntryRecord) /\ log[i].entries \in Seq(EntryRecord)
    BY <1>0, <2>3, LogFields
  <2>5. \A e \in Range(m.entries) : e.seq # 0 => e.seq \in DOMAIN rows /\ rows[e.seq] = e.blob
    <3> TAKE e \in Range(m.entries)
    <3>1. PICK k \in DOMAIN m.entries : e = m.entries[k]
      BY <2>4, ElementsOf
    <3>2. log[i].entries[k] \in Range(log[i].entries)
      BY <2>3, <2>4, ElementsOf
    <3> QED
      BY <1>0, <2>2, <2>3, <3>1, <3>2 DEF Seqs
  <2> HIDE DEF Fine
  <2> QED
    BY <1>0, <2>1, <2>2, <2>3, <2>5, SeqsKept DEF Fine
<1>7. CASE AppendReturns(i)
  <2>1. PICK b \in Seq(Blobs) : b = batch[i]
    BY RoomFields
  <2>2. PICK f \in Nat : f = firstSeq[i] /\ f # 0
    BY Zenon, <1>7, RoomFields, ReturnedAppend
  <2>3. PICK m : m = Committed(log[i], b, f) /\ m = log'[i] /\ rows' = rows
    BY Zenon, <1>7, <2>1, <2>2, ReturnedAppend DEF databaseVars
  <2>4. /\ Renumbers(log[i], m)
        /\ m.last = log[i].last \/ m.last = LastOf(b, f)
        /\ \A k \in DOMAIN log[i].entries :
                \/ m.entries[k].seq = log[i].entries[k].seq
                \/ \E j \in DOMAIN b : /\ b[j] = log[i].entries[k].blob
                                       /\ m.entries[k].seq = f - 1 + j
    <3>1. PICK l \in LogRecord : l = log[i]
      BY <1>0
    <3>2. /\ Renumbers(l, Committed(l, b, f))
          /\ Committed(l, b, f).last = l.last \/ Committed(l, b, f).last = LastOf(b, f)
          /\ \A k \in DOMAIN l.entries :
                \/ Committed(l, b, f).entries[k].seq = l.entries[k].seq
                \/ \E j \in DOMAIN b : /\ b[j] = l.entries[k].blob
                                       /\ Committed(l, b, f).entries[k].seq = f - 1 + j
      BY <2>2, CommittedOf
    <3>3. m = Committed(l, b, f)
      BY Zenon, <2>3, <3>1
    <3> QED
      BY <3>1, <3>2, <3>3
  <2>5. /\ m \in LogRecord /\ DOMAIN m.entries = DOMAIN log[i].entries /\ m.upto = log[i].upto
        /\ \A k \in DOMAIN log[i].entries : m.entries[k].blob = log[i].entries[k].blob
    BY <2>4 DEF Renumbers
  <2>6. m.entries \in Seq(EntryRecord) /\ log[i].entries \in Seq(EntryRecord)
    BY <1>0, <2>5, LogFields
  <2>7. /\ b # <<>> /\ LastOf(b, f) <= Len(rows)
        /\ \A k \in DOMAIN b : f - 1 + k \in DOMAIN rows /\ rows[f - 1 + k] = b[k]
    BY <1>0, <2>1, <2>2 DEF Appended
  <2>8. \A e \in Range(m.entries) : e.seq # 0 => e.seq \in DOMAIN rows /\ rows[e.seq] = e.blob
    <3> TAKE e \in Range(m.entries)
    <3>1. PICK k \in DOMAIN m.entries : e = m.entries[k]
      BY <2>6, ElementsOf
    <3>2. log[i].entries[k] \in Range(log[i].entries)
      BY <2>5, <2>6, ElementsOf
    <3>3. CASE m.entries[k].seq = log[i].entries[k].seq
      BY <1>0, <2>5, <3>1, <3>2, <3>3 DEF Seqs
    <3>4. ASSUME NEW j \in DOMAIN b, b[j] = log[i].entries[k].blob, m.entries[k].seq = f - 1 + j
          PROVE  e.seq \in DOMAIN rows /\ rows[e.seq] = e.blob
      BY <2>5, <2>7, <3>1, <3>4
    <3> QED
      BY <2>4, <2>5, <3>1, <3>3, <3>4
  <2>9. LastOf(b, f) \in DOMAIN rows
    BY <2>7, ElementsOf, EmptySeq, <2>2, NumbersOf DEF LastOf
  <2> HIDE DEF Fine
  <2> QED
    BY <1>0, <2>3, <2>4, <2>5, <2>8, <2>9, SeqsKept DEF Fine
<1>8. CASE InstallReturns(i)
  <2>1. PICK s : Returns(i, s) /\ snapUpto' = snapUpto
    BY <1>8, InstallReturned
  <2>2. s.upto <= snapUpto
    BY <1>0, <2>1 DEF Returns, Ordered
  <2>3. /\ Range(log'[i].entries) \subseteq Range(log[i].entries)
        /\ log'[i].last = log[i].last /\ log'[i].upto = s.upto
    BY <2>1, ReturnedOf
  <2> HIDE DEF Fine
  <2> QED
    BY <1>0, <2>1, <2>2, <2>3, SeqsKept DEF Fine
<1>9. CASE Crash(i)
  BY <1>0, <1>9, RangeOfNone, NumbersOf DEF Crash, databaseVars, EmptyLog, Seqs
<1>10. CASE ~(LoadSnapshot(i) \/ LoadUpdates(i) \/ AskClient(i) \/ HandleEntries(i) \/ CatchUp(i)
              \/ AppendReturns(i) \/ InstallReturns(i) \/ Crash(i))
  <2>1. log' = log
    BY <1>10, Zenon DEF RoomStep, AskLease, FinishLoading, Flush, AppendCommits, AppendFails, TakeLease,
     CatchUpFails, RequestSnapshot, AskFails, RequestTimesOut, InstallFails, InstallCommits,
     HandleSyncRequest, HandlePersistedVector, LoseBus, RegainBus, Resync
  <2> QED
    BY <1>1, <2>1
<1> HIDE DEF Fine
<1> QED
  BY <1>2, <1>3, <1>4, <1>5, <1>6, <1>7, <1>8, <1>9, <1>10

LEMMA AdvancesBy ==
    ASSUME Types, NEW i \in Instances, NEW new \in Seq(EntryRecord), Extends(log[i], new, log'[i])
    PROVE  Advances(i) /\ log'[i].upto = log[i].upto
BY NumbersOf DEF Extends, Advances

\* A log only forgets when its process dies.
LEMMA AdvancesStep ==
    ASSUME Types, NEW i \in Instances, LogOf(i), RoomStep(i), ~Crash(i)
    PROVE  Advances(i)
<1>0. log[i].upto \in Nat /\ log[i] \in LogRecord /\ log \in [Instances -> LogRecord] /\ rows \in Seq(Blobs)
  BY NumbersOf, RoomFields DEF Types, LogTypes
<1>1. CASE log'[i] = log[i]
  BY <1>0, <1>1 DEF Advances
<1>2. CASE LoadSnapshot(i)
  <2>1. PICK l \in LogRecord : l = log[i] /\ l.upto <= snapUpto
    BY <1>0 DEF LogOf, Seqs
  <2>2. log'[i] = [l EXCEPT !.upto = snapUpto, !.snapshot = snapState]
    BY Zenon, <1>0, <1>2, <2>1 DEF LoadSnapshot
  <2>3. log'[i].known = l.known /\ log'[i].upto = snapUpto /\ snapUpto \in Nat /\ l.upto \in Nat
    BY <1>0, <2>1, <2>2 DEF LogRecord, Types, DatabaseTypes
  <2>4. DOMAIN rows \subseteq Nat
    BY <1>0
  <2> QED
    BY <2>1, <2>3, <2>4 DEF Advances
<1>3. CASE LoadUpdates(i)
  BY <1>0, <1>3, LoadedOf, AdvancesBy DEF LoadUpdates
<1>4. CASE AskClient(i)
  BY <1>4, AskedClient, AdvancesBy DEF Asks
<1>5. CASE HandleEntries(i)
  BY <1>5, HandledEntries, AdvancesBy DEF Adds
<1>6. CASE CatchUp(i)
  <2>1. Renumbers(log[i], log'[i])
    BY Zenon, <1>6, CaughtUp
  <2> QED
    BY <1>0, <2>1 DEF Renumbers, Advances
<1>7. CASE AppendReturns(i)
  <2>1. PICK b \in Seq(Blobs) : b = batch[i]
    BY RoomFields
  <2>2. PICK f \in Nat : f = firstSeq[i] /\ f # 0
    BY Zenon, <1>7, RoomFields, ReturnedAppend
  <2>3. log'[i] = Committed(log[i], b, f)
    BY Zenon, <1>7, <2>1, <2>2, ReturnedAppend
  <2>4. PICK l \in LogRecord : l = log[i]
    BY <1>0
  <2>5. Renumbers(l, Committed(l, b, f))
    BY <2>2, CommittedOf
  <2>6. Renumbers(log[i], log'[i])
    BY <2>3, <2>4, <2>5
  <2> QED
    BY <1>0, <2>6 DEF Renumbers, Advances
<1>8. CASE InstallReturns(i)
  <2>1. PICK s : Returns(i, s)
    BY <1>8, InstallReturned
  <2>2. log'[i].upto = s.upto /\ log'[i].known = log[i].known /\ s.upto \in Nat
    BY <2>1, ReturnedOf DEF Returns
  <2>3. \A n \in DOMAIN rows : n <= log[i].upto => n <= s.upto \/ rows[n] \in hidden'
    BY <1>0, <2>1, NumbersOf DEF Returns, Hides
  <2> QED
    BY <2>2, <2>3 DEF Advances
<1>10. CASE ~(LoadSnapshot(i) \/ LoadUpdates(i) \/ AskClient(i) \/ HandleEntries(i) \/ CatchUp(i)
              \/ AppendReturns(i) \/ InstallReturns(i))
  <2>1. log' = log
    BY <1>10, Zenon DEF RoomStep, AskLease, FinishLoading, Flush, AppendCommits, AppendFails, TakeLease,
     CatchUpFails, RequestSnapshot, AskFails, RequestTimesOut, InstallFails, InstallCommits,
     HandleSyncRequest, HandlePersistedVector, LoseBus, RegainBus, Resync
  <2> QED
    BY <1>1, <2>1
<1> QED
  BY <1>2, <1>3, <1>4, <1>5, <1>6, <1>7, <1>8, <1>10

LEMMA PromisedStep ==
    ASSUME Types, Types', Grown, NEW i \in Instances, LogOf(i), RoomStep(i)
    PROVE  Promised(i)'
<1> DEFINE Fine == Promised(i)'
<1> SUFFICES Fine
  OBVIOUS
<1>0. /\ Promised(i)
      /\ request \in [Instances -> SUBSET RequestRecord]
      /\ starting \in [Instances -> SUBSET StartRecord]
      /\ installing \in [Instances -> SUBSET InstallRecord]
  BY RoomFields DEF LogOf, Types, SnapshotTypes
<1>1. CASE Crash(i)
  BY <1>0, <1>1, RangeOfNone DEF Crash, Promised
<1> SUFFICES ASSUME ~Crash(i) PROVE Fine
  BY <1>1
<1>2. Advances(i)
  BY AdvancesStep
<1>3. ASSUME starting'[i] \subseteq starting[i], request'[i] \subseteq request[i],
           installing'[i] \subseteq installing[i]
      PROVE  Fine
  <2> HIDE DEF Fine
  <2> QED
    BY Zenon, <1>0, <1>2, <1>3, PromisedKept DEF Fine
<1>4. CASE RequestSnapshot(i)
  <2>1. UNCHANGED <<rows, hidden, log, request, installing>>
        /\ starting'[i] = {[upto |-> log[i].last, covered |-> log[i].upto]} /\ log[i].last > log[i].upto
    BY <1>4, <1>0 DEF RequestSnapshot, databaseVars
  <2>2. log[i].last <= Len(rows)
    BY DEF LogOf, Seqs
  <2>3. \A s \in starting'[i] : PromisedStart(i, s)'
    BY <2>1, <2>2, NumbersOf DEF PromisedStart
  <2> QED
    BY <1>0, <2>1, <2>3 DEF Promised, Held
<1>5. CASE AskClient(i)
  <2>1. PICK start, new, p, id : Asks(i, start, new, p, id)
    BY <1>5, AskedClient
  <2>2. rows' = rows /\ hidden' = hidden /\ installing' = installing /\ starting'[i] = {}
    BY <1>0, <1>5, AskedClient DEF databaseVars
  <2>3. CASE UNCHANGED <<request, asked, down>>
    BY <1>3, <2>2, <2>3
  <2>4. CASE request' = [request EXCEPT ![i] = {[id |-> id, upto |-> start.upto, peer |-> p]}]
    <3>1. PICK r : r = [id |-> id, upto |-> start.upto, peer |-> p]
      BY Zenon
    <3>2. request'[i] = {r} /\ r.upto = start.upto
      BY <1>0, <2>4, <3>1
    <3>3. /\ start \in starting[i] /\ start.upto \in Nat /\ start.covered \in Nat
          /\ PromisedStart(i, start) /\ start.upto <= Len(rows)
      BY <1>0, <2>1, SnapshotFields DEF Asks, Promised, PromisedStart
    <3>4. Held(i, start.upto)'
      <4>1. start.upto <= Len(rows')
        BY <2>2, <3>3
      <4>2. ASSUME NEW s \in 1..start.upto
            PROVE  s <= log'[i].upto \/ rows'[s] \in log'[i].known \/ rows'[s] \in hidden'
        <5>1. s \in DOMAIN rows
          BY <3>3, NumbersOf
        <5>2. log'[i].upto = log[i].upto /\ log'[i].known = log[i].known \cup Range(BlobsOf(new))
          BY <2>1 DEF Asks, Extends
        <5>3. CASE s <= start.covered
          BY <2>2, <3>3, <5>1, <5>2, <5>3 DEF PromisedStart
        <5>4. CASE start.covered < s
          BY <2>1, <5>1, <5>4, BlobsOfEntries, <2>2, <5>2 DEF Asks
        <5> QED
          BY <3>3, <5>3, <5>4
      <4> QED
        BY <4>1, <4>2 DEF Held
    <3>5. \A x \in installing'[i] : Held(i, x.upto)'
      BY <2>2, SnapshotFields, <1>0, <1>2, HeldKept DEF Promised, Held
    <3>6. \A x \in request'[i] : Held(i, x.upto)'
      BY <3>2, <3>4 DEF Held
    <3> QED
      BY <2>2, <3>5, <3>6 DEF Promised
  <2> QED
    BY Zenon, <2>1, <2>3, <2>4 DEF Asks
<1>6. CASE InstallCommits(i)
  <2>1. PICK s : Commits(i, s)
    BY <1>6, InstallCommitted
  <2>2. UNCHANGED <<rows, hidden, log, request, starting>>
    BY Zenon, <1>6, InstallCommitted
  <2>3. \A x \in installing'[i] : x \in installing[i] \/ x.upto = s.upto
    BY <2>1 DEF Commits
  <2> QED
    BY <1>0, <2>1, <2>2, <2>3 DEF Promised, PromisedStart, Held, Commits
<1>7. CASE InstallReturns(i) \/ InstallFails(i)
  BY <1>7, InstallReturned, InstallFailed, <1>3
<1>8. CASE AskFails(i) \/ RequestTimesOut(i)
  BY <1>0, <1>3, <1>8 DEF AskFails, RequestTimesOut
<1>9. CASE ~(RequestSnapshot(i) \/ AskClient(i) \/ InstallCommits(i) \/ InstallReturns(i) \/ InstallFails(i)
             \/ AskFails(i) \/ RequestTimesOut(i))
  <2>1. UNCHANGED snapshotVars
    BY <1>9, Zenon DEF RoomStep, LoadSnapshot, LoadUpdates, AskLease, FinishLoading, Flush,
     AppendCommits, AppendReturns, AppendFails, TakeLease, CatchUp, CatchUpFails, HandleEntries,
     HandleSyncRequest, HandlePersistedVector, LoseBus, RegainBus, Resync
  <2> QED
    BY <1>3, <2>1 DEF snapshotVars
<1> HIDE DEF Fine
<1> QED
  BY <1>4, <1>5, <1>6, <1>7, <1>8, <1>9

LEMMA OrderedStep ==
    ASSUME Types, Types', Grown, NEW i \in Instances, LogOf(i), RoomStep(i)
    PROVE  Ordered(i)'
<1>0. Ordered(i) /\ installing \in [Instances -> SUBSET InstallRecord]
  BY DEF LogOf, Types, SnapshotTypes
<1>1. CASE installing'[i] \subseteq installing[i]
  BY <1>0, <1>1, OrderedKept
<1>2. CASE InstallCommits(i)
  <2>1. PICK s : Commits(i, s)
    BY <1>2, InstallCommitted
  <2>2. CASE installing'[i] \subseteq installing[i]
    BY <1>1, <2>2
  <2>3. CASE ~(installing'[i] \subseteq installing[i])
    <3>1. \A x \in installing'[i] : x \in installing[i] \/ x.upto = s.upto
      BY <2>1, <2>3 DEF Commits
    <3>2. snapUpto' = s.upto /\ s.upto \in Nat /\ s.upto > snapUpto
      BY <2>1, <2>3 DEF Commits
    <3> QED
      BY <1>0, <3>1, <3>2, SnapshotFields, NumbersOf DEF Ordered
  <2> QED
    BY <2>2, <2>3
<1>3. CASE InstallReturns(i) \/ InstallFails(i)
  BY <1>1, <1>3, InstallReturned, InstallFailed
<1>4. CASE Crash(i)
  BY <1>0, <1>1, <1>4 DEF Crash
<1>5. CASE ~(InstallCommits(i) \/ InstallReturns(i) \/ InstallFails(i) \/ Crash(i))
  <2>1. installing' = installing
    BY <1>5, Zenon DEF RoomStep, LoadSnapshot, LoadUpdates, AskLease, FinishLoading, Flush,
     AppendCommits, AppendReturns, AppendFails, TakeLease, CatchUp, CatchUpFails, RequestSnapshot,
     AskClient, AskFails, RequestTimesOut, HandleEntries,
     HandleSyncRequest, HandlePersistedVector, LoseBus, RegainBus, Resync, snapshotVars
  <2> QED
    BY <1>1, <2>1
<1> QED
  BY <1>2, <1>3, <1>4, <1>5

LEMMA AppendedStep ==
    ASSUME Types, Types', Grown, NEW i \in Instances, LogOf(i), RoomStep(i)
    PROVE  Appended(i)'
<1>0. /\ Appended(i) /\ batch \in [Instances -> Seq(Blobs)] /\ firstSeq \in [Instances -> Nat]
  BY DEF LogOf, Types, QueueTypes
<1>1. CASE firstSeq'[i] = 0
  BY <1>1 DEF Appended
<1>2. CASE Crash(i) \/ AppendReturns(i) \/ AppendFails(i)
  BY <1>0, <1>2, <1>1 DEF Crash, AppendReturns, AppendFails
<1>3. CASE Flush(i)
  BY <1>0, <1>3, <1>1 DEF Flush, Appended
<1>4. CASE AppendCommits(i)
  BY <1>0, <1>4, JoinedRows, RoomFields, ElementsOf DEF AppendCommits, LastOf, Appended
<1>5. CASE ~(Crash(i) \/ AppendReturns(i) \/ AppendFails(i) \/ Flush(i) \/ AppendCommits(i))
  <2>1. batch' = batch /\ firstSeq' = firstSeq
    BY <1>5, Zenon DEF RoomStep, LoadSnapshot, LoadUpdates, AskLease, FinishLoading,
     TakeLease, CatchUp, CatchUpFails, RequestSnapshot,
     AskClient, AskFails, RequestTimesOut, InstallFails, InstallCommits, InstallReturns, HandleEntries,
     HandleSyncRequest, HandlePersistedVector, LoseBus, RegainBus, Resync, queueVars
  <2> QED
    BY <1>0, <2>1, AppendedKept
<1> QED
  BY <1>2, <1>3, <1>4, <1>5

LEMMA LogsRoom ==
    ASSUME Types, Types', NEW i \in Instances, Logs, RoomStep(i)
    PROVE  \A j \in Instances : LogOf(j)'
<1>0. Grown
  BY GrownBy DEF Next
<1>1. ASSUME NEW j \in Instances PROVE Fresh(j)'
  BY FreshStep DEF Logs, LogOf
<1>2. LogOf(i) /\ snapUpto <= Len(rows)
  BY DEF Logs
<1>3. Seqs(i)' /\ Promised(i)' /\ Ordered(i)' /\ Appended(i)'
  BY <1>0, <1>2, SeqsStep, PromisedStep, OrderedStep, AppendedStep
<1>4. Asleep(i)'
  BY <1>2, AsleepStep DEF LogOf
<1>5. LogOf(i)'
  BY <1>1, <1>3, <1>4 DEF LogOf
<1>6. ASSUME NEW j \in Instances, j # i PROVE LogOf(j)'
  BY <1>6, RoomsApart, <1>0, <1>1, LogOfKept DEF Logs
<1> QED
  BY <1>5, <1>6

LEMMA LogsMember ==
    ASSUME Types, Types', Members, NEW p \in Connections, Logs, MemberStep(p)
    PROVE  \A j \in Instances : LogOf(j)'
<1>0. Grown /\ p \in member
  BY Zenon, GrownBy DEF Next, MemberStep, ReceiveUpdate, ReceiveSnapshot, RemoveMember
<1>1. ASSUME NEW j \in Instances PROVE Fresh(j)'
  BY FreshStep DEF Logs, LogOf
<1>2. PICK i \in Instances : i = home[p] /\ phase[i] = "open" /\ phase' = phase
  BY <1>0 DEF Types, RoomTypes, Members, MemberStep, ReceiveUpdate, ReceiveSnapshot, RemoveMember
<1>3. /\ LogOf(i) /\ Seqs(i) /\ Promised(i) /\ Ordered(i) /\ Appended(i)
  BY DEF Logs, LogOf
<1>4. Asleep(i)'
  BY <1>2 DEF Asleep
<1>5. Appended(i)'
  BY <1>0, <1>3, AppendedKept DEF MemberStep, ReceiveUpdate, ReceiveSnapshot, RemoveMember,
     queueVars
<1>6. ASSUME ReceiveUpdate(p) PROVE LogOf(i)'
  <2>1. UNCHANGED <<rows, snapUpto, request, starting, installing>>
    BY <1>6, ReceivedUpdate DEF databaseVars, snapshotVars
  <2>2. CASE log' = log
    <3>1. Advances(i)
      BY <2>2, NumbersOf DEF Advances
    <3>2. Seqs(i)'
      BY <1>0, <1>3, <2>2, SeqsKept
    <3>3. Promised(i)'
      BY <1>0, <1>3, <2>1, <3>1, PromisedKept
    <3>4. Ordered(i)'
      BY <1>0, <1>3, <2>1, <2>2, OrderedKept
    <3> QED
      BY <1>1, <1>4, <1>5, <3>2, <3>3, <3>4 DEF LogOf
  <2>3. CASE log' # log
    <3>1. PICK b \in Blobs : b = Head(up[p]).blob /\ b.n \in Nat
      BY <1>6, ReceivedUpdate, BlobFields
    <3>2. PICK e \in EntryRecord : e = Entry(b, b.n, 0) /\ e.seq = 0
      BY <3>1, EntryOf
    <3>3. PICK new \in Seq(EntryRecord) : new = <<e>> /\ Adds(i, new, p) /\ log'[i].last = log[i].last
      BY Zenon, <1>2, <1>6, <2>3, <3>1, <3>2, ReceivedUpdate
    <3>4. Range(new) = {e}
      BY <3>2, <3>3, RangeOfOne
    <3>5. Extends(log[i], new, log'[i]) /\ log[i] \in LogRecord
      BY <3>3, RoomFields DEF Adds
    <3>6. Range(log'[i].entries) = Range(log[i].entries) \cup Range(new)
      BY Zenon, <3>3, <3>5, ExtendsContent
    <3>7. Advances(i) /\ log'[i].upto = log[i].upto
      BY Zenon, <3>3, <3>5, AdvancesBy
    <3>8. Seqs(i)'
      BY <3>2, <3>4, <3>6, <1>0, <1>3, <3>3, <3>7, SeqsKept
    <3>9. Promised(i)'
      BY <1>0, <1>3, <2>1, <3>7, PromisedKept
    <3>10. Ordered(i)'
      BY <1>0, <1>3, <2>1, <3>7, OrderedKept
    <3> QED
      BY <1>1, <1>4, <1>5, <3>8, <3>9, <3>10 DEF LogOf
  <2> QED
    BY <2>2, <2>3
<1>7. ASSUME ReceiveSnapshot(p) \/ RemoveMember(p) PROVE LogOf(i)'
  <2>1. log' = log /\ UNCHANGED <<rows, snapUpto, hidden, starting>>
    BY <1>7 DEF ReceiveSnapshot, RemoveMember, databaseVars
  <2>2. Advances(i)
    BY <2>1, NumbersOf DEF Advances
  <2>3. Seqs(i)'
    BY <1>0, <1>3, <2>1, SeqsKept
  <2>4. request'[i] \subseteq request[i]
    BY <1>2, <1>7 DEF ReceiveSnapshot, RemoveMember, Types, SnapshotTypes
  <2>5. CASE installing' = installing
    <3>1. Promised(i)'
      BY <1>0, <1>3, <2>1, <2>2, <2>4, <2>5, PromisedKept
    <3>2. Ordered(i)'
      BY <1>0, <1>3, <2>1, <2>5, OrderedKept
    <3> QED
      BY <1>1, <1>4, <1>5, <2>3, <3>1, <3>2 DEF LogOf
  <2>7. CASE ReceiveSnapshot(p)
    <3>1. \A x \in installing'[i] :
            x \in installing[i] \/ (~x.done /\ \E r \in request[i] : x.upto = r.upto)
      BY <1>2, <2>7, ReceivedSnapshot
    <3>2. Promised(i)'
      BY <1>0, <1>3, <2>1, <2>2, <2>4, <3>1, StartKept DEF Promised, PromisedStart, Held
    <3>3. Ordered(i)'
      BY <1>3, <2>1, <3>1 DEF Ordered
    <3> QED
      BY <1>1, <1>4, <1>5, <2>3, <3>2, <3>3 DEF LogOf
  <2>8. CASE RemoveMember(p)
    BY <2>5, <2>8 DEF RemoveMember
  <2> QED
    BY <1>7, <2>5, <2>7, <2>8
<1>8. LogOf(i)'
  BY <1>6, <1>7 DEF MemberStep
<1>9. ASSUME NEW j \in Instances, j # i PROVE LogOf(j)'
  BY <1>2, <1>9, RoomsApart, <1>0, <1>1, LogOfKept DEF Logs
<1> QED
  BY <1>8, <1>9

\* Where the latest snapshot may be.
LEMMA UptoStep ==
    ASSUME Types, [Next]_vars, snapUpto <= Len(rows)
    PROVE  snapUpto' <= Len(rows')
<1>0. Len(rows) \in Nat /\ snapUpto \in Nat
  BY DEF Types, DatabaseTypes
<1>1. CASE snapUpto' = snapUpto
  BY GrownBy, TypesStep, ElementsOf, <1>0, <1>1 DEF Grown, Types, DatabaseTypes
<1>2. ASSUME NEW i \in Instances, InstallCommits(i)
      PROVE  snapUpto' <= Len(rows')
  <2>1. PICK s : Commits(i, s)
    BY <1>2, InstallCommitted
  <2> QED
    BY <1>2, InstallCommitted, <1>1, <2>1 DEF Commits
<1>3. ASSUME NEW i \in Instances, RoomStep(i), ~InstallCommits(i)
      PROVE  snapUpto' = snapUpto
  BY <1>3, Zenon DEF RoomStep, LoadSnapshot, LoadUpdates, AskLease, FinishLoading, Flush, AppendCommits,
     AppendReturns, AppendFails, TakeLease, CatchUp, CatchUpFails, RequestSnapshot,
     AskClient, AskFails, RequestTimesOut, InstallFails, InstallReturns, HandleEntries,
     HandleSyncRequest, HandlePersistedVector, LoseBus, RegainBus, Resync, Crash, databaseVars
<1>4. ASSUME NEW p \in Connections, MemberStep(p)
      PROVE  snapUpto' = snapUpto
  BY <1>4 DEF MemberStep, ReceiveUpdate, ReceiveSnapshot, RemoveMember, databaseVars
<1>5. ASSUME NEW c \in Clients, ClientStep(c) \/ \E i \in Instances : Connect(c, i)
      PROVE  snapUpto' = snapUpto
  BY <1>5 DEF ClientStep, roomVars, databaseVars, Connect, Welcome
<1>6. CASE LateCommit \/ UNCHANGED vars
  BY <1>1, <1>6 DEF vars, roomVars, databaseVars, LateCommit
<1> QED
  BY <1>1, <1>2, <1>3, <1>4, <1>5, <1>6 DEF Next

\* Steps in which no room takes part.
LEMMA RoomsKept ==
    ASSUME Types,
           \/ \E c \in Clients : ClientStep(c) \/ \E i \in Instances : Connect(c, i)
           \/ LateCommit
           \/ UNCHANGED vars,
           NEW j \in Instances
    PROVE  SameRoom(j) /\ inbox' = inbox
BY DEF ClientStep, Connect, Welcome, LateCommit, vars, roomVars, queueVars, snapshotVars, busVars, SameRoom

LEMMA LogsStep == Types /\ Members /\ Logs /\ [Next]_vars => Logs'
<1> SUFFICES ASSUME Types, Members, Logs, [Next]_vars PROVE Logs'
  OBVIOUS
<1>1. hidden' \subseteq Range(rows')
  BY GrownBy DEF Grown, Range, Logs
<1>2. snapUpto' <= Len(rows') /\ \A i \in Instances : LogOf(i)'
  BY TypesStep, GrownBy, UptoStep, LogsRoom, LogsMember, RoomsKept, LogOfKept DEF Logs, LogOf, Fresh,
     Next
<1> QED
  BY <1>1, <1>2 DEF Logs

-----------------------------------------------------------------------------
(* What a client has been shown. *)

\* It is in its document or on its way.
Sees(c, e) == e \in doc[c] \/ \E m \in Range(down[conn[c]]) : e \in Shown(m)

\* Nobody else reads or resets a client's stream, and rooms only add to it.
LEMMA StreamStep ==
    ASSUME Types, Members, [Next]_vars, NEW c \in Clients, conn[c] # NoConnection, conn'[c] = conn[c]
    PROVE  \/ HandleNext(c)
           \/ /\ Longer(down[conn[c]], down'[conn[c]])
              /\ Range(down[conn[c]]) \subseteq Range(down'[conn[c]])
<1> DEFINE Fine == \/ HandleNext(c)
           \/ /\ Longer(down[conn[c]], down'[conn[c]])
              /\ Range(down[conn[c]]) \subseteq Range(down'[conn[c]])
<1> SUFFICES Fine
  OBVIOUS
<1>0. conn[c] \in Connections /\ conn[c] <= opened /\ opened \in Nat
  BY OpenedOf DEF Members
<1>1. CASE down'[conn[c]] = down[conn[c]]
  BY <1>1 DEF Longer
<1>2. ASSUME NEW d \in Clients, ClientStep(d) PROVE Fine
  BY <1>0, <1>1, ShorterDown, <1>2 DEF Disconnect, Types, ClientTypes, Members, DownTypes, SendNext,
     FlushFrame, Edit, streamVars, ClientStep
<1>3. ASSUME NEW d \in Clients, NEW i \in Instances, Connect(d, i) PROVE Fine
  BY <1>0, <1>1, <1>3, ConnectedBy
<1>4. ASSUME NEW i \in Instances, RoomStep(i), ~AskClient(i) PROVE Fine
  BY <1>0, <1>4, RoomSends
<1>5. ASSUME NEW i \in Instances, AskClient(i) PROVE Fine
  <2>1. PICK start, new, p, id : Asks(i, start, new, p, id)
    BY <1>5, AskedClient
  <2>2. CASE MembersOf(i) # {}
    BY <1>0, <2>1, <2>2, AsksSends
  <2>3. CASE MembersOf(i) = {}
    BY <2>1, <2>3, <1>1 DEF Asks
  <2> QED
    BY <2>2, <2>3
<1>6. ASSUME NEW p \in Connections, MemberStep(p) PROVE Fine
  BY <1>6, <1>0, RoomSends DEF MemberStep, ReceiveUpdate, ReceiveSnapshot, RemoveMember, Types,
     RoomTypes
<1>7. CASE LateCommit \/ UNCHANGED vars
  BY <1>1, <1>7 DEF LateCommit, vars, streamVars
<1> HIDE DEF Fine
<1> QED
  BY <1>2, <1>3, <1>4, <1>5, <1>6, <1>7 DEF Next

\* A document is never cut.
LEMMA DocStep ==
    ASSUME Types, [Next]_vars, NEW c \in Clients
    PROVE  doc[c] \subseteq doc'[c]
<1>1. CASE doc' = doc
  BY <1>1
<1>2. ASSUME NEW d \in Clients, ClientStep(d)
      PROVE  doc[c] \subseteq doc'[c]
  <2>1. CASE HandleNext(d)
    <3>1. PICK m : doc' = [doc EXCEPT ![d] = doc[d] \cup Shown(m)]
      BY Zenon, <2>1, HandledBy
    <3> QED
      BY <3>1 DEF Types, ClientTypes
  <2>2. ASSUME NEW e \in Edits, Edit(d, e) PROVE doc[c] \subseteq doc'[c]
    BY <2>2 DEF Edit, Types, ClientTypes
  <2> QED
    BY <1>1, <1>2, <2>1, <2>2 DEF ClientStep, FlushFrame, SendNext, Disconnect
<1>3. ASSUME \/ \E d \in Clients : \E i \in Instances : Connect(d, i)
             \/ \E i \in Instances : RoomStep(i)
             \/ \E p \in Connections : MemberStep(p)
             \/ LateCommit /\ UNCHANGED <<providerVars, resumed>>
             \/ UNCHANGED vars
      PROVE  doc' = doc
  BY <1>3 DEF Connect, RoomStep, MemberStep, providerVars, vars
<1> QED
  BY <1>1, <1>2, <1>3 DEF Next

\* What was seen is seen, as long as the connection lasts.
LEMMA SeesStep ==
    ASSUME Types, Members, [Next]_vars, NEW c \in Clients, conn[c] # NoConnection, conn'[c] = conn[c],
           NEW e, Sees(c, e)
    PROVE  Sees(c, e)'
<1>1. CASE e \in doc[c]
  BY <1>1, DocStep DEF Sees
<1>2. ASSUME NEW m \in Range(down[conn[c]]), e \in Shown(m), ~HandleNext(c)
      PROVE  Sees(c, e)'
  BY <1>2, StreamStep DEF Sees, Shown
<1>3. ASSUME NEW m \in Range(down[conn[c]]), e \in Shown(m), HandleNext(c)
      PROVE  Sees(c, e)'
  <2>1. /\ doc'[c] = doc[c] \cup Shown(Head(down[conn[c]]))
        /\ Range(down[conn[c]]) = Range(down'[conn[c]]) \cup {Head(down[conn[c]])}
    BY Zenon, <1>3, HandledBy, ShorterDown DEF Types, ClientTypes
  <2> QED
    BY <1>3, <2>1 DEF Sees, Shown
<1> QED
  BY <1>1, <1>2, <1>3 DEF Sees

\* Where connections are.
LEMMA HomeStep ==
    ASSUME Types, Members, [Next]_vars, NEW p \in Connections, p <= opened
    PROVE  /\ home'[p] = home[p]
           /\ p \in member' => p \in member
           /\ p \in member' /\ home[p] \in Instances => ~Crash(home[p])
<1>0. opened \in Nat /\ p # opened + 1
  BY OpenedOf
<1>1. ASSUME NEW d \in Clients, NEW i \in Instances, Connect(d, i)
      PROVE  home'[p] = home[p] /\ (p \in member' => p \in member) /\ ~Crash(home[p])
  BY <1>0, <1>1, ConnectedBy DEF Crash
<1>2. ASSUME \A d \in Clients, i \in Instances : ~Connect(d, i)
      PROVE  /\ home' = home /\ member' \subseteq member
  <2>1. ASSUME NEW d \in Clients, ClientStep(d)
        PROVE  home' = home /\ member' \subseteq member
    BY <2>1, HandledBy DEF ClientStep, roomVars, Edit, FlushFrame, SendNext, Disconnect, streamVars
  <2>2. ASSUME NEW i \in Instances, RoomStep(i)
        PROVE  home' = home /\ member' \subseteq member
    BY <2>2, Zenon DEF RoomStep, LoadSnapshot, LoadUpdates, AskLease, FinishLoading, Flush, AppendCommits,
     AppendReturns, AppendFails, TakeLease, CatchUp, CatchUpFails, RequestSnapshot, streamVars,
     AskClient, AskFails, RequestTimesOut, InstallFails, InstallCommits, InstallReturns, HandleEntries,
     HandleSyncRequest, HandlePersistedVector, LoseBus, RegainBus, Resync, Crash
  <2>3. ASSUME NEW q \in Connections, MemberStep(q)
        PROVE  home' = home /\ member' \subseteq member
    BY <2>3 DEF MemberStep, ReceiveUpdate, ReceiveSnapshot, RemoveMember
  <2>4. CASE LateCommit \/ UNCHANGED vars
    BY <2>4 DEF LateCommit, vars, roomVars, streamVars
  <2> QED
    BY <1>2, <2>1, <2>2, <2>3, <2>4 DEF Next
<1>3. ASSUME p \in member', home[p] \in Instances, home' = home PROVE ~Crash(home[p])
  BY <1>3 DEF Crash, MembersOf
<1> QED
  BY <1>1, <1>2, <1>3

\* Rooms that take no part keep their logs.
LEMMA OtherLogs ==
    ASSUME Types, [Next]_vars, NEW i \in Instances,
           ~RoomStep(i), \A p \in Connections : home[p] = i => ~MemberStep(p)
    PROVE  log'[i] = log[i]
BY RoomsApart, RoomsKept DEF SameRoom, Next

\* What becomes known to an open room is sent to its members, but to the one it came from.
LEMMA KnownStep ==
    ASSUME Types, Members, [Next]_vars, NEW i \in Instances, phase[i] = "open",
           NEW p \in Connections, p \in MembersOf(i) \cap reading, NEW b \in log'[i].known
    PROVE  \/ b \in log[i].known
           \/ \E m \in Range(down'[p]) : Shown(m) = b.edits
           \/ ReceiveUpdate(p) /\ b = Head(up[p]).blob
<1> DEFINE Fine ==
           \/ b \in log[i].known
           \/ \E m \in Range(down'[p]) : Shown(m) = b.edits
           \/ ReceiveUpdate(p) /\ b = Head(up[p]).blob
<1> SUFFICES Fine
  OBVIOUS
<1>0. log[i] \in LogRecord
  BY RoomFields
<1>1. CASE log'[i].known \subseteq log[i].known
  BY <1>1
<1>2. ASSUME NEW new, NEW sender, Adds(i, new, sender), b \notin log[i].known, p # sender
      PROVE  \E m \in Range(down'[p]) : Shown(m) = b.edits
  <2>1. \E e \in Range(new) : b = e.blob
    BY <1>0, <1>2, ExtendsContent DEF Adds
  <2> QED
    BY <1>2, <2>1, AddsSends
<1>3. ASSUME NEW q \in Connections, home[q] = i, ReceiveUpdate(q), b \notin log[i].known PROVE Fine
  <2>1. PICK x \in Blobs : x = Head(up[q]).blob /\ x.n \in Nat
    BY <1>3, ReceivedUpdate, BlobFields
  <2>2. PICK new \in Seq(EntryRecord) : new = <<Entry(x, x.n, 0)>> /\ Adds(i, new, q)
    BY Zenon, <1>3, <2>1, ReceivedUpdate
  <2>3. CASE p # q
    BY <1>2, <1>3, <2>2, <2>3
  <2>4. CASE p = q
    <3>1. PICK e \in EntryRecord : e = Entry(x, x.n, 0) /\ e.blob = x
      BY <2>1, EntryOf
    <3>2. Range(new) = {e}
      BY <2>2, <3>1, RangeOfOne
    <3>4. Extends(log[i], new, log'[i])
      BY <2>2 DEF Adds
    <3>3. \E f \in Range(new) : b = f.blob
      BY <1>0, <1>3, <3>4, ExtendsContent
    <3> QED
      BY <1>3, <2>1, <2>4, <3>1, <3>2, <3>3
  <2> QED
    BY <2>3, <2>4
<1>4. ASSUME NEW q \in Connections, home[q] = i, ReceiveSnapshot(q) \/ RemoveMember(q) PROVE Fine
  BY <1>1, <1>4 DEF ReceiveSnapshot, RemoveMember
<1>5. CASE HandleEntries(i)
  BY <1>5, HandledEntries, OpenedOf, <1>2
<1>6. CASE AskClient(i)
  <2>1. PICK start, new, q, id : Asks(i, start, new, q, id)
    BY <1>6, AskedClient
  <2>2. new \in Seq(EntryRecord) /\ Extends(log[i], new, log'[i]) /\ MembersOf(i) # {}
    BY <2>1 DEF Asks
  <2>3. b \in log[i].known \/ \E e \in Range(new) : b = e.blob
    BY <1>0, <2>2, ExtendsContent
  <2>4. \A e \in Range(new) : \E m \in Range(down'[p]) : Shown(m) = e.blob.edits
    BY <2>1, <2>2, AsksSends
  <2> QED
    BY <2>3, <2>4
<1>7. CASE CatchUp(i)
  BY Zenon, <1>1, <1>7, CaughtUp DEF Renumbers
<1>8. CASE AppendReturns(i)
  <2>1. PICK c \in Seq(Blobs) : c = batch[i]
    BY RoomFields
  <2>2. PICK f \in Nat : f = firstSeq[i] /\ f # 0
    BY Zenon, <1>8, RoomFields, ReturnedAppend
  <2>3. PICK l \in LogRecord : l = log[i]
    BY <1>0
  <2>4. Renumbers(l, Committed(l, c, f))
    BY <2>2, CommittedOf
  <2>5. log'[i] = Committed(l, c, f)
    BY Zenon, <1>8, <2>1, <2>2, <2>3, ReturnedAppend
  <2> QED
    BY <1>1, <2>3, <2>4, <2>5 DEF Renumbers
<1>9. CASE InstallReturns(i)
  BY <1>9, InstallReturned, ReturnedOf, <1>1
<1>10. CASE Crash(i)
  BY <1>10, <1>1 DEF Crash, Types, LogTypes, EmptyLog
<1>11. ASSUME RoomStep(i), ~(HandleEntries(i) \/ AskClient(i) \/ CatchUp(i) \/ AppendReturns(i)
              \/ InstallReturns(i) \/ Crash(i))
       PROVE  Fine
  <2>1. log' = log
    BY <1>11, Zenon DEF RoomStep, LoadSnapshot, LoadUpdates, AskLease, FinishLoading, Flush, AppendCommits, AppendFails,
     TakeLease, CatchUpFails, RequestSnapshot, AskFails, RequestTimesOut, InstallFails, InstallCommits,
     HandleSyncRequest, HandlePersistedVector, LoseBus, RegainBus, Resync
  <2> QED
    BY <1>1, <2>1
<1>12. CASE ~RoomStep(i) /\ \A q \in Connections : home[q] = i => ~MemberStep(q)
  BY <1>12, OtherLogs, <1>1
<1> HIDE DEF Fine
<1> QED
  BY <1>3, <1>4, <1>5, <1>6, <1>7, <1>8, <1>9, <1>10, <1>11, <1>12 DEF MemberStep, Fine

\* A snapshot reaches an open room for a seq up to which it held all rows.
LEMMA UptoHeld ==
    ASSUME Types, Members, Logs, [Next]_vars, NEW i \in Instances, phase[i] = "open", ~Crash(i)
    PROVE  log'[i].upto = log[i].upto \/ Held(i, log'[i].upto)
<1>0. log[i] \in LogRecord /\ LogOf(i) /\ log \in [Instances -> LogRecord]
  BY RoomFields DEF Logs, Types, LogTypes
<1>1. CASE InstallReturns(i)
  BY <1>0, <1>1, InstallReturned, ReturnedOf DEF Returns, LogOf, Promised
<1>2. ASSUME NEW new, Extends(log[i], new, log'[i]) PROVE log'[i].upto = log[i].upto
  BY <1>2 DEF Extends
<1>3. CASE HandleEntries(i)
  BY <1>2, <1>3, HandledEntries DEF Adds
<1>4. CASE AskClient(i)
  BY Zenon, <1>2, <1>4, AskedClient DEF Asks
<1>5. CASE CatchUp(i)
  BY Zenon, <1>5, CaughtUp DEF Renumbers
<1>6. CASE AppendReturns(i)
  <2>1. PICK c \in Seq(Blobs) : c = batch[i]
    BY RoomFields
  <2>2. PICK f \in Nat : f = firstSeq[i] /\ f # 0
    BY Zenon, <1>6, RoomFields, ReturnedAppend
  <2>3. PICK l \in LogRecord : l = log[i]
    BY <1>0
  <2>4. Renumbers(l, Committed(l, c, f))
    BY <2>2, CommittedOf
  <2>5. log'[i] = Committed(l, c, f)
    BY Zenon, <1>6, <2>1, <2>2, <2>3, ReturnedAppend
  <2> QED
    BY <2>3, <2>4, <2>5 DEF Renumbers
<1>7. ASSUME RoomStep(i), ~(HandleEntries(i) \/ AskClient(i) \/ CatchUp(i) \/ AppendReturns(i) \/ InstallReturns(i))
       PROVE  log'[i].upto = log[i].upto
  <2>1. log' = log
    BY <1>7, Zenon DEF RoomStep, LoadSnapshot, LoadUpdates, AskLease, FinishLoading, Flush, AppendCommits, AppendFails,
     TakeLease, CatchUpFails, RequestSnapshot, AskFails, RequestTimesOut, InstallFails, InstallCommits,
     HandleSyncRequest, HandlePersistedVector, LoseBus, RegainBus, Resync
  <2> QED
    BY <2>1
<1>8. ASSUME NEW q \in Connections, home[q] = i, MemberStep(q)
      PROVE  log'[i].upto = log[i].upto
  BY <1>2, <1>8, ReceivedUpdate DEF Adds, MemberStep, ReceiveSnapshot, RemoveMember
<1>9. CASE ~RoomStep(i) /\ \A q \in Connections : home[q] = i => ~MemberStep(q)
  BY <1>9, OtherLogs
<1> QED
  BY <1>1, <1>3, <1>4, <1>5, <1>6, <1>7, <1>8, <1>9

\* What a client sends is in its document.
Writing(c) ==
    /\ pending[c] \subseteq doc[c]
    /\ conn[c] # NoConnection =>
        /\ \A m \in Range(sending[c]) :
            m.type = "update" /\ m.conn = conn[c] => m.edits \subseteq doc[c]
        /\ \A m \in Range(up[conn[c]]) : m.type = "update" => m.blob.edits \subseteq doc[c]

\* A client of a room has been shown what the room has, but for what went with a snapshot.
Showing(c) ==
    conn[c] \in member =>
        /\ \A b \in log[home[conn[c]]].known : b \in hidden \/ \A e \in b.edits : Sees(c, e)
        /\ \A s \in 1..log[home[conn[c]]].upto : rows[s] \in hidden \/ \A e \in rows[s].edits : Sees(c, e)

\* A step of others leaves a client its connection and its queue.
LEMMA WritingKept ==
    ASSUME Types, NEW c \in Clients, Writing(c), doc[c] \subseteq doc'[c],
           pending'[c] \subseteq pending[c], conn'[c] = conn[c],
           Range(sending'[c]) \subseteq Range(sending[c]),
           conn[c] # NoConnection => Range(up'[conn[c]]) \subseteq Range(up[conn[c]])
    PROVE  Writing(c)'
BY DEF Writing

LEMMA WritingStep ==
    ASSUME Types, Members, [Next]_vars, NEW c \in Clients, Writing(c)
    PROVE  Writing(c)'
<1> DEFINE Fine == Writing(c)'
<1> SUFFICES Fine
  OBVIOUS
<1>0. doc[c] \subseteq doc'[c] /\ (conn[c] # NoConnection => conn[c] \in Connections)
  BY DocStep, OpenedOf
<1>1. ASSUME pending'[c] \subseteq pending[c], conn'[c] = conn[c],
             Range(sending'[c]) \subseteq Range(sending[c]),
             conn[c] # NoConnection => Range(up'[conn[c]]) \subseteq Range(up[conn[c]])
      PROVE  Fine
  <2> HIDE DEF Fine
  <2> QED
    BY <1>0, <1>1, WritingKept DEF Fine
<1>2. ASSUME NEW d \in Clients, ClientStep(d), d # c PROVE Fine
  <2>1. conn[c] # NoConnection => conn[d] # conn[c]
    BY <1>2 DEF Members
  <2>2. CASE HandleNext(d)
    <3>1. UNCHANGED <<conn, pending, up>> /\ Queued(d, Head(down[conn[d]]))
      BY <2>2, HandledBy, QueuedBy
    <3>2. sending'[c] = sending[c]
      BY <1>2, <3>1 DEF Queued, Types, ClientTypes
    <3> QED
      BY <1>1, <3>1, <3>2
  <2>3. CASE SendNext(d)
    BY <1>2, <2>3, ShorterQueue, <1>0, <2>1, SentNext, <1>1 DEF SendNext
  <2>4. CASE FlushFrame(d) \/ Disconnect(d) \/ \E e \in Edits : Edit(d, e)
    BY <1>2, <2>4, <1>1 DEF FlushFrame, Disconnect, Edit, streamVars, Types, ClientTypes
  <2> QED
    BY <1>2, <2>2, <2>3, <2>4 DEF ClientStep
<1>3. ASSUME NEW e \in Edits, Edit(c, e) PROVE Fine
  BY <1>3 DEF Edit, streamVars, Types, ClientTypes, Writing
<1>4. CASE FlushFrame(c)
  <2>1. UNCHANGED <<conn, up, doc>> /\ pending'[c] = {} /\ conn[c] # NoConnection
    BY <1>4, ClientFields DEF FlushFrame, streamVars, Types, ClientTypes
  <2>2. PICK m \in SendItem : m = Update(c, pending[c]) /\ m.edits = pending[c]
    BY <2>1, UpdateItem, ClientFields DEF Types
  <2>3. sending' = [sending EXCEPT ![c] = Append(sending[c], m)]
    BY <1>4, <2>2 DEF FlushFrame
  <2>4. Range(sending'[c]) = Range(sending[c]) \cup {m}
    BY Zenon, <2>2, <2>3, LongerQueue
  <2>5. \A x \in Range(sending'[c]) : x.type = "update" /\ x.conn = conn[c] => x.edits \subseteq doc[c]
    BY <2>1, <2>2, <2>4 DEF Writing
  <2> QED
    BY <2>1, <2>5 DEF Writing
<1>5. CASE SendNext(c)
  <2>1. PICK item \in SendItem : item = Head(sending[c]) /\ item \in Range(sending[c])
    BY <1>5, ShorterQueue
  <2>2. UNCHANGED <<conn, pending, doc>> /\ Range(sending'[c]) \subseteq Range(sending[c])
    BY Zenon, <1>5, ShorterQueue DEF SendNext
  <2>3. CASE UNCHANGED up
    BY <1>1, <2>2, <2>3
  <2>4. ASSUME NEW b \in Blobs, item.conn = conn[c], item.type = "update", conn[c] \in Connections,
               b.edits = item.edits, Range(up'[conn[c]]) = Range(up[conn[c]]) \cup {ClientUpdate(b)}
        PROVE  Fine
    BY <2>1, <2>4, RepliesOf, OpenedOf, <2>2 DEF Writing, NoConnection, Connections
  <2>5. ASSUME NEW m \in UpMessage, m.type = "snapshot", conn[c] \in Connections,
               Range(up'[conn[c]]) = Range(up[conn[c]]) \cup {m}
        PROVE  Fine
    BY <2>2, <2>5 DEF Writing
  <2>6. item.type = "snapshot" => SnapshotReply(item.id, item.edits).type = "snapshot"
    BY SendFields, RepliesOf
  <2> HIDE DEF Fine
  <2> QED
    BY Zenon, <1>5, <2>1, <2>3, <2>4, <2>5, <2>6, SentNext
<1>6. CASE HandleNext(c)
  <2>1. UNCHANGED <<conn, pending, up>> /\ conn[c] # NoConnection
    BY <1>6, HandledBy
  <2>2. PICK h : h = Head(down[conn[c]]) /\ Queued(c, h)
    BY <1>6, QueuedBy
  <2>3. CASE sending' = sending
    BY <1>1, <2>1, <2>3
  <2>4. ASSUME NEW m \in SendItem, m.edits \subseteq doc[c],
               sending' = [sending EXCEPT ![c] = Append(sending[c], m)]
        PROVE  Fine
    <3>1. Range(sending'[c]) = Range(sending[c]) \cup {m}
      BY Zenon, <2>4, LongerQueue
    <3>2. \A x \in Range(sending'[c]) : x.type = "update" /\ x.conn = conn[c] => x.edits \subseteq doc'[c]
      BY <1>0, <2>1, <2>4, <3>1 DEF Writing
    <3> QED
      BY <1>0, <2>1, <3>2 DEF Writing
  <2>5. /\ Update(c, doc[c] \ h.edits) \in SendItem /\ Update(c, doc[c] \ h.edits).edits = doc[c] \ h.edits
        /\ h.id \in Nat => Snapshot(c, h.id) \in SendItem /\ Snapshot(c, h.id).edits = doc[c]
    BY <2>1, UpdateItem, ClientFields DEF Types
  <2> HIDE DEF Fine
  <2> QED
    BY Zenon, <2>2, <2>3, <2>4, <2>5 DEF Queued
<1>7. CASE Disconnect(c)
  BY <1>7 DEF Disconnect, Types, ClientTypes, Writing
<1>8. ASSUME NEW d \in Clients, NEW i \in Instances, Connect(d, i), d # c PROVE Fine
  BY <1>1, <1>8, ConnectedBy
<1>9. ASSUME NEW i \in Instances, Connect(c, i) PROVE Fine
  BY <1>9, ConnectedBy, RangeOfNone, ClientFields, ElementsOf, SendFields, OpenedOf DEF Members,
     Connections, Writing
<1>10. ASSUME \/ \E i \in Instances : RoomStep(i)
              \/ \E p \in Connections : MemberStep(p)
              \/ LateCommit /\ UNCHANGED <<providerVars, resumed>>
              \/ UNCHANGED vars
       PROVE  Fine
  BY <1>10, <1>0, ShorterUp, <1>1 DEF RoomStep, MemberStep, providerVars, vars, LateCommit,
     streamVars
<1> HIDE DEF Fine
<1> QED
  BY <1>2, <1>3, <1>4, <1>5, <1>6, <1>7, <1>8, <1>9, <1>10 DEF Next, ClientStep

-----------------------------------------------------------------------------
(* Snapshots hold the rows they stand for. *)

Covers(u, edits) == u <= Len(rows) /\ \A s \in 1..u : rows[s] \in hidden \/ rows[s].edits \subseteq edits

\* What a log knows it has as an entry, or its snapshot stands for, or has lost.
Covering(i) ==
    /\ Covers(log[i].upto, log[i].snapshot)
    /\ \A s \in installing[i] : Covers(s.upto, s.edits)
    /\ \A b \in log[i].known :
        \/ \E e \in Range(log[i].entries) : e.blob = b
        \/ \E s \in 1..log[i].upto : rows[s] = b
        \/ b \in hidden

LEMMA KnownShown ==
    ASSUME Types, NEW i \in Instances, Covering(i)
    PROVE  /\ \A b \in log[i].known : b \in hidden \/ b.edits \subseteq Content(log[i])
           /\ \A s \in 1..log[i].upto : rows[s] \in hidden \/ rows[s].edits \subseteq Content(log[i])
BY RoomFields, ContentOf DEF Covering, Covers

LEMMA CoversKept ==
    ASSUME Types, Types', Grown, NEW u \in Nat, NEW edits, Covers(u, edits)
    PROVE  Covers(u, edits)'
BY ElementsOf DEF Types, DatabaseTypes, Covers, Grown

\* A client on a connection it had is shown what its room gets ...
LEMMA ShowingStays ==
    ASSUME Types, Members, Logs, [Next]_vars, NEW c \in Clients, Writing(c), Showing(c),
           conn[c] # NoConnection, conn'[c] = conn[c]
    PROVE  Showing(c)'
<1> SUFFICES ASSUME conn[c] \in member' PROVE Showing(c)'
  BY DEF Showing
<1>1. conn[c] \in Connections /\ conn[c] <= opened /\ conn[c] \in reading
  BY OpenedOf DEF Members
<1>2. conn[c] \in member /\ home'[conn[c]] = home[conn[c]]
  BY <1>1, HomeStep
<1>3. PICK i \in Instances : i = home[conn[c]] /\ phase[i] = "open" /\ ~Crash(i)
  BY <1>1, <1>2, HomeStep DEF Types, RoomTypes, Members
<1>4. conn[c] \in MembersOf(i) \cap reading
  BY <1>1, <1>2, <1>3 DEF MembersOf
<1>5. /\ \A b \in log[i].known : b \in hidden \/ \A e \in b.edits : Sees(c, e)
      /\ \A s \in 1..log[i].upto : rows[s] \in hidden \/ \A e \in rows[s].edits : Sees(c, e)
      /\ hidden \subseteq hidden'
  BY <1>2, <1>3, GrownBy DEF Showing, Grown
<1>6. \A e : Sees(c, e) => Sees(c, e)'
  BY SeesStep
<1>7. ASSUME NEW b \in log'[i].known, b \notin hidden', NEW e \in b.edits PROVE Sees(c, e)'
  <2>1. CASE b \in log[i].known
    BY <1>5, <1>6, <1>7, <2>1
  <2>2. ASSUME NEW m \in Range(down'[conn[c]]), Shown(m) = b.edits PROVE Sees(c, e)'
    BY <2>2 DEF Sees, Shown
  <2>3. CASE ReceiveUpdate(conn[c]) /\ b = Head(up[conn[c]]).blob
    BY <1>1, <2>3, ReceivedUpdate, RangeOfRest, DocStep DEF Writing, Sees
  <2> QED
    BY <1>1, <1>3, <1>4, <2>1, <2>2, <2>3, KnownStep
<1>8. ASSUME NEW s \in 1..log'[i].upto, rows'[s] \notin hidden', NEW e \in rows'[s].edits PROVE Sees(c, e)'
  <2>0. /\ log[i].upto \in Nat /\ Len(rows) \in Nat /\ DOMAIN rows = 1..Len(rows) /\ snapUpto \in Nat
        /\ log[i].upto <= snapUpto /\ snapUpto <= Len(rows) /\ log'[i].upto \in Nat
    BY TypesStep, NumbersOf, LogFields DEF Types, LogTypes, Logs, LogOf, Seqs
  <2>1. /\ log'[i].upto <= Len(rows)
        /\ \/ s <= log[i].upto
           \/ rows[s] \in log[i].known
           \/ rows[s] \in hidden
    BY <2>0, <1>3, UptoHeld DEF Held
  <2>2. s \in DOMAIN rows /\ s \in Nat /\ s >= 1
    BY <2>0, <2>1
  <2>3. rows'[s] = rows[s]
    BY <2>2, GrownBy DEF Grown
  <2>4. CASE s <= log[i].upto
    BY <2>0, <2>2, <2>4, <1>5, <1>6, <1>8, <2>3
  <2>5. CASE rows[s] \in log[i].known
    BY <1>5, <1>6, <1>8, <2>3, <2>5
  <2> QED
    BY <1>5, <1>8, <2>1, <2>3, <2>4, <2>5
<1>9. conn'[c] = conn[c] /\ home'[conn[c]] = i
  BY <1>2, <1>3
<1> QED
  BY <1>7, <1>8, <1>9 DEF Showing

\* ... and on a new one it is sent the board.
LEMMA ShowingStarts ==
    ASSUME Types, Members, NEW c \in Clients, NEW i \in Instances, Connect(c, i), Covering(i)
    PROVE  Showing(c)'
BY WelcomedBy, ConnectedBy, KnownShown DEF databaseVars, Sees, Shown, Showing

\* A connection begins with Connect and ends with Disconnect.
LEMMA ConnStep ==
    ASSUME Types, [Next]_vars, NEW c \in Clients, conn'[c] # conn[c]
    PROVE  \/ \E i \in Instances : Connect(c, i)
           \/ Disconnect(c) /\ conn'[c] = NoConnection
<1> DEFINE Fine ==
            \/ \E i \in Instances : Connect(c, i)
            \/ Disconnect(c) /\ conn'[c] = NoConnection
<1> SUFFICES Fine
  OBVIOUS
<1>1. ASSUME NEW d \in Clients, ClientStep(d) PROVE Fine
  BY <1>1, HandledBy DEF Disconnect, Types, ClientTypes, ClientStep, Edit, FlushFrame, SendNext
<1>2. ASSUME NEW d \in Clients, NEW i \in Instances, Connect(d, i) PROVE Fine
  BY <1>2 DEF Connect, Types, ClientTypes
<1>3. ASSUME NEW i \in Instances, RoomStep(i) PROVE Fine
  BY <1>3 DEF RoomStep, providerVars
<1>4. ASSUME NEW p \in Connections, MemberStep(p) PROVE Fine
  BY <1>4 DEF MemberStep, providerVars
<1>5. ASSUME LateCommit /\ UNCHANGED <<providerVars, resumed>> PROVE Fine
  BY <1>5 DEF providerVars
<1>6. ASSUME UNCHANGED vars PROVE Fine
  BY <1>6 DEF vars, providerVars
<1> HIDE DEF Fine
<1> QED
  BY <1>1, <1>2, <1>3, <1>4, <1>5, <1>6 DEF Next

LEMMA ShowingStep ==
    ASSUME Types, Members, Logs, [Next]_vars, NEW c \in Clients, Writing(c), Showing(c),
           \A i \in Instances : Covering(i)
    PROVE  Showing(c)'
<1>1. CASE conn'[c] = NoConnection
  BY <1>1, TypesStep DEF Types, StreamTypes, NoConnection, Connections, Showing
<1>2. CASE conn'[c] = conn[c] /\ conn'[c] # NoConnection
  BY <1>2, ShowingStays
<1>3. CASE conn'[c] # conn[c] /\ conn'[c] # NoConnection
  BY <1>3, ConnStep, ShowingStarts
<1> QED
  BY <1>1, <1>2, <1>3

-----------------------------------------------------------------------------
(* A snapshot reply holds the rows up to the seq it was asked for. *)

\* It is in the document by the time the k-th message is read.
Before(c, k, e) ==
    \/ e \in doc[c]
    \/ \E j \in DOMAIN down[conn[c]] : j < k /\ e \in Shown(down[conn[c]][j])

Replied(r) ==
    \A m \in Range(up[r.peer]) : m.type = "snapshot" /\ m.id = r.id => Covers(r.upto, m.edits)
Captured(c, r) ==
    \A m \in Range(sending[c]) :
        m.type = "snapshot" /\ m.conn = r.peer /\ m.id = r.id => Covers(r.upto, m.edits)
Underway(c, r) ==
    \A k \in DOMAIN down[r.peer] :
        down[r.peer][k].type = "request" /\ down[r.peer][k].id = r.id =>
            \A s \in 1..r.upto : rows[s] \in hidden \/ \A e \in rows[s].edits : Before(c, k, e)
Asking(i) ==
    \A r \in request[i] :
        Replied(r) /\ \A c \in Clients : conn[c] = r.peer => Captured(c, r) /\ Underway(c, r)

\* What the room finds on a stream, its client put there.
LEMMA UpStep ==
    ASSUME Types, [Next]_vars, NEW p \in Connections, NEW m \in Range(up'[p])
    PROVE  \/ m \in Range(up[p])
           \/ \E c \in Clients : \E item \in Range(sending[c]) :
                /\ conn[c] = p /\ item.conn = p /\ item.type = m.type
                /\ m.type = "snapshot" => m.id = item.id /\ m.edits = item.edits
<1> DEFINE Fine ==
           \/ m \in Range(up[p])
           \/ \E c \in Clients : \E item \in Range(sending[c]) :
                /\ conn[c] = p /\ item.conn = p /\ item.type = m.type
                /\ m.type = "snapshot" => m.id = item.id /\ m.edits = item.edits
<1> SUFFICES Fine
  OBVIOUS
<1>1. CASE Range(up'[p]) \subseteq Range(up[p])
  BY <1>1
<1>2. ASSUME NEW c \in Clients, ClientStep(c) PROVE Fine
  <2>1. CASE SendNext(c)
    <3>1. PICK item \in SendItem : item = Head(sending[c]) /\ item \in Range(sending[c])
      BY <2>1, ShorterQueue
    <3>2. CASE conn[c] # p \/ up' = up
      BY <2>1, <3>2, SentNext, <1>1
    <3>3. CASE conn[c] = p /\ up' # up
      <4>1. ASSUME NEW b \in Blobs, Range(up'[p]) = Range(up[p]) \cup {ClientUpdate(b)},
                   item.conn = p, item.type = "update"
            PROVE  Fine
        BY <3>1, <3>3, <4>1, RepliesOf
      <4>2. ASSUME NEW x \in UpMessage, Range(up'[p]) = Range(up[p]) \cup {x},
                   item.conn = p, item.type = "snapshot", x = SnapshotReply(item.id, item.edits)
            PROVE  Fine
        BY <3>1, <3>3, <4>2 DEF SnapshotReply
      <4> HIDE DEF Fine
      <4> QED
        BY Zenon, <2>1, <3>1, <3>3, <4>1, <4>2, SentNext
    <3> QED
      BY <3>2, <3>3
  <2>2. CASE ~SendNext(c)
    BY <1>2, <2>2, HandledBy, <1>1 DEF ClientStep, Edit, FlushFrame, Disconnect, streamVars
  <2> QED
    BY <2>1, <2>2
<1>3. ASSUME NEW c \in Clients, NEW i \in Instances, Connect(c, i) PROVE Fine
  BY <1>1, <1>3 DEF Connect, Welcome
<1>4. ASSUME NEW i \in Instances, RoomStep(i) PROVE Fine
  BY <1>1, <1>4, ShorterUp
<1>5. ASSUME NEW q \in Connections, MemberStep(q) PROVE Fine
  BY <1>1, <1>5, ShorterUp
<1>6. CASE (LateCommit /\ UNCHANGED <<providerVars, resumed>>) \/ UNCHANGED vars
  BY <1>1, <1>6 DEF LateCommit, vars, streamVars
<1> HIDE DEF Fine
<1> QED
  BY <1>2, <1>3, <1>4, <1>5, <1>6 DEF Next

\* What a client has queued it queued before, or now: an update, or its document as an answer.
LEMMA SendingStep ==
    ASSUME Types, [Next]_vars, NEW c \in Clients, NEW m \in Range(sending'[c])
    PROVE  \/ m \in Range(sending[c])
           \/ m.type = "update" /\ m.conn = conn[c]
           \/ /\ HandleNext(c) /\ Head(down[conn[c]]).type = "request"
              /\ m.type = "snapshot" /\ m.conn = conn[c] /\ m.id = Head(down[conn[c]]).id
              /\ m.edits = doc[c]
<1> DEFINE Fine ==
           \/ m \in Range(sending[c])
           \/ m.type = "update" /\ m.conn = conn[c]
           \/ /\ HandleNext(c) /\ Head(down[conn[c]]).type = "request"
              /\ m.type = "snapshot" /\ m.conn = conn[c] /\ m.id = Head(down[conn[c]]).id
              /\ m.edits = doc[c]
<1> SUFFICES Fine
  OBVIOUS
<1>1. CASE Range(sending'[c]) \subseteq Range(sending[c])
  BY <1>1
<1>2. ASSUME NEW d \in Clients, ClientStep(d), d # c PROVE Fine
  <2>1. CASE HandleNext(d)
    <3>1. sending'[c] = sending[c]
      BY Zenon, <1>2, <2>1, QueuedBy DEF Queued, Types, ClientTypes
    <3> QED
      BY <1>1, <3>1
  <2>2. CASE ~HandleNext(d)
    <3>1. sending'[c] = sending[c]
      BY <1>2, <2>2 DEF ClientStep, Edit, FlushFrame, SendNext, Disconnect, Types, ClientTypes
    <3> QED
      BY <1>1, <3>1
  <2> QED
    BY <2>1, <2>2
<1>3. CASE HandleNext(c)
  <2>1. conn[c] # NoConnection
    BY <1>3, HandledBy
  <2>2. PICK x \in DownMessage : x = Head(down[conn[c]])
    BY <1>3, HandledBy
  <2>3. CASE sending' = sending
    BY <1>1, <2>3
  <2>4. ASSUME x.edits \in SUBSET Written,
               sending' = [sending EXCEPT ![c] = Append(sending[c], Update(c, doc[c] \ x.edits))]
        PROVE  Fine
    <3>1. PICK u \in SendItem : u = Update(c, doc[c] \ x.edits) /\ u.type = "update" /\ u.conn = conn[c]
      BY ClientFields, <2>1, UpdateItem DEF Types
    <3>2. Range(sending'[c]) = Range(sending[c]) \cup {u}
      BY Zenon, <2>4, <3>1, LongerQueue
    <3> QED
      BY <3>1, <3>2
  <2>5. ASSUME x.type = "request", x.id \in Nat,
               sending' = [sending EXCEPT ![c] = Append(sending[c], Snapshot(c, x.id))]
        PROVE  Fine
    <3>1. PICK u \in SendItem : /\ u = Snapshot(c, x.id) /\ u.type = "snapshot" /\ u.conn = conn[c]
                                /\ u.id = x.id /\ u.edits = doc[c]
      BY <2>1, <2>5, UpdateItem DEF Types
    <3>2. Range(sending'[c]) = Range(sending[c]) \cup {u}
      BY Zenon, <2>5, <3>1, LongerQueue
    <3> QED
      BY <1>3, <2>2, <2>5, <3>1, <3>2
  <2> HIDE DEF Fine
  <2>6. Queued(c, x)
    BY <1>3, <2>2, QueuedBy
  <2> QED
    BY <2>3, <2>4, <2>5, <2>6 DEF Queued
<1>4. CASE FlushFrame(c)
  <2>1. PICK u \in SendItem : u = Update(c, pending[c]) /\ u.type = "update" /\ u.conn = conn[c]
    BY <1>4, ClientFields, UpdateItem DEF FlushFrame, Types
  <2>2. Range(sending'[c]) = Range(sending[c]) \cup {u}
    BY Zenon, <1>4, <2>1, LongerQueue DEF FlushFrame
  <2> QED
    BY <2>1, <2>2
<1>5. CASE SendNext(c)
  BY <1>1, <1>5, ShorterQueue
<1>6. ASSUME \/ \E e \in Edits : Edit(c, e)
             \/ Disconnect(c)
             \/ \E d \in Clients : \E i \in Instances : Connect(d, i)
             \/ \E i \in Instances : RoomStep(i)
             \/ \E p \in Connections : MemberStep(p)
             \/ LateCommit /\ UNCHANGED <<providerVars, resumed>>
             \/ UNCHANGED vars
      PROVE  sending' = sending
  BY <1>6 DEF Edit, Disconnect, Connect, RoomStep, MemberStep, providerVars, vars
<1> HIDE DEF Fine
<1> QED
  BY <1>1, <1>2, <1>3, <1>4, <1>5, <1>6 DEF Next, ClientStep

\* A new question has a new number.
LEMMA QuestionStep ==
    ASSUME Types, Members, [Next]_vars, NEW p \in Connections, NEW m \in Range(down'[p]), m.type = "request"
    PROVE  \/ m \in Range(down[p])
           \/ m.id = asked + 1 /\ \E i \in Instances : AskClient(i)
<1> DEFINE Fine ==
           \/ m \in Range(down[p])
           \/ m.id = asked + 1 /\ \E i \in Instances : AskClient(i)
<1> SUFFICES Fine
  OBVIOUS
<1>1. CASE Range(down'[p]) \subseteq Range(down[p])
  BY <1>1
<1>2. ASSUME NEW c \in Clients, ClientStep(c) PROVE Fine
  <2>1. CASE HandleNext(c)
    BY <1>1, <2>1, ShorterDown
  <2>2. CASE Disconnect(c)
    BY <2>2, <1>1, RangeOfNone DEF Disconnect, Types, DownTypes
  <2>3. CASE ~HandleNext(c) /\ ~Disconnect(c)
    BY <1>2, <2>3, <1>1 DEF ClientStep, Edit, FlushFrame, SendNext, streamVars
  <2> QED
    BY <2>1, <2>2, <2>3
<1>3. ASSUME NEW c \in Clients, NEW i \in Instances, Connect(c, i) PROVE Fine
  BY <1>3, WelcomedBy, ConnectedBy, <1>1
<1>4. ASSUME NEW i \in Instances, RoomStep(i), ~AskClient(i) PROVE Fine
  BY <1>4, RoomSends
<1>5. ASSUME NEW i \in Instances, AskClient(i) PROVE Fine
  <2>1. PICK start, new, peer, id : Asks(i, start, new, peer, id)
    BY <1>5, AskedClient
  <2>2. CASE MembersOf(i) # {}
    <3>1. id = asked + 1
      BY Zenon, <2>1, <2>2 DEF Asks
    <3>2. \/ m \in Range(down[p])
          \/ m.type = "update"
          \/ m.id = id
      BY <2>1, <2>2, AsksSends
    <3> QED
      BY <1>5, <3>1, <3>2
  <2>3. CASE MembersOf(i) = {}
    BY <2>1, <2>3, <1>1 DEF Asks
  <2> QED
    BY <2>2, <2>3
<1>6. ASSUME NEW q \in Connections, MemberStep(q) PROVE Fine
  BY <1>6, RoomSends DEF MemberStep, ReceiveUpdate, ReceiveSnapshot, RemoveMember, Types, RoomTypes
<1>7. CASE (LateCommit /\ UNCHANGED <<providerVars, resumed>>) \/ UNCHANGED vars
  BY <1>1, <1>7 DEF LateCommit, vars, streamVars
<1> HIDE DEF Fine
<1> QED
  BY <1>2, <1>3, <1>4, <1>5, <1>6, <1>7 DEF Next

\* A request is made where a client is asked, and otherwise only given up.
LEMMA RequestStep ==
    ASSUME Types, [Next]_vars, NEW i \in Instances, NEW r \in request'[i]
    PROVE  r \in request[i] \/ (AskClient(i) /\ UNCHANGED providerVars)
<1> DEFINE Fine == r \in request[i] \/ (AskClient(i) /\ UNCHANGED providerVars)
<1> SUFFICES Fine
  OBVIOUS
<1>1. ASSUME NEW j \in Instances, RoomStep(j) PROVE Fine
  <2>1. CASE j # i
    BY <1>1, <2>1, RoomsApart DEF SameRoom
  <2>2. CASE Crash(i) \/ RequestTimesOut(i)
    BY <2>2 DEF Crash, RequestTimesOut, Types, SnapshotTypes
  <2>4. CASE j = i /\ AskClient(i)
    BY <1>1, <2>4 DEF RoomStep
  <2>3. CASE j = i /\ ~AskClient(i) /\ ~(Crash(i) \/ RequestTimesOut(i))
    <3>1. request' = request
      BY <1>1, <2>3, Zenon DEF RoomStep, LoadSnapshot, LoadUpdates, AskLease, FinishLoading, Flush,
     AppendCommits, AppendReturns, AppendFails, TakeLease, CatchUp, CatchUpFails, RequestSnapshot,
     AskFails, RequestTimesOut, InstallCommits, InstallReturns, InstallFails, HandleEntries,
     HandleSyncRequest, HandlePersistedVector, LoseBus, RegainBus, Resync, snapshotVars
    <3> QED
      BY <3>1
  <2> QED
    BY <2>1, <2>2, <2>3, <2>4
<1>2. ASSUME NEW p \in Connections, MemberStep(p) PROVE Fine
  BY <1>2 DEF MemberStep, ReceiveUpdate, ReceiveSnapshot, RemoveMember, snapshotVars, Types,
     SnapshotTypes
<1>3. ASSUME \/ \E c \in Clients : ClientStep(c) \/ \E k \in Instances : Connect(c, k)
             \/ LateCommit
             \/ UNCHANGED vars
      PROVE  Fine
  BY <1>3, RoomsKept DEF SameRoom
<1> HIDE DEF Fine
<1> QED
  BY <1>1, <1>2, <1>3 DEF Next

\* While a request is open, its client keeps its connection, if it still has it.
LEMMA PeerStep ==
    ASSUME Types, Members, [Next]_vars, NEW p \in Connections, p <= opened, NEW c \in Clients, conn'[c] = p
    PROVE  conn[c] = p
BY ConnectedBy, OpenedOf, ConnStep

LEMMA RepliedStep ==
    ASSUME Types, Types', Numbered, [Next]_vars, NEW i \in Instances, NEW r \in request[i],
           r.upto \in Nat, Replied(r),
           \A c \in Clients : conn[c] = r.peer => Captured(c, r)
    PROVE  Replied(r)'
<1> SUFFICES ASSUME NEW m \in Range(up'[r.peer]), m.type = "snapshot", m.id = r.id
             PROVE  Covers(r.upto, m.edits)'
  BY DEF Replied
<1>1. r.peer \in Connections
  BY SnapshotFields
<1>2. Covers(r.upto, m.edits)
  BY <1>1, UpStep DEF Replied, Captured
<1>3. PICK u, d : u \in Nat /\ u = r.upto /\ d = m.edits
  OBVIOUS
<1>4. Covers(u, d)'
  BY <1>2, <1>3, GrownBy, CoversKept
<1> QED
  BY <1>3, <1>4

LEMMA CapturedStep ==
    ASSUME Types, Types', Members, Logs, [Next]_vars, NEW i \in Instances, NEW r \in request[i],
           r.upto \in Nat, r.upto <= Len(rows), NEW c \in Clients, conn[c] = r.peer,
           Captured(c, r), Underway(c, r)
    PROVE  Captured(c, r)'
<1> SUFFICES ASSUME NEW m \in Range(sending'[c]), m.type = "snapshot", m.conn = r.peer, m.id = r.id
             PROVE  Covers(r.upto, m.edits)'
  BY DEF Captured
<1>2. Covers(r.upto, m.edits)
  <2>1. CASE m \in Range(sending[c])
    BY <2>1 DEF Captured
  <2>2. ASSUME HandleNext(c), Head(down[conn[c]]).type = "request", m.id = Head(down[conn[c]]).id,
               m.edits = doc[c]
        PROVE  Covers(r.upto, m.edits)
    <3>1. /\ down[r.peer] \in Seq(DownMessage) /\ down[r.peer] # <<>>
      BY <2>2, HandledBy
    <3>2. 1 \in DOMAIN down[r.peer] /\ Head(down[r.peer]) = down[r.peer][1]
          /\ \A j \in DOMAIN down[r.peer] : ~(j < 1)
      BY <3>1, TailOf
    <3>3. \A s \in 1..r.upto : rows[s] \in hidden \/ \A e \in rows[s].edits : Before(c, 1, e)
      BY <2>2, <3>2 DEF Underway
    <3>4. \A s \in 1..r.upto : rows[s] \in hidden \/ \A e \in rows[s].edits : e \in doc[c]
      BY <3>2, <3>3 DEF Before
    <3> QED
      BY <2>2, <3>4 DEF Covers
  <2> QED
    BY <2>1, <2>2, SendingStep
<1>3. PICK u, d : u \in Nat /\ u = r.upto /\ d = m.edits
  OBVIOUS
<1>4. Covers(u, d)'
  BY <1>2, <1>3, GrownBy, CoversKept
<1> QED
  BY <1>3, <1>4

LEMMA UnderwayStep ==
    ASSUME Types, Types', Members, Numbered, Logs, [Next]_vars, NEW i \in Instances, NEW r \in request[i],
           r.upto \in Nat, r.upto <= Len(rows), NEW c \in Clients, conn[c] = r.peer, conn'[c] = r.peer,
           Underway(c, r)
    PROVE  Underway(c, r)'
<1>0. /\ r.peer \in Connections /\ r.peer # NoConnection /\ r.id \in Nat /\ r.id <= asked /\ asked \in Nat
      /\ down[r.peer] \in Seq(DownMessage) /\ DOMAIN down[r.peer] = 1..Len(down[r.peer])
      /\ Len(down[r.peer]) \in Nat
  BY SnapshotFields, DownOf, OpenedOf, ElementsOf DEF Numbered, Types, SnapshotTypes
<1>1. /\ down'[r.peer] \in Seq(DownMessage) /\ DOMAIN down'[r.peer] = 1..Len(down'[r.peer])
      /\ Len(down'[r.peer]) \in Nat
  BY <1>0, ElementsOf DEF Types, DownTypes
<1>2. hidden \subseteq hidden' /\ \A s \in 1..r.upto : rows'[s] = rows[s]
  BY NumbersOf, GrownBy DEF Grown
<1>3. doc[c] \subseteq doc'[c]
  BY DocStep
<1> SUFFICES ASSUME NEW k \in DOMAIN down'[r.peer],
                    down'[r.peer][k].type = "request", down'[r.peer][k].id = r.id,
                    NEW s \in 1..r.upto, rows[s] \notin hidden, NEW e \in rows[s].edits, e \notin doc'[c]
             PROVE  \E j \in DOMAIN down'[r.peer] : j < k /\ e \in Shown(down'[r.peer][j])
  BY <1>2 DEF Underway, Before
<1>4. CASE HandleNext(c)
  <2>1. /\ down[r.peer] # <<>> /\ down'[r.peer] = Tail(down[r.peer])
        /\ doc'[c] = doc[c] \cup Shown(Head(down[r.peer]))
    <3>1. PICK m : m = Head(down[r.peer]) /\ doc' = [doc EXCEPT ![c] = doc[c] \cup Shown(m)]
      BY <1>4, HandledBy
    <3>2. doc'[c] = doc[c] \cup Shown(m)
      BY <3>1 DEF Types, ClientTypes
    <3>3. down[r.peer] # <<>>
      BY <1>4, HandledBy
    <3>4. down'[r.peer] = Tail(down[r.peer])
      BY <1>4, ShorterDown
    <3> QED
      BY <3>1, <3>2, <3>3, <3>4
  <2>2. PICK q \in Seq(DownMessage) : q = down[r.peer] /\ q # <<>>
    BY Zenon, <1>0, <2>1
  <2>a. /\ Tail(q) \in Seq(DownMessage) /\ Len(q) \in Nat
        /\ Head(q) = q[1] /\ DOMAIN q = 1..Len(q) /\ DOMAIN Tail(q) = 1..(Len(q) - 1)
        /\ \A j \in DOMAIN Tail(q) : j + 1 \in DOMAIN q /\ Tail(q)[j] = q[j + 1]
    BY <2>2, TailOf
  <2>b. PICK t \in Seq(DownMessage) : t = Tail(q)
    BY Zenon, <2>a
  <2>c. PICK n \in Nat : n = Len(q)
    BY <2>a, Zenon
  <2>3. /\ t = Tail(q) /\ Head(q) = q[1] /\ DOMAIN q = 1..n /\ DOMAIN t = 1..(n - 1)
        /\ \A j \in DOMAIN t : j + 1 \in DOMAIN q /\ t[j] = q[j + 1]
    BY <2>a, <2>b, <2>c
  <2>4. down'[r.peer] = t
    BY <2>1, <2>2, <2>3
  <2>5. k \in DOMAIN t /\ k \in Nat /\ k + 1 \in DOMAIN q /\ q[k + 1] = t[k]
    BY <2>3, <2>4
  <2>6. PICK j \in DOMAIN q : j < k + 1 /\ e \in Shown(q[j])
    BY <2>2, <2>4, <2>5, <1>3 DEF Underway, Before
  <2>7. j # 1
    BY <2>1, <2>2, <2>3, <2>6
  <2>8. j - 1 \in DOMAIN t /\ j - 1 < k /\ (j - 1) + 1 = j
    BY <2>3, <2>5, <2>6, <2>7
  <2>9. t[j - 1] = q[j]
    BY <2>3, <2>8
  <2> QED
    BY <2>4, <2>6, <2>8, <2>9
<1>5. CASE Longer(down[r.peer], down'[r.peer])
  <2>1. PICK n \in DOMAIN down[r.peer] :
            n <= k /\ down[r.peer][n].type = "request" /\ down[r.peer][n].id = r.id
    <3>1. CASE k \in DOMAIN down[r.peer]
      BY <1>0, <1>5, <3>1 DEF Longer
    <3>2. CASE k \notin DOMAIN down[r.peer]
      <4>1. down'[r.peer][k] \in Range(down'[r.peer])
        BY <1>1, ElementsOf
      <4>2. down'[r.peer][k].id # asked + 1
        BY <1>0
      <4>3. down'[r.peer][k] \in Range(down[r.peer])
        BY Zenon, <1>0, <4>1, <4>2, QuestionStep
      <4>4. PICK n \in DOMAIN down[r.peer] : down[r.peer][n] = down'[r.peer][k]
        BY <4>3 DEF Range
      <4>5. n <= k
        BY <1>0, <1>1, <3>2, <4>4
      <4> QED
        BY <4>4, <4>5
    <3> QED
      BY <3>1, <3>2
  <2>2. PICK j \in DOMAIN down[r.peer] : j < n /\ e \in Shown(down[r.peer][j])
    BY <1>3, <2>1 DEF Underway, Before
  <2>3. j \in DOMAIN down'[r.peer] /\ down'[r.peer][j] = down[r.peer][j]
    BY <1>5, <2>2 DEF Longer
  <2>4. j < k
    BY <1>0, <1>1, <2>1, <2>2
  <2> QED
    BY <2>2, <2>3, <2>4
<1> QED
  BY <1>0, <1>4, <1>5, StreamStep

\* A new request has a number of its own.
LEMMA NewRequest ==
    ASSUME Types, NEW i \in Instances, AskClient(i), NEW r \in request'[i], r \notin request[i]
    PROVE  \E start, new, p :
            /\ Asks(i, start, new, p, asked + 1) /\ MembersOf(i) # {} /\ p \in MembersOf(i)
            /\ r.id = asked + 1 /\ r.upto = start.upto /\ r.peer = p /\ asked \in Nat
            /\ r.peer \in Connections
<1>1. PICK start, new, p, id : Asks(i, start, new, p, id)
  BY AskedClient
<1>2. request'[i] # request[i]
  OBVIOUS
<1>3. MembersOf(i) # {} /\ p \in MembersOf(i) /\ id = asked + 1
      /\ request' = [request EXCEPT ![i] = {[id |-> id, upto |-> start.upto, peer |-> p]}]
  BY Zenon, <1>1, <1>2 DEF Asks
<1>4. r = [id |-> id, upto |-> start.upto, peer |-> p]
  BY <1>3 DEF Types, SnapshotTypes
<1>5. p \in Connections /\ asked \in Nat
  BY <1>3 DEF MembersOf, Types, StreamTypes, SnapshotTypes
<1> QED
  BY <1>1, <1>3, <1>4, <1>5

\* A client is asked for what it has been sent by then.
LEMMA AskedFor ==
    ASSUME Types, Members, Numbered, Logs, NEW i \in Instances, AskClient(i), UNCHANGED providerVars,
           \A c \in Clients : Showing(c),
           NEW r \in request'[i], r \notin request[i], NEW c \in Clients, conn[c] = r.peer
    PROVE  Underway(c, r)'
<1>1. PICK start, new, p :
        /\ Asks(i, start, new, p, asked + 1) /\ MembersOf(i) # {} /\ p \in MembersOf(i)
        /\ r.id = asked + 1 /\ r.upto = start.upto /\ r.peer = p /\ asked \in Nat
        /\ r.peer \in Connections
  BY NewRequest
<1>6. /\ p \in Connections /\ p \in member /\ home[p] = i /\ p \in reading
  BY <1>1, OpenedOf DEF MembersOf, Members, Types, StreamTypes
<1>7. /\ start \in starting[i] /\ start.upto \in Nat /\ start.covered \in Nat
      /\ \A s \in DOMAIN rows : s <= start.covered => s <= log[i].upto \/ rows[s] \in hidden
      /\ start.upto <= Len(rows)
      /\ Len(rows) \in Nat /\ DOMAIN rows = 1..Len(rows) /\ log[i].upto \in Nat
  BY <1>1, NumbersOf, SnapshotFields DEF Asks, Logs, LogOf, Promised, PromisedStart
<1>8. /\ \A b \in log[i].known : b \in hidden \/ \A e \in b.edits : Sees(c, e)
      /\ \A s \in 1..log[i].upto : rows[s] \in hidden \/ \A e \in rows[s].edits : Sees(c, e)
  BY <1>1, <1>6 DEF Showing
<1>9. UNCHANGED <<rows, hidden, conn, doc>>
  BY AskedClient DEF databaseVars, providerVars
<1>10. /\ Longer(down[p], down'[p])
       /\ \A k \in DOMAIN down'[p] : down'[p][k].type = "request" =>
            \/ k \in DOMAIN down[p]
            \/ /\ \A j \in DOMAIN down[p] : j < k
               /\ \A e \in Range(new) :
                    \E j \in DOMAIN down'[p] : j < k /\ Shown(down'[p][j]) = e.blob.edits
  BY <1>1, <1>6, AsksSends
<1>11. \A s \in DOMAIN rows : start.covered < s /\ s <= start.upto =>
            \/ rows[s] \in log[i].known
            \/ \E e \in Range(new) : e.blob = rows[s]
  BY <1>1 DEF Asks
<1> SUFFICES ASSUME NEW k \in DOMAIN down'[p],
                    down'[p][k].type = "request", down'[p][k].id = r.id,
                    NEW s \in 1..start.upto, rows[s] \notin hidden, NEW e \in rows[s].edits, e \notin doc[c]
             PROVE  \E j \in DOMAIN down'[p] : j < k /\ e \in Shown(down'[p][j])
  BY <1>1, <1>9 DEF Underway, Before
<1>12. k \notin DOMAIN down[p]
  BY <1>6, <1>10, DownOf, ElementsOf, <1>1 DEF Longer, Numbered
<1>13. CASE Sees(c, e)
  BY <1>1, <1>13, <1>10, <1>12 DEF Sees, Range, Longer
<1>14. CASE ~Sees(c, e)
  BY <1>7, <1>8, <1>14, <1>11, <1>10, <1>12
<1> QED
  BY <1>13, <1>14

LEMMA AskingStep ==
    ASSUME Types, Types', Members, Numbered, Logs, [Next]_vars, \A c \in Clients : Showing(c),
           NEW i \in Instances, Asking(i)
    PROVE  Asking(i)'
<1> SUFFICES ASSUME NEW r \in request'[i]
             PROVE  /\ Replied(r)'
                    /\ \A c \in Clients : conn'[c] = r.peer => Captured(c, r)' /\ Underway(c, r)'
  BY DEF Asking
<1>1. CASE r \in request[i]
  BY <1>1, SnapshotFields, RepliedStep, PeerStep, CapturedStep, UnderwayStep DEF Asking, Logs,
     LogOf, Promised, Held, Numbered, Members
<1>2. CASE r \notin request[i]
  BY <1>2, RequestStep, AskedClient, NewRequest, AskedFor DEF providerVars, Replied, Numbered,
     Captured
<1> QED
  BY <1>1, <1>2

-----------------------------------------------------------------------------
(* What a step may do to a log. *)

\* Where a new entry comes from: the rows, the bus or a member.
Arrived(i, e) ==
    \/ e.ack = 0
    \/ \E m \in Range(inbox[i]) : m.kind = "entries" /\ e \in Range(m.entries)
    \/ \E p \in Connections :
        /\ ReceiveUpdate(p) /\ home[p] = i
        /\ e.blob = Head(up[p]).blob /\ e.ack = Head(up[p]).blob.n

Gains(i) ==
    \E new \in Seq(EntryRecord) :
        Extends(log[i], new, log'[i]) /\ \A e \in Range(new) : Arrived(i, e)

LEMMA LogStep ==
    ASSUME Types, [Next]_vars, NEW i \in Instances
    PROVE  \/ log'[i] = log[i]
           \/ Gains(i)
           \/ Renumbers(log[i], log'[i])
           \/ InstallReturns(i) /\ \E s : Returns(i, s)
           \/ LoadSnapshot(i) /\ log'[i] = [log[i] EXCEPT !.upto = snapUpto, !.snapshot = snapState]
           \/ Crash(i) /\ log'[i] = EmptyLog
<1> DEFINE Fine ==
           \/ log'[i] = log[i]
           \/ Gains(i)
           \/ Renumbers(log[i], log'[i])
           \/ InstallReturns(i) /\ \E s : Returns(i, s)
           \/ LoadSnapshot(i) /\ log'[i] = [log[i] EXCEPT !.upto = snapUpto, !.snapshot = snapState]
           \/ Crash(i) /\ log'[i] = EmptyLog
<1> SUFFICES Fine
  OBVIOUS
<1>0. log[i] \in LogRecord /\ log \in [Instances -> LogRecord] /\ rows \in Seq(Blobs)
  BY RoomFields DEF Types, LogTypes
<1>1. ASSUME NEW q \in Connections, home[q] = i, ReceiveUpdate(q) PROVE log'[i] = log[i] \/ Gains(i)
  <2>1. PICK x \in Blobs : x = Head(up[q]).blob /\ x.n \in Nat
    BY <1>1, ReceivedUpdate, BlobFields
  <2>2. CASE log' = log
    BY <2>2
  <2>3. CASE log' # log
    <3>1. PICK new \in Seq(EntryRecord) : new = <<Entry(x, x.n, 0)>> /\ Adds(i, new, q)
      BY Zenon, <1>1, <2>1, <2>3, ReceivedUpdate
    <3>2. PICK e \in EntryRecord : e = Entry(x, x.n, 0) /\ e.blob = x /\ e.ack = x.n
      BY <2>1, EntryOf
    <3>3. Range(new) = {e}
      BY <3>1, <3>2, RangeOfOne
    <3>4. Extends(log[i], new, log'[i])
      BY <3>1 DEF Adds
    <3>5. Arrived(i, e)
      BY <1>1, <2>1, <3>2 DEF Arrived
    <3> QED
      BY <3>3, <3>4, <3>5 DEF Gains
  <2> QED
    BY <2>2, <2>3
<1>2. CASE HandleEntries(i)
  <2>1. PICK new \in Seq(EntryRecord) :
            Range(new) \subseteq Range(Head(inbox[i]).entries) /\ Adds(i, new, NoConnection)
    BY Zenon, <1>2, HandledEntries
  <2>2. Extends(log[i], new, log'[i])
    BY <2>1 DEF Adds
  <2>3. Head(inbox[i]) \in Range(inbox[i]) /\ Head(inbox[i]).kind = "entries"
    BY <1>2, HandledEntries, RangeOfRest
  <2>4. \A e \in Range(new) : Arrived(i, e)
    BY <2>1, <2>3 DEF Arrived
  <2> QED
    BY <2>2, <2>4 DEF Gains
<1>3. CASE AskClient(i)
  <2>1. PICK start, new, q, id : Asks(i, start, new, q, id)
    BY <1>3, AskedClient
  <2>2. /\ new \in Seq(EntryRecord) /\ Extends(log[i], new, log'[i])
        /\ \A e \in Range(new) : e.ack = 0
    BY <2>1 DEF Asks
  <2> QED
    BY <2>2 DEF Gains, Arrived
<1>4. CASE LoadUpdates(i)
  <2>1. PICK live : live = {s \in DOMAIN rows : s > snapUpto /\ s > log[i].upto}
    BY Zenon
  <2>2. log'[i] = Loaded(log[i], rows, live) /\ live \in SUBSET DOMAIN rows
    BY <1>0, <1>4, <2>1 DEF LoadUpdates
  <2>3. PICK new \in Seq(EntryRecord) : new = RowEntries(log[i], rows, live)
    BY <1>0, <2>2, LoadedOf
  <2>4. Extends(log[i], new, log'[i])
    BY <1>0, <2>2, <2>3, LoadedOf
  <2>5. \A e \in Range(new) : e.ack = 0
    BY <1>0, <2>2, <2>3, RowEntriesOf
  <2> QED
    BY <2>4, <2>5 DEF Gains, Arrived
<1>5. CASE CatchUp(i)
  BY Zenon, <1>5, CaughtUp
<1>6. CASE AppendReturns(i)
  <2>1. PICK c \in Seq(Blobs) : c = batch[i]
    BY RoomFields
  <2>2. PICK f \in Nat : f = firstSeq[i] /\ f # 0
    BY Zenon, <1>6, RoomFields, ReturnedAppend
  <2>3. PICK l \in LogRecord : l = log[i]
    BY <1>0
  <2>4. Renumbers(l, Committed(l, c, f))
    BY <2>2, CommittedOf
  <2> QED
    BY Zenon, <1>6, <2>1, <2>2, <2>3, <2>4, ReturnedAppend
<1>7. CASE InstallReturns(i)
  BY <1>7, InstallReturned
<1>8. CASE LoadSnapshot(i)
  BY <1>0, <1>8 DEF LoadSnapshot
<1>9. CASE Crash(i)
  BY <1>0, <1>9 DEF Crash
<1>10. ASSUME RoomStep(i), ~(HandleEntries(i) \/ AskClient(i) \/ LoadUpdates(i) \/ CatchUp(i)
              \/ AppendReturns(i) \/ InstallReturns(i) \/ LoadSnapshot(i) \/ Crash(i))
       PROVE  log' = log
  BY <1>10, Zenon DEF RoomStep, AskLease, FinishLoading, Flush, AppendCommits, AppendFails,
     TakeLease, CatchUpFails, RequestSnapshot, AskFails, RequestTimesOut, InstallFails, InstallCommits,
     HandleSyncRequest, HandlePersistedVector, LoseBus, RegainBus, Resync
<1>11. ASSUME NEW q \in Connections, home[q] = i, ReceiveSnapshot(q) \/ RemoveMember(q)
       PROVE  log' = log
  BY <1>11 DEF ReceiveSnapshot, RemoveMember
<1>12. CASE ~RoomStep(i) /\ \A q \in Connections : home[q] = i => ~MemberStep(q)
  BY <1>12, OtherLogs
<1>13. CASE RoomStep(i)
  BY <1>2, <1>3, <1>4, <1>5, <1>6, <1>7, <1>8, <1>9, <1>10, <1>13
<1>14. ASSUME NEW q \in Connections, home[q] = i, MemberStep(q) PROVE Fine
  BY <1>1, <1>11, <1>14 DEF MemberStep
<1> HIDE DEF Fine
<1> QED
  BY <1>12, <1>13, <1>14

\* A snapshot that is installed was received: an answer to an open request.
LEMMA InstallingStep ==
    ASSUME Types, [Next]_vars, NEW i \in Instances, NEW s \in installing'[i]
    PROVE  \/ \E t \in installing[i] :
                /\ s.upto = t.upto /\ s.edits = t.edits
                /\ s.done => t.done \/ snapState' = s.edits
           \/ /\ ~s.done
              /\ \E p \in Connections : \E r \in request[i] : \E reply \in Range(up[p]) :
                    /\ r.peer = p /\ reply.type = "snapshot" /\ reply.id = r.id
                    /\ s.upto = r.upto /\ s.edits = reply.edits
<1> DEFINE Fine ==
           \/ \E t \in installing[i] :
                /\ s.upto = t.upto /\ s.edits = t.edits
                /\ s.done => t.done \/ snapState' = s.edits
           \/ /\ ~s.done
              /\ \E p \in Connections : \E r \in request[i] : \E reply \in Range(up[p]) :
                    /\ r.peer = p /\ reply.type = "snapshot" /\ reply.id = r.id
                    /\ s.upto = r.upto /\ s.edits = reply.edits
<1> SUFFICES Fine
  OBVIOUS
<1>1. CASE installing'[i] \subseteq installing[i]
  BY <1>1
<1>2. ASSUME NEW j \in Instances, RoomStep(j) PROVE Fine
  <2>1. CASE j # i
    BY <1>1, <1>2, <2>1, RoomsApart DEF SameRoom
  <2>2. CASE InstallReturns(i) \/ InstallFails(i)
    BY <1>1, <2>2, InstallReturned, InstallFailed
  <2>3. CASE InstallCommits(i)
    <3>1. PICK h : Commits(i, h)
      BY <2>3, InstallCommitted
    <3> QED
      BY <3>1 DEF Commits
  <2>4. CASE Crash(i)
    BY <2>4, <1>1 DEF Crash, Types, SnapshotTypes
  <2>5. CASE j = i /\ ~(InstallReturns(i) \/ InstallFails(i) \/ InstallCommits(i) \/ Crash(i))
    <3>1. installing' = installing
      BY <1>2, <2>5, Zenon DEF RoomStep, LoadSnapshot, LoadUpdates, AskLease, FinishLoading, Flush,
     AppendCommits, AppendReturns, AppendFails, TakeLease, CatchUp, CatchUpFails, RequestSnapshot,
     AskClient, AskFails, RequestTimesOut, InstallFails, HandleEntries,
     HandleSyncRequest, HandlePersistedVector, LoseBus, RegainBus, Resync, snapshotVars
    <3> QED
      BY <1>1, <3>1
  <2> QED
    BY <2>1, <2>2, <2>3, <2>4, <2>5
<1>3. ASSUME NEW p \in Connections, ReceiveSnapshot(p) PROVE Fine
  BY <1>1, <1>3, ReceivedSnapshot
<1>4. ASSUME NEW p \in Connections, ReceiveUpdate(p) \/ RemoveMember(p) PROVE Fine
  BY <1>4, <1>1 DEF ReceiveUpdate, RemoveMember, snapshotVars
<1>5. ASSUME \/ \E c \in Clients : ClientStep(c) \/ \E k \in Instances : Connect(c, k)
             \/ LateCommit
             \/ UNCHANGED vars
      PROVE  Fine
  BY <1>1, <1>5, RoomsKept DEF SameRoom
<1> HIDE DEF Fine
<1> QED
  BY <1>2, <1>3, <1>4, <1>5 DEF Next, MemberStep

\* The snapshot is replaced by one that was received.
LEMMA SnapStep ==
    ASSUME Types, [Next]_vars
    PROVE  \/ UNCHANGED <<snapUpto, snapState, forgotten>>
           \/ \E i \in Instances : \E t \in installing[i] :
                /\ snapUpto' = t.upto /\ snapState' = t.edits /\ t.upto <= Len(rows)
                /\ forgotten' = forgotten \cup (snapState \ (t.edits \cup Plain(Range(rows))))
                /\ rows' = rows
<1> DEFINE Fine ==
           \/ UNCHANGED <<snapUpto, snapState, forgotten>>
           \/ \E i \in Instances : \E t \in installing[i] :
                /\ snapUpto' = t.upto /\ snapState' = t.edits /\ t.upto <= Len(rows)
                /\ forgotten' = forgotten \cup (snapState \ (t.edits \cup Plain(Range(rows))))
                /\ rows' = rows
<1> SUFFICES Fine
  OBVIOUS
<1>1. ASSUME NEW i \in Instances, InstallCommits(i) PROVE Fine
  <2>1. PICK h : Commits(i, h)
    BY <1>1, InstallCommitted
  <2> QED
    BY <1>1, <2>1, InstallCommitted DEF Commits
<1>2. ASSUME NEW i \in Instances, RoomStep(i), ~InstallCommits(i) PROVE Fine
  BY <1>2, Zenon DEF RoomStep, LoadSnapshot, LoadUpdates, AskLease, FinishLoading, Flush,
     AppendCommits, AppendReturns, AppendFails, TakeLease, CatchUp, CatchUpFails, RequestSnapshot,
     AskClient, AskFails, RequestTimesOut, InstallFails, InstallReturns, HandleEntries,
     HandleSyncRequest, HandlePersistedVector, LoseBus, RegainBus, Resync, Crash, databaseVars
<1>3. ASSUME NEW p \in Connections, MemberStep(p) PROVE Fine
  BY <1>3 DEF MemberStep, ReceiveUpdate, ReceiveSnapshot, RemoveMember, databaseVars
<1>4. ASSUME NEW c \in Clients, ClientStep(c) PROVE Fine
  BY <1>4 DEF ClientStep, roomVars, databaseVars
<1>5. ASSUME NEW c \in Clients, NEW i \in Instances, Connect(c, i) PROVE Fine
  BY <1>5 DEF Connect, Welcome, databaseVars
<1>6. CASE LateCommit \/ UNCHANGED vars
  BY <1>6 DEF LateCommit, vars, roomVars, databaseVars
<1> HIDE DEF Fine
<1> QED
  BY <1>1, <1>2, <1>3, <1>4, <1>5, <1>6 DEF Next

Installable(i) == \A s \in installing[i] : Covers(s.upto, s.edits)
Snapshotted(i) == Covers(log[i].upto, log[i].snapshot)
Explained(i) ==
    \A b \in log[i].known :
        \/ \E e \in Range(log[i].entries) : e.blob = b
        \/ \E s \in 1..log[i].upto : rows[s] = b
        \/ b \in hidden

LEMMA CoveringParts ==
    ASSUME NEW i \in Instances
    PROVE  Covering(i) <=> Snapshotted(i) /\ Installable(i) /\ Explained(i)
  BY DEF Covering, Snapshotted, Installable, Explained

LEMMA InstallableStep ==
    ASSUME Types, Types', [Next]_vars, NEW i \in Instances, Installable(i), Asking(i)
    PROVE  Installable(i)'
BY InstallingStep, SnapshotFields, GrownBy, CoversKept DEF Installable, Asking, Replied

LEMMA SnapshottedStep ==
    ASSUME Types, Types', [Next]_vars, NEW i \in Instances, Snapshotted(i), Installable(i),
           Covers(snapUpto, snapState)
    PROVE  Snapshotted(i)'
<1>0. log[i] \in LogRecord /\ log[i].upto \in Nat /\ snapUpto \in Nat /\ log'[i] \in LogRecord
  BY NumbersOf, RoomFields DEF Types, LogTypes
<1>1. ASSUME NEW u \in Nat, NEW d, log'[i].upto = u, log'[i].snapshot = d, Covers(u, d)
      PROVE  Snapshotted(i)'
  BY <1>1, GrownBy, CoversKept DEF Snapshotted
<1>2. CASE log'[i].upto = log[i].upto /\ log'[i].snapshot = log[i].snapshot
  BY <1>0, <1>1, <1>2 DEF Snapshotted
<1>3. CASE Gains(i)
  BY <1>2, <1>3 DEF Gains, Extends
<1>4. CASE Renumbers(log[i], log'[i])
  BY <1>2, <1>4 DEF Renumbers
<1>5. CASE \E s : Returns(i, s)
  BY <1>1, <1>5, ReturnedOf DEF Returns, Installable
<1>6. CASE log'[i] = [log[i] EXCEPT !.upto = snapUpto, !.snapshot = snapState]
  BY <1>0, <1>6, <1>1 DEF LogRecord
<1>7. CASE log'[i] = EmptyLog
  <2>1. log'[i].upto = 0 /\ log'[i].snapshot = {}
    BY <1>7 DEF EmptyLog
  <2>2. Covers(0, {})
    BY RoomFields DEF Covers
  <2> QED
    BY <1>1, <2>1, <2>2
<1>8. CASE log'[i] = log[i]
  BY <1>2, <1>8
<1> QED
  BY <1>3, <1>4, <1>5, <1>6, <1>7, <1>8, LogStep, Zenon

LEMMA ExplainedStep ==
    ASSUME Types, Types', [Next]_vars, NEW i \in Instances, Explained(i), LogOf(i), snapUpto <= Len(rows)
    PROVE  Explained(i)'
<1>0. /\ log[i] \in LogRecord /\ log[i].upto \in Nat /\ log'[i].upto \in Nat /\ DOMAIN rows = 1..Len(rows)
      /\ log[i].upto <= Len(rows) /\ Len(rows) \in Nat
      /\ \A s \in DOMAIN rows : rows'[s] = rows[s]
      /\ hidden \subseteq hidden'
  BY LogFields, NumbersOf, RoomFields, GrownBy DEF Types, LogTypes, LogOf, Seqs, Grown
\* Entries that stay, and rows that stay under the snapshot or go with it.
<1>1. ASSUME \A b \in log'[i].known :
                \/ b \in log[i].known
                \/ \E e \in Range(log'[i].entries) : e.blob = b,
             \A s \in DOMAIN rows : s <= log[i].upto => s <= log'[i].upto \/ rows[s] \in hidden',
             \A e \in Range(log[i].entries) :
                \/ \E f \in Range(log'[i].entries) : f.blob = e.blob
                \/ e.seq \in 1..log'[i].upto /\ e.seq \in DOMAIN rows /\ rows[e.seq] = e.blob
      PROVE  Explained(i)'
  BY <1>1, <1>0 DEF Explained
<1>2. CASE log'[i] = log[i]
  BY <1>0, <1>1, <1>2
<1>3. ASSUME NEW new \in Seq(EntryRecord), Extends(log[i], new, log'[i]) PROVE Explained(i)'
  <2>1. /\ Range(log'[i].entries) = Range(log[i].entries) \cup Range(new)
        /\ \A b \in log'[i].known : b \in log[i].known \/ \E e \in Range(new) : b = e.blob
    BY <1>0, <1>3, ExtendsContent
  <2>2. log'[i].upto = log[i].upto
    BY <1>3 DEF Extends
  <2> QED
    BY <1>0, <1>1, <2>1, <2>2
<1>4. CASE Renumbers(log[i], log'[i])
  BY <1>4, <1>0, <1>1 DEF Renumbers, Range
<1>5. CASE \E s : Returns(i, s)
  <2>1. PICK s : Returns(i, s) /\ s.upto \in Nat
    BY <1>5 DEF Returns
  <2>2. \A e \in Range(log[i].entries) : e.seq \in Nat /\ (e.seq # 0 => e.seq \in DOMAIN rows /\ rows[e.seq] = e.blob)
    BY <1>0, LogFields, ElementsOf, EntryFields DEF LogOf, Seqs
  <2>3. \A e \in Range(log[i].entries) :
            \/ e \in Range(log'[i].entries)
            \/ e.seq \in 1..s.upto /\ e.seq \in DOMAIN rows /\ rows[e.seq] = e.blob
    BY <2>1, <2>2, ReturnedOf
  <2>4. \A n \in DOMAIN rows : n <= log[i].upto => n <= s.upto \/ rows[n] \in hidden'
    BY <1>0, <2>1 DEF Returns, Hides
  <2> QED
    BY <1>1, <2>1, <2>3, <2>4, ReturnedOf
<1>6. CASE LoadSnapshot(i) /\ log'[i] = [log[i] EXCEPT !.upto = snapUpto, !.snapshot = snapState]
  BY <1>6, <1>0 DEF LoadSnapshot, LogOf, Asleep, LogRecord, Explained
<1>7. CASE log'[i] = EmptyLog
  BY <1>7 DEF EmptyLog, Explained
<1> QED
  BY <1>2, <1>3, <1>4, <1>5, <1>6, <1>7, LogStep, Zenon DEF Gains

LEMMA SnapshotStep ==
    ASSUME Types, Types', [Next]_vars, \A i \in Instances : Installable(i), Covers(snapUpto, snapState)
    PROVE  Covers(snapUpto, snapState)'
BY SnapStep, GrownBy, CoversKept DEF Types, DatabaseTypes, Installable

-----------------------------------------------------------------------------
(* The invariant behind SnapshotCoversUnlessHidden. *)

Shows ==
    /\ \A c \in Clients : Writing(c) /\ Showing(c)
    /\ \A i \in Instances : Covering(i) /\ Asking(i)
    /\ Covers(snapUpto, snapState)

Basis == Types /\ Members /\ Numbered /\ Logs

LEMMA BasisStep == Basis /\ [Next]_vars => Basis'
  BY TypesStep, MembersStep, NumberedStep, LogsStep DEF Basis

LEMMA BasisInit == Init => Basis
  BY TypesInit, MembersInit, NumberedInit, LogsInit DEF Basis

LEMMA ShowsInit == Init => Shows
BY TypesInit, RangeOfNone DEF Init, ProviderInit, RoomInit, Types, DatabaseTypes, Writing, Showing,
   Covers, EmptyLog, Covering, Asking, Shows

LEMMA ShowsStep == Basis /\ Shows /\ [Next]_vars => Shows'
<1> SUFFICES ASSUME Basis, Shows, [Next]_vars PROVE Shows'
  OBVIOUS
<1>1. Types /\ Types' /\ Members /\ Numbered /\ Logs /\ snapUpto <= Len(rows)
  BY TypesStep DEF Basis, Logs
<1>2. /\ \A c \in Clients : Writing(c) /\ Showing(c)
      /\ \A i \in Instances : Covering(i) /\ Asking(i)
      /\ Covers(snapUpto, snapState)
  BY DEF Shows
<1>3. ASSUME NEW c \in Clients PROVE Writing(c)' /\ Showing(c)'
  BY <1>1, <1>2, WritingStep, ShowingStep
<1>4. ASSUME NEW i \in Instances PROVE Covering(i)' /\ Asking(i)'
  BY <1>1, <1>2, CoveringParts, AskingStep, InstallableStep, SnapshottedStep, ExplainedStep DEF
     Logs, Covering, Snapshotted, Installable, Explained
<1>5. Covers(snapUpto, snapState)'
  BY <1>1, <1>2, CoveringParts, SnapshotStep
<1> QED
  BY <1>3, <1>4, <1>5 DEF Shows

\* Every variable of a private board keeps its type.
THEOREM PrivateBoardTypes == Spec => []Types
<1>1. Init => Types
  BY TypesInit
<1>2. Types /\ [Next]_vars => Types'
  BY TypesStep
<1> QED
  BY <1>1, <1>2, PTL DEF Spec

\* The latest snapshot holds every update it replaces, however many clients, instances,
\* connections, crashes and requests there are: a client's answer (encryptedProvider.ts,
\* MESSAGE_ENC_SNAPSHOT_REQUEST) covers the seq it was asked for, because requestSnapshot relays
\* what the room had not seen before it asks.  Only what a room has hidden, when an older install's
\* reply came after a newer one's (CipherLog.installSnapshot), may be missing.
THEOREM SnapshotsCover == Spec => []SnapshotCoversUnlessHidden
<1>1. Init => Basis /\ Shows
  BY BasisInit, ShowsInit
<1>2. (Basis /\ Shows) /\ [Next]_vars => (Basis /\ Shows)'
  BY BasisStep, ShowsStep
<1>3. Shows => SnapshotCoversUnlessHidden
  BY DEF Shows, Covers, SnapshotCoversUnlessHidden
<1> QED
  BY <1>1, <1>2, <1>3, PTL DEF Spec

-----------------------------------------------------------------------------
(* What a room has or the database keeps is not lost while the room lives. *)

Safe(i) == Content(log[i]) \cup Kept

\* A log's snapshot was the database's.
Installed(i) ==
    /\ log[i].snapshot \subseteq Kept
    /\ \A s \in installing[i] : s.done => s.edits \subseteq Kept

LEMMA RowsStep ==
    ASSUME Types, Types', [Next]_vars
    PROVE  /\ Plain(Range(rows)) \subseteq Plain(Range(rows))'
           /\ \A s \in DOMAIN rows : rows[s].edits \subseteq Plain(Range(rows))
<1>1. rows \in Seq(Blobs) /\ rows' \in Seq(Blobs)
  BY DEF Types, DatabaseTypes
<1>2. Range(rows) \subseteq Range(rows')
  BY GrownBy DEF Grown, Range
<1>3. Plain(Range(rows)) \subseteq Plain(Range(rows'))
  BY <1>2 DEF Plain
<1>4. \A s \in DOMAIN rows : rows[s].edits \subseteq Plain(Range(rows))
  BY <1>1, ElementsOf DEF Plain
<1> QED
  BY <1>3, <1>4

LEMMA KeptStep ==
    ASSUME Types, Types', [Next]_vars
    PROVE  Kept \subseteq Kept' /\ snapState' \subseteq Kept'
BY RowsStep, SnapStep DEF Kept, Stored

LEMMA SafeStep ==
    ASSUME Types, Types', [Next]_vars, NEW i \in Instances, LogOf(i), Installed(i), ~Crash(i)
    PROVE  Safe(i) \subseteq Safe(i)'
<1>0. log[i] \in LogRecord /\ log'[i] \in LogRecord /\ Kept \subseteq Kept'
  BY KeptStep DEF Types, LogTypes
<1> SUFFICES ASSUME NEW x \in Content(log[i]), x \notin Kept, x \notin Kept'
             PROVE  x \in Content(log'[i])
  BY <1>0 DEF Safe
<1>1. PICK e \in Range(log[i].entries) : x \in e.blob.edits
  BY <1>0, ContentOf DEF Installed
<1>2. ASSUME NEW f \in Range(log'[i].entries), f.blob = e.blob PROVE x \in Content(log'[i])
  BY <1>0, <1>1, <1>2, ContentOf
<1>3. CASE log'[i] = log[i]
  BY <1>1, <1>2, <1>3
<1>4. CASE Gains(i)
  BY <1>0, <1>4, ExtendsContent DEF Gains
<1>5. CASE Renumbers(log[i], log'[i])
  BY <1>0, <1>5, RenumbersContent
<1>6. CASE \E s : Returns(i, s)
  <2>1. CASE e.seq # 0
    BY <1>1, <2>1, RowsStep DEF LogOf, Seqs, Kept, Stored
  <2>2. CASE e.seq = 0
    BY <1>1, <1>2, <1>6, <2>2, ReturnedOf
  <2> QED
    BY <2>1, <2>2
<1>7. CASE log'[i] = [log[i] EXCEPT !.upto = snapUpto, !.snapshot = snapState]
  BY <1>0, <1>7, <1>1, <1>2 DEF LogRecord
<1> QED
  BY <1>3, <1>4, <1>5, <1>6, <1>7, LogStep, Zenon

LEMMA InstalledStep ==
    ASSUME Types, Types', [Next]_vars, NEW i \in Instances, Installed(i)
    PROVE  Installed(i)'
<1>0. log[i] \in LogRecord /\ log'[i] \in LogRecord /\ Kept \subseteq Kept' /\ snapState' \subseteq Kept'
  BY KeptStep DEF Types, LogTypes
<1>1. \A s \in installing'[i] : s.done => s.edits \subseteq Kept'
  BY <1>0, InstallingStep DEF Installed
<1>2. log'[i].snapshot \subseteq Kept'
  <2>1. CASE log'[i].snapshot = log[i].snapshot
    BY <1>0, <2>1 DEF Installed
  <2>2. CASE Gains(i)
    BY <2>1, <2>2 DEF Gains, Extends
  <2>3. CASE Renumbers(log[i], log'[i])
    BY <2>1, <2>3 DEF Renumbers
  <2>4. CASE \E s : Returns(i, s)
    BY <1>0, <2>4, ReturnedOf DEF Returns, Installed
  <2>5. CASE log'[i] = [log[i] EXCEPT !.upto = snapUpto, !.snapshot = snapState]
    BY <1>0, <2>5 DEF LogRecord, Kept, Stored
  <2>6. CASE log'[i] = EmptyLog
    BY <2>6 DEF EmptyLog
  <2>7. CASE log'[i] = log[i]
    BY <2>1, <2>7
  <2> QED
    BY <2>2, <2>3, <2>4, <2>5, <2>6, <2>7, LogStep, Zenon
<1> QED
  BY <1>1, <1>2 DEF Installed

-----------------------------------------------------------------------------
(* What a member is sent, its room has. *)

DownSafe(p) == p \in member => \A m \in Range(down[p]) : Shown(m) \subseteq Safe(home[p])

LEMMA NothingShown ==
    ASSUME NEW m, m.type = "persisted" \/ m.type = "request"
    PROVE  Shown(m) = {}
  BY DEF Shown

LEMMA DownStep ==
    ASSUME Types, Types', Members, [Next]_vars, NEW p \in Connections, p <= opened,
           NEW m \in Range(down'[p])
    PROVE  \/ m \in Range(down[p])
           \/ Shown(m) = {}
           \/ p \in member /\ Shown(m) \subseteq Content(log'[home[p]])
<1> DEFINE Fine ==
           \/ m \in Range(down[p])
           \/ Shown(m) = {}
           \/ p \in member /\ Shown(m) \subseteq Content(log'[home[p]])
<1> SUFFICES Fine
  OBVIOUS
<1>1. CASE Range(down'[p]) \subseteq Range(down[p])
  BY <1>1
<1>2. ASSUME NEW c \in Clients, ClientStep(c) PROVE Fine
  <2>1. CASE HandleNext(c)
    BY <1>1, <2>1, ShorterDown
  <2>2. CASE Disconnect(c)
    BY <2>2, <1>1, RangeOfNone DEF Disconnect, Types, DownTypes
  <2>3. CASE ~HandleNext(c) /\ ~Disconnect(c)
    BY <1>2, <2>3, <1>1 DEF ClientStep, Edit, FlushFrame, SendNext, streamVars
  <2> QED
    BY <2>1, <2>2, <2>3
<1>3. ASSUME NEW c \in Clients, NEW i \in Instances, Connect(c, i) PROVE Fine
  BY OpenedOf, <1>3, ConnectedBy, <1>1
<1>4. ASSUME NEW i \in Instances, NEW new \in Seq(EntryRecord), Extends(log[i], new, log'[i]),
             p \in MembersOf(i), NEW e \in Range(new), m.type = "update", m.edits = e.blob.edits
      PROVE  Fine
  BY RoomFields, <1>4, ExtendsContent DEF Shown, MembersOf
<1>5. ASSUME NEW i \in Instances, NEW new, NEW sender, Adds(i, new, sender) PROVE Fine
  <2>1. new \in Seq(EntryRecord) /\ Extends(log[i], new, log'[i])
    BY <1>5 DEF Adds
  <2>2. CASE m \in Range(down[p])
    BY <2>2
  <2>3. CASE m \notin Range(down[p])
    BY <1>5, <2>3, AddsSends, <1>4, <2>1
  <2> QED
    BY <2>2, <2>3
<1>6. ASSUME NEW i \in Instances, NEW vector, Announces(i, vector) PROVE Fine
  BY <1>6, AnnouncesSends, NothingShown
<1>7. ASSUME NEW i \in Instances, AskClient(i) PROVE Fine
  <2>1. PICK start, new, peer, id : Asks(i, start, new, peer, id)
    BY <1>7, AskedClient
  <2>2. CASE MembersOf(i) = {}
    BY <2>1, <2>2, <1>1 DEF Asks
  <2>3. CASE MembersOf(i) # {}
    <3>1. new \in Seq(EntryRecord) /\ Extends(log[i], new, log'[i])
      BY <2>1 DEF Asks
    <3>2. \/ m \in Range(down[p])
          \/ \E e \in Range(new) : p \in MembersOf(i) /\ m.type = "update" /\ m.edits = e.blob.edits
          \/ m.type = "request"
      BY <2>1, <2>3, AsksSends
    <3> QED
      BY <1>4, <3>1, <3>2, NothingShown
  <2> QED
    BY <2>2, <2>3
<1>8. CASE down' = down
  BY <1>1, <1>8
<1>9. ASSUME NEW q \in Connections, MemberStep(q)
      PROVE  down' = down \/ \E new, sender : Adds(home[q], new, sender) /\ home[q] \in Instances
  BY Zenon, <1>9, ReceivedUpdate DEF MemberStep, ReceiveSnapshot, RemoveMember
<1>10. ASSUME NEW i \in Instances, RoomStep(i), ~AskClient(i)
      PROVE down' = down \/ (\E new, sender : Adds(i, new, sender)) \/ (\E vector : Announces(i, vector))
  <2>1. CASE AppendReturns(i) \/ CatchUp(i) \/ HandlePersistedVector(i) \/ HandleEntries(i)
    BY Zenon, <2>1, ReturnedAppend, CaughtUp, HandledVector, HandledEntries
  <2>2. CASE ~(AppendReturns(i) \/ CatchUp(i) \/ HandlePersistedVector(i) \/ HandleEntries(i))
    BY <1>10, <2>2, Zenon DEF RoomStep, LoadSnapshot, LoadUpdates, AskLease, FinishLoading, Flush,
     AppendCommits, AppendFails, TakeLease, CatchUpFails, RequestSnapshot,
     AskFails, RequestTimesOut, InstallFails, InstallCommits, InstallReturns,
     HandleSyncRequest, LoseBus, RegainBus, Resync, Crash, streamVars
  <2> QED
    BY <2>1, <2>2
<1>11. ASSUME LateCommit \/ UNCHANGED vars PROVE down' = down
  BY <1>11 DEF LateCommit, vars, streamVars
<1> HIDE DEF Fine
<1>12. ASSUME NEW q \in Connections, MemberStep(q) PROVE Fine
  BY <1>5, <1>8, <1>9, <1>12
<1>13. ASSUME NEW i \in Instances, RoomStep(i) PROVE Fine
  BY <1>5, <1>6, <1>7, <1>8, <1>10, <1>13
<1> QED
  BY <1>2, <1>3, <1>8, <1>11, <1>12, <1>13 DEF Next

\* A connection becomes a member when it is opened.
LEMMA MemberStarts ==
    ASSUME Types, Members, [Next]_vars, NEW p \in member', p \notin member
    PROVE  \E c \in Clients : \E i \in Instances : Connect(c, i) /\ p = opened + 1
<1> DEFINE Fine == \E c \in Clients : \E i \in Instances : Connect(c, i) /\ p = opened + 1
<1> SUFFICES Fine
  OBVIOUS
<1>1. ASSUME NEW c \in Clients, NEW i \in Instances, Connect(c, i) PROVE Fine
  BY <1>1, ConnectedBy
<1>2. ASSUME NEW c \in Clients, ClientStep(c) PROVE Fine
  BY <1>2 DEF ClientStep, Edit, FlushFrame, SendNext, HandleNext, Disconnect, streamVars
<1>3. ASSUME NEW i \in Instances, RoomStep(i) PROVE Fine
  BY <1>3, Zenon DEF RoomStep, LoadSnapshot, LoadUpdates, AskLease, FinishLoading, Flush,
     AppendCommits, AppendReturns, AppendFails, TakeLease, CatchUp, CatchUpFails, RequestSnapshot,
     AskClient, AskFails, RequestTimesOut, InstallFails, InstallCommits, InstallReturns, HandleEntries,
     HandleSyncRequest, HandlePersistedVector, LoseBus, RegainBus, Resync, Crash, streamVars
<1>4. ASSUME NEW q \in Connections, MemberStep(q) PROVE Fine
  BY <1>4 DEF MemberStep, ReceiveUpdate, ReceiveSnapshot, RemoveMember
<1>5. CASE LateCommit \/ UNCHANGED vars
  BY <1>5 DEF LateCommit, vars, streamVars
<1> HIDE DEF Fine
<1> QED
  BY <1>1, <1>2, <1>3, <1>4, <1>5 DEF Next

LEMMA DownSafeStep ==
    ASSUME Types, Types', Members, Logs, [Next]_vars, \A i \in Instances : Installed(i),
           NEW p \in Connections, DownSafe(p)
    PROVE  DownSafe(p)'
<1> SUFFICES ASSUME p \in member', NEW m \in Range(down'[p]) PROVE Shown(m) \subseteq Safe(home[p])'
  BY DEF DownSafe
<1>1. CASE p <= opened
  BY <1>1, HomeStep, SafeStep, DownStep DEF Types, RoomTypes, Logs, DownSafe, Safe
<1>2. CASE ~(p <= opened)
  BY <1>2, MemberStarts, ConnectedBy, WelcomedBy DEF Members, Safe
<1> QED
  BY <1>1, <1>2

-----------------------------------------------------------------------------
(* What a client sends. *)

Posts(c, p, m) ==
    /\ SendNext(c) /\ conn[c] = p /\ up'[p] = Append(up[p], m)
    /\ m.type = "update" =>
        /\ m.blob.conn = p /\ m.blob.n = counter[c] + 1 /\ counter'[c] = counter[c] + 1
        /\ m.blob \in sent'
    /\ m.type # "update" => UNCHANGED <<counter, sent>>

LEMMA UpShape ==
    ASSUME Types, [Next]_vars, NEW p \in Connections
    PROVE  \/ up'[p] = up[p]
           \/ up'[p] = <<>> /\ p \notin member'
           \/ up'[p] = Tail(up[p]) /\ up[p] # <<>> /\ (ReceiveUpdate(p) \/ ReceiveSnapshot(p))
           \/ \E c \in Clients : \E m \in UpMessage : Posts(c, p, m)
<1> DEFINE Fine ==
           \/ up'[p] = up[p]
           \/ up'[p] = <<>> /\ p \notin member'
           \/ up'[p] = Tail(up[p]) /\ up[p] # <<>> /\ (ReceiveUpdate(p) \/ ReceiveSnapshot(p))
           \/ \E c \in Clients : \E m \in UpMessage : Posts(c, p, m)
<1> SUFFICES Fine
  OBVIOUS
<1>0. up \in [Connections -> Seq(UpMessage)]
  BY DEF Types, StreamTypes
<1>1. ASSUME NEW c \in Clients, SendNext(c) PROVE Fine
  <2>0. PICK item : item = Head(sending[c])
    OBVIOUS
  <2>1. CASE up' = up \/ conn[c] # p
    BY <1>1, <2>1, SentNext
  <2>2. CASE up' # up /\ conn[c] = p
    <3>1. ASSUME NEW b \in Blobs, b.conn = conn[c], b.n = counter[c] + 1,
                 counter' = [counter EXCEPT ![c] = b.n], sent' = sent \cup {b},
                 ClientUpdate(b) \in UpMessage, up'[conn[c]] = Append(up[conn[c]], ClientUpdate(b))
          PROVE  Fine
      <4>1. PICK m \in UpMessage : m = ClientUpdate(b) /\ m.type = "update" /\ m.blob = b
        BY <3>1, RepliesOf
      <4>2. counter'[c] = b.n
        BY <3>1 DEF Types, ClientTypes
      <4>3. Posts(c, p, m)
        BY <1>1, <2>2, <3>1, <4>1, <4>2 DEF Posts
      <4> QED
        BY <4>3
    <3>2. ASSUME NEW m \in UpMessage, m = SnapshotReply(item.id, item.edits),
                 UNCHANGED <<counter, sent>>, up'[conn[c]] = Append(up[conn[c]], m)
          PROVE  Fine
      BY <3>2, <1>1, <2>2 DEF SnapshotReply, Posts
    <3> HIDE DEF Fine
    <3>3. \/ UNCHANGED <<counter, sent, up>>
          \/ \E b \in Blobs :
                /\ b.conn = conn[c] /\ b.n = counter[c] + 1
                /\ counter' = [counter EXCEPT ![c] = b.n] /\ sent' = sent \cup {b}
                /\ ClientUpdate(b) \in UpMessage
                /\ up'[conn[c]] = Append(up[conn[c]], ClientUpdate(b))
          \/ \E m \in UpMessage :
                /\ m = SnapshotReply(item.id, item.edits)
                /\ UNCHANGED <<counter, sent>>
                /\ up'[conn[c]] = Append(up[conn[c]], m)
      BY <1>1, <2>0, SentNext
    <3> QED
      BY <2>2, <3>1, <3>2, <3>3
  <2> QED
    BY <2>1, <2>2
<1>2. ASSUME NEW c \in Clients, ClientStep(c), ~SendNext(c) PROVE up' = up
  BY <1>2 DEF ClientStep, Edit, FlushFrame, HandleNext, Disconnect, streamVars
<1>3. ASSUME NEW c \in Clients, NEW i \in Instances, Connect(c, i) PROVE up' = up
  BY <1>3 DEF Connect, Welcome
<1>4. ASSUME NEW i \in Instances, Crash(i) PROVE Fine
  BY <1>4 DEF Crash
<1>5. ASSUME NEW i \in Instances, RoomStep(i), ~Crash(i) PROVE up' = up
  BY <1>5, Zenon DEF RoomStep, LoadSnapshot, LoadUpdates, AskLease, FinishLoading, Flush,
     AppendCommits, AppendReturns, AppendFails, TakeLease, CatchUp, CatchUpFails, RequestSnapshot,
     AskClient, AskFails, RequestTimesOut, InstallFails, InstallCommits, InstallReturns, HandleEntries,
     HandleSyncRequest, HandlePersistedVector, LoseBus, RegainBus, Resync, streamVars
<1>6. ASSUME NEW q \in Connections, ReceiveUpdate(q) \/ ReceiveSnapshot(q) PROVE Fine
  <2>1. up[q] # <<>> /\ up' = [up EXCEPT ![q] = Tail(@)]
    BY Zenon, <1>6 DEF ReceiveUpdate, ReceiveSnapshot
  <2> QED
    BY <1>6, <1>0, <2>1
<1>7. ASSUME NEW q \in Connections, RemoveMember(q) PROVE Fine
  BY <1>7, <1>0 DEF RemoveMember
<1>8. ASSUME LateCommit \/ UNCHANGED vars PROVE up' = up
  BY <1>8 DEF LateCommit, vars, streamVars
<1>9. CASE up' = up
  BY <1>9
<1> HIDE DEF Fine
<1>10. ASSUME NEW c \in Clients, ClientStep(c) PROVE Fine
  BY <1>1, <1>2, <1>9, <1>10
<1>11. ASSUME NEW i \in Instances, RoomStep(i) PROVE Fine
  BY <1>4, <1>5, <1>9, <1>11
<1>12. ASSUME NEW q \in Connections, MemberStep(q) PROVE Fine
  BY <1>6, <1>7, <1>12 DEF MemberStep
<1> QED
  BY <1>3, <1>8, <1>9, <1>10, <1>11, <1>12 DEF Next

LEMMA UpKept ==
    ASSUME Types, [Next]_vars, NEW p \in Connections, p \in member', NEW m \in Range(up[p])
    PROVE  \/ m \in Range(up'[p])
           \/ m = Head(up[p]) /\ (ReceiveUpdate(p) \/ ReceiveSnapshot(p))
<1>1. PICK q \in Seq(UpMessage) : q = up[p]
  BY DEF Types, StreamTypes
<1>2. CASE up'[p] = up[p]
  BY <1>2
<1>3. CASE up'[p] = Tail(up[p]) /\ up[p] # <<>> /\ (ReceiveUpdate(p) \/ ReceiveSnapshot(p))
  BY <1>1, <1>3, RangeOfRest
<1>4. ASSUME NEW x \in UpMessage, up'[p] = Append(up[p], x) PROVE m \in Range(up'[p])
  BY RangeOfLonger, <1>1, <1>4
<1> QED
  BY <1>2, <1>3, <1>4, UpShape DEF Posts

-----------------------------------------------------------------------------
(* A synced client's document is in its room, kept, or on its way there. *)

Carried(c, e) ==
    \/ e \in pending[c]
    \/ \E m \in Range(sending[c]) : m.type = "update" /\ m.conn = conn[c] /\ e \in m.edits
    \/ \E m \in Range(up[conn[c]]) : m.type = "update" /\ e \in m.blob.edits

Receiving(c) ==
    conn[c] \in member /\ synced[c] =>
        \A e \in doc[c] : Carried(c, e) \/ e \in Safe(home[conn[c]])

LEMMA SendingKept ==
    ASSUME Types, [Next]_vars, NEW c \in Clients, NEW m \in Range(sending[c])
    PROVE  m \in Range(sending'[c]) \/ (SendNext(c) /\ m = Head(sending[c]))
<1> DEFINE Fine == m \in Range(sending'[c]) \/ (SendNext(c) /\ m = Head(sending[c]))
<1> SUFFICES Fine
  OBVIOUS
<1>1. ASSUME NEW d \in Clients, NEW x \in SendItem,
             sending' = [sending EXCEPT ![d] = Append(sending[d], x)]
      PROVE  Fine
  BY Zenon, <1>1, LongerQueue
<1>2. CASE sending' = sending
  BY <1>2
<1>3. ASSUME NEW d \in Clients, SendNext(d) PROVE Fine
  BY <1>3, ShorterQueue
<1>4. ASSUME NEW d \in Clients, FlushFrame(d) PROVE Fine
  BY <1>4, ClientFields, UpdateItem, <1>1 DEF FlushFrame, Types
<1>5. ASSUME NEW d \in Clients, HandleNext(d) PROVE Fine
  <2>1. PICK y \in DownMessage : y = Head(down[conn[d]])
    BY <1>5, HandledBy
  <2>2. conn[d] # NoConnection
    BY <1>5, HandledBy
  <2>3. ASSUME y.edits \in SUBSET Written,
               sending' = [sending EXCEPT ![d] = Append(sending[d], Update(d, doc[d] \ y.edits))]
        PROVE  Fine
    BY ClientFields, <2>2, UpdateItem, <1>1, <2>3 DEF Types
  <2>4. ASSUME y.id \in Nat, sending' = [sending EXCEPT ![d] = Append(sending[d], Snapshot(d, y.id))]
        PROVE  Fine
    BY <2>2, <2>4, UpdateItem, <1>1 DEF Types
  <2> HIDE DEF Fine
  <2>5. Queued(d, y)
    BY <1>5, <2>1, QueuedBy
  <2> QED
    BY <1>2, <2>3, <2>4, <2>5 DEF Queued
<1>6. ASSUME \/ \E d \in Clients : (\E e \in Edits : Edit(d, e)) \/ Disconnect(d)
             \/ \E d \in Clients : \E i \in Instances : Connect(d, i)
             \/ \E i \in Instances : RoomStep(i)
             \/ \E p \in Connections : MemberStep(p)
             \/ LateCommit /\ UNCHANGED <<providerVars, resumed>>
             \/ UNCHANGED vars
      PROVE  sending' = sending
  BY <1>6 DEF Edit, Disconnect, Connect, RoomStep, MemberStep, providerVars, vars
<1> HIDE DEF Fine
<1> QED
  BY <1>2, <1>3, <1>4, <1>5, <1>6 DEF Next, ClientStep

LEMMA PendingKept ==
    ASSUME Types, [Next]_vars, NEW c \in Clients, conn'[c] = conn[c], NEW e \in pending[c]
    PROVE  e \in pending'[c] \/ FlushFrame(c)
<1> DEFINE Fine == e \in pending'[c] \/ FlushFrame(c)
<1> SUFFICES Fine
  OBVIOUS
<1>1. ASSUME NEW d \in Clients, FlushFrame(d) PROVE Fine
  BY Zenon, <1>1 DEF FlushFrame, Types, ClientTypes
<1>2. ASSUME NEW d \in Clients, Disconnect(d) PROVE Fine
  BY <1>2 DEF Disconnect, Types, ClientTypes
<1>3. ASSUME NEW d \in Clients, NEW x \in Edits, Edit(d, x) PROVE Fine
  <2>1. pending' = pending \/ pending' = [pending EXCEPT ![d] = pending[d] \cup {x}]
    BY <1>3 DEF Edit
  <2>2. pending \in [Clients -> SUBSET Written]
    BY DEF Types, ClientTypes
  <2> QED
    BY <2>1, <2>2
<1>4. ASSUME \/ \E d \in Clients : HandleNext(d) \/ SendNext(d)
             \/ \E d \in Clients : \E i \in Instances : Connect(d, i)
             \/ \E i \in Instances : RoomStep(i)
             \/ \E p \in Connections : MemberStep(p)
             \/ LateCommit /\ UNCHANGED <<providerVars, resumed>>
             \/ UNCHANGED vars
      PROVE  pending' = pending
  BY <1>4 DEF HandleNext, SendNext, Connect, RoomStep, MemberStep, providerVars, vars
<1>5. CASE pending' = pending
  BY <1>5
<1> HIDE DEF Fine
<1> QED
  BY <1>1, <1>2, <1>3, <1>4, <1>5 DEF Next, ClientStep

\* What is on its way stays so until the room receives it.
LEMMA CarriedStep ==
    ASSUME Types, [Next]_vars, NEW c \in Clients, conn[c] \in Connections, conn'[c] = conn[c],
           conn[c] \in member', NEW e, Carried(c, e)
    PROVE  \/ Carried(c, e)'
           \/ ReceiveUpdate(conn[c]) /\ e \in Head(up[conn[c]]).blob.edits
<1>1. CASE e \in pending[c]
  <2>1. CASE e \in pending'[c]
    BY <2>1 DEF Carried
  <2>2. CASE FlushFrame(c)
    <3>1. PICK u \in SendItem : u = Update(c, pending[c]) /\ u.type = "update" /\ u.conn = conn[c]
                                /\ u.edits = pending[c]
      BY <2>2, ClientFields, UpdateItem DEF FlushFrame, Types
    <3>2. u \in Range(sending'[c])
      BY Zenon, <2>2, <3>1, LongerQueue DEF FlushFrame
    <3> QED
      BY <1>1, <3>1, <3>2 DEF Carried
  <2> QED
    BY <1>1, <2>1, <2>2, PendingKept
<1>2. ASSUME NEW m \in Range(sending[c]), m.type = "update", m.conn = conn[c], e \in m.edits
      PROVE  Carried(c, e)'
  <2>1. CASE m \in Range(sending'[c])
    BY <1>2, <2>1 DEF Carried
  <2>2. CASE SendNext(c) /\ m = Head(sending[c])
    <3>1. PICK b \in Blobs : b.edits = m.edits /\ Range(up'[conn[c]]) = Range(up[conn[c]]) \cup {ClientUpdate(b)}
      BY Zenon, <1>2, <2>2, SentNext
    <3>2. ClientUpdate(b).type = "update" /\ ClientUpdate(b).blob = b
      BY RepliesOf
    <3> QED
      BY <1>2, <3>1, <3>2 DEF Carried
  <2> QED
    BY <2>1, <2>2, SendingKept
<1>3. ASSUME NEW m \in Range(up[conn[c]]), m.type = "update", e \in m.blob.edits
      PROVE  \/ Carried(c, e)'
             \/ ReceiveUpdate(conn[c]) /\ e \in Head(up[conn[c]]).blob.edits
  <2>1. ReceiveSnapshot(conn[c]) => Head(up[conn[c]]).type # "update"
    BY Zenon DEF ReceiveSnapshot
  <2>2. (m = Head(up[conn[c]]) /\ ReceiveUpdate(conn[c])) \/ m \in Range(up'[conn[c]])
    BY Zenon, <1>3, <2>1, UpKept
  <2> QED
    BY <1>3, <2>2 DEF Carried
<1> QED
  BY <1>1, <1>2, <1>3 DEF Carried

LEMMA ReceivedSafe ==
    ASSUME Types, hidden \subseteq Range(rows), NEW p \in Connections, ReceiveUpdate(p), Covering(home[p])
    PROVE  home[p] \in Instances /\ Head(up[p]).blob.edits \subseteq Content(log'[home[p]]) \cup Kept'
<1>1. home[p] \in Instances /\ Head(up[p]).blob \in Blobs
  BY ReceivedUpdate
<1>2. PICK i \in Instances : i = home[p]
  BY <1>1
<1>3. PICK b \in Blobs : b = Head(up[p]).blob
  BY <1>1
<1>4. PICK l \in LogRecord : l = log[i]
  BY RoomFields
<1>5. CASE b \in log[i].known /\ UNCHANGED log
  <2>1. b \in hidden \/ b.edits \subseteq Content(log[i])
    BY <1>2, <1>5, KnownShown
  <2>2. b \in hidden => b.edits \subseteq Kept
    BY PlainOf, RoomFields, ElementsOf DEF Kept, Stored
  <2>3. Kept' = Kept
    BY ReceivedUpdate DEF databaseVars, Kept, Stored
  <2> QED
    BY Zenon, <1>1, <1>2, <1>3, <1>5, <2>1, <2>2, <2>3
<1>6. CASE \E new \in Seq(EntryRecord) : new = <<Entry(b, b.n, 0)>> /\ Adds(i, new, p)
  <2>1. PICK new \in Seq(EntryRecord) : new = <<Entry(b, b.n, 0)>> /\ Adds(i, new, p)
    BY <1>6
  <2>2. PICK f \in EntryRecord : f = Entry(b, b.n, 0) /\ f.blob = b
    BY EntryOf, BlobFields
  <2>3. f \in Range(new)
    BY <2>1, <2>2, RangeOfOne
  <2>4. Extends(l, new, log'[i])
    BY <1>4, <2>1 DEF Adds
  <2>5. f.blob.edits \subseteq Content(log'[i])
    BY <2>3, <2>4, ExtendsContent
  <2> QED
    BY <1>2, <1>3, <2>2, <2>5
<1> QED
  BY Zenon, <1>2, <1>3, <1>5, <1>6, ReceivedUpdate

\* What a client that stays synced has: it had it and was synced, or it is on its way, or the
\* server has just sent it.
LEMMA DocGains ==
    ASSUME Types, [Next]_vars, NEW c \in Clients, conn[c] # NoConnection, conn'[c] = conn[c],
           synced'[c], NEW e \in doc'[c]
    PROVE  \/ e \in doc[c] /\ synced[c]
           \/ Carried(c, e)'
           \/ HandleNext(c) /\ e \in Shown(Head(down[conn[c]]))
<1> DEFINE Fine ==
           \/ e \in doc[c] /\ synced[c]
           \/ Carried(c, e)'
           \/ HandleNext(c) /\ e \in Shown(Head(down[conn[c]]))
<1> SUFFICES Fine
  OBVIOUS
<1>1. CASE doc'[c] = doc[c] /\ synced'[c] = synced[c]
  BY <1>1
<1>2. CASE HandleNext(c)
  <2>1. PICK m \in DownMessage : m = Head(down[conn[c]]) /\ doc' = [doc EXCEPT ![c] = doc[c] \cup Shown(m)]
    BY <1>2, HandledBy
  <2>2. doc'[c] = doc[c] \cup Shown(m)
    BY <2>1 DEF Types, ClientTypes
  <2>3. CASE e \in doc[c] /\ e \notin Shown(m) /\ ~synced[c]
    <3>1. synced' = synced \/ (m.type = "state" /\ HandleState(c, m))
      BY <1>2, <2>1 DEF HandleNext, HandleUpdate, HandlePersisted, HandleRequest
    <3>2. m.type = "state" /\ HandleState(c, m)
      BY <2>3, <3>1
    <3>3. Shown(m) = m.edits /\ m.edits \in SUBSET Written
      BY <3>2, DownFields DEF Shown
    <3>4. e \in doc[c] \ m.edits /\ doc[c] \ m.edits \in SUBSET Written
      BY <2>3, <3>3, ClientFields
    <3>5. sending' = [sending EXCEPT ![c] = Append(sending[c], Update(c, doc[c] \ m.edits))]
      BY <3>2, <3>4 DEF HandleState, Missing
    <3>6. PICK u \in SendItem : u = Update(c, doc[c] \ m.edits) /\ u.type = "update" /\ u.conn = conn[c]
                                /\ u.edits = doc[c] \ m.edits
      BY <3>4, UpdateItem DEF Types
    <3>7. u \in Range(sending'[c])
      BY Zenon, <3>5, <3>6, LongerQueue
    <3> QED
      BY Zenon, <3>4, <3>6, <3>7 DEF Carried
  <2> QED
    BY <1>2, <2>1, <2>2, <2>3
<1>3. ASSUME NEW d \in Clients, HandleNext(d), d # c PROVE Fine
  BY <1>3, HandledBy, <1>1 DEF Types, ClientTypes, HandleNext, HandleState, HandleUpdate,
     HandlePersisted, HandleRequest
<1>4. ASSUME NEW d \in Clients, NEW x \in Edits, Edit(d, x) PROVE Fine
  BY <1>4, <1>1 DEF Edit, Types, ClientTypes, Carried
<1>5. ASSUME NEW d \in Clients, Disconnect(d) PROVE Fine
  BY <1>5, <1>1 DEF Disconnect, Types, ClientTypes
<1>6. ASSUME \/ \E d \in Clients : FlushFrame(d) \/ SendNext(d)
             \/ \E d \in Clients : \E i \in Instances : Connect(d, i)
             \/ \E i \in Instances : RoomStep(i)
             \/ \E p \in Connections : MemberStep(p)
             \/ LateCommit /\ UNCHANGED <<providerVars, resumed>>
             \/ UNCHANGED vars
      PROVE  doc' = doc /\ synced' = synced
  BY <1>6 DEF FlushFrame, SendNext, Connect, RoomStep, MemberStep, providerVars, vars
<1>7. CASE doc' = doc /\ synced' = synced
  BY <1>1, <1>7
<1> HIDE DEF Fine
<1> QED
  BY <1>2, <1>3, <1>4, <1>5, <1>6, <1>7 DEF Next, ClientStep

Offline(c) == conn[c] = NoConnection => counter[c] = 0 /\ confirmed[c] = 0 /\ ~synced[c]

LEMMA OfflineStep ==
    ASSUME Types, Types', Members, [Next]_vars, NEW c \in Clients, Offline(c)
    PROVE  Offline(c)'
<1> SUFFICES ASSUME conn'[c] = NoConnection PROVE counter'[c] = 0 /\ confirmed'[c] = 0 /\ ~synced'[c]
  BY DEF Offline
<1> DEFINE Fine == counter'[c] = 0 /\ confirmed'[c] = 0 /\ ~synced'[c]
<1> SUFFICES Fine
  OBVIOUS
<1>1. CASE conn[c] = NoConnection /\ UNCHANGED <<counter, confirmed, synced>>
  BY <1>1 DEF Offline
<1>2. ASSUME NEW d \in Clients, Disconnect(d) PROVE Fine
  BY <1>2 DEF Disconnect, Types, ClientTypes, Offline
<1>3. ASSUME NEW d \in Clients, HandleNext(d) PROVE Fine
  BY <1>3 DEF HandleNext, HandleState, HandleUpdate, HandlePersisted, HandleRequest, Types,
     ClientTypes, Offline
<1>4. ASSUME NEW d \in Clients, SendNext(d) PROVE Fine
  <2>1. UNCHANGED <<conn, synced, confirmed>>
    BY <1>4 DEF SendNext
  <2>2. counter'[c] = counter[c]
    <3>1. CASE d = c
      <4>1. Head(sending[c]).conn # conn[c]
        BY <1>4, <2>1, <3>1, ShorterQueue, SendFields, OpenedOf
      <4> QED
        BY <1>4, <3>1, <4>1 DEF SendNext
    <3>2. CASE d # c
      BY <1>4, <3>2 DEF SendNext, Types, ClientTypes
    <3> QED
      BY <3>1, <3>2
  <2> QED
    BY <2>1, <2>2 DEF Offline
<1>5. ASSUME NEW d \in Clients, NEW i \in Instances, Connect(d, i) PROVE Fine
  BY <1>5, ConnectedBy DEF Offline
<1>6. ASSUME \/ \E d \in Clients : FlushFrame(d) \/ \E x \in Edits : Edit(d, x)
             \/ \E i \in Instances : RoomStep(i)
             \/ \E p \in Connections : MemberStep(p)
             \/ LateCommit /\ UNCHANGED <<providerVars, resumed>>
             \/ UNCHANGED vars
      PROVE  UNCHANGED <<conn, counter, confirmed, synced>>
  BY <1>6 DEF FlushFrame, Edit, RoomStep, MemberStep, providerVars, vars
<1>7. CASE UNCHANGED <<conn, counter, confirmed, synced>>
  BY <1>1, <1>7
<1> HIDE DEF Fine
<1> QED
  BY <1>2, <1>3, <1>4, <1>5, <1>6, <1>7 DEF Next, ClientStep

LEMMA ReceivingStep ==
    ASSUME Types, Types', Members, Logs, [Next]_vars,
           \A i \in Instances : Installed(i) /\ Covering(i), \A p \in Connections : DownSafe(p),
           NEW c \in Clients, Offline(c), Receiving(c)
    PROVE  Receiving(c)'
<1> SUFFICES ASSUME conn'[c] \in member', synced'[c], NEW e \in doc'[c]
             PROVE  (Carried(c, e) \/ e \in Safe(home[conn[c]]))'
  BY DEF Receiving
<1>1. conn'[c] # NoConnection
  BY DEF Types, StreamTypes, Connections, NoConnection
<1>2. conn'[c] = conn[c]
  BY ConnectedBy, <1>1, ConnStep DEF Offline
<1>3. PICK p \in Connections : p = conn[c] /\ p <= opened
  BY <1>1, <1>2, OpenedOf DEF Members
<1>4. PICK i \in Instances : i = home[p] /\ p \in member /\ home'[p] = i /\ ~Crash(i)
  BY <1>2, <1>3, HomeStep DEF Types, RoomTypes
<1>5. Safe(i) \subseteq Safe(i)'
  BY <1>4, SafeStep DEF Logs
<1>6. PICK S : S = Safe(i)'
  OBVIOUS
<1>7. Safe(home[conn[c]])' = S
  BY <1>2, <1>3, <1>4, <1>6
<1>8. CASE Carried(c, e)'
  BY <1>8
<1>9. CASE e \in doc[c] /\ synced[c]
  <2>1. Carried(c, e) \/ e \in Safe(i)
    BY <1>3, <1>4, <1>9 DEF Receiving
  <2>2. CASE Carried(c, e)
    BY <1>2, <1>3, <2>2, CarriedStep, <1>4, ReceivedSafe, <1>6, <1>7 DEF Safe, Logs
  <2>3. CASE e \in Safe(i)
    BY <1>5, <1>6, <1>7, <2>3
  <2> QED
    BY <2>1, <2>2, <2>3
<1>10. CASE HandleNext(c) /\ e \in Shown(Head(down[conn[c]]))
  BY <1>3, <1>10, ShorterDown, <1>4, <1>5, <1>6, <1>7 DEF DownSafe
<1> QED
  BY <1>1, <1>2, <1>8, <1>9, <1>10, DocGains

-----------------------------------------------------------------------------
(* The counters of a connection: nobody counts further than its client sent. *)

LogBelow(i, p, n) ==
    /\ log[i].acks[p] <= n
    /\ \A e \in Range(log[i].entries) : e.blob.conn = p => e.ack <= n
ToldBelow(i, p, n) == marker[i][p] <= n /\ told[i][p] <= n
InboxBelow(i, p, n) ==
    \A m \in Range(inbox[i]) :
        /\ m.kind = "entries" => \A e \in Range(m.entries) : e.blob.conn = p => e.ack <= n
        /\ m.kind = "persisted" => m.vector[p] <= n
RoomBelow(i, p, n) == LogBelow(i, p, n) /\ ToldBelow(i, p, n) /\ InboxBelow(i, p, n)
ClientBelow(p, n) ==
    /\ \A m \in Range(down[p]) : m.type = "persisted" => m.n <= n
    /\ \A c \in Clients : conn[c] = p => confirmed[c] <= n
NothingBeyond(p, n) == ClientBelow(p, n) /\ \A i \in Instances : RoomBelow(i, p, n)

\* The update a room takes now is no later one.
ArrivesBelow(p, n) ==
    \A q \in Connections :
        ReceiveUpdate(q) /\ Head(up[q]).blob.conn = p => Head(up[q]).blob.n <= n

LEMMA LogBelowStep ==
    ASSUME Types, Types', [Next]_vars, NEW p \in Connections, NEW n \in Nat, NEW i \in Instances,
           RoomBelow(i, p, n), ArrivesBelow(p, n)
    PROVE  LogBelow(i, p, n)'
<1>1. PICK l \in LogRecord : l = log[i]
  BY RoomFields
<1>2. PICK m \in LogRecord : m = log'[i]
  BY DEF Types, LogTypes
<1>3. l.acks[p] <= n /\ \A e \in Range(l.entries) : e.blob.conn = p => e.ack <= n
  BY <1>1 DEF RoomBelow, LogBelow
<1>4. SUFFICES m.acks[p] <= n /\ \A e \in Range(m.entries) : e.blob.conn = p => e.ack <= n
  BY <1>2 DEF LogBelow
<1>5. CASE m = l
  BY <1>3, <1>5
<1>6. CASE Gains(i)
  <2>1. PICK new \in Seq(EntryRecord) : Extends(l, new, m) /\ \A e \in Range(new) : Arrived(i, e)
    BY <1>1, <1>2, <1>6 DEF Gains
  <2>2. ASSUME NEW e \in Range(new), e.blob.conn = p PROVE e.ack <= n
    BY <2>2, <2>1 DEF RoomBelow, InboxBelow, ArrivesBelow, Arrived
  <2>3. Range(m.entries) = Range(l.entries) \cup Range(new)
    BY <2>1, ExtendsContent
  <2>4. m.acks[p] = l.acks[p] \/ \E e \in Range(new) : e.blob.conn = p /\ m.acks[p] = e.ack
    BY <2>1 DEF Extends
  <2> QED
    BY <1>3, <2>2, <2>3, <2>4
<1>7. CASE Renumbers(l, m)
  <2>1. m.acks = l.acks
    BY <1>7 DEF Renumbers
  <2>2. \A e \in Range(m.entries) : \E f \in Range(l.entries) : e.blob = f.blob /\ e.ack = f.ack
    BY <1>7, RenumbersContent
  <2> QED
    BY <1>3, <2>1, <2>2
<1>8. ASSUME NEW s, Returns(i, s) PROVE m.acks = l.acks /\ Range(m.entries) \subseteq Range(l.entries)
  BY <1>1, <1>2, <1>8, ReturnedOf
<1>9. CASE m = [l EXCEPT !.upto = snapUpto, !.snapshot = snapState]
  BY <1>9, <1>3 DEF LogRecord
<1>10. CASE m = EmptyLog
  BY <1>10, RangeOfNone DEF EmptyLog, NoCounters
<1>11. CASE \E s : Returns(i, s)
  BY <1>3, <1>8, <1>11
<1> QED
  BY <1>1, <1>2, <1>5, <1>6, <1>7, <1>11, <1>9, <1>10, LogStep, Zenon

\* What a commit will confirm is what was counted when the queue was cut.
LEMMA MarkerStep ==
    ASSUME Types, [Next]_vars, NEW i \in Instances
    PROVE  marker'[i] = marker[i] \/ marker'[i] = log[i].acks \/ marker'[i] = NoCounters
<1> DEFINE Fine == marker'[i] = marker[i] \/ marker'[i] = log[i].acks \/ marker'[i] = NoCounters
<1> SUFFICES Fine
  OBVIOUS
<1>1. ASSUME NEW j \in Instances, Flush(j) PROVE Fine
  BY <1>1 DEF Flush, Types, QueueTypes
<1>2. ASSUME NEW j \in Instances, AppendReturns(j) \/ AppendFails(j) \/ Crash(j) PROVE Fine
  BY <1>2 DEF AppendReturns, AppendFails, Crash, Types, QueueTypes
<1>3. ASSUME NEW j \in Instances, RoomStep(j), ~Flush(j), ~AppendReturns(j), ~AppendFails(j), ~Crash(j)
      PROVE  marker' = marker
  BY <1>3, Zenon DEF RoomStep, LoadSnapshot, LoadUpdates, AskLease, FinishLoading,
     AppendCommits, TakeLease, CatchUp, CatchUpFails, RequestSnapshot, AskClient,
     AskFails, RequestTimesOut, InstallFails, InstallCommits, InstallReturns, HandleEntries, HandlePersistedVector,
     HandleSyncRequest, LoseBus, RegainBus, Resync, queueVars
<1>4. ASSUME \/ \E q \in Connections : MemberStep(q)
             \/ \E c \in Clients : ClientStep(c) \/ \E j \in Instances : Connect(c, j)
             \/ LateCommit \/ UNCHANGED vars
      PROVE  marker' = marker
  BY Zenon, <1>4 DEF MemberStep, ReceiveUpdate, ReceiveSnapshot, RemoveMember, ClientStep, Connect, Welcome,
     LateCommit, vars, roomVars, queueVars
<1>5. CASE marker' = marker
  BY <1>5
<1> HIDE DEF Fine
<1> QED
  BY <1>1, <1>2, <1>3, <1>4, <1>5 DEF Next

Source(i, vector) ==
    \/ vector = marker[i]
    \/ vector = log[i].acks
    \/ \E m \in Range(inbox[i]) : m.kind = "persisted" /\ vector = m.vector

LEMMA ToldStep ==
    ASSUME Types, [Next]_vars, NEW i \in Instances
    PROVE  \/ told'[i] = told[i]
           \/ told'[i] = NoCounters
           \/ \E vector \in Vector : Source(i, vector) /\ told'[i] = MergeStateVectors(told[i], vector)
<1> DEFINE Fine ==
           \/ told'[i] = told[i]
           \/ told'[i] = NoCounters
           \/ \E vector \in Vector : Source(i, vector) /\ told'[i] = MergeStateVectors(told[i], vector)
<1> SUFFICES Fine
  OBVIOUS
<1>1. CASE told' = told
  BY <1>1
<1>2. ASSUME NEW j \in Instances, Crash(j) PROVE Fine
  BY <1>2 DEF Crash, Types, ToldTypes
<1>3. ASSUME NEW j \in Instances, NEW vector, Announces(j, vector), Source(j, vector) PROVE Fine
  BY <1>3 DEF Announces
<1>4. ASSUME NEW j \in Instances, AppendReturns(j) PROVE Fine
  BY <1>4, ReturnedAppend, <1>3 DEF Source
<1>5. ASSUME NEW j \in Instances, CatchUp(j) PROVE Fine
  BY <1>5, CaughtUp, <1>1, <1>3 DEF Source
<1>6. ASSUME NEW j \in Instances, HandlePersistedVector(j) PROVE Fine
  BY <1>6, HandledVector, RangeOfRest, <1>1, <1>3 DEF Source
<1>7. ASSUME NEW j \in Instances, RoomStep(j), ~AppendReturns(j), ~CatchUp(j), ~HandlePersistedVector(j), ~Crash(j)
      PROVE  told' = told
  BY <1>7, Zenon DEF RoomStep, LoadSnapshot, LoadUpdates, AskLease, FinishLoading, Flush, AppendFails,
     AppendCommits, TakeLease, CatchUpFails, RequestSnapshot, AskClient,
     AskFails, RequestTimesOut, InstallFails, InstallCommits, InstallReturns, HandleEntries,
     HandleSyncRequest, LoseBus, RegainBus, Resync
<1>8. ASSUME \/ \E q \in Connections : MemberStep(q)
             \/ \E c \in Clients : ClientStep(c) \/ \E j \in Instances : Connect(c, j)
             \/ LateCommit \/ UNCHANGED vars
      PROVE  told' = told
  BY Zenon, <1>8 DEF MemberStep, ReceiveUpdate, ReceiveSnapshot, RemoveMember, ClientStep, Connect, Welcome,
     LateCommit, vars, roomVars
<1> HIDE DEF Fine
<1> QED
  BY <1>1, <1>2, <1>4, <1>5, <1>6, <1>7, <1>8 DEF Next

LEMMA MergeOf ==
    ASSUME NEW a \in Vector, NEW b \in Vector, NEW p \in Connections
    PROVE  /\ MergeStateVectors(a, b) \in Vector
           /\ MergeStateVectors(a, b)[p] = a[p] \/ MergeStateVectors(a, b)[p] = b[p]
           /\ a[p] <= MergeStateVectors(a, b)[p] /\ b[p] <= MergeStateVectors(a, b)[p]
  BY DEF MergeStateVectors, Vector

LEMMA ToldBelowStep ==
    ASSUME Types, Types', [Next]_vars, NEW p \in Connections, NEW n \in Nat, NEW i \in Instances,
           RoomBelow(i, p, n)
    PROVE  ToldBelow(i, p, n)'
<1>1. marker[i][p] <= n /\ told[i][p] <= n /\ log[i].acks[p] <= n
  BY DEF RoomBelow, ToldBelow, LogBelow
<1>2. NoCounters[p] = 0
  BY DEF NoCounters
<1>3. marker'[i][p] <= n
  BY <1>1, <1>2, MarkerStep
<1>4. told'[i][p] <= n
  <2>1. ASSUME NEW v \in Vector, Source(i, v) PROVE v[p] <= n
    BY <1>1, <2>1 DEF Source, RoomBelow, InboxBelow
  <2>2. ASSUME NEW v \in Vector, Source(i, v), told'[i] = MergeStateVectors(told[i], v)
        PROVE  told'[i][p] <= n
    BY RoomFields, <2>1, <2>2, MergeOf, <1>1
  <2> QED
    BY <1>1, <1>2, <2>2, ToldStep
<1> QED
  BY <1>3, <1>4 DEF ToldBelow

LEMMA InboxStep ==
    ASSUME Types, [Next]_vars, NEW j \in Instances, NEW m \in Range(inbox'[j])
    PROVE  m \in Range(inbox[j]) \/ \E i \in Instances : Tells(i, m)
BY RoomTells, MemberTells, RoomsKept DEF MemberStep, ReceiveUpdate, ReceiveSnapshot, RemoveMember,
   Types, RoomTypes, Next

LEMMA InboxBelowStep ==
    ASSUME Types, Types', [Next]_vars, NEW p \in Connections, NEW n \in Nat, NEW j \in Instances,
           \A i \in Instances : RoomBelow(i, p, n), ArrivesBelow(p, n)
    PROVE  InboxBelow(j, p, n)'
<1> SUFFICES ASSUME NEW m \in Range(inbox'[j])
             PROVE  /\ m.kind = "entries" => \A e \in Range(m.entries) : e.blob.conn = p => e.ack <= n
                    /\ m.kind = "persisted" => m.vector[p] <= n
  BY DEF InboxBelow
<1>1. CASE m \in Range(inbox[j])
  BY <1>1 DEF RoomBelow, InboxBelow
<1>2. ASSUME NEW i \in Instances, Tells(i, m)
      PROVE  /\ m.kind = "entries" => \A e \in Range(m.entries) : e.blob.conn = p => e.ack <= n
             /\ m.kind = "persisted" => m.vector[p] <= n
  BY <1>2 DEF Tells, RoomBelow, ToldBelow, LogBelow, ArrivesBelow
<1> QED
  BY <1>1, <1>2, InboxStep

\* A confirmation carries what its room was told.
LEMMA ConfirmationStep ==
    ASSUME Types, Types', Members, [Next]_vars, NEW p \in Connections, NEW m \in Range(down'[p]),
           m.type = "persisted"
    PROVE  m \in Range(down[p]) \/ \E i \in Instances : m.n = told'[i][p]
<1> DEFINE Fine == m \in Range(down[p]) \/ \E i \in Instances : m.n = told'[i][p]
<1> SUFFICES Fine
  OBVIOUS
<1>1. CASE Range(down'[p]) \subseteq Range(down[p])
  BY <1>1
<1>2. ASSUME NEW c \in Clients, ClientStep(c) PROVE Fine
  <2>1. CASE HandleNext(c)
    BY <1>1, <2>1, ShorterDown
  <2>2. CASE Disconnect(c)
    BY <2>2, <1>1, RangeOfNone DEF Disconnect, Types, DownTypes
  <2>3. CASE ~HandleNext(c) /\ ~Disconnect(c)
    BY <1>2, <2>3, <1>1 DEF ClientStep, Edit, FlushFrame, SendNext, streamVars
  <2> QED
    BY <2>1, <2>2, <2>3
<1>3. ASSUME NEW c \in Clients, NEW i \in Instances, Connect(c, i) PROVE Fine
  BY <1>3, ConnectedBy, <1>1, WelcomedBy
<1>4. ASSUME NEW i \in Instances, NEW new, NEW sender, Adds(i, new, sender) PROVE Fine
  BY <1>4, AddsSends
<1>5. ASSUME NEW i \in Instances, NEW vector, Announces(i, vector) PROVE Fine
  BY <1>5, AnnouncesSends
<1>6. ASSUME NEW i \in Instances, AskClient(i) PROVE Fine
  <2>1. PICK start, new, peer, id : Asks(i, start, new, peer, id)
    BY <1>6, AskedClient
  <2>2. CASE MembersOf(i) = {}
    BY <2>1, <2>2, <1>1 DEF Asks
  <2>3. CASE MembersOf(i) # {}
    BY <2>1, <2>3, AsksSends
  <2> QED
    BY <2>2, <2>3
<1>7. CASE down' = down
  BY <1>1, <1>7
<1> HIDE DEF Fine
<1>8. ASSUME NEW q \in Connections, MemberStep(q) PROVE Fine
  <2>1. down' = down \/ \E new, sender : Adds(home[q], new, sender) /\ home[q] \in Instances
    BY Zenon, <1>8, ReceivedUpdate DEF MemberStep, ReceiveSnapshot, RemoveMember
  <2> QED
    BY <1>4, <1>7, <2>1
<1>9. ASSUME NEW i \in Instances, RoomStep(i) PROVE Fine
  <2>1. CASE AppendReturns(i) \/ CatchUp(i) \/ HandlePersistedVector(i) \/ HandleEntries(i)
    <3>1. down' = down \/ (\E new, sender : Adds(i, new, sender)) \/ (\E vector : Announces(i, vector))
      BY Zenon, <2>1, ReturnedAppend, CaughtUp, HandledVector, HandledEntries
    <3> QED
      BY <1>4, <1>5, <1>7, <3>1
  <2>2. CASE ~(AppendReturns(i) \/ CatchUp(i) \/ HandlePersistedVector(i) \/ HandleEntries(i) \/ AskClient(i))
    <3>1. down' = down
      BY <1>9, <2>2, Zenon DEF RoomStep, LoadSnapshot, LoadUpdates, AskLease, FinishLoading, Flush,
       AppendCommits, AppendFails, TakeLease, CatchUpFails, RequestSnapshot,
       AskFails, RequestTimesOut, InstallFails, InstallCommits, InstallReturns,
       HandleSyncRequest, LoseBus, RegainBus, Resync, Crash, streamVars
    <3> QED
      BY <1>7, <3>1
  <2> QED
    BY <1>6, <2>1, <2>2
<1>10. ASSUME LateCommit \/ UNCHANGED vars PROVE down' = down
  BY <1>10 DEF LateCommit, vars, streamVars
<1> QED
  BY <1>2, <1>3, <1>7, <1>8, <1>9, <1>10 DEF Next

LEMMA ConfirmedStep ==
    ASSUME Types, Types', Members, [Next]_vars, NEW c \in Clients, conn'[c] # NoConnection
    PROVE  \/ confirmed'[c] = confirmed[c] /\ (conn'[c] = conn[c] \/ conn[c] = NoConnection)
           \/ /\ conn'[c] = conn[c] /\ HandleNext(c)
              /\ \E m \in Range(down[conn[c]]) : m.type = "persisted" /\ confirmed'[c] = m.n
<1> DEFINE Fine ==
           \/ confirmed'[c] = confirmed[c] /\ (conn'[c] = conn[c] \/ conn[c] = NoConnection)
           \/ /\ conn'[c] = conn[c] /\ HandleNext(c)
              /\ \E m \in Range(down[conn[c]]) : m.type = "persisted" /\ confirmed'[c] = m.n
<1> SUFFICES Fine
  OBVIOUS
<1>1. CASE conn'[c] = conn[c] /\ confirmed'[c] = confirmed[c]
  BY <1>1
<1>2. CASE HandleNext(c)
  <2>1. conn' = conn
    BY <1>2 DEF HandleNext
  <2>2. PICK m : m = Head(down[conn[c]]) /\ m \in Range(down[conn[c]])
    BY <1>2, ShorterDown
  <2>3. CASE m.type = "persisted" /\ HandlePersisted(c, m)
    BY <2>3, <1>2, <2>1, <2>2 DEF HandlePersisted, Types, ClientTypes
  <2>4. CASE confirmed' = confirmed
    BY <1>1, <2>1, <2>4
  <2>5. confirmed' = confirmed \/ (m.type = "persisted" /\ HandlePersisted(c, m))
    BY <1>2, <2>2 DEF HandleNext, HandleState, HandleUpdate, HandleRequest
  <2> QED
    BY <2>3, <2>4, <2>5
<1>3. ASSUME NEW d \in Clients, HandleNext(d), d # c PROVE Fine
  BY <1>3, <1>1 DEF HandleNext, HandleState, HandleUpdate, HandlePersisted, HandleRequest, Types,
     ClientTypes
<1>4. ASSUME NEW d \in Clients, Disconnect(d) PROVE Fine
  BY <1>4, <1>1 DEF Disconnect, Types, ClientTypes
<1>5. ASSUME NEW d \in Clients, NEW i \in Instances, Connect(d, i) PROVE Fine
  BY <1>5, ConnectedBy
<1>6. ASSUME \/ \E d \in Clients : FlushFrame(d) \/ SendNext(d) \/ \E x \in Edits : Edit(d, x)
             \/ \E i \in Instances : RoomStep(i)
             \/ \E p \in Connections : MemberStep(p)
             \/ LateCommit /\ UNCHANGED <<providerVars, resumed>>
             \/ UNCHANGED vars
      PROVE  UNCHANGED <<conn, confirmed>>
  BY <1>6 DEF FlushFrame, SendNext, Edit, RoomStep, MemberStep, providerVars, vars
<1>7. CASE UNCHANGED <<conn, confirmed>>
  BY <1>1, <1>7
<1> HIDE DEF Fine
<1> QED
  BY <1>2, <1>3, <1>4, <1>5, <1>6, <1>7 DEF Next, ClientStep

LEMMA ClientBelowStep ==
    ASSUME Types, Types', Members, [Next]_vars, \A c \in Clients : Offline(c),
           NEW p \in Connections, NEW n \in Nat, NothingBeyond(p, n),
           \A i \in Instances : ToldBelow(i, p, n)'
    PROVE  ClientBelow(p, n)'
BY ConfirmationStep, ConfirmedStep DEF NothingBeyond, ClientBelow, ToldBelow, Connections,
   NoConnection, Offline

LEMMA BeyondStep ==
    ASSUME Types, Types', Members, [Next]_vars, \A c \in Clients : Offline(c),
           NEW p \in Connections, NEW n \in Nat, NothingBeyond(p, n), ArrivesBelow(p, n)
    PROVE  NothingBeyond(p, n)'
BY LogBelowStep, ToldBelowStep, InboxBelowStep, ClientBelowStep DEF NothingBeyond, RoomBelow

LEMMA BeyondMore ==
    ASSUME Types, NEW p \in Connections, NEW n \in Nat, NEW more \in Nat, n <= more,
           NothingBeyond(p, n)
    PROVE  NothingBeyond(p, more)
<1>1. ASSUME NEW i \in Instances PROVE RoomBelow(i, p, more)
  <2>1. RoomBelow(i, p, n)
    BY DEF NothingBeyond
  <2>2. PICK l \in LogRecord : l = log[i]
    BY RoomFields
  <2>3. l.acks[p] \in Nat /\ \A e \in Range(l.entries) : e.ack \in Nat
    BY LogFields, ElementsOf, EntryFields DEF LogRecord
  <2>4. LogBelow(i, p, more)
    BY <2>1, <2>2, <2>3 DEF RoomBelow, LogBelow
  <2>5. ToldBelow(i, p, more)
    BY RoomFields, <2>1 DEF Vector, RoomBelow, ToldBelow
  <2>6. InboxBelow(i, p, more)
    BY RoomFields, ElementsOf, BusFields, EntryFields, <2>1 DEF InboxBelow, RoomBelow, Vector
  <2> QED
    BY <2>4, <2>5, <2>6 DEF RoomBelow
<1>2. ClientBelow(p, more)
  BY DownOf, DownFields, ClientFields DEF NothingBeyond, ClientBelow
<1> QED
  BY <1>1, <1>2 DEF NothingBeyond

LEMMA CounterStep ==
    ASSUME Types, Types', Members, [Next]_vars, NEW c \in Clients, conn'[c] # NoConnection
    PROVE  counter[c] <= counter'[c] /\ (conn'[c] # conn[c] => counter'[c] = counter[c])
<1> DEFINE Fine == counter[c] <= counter'[c] /\ (conn'[c] # conn[c] => counter'[c] = counter[c])
<1> SUFFICES Fine
  OBVIOUS
<1>1. CASE counter'[c] = counter[c]
  BY <1>1, ClientFields
<1>2. ASSUME NEW d \in Clients, SendNext(d) PROVE Fine
  <2>1. conn' = conn
    BY <1>2 DEF SendNext
  <2>2. counter' = counter \/ counter' = [counter EXCEPT ![d] = counter[d] + 1]
    BY <1>2 DEF SendNext
  <2>3. counter \in [Clients -> Nat]
    BY DEF Types, ClientTypes
  <2> QED
    BY <2>1, <2>2, <2>3
<1>3. ASSUME NEW d \in Clients, Disconnect(d) PROVE Fine
  BY <1>3, <1>1 DEF Disconnect, Types, ClientTypes
<1>4. ASSUME \/ \E d \in Clients : FlushFrame(d) \/ HandleNext(d) \/ \E x \in Edits : Edit(d, x)
             \/ \E d \in Clients : \E i \in Instances : Connect(d, i)
             \/ \E i \in Instances : RoomStep(i)
             \/ \E p \in Connections : MemberStep(p)
             \/ LateCommit /\ UNCHANGED <<providerVars, resumed>>
             \/ UNCHANGED vars
      PROVE  counter' = counter
  BY <1>4 DEF FlushFrame, HandleNext, Edit, Connect, RoomStep, MemberStep, providerVars, vars
<1>5. CASE counter' = counter
  BY <1>1, <1>5
<1> HIDE DEF Fine
<1> QED
  BY <1>2, <1>3, <1>4, <1>5 DEF Next, ClientStep

Counted(c) ==
    \A p \in Connections : \A n \in Nat : p = conn[c] /\ n = counter[c] => NothingBeyond(p, n)
Unopened(p) == p > opened => NothingBeyond(p, 0)

\* An update that its room has not received has a number beyond all that was confirmed, and its
\* client has counted it.
Due(p, m) ==
    m.type = "update" =>
        /\ m.blob.conn = p
        /\ \E n \in Nat : m.blob.n = n + 1 /\ NothingBeyond(p, n)
        /\ \A c \in Clients : conn[c] = p => m.blob.n <= counter[c]
InTurn(p) ==
    \A j, k \in DOMAIN up[p] :
        j < k /\ up[p][j].type = "update" /\ up[p][k].type = "update"
            => up[p][j].blob.n < up[p][k].blob.n
Numbers(p) == (\A m \in Range(up[p]) : Due(p, m)) /\ InTurn(p)

LEMMA ReceivedOf ==
    ASSUME Types, NEW q \in Connections, ReceiveUpdate(q)
    PROVE  /\ Head(up[q]) \in Range(up[q]) /\ Head(up[q]).type = "update" /\ Head(up[q]).blob \in Blobs
           /\ Head(up[q]).blob.n \in Nat /\ up'[q] = Tail(up[q]) /\ up[q] # <<>> /\ up[q] \in Seq(UpMessage)
BY ReceivedUpdate, RangeOfRest, BlobFields DEF Types, StreamTypes

LEMMA Arriving ==
    ASSUME Types, \A q \in Connections : Numbers(q), NEW p \in Connections, NEW n \in Nat,
           ReceiveUpdate(p) => Head(up[p]).blob.n <= n
    PROVE  ArrivesBelow(p, n)
BY ReceivedOf DEF ArrivesBelow, Numbers, Due

LEMMA DueStep ==
    ASSUME Types, Types', Members, [Next]_vars, \A c \in Clients : Offline(c),
           \A q \in Connections : Numbers(q), NEW p \in Connections, NEW m \in Range(up[p]),
           m.type = "update" /\ ReceiveUpdate(p) => Head(up[p]).blob.n < m.blob.n
    PROVE  Due(p, m)'
<1> SUFFICES ASSUME m.type = "update"
             PROVE  /\ m.blob.conn = p
                    /\ \E n \in Nat : m.blob.n = n + 1 /\ NothingBeyond(p, n)'
                    /\ \A c \in Clients : conn'[c] = p => m.blob.n <= counter'[c]
  BY DEF Due
<1>1. PICK n \in Nat : m.blob.n = n + 1 /\ NothingBeyond(p, n)
  BY DEF Numbers, Due
<1>2. ReceiveUpdate(p) => Head(up[p]).blob.n <= n
  BY <1>1, ReceivedOf
<1>3. ArrivesBelow(p, n)
  BY <1>2, Arriving
<1>4. NothingBeyond(p, n)'
  BY <1>1, <1>3, BeyondStep
<1>5. m.blob.conn = p /\ \A c \in Clients : conn[c] = p => m.blob.n <= counter[c]
  BY DEF Numbers, Due
<1>6. p <= opened
  BY RangeOfNone, OpenedOf DEF Members
<1>7. ASSUME NEW c \in Clients, conn'[c] = p PROVE m.blob.n <= counter'[c]
  <2>1. conn[c] = p /\ p # NoConnection
    BY <1>6, <1>7, PeerStep DEF Connections, NoConnection
  <2>2. counter[c] <= counter'[c]
    BY <1>7, <2>1, CounterStep
  <2>3. counter[c] \in Nat /\ counter'[c] \in Nat
    BY DEF Types, ClientTypes
  <2> QED
    BY <1>1, <1>5, <2>1, <2>2, <2>3
<1> QED
  BY <1>1, <1>4, <1>5, <1>7

LEMMA CountedStep ==
    ASSUME Types, Types', Members, [Next]_vars, \A c \in Clients : Offline(c),
           \A q \in Connections : Numbers(q) /\ Unopened(q), NEW c \in Clients, Counted(c)
    PROVE  Counted(c)'
<1> SUFFICES ASSUME NEW p \in Connections, NEW more \in Nat, p = conn'[c], more = counter'[c]
             PROVE  NothingBeyond(p, more)'
  BY DEF Counted
<1>1. p # NoConnection
  BY DEF Connections, NoConnection
<1>2. PICK n \in Nat : n = counter[c]
  BY DEF Types, ClientTypes
<1>3. n <= more
  BY <1>1, <1>2, CounterStep
<1>5. NothingBeyond(p, n) /\ (ReceiveUpdate(p) => Head(up[p]).blob.n <= n)
  <2>1. CASE conn[c] = p
    <3>1. NothingBeyond(p, n)
      BY <1>2, <2>1 DEF Counted
    <3>2. ReceiveUpdate(p) => Head(up[p]).blob.n <= n
      BY <1>2, <2>1, ReceivedOf DEF Numbers, Due
    <3> QED
      BY <3>1, <3>2
  <2>2. CASE conn[c] # p
    <3>1. PICK i \in Instances : Connect(c, i)
      BY <1>1, <2>2, ConnStep
    <3>2. p = opened + 1 /\ conn[c] = NoConnection /\ up[p] = <<>>
      BY <3>1, ConnectedBy
    <3>3. n = 0
      BY <1>2, <3>2 DEF Offline
    <3>4. NothingBeyond(p, n)
      BY <3>2, <3>3, OpenedOf DEF Unopened
    <3>5. ~ReceiveUpdate(p)
      BY <3>2, ReceivedOf
    <3> QED
      BY <3>4, <3>5
  <2> QED
    BY <2>1, <2>2
<1>6. NothingBeyond(p, more)
  BY <1>3, <1>5, BeyondMore
<1>7. ReceiveUpdate(p) => Head(up[p]).blob.n <= more
  BY <1>3, <1>5, ReceivedOf
<1> QED
  BY <1>6, <1>7, Arriving, BeyondStep

LEMMA OpenedStep ==
    ASSUME Types, [Next]_vars
    PROVE  opened <= opened'
<1>1. opened \in Nat
  BY OpenedOf
<1>2. ASSUME NEW c \in Clients, ClientStep(c) PROVE opened' = opened
  BY <1>2 DEF ClientStep, Edit, FlushFrame, SendNext, HandleNext, Disconnect, streamVars
<1>3. ASSUME NEW c \in Clients, NEW i \in Instances, Connect(c, i) PROVE opened' = opened + 1
  BY <1>3 DEF Connect, Welcome
<1>4. ASSUME NEW i \in Instances, RoomStep(i) PROVE opened' = opened
  BY <1>4, Zenon DEF RoomStep, LoadSnapshot, LoadUpdates, AskLease, FinishLoading, Flush,
     AppendCommits, AppendReturns, AppendFails, TakeLease, CatchUp, CatchUpFails, RequestSnapshot,
     AskClient, AskFails, RequestTimesOut, InstallFails, InstallCommits, InstallReturns, HandleEntries,
     HandleSyncRequest, HandlePersistedVector, LoseBus, RegainBus, Resync, Crash, streamVars
<1>5. ASSUME NEW q \in Connections, MemberStep(q) PROVE opened' = opened
  BY <1>5 DEF MemberStep, ReceiveUpdate, ReceiveSnapshot, RemoveMember
<1>6. ASSUME LateCommit \/ UNCHANGED vars PROVE opened' = opened
  BY <1>6 DEF LateCommit, vars, streamVars
<1>7. opened' = opened \/ opened' = opened + 1
  BY <1>2, <1>3, <1>4, <1>5, <1>6 DEF Next
<1> QED
  BY <1>1, <1>7

LEMMA UnopenedStep ==
    ASSUME Types, Types', Members, [Next]_vars, \A c \in Clients : Offline(c),
           \A q \in Connections : Numbers(q), NEW p \in Connections, Unopened(p)
    PROVE  Unopened(p)'
<1> SUFFICES ASSUME p > opened' PROVE NothingBeyond(p, 0)'
  BY DEF Unopened
<1>1. opened' \in Nat
  BY DEF Types, StreamTypes
<1>2. p > opened
  BY <1>1, OpenedOf, OpenedStep
<1>3. up[p] = <<>>
  BY <1>2 DEF Members
<1>4. NothingBeyond(p, 0)
  BY <1>2 DEF Unopened
<1>5. ~ReceiveUpdate(p)
  BY <1>3, ReceivedOf
<1>6. ArrivesBelow(p, 0)
  BY <1>5, Arriving
<1> QED
  BY <1>4, <1>6, BeyondStep

LEMMA InTurnTail ==
    ASSUME Types, Types', NEW p \in Connections, up'[p] = Tail(up[p]), up[p] # <<>>, InTurn(p)
    PROVE  InTurn(p)'
<1>1. PICK q \in Seq(UpMessage) : q = up[p] /\ q # <<>>
  BY DownOf
<1>2. PICK t \in Seq(UpMessage) : t = up'[p] /\ t = Tail(q)
  BY Zenon, <1>1 DEF Types, StreamTypes
<1>3. /\ Len(q) \in Nat /\ DOMAIN t = 1..(Len(q) - 1)
      /\ \A k \in DOMAIN t : k + 1 \in DOMAIN q /\ t[k] = q[k + 1]
  BY <1>1, <1>2, TailOf
<1>4. ASSUME NEW j \in DOMAIN t, NEW k \in DOMAIN t, j < k, t[j].type = "update", t[k].type = "update"
      PROVE  t[j].blob.n < t[k].blob.n
  <2>1. j \in Nat /\ k \in Nat
    BY <1>3
  <2>2. j + 1 \in DOMAIN q /\ k + 1 \in DOMAIN q /\ j + 1 < k + 1
    BY <1>3, <1>4, <2>1
  <2>3. t[j] = q[j + 1] /\ t[k] = q[k + 1]
    BY <1>3
  <2> QED
    BY <1>1, <1>4, <2>2, <2>3 DEF InTurn
<1> QED
  BY Zenon, <1>2, <1>4 DEF InTurn

LEMMA InTurnLonger ==
    ASSUME Types, Types', NEW p \in Connections, InTurn(p), NEW m \in UpMessage,
           up'[p] = Append(up[p], m),
           m.type = "update" => \A x \in Range(up[p]) : x.type = "update" => x.blob.n < m.blob.n
    PROVE  InTurn(p)'
<1>1. PICK q \in Seq(UpMessage) : q = up[p]
  BY DownOf
<1>2. PICK t \in Seq(UpMessage) : t = up'[p] /\ t = Append(q, m)
  BY Zenon, <1>1 DEF Types, StreamTypes
<1>3. /\ Len(q) \in Nat /\ DOMAIN q = 1..Len(q) /\ DOMAIN t = 1..(Len(q) + 1)
      /\ t[Len(q) + 1] = m
      /\ \A k \in DOMAIN q : t[k] = q[k] /\ q[k] \in Range(q)
  BY <1>2, ElementsOf
<1>4. ASSUME NEW j \in DOMAIN t, NEW k \in DOMAIN t, j < k, t[j].type = "update", t[k].type = "update"
      PROVE  t[j].blob.n < t[k].blob.n
  <2>1. j \in DOMAIN q
    BY <1>3, <1>4
  <2>2. CASE k \in DOMAIN q
    BY <1>1, <1>3, <1>4, <2>1, <2>2 DEF InTurn
  <2>3. CASE k = Len(q) + 1
    BY <1>3, <2>1, <2>3, <1>1, <1>4
  <2> QED
    BY <1>3, <2>2, <2>3
<1> QED
  BY <1>2, <1>4 DEF InTurn

LEMMA NotReceived ==
    ASSUME Types, NEW p \in Connections, up'[p] = up[p] \/ \E m \in UpMessage : up'[p] = Append(up[p], m)
    PROVE  ~ReceiveUpdate(p)
<1> SUFFICES ASSUME ReceiveUpdate(p) PROVE FALSE
  OBVIOUS
<1>1. PICK q \in Seq(UpMessage) : q = up[p] /\ q # <<>> /\ up'[p] = Tail(q)
  BY Zenon, ReceivedOf
<1>2. Len(q) \in Nat /\ Len(Tail(q)) = Len(q) - 1
  BY <1>1, TailOf
<1>3. CASE up'[p] = up[p]
  <2>1. Len(q) = Len(q) - 1
    BY Zenon, <1>1, <1>2, <1>3
  <2> QED
    BY <1>2, <2>1
<1>4. ASSUME NEW m \in UpMessage, up'[p] = Append(up[p], m) PROVE FALSE
  BY <1>1, <1>2, <1>4
<1> QED
  BY <1>3, <1>4

LEMMA NumbersStep ==
    ASSUME Types, Types', Members, [Next]_vars, \A c \in Clients : Offline(c) /\ Counted(c),
           \A q \in Connections : Numbers(q), NEW p \in Connections
    PROVE  Numbers(p)'
<1> DEFINE Fine == (\A m \in Range(up'[p]) : Due(p, m)') /\ InTurn(p)'
<1> SUFFICES Fine
  BY DEF Numbers
<1>1. InTurn(p)
  BY DEF Numbers
<1>2. CASE up'[p] = up[p]
  BY <1>2, NotReceived, DueStep, <1>1 DEF InTurn
<1>3. CASE up'[p] = <<>>
  BY <1>3, RangeOfNone DEF InTurn
<1>4. CASE up'[p] = Tail(up[p]) /\ up[p] # <<>>
  <2>1. InTurn(p)'
    BY <1>1, <1>4, InTurnTail
  <2>2. ASSUME NEW m \in Range(up'[p]) PROVE Due(p, m)'
    <3>1. PICK q \in Seq(UpMessage) : q = up[p] /\ q # <<>>
      BY <1>4, DownOf
    <3>2. Tail(q) \in Seq(UpMessage) /\ m \in Range(Tail(q))
      BY <1>4, <2>2, <3>1, TailOf
    <3>3. PICK k \in DOMAIN Tail(q) : m = Tail(q)[k]
      BY Zenon, <3>2, ElementsOf
    <3>4. /\ Head(q) = q[1] /\ 1 \in DOMAIN q /\ k \in Nat /\ 1 <= k
          /\ k + 1 \in DOMAIN q /\ m = q[k + 1] /\ m \in Range(q)
      BY <3>1, <3>3, TailOf, ElementsOf
    <3>5. 1 < k + 1
      BY <3>4
    <3>6. ASSUME m.type = "update", ReceiveUpdate(p) PROVE Head(up[p]).blob.n < m.blob.n
      BY <3>1, <3>4, <3>6, ReceivedOf, <1>1, <3>5 DEF InTurn
    <3> QED
      BY <3>1, <3>4, <3>6, DueStep
  <2> QED
    BY <2>1, <2>2
<1>5. ASSUME NEW c \in Clients, NEW m \in UpMessage, Posts(c, p, m) PROVE Fine
  <2>1. /\ up'[p] = Append(up[p], m) /\ conn[c] = p /\ SendNext(c)
        /\ m.type = "update" =>
            m.blob.conn = p /\ m.blob.n = counter[c] + 1 /\ counter'[c] = counter[c] + 1
    BY <1>5 DEF Posts
  <2>2. ~ReceiveUpdate(p)
    BY <2>1, NotReceived
  <2>3. Range(up'[p]) = Range(up[p]) \cup {m}
    BY <2>1, DownOf, RangeOfLonger
  <2>4. PICK n \in Nat : n = counter[c]
    BY ClientFields
  <2>5. NothingBeyond(p, n)'
    BY <2>1, <2>4, <2>2, Arriving, BeyondStep DEF Counted
  <2>6. ASSUME m.type = "update" PROVE Due(p, m)'
    BY <2>1, <2>4, <2>6, <2>5 DEF SendNext, Members, Connections, NoConnection, Due
  <2>7. ASSUME m.type # "update" PROVE Due(p, m)'
    BY <2>7 DEF Due
  <2>8. \A x \in Range(up[p]) : Due(p, x)'
    BY <2>2, DueStep
  <2>9. ASSUME m.type = "update", NEW x \in Range(up[p]), x.type = "update" PROVE x.blob.n < m.blob.n
    BY <2>1, <2>9, <2>4 DEF Numbers, Due
  <2>10. InTurn(p)'
    BY <1>1, <2>1, <2>9, InTurnLonger
  <2> QED
    BY <2>3, <2>6, <2>7, <2>8, <2>10
<1> HIDE DEF Fine
<1> QED
  BY <1>2, <1>3, <1>4, <1>5, UpShape

-----------------------------------------------------------------------------
(* The invariant behind SavedIsReceived. *)

Counting ==
    /\ \A c \in Clients : Offline(c) /\ Counted(c)
    /\ \A p \in Connections : Numbers(p) /\ Unopened(p)

Reaching ==
    /\ \A c \in Clients : Receiving(c)
    /\ \A p \in Connections : DownSafe(p)
    /\ \A i \in Instances : Installed(i)

LEMMA CountingInit == Init => Counting
<1> SUFFICES ASSUME Init PROVE Counting
  OBVIOUS
<1> USE DEF Init, ProviderInit, RoomInit
<1>1. ASSUME NEW c \in Clients PROVE Offline(c) /\ Counted(c)
  BY DEF Offline, Counted, Connections, NoConnection
<1>2. ASSUME NEW p \in Connections PROVE Numbers(p)
  BY RangeOfNone DEF Numbers, InTurn
<1>3. ASSUME NEW p \in Connections, NEW i \in Instances PROVE RoomBelow(i, p, 0)
  BY RangeOfNone DEF EmptyLog, NoCounters, RoomBelow, LogBelow, ToldBelow, InboxBelow
<1>4. ASSUME NEW p \in Connections PROVE Unopened(p)
  BY RangeOfNone, <1>3 DEF Unopened, NothingBeyond, ClientBelow
<1> QED
  BY <1>1, <1>2, <1>4 DEF Counting

LEMMA ReachingInit == Init => Reaching
BY RangeOfNone DEF Init, ProviderInit, RoomInit, EmptyLog, Installed, Receiving, DownSafe, Reaching

LEMMA CountingStep == Basis /\ Counting /\ [Next]_vars => Counting'
BY TypesStep, OfflineStep, CountedStep, NumbersStep, UnopenedStep DEF Basis, Counting

LEMMA ReachingStep == Basis /\ Shows /\ Counting /\ Reaching /\ [Next]_vars => Reaching'
BY TypesStep, ReceivingStep, DownSafeStep, InstalledStep DEF Basis, Counting, Shows, Reaching

LEMMA ReceivedWhenSaved == Basis /\ Counting /\ Reaching => SavedIsReceived
<1> SUFFICES ASSUME Basis, Counting, Reaching,
                    NEW c \in Clients, conn[c] \in member, synced[c], Saved(c),
                    NEW e \in OwnEdits(c)
             PROVE  e \in Content(log[home[conn[c]]]) \cup Kept
  BY DEF SavedIsReceived
<1>1. Types
  BY DEF Basis
<1>2. PICK p \in Connections : p = conn[c]
  BY <1>1 DEF Types, StreamTypes
<1>3. e \in doc[c]
  BY DEF OwnEdits
<1>4. Carried(c, e) \/ e \in Safe(home[conn[c]])
  BY <1>3 DEF Reaching, Receiving
<1>5. ~(e \in pending[c])
  BY DEF Saved
<1>6. ASSUME NEW m \in Range(sending[c]), m.type = "update" PROVE FALSE
  BY <1>1, ClientFields, ElementsOf, <1>6 DEF Inflight, Saved
<1>7. ASSUME NEW m \in Range(up[conn[c]]), m.type = "update" PROVE FALSE
  BY <1>2, <1>7, <1>1, ClientFields DEF Counting, Numbers, Due, NothingBeyond, ClientBelow, Saved
<1>8. e \in Safe(home[conn[c]])
  BY <1>4, <1>5, <1>6, <1>7 DEF Carried
<1> QED
  BY <1>8 DEF Safe

\* A synced client that is told everything is saved has been heard: for any number of clients and
\* instances, whatever crashes, disconnects and lost replies there were, its room or the database
\* has all it wrote, or had it stored once.  recomputeSaveState (encryptedProvider.ts) counts the
\* updates that are being encrypted and compares counters; the invariant says no counter the server
\* answers with is beyond an update the room has not received.
THEOREM SavedWasReceived == Spec => []SavedIsReceived
<1> DEFINE Inv == Basis /\ Shows /\ Counting /\ Reaching
<1>1. Init => Inv
  BY BasisInit, ShowsInit, CountingInit, ReachingInit
<1>2. Inv /\ [Next]_vars => Inv'
  BY BasisStep, ShowsStep, CountingStep, ReachingStep
<1>3. Inv => SavedIsReceived
  BY ReceivedWhenSaved
<1> HIDE DEF Inv
<1> QED
  BY <1>1, <1>2, <1>3, PTL DEF Spec

-----------------------------------------------------------------------------
(* A single instance: it writes the board while it is up.                     *)

\* It has nobody to catch up with or to hear from; what it counted is announced, in the marker
\* of its append, or there is something in its queue.
Solo(i) ==
    /\ ~catching[i] /\ inbox[i] = <<>> /\ lease \in {i, NoRoom}
    /\ phase[i] \in {"draining", "open"} => active[i]
    /\ phase[i] \in {"down", "loading", "leasing"} => ~active[i] /\ lease = NoRoom
    /\ phase[i] # "open" =>
        /\ told[i] = NoCounters /\ queue[i] = <<>> /\ batch[i] = <<>>
        /\ \A p \in Connections : log[i].acks[p] = 0
    /\ batch[i] = <<>> => marker[i] = NoCounters
    /\ queue[i] = <<>> =>
        \A p \in Connections : log[i].acks[p] <= told[i][p] \/ log[i].acks[p] <= marker[i][p]

\* The only instance is everybody's.
LEMMA OnlyOne ==
    ASSUME NEW i, Instances = {i}, Types, Members
    PROVE  /\ \A p \in member : home[p] = i /\ p \in MembersOf(i) /\ phase[i] = "open"
           /\ \A c \in Clients : conn[c] \in member => conn[c] \in MembersOf(i) \cap reading
           /\ \A p \in Connections : MemberStep(p) => p \in member
BY OpenedOf DEF Types, RoomTypes, Members, StreamTypes, MemberStep, ReceiveUpdate, ReceiveSnapshot,
   RemoveMember, MembersOf

\* Entries without a counter leave the counters as they are.
LEMMA SameAcks ==
    ASSUME NEW l \in LogRecord, NEW new \in Seq(EntryRecord), NEW m, Extends(l, new, m),
           \A e \in Range(new) : e.ack = 0
    PROVE  \A p \in Connections : m.acks[p] = l.acks[p]
<1> TAKE p \in Connections
<1>1. l.acks[p] \in Nat /\ m.acks[p] \in Nat
  BY LogFields DEF Extends
<1>2. l.acks[p] <= m.acks[p] /\ (m.acks[p] = l.acks[p] \/ m.acks[p] = 0)
  BY DEF Extends
<1> QED
  BY <1>1, <1>2

\* The counters of the only instance change when it receives an update, and when it dies.
LEMMA AcksStep ==
    ASSUME NEW i, Instances = {i}, Types, [Next]_vars, Solo(i), NEW p \in Connections
    PROVE  \/ log'[i].acks[p] = log[i].acks[p]
           \/ \E q \in Connections :
                /\ ReceiveUpdate(q) /\ Head(up[q]).blob.conn = p
                /\ log'[i].acks[p] = Head(up[q]).blob.n /\ log[i].acks[p] <= Head(up[q]).blob.n
           \/ Crash(i) /\ log'[i].acks[p] = 0
<1>1. i \in Instances /\ log[i] \in LogRecord
  BY RoomFields
<1>2. CASE Gains(i)
  <2>1. PICK new \in Seq(EntryRecord) :
            Extends(log[i], new, log'[i]) /\ \A e \in Range(new) : Arrived(i, e)
    BY <1>2 DEF Gains
  <2>2. Range(inbox[i]) = {}
    BY RangeOfNone DEF Solo
  <2>3. log[i].acks[p] \in Nat /\ log'[i].acks[p] \in Nat /\ log[i].acks[p] <= log'[i].acks[p]
    BY <1>1, <2>1, LogFields DEF Extends
  <2>4. CASE log'[i].acks[p] # log[i].acks[p]
    BY <2>1, <2>4, <2>3, <2>2 DEF Extends, Arrived
  <2> QED
    BY <2>4
<1>3. CASE Renumbers(log[i], log'[i])
  BY <1>3 DEF Renumbers
<1>4. CASE \E s : Returns(i, s)
  BY <1>1, <1>4, ReturnedOf
<1>5. CASE Crash(i) /\ log'[i] = EmptyLog
  BY <1>5 DEF EmptyLog, NoCounters
<1>6. CASE LoadSnapshot(i) /\ log'[i] = [log[i] EXCEPT !.upto = snapUpto, !.snapshot = snapState]
  BY <1>1, <1>6 DEF LogRecord
<1> QED
  BY <1>1, <1>2, <1>3, <1>4, <1>5, <1>6, LogStep

\* Nothing that Solo speaks of changes.
Unmoved(i) ==
    /\ catching'[i] = catching[i] /\ inbox'[i] = inbox[i] /\ lease' = lease
    /\ active'[i] = active[i] /\ phase'[i] = phase[i] /\ told'[i] = told[i]
    /\ queue'[i] = queue[i] /\ batch'[i] = batch[i] /\ marker'[i] = marker[i]
    /\ \A p \in Connections : log'[i].acks[p] = log[i].acks[p]

LEMMA SoloKept ==
    ASSUME NEW i, Solo(i), Unmoved(i)
    PROVE  Solo(i)'
  BY DEF Solo, Unmoved

LEMMA SoloInit ==
    ASSUME NEW i, Instances = {i}, Init
    PROVE  Solo(i)
  BY DEF Init, RoomInit, Solo, EmptyLog, NoCounters

\* What the only instance does with an update: a new one is counted, known and queued.
Taking(i, p, b) ==
    /\ p \in member /\ b = Head(up[p]).blob /\ b \in Blobs
    /\ UNCHANGED <<catching, lease, active, phase, told, batch, marker, rows, late>>
    /\ inbox'[i] = inbox[i]
    /\ \/ b \in log[i].known /\ queue'[i] = queue[i] /\ log'[i] = log[i]
       \/ /\ b \notin log[i].known /\ queue'[i] = queue[i] \o <<b>>
          /\ log'[i].known = log[i].known \cup {b}
          /\ b.conn \in Connections => b.n <= log'[i].acks[b.conn]

LEMMA OneBlob ==
    ASSUME NEW e \in EntryRecord
    PROVE  BlobsOf(<<e>>) = <<e.blob>> /\ Range(BlobsOf(<<e>>)) = {e.blob} /\ Range(<<e>>) = {e}
BY OneOf, EntryFields, RangeOfOne DEF BlobsOf

LEMMA TakenBy ==
    ASSUME NEW i, Instances = {i}, Types, Members, Solo(i), NEW p \in Connections, ReceiveUpdate(p)
    PROVE  Taking(i, p, Head(up[p]).blob)
<1>1. p \in member /\ home[p] = i /\ i \in Instances /\ phase[i] = "open" /\ active[i]
  BY OnlyOne DEF Solo, ReceiveUpdate
<1>2. PICK b \in Blobs : b = Head(up[p]).blob
  BY ReceivedUpdate
<1>3. UNCHANGED <<catching, lease, active, phase, told, batch, marker, rows, late>>
  BY ReceivedUpdate DEF databaseVars, faultVars
<1>4. CASE UNCHANGED <<log, queue, inbox>> /\ b \in log[i].known
  BY <1>1, <1>2, <1>3, <1>4 DEF Taking
<1>5. CASE ~(UNCHANGED <<log, queue, inbox>> /\ b \in log[i].known)
  <2>1. PICK new \in Seq(EntryRecord) :
          /\ new = <<Entry(b, b.n, 0)>> /\ b \notin log[i].known
          /\ Enqueue(i, BlobsOf(new)) /\ inbox'[i] = inbox[i] /\ Extends(log[i], new, log'[i])
    BY Zenon, <1>1, <1>2, <1>5, ReceivedUpdate DEF Adds
  <2>2. b.n \in Nat
    BY BlobFields
  <2>3. PICK e \in EntryRecord : e = Entry(b, b.n, 0) /\ e.blob = b /\ e.ack = b.n
    BY <2>2, EntryOf
  <2>4. BlobsOf(new) = <<b>> /\ Range(BlobsOf(new)) = {b} /\ e \in Range(new)
    BY <2>1, <2>3, OneBlob
  <2>5. queue'[i] = queue[i] \o <<b>>
    BY Zenon, <1>1, <2>1, <2>4 DEF Types, QueueTypes, Enqueue
  <2>6. log'[i].known = log[i].known \cup {b}
    BY <2>1, <2>4 DEF Extends
  <2>7. b.conn \in Connections => b.n <= log'[i].acks[b.conn]
    BY <2>1, <2>3, <2>4 DEF Extends
  <2> QED
    BY <1>1, <1>2, <1>3, <2>1, <2>5, <2>6, <2>7 DEF Taking
<1> QED
  BY <1>2, <1>4, <1>5

\* What clients and their messages do to it.
LEMMA SoloMember ==
    ASSUME NEW i, Instances = {i}, Types, Members, NEW p \in Connections, MemberStep(p), Solo(i)
    PROVE  Solo(i)'
<1>1. /\ home[p] = i /\ i \in Instances /\ phase[i] = "open" /\ active[i]
  BY OnlyOne DEF Solo
<1>2. CASE ReceiveUpdate(p)
  <2>1. PICK b : Taking(i, p, b)
    BY <1>2, TakenBy
  <2>2. CASE queue'[i] = queue[i] /\ log'[i] = log[i]
    BY <2>1, <2>2, SoloKept DEF Taking, Unmoved
  <2>3. CASE queue'[i] = queue[i] \o <<b>>
    <3>1. queue'[i] # <<>>
      BY <1>1, <2>1, <2>3, RoomFields DEF Taking
    <3> QED
      BY <1>1, <2>1, <3>1 DEF Taking, Solo
  <2> QED
    BY <2>1, <2>2, <2>3 DEF Taking
<1>3. CASE ReceiveSnapshot(p)
  BY <1>3, SoloKept DEF Unmoved, ReceiveSnapshot, queueVars, busVars
<1>4. CASE RemoveMember(p)
  BY <1>4, SoloKept DEF Unmoved, RemoveMember, queueVars, busVars
<1> QED
  BY <1>2, <1>3, <1>4 DEF MemberStep

\* Loading.
LEMMA SoloLoading ==
    ASSUME NEW i, Instances = {i}, Types, Solo(i), \A p \in Connections : log'[i].acks[p] = log[i].acks[p],
           LoadSnapshot(i) \/ LoadUpdates(i) \/ AskLease(i) \/ FinishLoading(i)
    PROVE  Solo(i)'
<1>1. i \in Instances
  OBVIOUS
<1>2. phase \in [Instances -> {"down", "loading", "leasing", "draining", "open"}]
      /\ active \in [Instances -> BOOLEAN]
  BY DEF Types, RoomTypes, QueueTypes
<1>3. CASE LoadSnapshot(i)
  BY <1>1, <1>2, <1>3 DEF Solo, LoadSnapshot, queueVars
<1>4. CASE LoadUpdates(i)
  BY <1>1, <1>2, <1>4 DEF Solo, LoadUpdates, queueVars, busVars
<1>5. CASE AskLease(i)
  BY <1>1, <1>2, <1>5 DEF Solo, AskLease, busVars
<1>6. CASE FinishLoading(i)
  BY <1>1, <1>2, <1>6 DEF FinishLoading, Publish, queueVars, Solo
<1> QED
  BY <1>3, <1>4, <1>5, <1>6

\* Writing.
LEMMA SoloWriting ==
    ASSUME NEW i, Instances = {i}, Types, LogOf(i), Solo(i),
           \A p \in Connections : log'[i].acks[p] = log[i].acks[p],
           Flush(i) \/ AppendCommits(i) \/ AppendReturns(i) \/ AppendFails(i)
    PROVE  Solo(i)'
<1>1. i \in Instances /\ log[i].acks \in [Connections -> Nat] /\ marker[i] \in Vector /\ told[i] \in Vector
  BY RoomFields, LogFields
<1>2. CASE Flush(i)
  BY <1>1, <1>2 DEF Flush, Types, QueueTypes, busVars, Vector, Solo
<1>3. CASE AppendCommits(i)
  BY <1>3, SoloKept DEF Unmoved, AppendCommits, busVars
<1>4. CASE AppendReturns(i)
  <2>1. /\ batch[i] # <<>> /\ batch'[i] = <<>> /\ marker'[i] = NoCounters /\ inbox'[i] = inbox[i]
        /\ told'[i] = MergeStateVectors(told[i], marker[i])
        /\ UNCHANGED <<lease, phase, active, catching, queue>>
    BY <1>1, <1>4, ReturnedAppend DEF LogOf, Appended, Announces, Types, QueueTypes
  <2>2. phase[i] = "open"
    BY <2>1 DEF Solo
  <2>3. \A p \in Connections : /\ told[i][p] <= told'[i][p] /\ marker[i][p] <= told'[i][p]
                               /\ told[i][p] \in Nat /\ told'[i][p] \in Nat /\ marker[i][p] \in Nat
                               /\ log[i].acks[p] \in Nat
    BY Zenon, <1>1, <2>1, MergedOf DEF Vector
  <2>4. queue[i] = <<>> => \A p \in Connections : log'[i].acks[p] <= told'[i][p]
    BY <2>3 DEF Solo
  <2> QED
    BY <2>1, <2>2, <2>4 DEF Solo
<1>5. CASE AppendFails(i)
  BY <1>1, <1>5, RoomFields DEF AppendFails, busVars, Types, QueueTypes, Solo
<1> QED
  BY <1>2, <1>3, <1>4, <1>5

\* A step of the only instance that only concerns snapshots or the bus.
Aside(i) ==
    /\ UNCHANGED <<rows, late, lease, phase, home, queueVars, told, opened, reading, member, up>>
    /\ inbox'[i] = inbox[i]

\* A single instance has no other steps than these.
LEMMA StepsAlone ==
    ASSUME NEW i, Instances = {i}, Types, Solo(i), RoomStep(i)
    PROVE  \/ LoadSnapshot(i) \/ LoadUpdates(i) \/ AskLease(i) \/ FinishLoading(i)
           \/ Flush(i) \/ AppendCommits(i) \/ AppendReturns(i) \/ AppendFails(i)
           \/ Crash(i) \/ Aside(i)
<1>1. i \in Instances /\ inbox[i] = <<>> /\ ~catching[i] /\ inbox \in [Instances -> Seq(BusMessage)]
  BY DEF Solo, Types, BusTypes
<1>2. ~TakeLease(i)
  BY DEF Solo, TakeLease
<1>3. ~CatchUp(i) /\ ~CatchUpFails(i)
  BY Zenon, <1>1 DEF CatchUp, CatchUpFails
<1>4. ~HandleEntries(i) /\ ~HandleSyncRequest(i) /\ ~HandlePersistedVector(i)
  BY <1>1 DEF HandleEntries, HandleSyncRequest, HandlePersistedVector
<1>5. RequestSnapshot(i) \/ AskClient(i) \/ AskFails(i) \/ RequestTimesOut(i)
        \/ InstallCommits(i) \/ InstallReturns(i) \/ InstallFails(i) => Aside(i)
  BY Zenon DEF Aside, RequestSnapshot, AskClient, AskFails, RequestTimesOut, InstallCommits,
     InstallReturns, InstallFails, databaseVars, busVars, streamVars, faultVars
<1>6. LoseBus(i) => Aside(i)
  BY DEF Aside, LoseBus, databaseVars, streamVars
<1>7. RegainBus(i) => Aside(i)
  BY <1>1 DEF Aside, RegainBus, Publish, databaseVars, streamVars, faultVars
<1>8. Resync(i) => Aside(i)
  BY <1>1 DEF Aside, Resync, Publish, databaseVars, streamVars
<1> QED
  BY <1>2, <1>3, <1>4, <1>5, <1>6, <1>7, <1>8, Zenon DEF RoomStep

LEMMA UpAlone ==
    ASSUME NEW i, Instances = {i}, Types, Solo(i), RoomStep(i), ~Crash(i)
    PROVE  up' = up /\ member' = member /\ UNCHANGED <<opened, reading, home, providerVars>>
BY StepsAlone DEF RoomStep, Aside, LoadSnapshot, LoadUpdates, AskLease, FinishLoading, streamVars,
   Flush, AppendCommits, AppendReturns, AppendFails

LEMMA AcksSteady ==
    ASSUME NEW i, Instances = {i}, Types, [Next]_vars, Solo(i),
           up' = up /\ ~Crash(i)
    PROVE  \A p \in Connections : log'[i].acks[p] = log[i].acks[p]
BY NotReceived, AcksStep

LEMMA SoloRoom ==
    ASSUME NEW i, Instances = {i}, Types, LogOf(i), [Next]_vars, Solo(i), RoomStep(i)
    PROVE  Solo(i)'
<1>1. CASE Crash(i)
  BY <1>1 DEF Crash, Solo, Types, RoomTypes, QueueTypes, ToldTypes, BusTypes, LogTypes, EmptyLog,
     NoCounters
<1>2. CASE ~Crash(i)
  BY <1>2, UpAlone, AcksSteady, SoloKept, SoloLoading, SoloWriting, StepsAlone DEF Aside, Unmoved,
     queueVars
<1> QED
  BY <1>1, <1>2

LEMMA SoloStep ==
    ASSUME NEW i, Instances = {i}, Types, Members, LogOf(i), [Next]_vars, Solo(i)
    PROVE  Solo(i)'
BY SoloKept, SoloMember, SoloRoom DEF ClientStep, Connect, Welcome, Unmoved, roomVars, queueVars,
   busVars, LateCommit, vars, Next

-----------------------------------------------------------------------------
(* Where an update of a single instance can be. *)

\* Stored, being stored, or queued.
Taken(i) == Range(rows) \cup Range(batch[i]) \cup Range(queue[i])
\* What Postgres has from processes that died.
Overdue == UNION {Range(append) : append \in late}

\* What one step does to these.
Takes(i) ==
    /\ Range(rows) \subseteq Range(rows')
    /\ \A b \in Taken(i)' :
        \/ b \in Taken(i) \cup Overdue
        \/ \E p \in Connections : ReceiveUpdate(p) /\ b = Head(up[p]).blob
    /\ Overdue' \subseteq Overdue \cup Taken(i)
    /\ Crash(i) \/ Taken(i) \subseteq Taken(i)'

LEMMA TakesAll ==
    ASSUME NEW i, late' = late, Range(rows) \subseteq Range(rows'),
           Taken(i)' = Taken(i)
    PROVE  Takes(i)
BY DEF Overdue, Takes

LEMMA TakesSame ==
    ASSUME NEW i, rows' = rows, late' = late, queue'[i] = queue[i], batch'[i] = batch[i]
    PROVE  Takes(i)
BY TakesAll DEF Taken

LEMMA TakesWriting ==
    ASSUME NEW i, Instances = {i}, Types, LogOf(i),
           Flush(i) \/ AppendCommits(i) \/ AppendReturns(i) \/ AppendFails(i)
    PROVE  Takes(i)
<1>1. i \in Instances /\ queue[i] \in Seq(Blobs) /\ batch[i] \in Seq(Blobs) /\ rows \in Seq(Blobs)
  BY RoomFields
<1>2. Range(<<>>) = {}
  BY RangeOfNone
<1>3. Range(batch[i] \o queue[i]) = Range(batch[i]) \cup Range(queue[i])
      /\ Range(rows \o batch[i]) = Range(rows) \cup Range(batch[i])
  BY <1>1, RangeOfJoined
<1>4. CASE Flush(i)
  BY <1>1, <1>4, <1>2, TakesAll DEF Flush, Types, QueueTypes, databaseVars, faultVars, Taken
<1>5. CASE AppendCommits(i)
  BY <1>5, <1>3, TakesAll DEF AppendCommits, faultVars, Taken
<1>6. CASE AppendReturns(i)
  <2>1. /\ batch'[i] = <<>> /\ firstSeq[i] # 0 /\ UNCHANGED <<rows, late, queue>>
    BY <1>1, <1>6 DEF AppendReturns, Types, QueueTypes, databaseVars, faultVars
  <2>2. Range(batch[i]) \subseteq Range(rows)
    BY <2>1, <1>1, ElementsOf DEF LogOf, Appended
  <2>3. Taken(i)' = Taken(i)
    BY <1>2, <2>1, <2>2 DEF Taken
  <2> QED
    BY <2>1, <2>3, TakesAll
<1>7. CASE AppendFails(i)
  BY <1>1, <1>7, <1>2, <1>3, TakesAll DEF AppendFails, Types, QueueTypes, databaseVars, faultVars,
     Taken
<1> QED
  BY <1>4, <1>5, <1>6, <1>7

LEMMA TakesStep ==
    ASSUME NEW i, Instances = {i}, Types, Members, LogOf(i), Solo(i), [Next]_vars
    PROVE  Takes(i)
<1>1. i \in Instances /\ queue[i] \in Seq(Blobs) /\ batch[i] \in Seq(Blobs) /\ rows \in Seq(Blobs)
  BY RoomFields
<1>2. Range(<<>>) = {}
  BY RangeOfNone
<1>3. CASE \E c \in Clients : ClientStep(c) \/ \E j \in Instances : Connect(c, j)
  BY <1>3, TakesSame, Zenon DEF ClientStep, Connect, Welcome, roomVars, databaseVars, queueVars, faultVars
<1>4. CASE UNCHANGED vars
  BY <1>4, TakesSame DEF vars, roomVars, databaseVars, queueVars, faultVars
<1>5. CASE LateCommit
  BY <1>5, <1>1, RangeOfJoined DEF LateCommit, queueVars, Types, DatabaseTypes, Overdue, Takes,
     Taken
<1>6. ASSUME NEW p \in Connections, MemberStep(p) PROVE Takes(i)
  <2>1. CASE ReceiveUpdate(p)
    <3>1. PICK b : Taking(i, p, b) /\ b = Head(up[p]).blob
      BY Zenon, <2>1, TakenBy DEF Taking
    <3>2. b \in Blobs /\ UNCHANGED <<rows, late, batch>>
      BY <3>1 DEF Taking
    <3>3. CASE queue'[i] = queue[i]
      BY <3>2, <3>3, TakesSame
    <3>4. CASE queue'[i] = queue[i] \o <<b>>
      <4>1. Range(queue'[i]) = Range(queue[i]) \cup {b}
        <5>1. <<b>> \in Seq(Blobs) /\ Range(<<b>>) = {b}
          BY <3>2, RangeOfOne
        <5>2. PICK one : one = <<b>>
          BY Zenon
        <5>3. Range(queue[i] \o one) = Range(queue[i]) \cup Range(one)
          BY Zenon, <1>1, <5>1, <5>2, RangeOfJoined
        <5> QED
          BY <3>4, <5>1, <5>2, <5>3
      <4>2. Overdue' = Overdue
        BY <3>2 DEF Overdue
      <4> QED
        BY <2>1, <3>1, <3>2, <4>1, <4>2 DEF Takes, Taken
    <3> QED
      BY <3>1, <3>3, <3>4 DEF Taking
  <2>2. CASE ReceiveSnapshot(p) \/ RemoveMember(p)
    BY <2>2, TakesSame, Zenon DEF ReceiveSnapshot, RemoveMember, databaseVars, queueVars, faultVars
  <2> QED
    BY <1>6, <2>1, <2>2 DEF MemberStep
<1>7. CASE Crash(i)
  BY <1>1, <1>7, <1>2 DEF Crash, Types, QueueTypes, databaseVars, Overdue, Takes, Taken
<1>8. CASE RoomStep(i)
  BY TakesSame, <1>7, <1>8, TakesWriting, StepsAlone DEF LoadSnapshot, LoadUpdates, AskLease,
     FinishLoading, databaseVars, queueVars, faultVars, Aside
<1> QED
  BY <1>3, <1>4, <1>5, <1>6, <1>7, <1>8 DEF Next

\* What a single instance knows of updates, and what is sent.
Listed(i) == \A e \in Range(log[i].entries) : e.blob \in log[i].known
Heard(i) ==
    /\ log[i].known \subseteq Taken(i)
    /\ \A b \in Taken(i) \cup Overdue :
        /\ b.conn <= opened /\ (b.conn \in member => b.n <= log[i].acks[b.conn])
        /\ b \in sent \cup Range(rows)
    /\ \A p \in Connections : \A m \in Range(up[p]) : m.type = "update" => m.blob \in sent

LEMMA ListedStep ==
    ASSUME Types, [Next]_vars, NEW i \in Instances, Listed(i)
    PROVE  Listed(i)'
<1>1. log[i] \in LogRecord
  BY RoomFields
<1>2. CASE log'[i] = log[i]
  BY <1>2 DEF Listed
<1>3. CASE Gains(i)
  BY <1>3, <1>1, ExtendsContent DEF Gains, Listed
<1>4. CASE Renumbers(log[i], log'[i])
  BY <1>1, <1>4, RenumbersContent DEF Listed, Renumbers
<1>5. CASE \E s : Returns(i, s)
  BY <1>5, ReturnedOf DEF Listed
<1>6. CASE log'[i] = [log[i] EXCEPT !.upto = snapUpto, !.snapshot = snapState]
  BY <1>1, <1>6 DEF Listed, LogRecord
<1>7. CASE log'[i] = EmptyLog
  BY <1>7, RangeOfNone DEF EmptyLog, Listed
<1> QED
  BY Zenon, <1>2, <1>3, <1>4, <1>5, <1>6, <1>7, LogStep

\* What is sent stays sent; a new update is the next one of a client.
LEMMA SentStep ==
    ASSUME Types, [Next]_vars
    PROVE  /\ sent \subseteq sent'
           /\ \A b \in sent' :
                \/ b \in sent
                \/ \E c \in Clients :
                    /\ SendNext(c) /\ UNCHANGED roomVars /\ conn[c] \in Connections /\ b.conn = conn[c]
                    /\ b.n = counter[c] + 1 /\ counter' = [counter EXCEPT ![c] = b.n]
                    /\ \E m \in Range(sending[c]) :
                        m.type = "update" /\ m.conn = conn[c] /\ m.edits = b.edits
                    /\ ClientUpdate(b) \in Range(up'[conn[c]])
<1>1. CASE sent' = sent
  BY <1>1
<1>2. ASSUME NEW c \in Clients, SendNext(c), UNCHANGED roomVars
      PROVE  /\ sent \subseteq sent'
             /\ \A b \in sent' :
                \/ b \in sent
                \/ /\ SendNext(c) /\ UNCHANGED roomVars /\ conn[c] \in Connections /\ b.conn = conn[c]
                   /\ b.n = counter[c] + 1 /\ counter' = [counter EXCEPT ![c] = b.n]
                   /\ \E m \in Range(sending[c]) :
                       m.type = "update" /\ m.conn = conn[c] /\ m.edits = b.edits
                   /\ ClientUpdate(b) \in Range(up'[conn[c]])
  <2>1. PICK item \in Range(sending[c]) : item = Head(sending[c])
    BY <1>2, ShorterQueue
  <2>2. CASE sent' = sent
    BY <2>2
  <2>3. CASE sent' # sent
    <3>1. PICK b \in Blobs :
            /\ item.conn = conn[c] /\ item.type = "update" /\ conn[c] \in Connections
            /\ b.conn = conn[c] /\ b.n = counter[c] + 1 /\ b.edits = item.edits
            /\ counter' = [counter EXCEPT ![c] = b.n] /\ sent' = sent \cup {b}
            /\ Range(up'[conn[c]]) = Range(up[conn[c]]) \cup {ClientUpdate(b)}
      BY Zenon, <1>2, <2>1, <2>3, SentNext
    <3> QED
      BY Zenon, <1>2, <2>1, <3>1
  <2> QED
    BY <2>2, <2>3
<1>3. CASE \E c \in Clients : ClientStep(c)
  BY <1>3, <1>2 DEF ClientStep, Edit, FlushFrame, HandleNext, Disconnect
<1>4. CASE UNCHANGED vars
  BY <1>1, <1>4 DEF vars, providerVars
<1>5. CASE \E c \in Clients : \E i \in Instances : Connect(c, i)
  BY <1>1, <1>5 DEF Connect
<1>6. CASE \E i \in Instances : RoomStep(i)
  BY <1>1, <1>6 DEF RoomStep, providerVars
<1>7. CASE \E p \in Connections : MemberStep(p)
  BY <1>1, <1>7 DEF MemberStep, providerVars
<1>8. CASE LateCommit /\ UNCHANGED <<providerVars, resumed>>
  BY <1>1, <1>8 DEF providerVars
<1> QED
  BY <1>3, <1>4, <1>5, <1>6, <1>7, <1>8 DEF Next

\* What the only instance knows, it knew, found stored, or was sent.
LEMMA KnownAlone ==
    ASSUME NEW i, Instances = {i}, Types, Members, Solo(i), [Next]_vars, NEW b \in log'[i].known
    PROVE  \/ b \in log[i].known
           \/ b \in Range(rows)
           \/ \E p \in Connections : ReceiveUpdate(p) /\ b = Head(up[p]).blob
<1>1. i \in Instances /\ log[i] \in LogRecord /\ rows \in Seq(Blobs)
  BY RoomFields
<1>2. CASE log'[i].known = log[i].known
  BY <1>2
<1>3. CASE \E p \in Connections : MemberStep(p)
  <2>1. PICK p \in Connections : MemberStep(p)
    BY <1>3
  <2>2. CASE ReceiveUpdate(p)
    <3>1. PICK x : x = Head(up[p]).blob
      OBVIOUS
    <3>2. Taking(i, p, x)
      BY <2>2, <3>1, TakenBy
    <3> QED
      BY <2>2, <3>1, <3>2 DEF Taking
  <2>3. CASE ReceiveSnapshot(p) \/ RemoveMember(p)
    BY <1>2, <2>3, Zenon DEF ReceiveSnapshot, RemoveMember
  <2> QED
    BY <2>1, <2>2, <2>3 DEF MemberStep
<1>4. CASE RoomStep(i)
  <2>1. ASSUME NEW new \in Seq(EntryRecord), Extends(log[i], new, log'[i]),
               \A e \in Range(new) : e.seq \in DOMAIN rows /\ e.blob = rows[e.seq]
        PROVE  b \in log[i].known \/ b \in Range(rows)
    BY <1>1, <2>1, ExtendsContent, ElementsOf
  <2>2. CASE LoadUpdates(i)
    BY <1>1, <2>2, LoadedOf, RowEntriesOf, <2>1 DEF LoadUpdates, Types, LogTypes
  <2>3. CASE AskClient(i)
    <3>1. PICK start, new, p, id : Asks(i, start, new, p, id)
      BY <1>1, <2>3, AskedClient
    <3> QED
      BY <2>1, <3>1 DEF Asks
  <2>4. CASE ~LoadUpdates(i) /\ ~AskClient(i)
    <3>1. ~HandleEntries(i) /\ ~CatchUp(i)
      BY Zenon DEF Solo, HandleEntries, CatchUp
    <3>2. CASE AppendReturns(i)
      <4>1. PICK l \in LogRecord, blobs \in Seq(Blobs), n \in Nat :
                l = log[i] /\ blobs = batch[i] /\ n = firstSeq[i] /\ n # 0
        BY <1>1, <3>2, RoomFields DEF AppendReturns
      <4>2. Committed(l, blobs, n).known = l.known
        BY <4>1, CommittedOf DEF Renumbers
      <4>3. log'[i] = Committed(l, blobs, n)
        BY <1>1, <3>2, <4>1, ReturnedAppend
      <4> QED
        BY <1>2, <4>1, <4>2, <4>3
    <3>3. CASE LoadSnapshot(i)
      BY <1>1, <3>3, <1>2 DEF LoadSnapshot, Types, LogTypes, LogRecord
    <3>4. CASE Crash(i)
      BY <1>1, <3>4 DEF Crash, Types, LogTypes, EmptyLog
    <3>5. CASE InstallReturns(i)
      BY <1>1, <3>5, InstallReturned, ReturnedOf, <1>2
    <3>6. log' = log \/ AppendReturns(i) \/ LoadSnapshot(i) \/ Crash(i) \/ InstallReturns(i)
      BY <1>4, <2>4, <3>1, Zenon DEF RoomStep, AskLease, FinishLoading, Flush, AppendCommits, AppendFails,
         TakeLease, CatchUpFails, RequestSnapshot, AskFails, RequestTimesOut, InstallFails, InstallCommits,
         HandleSyncRequest, HandlePersistedVector, LoseBus, RegainBus, Resync
    <3> QED
      BY <1>2, <3>2, <3>3, <3>4, <3>5, <3>6
  <2> QED
    BY <2>2, <2>3, <2>4
<1>5. CASE \/ \E c \in Clients : ClientStep(c) \/ \E j \in Instances : Connect(c, j)
           \/ LateCommit
           \/ UNCHANGED vars
  BY <1>1, <1>2, <1>5, RoomsKept DEF SameRoom
<1> QED
  BY <1>3, <1>4, <1>5 DEF Next

\* A received update comes from a member, whose it is.
LEMMA ReceivedAlone ==
    ASSUME NEW i, Instances = {i}, Types, Members, Solo(i), \A q \in Connections : Numbers(q),
           NEW p \in Connections, ReceiveUpdate(p), NEW b, b = Head(up[p]).blob
    PROVE  /\ b.conn = p /\ p \in member /\ p <= opened /\ Taking(i, p, b)
           /\ \E m \in Range(up[p]) : m.type = "update" /\ m.blob = b
<1>1. PICK m \in Range(up[p]) : m = Head(up[p]) /\ m.type = "update"
  BY ReceivedOf
<1>2. b.conn = p
  BY <1>1 DEF Numbers, Due
<1>3. Taking(i, p, b)
  BY TakenBy
<1> QED
  BY <1>1, <1>2, <1>3 DEF Taking, Members

\* What it receives, it has taken.
LEMMA TakenAfter ==
    ASSUME NEW i, Instances = {i}, Types, Members, LogOf(i), Solo(i), Heard(i), [Next]_vars,
           NEW p \in Connections, ReceiveUpdate(p)
    PROVE  Head(up[p]).blob \in Taken(i)'
<1>1. PICK b : b = Head(up[p]).blob
  OBVIOUS
<1>2. Taking(i, p, b) /\ b \in Blobs /\ i \in Instances
  BY <1>1, TakenBy DEF Taking
<1>3. CASE b \in log[i].known
  <2>1. b \in Taken(i)
    BY <1>3 DEF Heard
  <2>2. ~Crash(i)
    BY <1>2 DEF ReceiveUpdate, Crash, Taking, Types, RoomTypes, Members
  <2> QED
    BY <1>1, <2>1, <2>2, TakesStep DEF Takes
<1>4. CASE queue'[i] = queue[i] \o <<b>>
  <2>1. <<b>> \in Seq(Blobs) /\ Range(<<b>>) = {b}
    BY <1>2, RangeOfOne
  <2>2. PICK one : one = <<b>>
    BY Zenon
  <2>3. Range(queue[i] \o one) = Range(queue[i]) \cup Range(one)
    BY Zenon, <1>2, <2>1, <2>2, RoomFields, RangeOfJoined
  <2> QED
    BY <1>1, <1>4, <2>1, <2>2, <2>3 DEF Taken
<1> QED
  BY <1>2, <1>3, <1>4 DEF Taking

\* Counters do not go back while the process lives.
LEMMA AcksGrow ==
    ASSUME NEW i, Instances = {i}, Types, [Next]_vars, Solo(i), ~Crash(i), NEW p \in Connections
    PROVE  log[i].acks[p] \in Nat /\ log'[i].acks[p] \in Nat /\ log[i].acks[p] <= log'[i].acks[p]
<1>1. log[i].acks[p] \in Nat
  BY RoomFields, LogFields
<1>2. CASE log'[i].acks[p] = log[i].acks[p]
  BY <1>1, <1>2
<1>3. ASSUME NEW q \in Connections, ReceiveUpdate(q), log'[i].acks[p] = Head(up[q]).blob.n,
             log[i].acks[p] <= Head(up[q]).blob.n
      PROVE  log'[i].acks[p] \in Nat /\ log[i].acks[p] <= log'[i].acks[p]
  BY <1>3, ReceivedOf
<1> QED
  BY <1>1, <1>2, <1>3, AcksStep

LEMMA HeardStep ==
    ASSUME NEW i, Instances = {i}, Types, Types', Members, Members', LogOf(i), Solo(i), [Next]_vars,
           \A q \in Connections : Numbers(q), Heard(i)
    PROVE  Heard(i)'
<1>1. Takes(i) /\ sent \subseteq sent' /\ opened <= opened'
  BY TakesStep, SentStep, OpenedStep
<1>2. opened \in Nat /\ opened' \in Nat /\ i \in Instances
  BY OpenedOf DEF Types, StreamTypes
<1>3. ASSUME NEW b \in log'[i].known
      PROVE  b \in Taken(i)'
  BY <1>2, <1>3, <1>1, TakenAfter, KnownAlone DEF Crash, Types, LogTypes, EmptyLog, Heard, Takes,
     Taken
<1>4. ASSUME NEW p \in Connections, ReceiveUpdate(p), NEW b, b = Head(up[p]).blob
      PROVE  /\ b.conn <= opened' /\ (b.conn \in member' => b.n <= log'[i].acks[b.conn])
             /\ b \in sent' \cup Range(rows')
  <2>1. b.conn = p /\ p \in member /\ p <= opened /\ Taking(i, p, b) /\ p \in Nat
        /\ \E m \in Range(up[p]) : m.type = "update" /\ m.blob = b
    BY <1>4, ReceivedAlone, OpenedOf
  <2>2. b \in sent'
    BY <1>1, <2>1 DEF Heard
  <2>3. b.n <= log'[i].acks[p]
    BY <2>1 DEF Heard, Taking
  <2> QED
    BY <1>1, <1>2, <2>1, <2>2, <2>3
<1>5. ASSUME NEW b \in Taken(i) \cup Overdue
      PROVE  /\ b.conn <= opened' /\ (b.conn \in member' => b.n <= log'[i].acks[b.conn])
             /\ b \in sent' \cup Range(rows')
  <2>1. /\ b.conn <= opened /\ (b.conn \in member => b.n <= log[i].acks[b.conn])
        /\ b \in sent \cup Range(rows) /\ b \in Blobs
    BY ElementsOf, <1>2, RoomFields DEF Taken, Overdue, Types, DatabaseTypes, Heard
  <2>2. PICK p \in Connections \cup {NoConnection} : p = b.conn /\ b.n \in Nat
    BY <2>1, BlobFields
  <2>3. ASSUME p \in member' PROVE b.n <= log'[i].acks[p]
    <3>1. p \in Connections /\ p \in Nat
      BY <2>3, <2>2, OpenedOf DEF Types, StreamTypes
    <3>2. p \in member /\ home[p] = i /\ home'[p] = home[p] /\ ~Crash(i)
      BY <1>2, <2>1, <2>2, <2>3, <3>1, HomeStep, OnlyOne
    <3>3. b.n <= log[i].acks[p]
      BY <2>1, <2>2, <3>2
    <3> QED
      BY <2>2, <3>1, <3>2, <3>3, AcksGrow
  <2> QED
    BY <1>1, <1>2, <2>1, <2>2, <2>3, OpenedOf DEF Takes
<1>6. ASSUME NEW b \in Taken(i)' \cup Overdue'
      PROVE  /\ b.conn <= opened' /\ (b.conn \in member' => b.n <= log'[i].acks[b.conn])
             /\ b \in sent' \cup Range(rows')
  BY <1>1, <1>6, <1>4, <1>5 DEF Takes
<1>7. ASSUME NEW p \in Connections, NEW m \in Range(up'[p]), m.type = "update"
      PROVE  m.blob \in sent'
  <2>1. CASE m \in Range(up[p])
    BY <1>1, <1>7, <2>1 DEF Heard
  <2>2. up[p] \in Seq(UpMessage)
    BY DownOf
  <2>3. CASE up'[p] = <<>>
    BY <1>7, <2>3, RangeOfNone
  <2>4. CASE up'[p] = Tail(up[p]) /\ up[p] # <<>>
    BY <1>7, <2>1, <2>2, <2>4, RangeOfRest
  <2>5. ASSUME NEW c \in Clients, NEW x \in UpMessage, Posts(c, p, x) PROVE m.blob \in sent'
    BY <2>2, RangeOfLonger, <1>7, <2>1, <2>5 DEF Posts
  <2> QED
    BY <1>7, <2>1, <2>3, <2>4, <2>5, UpShape
<1> QED
  BY <1>3, <1>6, <1>7 DEF Heard

\* The marker of an append counts what is in it or stored.
LEMMA MarkerAlone ==
    ASSUME NEW i, Instances = {i}, Types, Solo(i), [Next]_vars
    PROVE  \/ marker'[i] = NoCounters
           \/ /\ marker'[i] = marker[i]
              /\ Range(rows) \cup Range(batch[i]) \subseteq Range(rows') \cup Range(batch'[i])
           \/ /\ marker'[i] = log[i].acks
              /\ Taken(i) \subseteq Range(rows') \cup Range(batch'[i])
<1>1. i \in Instances /\ batch[i] \in Seq(Blobs) /\ rows \in Seq(Blobs)
  BY RoomFields
<1>2. Range(<<>>) = {}
  BY RangeOfNone
<1>3. CASE rows' = rows /\ batch'[i] = batch[i] /\ marker'[i] = marker[i]
  BY <1>3
<1>4. CASE RoomStep(i)
  <2>1. CASE Aside(i)
    BY <1>3, <2>1 DEF Aside, queueVars
  <2>2. CASE LoadSnapshot(i) \/ LoadUpdates(i) \/ AskLease(i) \/ FinishLoading(i)
    BY <1>3, <2>2, Zenon DEF LoadSnapshot, LoadUpdates, AskLease, FinishLoading, databaseVars, queueVars
  <2>3. CASE Flush(i)
    BY <1>1, <2>3, <1>2 DEF Flush, Types, QueueTypes, databaseVars, Taken
  <2>4. CASE AppendCommits(i)
    BY <2>4, <1>1, RangeOfJoined DEF AppendCommits
  <2>5. CASE AppendReturns(i) \/ AppendFails(i) \/ Crash(i)
    BY <1>1, <2>5, Zenon DEF AppendReturns, AppendFails, Crash, Types, QueueTypes
  <2> QED
    BY <1>4, <2>1, <2>2, <2>3, <2>4, <2>5, StepsAlone
<1>5. CASE LateCommit
  BY <1>5, <1>1, RangeOfJoined DEF LateCommit, queueVars, Types, DatabaseTypes
<1>6. CASE \E p \in Connections : MemberStep(p)
  BY <1>3, <1>6, Zenon DEF MemberStep, ReceiveUpdate, ReceiveSnapshot, RemoveMember, databaseVars, queueVars
<1>7. CASE \E c \in Clients : ClientStep(c) \/ \E j \in Instances : Connect(c, j)
  BY <1>3, <1>7, Zenon DEF ClientStep, Connect, Welcome, roomVars, databaseVars, queueVars
<1>8. CASE UNCHANGED vars
  BY <1>3, <1>8 DEF vars, roomVars, databaseVars, queueVars
<1> QED
  BY <1>4, <1>5, <1>6, <1>7, <1>8 DEF Next

\* The only instance announces what its append has stored.
LEMMA ToldAlone ==
    ASSUME NEW i, Instances = {i}, Types, Solo(i), [Next]_vars
    PROVE  \/ told'[i] = told[i]
           \/ Crash(i) /\ told'[i] = NoCounters
           \/ AppendReturns(i) /\ told'[i] = MergeStateVectors(told[i], marker[i])
<1>1. i \in Instances
  OBVIOUS
<1>2. CASE RoomStep(i)
  BY <1>1, ReturnedAppend, <1>2, StepsAlone DEF Aside, LoadSnapshot, LoadUpdates, AskLease,
     FinishLoading, Flush, AppendCommits, AppendFails, Announces, Crash, Types, ToldTypes
<1>3. CASE LateCommit
  BY <1>3 DEF LateCommit
<1>4. CASE \E p \in Connections : MemberStep(p)
  BY <1>4, Zenon DEF MemberStep, ReceiveUpdate, ReceiveSnapshot, RemoveMember
<1>5. CASE \E c \in Clients : ClientStep(c) \/ \E j \in Instances : Connect(c, j)
  BY <1>5, Zenon DEF ClientStep, Connect, Welcome, roomVars
<1>6. CASE UNCHANGED vars
  BY <1>6 DEF vars, roomVars
<1> QED
  BY <1>2, <1>3, <1>4, <1>5, <1>6 DEF Next

-----------------------------------------------------------------------------
(* Every update of the past, wherever it is.                                  *)

\* It is on its way or taken while its connection is there, taken once counted, and stored once
\* announced.
Traced(i, b) ==
    /\ b.conn \in Connections /\ b.conn <= opened /\ 1 <= b.n
    /\ \A c \in Clients : conn[c] = b.conn => b.n <= counter[c]
    /\ b.conn \in member =>
        b \in Taken(i) \/ \E m \in Range(up[b.conn]) : m.type = "update" /\ m.blob = b
    /\ b.n <= log[i].acks[b.conn] => b \in Taken(i)
    /\ b.n <= marker[i][b.conn] => b \in Range(rows) \cup Range(batch[i])
    /\ b.n <= told[i][b.conn] => b \in Range(rows)
    /\ \A m \in Range(down[b.conn]) : m.type = "persisted" /\ b.n <= m.n => b \in Range(rows)
    /\ \A c \in Clients : conn[c] = b.conn /\ b.n <= confirmed[c] => b \in Range(rows)

\* A client's next update is counted nowhere.
LEMMA TracedStarts ==
    ASSUME NEW i, Instances = {i}, Types, Types', Members, [Next]_vars, NEW c \in Clients, Counted(c),
           SendNext(c), UNCHANGED roomVars, conn[c] \in Connections, NEW b \in Blobs, b.conn = conn[c],
           b.n = counter[c] + 1, counter' = [counter EXCEPT ![c] = b.n],
           ClientUpdate(b) \in Range(up'[conn[c]])
    PROVE  Traced(i, b)'
<1>1. PICK p \in Connections, n \in Nat : p = conn[c] /\ n = counter[c]
  BY ClientFields
<1>2. i \in Instances /\ NothingBeyond(p, n) /\ b.conn = p /\ b.n = n + 1
  BY <1>1 DEF Counted
<1>3. UNCHANGED <<log, marker, told, down, conn, confirmed, member, opened>>
  BY DEF SendNext, roomVars, queueVars
<1>4. log[i].acks[p] <= n /\ marker[i][p] <= n /\ told[i][p] <= n
      /\ log[i].acks[p] \in Nat /\ marker[i][p] \in Nat /\ told[i][p] \in Nat
  BY <1>2, RoomFields, LogFields DEF NothingBeyond, RoomBelow, LogBelow, ToldBelow, Vector
<1>5. \A m \in Range(down[p]) : m.type = "persisted" => m.n \in Nat /\ m.n <= n
  BY <1>2, DownOf, DownFields DEF NothingBeyond, ClientBelow
<1>6. \A d \in Clients : conn[d] = p => d = c /\ confirmed[d] <= n /\ confirmed[d] \in Nat /\ counter'[d] = n + 1
  BY <1>1, <1>2, ClientFields, OpenedOf DEF Members, NothingBeyond, ClientBelow, Types, ClientTypes
<1>7. p <= opened
  BY <1>1, OpenedOf DEF Members
<1>8. \E m \in Range(up'[p]) : m.type = "update" /\ m.blob = b
  BY <1>1, RepliesOf
<1> QED
  BY <1>2, <1>3, <1>4, <1>5, <1>6, <1>7, <1>8 DEF Traced

\* An update of a connection whose messages come in order is taken before what follows it.
LEMMA TakenInTurn ==
    ASSUME NEW i, Instances = {i}, Types, Members, LogOf(i), Solo(i), Heard(i), [Next]_vars,
           NEW p \in Connections, Numbers(p), ReceiveUpdate(p),
           NEW b \in Blobs, b.n <= Head(up[p]).blob.n,
           NEW m \in Range(up[p]), m.type = "update", m.blob = b
    PROVE  b \in Taken(i)'
<1>1. up[p] \in Seq(UpMessage) /\ up[p] # <<>> /\ Head(up[p]).type = "update" /\ Head(up[p]).blob.n \in Nat
      /\ b.n \in Nat
  BY ReceivedOf, BlobFields
<1>2. PICK k \in DOMAIN up[p] : m = up[p][k]
  BY <1>1, ElementsOf
<1>3. Head(up[p]) = up[p][1] /\ 1 \in DOMAIN up[p] /\ DOMAIN up[p] = 1..Len(up[p]) /\ Len(up[p]) \in Nat
  BY <1>1, TailOf
<1>4. k = 1
  <2> SUFFICES ASSUME k # 1 PROVE FALSE
    OBVIOUS
  <2>1. 1 < k
    BY <1>2, <1>3
  <2>2. up[p][1].blob.n < up[p][k].blob.n
    BY <1>1, <1>2, <1>3, <2>1 DEF Numbers, InTurn
  <2> QED
    BY <1>1, <1>2, <1>3, <2>2
<1>5. b = Head(up[p]).blob
  BY <1>2, <1>3, <1>4
<1> QED
  BY <1>5, TakenAfter

LEMMA TracedStep ==
    ASSUME NEW i, Instances = {i}, Types, Types', Members, Members', LogOf(i), Solo(i), Heard(i), [Next]_vars,
           \A q \in Connections : Numbers(q), NEW b \in Blobs, Traced(i, b)
    PROVE  Traced(i, b)'
<1>1. PICK p \in Connections : p = b.conn
  BY DEF Traced
<1>2. b.n \in Nat /\ 1 <= b.n /\ p <= opened /\ opened <= opened' /\ opened \in Nat /\ opened' \in Nat /\ p \in Nat
      /\ i \in Instances
  BY <1>1, BlobFields, OpenedStep, OpenedOf DEF Traced, Types, StreamTypes
<1>3. Takes(i)
  BY TakesStep
<1>4. ASSUME NEW c \in Clients, conn'[c] = p PROVE b.n <= counter'[c]
  <2>1. conn[c] = p
    BY <1>2, <1>4, PeerStep
  <2>2. b.n <= counter[c]
    BY <1>1, <2>1 DEF Traced
  <2>3. counter[c] <= counter'[c]
    BY <1>4, <1>2, CounterStep, OpenedOf
  <2>4. counter[c] \in Nat /\ counter'[c] \in Nat
    BY DEF Types, ClientTypes
  <2> QED
    BY <1>2, <2>2, <2>3, <2>4
<1>5. ASSUME p \in member'
      PROVE  b \in Taken(i)' \/ \E m \in Range(up'[p]) : m.type = "update" /\ m.blob = b
  <2>1. p \in member /\ ~Crash(i)
    BY <1>2, <1>5, HomeStep, OnlyOne
  <2>2. CASE b \in Taken(i)
    BY <1>3, <2>1, <2>2 DEF Takes
  <2>3. ASSUME NEW m \in Range(up[p]), m.type = "update", m.blob = b
        PROVE  b \in Taken(i)' \/ \E x \in Range(up'[p]) : x.type = "update" /\ x.blob = b
    BY <2>3, TakenAfter, <1>5, UpKept DEF ReceiveSnapshot
  <2> QED
    BY <1>1, <2>1, <2>2, <2>3 DEF Traced
<1>6. ASSUME b.n <= log'[i].acks[p] PROVE b \in Taken(i)'
  <2>1. CASE Crash(i)
    BY <1>2, <2>1, <1>6 DEF Crash, Types, LogTypes, EmptyLog, NoCounters
  <2>2. CASE ~Crash(i) /\ b.n <= log[i].acks[p]
    BY <1>1, <1>3, <2>2 DEF Traced, Takes
  <2>3. CASE ~Crash(i) /\ ~(b.n <= log[i].acks[p])
    BY <1>6, <2>3, AcksStep, ReceivedAlone, <1>3, TakenInTurn, <1>1 DEF Takes, Traced
  <2> QED
    BY <2>1, <2>2, <2>3
<1>7. ASSUME b.n <= marker'[i][p] PROVE b \in Range(rows') \cup Range(batch'[i])
  BY <1>2, <1>7, <1>1, MarkerAlone DEF NoCounters, Traced
<1>8. b \in Range(rows) => b \in Range(rows')
  BY <1>3 DEF Takes
<1>9. ASSUME b.n <= told'[i][p] PROVE b \in Range(rows')
  <2>1. CASE told'[i] = told[i]
    BY <1>1, <1>8, <1>9, <2>1 DEF Traced
  <2>2. CASE told'[i] = NoCounters
    BY <1>2, <1>9, <2>2 DEF NoCounters
  <2>3. CASE AppendReturns(i) /\ told'[i] = MergeStateVectors(told[i], marker[i])
    <3>1. told[i] \in Vector /\ marker[i] \in Vector
      BY <1>2, RoomFields
    <3>2. PICK x \in Vector, y \in Vector : x = told[i] /\ y = marker[i]
      BY <3>1
    <3>3. told'[i][p] = told[i][p] \/ told'[i][p] = marker[i][p]
      BY <2>3, <3>2, MergeOf
    <3>4. CASE b.n <= told[i][p]
      BY <1>1, <1>8, <3>4 DEF Traced
    <3>5. CASE b.n <= marker[i][p]
      BY <1>1, <3>5, <1>2, RoomFields, ElementsOf, <2>3, <1>8 DEF Traced, AppendReturns, LogOf,
         Appended
    <3> QED
      BY <1>9, <3>3, <3>4, <3>5
  <2> QED
    BY <2>1, <2>2, <2>3, ToldAlone
<1>10. ASSUME NEW m \in Range(down'[p]), m.type = "persisted", b.n <= m.n
       PROVE  b \in Range(rows')
  BY <1>1, <1>8, <1>10, <1>9, ConfirmationStep DEF Traced
<1>11. ASSUME NEW c \in Clients, conn'[c] = p, b.n <= confirmed'[c]
       PROVE  b \in Range(rows')
  BY <1>2, <1>11, PeerStep, OpenedOf, <1>1, <1>8, ConfirmedStep DEF Traced
<1> QED
  BY <1>1, <1>2, <1>4, <1>5, <1>6, <1>7, <1>9, <1>10, <1>11 DEF Traced

-----------------------------------------------------------------------------
(* What a client was told last.                                               *)

\* A stream that grew by no acknowledgement.
Quieter(old, new) ==
    Longer(old, new) /\ \A k \in DOMAIN new \ DOMAIN old : new[k].type # "persisted"

LEMMA QuieterBy ==
    ASSUME NEW q \in Seq(DownMessage), NEW r \in Seq(DownMessage), NEW all, Joined(q, r, all),
           \A m \in Range(r) : m.type # "persisted"
    PROVE  Quieter(q, all)
BY JoinedFacts, ElementsOf DEF JoinFacts, Quieter

LEMMA UpdatesQuiet ==
    ASSUME NEW new \in Seq(EntryRecord), NEW q \in Seq(DownMessage), NEW all,
           all = q \o Updates(BlobsOf(new))
    PROVE  Quieter(q, all)
<1>1. PICK r \in Seq(DownMessage) : r = Updates(BlobsOf(new)) /\ \A m \in Range(r) : m.type # "persisted"
  <2>1. PICK blobs \in Seq(Blobs) : blobs = BlobsOf(new)
    BY BlobsOfEntries
  <2>2. Updates(blobs) \in Seq(DownMessage)
        /\ \A m \in Range(Updates(blobs)) : \E b \in Range(blobs) : m = ServerUpdate(b)
    BY UpdatesOf
  <2>3. \A b \in Range(blobs) : ServerUpdate(b).type = "update"
    BY ElementsOf, MessagesOf
  <2> QED
    BY <2>1, <2>2, <2>3
<1> QED
  BY Zenon, <1>1, QuieterBy DEF Joined

LEMMA AskQuiet ==
    ASSUME NEW new \in Seq(EntryRecord), NEW q \in Seq(DownMessage), NEW id \in Nat, NEW all,
           all = q \o (Updates(BlobsOf(new)) \o <<SnapshotRequest(id)>>)
    PROVE  Quieter(q, all)
<1>1. PICK r \in Seq(DownMessage) : r = Updates(BlobsOf(new)) /\ \A m \in Range(r) : m.type = "update"
  <2>1. PICK blobs \in Seq(Blobs) : blobs = BlobsOf(new)
    BY BlobsOfEntries
  <2>2. Updates(blobs) \in Seq(DownMessage)
        /\ \A m \in Range(Updates(blobs)) : \E b \in Range(blobs) : m = ServerUpdate(b)
    BY UpdatesOf
  <2>3. \A b \in Range(blobs) : ServerUpdate(b).type = "update"
    BY ElementsOf, MessagesOf
  <2> QED
    BY <2>1, <2>2, <2>3
<1>2. PICK x \in DownMessage : x = SnapshotRequest(id) /\ x.type = "request"
  BY MessagesOf
<1>3. PICK one \in Seq(DownMessage) : one = <<x>> /\ Range(one) = {x}
  BY Zenon, RangeOfOne
<1>4. PICK s \in Seq(DownMessage) : s = r \o one /\ Range(s) = Range(r) \cup Range(one)
  BY Zenon, RangeOfJoined
<1>5. \A m \in Range(s) : m.type # "persisted"
  BY Zenon, <1>1, <1>2, <1>3, <1>4
<1>6. Joined(q, s, all)
  BY <1>1, <1>2, <1>3, <1>4 DEF Joined
<1> QED
  BY <1>5, <1>6, QuieterBy

\* What a step puts in the stream of a member of the only instance.
LEMMA StreamAlone ==
    ASSUME NEW i, Instances = {i}, Types, Members, Solo(i), [Next]_vars,
           NEW c \in Clients, conn[c] \in member, conn'[c] = conn[c], conn[c] \in member'
    PROVE  \/ HandleNext(c) /\ told'[i] = told[i]
           \/ told'[i] = told[i] /\ Quieter(down[conn[c]], down'[conn[c]])
           \/ down'[conn[c]] = down[conn[c]] \o <<Persisted(told'[i][conn[c]])>>
<1>1. PICK p \in Connections : p = conn[c]
  BY DEF Types, StreamTypes
<1>2. /\ i \in Instances /\ p # NoConnection /\ p <= opened /\ opened \in Nat /\ p \in Nat
      /\ p \in MembersOf(i) \cap reading /\ down[p] \in Seq(DownMessage) /\ home[p] = i
  <2>1. p \in MembersOf(i) \cap reading /\ home[p] = i /\ p <= opened
    BY <1>1, OnlyOne DEF Members
  <2>2. opened \in Nat /\ p \in Nat /\ p # NoConnection
    BY <1>1, OpenedOf
  <2> QED
    BY <1>1, <2>1, <2>2, DownOf
<1>3. ~Crash(i)
  BY <1>1, <1>2, HomeStep
<1>4. told'[i] = told[i] \/ AppendReturns(i)
  BY <1>3, ToldAlone
<1>5. CASE AppendReturns(i)
  BY Zenon, <1>1, <1>2, <1>5, ReturnedAppend DEF Announces
<1>6. CASE down'[p] = down[p] /\ ~AppendReturns(i)
  BY <1>1, <1>4, <1>6 DEF Quieter, Longer
<1>7. CASE \E d \in Clients : ClientStep(d)
  <2>1. PICK d \in Clients : ClientStep(d)
    BY <1>7
  <2>2. told' = told
    BY <2>1 DEF ClientStep, roomVars
  <2>3. CASE (\E e \in Edits : Edit(d, e)) \/ FlushFrame(d) \/ SendNext(d)
    BY <2>3, <1>1, <2>2 DEF Edit, FlushFrame, SendNext, streamVars, Quieter, Longer
  <2>4. CASE HandleNext(d) /\ d = c
    BY <2>2, <2>4
  <2>5. CASE (HandleNext(d) \/ Disconnect(d)) /\ d # c
    BY <1>1, <1>2, <2>5, <2>2 DEF Members, HandleNext, Disconnect, Types, DownTypes, Quieter, Longer
  <2>6. CASE Disconnect(d) /\ d = c
    BY <1>1, <1>2, <2>6 DEF Disconnect, Types, ClientTypes
  <2> QED
    BY Zenon, <2>1, <2>3, <2>4, <2>5, <2>6 DEF ClientStep
<1>8. CASE \E d \in Clients : \E j \in Instances : Connect(d, j)
  BY <1>8, <1>1, <1>2, ConnectedBy DEF Quieter, Longer
<1>9. CASE RoomStep(i)
  <2>1. ~HandleEntries(i) /\ ~CatchUp(i) /\ ~HandlePersistedVector(i)
    BY Zenon DEF Solo, HandleEntries, CatchUp, HandlePersistedVector
  <2>2. CASE AskClient(i)
    <3>1. PICK start, new, q, id : Asks(i, start, new, q, id)
      BY <1>2, <2>2, AskedClient
    <3>2. \/ down'[p] = down[p]
          \/ down'[p] = down[p] \o Updates(BlobsOf(new))
          \/ down'[p] = down[p] \o (Updates(BlobsOf(new)) \o <<SnapshotRequest(id)>>) /\ id \in Nat
      BY Zenon, <1>1, <1>2, <3>1 DEF Asks
    <3>3. new \in Seq(EntryRecord)
      BY <3>1 DEF Asks
    <3>4. CASE down'[p] = down[p] \o Updates(BlobsOf(new))
      BY Zenon, <1>1, <1>2, <1>4, <1>5, <3>3, <3>4, UpdatesQuiet
    <3>5. CASE down'[p] = down[p] \o (Updates(BlobsOf(new)) \o <<SnapshotRequest(id)>>) /\ id \in Nat
      BY Zenon, <1>1, <1>2, <1>4, <1>5, <3>3, <3>5, AskQuiet
    <3> QED
      BY Zenon, <1>5, <1>6, <3>2, <3>4, <3>5
  <2>3. CASE ~AskClient(i) /\ ~AppendReturns(i)
    <3>1. down' = down
      BY <1>3, <1>9, <2>1, <2>3, Zenon DEF RoomStep, LoadSnapshot, LoadUpdates, AskLease, FinishLoading, Flush,
         AppendCommits, AppendFails, TakeLease, CatchUpFails, RequestSnapshot, AskFails, RequestTimesOut, InstallFails,
         InstallCommits, InstallReturns, HandleSyncRequest, LoseBus, RegainBus, Resync, streamVars
    <3> QED
      BY <1>6, <2>3, <3>1
  <2> QED
    BY <1>5, <2>2, <2>3
<1>10. CASE \E q \in Connections : MemberStep(q)
  <2>1. PICK q \in Connections : MemberStep(q)
    BY <1>10
  <2>2. told' = told
    BY <2>1, Zenon DEF MemberStep, ReceiveUpdate, ReceiveSnapshot, RemoveMember
  <2>3. CASE ReceiveUpdate(q)
    <3>1. CASE down' = down
      BY <1>1, <2>2, <3>1 DEF Quieter, Longer
    <3>2. CASE down' # down
      <4>1. PICK new \in Seq(EntryRecord) : Adds(home[q], new, q)
        BY Zenon, <2>3, <3>2, ReceivedUpdate
      <4>2. down'[p] = down[p] \/ down'[p] = down[p] \o Updates(BlobsOf(new))
        BY Zenon, <1>1, <4>1 DEF Adds
      <4>3. CASE down'[p] = down[p]
        BY <1>1, <2>2, <4>3 DEF Quieter, Longer
      <4>4. CASE down'[p] = down[p] \o Updates(BlobsOf(new))
        BY Zenon, <1>1, <1>2, <2>2, <4>4, UpdatesQuiet
      <4> QED
        BY Zenon, <4>2, <4>3, <4>4
    <3> QED
      BY <3>1, <3>2
  <2>4. CASE ReceiveSnapshot(q) \/ RemoveMember(q)
    BY <2>4, <1>1, <2>2 DEF ReceiveSnapshot, RemoveMember, Quieter, Longer
  <2> QED
    BY <2>1, <2>3, <2>4 DEF MemberStep
<1>11. CASE LateCommit \/ UNCHANGED vars
  BY <1>11, <1>1 DEF LateCommit, streamVars, vars, roomVars, Quieter, Longer
<1> QED
  BY Zenon, <1>7, <1>8, <1>9, <1>10, <1>11 DEF Next

\* n is what connection p was told last, t: it is t, or an acknowledgement of t comes last.
IsToldLast(p, n, t) ==
    \/ n = t /\ \A k \in DOMAIN down[p] : down[p][k].type # "persisted"
    \/ \E k \in DOMAIN down[p] :
        /\ down[p][k].type = "persisted" /\ down[p][k].n = t
        /\ \A j \in DOMAIN down[p] : k < j => down[p][j].type # "persisted"

\* A synced client waits for no resend, its last update is counted or on its way, and so is what
\* it is told about it.
Answering(i, c) ==
    /\ synced[c] => ~unsent[c]
    /\ conn[c] \in member =>
        /\ \/ counter[c] <= log[i].acks[conn[c]]
           \/ \E m \in Range(up[conn[c]]) : m.type = "update" /\ m.blob.n = counter[c]
        /\ IsToldLast(conn[c], confirmed[c], told[i][conn[c]])
        /\ ~synced[c] => \E m \in Range(down[conn[c]]) : m.type = "state"

LEMMA SyncedStep ==
    ASSUME Types, [Next]_vars, NEW c \in Clients, Offline(c), synced[c] => ~unsent[c]
    PROVE  /\ synced'[c] => ~unsent'[c]
           /\ \/ synced'[c] = synced[c]
              \/ HandleNext(c) /\ synced'[c]
              \/ conn'[c] = NoConnection
           /\ ~synced[c] /\ HandleNext(c) /\ Head(down[conn[c]]).type = "state" => synced'[c]
<1>1. synced \in [Clients -> BOOLEAN] /\ unsent \in [Clients -> BOOLEAN]
      /\ conn \in [Clients -> Connections \cup {NoConnection}]
  BY DEF Types, ClientTypes
<1>2. ASSUME HandleNext(c), Head(down[conn[c]]).type = "state" PROVE synced'[c] /\ ~unsent'[c]
  BY <1>1, <1>2 DEF HandleNext, HandleState, HandleUpdate, HandlePersisted, HandleRequest
<1>3. CASE synced' = synced /\ unsent' = unsent
  BY <1>2, <1>3
<1>4. CASE \E d \in Clients : ClientStep(d)
  <2>1. PICK d \in Clients : ClientStep(d)
    BY <1>4
  <2>2. CASE FlushFrame(d) \/ SendNext(d)
    BY <1>3, <2>2, Zenon DEF FlushFrame, SendNext
  <2>3. CASE \E e \in Edits : Edit(d, e)
    BY <1>1, <2>3, <1>2 DEF Edit, Offline
  <2>4. CASE HandleNext(d)
    BY <1>1, <2>4, <1>2, <1>3 DEF HandleNext, HandleState, HandleUpdate, HandlePersisted,
       HandleRequest
  <2>5. CASE Disconnect(d)
    BY <1>1, <2>5, <1>2 DEF Disconnect
  <2> QED
    BY <2>1, <2>2, <2>3, <2>4, <2>5 DEF ClientStep
<1>5. CASE \E d \in Clients : \E i \in Instances : Connect(d, i)
  BY <1>3, <1>5 DEF Connect
<1>6. CASE \E i \in Instances : RoomStep(i)
  BY <1>3, <1>6 DEF RoomStep, providerVars
<1>7. CASE \E p \in Connections : MemberStep(p)
  BY <1>3, <1>7 DEF MemberStep, providerVars
<1>8. CASE LateCommit /\ UNCHANGED <<providerVars, resumed>>
  BY <1>3, <1>8 DEF providerVars
<1>9. CASE UNCHANGED vars
  BY <1>3, <1>9 DEF vars, providerVars
<1> QED
  BY <1>4, <1>5, <1>6, <1>7, <1>8, <1>9 DEF Next

\* What the last acknowledgement says.
LEMMA ToldLastLonger ==
    ASSUME Types, Types', NEW p \in Connections, NEW n, NEW t,
           IsToldLast(p, n, t), Quieter(down[p], down'[p])
    PROVE  IsToldLast(p, n, t)'
BY DEF Types, DownTypes, Quieter, Longer, IsToldLast

LEMMA ToldLastNew ==
    ASSUME Types, Types', NEW p \in Connections, NEW n, NEW t \in Nat,
           down'[p] = down[p] \o <<Persisted(t)>>
    PROVE  IsToldLast(p, n, t)'
<1>1. PICK x \in DownMessage : x = Persisted(t) /\ x.type = "persisted" /\ x.n = t
  BY MessagesOf
<1>2. down[p] \in Seq(DownMessage)
  BY DownOf
<1>3. PICK one \in Seq(DownMessage) : one = <<x>> /\ Len(one) = 1 /\ one[1] = x
  BY Zenon, OneOf
<1>4. Joined(down[p], one, down'[p])
  BY <1>1, <1>3 DEF Joined
<1>5. JoinFacts(down[p], one, down'[p])
  BY <1>2, <1>4, JoinedFacts
<1>6. /\ DOMAIN down'[p] = 1..(Len(down[p]) + 1) /\ Len(down[p]) \in Nat
      /\ down'[p][Len(down[p]) + 1] = x
  BY <1>3, <1>5 DEF JoinFacts
<1>7. Len(down[p]) + 1 \in DOMAIN down'[p] /\ \A j \in DOMAIN down'[p] : ~(Len(down[p]) + 1 < j)
  BY <1>6
<1> QED
  BY Zenon, <1>1, <1>6, <1>7 DEF IsToldLast

LEMMA ToldLastHandled ==
    ASSUME Types, NEW c \in Clients, HandleNext(c), NEW p \in Connections, p = conn[c],
           NEW old, old = confirmed[c], NEW new, new = confirmed'[c],
           NEW t, IsToldLast(p, old, t)
    PROVE  IsToldLast(p, new, t)'
<1>1. p = conn[c] /\ old = confirmed[c] /\ new = confirmed'[c]
  OBVIOUS
<1>2. down[p] \in Seq(DownMessage) /\ down[p] # <<>> /\ down'[p] = Tail(down[p]) /\ conn'[c] = p
      /\ Head(down[p]) \in DownMessage
  BY <1>1, HandledBy, ShorterDown
<1>3. /\ Head(down[p]) = down[p][1] /\ Len(down[p]) \in Nat /\ 1 <= Len(down[p])
      /\ DOMAIN down[p] = 1..Len(down[p]) /\ DOMAIN down'[p] = 1..(Len(down[p]) - 1)
      /\ \A k \in DOMAIN down'[p] : k + 1 \in DOMAIN down[p] /\ down'[p][k] = down[p][k + 1]
  BY <1>2, TailOf
<1>4. IF down[p][1].type = "persisted" THEN new = down[p][1].n ELSE new = old
  BY <1>1, <1>3 DEF HandleNext, HandleState, HandleUpdate, HandlePersisted, HandleRequest, Types, ClientTypes
<1>5. CASE old = t /\ \A k \in DOMAIN down[p] : down[p][k].type # "persisted"
  <2>1. new = t
    BY <1>3, <1>4, <1>5
  <2>2. \A k \in DOMAIN down'[p] : down'[p][k].type # "persisted"
    BY Zenon, <1>3, <1>5
  <2> QED
    BY Zenon, <2>1, <2>2 DEF IsToldLast
<1>6. ASSUME NEW k \in DOMAIN down[p], down[p][k].type = "persisted", down[p][k].n = t,
             \A j \in DOMAIN down[p] : k < j => down[p][j].type # "persisted"
      PROVE  IsToldLast(p, new, t)'
  <2>1. CASE k = 1
    <3>1. ASSUME NEW j \in DOMAIN down'[p] PROVE down'[p][j].type # "persisted"
      <4>1. j + 1 \in DOMAIN down[p] /\ down'[p][j] = down[p][j + 1]
        BY <1>3
      <4>2. k < j + 1
        BY <1>3, <2>1
      <4> QED
        BY Zenon, <1>6, <4>1, <4>2
    <3> QED
      BY <1>2, <1>4, <1>6, <2>1, <3>1 DEF IsToldLast
  <2>2. CASE k # 1
    <3>1. k - 1 \in DOMAIN down'[p] /\ down'[p][k - 1] = down[p][k]
      BY <1>3, <2>2
    <3>2. ASSUME NEW j \in DOMAIN down'[p], k - 1 < j PROVE down'[p][j].type # "persisted"
      <4>1. j + 1 \in DOMAIN down[p] /\ down'[p][j] = down[p][j + 1]
        BY <1>3
      <4>2. k < j + 1
        BY <1>3, <3>2
      <4> QED
        BY Zenon, <1>6, <4>1, <4>2
    <3> QED
      BY Zenon, <1>2, <1>6, <3>1, <3>2 DEF IsToldLast
  <2> QED
    BY <2>1, <2>2
<1> QED
  BY <1>1, <1>5, <1>6 DEF IsToldLast

LEMMA CounterAlone ==
    ASSUME Types, [Next]_vars, NEW c \in Clients
    PROVE  \/ counter'[c] = counter[c]
           \/ /\ conn'[c] = conn[c]
              /\ \E m \in Range(up'[conn[c]]) : m.type = "update" /\ m.blob.n = counter'[c]
           \/ conn'[c] = NoConnection
<1>1. counter \in [Clients -> Nat] /\ conn \in [Clients -> Connections \cup {NoConnection}]
  BY DEF Types, ClientTypes
<1>2. CASE counter' = counter
  BY <1>2
<1>3. CASE \E d \in Clients : ClientStep(d)
  <2>1. PICK d \in Clients : ClientStep(d)
    BY <1>3
  <2>2. CASE SendNext(d) /\ counter' # counter
    <3>1. PICK b \in Blobs :
            /\ counter' = [counter EXCEPT ![d] = b.n] /\ conn' = conn
            /\ Range(up'[conn[d]]) = Range(up[conn[d]]) \cup {ClientUpdate(b)}
      BY Zenon, <2>2, SentNext
    <3>2. CASE d = c
      BY <1>1, <3>1, <3>2, RepliesOf
    <3> QED
      BY <1>1, <3>1, <3>2
  <2>3. CASE Disconnect(d)
    BY <1>1, <2>3 DEF Disconnect
  <2>4. CASE ~SendNext(d) /\ ~Disconnect(d)
    BY <2>1, <2>4 DEF ClientStep, Edit, FlushFrame, HandleNext
  <2> QED
    BY <1>2, <2>1, <2>2, <2>3, <2>4
<1>4. CASE \E d \in Clients : \E i \in Instances : Connect(d, i)
  BY <1>2, <1>4 DEF Connect
<1>5. CASE \E i \in Instances : RoomStep(i)
  BY <1>2, <1>5 DEF RoomStep, providerVars
<1>6. CASE \E p \in Connections : MemberStep(p)
  BY <1>2, <1>6 DEF MemberStep, providerVars
<1>7. CASE LateCommit /\ UNCHANGED <<providerVars, resumed>>
  BY <1>2, <1>7 DEF providerVars
<1>8. CASE UNCHANGED vars
  BY <1>2, <1>8 DEF vars, providerVars
<1> QED
  BY <1>3, <1>4, <1>5, <1>6, <1>7, <1>8 DEF Next

\* A new member has the board on its way, and the counter that is stored.
LEMMA AnsweringStarts ==
    ASSUME NEW i, Instances = {i}, Types, Types', Members, [Next]_vars, NEW c \in Clients, Offline(c),
           synced[c] => ~unsent[c], Connect(c, i)
    PROVE  Answering(i, c)'
<1>1. PICK p \in Connections : p = opened + 1 /\ p # NoConnection
  BY ConnectedBy
<1>2. /\ i \in Instances /\ conn[c] = NoConnection /\ conn'[c] = p
      /\ UNCHANGED <<log, told, synced, counter, confirmed, unsent>>
  BY <1>1, ConnectedBy
<1>3. PICK state \in DownMessage, ack \in DownMessage :
        /\ state.type = "state" /\ ack.type = "persisted" /\ ack.n = told[i][p]
        /\ down'[p] = <<state, ack>> /\ Range(down'[p]) = {state, ack}
  BY <1>1, <1>2, WelcomedBy
<1>4. DOMAIN down'[p] = 1..2 /\ down'[p][1] = state /\ down'[p][2] = ack
  BY <1>3, PairOf
<1>5. counter'[c] <= log'[i].acks[p]
  BY <1>2, RoomFields, LogFields DEF Offline
<1>6. PICK n, t : n = confirmed'[c] /\ t = told'[i][p]
  OBVIOUS
<1>7. IsToldLast(p, n, t)'
  BY <1>2, <1>3, <1>4, <1>6 DEF IsToldLast
<1> QED
  BY <1>2, <1>3, <1>5, <1>6, <1>7 DEF Answering

LEMMA AnsweringStays ==
    ASSUME NEW i, Instances = {i}, Types, Types', Members, LogOf(i), Solo(i), Heard(i), Heard(i)',
           [Next]_vars, NEW c \in Clients, Offline(c), Answering(i, c), Numbers(conn[c]),
           NEW p \in Connections, p = conn[c], conn'[c] = p, p \in member'
    PROVE  Answering(i, c)'
<1>1. /\ i \in Instances /\ p <= opened /\ p \in member /\ ~Crash(i) /\ p # NoConnection
  BY OpenedOf, HomeStep, OnlyOne DEF Members
<1>2. synced'[c] => ~unsent'[c]
  BY SyncedStep DEF Answering
<1>3. counter[c] \in Nat /\ log[i].acks[p] \in Nat /\ log'[i].acks[p] \in Nat /\ log[i].acks[p] <= log'[i].acks[p]
  BY <1>1, ClientFields, AcksGrow
<1>4. \/ counter'[c] <= log'[i].acks[p]
      \/ \E m \in Range(up'[p]) : m.type = "update" /\ m.blob.n = counter'[c]
  <2>1. CASE counter'[c] = counter[c] /\ counter[c] <= log[i].acks[p]
    BY <1>3, <2>1
  <2>2. ASSUME counter'[c] = counter[c], NEW m \in Range(up[p]), m.type = "update", m.blob.n = counter[c]
        PROVE  \/ counter'[c] <= log'[i].acks[p]
               \/ \E x \in Range(up'[p]) : x.type = "update" /\ x.blob.n = counter'[c]
    <3>1. CASE m \in Range(up'[p])
      BY <2>2, <3>1
    <3>2. CASE m = Head(up[p]) /\ (ReceiveUpdate(p) \/ ReceiveSnapshot(p))
      BY <2>2, <3>2, TakenAfter DEF ReceiveSnapshot, Numbers, Due, Heard
    <3> QED
      BY <2>2, <3>1, <3>2, UpKept
  <2>3. counter[c] <= log[i].acks[p] \/ \E m \in Range(up[p]) : m.type = "update" /\ m.blob.n = counter[c]
    BY <1>1 DEF Answering
  <2> QED
    BY <1>1, <2>1, <2>2, <2>3, CounterAlone
<1>5. PICK n, old, t \in Nat : n = confirmed'[c] /\ old = confirmed[c] /\ t = told'[i][p]
  BY <1>1 DEF Types, ClientTypes, ToldTypes, Vector
<1>6. IsToldLast(p, n, t)'
  <2>1. PICK s : s = told[i][p] /\ IsToldLast(p, old, s)
    BY <1>1, <1>5 DEF Answering
  <2>2. CASE HandleNext(c) /\ told'[i] = told[i]
    BY <1>5, <2>1, <2>2, ToldLastHandled
  <2>3. CASE told'[i] = told[i] /\ Quieter(down[p], down'[p]) /\ ~HandleNext(c)
    BY <1>1, <1>5, <2>3, ConfirmedStep, <2>1, ToldLastLonger
  <2>4. CASE down'[p] = down[p] \o <<Persisted(told'[i][p])>>
    BY Zenon, <1>5, <2>4, ToldLastNew
  <2> QED
    BY Zenon, <1>1, <2>2, <2>3, <2>4, StreamAlone
<1>7. ASSUME ~synced'[c] PROVE \E m \in Range(down'[p]) : m.type = "state"
  BY <1>1, <1>7, SyncedStep, StreamStep, ShorterDown DEF Answering
<1> QED
  BY <1>2, <1>4, <1>5, <1>6, <1>7 DEF Answering

LEMMA AnsweringStep ==
    ASSUME NEW i, Instances = {i}, Types, Types', Members, LogOf(i), Solo(i), Heard(i), Heard(i)',
           [Next]_vars, NEW c \in Clients, Offline(c), Answering(i, c), \A q \in Connections : Numbers(q)
    PROVE  Answering(i, c)'
<1>1. synced'[c] => ~unsent'[c]
  BY SyncedStep DEF Answering
<1>2. CASE conn'[c] \notin member'
  BY <1>1, <1>2 DEF Answering
<1>3. CASE conn'[c] \in member' /\ conn'[c] = conn[c]
  BY <1>3, AnsweringStays DEF Types, StreamTypes
<1>4. CASE conn'[c] \in member' /\ conn'[c] # conn[c]
  <2>1. conn'[c] # NoConnection
    BY <1>4 DEF Types, StreamTypes, Connections, NoConnection
  <2>2. Connect(c, i)
    BY <1>4, <2>1, ConnStep
  <2> QED
    BY <2>2, AnsweringStarts DEF Answering
<1> QED
  BY <1>2, <1>3, <1>4

-----------------------------------------------------------------------------
(* The edits of a client until they are stored.                               *)

Mine(c, e) == e \in Edits /\ Author[e] = c

\* Sent, and on the connection it has now if it has one.
SentHere(c, e) == \E b \in sent : e \in b.edits /\ (conn[c] # NoConnection => b.conn = conn[c])

\* Other clients have it, a connected client is about to see it, or it was sent.
Elsewhere(c, e) ==
    \/ \E d \in Clients \ {c} : e \in doc[d]
    \/ \E d \in Clients : conn[d] # NoConnection /\ \E m \in Range(down[conn[d]]) : e \in Shown(m)
    \/ e \in Plain(sent)

\* It waits for the next connection, for the frame, for its encryption, or was sent.
Leaving(c, e) ==
    \/ unsent[c] /\ ~synced[c]
    \/ e \in pending[c]
    \/ \E m \in Range(sending[c]) : m.type = "update" /\ m.conn = conn[c] /\ e \in m.edits
    \/ conn[c] # NoConnection /\ SentHere(c, e)

Storing(c) ==
    c \notin resumed => \A e \in Written : Mine(c, e) =>
        /\ Elsewhere(c, e) => e \in Kept \/ SentHere(c, e)
        /\ e \in doc[c] => e \in Kept \/ Leaving(c, e)

LEMMA ContentWithin ==
    ASSUME NEW l \in LogRecord, NEW S \in SUBSET Blobs, NEW T \in SUBSET Blobs, NEW K,
           \A e \in Range(l.entries) : e.blob \in S \cup T, l.snapshot \subseteq K
    PROVE  Content(l) \subseteq K \cup Plain(S) \cup Plain(T)
  BY ContentOf, PlainOf

\* What the only instance shows was stored once, or sent.
LEMMA ContentAfter ==
    ASSUME NEW i, Instances = {i}, Types', Heard(i)', Listed(i)', Installed(i)'
    PROVE  Content(log'[i]) \subseteq Kept' \cup Plain(sent')
<1>1. PICK l, S, T, K : l = log'[i] /\ S = sent' /\ T = Range(rows') /\ K = Kept'
  OBVIOUS
<1>2. l \in LogRecord /\ S \in SUBSET Blobs
  BY <1>1 DEF Types, LogTypes, ClientTypes
<1>3. rows' \in Seq(Blobs)
  BY DEF Types, DatabaseTypes
<1>4. T \in SUBSET Blobs
  BY <1>1, <1>3, ElementsOf
<1>5. \A e \in Range(l.entries) : e.blob \in S \cup T
  BY <1>1 DEF Heard, Listed
<1>6. l.snapshot \subseteq K
  BY <1>1 DEF Installed
<1>7. Plain(T) \subseteq K
  BY <1>1 DEF Kept, Stored
<1> QED
  BY <1>1, <1>2, <1>4, <1>5, <1>6, <1>7, ContentWithin

LEMMA DocFrom ==
    ASSUME Types, [Next]_vars, NEW d \in Clients, NEW e \in doc'[d]
    PROVE  \/ e \in doc[d]
           \/ Edit(d, e)
           \/ HandleNext(d) /\ e \in Shown(Head(down[conn[d]]))
<1>1. doc \in [Clients -> SUBSET Written]
  BY DEF Types, ClientTypes
<1>2. CASE doc' = doc
  BY <1>2
<1>3. CASE \E c \in Clients : ClientStep(c)
  <2>1. PICK c \in Clients : ClientStep(c)
    BY <1>3
  <2>2. CASE \E x \in Edits : Edit(c, x)
    <3>1. PICK x \in Edits : Edit(c, x)
      BY <2>2
    <3>2. doc' = [doc EXCEPT ![c] = doc[c] \cup {x}]
      BY <3>1 DEF Edit
    <3> QED
      BY <1>1, <3>1, <3>2
  <2>3. CASE HandleNext(c)
    BY <1>1, <2>3, HandledBy
  <2>4. CASE FlushFrame(c) \/ SendNext(c) \/ Disconnect(c)
    BY <1>2, <2>4, Zenon DEF FlushFrame, SendNext, Disconnect
  <2> QED
    BY <2>1, <2>2, <2>3, <2>4 DEF ClientStep
<1>4. CASE \E c \in Clients : \E i \in Instances : Connect(c, i)
  BY <1>2, <1>4 DEF Connect
<1>5. CASE \E i \in Instances : RoomStep(i)
  BY <1>2, <1>5 DEF RoomStep, providerVars
<1>6. CASE \E p \in Connections : MemberStep(p)
  BY <1>2, <1>6 DEF MemberStep, providerVars
<1>7. CASE LateCommit /\ UNCHANGED <<providerVars, resumed>>
  BY <1>2, <1>7 DEF providerVars
<1>8. CASE UNCHANGED vars
  BY <1>2, <1>8 DEF vars, providerVars
<1> QED
  BY <1>3, <1>4, <1>5, <1>6, <1>7, <1>8 DEF Next

\* A client's edit leaves it when it is sent.
LEMMA SentElsewhere ==
    ASSUME Types, Types', [Next]_vars, \A d \in Clients : Writing(d),
           NEW c \in Clients, NEW e \in Plain(sent')
    PROVE  Elsewhere(c, e) \/ SentHere(c, e)'
<1>1. PICK b \in sent' : e \in b.edits
  BY DEF Plain
<1>2. CASE b \in sent
  BY <1>1, <1>2 DEF Elsewhere, Plain
<1>3. ASSUME NEW d \in Clients, SendNext(d), conn[d] \in Connections, b.conn = conn[d],
             NEW m \in Range(sending[d]), m.type = "update", m.conn = conn[d], m.edits = b.edits
      PROVE  Elsewhere(c, e) \/ SentHere(c, e)'
  BY <1>3, <1>1 DEF SendNext, SentHere, Connections, NoConnection, Writing, Elsewhere
<1> QED
  BY <1>2, <1>3, SentStep

\* Nobody comes by a client's edit before it was sent.
LEMMA ElsewhereStep ==
    ASSUME NEW i, Instances = {i}, Types, Types', Members, Members', [Next]_vars,
           \A d \in Clients : Writing(d), Heard(i)', Listed(i)', Installed(i)',
           NEW c \in Clients, NEW e \in Written, Mine(c, e), Elsewhere(c, e)'
    PROVE  Elsewhere(c, e) \/ e \in Kept' \/ SentHere(c, e)'
<1>1. CASE e \in Plain(sent')
  BY <1>1, SentElsewhere
<1>2. ASSUME NEW d \in Clients \ {c}, e \in doc'[d] PROVE Elsewhere(c, e)
  BY <1>2, HandledBy, ShorterDown, DocFrom DEF Mine, Edit, Elsewhere
<1>3. ASSUME NEW d \in Clients, conn'[d] # NoConnection, NEW m \in Range(down'[conn'[d]]), e \in Shown(m)
      PROVE  Elsewhere(c, e) \/ e \in Kept' \/ SentHere(c, e)'
  <2>1. PICK p \in Connections : p = conn'[d]
    BY <1>3 DEF Types, ClientTypes
  <2>2. CASE e \in Content(log'[i])
    BY <1>1, <2>2, ContentAfter
  <2>3. CASE conn[d] = p
    BY <2>1, <1>3, <2>3, <2>2, OnlyOne, DownStep DEF Members, Elsewhere
  <2>4. CASE conn[d] # p
    BY <1>3, <2>1, <2>4, ConnStep, ConnectedBy, WelcomedBy, <2>2
  <2> QED
    BY <2>3, <2>4
<1> QED
  BY <1>1, <1>2, <1>3 DEF Elsewhere

\* A client that connects again after it was sent is no longer followed.
LEMMA SentHereStep ==
    ASSUME Types, [Next]_vars, NEW c \in Clients, NEW e \in Written, Mine(c, e), SentHere(c, e)
    PROVE  SentHere(c, e)' \/ c \in resumed'
BY SentStep, ProtocolAssumption, ConnStep DEF SentHere, Mine, Connect

LEMMA ResumedStep ==
    ASSUME Types, [Next]_vars
    PROVE  resumed \subseteq resumed'
BY DEF Connect, Next, ClientStep, RoomStep, MemberStep, vars

\* What a client sees from others, it need not send.
LEMMA SeenLeaving ==
    ASSUME Types, [Next]_vars, NEW c \in Clients, HandleNext(c), c \notin resumed', Storing(c),
           NEW e \in Shown(Head(down[conn[c]])), e \in Written, Mine(c, e),
           Kept \subseteq Kept'
    PROVE  e \in Kept' \/ Leaving(c, e)'
BY HandledBy, ShorterDown, ResumedStep, SentHereStep DEF Elsewhere, Leaving, Storing

LEMMA UnsentStep ==
    ASSUME Types, [Next]_vars, NEW c \in Clients, Offline(c), unsent[c], ~synced[c]
    PROVE  \/ unsent'[c] /\ ~synced'[c]
           \/ HandleNext(c) /\ Head(down[conn[c]]).type = "state"
<1>1. synced \in [Clients -> BOOLEAN] /\ unsent \in [Clients -> BOOLEAN]
  BY DEF Types, ClientTypes
<1>2. CASE synced' = synced /\ unsent' = unsent
  BY <1>2
<1>3. CASE \E d \in Clients : ClientStep(d)
  <2>1. PICK d \in Clients : ClientStep(d)
    BY <1>3
  <2>2. CASE FlushFrame(d) \/ SendNext(d)
    BY <1>2, <2>2, Zenon DEF FlushFrame, SendNext
  <2>3. CASE \E e \in Edits : Edit(d, e)
    BY <2>3, <1>1 DEF Edit
  <2>4. CASE HandleNext(d)
    BY <1>1, <2>4, <1>2 DEF HandleNext, HandleState, HandleUpdate, HandlePersisted, HandleRequest
  <2>5. CASE Disconnect(d)
    BY <1>1, <2>5 DEF Disconnect
  <2> QED
    BY <2>1, <2>2, <2>3, <2>4, <2>5 DEF ClientStep
<1>4. CASE \E d \in Clients : \E i \in Instances : Connect(d, i)
  BY <1>2, <1>4 DEF Connect
<1>5. CASE \E i \in Instances : RoomStep(i)
  BY <1>2, <1>5 DEF RoomStep, providerVars
<1>6. CASE \E p \in Connections : MemberStep(p)
  BY <1>2, <1>6 DEF MemberStep, providerVars
<1>7. CASE LateCommit /\ UNCHANGED <<providerVars, resumed>>
  BY <1>2, <1>7 DEF providerVars
<1>8. CASE UNCHANGED vars
  BY <1>2, <1>8 DEF vars, providerVars
<1> QED
  BY <1>3, <1>4, <1>5, <1>6, <1>7, <1>8 DEF Next

\* What the stored board lacks is sent back.
LEMMA MissingQueued ==
    ASSUME Types, NEW c \in Clients, HandleNext(c), Head(down[conn[c]]).type = "state",
           NEW e \in doc[c], e \notin Shown(Head(down[conn[c]]))
    PROVE  /\ conn'[c] = conn[c]
           /\ \E m \in Range(sending'[c]) : m.type = "update" /\ m.conn = conn[c] /\ e \in m.edits
<1>1. PICK shown \in SUBSET Written : shown = Head(down[conn[c]]).edits /\ e \notin shown
  BY HandledBy, DownFields DEF Shown
<1>2. sending' = [sending EXCEPT ![c] = Append(sending[c], Update(c, doc[c] \ shown))]
  BY <1>1 DEF HandleNext, HandleState, Missing
<1>3. conn[c] # NoConnection /\ conn' = conn /\ doc[c] \in SUBSET Written
  BY HandledBy, ClientFields
<1>4. PICK m \in SendItem : /\ m = Update(c, doc[c] \ shown) /\ m.type = "update" /\ m.conn = conn[c]
                            /\ m.edits = doc[c] \ shown
  BY <1>3, UpdateItem DEF Types
<1>5. m \in Range(sending'[c])
  <2>1. sending' = [sending EXCEPT ![c] = Append(sending[c], m)]
    BY <1>2, <1>4
  <2>2. Range(sending'[c]) = Range(sending[c]) \cup {m}
    BY Zenon, <1>4, <2>1, LongerQueue
  <2> QED
    BY <2>2
<1> QED
  BY Zenon, <1>1, <1>3, <1>4, <1>5

LEMMA FlushedFrame ==
    ASSUME Types, NEW c \in Clients, FlushFrame(c), NEW e \in pending[c]
    PROVE  /\ conn'[c] = conn[c]
           /\ \E m \in Range(sending'[c]) : m.type = "update" /\ m.conn = conn[c] /\ e \in m.edits
<1>1. sending' = [sending EXCEPT ![c] = Append(sending[c], Update(c, pending[c]))] /\ conn' = conn
  BY DEF FlushFrame
<1>2. conn[c] # NoConnection /\ pending[c] \in SUBSET Written
  BY ClientFields
<1>3. PICK m \in SendItem : /\ m = Update(c, pending[c]) /\ m.type = "update" /\ m.conn = conn[c]
                            /\ m.edits = pending[c]
  BY <1>2, UpdateItem DEF Types
<1>4. m \in Range(sending'[c])
  <2>1. sending' = [sending EXCEPT ![c] = Append(sending[c], m)]
    BY <1>1, <1>3
  <2>2. Range(sending'[c]) = Range(sending[c]) \cup {m}
    BY Zenon, <1>3, <2>1, LongerQueue
  <2> QED
    BY <2>2
<1> QED
  BY <1>1, <1>3, <1>4

\* A client that loses its connection resends unless all it sent was acknowledged.
LEMMA LeavingOffline ==
    ASSUME NEW i, Types, NEW c \in Clients, Disconnect(c), \A b \in sent : Traced(i, b),
           NEW e \in Written, Leaving(c, e), Range(rows) \subseteq Range(rows'), rows' \in Seq(Blobs)
    PROVE  e \in Kept' \/ Leaving(c, e)'
<1>1. synced'[c] = FALSE /\ (unsent[c] \/ Unconfirmed(c) => unsent'[c])
  BY Zenon DEF Disconnect, Types, ClientTypes
<1>2. CASE unsent[c] \/ Unconfirmed(c)
  BY <1>1, <1>2 DEF Leaving
<1>3. CASE e \in pending[c]
  BY <1>2, <1>3 DEF Unconfirmed
<1>4. ASSUME NEW m \in Range(sending[c]), m.type = "update" PROVE Unconfirmed(c)
  BY ClientFields, ElementsOf, <1>4 DEF Unconfirmed, Inflight
<1>5. ASSUME NEW b \in sent, e \in b.edits, b.conn = conn[c], ~Unconfirmed(c) PROVE e \in Kept'
  <2>1. b.n <= counter[c] /\ (b.n <= confirmed[c] => b \in Range(rows))
    BY <1>5 DEF Traced
  <2>2. counter[c] \in Nat /\ confirmed[c] \in Nat /\ b.n \in Nat
    BY ClientFields, BlobFields DEF Types, ClientTypes
  <2>3. counter[c] <= confirmed[c]
    BY <1>5, <2>2 DEF Unconfirmed
  <2>4. b \in Range(rows')
    BY <2>1, <2>2, <2>3
  <2> QED
    BY <1>5, <2>4 DEF Kept, Stored, Plain
<1> QED
  BY <1>2, <1>3, <1>4, <1>5 DEF Leaving, SentHere

LEMMA LeavingStep ==
    ASSUME NEW i, Instances = {i}, Types, Types', Members, [Next]_vars, NEW c \in Clients, Offline(c),
           \A b \in sent : Traced(i, b), c \notin resumed', Storing(c),
           NEW e \in doc[c], e \in Written, Mine(c, e), Leaving(c, e),
           Kept \subseteq Kept', Range(rows) \subseteq Range(rows')
    PROVE  e \in Kept' \/ Leaving(c, e)'
<1>1. conn[c] \in Connections \cup {NoConnection} /\ rows' \in Seq(Blobs)
  BY DEF Types, ClientTypes, DatabaseTypes
<1>2. CASE Disconnect(c)
  BY Zenon, <1>1, <1>2, LeavingOffline
<1>3. CASE unsent[c] /\ ~synced[c]
  <2>1. CASE unsent'[c] /\ ~synced'[c]
    BY <2>1 DEF Leaving
  <2>2. CASE HandleNext(c) /\ Head(down[conn[c]]).type = "state"
    BY <2>2, SeenLeaving, MissingQueued DEF Leaving
  <2> QED
    BY <1>3, <2>1, <2>2, UnsentStep
<1>4. CASE conn[c] # NoConnection /\ conn'[c] = conn[c]
  <2>1. CASE e \in pending[c]
    BY <2>1, FlushedFrame, <1>4, PendingKept DEF Leaving
  <2>2. ASSUME NEW m \in Range(sending[c]), m.type = "update", m.conn = conn[c], e \in m.edits
        PROVE  Leaving(c, e)'
    BY <1>4, <2>2, SentNext, SendingKept DEF Leaving, SentHere
  <2>3. CASE SentHere(c, e)
    BY <2>3, SentHereStep, <1>4 DEF Leaving
  <2> QED
    BY <1>3, <2>1, <2>2, <2>3 DEF Leaving
<1>5. CASE conn[c] # NoConnection /\ conn'[c] # conn[c] /\ ~Disconnect(c)
  BY <1>5, ConnStep DEF Connect
<1>6. CASE conn[c] = NoConnection
  BY <1>6, ClientFields, ElementsOf, SendFields, OpenedOf, <1>3 DEF Leaving
<1> QED
  BY <1>2, <1>4, <1>5, <1>6

LEMMA StoringStep ==
    ASSUME NEW i, Instances = {i}, Types, Types', Members, Members', [Next]_vars,
           \A d \in Clients : Writing(d), Heard(i)', Listed(i)', Installed(i)',
           NEW c \in Clients, Offline(c), \A b \in sent : Traced(i, b), Storing(c),
           Range(rows) \subseteq Range(rows')
    PROVE  Storing(c)'
<1>1. Kept \subseteq Kept'
  BY KeptStep
<1> SUFFICES ASSUME c \notin resumed', NEW e \in Written, Mine(c, e)
             PROVE  /\ Elsewhere(c, e)' => e \in Kept' \/ SentHere(c, e)'
                    /\ e \in doc'[c] => e \in Kept' \/ Leaving(c, e)'
  BY DEF Storing, Mine
<1>2. c \notin resumed
  BY ResumedStep
<1>3. ASSUME Elsewhere(c, e)' PROVE e \in Kept' \/ SentHere(c, e)'
  BY <1>2, <1>1, SentHereStep, <1>3, ElsewhereStep DEF Storing
<1>4. ASSUME e \in doc'[c] PROVE e \in Kept' \/ Leaving(c, e)'
  <2>1. CASE e \in doc[c]
    BY <1>2, <2>1, <1>1, LeavingStep DEF Storing
  <2>2. CASE Edit(c, e)
    BY <2>2 DEF Edit, Types, ClientTypes, Offline, Leaving
  <2>3. CASE HandleNext(c) /\ e \in Shown(Head(down[conn[c]]))
    BY <1>1, <2>3, SeenLeaving
  <2> QED
    BY <1>4, <2>1, <2>2, <2>3, DocFrom
<1> QED
  BY <1>3, <1>4

(* What holds of a room that one instance serves: its log, what it tells and  *)
(* what became of everything a client sent.                                   *)
Alone(i) ==
    /\ Solo(i) /\ Listed(i) /\ Heard(i)
    /\ \A b \in sent : Traced(i, b)
    /\ \A c \in Clients : Answering(i, c) /\ Storing(c)

LEMMA AloneInit ==
    ASSUME NEW i, Instances = {i}, Init
    PROVE  Alone(i)
<1>1. Types
  BY TypesInit
<1>2. Range(<<>>) = {}
  BY RangeOfNone
<1>3. /\ log[i] = EmptyLog /\ queue[i] = <<>> /\ batch[i] = <<>> /\ late = {} /\ rows = EarlierRows
      /\ opened = 0 /\ member = {} /\ sent = {}
      /\ \A p \in Connections : up[p] = <<>>
  BY DEF Init, RoomInit, ProviderInit
<1>4. \A c \in Clients : doc[c] = {} /\ conn[c] = NoConnection /\ synced[c] = FALSE
  BY DEF Init, ProviderInit
<1>5. Listed(i)
  BY <1>2, <1>3 DEF Listed, EmptyLog
<1>6. \A b \in Range(rows) : b.conn = 0
  <2>1. CASE Earlier = {}
    BY <1>2, <1>3, <2>1 DEF EarlierRows
  <2>2. CASE Earlier # {}
    <3>1. PICK x : x = [conn |-> NoConnection, n |-> 1, edits |-> Earlier]
      BY Zenon
    <3>4. x.conn = 0
      BY <3>1 DEF NoConnection
    <3>2. PICK S : S = {x} /\ x \in S
      BY Zenon
    <3>3. Range(<<x>>) = {x}
      BY <3>2, RangeOfOne
    <3> QED
      BY <1>3, <2>2, <3>1, <3>3, <3>4 DEF EarlierRows
  <2> QED
    BY <2>1, <2>2
<1>7. Heard(i)
  BY <1>2, <1>3, <1>6 DEF Heard, Taken, Overdue, EmptyLog
<1>8. \A c \in Clients : Answering(i, c)
  BY <1>3, <1>4 DEF Answering
<1>9. \A c \in Clients : Storing(c)
  BY <1>3, <1>4 DEF Storing, Elsewhere, Plain
<1> QED
  BY <1>3, <1>5, <1>7, <1>8, <1>9, SoloInit DEF Alone

LEMMA AloneStep ==
    ASSUME NEW i, Instances = {i}, Basis, Shows, Counting, Reaching, Alone(i), [Next]_vars
    PROVE  Alone(i)'
<1>1. Basis'
  BY BasisStep
<1>2. Types /\ Types' /\ Members /\ Members' /\ LogOf(i) /\ i \in Instances
  BY <1>1 DEF Basis, Logs
<1>3. Solo(i) /\ Listed(i) /\ Heard(i) /\ \A p \in Connections : Numbers(p)
  BY DEF Alone, Counting
<1>4. Solo(i)' /\ Listed(i)'
  BY <1>2, <1>3, SoloStep, ListedStep
<1>5. Heard(i)'
  BY <1>2, <1>3, HeardStep
<1>6. Installed(i)'
  BY <1>2, InstalledStep DEF Reaching
<1>7. ASSUME NEW b \in sent' PROVE Traced(i, b)'
  <2>1. b \in Blobs
    BY <1>2 DEF Types, ClientTypes
  <2>2. CASE b \in sent
    BY <1>2, <1>3, <2>1, <2>2, TracedStep DEF Alone
  <2>3. ASSUME NEW c \in Clients, SendNext(c), UNCHANGED roomVars, conn[c] \in Connections,
               b.conn = conn[c], b.n = counter[c] + 1, counter' = [counter EXCEPT ![c] = b.n],
               ClientUpdate(b) \in Range(up'[conn[c]])
        PROVE  Traced(i, b)'
    BY Zenon, <1>2, <2>1, <2>3, TracedStarts DEF Counting
  <2> QED
    BY <1>2, <2>2, <2>3, SentStep
<1>8. ASSUME NEW c \in Clients PROVE Answering(i, c)'
  BY <1>2, <1>3, <1>5, AnsweringStep DEF Alone, Counting
<1>9. ASSUME NEW c \in Clients PROVE Storing(c)'
  BY <1>2, <1>3, TakesStep, <1>4, <1>5, <1>6, StoringStep DEF Takes, Alone, Counting, Shows
<1> QED
  BY <1>4, <1>5, <1>7, <1>8, <1>9 DEF Alone

LEMMA StoredWhenSaved ==
    ASSUME NEW i, Types, Alone(i)
    PROVE  SavedIsStoredUnlessResumed
<1> SUFFICES ASSUME NEW c \in Clients, c \notin resumed, Saved(c), NEW e \in OwnEdits(c)
             PROVE  e \in Kept
  BY DEF SavedIsStoredUnlessResumed
<1>1. e \in doc[c] /\ e \in Written /\ Mine(c, e)
  BY ClientFields DEF OwnEdits, Mine, Written
<1>2. e \in Kept \/ Leaving(c, e)
  BY <1>1 DEF Alone, Storing
<1>3. ~unsent[c] /\ e \notin pending[c]
  BY DEF Saved
<1>4. ASSUME NEW m \in Range(sending[c]), m.type = "update" PROVE FALSE
  BY ClientFields, ElementsOf, <1>4 DEF Saved, Inflight
<1>5. ASSUME NEW b \in sent, e \in b.edits, b.conn = conn[c] PROVE e \in Kept
  <2>1. b.n <= counter[c] /\ (b.n <= confirmed[c] => b \in Range(rows))
    BY <1>5 DEF Alone, Traced
  <2>2. counter[c] \in Nat /\ confirmed[c] \in Nat /\ b.n \in Nat /\ counter[c] <= confirmed[c]
    BY ClientFields, BlobFields DEF Types, ClientTypes, Saved
  <2>3. b \in Range(rows)
    BY <2>1, <2>2
  <2> QED
    BY <1>5, <2>3 DEF Kept, Stored, Plain
<1> QED
  BY <1>2, <1>3, <1>4, <1>5 DEF Leaving, SentHere

LEMMA AnsweredWhenQuiet ==
    ASSUME NEW i, Instances = {i}, Types, Members, Alone(i)
    PROVE  NobodyWaits
<1> SUFFICES ASSUME Quiet, NEW c \in Clients, conn[c] \in member
             PROVE  Saved(c)
  BY DEF NobodyWaits
<1>1. PICK p \in Connections : p = conn[c] /\ p \in member
  BY DEF Types, StreamTypes
<1>2. i \in Instances /\ queue[i] = <<>> /\ batch[i] = <<>> /\ up[p] = <<>> /\ down[p] = <<>>
      /\ sending[c] = <<>> /\ pending[c] = {}
  BY <1>1 DEF Quiet
<1>3. DOMAIN <<>> = {} /\ Range(<<>>) = {}
  BY RangeOfNone
<1>4. ~Inflight(c)
  BY <1>2, <1>3 DEF Inflight
<1>5. ~unsent[c]
  BY <1>1, <1>2, <1>3 DEF Alone, Answering
<1>6. counter[c] <= log[i].acks[p] /\ confirmed[c] = told[i][p]
  BY <1>1, <1>2, <1>3 DEF Alone, Answering, IsToldLast
<1>7. log[i].acks[p] <= told[i][p] \/ log[i].acks[p] <= 0
  BY <1>2 DEF Alone, Solo, NoCounters
<1>8. counter[c] \in Nat /\ log[i].acks[p] \in Nat /\ told[i][p] \in Nat
  BY <1>2, ClientFields, RoomFields, LogFields DEF Vector
<1> QED
  BY <1>2, <1>4, <1>5, <1>6, <1>7, <1>8 DEF Saved

(* On an instance of its own, what a client shows as saved on its first       *)
(* connection since it wrote (recomputeSaveState in encryptedProvider.ts:     *)
(* nothing pending, unsent, in flight or unacknowledged) is in the database,  *)
(* unless a snapshot of a client that never saw it left it out.               *)
THEOREM SavedWasStored ==
    ASSUME NEW i, Instances = {i}
    PROVE  Spec => []SavedIsStoredUnlessResumed
<1> DEFINE Inv == Basis /\ Shows /\ Counting /\ Reaching /\ Alone(i)
<1>1. Init => Inv
  BY BasisInit, ShowsInit, CountingInit, ReachingInit, AloneInit
<1>2. Inv /\ [Next]_vars => Inv'
  BY BasisStep, ShowsStep, CountingStep, ReachingStep, AloneStep
<1>3. Inv => SavedIsStoredUnlessResumed
  BY StoredWhenSaved DEF Basis
<1> HIDE DEF Inv
<1> QED
  BY <1>1, <1>2, <1>3, PTL DEF Spec

(* On an instance of its own no client is left waiting: once every queue,     *)
(* batch and stream is empty, every member has been told its last number ("or *)
(* our clients would wait for an acknowledgement forever": catchUp in         *)
(* roomPersistence.ts).                                                       *)
THEOREM AnsweredInTheEnd ==
    ASSUME NEW i, Instances = {i}
    PROVE  Spec => []NobodyWaits
<1> DEFINE Inv == Basis /\ Shows /\ Counting /\ Reaching /\ Alone(i)
<1>1. Init => Inv
  BY BasisInit, ShowsInit, CountingInit, ReachingInit, AloneInit
<1>2. Inv /\ [Next]_vars => Inv'
  BY BasisStep, ShowsStep, CountingStep, ReachingStep, AloneStep
<1>3. Inv => NobodyWaits
  BY AnsweredWhenQuiet DEF Basis
<1> HIDE DEF Inv
<1> QED
  BY <1>1, <1>2, <1>3, PTL DEF Spec
=============================================================================
