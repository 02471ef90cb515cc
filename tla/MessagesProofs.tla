--------------------------- MODULE MessagesProofs ---------------------------
(***************************************************************************)
(* Theorems about Messages, for any strings, sizes, limits and number of   *)
(* message objects.                                                        *)
(***************************************************************************)
EXTENDS Messages, FiniteSetTheorems, SequenceTheorems, WellFoundedInduction,
        TLAPS

(* The types, and the buffer a message of its length must have.            *)
Data == {d \in Seq(Bytes) : Len(d) <= MaxLen}

Sized(x) == (x.buf = NoBuffer) <=> (Len(x.data) <= Small)

Message == {x \in [state : {"open", "closed"}, data : Data,
                   buf : Buffers \cup {NoBuffer}, more : BOOLEAN] : Sized(x)}

Part == {x \in Message : x.state = "open"}

Types == msg \in [Msgs -> Message] /\ queue \in Seq(Part)

(* The parts that end a message, and the last of them.                     *)
FinalsOf(q) == {i \in DOMAIN q : ~q[i].more}

LastOf(q) ==
    IF FinalsOf(q) = {} THEN 0
    ELSE CHOOSE i \in FinalsOf(q) : \A j \in FinalsOf(q) : j <= i

(* The high water mark: it stops a first part only, so while a message is  *)
(* begun there is room for its end; a message has its end in time.         *)
Bounded(q) ==
    /\ Cardinality(FinalsOf(q)) <= Hwm
    /\ LastOf(q) < Len(q) => Cardinality(FinalsOf(q)) < Hwm
    /\ Len(q) - LastOf(q) < MaxParts
    /\ \A i \in 1 .. LastOf(q) :
          \E j \in FinalsOf(q) : i <= j /\ j < i + MaxParts

IInv ==
    /\ Types
    /\ Bounded(queue)
    /\ fault \in {"none", "numbers", "zero"}

-----------------------------------------------------------------------------
(* Sequences of parts.                                                     *)
LEMMA GreatestOf ==
    ASSUME NEW n \in Int, NEW S \in SUBSET (0 .. n), S # {}
    PROVE  \E m \in S : \A j \in S : j <= m
<1> DEFINE T == {n - i : i \in S}
<1>1. T \subseteq Nat /\ T # {}
  <2>1. ASSUME NEW j \in T
        PROVE  j \in Nat
    <3>1. PICK i \in S : j = n - i
      OBVIOUS
    <3>2. i \in 0 .. n
      OBVIOUS
    <3>3. QED
      BY <3>1, <3>2
  <2>2. PICK i \in S : TRUE
    OBVIOUS
  <2>3. n - i \in T
    OBVIOUS
  <2>4. QED
    BY <2>1, <2>3
<1>2. PICK l \in T : \A j \in T : <<j, l>> \notin OpToRel(<, Nat)
  <2> HIDE DEF T
  <2>1. QED
    BY <1>1, NatLessThanWellFounded, WFMin, Zenon
<1>3. PICK m \in S : l = n - m
  BY <1>2
<1>4. ASSUME NEW j \in S
      PROVE  j <= m
  <2>1. n - j \in T
    OBVIOUS
  <2>2. <<n - j, l>> \notin OpToRel(<, Nat)
    BY <1>2, <2>1
  <2>3. n - j \in Nat /\ l \in Nat
    BY <1>1, <2>1
  <2>4. (n - j < l) => <<n - j, l>> \in OpToRel(<, Nat)
    BY <2>3 DEF OpToRel
  <2>5. ~(n - j < l)
    BY <2>2, <2>4, Zenon
  <2>6. QED
    BY <1>3, <2>3, <2>5
<1>5. QED
  BY <1>4

LEMMA FinalParts ==
    ASSUME NEW q \in Seq(Part)
    PROVE  /\ FinalsOf(q) \subseteq 1 .. Len(q) /\ IsFiniteSet(FinalsOf(q))
           /\ Cardinality(FinalsOf(q)) \in Nat
           /\ LastOf(q) \in 0 .. Len(q) /\ Len(q) \in Nat
           /\ LastOf(q) # 0 => LastOf(q) \in FinalsOf(q)
           /\ \A j \in FinalsOf(q) : j <= LastOf(q)
           /\ FinalsOf(q) = {} <=> LastOf(q) = 0
<1> DEFINE n == Len(q)
<1>1. n \in Nat /\ DOMAIN q = 1 .. n
  OBVIOUS
<1> HIDE DEF n
<1>2. FinalsOf(q) \subseteq 1 .. n
  BY <1>1 DEF FinalsOf
<1>3. IsFiniteSet(FinalsOf(q)) /\ Cardinality(FinalsOf(q)) \in Nat
  <2>1. IsFiniteSet(1 .. n)
    BY <1>1, FS_Interval
  <2>2. QED
    BY <1>2, <2>1, FS_Subset, FS_CardinalityType
<1>4. CASE FinalsOf(q) = {}
  <2>1. LastOf(q) = 0
    BY <1>4 DEF LastOf
  <2>2. QED
    BY <1>1, <1>2, <1>3, <1>4, <2>1 DEF n
<1>5. CASE FinalsOf(q) # {}
  <2>1. FinalsOf(q) \in SUBSET (0 .. n) /\ n \in Int
    BY <1>1, <1>2
  <2>2. \E m \in FinalsOf(q) : \A j \in FinalsOf(q) : j <= m
    BY <1>5, <2>1, GreatestOf
  <2>3. LastOf(q) \in FinalsOf(q) /\ \A j \in FinalsOf(q) : j <= LastOf(q)
    BY <1>5, <2>2 DEF LastOf
  <2>4. LastOf(q) \in 1 .. n
    BY <1>2, <2>3
  <2>5. QED
    BY <1>1, <1>2, <1>3, <1>5, <2>3, <2>4 DEF n
<1>6. QED
  BY <1>4, <1>5

LEMMA LastIs ==
    ASSUME NEW q \in Seq(Part), NEW l \in Nat,
           l = 0 \/ l \in FinalsOf(q), \A j \in FinalsOf(q) : j <= l
    PROVE  LastOf(q) = l
<1>1. /\ FinalsOf(q) \subseteq 1 .. Len(q) /\ Len(q) \in Nat
      /\ LastOf(q) \in 0 .. Len(q)
      /\ LastOf(q) # 0 => LastOf(q) \in FinalsOf(q)
      /\ \A j \in FinalsOf(q) : j <= LastOf(q)
      /\ FinalsOf(q) = {} <=> LastOf(q) = 0
  BY FinalParts
<1>2. CASE FinalsOf(q) = {}
  BY <1>1, <1>2
<1>3. CASE FinalsOf(q) # {}
  <2>1. LastOf(q) \in FinalsOf(q) /\ LastOf(q) \in Nat
    BY <1>1, <1>3
  <2>2. \A j \in FinalsOf(q) : j \in Nat \ {0}
    BY <1>1
  <2>3. PICK j \in FinalsOf(q) : TRUE
    BY <1>3
  <2>4. l # 0
    BY <2>2, <2>3
  <2>5. l \in FinalsOf(q)
    BY <2>4
  <2>6. LastOf(q) <= l /\ l <= LastOf(q)
    BY <1>1, <2>1, <2>5
  <2>7. QED
    BY <2>1, <2>6
<1>4. QED
  BY <1>2, <1>3

LEMMA QueueIs ==
    Completed = FinalsOf(queue) /\ Begun = Len(queue) - LastOf(queue)
BY DEF Completed, Begun, FinalsOf, LastOf

(* A part is sent: the limit on messages is tested for the first part, the *)
(* limit on parts for one that is not the last.                            *)
LEMMA AppendBounded ==
    ASSUME NEW q \in Seq(Part), Bounded(q), NEW p \in Part,
           ~(LastOf(q) = Len(q) /\ Cardinality(FinalsOf(q)) = Hwm),
           p.more => Len(q) - LastOf(q) + 1 < MaxParts
    PROVE  Append(q, p) \in Seq(Part) /\ Bounded(Append(q, p))
<1> DEFINE r == Append(q, p)
           n == Len(q)
           F == FinalsOf(q)
           l == LastOf(q)
<1>1. /\ r \in Seq(Part) /\ Len(r) = n + 1 /\ n \in Nat
      /\ \A i \in 1 .. n : r[i] = q[i]
      /\ r[n + 1] = p
  BY AppendProperties, LenProperties
<1>2. /\ F \subseteq 1 .. n /\ IsFiniteSet(F) /\ Cardinality(F) \in Nat
      /\ l \in 0 .. n
      /\ l # 0 => l \in F
      /\ \A j \in F : j <= l
  BY FinalParts
<1>3. /\ Cardinality(F) <= Hwm
      /\ l < n => Cardinality(F) < Hwm
      /\ n - l < MaxParts
      /\ \A i \in 1 .. l : \E j \in F : i <= j /\ j < i + MaxParts
  BY DEF Bounded
<1>4. p.more \in BOOLEAN
  BY DEF Part, Message
<1>5. DOMAIN r = 1 .. n + 1 /\ DOMAIN q = 1 .. n
  BY <1>1, LenProperties
<1>6. FinalsOf(r) = IF p.more THEN F ELSE F \cup {n + 1}
  <2>1. \A i \in 1 .. n : i \in FinalsOf(r) <=> i \in F
    BY <1>1, <1>5 DEF FinalsOf
  <2>2. n + 1 \in FinalsOf(r) <=> ~p.more
    BY <1>1, <1>5 DEF FinalsOf
  <2>3. FinalsOf(r) \subseteq 1 .. n + 1
    BY <1>5 DEF FinalsOf
  <2> HIDE DEF r, n, F, l
  <2>4. \A i \in 1 .. n + 1 : i \in 1 .. n \/ i = n + 1
    BY <1>1
  <2>5. n + 1 \notin F
    BY <1>1, <1>2
  <2>6. ASSUME NEW i
        PROVE  i \in FinalsOf(r) <=> i \in (IF p.more THEN F ELSE F \cup {n + 1})
    <3>1. CASE i \in 1 .. n
      BY <1>1, <2>1, <3>1
    <3>2. CASE i = n + 1
      BY <2>2, <2>5, <3>2
    <3>3. CASE i \notin 1 .. n + 1
      <4>1. 1 .. n \subseteq 1 .. n + 1 /\ n + 1 \in 1 .. n + 1
        BY <1>1
      <4>2. i \notin F /\ i \notin FinalsOf(r) /\ i # n + 1
        BY <1>2, <2>3, <3>3, <4>1, Zenon
      <4>3. QED
        BY <4>2
    <3>4. QED
      BY <2>4, <3>1, <3>2, <3>3
  <2>7. QED
    BY <2>6
<1> HIDE DEF r, n, F, l
<1>7. CASE p.more
  <2>1. FinalsOf(r) = F
    BY <1>6, <1>7
  <2>2. LastOf(r) = l
    <3>1. l \in Nat /\ (l = 0 \/ l \in FinalsOf(r))
      BY <1>1, <1>2, <2>1
    <3>2. \A j \in FinalsOf(r) : j <= l
      BY <1>2, <2>1
    <3>3. QED
      BY <1>1, <3>1, <3>2, LastIs
  <2>3. n - l + 1 < MaxParts
    BY <1>7 DEF n, l
  <2>4. Cardinality(F) < Hwm
    <3>1. CASE l < n
      BY <1>3, <3>1
    <3>2. CASE ~(l < n)
      <4>1. l = n
        BY <1>1, <1>2, <3>2
      <4>2. Cardinality(F) # Hwm
        BY <4>1 DEF l, n, F
      <4>3. QED
        BY <1>2, <1>3, <4>2, SizesAssumption
    <3>3. QED
      BY <3>1, <3>2
  <2>5. (n + 1) - l < MaxParts
    BY <1>1, <1>2, <2>3, SizesAssumption
  <2>6. Bounded(r)
    BY <1>1, <1>3, <2>1, <2>2, <2>4, <2>5 DEF Bounded
  <2>7. QED
    BY <1>1, <2>6 DEF r
<1>8. CASE ~p.more
  <2>1. FinalsOf(r) = F \cup {n + 1}
    BY <1>6, <1>8
  <2>2. LastOf(r) = n + 1
    <3>1. ASSUME NEW j \in FinalsOf(r)
          PROVE  j <= n + 1
      <4>1. j \in 1 .. n \/ j = n + 1
        BY <1>2, <2>1
      <4>2. QED
        BY <1>1, <4>1
    <3>2. n + 1 \in Nat /\ n + 1 \in FinalsOf(r)
      BY <1>1, <2>1
    <3>3. QED
      BY <1>1, <3>1, <3>2, LastIs
  <2>3. Cardinality(FinalsOf(r)) <= Hwm
    <3>1. Cardinality(F \cup {n + 1}) = Cardinality(F) + 1
      <4>1. n + 1 \notin F
        BY <1>1, <1>2
      <4>2. QED
        BY <1>2, <4>1, FS_AddElement
    <3>2. Cardinality(F) < Hwm
      <4>1. CASE l < n
        BY <1>3, <4>1
      <4>2. CASE ~(l < n)
        <5>1. l = n
          BY <1>1, <1>2, <4>2
        <5>2. Cardinality(F) # Hwm
          BY <5>1 DEF l, n, F
        <5>3. QED
          BY <1>2, <1>3, <5>2, SizesAssumption
      <4>3. QED
        BY <4>1, <4>2
    <3>3. QED
      BY <1>2, <2>1, <3>1, <3>2, SizesAssumption
  <2>4. \A i \in 1 .. n + 1 : \E j \in FinalsOf(r) : i <= j /\ j < i + MaxParts
    <3> SUFFICES ASSUME NEW i \in 1 .. n + 1
                 PROVE  \E j \in FinalsOf(r) : i <= j /\ j < i + MaxParts
      OBVIOUS
    <3>1. CASE i \in 1 .. l
      BY <1>3, <2>1, <3>1
    <3>2. CASE i \notin 1 .. l
      <4>1. i > l
        BY <1>1, <1>2, <3>2
      <4>2. i <= n + 1 /\ n + 1 < i + MaxParts
        BY <1>1, <1>2, <1>3, <4>1, SizesAssumption
      <4>3. QED
        BY <2>1, <4>2
    <3>3. QED
      BY <3>1, <3>2
  <2>5. (n + 1) - (n + 1) < MaxParts /\ ~(n + 1 < n + 1)
    BY <1>1, SizesAssumption
  <2>6. Bounded(r)
    BY <1>1, <2>2, <2>3, <2>4, <2>5 DEF Bounded
  <2>7. QED
    BY <1>1, <2>6 DEF r
<1>9. QED
  BY <1>4, <1>7, <1>8

LEMMA OneLess ==
    ASSUME NEW n \in Nat, NEW i \in Nat \ {0}, NEW j \in 1 .. n, NEW m \in Nat,
           i + 1 <= j, j < (i + 1) + m
    PROVE  j - 1 \in 1 .. n - 1 /\ (j - 1) + 1 = j /\ i <= j - 1 /\ j - 1 < i + m
OBVIOUS

(* A part is received, of a message that has arrived whole.                *)
LEMMA TailBounded ==
    ASSUME NEW q \in Seq(Part), Bounded(q), FinalsOf(q) # {}
    PROVE  /\ q # << >> /\ Head(q) \in Part
           /\ Tail(q) \in Seq(Part) /\ Bounded(Tail(q))
<1> DEFINE r == Tail(q)
           n == Len(q)
           F == FinalsOf(q)
           l == LastOf(q)
           G == FinalsOf(r)
<1>1. /\ F \subseteq 1 .. n /\ IsFiniteSet(F) /\ Cardinality(F) \in Nat
      /\ l \in 1 .. n /\ n \in Nat /\ l \in F
      /\ \A j \in F : j <= l
  <2>1. l # 0
    BY FinalParts
  <2>2. QED
    BY <2>1, FinalParts
<1>2. q # << >> /\ Head(q) \in Part
  BY <1>1, EmptySeq, HeadTailProperties
<1>3. /\ r \in Seq(Part) /\ Len(r) = n - 1
      /\ \A i \in 1 .. n - 1 : r[i] = q[i + 1]
  BY <1>2, HeadTailProperties
<1>4. DOMAIN r = 1 .. n - 1 /\ DOMAIN q = 1 .. n
  BY <1>1, <1>3, LenProperties
<1>5. \A i \in 1 .. n - 1 : i \in G <=> i + 1 \in F
  <2> SUFFICES ASSUME NEW i \in 1 .. n - 1
               PROVE  i \in G <=> i + 1 \in F
    OBVIOUS
  <2>1. i + 1 \in 1 .. n
    BY <1>1
  <2>2. QED
    BY <1>3, <1>4, <2>1 DEF FinalsOf
<1>6. G \subseteq 1 .. n - 1
  BY <1>4 DEF FinalsOf
<1>7. /\ Cardinality(F) <= Hwm
      /\ l < n => Cardinality(F) < Hwm
      /\ n - l < MaxParts
      /\ \A i \in 1 .. l : \E j \in F : i <= j /\ j < i + MaxParts
  BY DEF Bounded
<1> HIDE DEF r, n, F, l, G
<1>8. IsFiniteSet(G) /\ Cardinality(G) \in Nat /\ Cardinality(G) <= Cardinality(F)
  <2> DEFINE f == [i \in G |-> i + 1]
  <2>1. f \in Injection(G, F)
    <3>1. f \in [G -> F]
      BY <1>5, <1>6
    <3>2. \A a, b \in G : f[a] = f[b] => a = b
      BY <1>1, <1>6
    <3>3. QED
      BY <3>1, <3>2 DEF Injection, IsInjective
  <2>2. QED
    BY <1>1, <2>1, FS_Injection, FS_CardinalityType
<1>9. LastOf(r) = l - 1
  <2>1. l - 1 \in Nat
    BY <1>1
  <2>2. l - 1 = 0 \/ l - 1 \in G
    <3>1. CASE l = 1
      BY <3>1
    <3>2. CASE l # 1
      <4>1. l - 1 \in 1 .. n - 1 /\ (l - 1) + 1 = l
        BY <1>1, <3>2
      <4>2. QED
        BY <1>1, <1>5, <4>1
    <3>3. QED
      BY <3>1, <3>2
  <2>3. ASSUME NEW j \in G
        PROVE  j <= l - 1
    <3>1. j \in 1 .. n - 1 /\ j + 1 \in F
      BY <1>5, <1>6, <2>3
    <3>2. j + 1 <= l
      BY <1>1, <3>1
    <3>3. QED
      BY <1>1, <3>1, <3>2
  <2>4. QED
    BY <1>3, <2>1, <2>2, <2>3, LastIs DEF G
<1>10. \A i \in 1 .. l - 1 : \E j \in G : i <= j /\ j < i + MaxParts
  <2> SUFFICES ASSUME NEW i \in 1 .. l - 1
               PROVE  \E j \in G : i <= j /\ j < i + MaxParts
    OBVIOUS
  <2>1. i + 1 \in 1 .. l
    BY <1>1
  <2>2. PICK j \in F : i + 1 <= j /\ j < (i + 1) + MaxParts
    BY <1>7, <2>1
  <2>3. j \in 1 .. n /\ i \in Nat \ {0}
    BY <1>1, <2>2
  <2>4. j - 1 \in 1 .. n - 1 /\ (j - 1) + 1 = j /\ i <= j - 1 /\ j - 1 < i + MaxParts
    BY <1>1, <2>2, <2>3, OneLess, SizesAssumption
  <2>5. j - 1 \in G
    BY <1>5, <2>2, <2>4
  <2>6. QED
    BY <2>4, <2>5
<1>11. /\ Cardinality(G) <= Hwm
       /\ l - 1 < n - 1 => Cardinality(G) < Hwm
       /\ (n - 1) - (l - 1) < MaxParts
  BY <1>1, <1>7, <1>8, SizesAssumption
<1>12. Bounded(r)
  BY <1>3, <1>9, <1>10, <1>11 DEF Bounded, G
<1>13. QED
  BY <1>2, <1>3, <1>12 DEF r

(* The bytes of parts change, their flags do not.                          *)
LEMMA SameBounded ==
    ASSUME NEW q \in Seq(Part), NEW r \in Seq(Part), Bounded(q), Len(r) = Len(q),
           \A i \in 1 .. Len(q) : r[i].more = q[i].more
    PROVE  Bounded(r)
<1>1. DOMAIN r = 1 .. Len(q) /\ DOMAIN q = 1 .. Len(q)
  BY LenProperties
<1>2. FinalsOf(r) = FinalsOf(q)
  BY <1>1 DEF FinalsOf
<1>3. LastOf(r) = LastOf(q)
  BY <1>2 DEF LastOf
<1>4. QED
  BY <1>2, <1>3 DEF Bounded

(* The parts of the messages in flight: every part of a whole message has  *)
(* the end of its message less than MaxParts parts away.                   *)
LEMMA QueueLength ==
    ASSUME NEW q \in Seq(Part), Bounded(q)
    PROVE  Len(q) <= Hwm * MaxParts
<1> DEFINE n == Len(q)
           F == FinalsOf(q)
           l == LastOf(q)
           c == Cardinality(F)
           O == 0 .. MaxParts - 1
<1>1. /\ F \subseteq 1 .. n /\ IsFiniteSet(F) /\ c \in Nat
      /\ l \in 0 .. n /\ n \in Nat
  BY FinalParts
<1>2. /\ c <= Hwm
      /\ l < n => c < Hwm
      /\ n - l < MaxParts
      /\ \A i \in 1 .. l : \E j \in F : i <= j /\ j < i + MaxParts
  BY DEF Bounded
<1>m. MaxParts \in Nat \ {0} /\ Hwm \in Nat
  BY SizesAssumption
<1> HIDE DEF n, F, l, c
<1>3. IsFiniteSet(O) /\ Cardinality(O) = MaxParts
  BY <1>m, FS_Interval
<1>4. IsFiniteSet(F \X O) /\ Cardinality(F \X O) = c * MaxParts
  BY <1>1, <1>3, FS_Product DEF c
<1> DEFINE end(i) == CHOOSE j \in F : i <= j /\ j < i + MaxParts
           f == [i \in 1 .. l |-> <<end(i), end(i) - i>>]
<1>5. \A i \in 1 .. l : end(i) \in F /\ i <= end(i) /\ end(i) < i + MaxParts
  BY <1>2
<1>6. f \in Injection(1 .. l, F \X O)
  <2>1. ASSUME NEW i \in 1 .. l
        PROVE  <<end(i), end(i) - i>> \in F \X O
    <3>1. end(i) \in F /\ i <= end(i) /\ end(i) < i + MaxParts
      BY <1>5
    <3>2. end(i) \in 1 .. n
      BY <1>1, <3>1
    <3> HIDE DEF end
    <3>3. end(i) - i \in O
      BY <1>1, <1>m, <3>1, <3>2
    <3>4. QED
      BY <3>1, <3>3
  <2>2. ASSUME NEW a \in 1 .. l, NEW b \in 1 .. l, f[a] = f[b]
        PROVE  a = b
    <3>2. end(a) \in 1 .. n
      BY <1>1, <1>5
    <3> HIDE DEF end
    <3>1. end(a) = end(b) /\ end(a) - a = end(b) - b
      BY <2>2
    <3>3. QED
      BY <1>1, <3>1, <3>2
  <2>3. f \in [1 .. l -> F \X O]
    <3> HIDE DEF end
    <3>1. QED
      BY <2>1
  <2> HIDE DEF f
  <2>4. QED
    BY <2>2, <2>3 DEF Injection, IsInjective
<1> HIDE DEF f
<1>7. l <= c * MaxParts
  <2>1. Cardinality(1 .. l) = l
    BY <1>1, FS_Interval
  <2>2. Cardinality(1 .. l) <= Cardinality(F \X O)
    BY <1>4, <1>6, FS_Injection
  <2>3. QED
    BY <1>4, <2>1, <2>2
<1>8. CASE l = n
  <2>1. c * MaxParts <= Hwm * MaxParts
    BY <1>1, <1>2, <1>m
  <2>2. QED
    BY <1>1, <1>7, <1>8, <1>m, <2>1 DEF n
<1>9. CASE l # n
  <2>1. c + 1 <= Hwm
    BY <1>1, <1>2, <1>9, <1>m
  <2>2. (c + 1) * MaxParts <= Hwm * MaxParts
    BY <1>1, <1>m, <2>1
  <2>3. (c + 1) * MaxParts = c * MaxParts + MaxParts
    BY <1>1, <1>m
  <2>4. n < c * MaxParts + MaxParts
    BY <1>1, <1>2, <1>7, <1>m
  <2>5. QED
    BY <1>1, <1>m, <2>2, <2>3, <2>4 DEF n
<1>10. QED
  BY <1>8, <1>9

-----------------------------------------------------------------------------
(* The bytes of a message.                                                 *)
LEMMA FunctionIsSequence ==
    ASSUME NEW S, NEW n \in Nat, NEW s \in [1 .. n -> S]
    PROVE  s \in Seq(S) /\ Len(s) = n
OBVIOUS

LEMMA JunkFits ==
    ASSUME NEW n \in Nat
    PROVE  Junk(n) \in Seq(Bytes) /\ Len(Junk(n)) = n
<1>1. Junk(n) \in [1 .. n -> Bytes]
  BY DEF Junk, Bytes
<1>2. QED
  BY <1>1, FunctionIsSequence

LEMMA CopiedFits ==
    ASSUME NEW dst \in Seq(Bytes), NEW src \in Seq(Bytes), NEW at \in Int
    PROVE  Copied(dst, at, src) \in Seq(Bytes) /\ Len(Copied(dst, at, src)) = Len(dst)
<1>1. Len(dst) \in Nat /\ Len(src) \in Nat
  BY LenProperties
<1>2. Copied(dst, at, src) \in [1 .. Len(dst) -> Bytes]
  <2>1. ASSUME NEW i \in 1 .. Len(dst)
        PROVE  (IF i > at /\ i <= at + Len(src) THEN src[i - at] ELSE dst[i]) \in Bytes
    <3>1. CASE i > at /\ i <= at + Len(src)
      <4>1. i - at \in 1 .. Len(src)
        BY <1>1, <3>1
      <4>2. src[i - at] \in Bytes
        BY <4>1, ElementOfSeq
      <4>3. QED
        BY <3>1, <4>2
    <3>2. CASE ~(i > at /\ i <= at + Len(src))
      BY <3>2, ElementOfSeq
    <3>3. QED
      BY <3>1, <3>2
  <2>2. QED
    BY <2>1 DEF Copied
<1>3. QED
  BY <1>1, <1>2, FunctionIsSequence

LEMMA StringFits ==
    ASSUME NEW s \in Strings
    PROVE  s \in Seq(Bytes) /\ Len(s) \in 1 .. MaxLen /\ MaxLen \in Nat
BY StringsAssumption, SizesAssumption

LEMMA MessageFields ==
    /\ \A x \in Message : /\ x.state \in {"open", "closed"} /\ x.more \in BOOLEAN
                          /\ x.data \in Seq(Bytes)
                          /\ Len(x.data) \in Nat /\ Len(x.data) <= MaxLen
                          /\ x.buf \in Buffers \cup {NoBuffer}
                          /\ (x.buf = NoBuffer) <=> (Len(x.data) <= Small)
    /\ Part \subseteq Message
    /\ NoBuffer \notin Buffers
<1>1. \A b \in Buffers : b \in Int
  BY DEF Buffers
<1>2. NoBuffer \notin Buffers
  BY <1>1, ObjectsAssumption
<1>3. \A d \in Seq(Bytes) : Len(d) \in Nat
  BY LenProperties
<1>4. QED
  BY <1>2, <1>3 DEF Message, Part, Data, Sized

LEMMA EmptyFits == Empty \in Part /\ NoObject \in Message
<1>1. << >> \in Data
  BY SizesAssumption, EmptySeq DEF Data
<1>2. Len(<< >>) <= Small
  BY SizesAssumption
<1>3. QED
  BY <1>1, <1>2 DEF Empty, NoObject, Object, Part, Message, Sized

LEMMA MessageWith ==
    ASSUME NEW x \in Message
    PROVE  /\ \A b \in BOOLEAN :
                 /\ [x EXCEPT !.more = b] \in Message
                 /\ [x EXCEPT !.more = b].state = x.state
                 /\ [x EXCEPT !.more = b].more = b
                 /\ [x EXCEPT !.more = b].data = x.data
           /\ \A d \in Data :
                 x.buf # NoBuffer /\ Len(d) > Small =>
                    /\ [x EXCEPT !.data = d] \in Message
                    /\ [x EXCEPT !.data = d].state = x.state
                    /\ [x EXCEPT !.data = d].more = x.more
           /\ \A d \in Data :
                 Len(d) = Len(x.data) => [x EXCEPT !.data = d] \in Message
<1>1. x \in [state : {"open", "closed"}, data : Data,
             buf : Buffers \cup {NoBuffer}, more : BOOLEAN] /\ Sized(x)
  BY DEF Message
<1>2. ASSUME NEW b \in BOOLEAN
      PROVE  /\ [x EXCEPT !.more = b] \in Message
             /\ [x EXCEPT !.more = b].state = x.state
             /\ [x EXCEPT !.more = b].more = b
             /\ [x EXCEPT !.more = b].data = x.data
  BY <1>1 DEF Message, Sized
<1>3. ASSUME NEW d \in Data
      PROVE  /\ [x EXCEPT !.data = d] \in [state : {"open", "closed"}, data : Data,
                    buf : Buffers \cup {NoBuffer}, more : BOOLEAN]
             /\ [x EXCEPT !.data = d].data = d /\ [x EXCEPT !.data = d].buf = x.buf
             /\ [x EXCEPT !.data = d].state = x.state
             /\ [x EXCEPT !.data = d].more = x.more
  BY <1>1
<1>4. \A d \in Data : Len(d) \in Nat
  BY LenProperties DEF Data
<1>5. ASSUME NEW d \in Data, x.buf # NoBuffer, Len(d) > Small
      PROVE  [x EXCEPT !.data = d] \in Message
  <2>1. ~(Len(d) <= Small)
    BY <1>4, <1>5, SizesAssumption
  <2>2. QED
    BY <1>3, <1>5, <2>1 DEF Message, Sized
<1>6. ASSUME NEW d \in Data, Len(d) = Len(x.data)
      PROVE  [x EXCEPT !.data = d] \in Message
  BY <1>1, <1>3, <1>6 DEF Message, Sized
<1>7. QED
  BY <1>2, <1>3, <1>5, <1>6

-----------------------------------------------------------------------------
(* There is always a buffer that nobody holds.                             *)
LEMMA FreshBuffer ==
    ASSUME IInv
    PROVE  FreeBuffer \in Buffers \ Held
<1>t. msg \in [Msgs -> Message] /\ queue \in Seq(Part) /\ Bounded(queue)
  BY DEF IInv, Types
<1> DEFINE A == {msg[m].buf : m \in Open}
           B == {queue[i].buf : i \in DOMAIN queue}
           n == Len(queue)
           k == Cardinality(Msgs)
<1>1. IsFiniteSet(A) /\ Cardinality(A) <= k /\ Cardinality(A) \in Nat /\ k \in Nat
  <2>1. IsFiniteSet(Open) /\ Cardinality(Open) <= k
    BY ObjectsAssumption, FS_Subset DEF Open
  <2> DEFINE f == [m \in Open |-> msg[m].buf]
  <2>2. f \in Surjection(Open, A)
    BY DEF Surjection
  <2> HIDE DEF f, A, k
  <2>3. IsFiniteSet(A) /\ Cardinality(A) <= Cardinality(Open)
    BY <2>1, <2>2, FS_Surjection
  <2>4. Cardinality(A) \in Nat /\ Cardinality(Open) \in Nat /\ k \in Nat
    BY <2>1, <2>3, ObjectsAssumption, FS_CardinalityType DEF k
  <2>5. QED
    BY <2>1, <2>3, <2>4
<1>2. IsFiniteSet(B) /\ Cardinality(B) <= n /\ Cardinality(B) \in Nat /\ n \in Nat
  <2>1. n \in Nat /\ DOMAIN queue = 1 .. n
    BY <1>t, LenProperties
  <2> HIDE DEF n
  <2>2. IsFiniteSet(1 .. n) /\ Cardinality(1 .. n) = n
    BY <2>1, FS_Interval
  <2> DEFINE f == [i \in 1 .. n |-> queue[i].buf]
  <2>3. f \in Surjection(1 .. n, B)
    BY <2>1 DEF Surjection
  <2> HIDE DEF f, B
  <2>4. IsFiniteSet(B) /\ Cardinality(B) <= Cardinality(1 .. n)
    BY <2>2, <2>3, FS_Surjection
  <2>5. Cardinality(B) \in Nat
    BY <2>4, FS_CardinalityType
  <2>6. QED
    BY <2>1, <2>2, <2>4, <2>5
<1>3. n <= Hwm * MaxParts
  BY <1>t, QueueLength
<1>4. Held = A \cup B
  BY DEF Held
<1> HIDE DEF A, B, n, k
<1>5. IsFiniteSet(Held) /\ Cardinality(Held) <= Cardinality(A) + Cardinality(B)
      /\ Cardinality(Held) \in Nat
  <2>1. IsFiniteSet(A \cap B) /\ Cardinality(A \cap B) \in Nat
    BY <1>1, FS_Intersection, FS_CardinalityType
  <2>2. IsFiniteSet(A \cup B)
        /\ Cardinality(A \cup B) = Cardinality(A) + Cardinality(B) - Cardinality(A \cap B)
    BY <1>1, <1>2, FS_Union
  <2>3. QED
    <3> DEFINE a == Cardinality(A)
               b == Cardinality(B)
               e == Cardinality(A \cap B)
               g == Cardinality(A \cup B)
    <3>1. a \in Nat /\ b \in Nat /\ e \in Nat /\ g = (a + b) - e /\ e <= a
      BY <1>1, <1>2, <2>1, <2>2, FS_Intersection
    <3> HIDE DEF a, b, e, g
    <3>2. g <= a + b /\ g \in Nat
      BY <3>1
    <3>3. QED
      BY <1>4, <2>2, <3>2 DEF a, b, g
<1> DEFINE w == Hwm * MaxParts
<1>6. w \in Nat
  BY SizesAssumption
<1>7. Buffers = 1 .. k + w + 1
  BY DEF Buffers, k
<1> HIDE DEF w
<1>8. IsFiniteSet(Buffers) /\ Cardinality(Buffers) = k + w + 1
  <2>1. k + w + 1 \in Nat
    BY <1>1, <1>6
  <2>2. QED
    BY <1>7, <2>1, FS_Interval
<1>9. Buffers \ Held # {}
  <2>1. SUFFICES ASSUME Buffers \subseteq Held
                 PROVE  FALSE
    OBVIOUS
  <2>2. Cardinality(Buffers) <= Cardinality(Held)
    BY <1>5, <2>1, FS_Subset
  <2>3. n <= w
    BY <1>3 DEF w
  <2> DEFINE a == Cardinality(A)
             b == Cardinality(B)
             g == Cardinality(Held)
  <2>4. /\ a \in Nat /\ a <= k /\ k \in Nat
        /\ b \in Nat /\ b <= n /\ n \in Nat
        /\ g \in Nat /\ g <= a + b
        /\ k + w + 1 <= g
    BY <1>1, <1>2, <1>5, <1>8, <2>2
  <2> HIDE DEF a, b, g
  <2>5. QED
    BY <1>6, <2>3, <2>4
<1>10. \E b \in Buffers \ Held : \A c \in Buffers \ Held : b <= c
  <2> DEFINE T == Buffers \ Held
  <2>1. T \subseteq Nat
    BY <1>1, <1>6, <1>7
  <2>2. PICK b \in T : \A c \in T : <<c, b>> \notin OpToRel(<, Nat)
    <3> HIDE DEF T
    <3>1. T # {}
      BY <1>9 DEF T
    <3>2. QED
      BY <2>1, <3>1, NatLessThanWellFounded, WFMin, Zenon
  <2>3. ASSUME NEW c \in T
        PROVE  b <= c
    <3>1. c \in Nat /\ b \in Nat
      BY <2>1
    <3>2. (c < b) => <<c, b>> \in OpToRel(<, Nat)
      BY <3>1 DEF OpToRel
    <3>3. ~(c < b)
      BY <2>2, <3>2, Zenon
    <3>4. QED
      BY <3>1, <3>3
  <2>4. QED
    BY <2>3
<1>11. QED
  BY <1>10 DEF FreeBuffer

LEMMA FilledFits ==
    ASSUME IInv, NEW d \in Seq(Bytes), Len(d) <= MaxLen
    PROVE  Filled(d) \in Part /\ Filled(d).data = d
<1>1. FreeBuffer \in Buffers /\ NoBuffer \notin Buffers
  BY FreshBuffer, MessageFields
<1>2. d \in Data
  BY DEF Data
<1>3. QED
  BY <1>1, <1>2 DEF Filled, Object, Part, Message, Sized

-----------------------------------------------------------------------------
(* Every method keeps the invariant.                                       *)
Calm == {"none", "numbers", "zero"}

LEMMA IInvInit == Init => IInv
<1> SUFFICES ASSUME Init
             PROVE  IInv
  OBVIOUS
<1>1. Types
  BY EmptyFits DEF Init, Types
<1>2. FinalsOf(<<>>) = {} /\ Len(<<>>) = 0 /\ <<>> \in Seq(Part)
  BY DEF FinalsOf
<1>3. LastOf(<<>>) = 0
  BY <1>2 DEF LastOf
<1>4. Cardinality({}) = 0
  BY FS_EmptySet
<1>5. Bounded(<<>>)
  BY <1>2, <1>3, <1>4, SizesAssumption DEF Bounded
<1>6. QED
  BY <1>1, <1>5 DEF Init, IInv

(* A method replaces a message, or two.                                    *)
LEMMA ReplacesKeep ==
    ASSUME IInv, queue' = queue, fault' \in Calm,
           msg' \in [Msgs -> Message]
    PROVE  IInv'
BY DEF IInv, Types, Calm

LEMMA CreatesKeep ==
    ASSUME IInv, NEW m \in Msgs, NEW x \in Message,
           msg' = [msg EXCEPT ![m] = x], queue' = queue, fault' \in Calm
    PROVE  IInv'
<1>1. msg' \in [Msgs -> Message]
  BY DEF IInv, Types
<1>2. QED
  BY <1>1, ReplacesKeep

LEMMA FillsKeep ==
    ASSUME IInv, NEW m \in Msgs, NEW d \in Seq(Bytes), Len(d) <= MaxLen,
           msg' = [msg EXCEPT ![m] = Filled(d)], queue' = queue, fault' = fault
    PROVE  IInv'
<1>1. Filled(d) \in Message
  BY FilledFits, MessageFields
<1>2. fault' \in Calm
  BY DEF IInv, Calm
<1>3. QED
  BY <1>1, <1>2, CreatesKeep

(* Bytes are written in place, and all who hold the buffer see them.       *)
LEMMA WriteKeeps ==
    ASSUME IInv, NEW m \in Open, NEW d \in Seq(Bytes),
           Len(d) = Len(msg[m].data), WriteInPlace(m, d), fault' = fault
    PROVE  IInv'
<1>t. msg \in [Msgs -> Message] /\ queue \in Seq(Part) /\ Bounded(queue)
      /\ m \in Msgs /\ msg[m] \in Message
  BY DEF IInv, Types, Open
<1>1. d \in Data
  BY <1>t, MessageFields DEF Data
<1>2. CASE msg[m].buf = NoBuffer
  <2>1. msg' = [msg EXCEPT ![m].data = d] /\ queue' = queue
    BY <1>2 DEF WriteInPlace
  <2>2. [msg[m] EXCEPT !.data = d] \in Message
    BY <1>t, <1>1, MessageWith
  <2>3. msg' = [msg EXCEPT ![m] = [msg[m] EXCEPT !.data = d]]
    BY <1>t, <2>1
  <2>4. fault' \in Calm
    BY DEF IInv, Calm
  <2>5. QED
    BY <1>t, <2>1, <2>2, <2>3, <2>4, CreatesKeep
<1>3. CASE msg[m].buf # NoBuffer
  <2>1. /\ msg' = [n \in Msgs |->
                      IF n \in Open /\ msg[n].buf = msg[m].buf
                      THEN [msg[n] EXCEPT !.data = d] ELSE msg[n]]
        /\ queue' = [i \in DOMAIN queue |->
                      IF queue[i].buf = msg[m].buf
                      THEN [queue[i] EXCEPT !.data = d] ELSE queue[i]]
    BY <1>3 DEF WriteInPlace
  <2>2. Len(d) > Small
    <3>1. ~(Len(d) <= Small) /\ Len(d) \in Nat
      BY <1>t, <1>3, MessageFields
    <3>2. QED
      BY <3>1, SizesAssumption
  <2>3. msg' \in [Msgs -> Message]
    <3>1. ASSUME NEW n \in Msgs, msg[n].buf = msg[m].buf
          PROVE  [msg[n] EXCEPT !.data = d] \in Message
      BY <1>t, <1>1, <1>3, <2>2, <3>1, MessageWith
    <3>2. QED
      BY <1>t, <2>1, <3>1
  <2> DEFINE n == Len(queue)
  <2>4. n \in Nat /\ DOMAIN queue = 1 .. n /\ \A i \in 1 .. n : queue[i] \in Part
    BY <1>t, LenProperties, ElementOfSeq
  <2> HIDE DEF n
  <2>5. \A i \in 1 .. n : queue[i].buf = msg[m].buf =>
            /\ [queue[i] EXCEPT !.data = d] \in Part
            /\ [queue[i] EXCEPT !.data = d].more = queue[i].more
    <3> SUFFICES ASSUME NEW i \in 1 .. n, queue[i].buf = msg[m].buf
                 PROVE  /\ [queue[i] EXCEPT !.data = d] \in Part
                        /\ [queue[i] EXCEPT !.data = d].more = queue[i].more
      OBVIOUS
    <3> DEFINE x == queue[i]
    <3>1. x \in Message /\ x.state = "open" /\ x.buf # NoBuffer
      BY <1>3, <2>4 DEF Part
    <3> HIDE DEF x
    <3>2. /\ [x EXCEPT !.data = d] \in Message
          /\ [x EXCEPT !.data = d].state = x.state
          /\ [x EXCEPT !.data = d].more = x.more
      BY <1>1, <2>2, <3>1, MessageWith
    <3>3. [x EXCEPT !.data = d] \in Part
      BY <3>1, <3>2 DEF Part
    <3>4. QED
      BY <3>2, <3>3 DEF x
  <2>6. queue' \in [1 .. n -> Part] /\ \A i \in 1 .. n : queue'[i].more = queue[i].more
    BY <2>1, <2>4, <2>5
  <2>7. queue' \in Seq(Part) /\ Len(queue') = n
    BY <2>4, <2>6, FunctionIsSequence
  <2>8. Bounded(queue')
    BY <1>t, <2>6, <2>7, SameBounded DEF n
  <2>9. QED
    BY <2>3, <2>7, <2>8 DEF IInv, Types
<1>4. QED
  BY <1>2, <1>3

LEMMA ConstructorsKeep ==
    ASSUME IInv, NEW m \in Msgs,
           \/ MsgInit(m)
           \/ \E n \in Sizes : MsgInitSize(m, n)
           \/ \E s \in Strings : MsgInitData(m, s)
    PROVE  IInv'
<1>1. CASE MsgInit(m)
  <2>1. fault' \in Calm /\ Empty \in Message
    BY <1>1, EmptyFits, MessageFields DEF MsgInit, IInv, Calm
  <2>2. QED
    BY <1>1, <2>1, CreatesKeep DEF MsgInit
<1>2. ASSUME NEW n \in Sizes, MsgInitSize(m, n)
      PROVE  IInv'
  <2>1. n \in Nat /\ n <= MaxLen
    BY SizesAssumption DEF Sizes
  <2>2. Junk(n) \in Seq(Bytes) /\ Len(Junk(n)) <= MaxLen
    BY <2>1, JunkFits
  <2>3. QED
    BY <1>2, <2>2, FillsKeep DEF MsgInitSize
<1>3. ASSUME NEW s \in Strings, MsgInitData(m, s)
      PROVE  IInv'
  <2>1. s \in Seq(Bytes) /\ Len(s) \in Nat /\ Len(s) <= MaxLen
    BY StringFits
  <2>2. Junk(Len(s)) \in Seq(Bytes) /\ Len(Junk(Len(s))) = Len(s)
    BY <2>1, JunkFits
  <2> DEFINE d == Copied(Junk(Len(s)), 0, s)
  <2>3. d \in Seq(Bytes) /\ Len(d) = Len(s)
    BY <2>1, <2>2, CopiedFits
  <2>4. msg' = [msg EXCEPT ![m] = Filled(d)] /\ queue' = queue /\ fault' = fault
    BY <1>3 DEF MsgInitData
  <2> HIDE DEF d
  <2>5. QED
    BY <2>1, <2>3, <2>4, FillsKeep
<1>4. QED
  BY <1>1, <1>2, <1>3

LEMMA TwoKeep ==
    ASSUME IInv, NEW m \in Msgs, NEW s \in Strings, NEW t \in Strings,
           NEW size \in Nat, NEW cause, Len(s) + Len(t) <= MaxLen,
           size <= Len(s) + Len(t),
           size = Len(s) + Len(t) \/ cause \in Calm,
           FromTwo(m, s, t, size, cause), queue' = queue
    PROVE  IInv'
<1>1. /\ s \in Seq(Bytes) /\ t \in Seq(Bytes)
      /\ Len(s) \in Nat /\ Len(t) \in Nat /\ MaxLen \in Nat
  BY StringFits
<1>f. fault \in Calm
  BY DEF IInv, Calm
<1>2. CASE size = 0
  <2>1. msg' = [msg EXCEPT ![m] = Empty] /\ fault' = fault /\ Empty \in Message
    BY <1>2, EmptyFits, MessageFields DEF FromTwo
  <2>2. QED
    BY <1>f, <2>1, CreatesKeep
<1>3. CASE size # 0 /\ (Leaves(0, Len(s), size) \/ Leaves(Len(s), Len(t), size))
  <2>1. fault' = cause /\ msg' = msg
    BY <1>3 DEF FromTwo
  <2>2. size # Len(s) + Len(t)
    BY <1>1, <1>3 DEF Leaves
  <2>3. QED
    BY <2>1, <2>2, ReplacesKeep DEF IInv, Types
<1>4. CASE size # 0 /\ ~(Leaves(0, Len(s), size) \/ Leaves(Len(s), Len(t), size))
  <2> DEFINE d == Copied(Copied(Junk(size), 0, s), Len(s), t)
  <2>1. d \in Seq(Bytes) /\ Len(d) = size
    <3>1. Junk(size) \in Seq(Bytes) /\ Len(Junk(size)) = size
      BY JunkFits
    <3>2. Copied(Junk(size), 0, s) \in Seq(Bytes)
          /\ Len(Copied(Junk(size), 0, s)) = size
      BY <1>1, <3>1, CopiedFits
    <3>3. QED
      BY <1>1, <3>2, CopiedFits
  <2>2. msg' = [msg EXCEPT ![m] = Filled(d)] /\ fault' = fault
    BY <1>4 DEF FromTwo
  <2> HIDE DEF d
  <2>3. Len(d) <= MaxLen
    BY <1>1, <2>1
  <2>4. QED
    BY <2>1, <2>2, <2>3, FillsKeep
<1>5. QED
  BY <1>2, <1>3, <1>4

LEMMA ArraysKeep ==
    ASSUME IInv, NEW m \in Msgs, NEW s \in Strings, NEW t \in Strings,
           \/ MsgInitDataMulti(m, s, t)
           \/ \E numbers \in SUBSET {1, 2} : MsgInitDataArray(m, s, t, numbers)
    PROVE  IInv'
<1>1. Len(s) \in Nat /\ Len(t) \in Nat
  BY StringFits
<1>2. CASE MsgInitDataMulti(m, s, t)
  <2>1. Len(s) + Len(t) \in Nat /\ Len(s) + Len(t) <= Len(s) + Len(t)
    BY <1>1
  <2>2. QED
    BY <1>2, <2>1, TwoKeep DEF MsgInitDataMulti
<1>3. ASSUME NEW numbers \in SUBSET {1, 2}, MsgInitDataArray(m, s, t, numbers)
      PROVE  IInv'
  <2> DEFINE a == IF 1 \in numbers THEN 0 ELSE Len(s)
             b == IF 2 \in numbers THEN 0 ELSE Len(t)
             cause == IF numbers = {} THEN "array" ELSE "numbers"
  <2>1. /\ FromTwo(m, s, t, a + b, cause) /\ queue' = queue
        /\ Len(s) + Len(t) <= MaxLen
    BY <1>3 DEF MsgInitDataArray
  <2>2. a \in {0, Len(s)} /\ b \in {0, Len(t)}
    OBVIOUS
  <2>3. a + b = Len(s) + Len(t) \/ cause \in Calm
    BY DEF Calm
  <2> HIDE DEF a, b, cause
  <2>4. a + b \in Nat /\ a + b <= Len(s) + Len(t)
    BY <1>1, <2>2
  <2>5. QED
    BY <2>1, <2>3, <2>4, TwoKeep
<1>4. QED
  BY <1>2, <1>3

LEMMA ExchangesKeep ==
    ASSUME IInv, NEW m \in Msgs,
           \/ MsgClose(m)
           \/ \E n \in Msgs : MsgMove(m, n) \/ MsgCopy(m, n)
           \/ \E more \in BOOLEAN : MsgSendFails(m, more)
    PROVE  IInv'
<1>t. msg \in [Msgs -> Message] /\ fault \in Calm
  BY DEF IInv, Types, Calm
<1>1. CASE MsgClose(m)
  BY <1>t, <1>1, EmptyFits, CreatesKeep DEF MsgClose
<1>2. ASSUME NEW n \in Msgs, MsgMove(m, n)
      PROVE  IInv'
  <2>1. Empty \in Message
    BY EmptyFits, MessageFields
  <2>2. msg' \in [Msgs -> Message] /\ queue' = queue /\ fault' \in Calm
    BY <1>t, <1>2, <2>1 DEF MsgMove
  <2>3. QED
    BY <2>2, ReplacesKeep
<1>3. ASSUME NEW n \in Msgs, MsgCopy(m, n)
      PROVE  IInv'
  BY <1>t, <1>3, CreatesKeep DEF MsgCopy
<1>4. ASSUME NEW more \in BOOLEAN, MsgSendFails(m, more)
      PROVE  IInv'
  <2>1. [msg[m] EXCEPT !.more = more] \in Message
    BY <1>t, MessageWith
  <2>2. msg' = [msg EXCEPT ![m] = [msg[m] EXCEPT !.more = more]]
        /\ queue' = queue /\ fault' = fault
    BY <1>t, <1>4 DEF MsgSendFails
  <2>3. QED
    BY <1>t, <2>1, <2>2, CreatesKeep
<1>5. QED
  BY <1>1, <1>2, <1>3, <1>4

LEMMA SetDataKeeps ==
    ASSUME IInv, NEW m \in Msgs, NEW s \in Strings,
           NEW pos \in Positions \cup {0}, MsgSetData(m, pos, s)
    PROVE  IInv'
<1> DEFINE at == pos - 1
           old == msg[m].data
           size == IF at + Len(s) > Len(old) THEN at + Len(s) ELSE Len(old)
<1>t. msg \in [Msgs -> Message] /\ msg[m] \in Message /\ m \in Open
  BY DEF IInv, Types, MsgSetData, CanCall
<1>1. s \in Seq(Bytes) /\ Len(s) \in Nat \ {0} /\ MaxLen \in Nat
  BY StringFits
<1>2. old \in Seq(Bytes) /\ Len(old) \in Nat
  BY <1>t, MessageFields
<1>3. at \in Int /\ pos \in Nat /\ (pos # 0 => at \in Nat)
  BY <1>1 DEF Positions
<1>4. size <= MaxLen
  BY DEF MsgSetData
<1>5. CASE Leaves(at, Len(s), size) \/ Leaves(0, Len(old), size)
  <2>1. fault' = (IF pos = 0 THEN "zero" ELSE "set_data") /\ UNCHANGED <<msg, queue>>
    BY <1>5 DEF MsgSetData
  <2>2. pos = 0
    <3> SUFFICES ASSUME at \in Nat
                 PROVE  FALSE
      BY <1>3
    <3> HIDE DEF at, old
    <3>1. QED
      BY <1>1, <1>2, <1>5 DEF Leaves
  <2>3. QED
    BY <1>t, <2>1, <2>2, ReplacesKeep DEF Calm
<1>6. CASE ~(Leaves(at, Len(s), size) \/ Leaves(0, Len(old), size))
  <2> DEFINE d == Copied(Copied(Junk(size), 0, old), at, s)
             e == Copied(old, at, s)
  <2>1. fault' = fault
        /\ IF size > Len(old) THEN msg' = [msg EXCEPT ![m] = Filled(d)] /\ queue' = queue
           ELSE WriteInPlace(m, e)
    BY <1>6 DEF MsgSetData
  <2>2. size \in Nat
    <3> HIDE DEF at, old
    <3>1. QED
      BY <1>1, <1>2, <1>3
  <2> HIDE DEF at, old, size
  <2>3. d \in Seq(Bytes) /\ Len(d) = size
    <3>1. Junk(size) \in Seq(Bytes) /\ Len(Junk(size)) = size
      BY <2>2, JunkFits
    <3>2. Copied(Junk(size), 0, old) \in Seq(Bytes) /\ Len(Copied(Junk(size), 0, old)) = size
      BY <1>2, <3>1, CopiedFits
    <3>3. QED
      BY <1>1, <1>3, <3>2, CopiedFits
  <2>4. e \in Seq(Bytes) /\ Len(e) = Len(old)
    BY <1>1, <1>2, <1>3, CopiedFits
  <2> HIDE DEF d, e
  <2>5. CASE size > Len(old)
    BY <1>4, <2>1, <2>3, <2>5, FillsKeep
  <2>6. CASE ~(size > Len(old))
    BY <1>t, <2>1, <2>4, <2>6, WriteKeeps DEF old
  <2>7. QED
    BY <2>5, <2>6
<1>7. QED
  BY <1>5, <1>6

LEMMA SetSizeKeeps ==
    ASSUME IInv, NEW m \in Msgs, NEW n \in Sizes, MsgSetSize(m, n)
    PROVE  IInv'
<1> DEFINE old == msg[m].data
           kept == IF n > Len(old) THEN Len(old) ELSE n
           d == Copied(Junk(n), 0, SubSeq(old, 1, kept))
<1>t. msg \in [Msgs -> Message] /\ msg[m] \in Message /\ m \in Open
      /\ fault \in Calm
  BY DEF IInv, Types, MsgSetSize, CanCall, Calm
<1>1. old \in Seq(Bytes) /\ Len(old) \in Nat
  BY <1>t, MessageFields
<1>2. n \in Nat /\ n <= MaxLen
  BY SizesAssumption DEF Sizes
<1> HIDE DEF old
<1>3. kept \in Nat /\ kept <= n /\ kept <= Len(old)
  BY <1>1, <1>2
<1>4. ~(Leaves(0, kept, n) \/ Leaves(0, kept, Len(old)))
  <2> HIDE DEF kept
  <2>1. QED
    BY <1>1, <1>2, <1>3 DEF Leaves
<1>5. msg' = [msg EXCEPT ![m] = Filled(d)] /\ queue' = queue /\ fault' = fault
  BY <1>4 DEF MsgSetSize, old
<1>6. d \in Seq(Bytes) /\ Len(d) = n
  <2> HIDE DEF kept
  <2>1. \A i \in 1 .. kept : old[i] \in Bytes
    BY <1>1, <1>3, ElementOfSeq
  <2>2. SubSeq(old, 1, kept) \in Seq(Bytes)
    BY <1>3, <2>1, SubSeqProperties
  <2>3. Junk(n) \in Seq(Bytes) /\ Len(Junk(n)) = n
    BY <1>2, JunkFits
  <2> DEFINE front == SubSeq(old, 1, kept)
             blank == Junk(n)
  <2>4. d = Copied(blank, 0, front)
    OBVIOUS
  <2> HIDE DEF front, blank, d
  <2>5. front \in Seq(Bytes) /\ blank \in Seq(Bytes) /\ Len(blank) = n
    BY <2>2, <2>3 DEF front, blank
  <2>6. QED
    BY <2>4, <2>5, CopiedFits
<1> HIDE DEF d
<1>7. QED
  BY <1>2, <1>5, <1>6, FillsKeep

LEMMA SendKeeps ==
    ASSUME IInv, NEW m \in Msgs, NEW more \in BOOLEAN, MsgSend(m, more)
    PROVE  IInv'
<1>t. msg \in [Msgs -> Message] /\ msg[m] \in Message /\ m \in Open
      /\ queue \in Seq(Part) /\ Bounded(queue) /\ fault \in Calm
  BY DEF IInv, Types, MsgSend, CanCall, Calm
<1> DEFINE p == [msg[m] EXCEPT !.more = more]
<1>1. p \in Part /\ p.more = more
  <2> DEFINE x == msg[m]
  <2>1. x \in Message /\ x.state = "open"
    BY <1>t DEF Open
  <2> HIDE DEF x
  <2>2. /\ [x EXCEPT !.more = more] \in Message
        /\ [x EXCEPT !.more = more].state = x.state
        /\ [x EXCEPT !.more = more].more = more
    BY <2>1, MessageWith
  <2>3. p = [x EXCEPT !.more = more]
    BY DEF x
  <2>4. QED
    BY <2>1, <2>2, <2>3 DEF Part
<1>2. queue' = Append(queue, p) /\ msg' = [msg EXCEPT ![m] = Empty] /\ fault' = fault
  BY DEF MsgSend
<1>3. ~(LastOf(queue) = Len(queue) /\ Cardinality(FinalsOf(queue)) = Hwm)
  <2>1. Len(queue) \in Nat
    BY <1>t, LenProperties
  <2>2. QED
    BY <2>1, QueueIs DEF MsgSend, NoRoom
<1>4. more => Len(queue) - LastOf(queue) + 1 < MaxParts
  BY QueueIs DEF MsgSend
<1> HIDE DEF p
<1>5. queue' \in Seq(Part) /\ Bounded(queue')
  BY <1>t, <1>1, <1>2, <1>3, <1>4, AppendBounded
<1>6. msg' \in [Msgs -> Message]
  BY <1>t, <1>2, EmptyFits, MessageFields
<1>7. QED
  BY <1>t, <1>2, <1>5, <1>6 DEF IInv, Types, Calm

LEMMA RecvKeeps ==
    ASSUME IInv, NEW m \in Msgs, MsgRecv(m)
    PROVE  IInv'
<1>t. msg \in [Msgs -> Message] /\ queue \in Seq(Part) /\ Bounded(queue)
      /\ fault \in Calm
  BY DEF IInv, Types, Calm
<1>1. FinalsOf(queue) # {}
  BY QueueIs DEF MsgRecv
<1>2. Head(queue) \in Message /\ Tail(queue) \in Seq(Part) /\ Bounded(Tail(queue))
  BY <1>t, <1>1, TailBounded, MessageFields
<1>3. msg' = [msg EXCEPT ![m] = Head(queue)] /\ queue' = Tail(queue) /\ fault' = fault
  BY DEF MsgRecv
<1>4. msg' \in [Msgs -> Message]
  BY <1>t, <1>2, <1>3
<1>5. QED
  BY <1>t, <1>2, <1>3, <1>4 DEF IInv, Types, Calm

LEMMA IInvStep == IInv /\ [Next]_vars => IInv'
<1> SUFFICES ASSUME IInv, [Next]_vars
             PROVE  IInv'
  OBVIOUS
<1>1. ASSUME NEW m \in Msgs,
             \/ MsgInit(m)
             \/ \E n \in Sizes : MsgInitSize(m, n)
             \/ \E s \in Strings : MsgInitData(m, s)
      PROVE  IInv'
  BY <1>1, ConstructorsKeep
<1>2. ASSUME NEW m \in Msgs, NEW s \in Strings, NEW t \in Strings,
             \/ MsgInitDataMulti(m, s, t)
             \/ \E numbers \in SUBSET {1, 2} : MsgInitDataArray(m, s, t, numbers)
      PROVE  IInv'
  BY <1>2, ArraysKeep
<1>3. ASSUME NEW m \in Msgs,
             \/ MsgClose(m)
             \/ \E n \in Msgs : MsgMove(m, n) \/ MsgCopy(m, n)
             \/ \E more \in BOOLEAN : MsgSendFails(m, more)
      PROVE  IInv'
  BY <1>3, ExchangesKeep
<1>4. ASSUME NEW m \in Msgs, NEW s \in Strings,
             NEW pos \in Positions \cup {0}, MsgSetData(m, pos, s)
      PROVE  IInv'
  BY <1>4, SetDataKeeps
<1>5. ASSUME NEW m \in Msgs, NEW n \in Sizes, MsgSetSize(m, n)
      PROVE  IInv'
  BY <1>5, SetSizeKeeps
<1>6. ASSUME NEW m \in Msgs, NEW more \in BOOLEAN, MsgSend(m, more)
      PROVE  IInv'
  BY <1>6, SendKeeps
<1>7. ASSUME NEW m \in Msgs, MsgRecv(m)
      PROVE  IInv'
  BY <1>7, RecvKeeps
<1>8. CASE UNCHANGED vars
  BY <1>8 DEF vars, IInv, Types
<1>9. ASSUME NEW m \in Msgs, MsgSendMore(m)
      PROVE  IInv'
  BY <1>3, <1>6, <1>9 DEF MsgSendMore
<1>10. QED
  BY <1>1, <1>2, <1>3, <1>4, <1>5, <1>6, <1>7, <1>8, <1>9 DEF Next

(* Whatever strings, sizes and positions the methods get: the bytes are in *)
(* a buffer when there are too many for the zmq_msg_t, the memcpy calls of *)
(* zmsg.c stay within their buffers but for the two inputs its checks let  *)
(* pass, and the queue holds no more than the high water mark allows.      *)
THEOREM CopiesInBounds == Spec => []InBounds
<1>1. IInv => InBounds
  <2> SUFFICES ASSUME IInv
               PROVE  InBounds
    OBVIOUS
  <2>1. \A m \in Msgs : msg[m] \in Message
    BY DEF IInv, Types
  <2>2. Cardinality(Completed) <= Hwm /\ Begun < MaxParts
    BY QueueIs DEF IInv, Bounded
  <2>3. QED
    BY <2>1, <2>2, MessageFields DEF InBounds, IInv
<1>2. QED
  BY <1>1, IInvInit, IInvStep, PTL DEF Spec

-----------------------------------------------------------------------------
(* The refinement.  What Values sees of the messages:                      *)
Value == [m \in Msgs |-> IF m \in Open THEN msg[m].data ELSE NoValue]
Sent == [i \in DOMAIN queue |-> queue[i].data]

ValueOf(x) == IF x.state = "open" THEN x.data ELSE NoValue

LEMMA ValueIs ==
    /\ Value = [m \in Msgs |-> ValueOf(msg[m])]
    /\ Value' = [m \in Msgs |-> ValueOf(msg'[m])]
BY DEF Value, ValueOf, Open

LEMMA OpenHasValue ==
    ASSUME IInv, NEW m \in Msgs
    PROVE  /\ m \in Open => Value[m] = msg[m].data /\ Value[m] # NoValue
           /\ m \notin Open => Value[m] = NoValue
<1>1. msg[m] \in Message
  BY DEF IInv, Types
<1> DEFINE d == msg[m].data
<1>2. d \in Seq(Bytes) /\ Len(d) \in Nat /\ Len(d) <= MaxLen
  BY <1>1, MessageFields
<1> HIDE DEF d
<1>3. d \in [1 .. Len(d) -> Bytes] /\ Len(d) \in 0 .. MaxLen
  BY <1>2, LenProperties, SizesAssumption
<1>4. d # NoValue
  BY <1>3, ObjectsAssumption
<1>5. QED
  BY <1>4 DEF Value, d

LEMMA OneChanges ==
    ASSUME IInv, NEW m \in Msgs, NEW x, msg' = [msg EXCEPT ![m] = x]
    PROVE  Value' = [Value EXCEPT ![m] = ValueOf(x)]
<1>1. msg \in [Msgs -> Message]
  BY DEF IInv, Types
<1>2. msg' = [n \in Msgs |-> IF n = m THEN x ELSE msg[n]]
  BY <1>1
<1>3. QED
  BY <1>2, ValueIs

(* The steps of Values in terms of what it sees.                           *)
LEMMA ValuesSees ==
    /\ Abstract!Init <=> Value = [m \in Msgs |-> NoValue] /\ Sent = <<>>
    /\ \A m \in Msgs : \A v :
          Value[m] = NoValue /\ Value' = [Value EXCEPT ![m] = v] /\ Sent' = Sent
          => Abstract!Next
    /\ \A m \in Msgs, p \in Positions, s \in Strings :
          /\ Value[m] # NoValue
          /\ Value' = [Value EXCEPT ![m] = Abstract!Overwrite(Value[m], p, s)]
          /\ Sent' = Sent
          => Abstract!Next
    /\ \A m \in Msgs, n \in Sizes :
          /\ Value[m] # NoValue
          /\ Value' = [Value EXCEPT ![m] = Abstract!Resize(Value[m], n)]
          /\ Sent' = Sent
          => Abstract!Next
    /\ \A d, s \in Msgs :
          /\ Value[s] # NoValue
          /\ Value' = [Value EXCEPT ![d] = Value[s]]
          /\ Sent' = Sent
          => Abstract!Next
    /\ \A d, s \in Msgs :
          /\ Value[s] # NoValue /\ d # s
          /\ Value' = [Value EXCEPT ![d] = Value[s], ![s] = <<>>]
          /\ Sent' = Sent
          => Abstract!Next
    /\ \A m \in Msgs :
          /\ Value[m] # NoValue
          /\ Sent' = Append(Sent, Value[m])
          /\ Value' = [Value EXCEPT ![m] = <<>>]
          => Abstract!Next
    /\ \A m \in Msgs :
          /\ Value[m] # NoValue /\ Sent # <<>>
          /\ Value' = [Value EXCEPT ![m] = Head(Sent)]
          /\ Sent' = Tail(Sent)
          => Abstract!Next
    /\ \A m \in Msgs :
          Value' = [Value EXCEPT ![m] = NoValue] /\ Sent' = Sent
          => Abstract!Next
    /\ UNCHANGED Abstract!vars <=> UNCHANGED <<Value, Sent>>
<1>1. Abstract!Init <=> Value = [m \in Msgs |-> NoValue] /\ Sent = <<>>
  BY DEF Abstract!Init, Value, Sent
<1>2. ASSUME NEW m \in Msgs, NEW v,
             Value[m] = NoValue, Value' = [Value EXCEPT ![m] = v], Sent' = Sent
      PROVE  Abstract!Next
  <2>1. Value' = [Value EXCEPT ![m] = Value'[m]]
    <3>1. Value \in [Msgs -> {Value[n] : n \in Msgs}]
      BY DEF Value
    <3> HIDE DEF Value
    <3>2. QED
      BY <1>2, <3>1
  <2>2. Abstract!New(m)
    BY <1>2, <2>1 DEF Abstract!New, Value, Sent
  <2>3. QED
    BY <2>2 DEF Abstract!Next
<1>3. ASSUME NEW m \in Msgs, NEW p \in Positions, NEW s \in Strings,
             Value[m] # NoValue,
             Value' = [Value EXCEPT ![m] = Abstract!Overwrite(Value[m], p, s)],
             Sent' = Sent
      PROVE  Abstract!Next
  <2>1. Abstract!Write(m, p, s)
    BY <1>3 DEF Abstract!Write, Value, Sent
  <2>2. QED
    BY <2>1 DEF Abstract!Next
<1>4. ASSUME NEW m \in Msgs, NEW n \in Sizes, Value[m] # NoValue,
             Value' = [Value EXCEPT ![m] = Abstract!Resize(Value[m], n)],
             Sent' = Sent
      PROVE  Abstract!Next
  <2>1. Abstract!SetSize(m, n)
    BY <1>4 DEF Abstract!SetSize, Value, Sent
  <2>2. QED
    BY <2>1 DEF Abstract!Next
<1>5. ASSUME NEW d \in Msgs, NEW s \in Msgs, Value[s] # NoValue,
             Value' = [Value EXCEPT ![d] = Value[s]], Sent' = Sent
      PROVE  Abstract!Next
  <2>1. Abstract!Copy(d, s)
    BY <1>5 DEF Abstract!Copy, Value, Sent
  <2>2. QED
    BY <2>1 DEF Abstract!Next
<1>6. ASSUME NEW d \in Msgs, NEW s \in Msgs, Value[s] # NoValue, d # s,
             Value' = [Value EXCEPT ![d] = Value[s], ![s] = <<>>], Sent' = Sent
      PROVE  Abstract!Next
  <2>1. Abstract!Move(d, s)
    BY <1>6 DEF Abstract!Move, Value, Sent
  <2>2. QED
    BY <2>1 DEF Abstract!Next
<1>7. ASSUME NEW m \in Msgs, Value[m] # NoValue, Sent' = Append(Sent, Value[m]),
             Value' = [Value EXCEPT ![m] = <<>>]
      PROVE  Abstract!Next
  <2>1. Abstract!Send(m)
    BY <1>7 DEF Abstract!Send, Value, Sent
  <2>2. QED
    BY <2>1 DEF Abstract!Next
<1>8. ASSUME NEW m \in Msgs, Value[m] # NoValue, Sent # <<>>,
             Value' = [Value EXCEPT ![m] = Head(Sent)], Sent' = Tail(Sent)
      PROVE  Abstract!Next
  <2>1. Abstract!Receive(m)
    BY <1>8 DEF Abstract!Receive, Value, Sent
  <2>2. QED
    BY <2>1 DEF Abstract!Next
<1>9. ASSUME NEW m \in Msgs, Value' = [Value EXCEPT ![m] = NoValue], Sent' = Sent
      PROVE  Abstract!Next
  <2>1. Abstract!Close(m)
    BY <1>9 DEF Abstract!Close, Value, Sent
  <2>2. QED
    BY <2>1 DEF Abstract!Next
<1>10. UNCHANGED Abstract!vars <=> UNCHANGED <<Value, Sent>>
  BY DEF Abstract!vars, Value, Sent
<1> HIDE DEF Value, Sent
<1>11. QED
  BY <1>1, <1>2, <1>3, <1>4, <1>5, <1>6, <1>7, <1>8, <1>9, <1>10

LEMMA SameSent ==
    ASSUME queue' = queue
    PROVE  Sent' = Sent
BY DEF Sent

-----------------------------------------------------------------------------
(* What the memcpy calls of set_data and set_size leave in the message.    *)
LEMMA CopiedAt ==
    ASSUME NEW dst \in Seq(Bytes), NEW src \in Seq(Bytes), NEW at \in Int,
           NEW i \in 1 .. Len(dst)
    PROVE  Copied(dst, at, src)[i] =
               IF i > at /\ i <= at + Len(src) THEN src[i - at] ELSE dst[i]
BY DEF Copied

LEMMA SamePlace ==
    ASSUME NEW i \in Nat, NEW pos \in Nat, NEW k \in Nat
    PROVE  /\ (i > pos - 1 /\ i <= (pos - 1) + k) <=> (i >= pos /\ i < pos + k)
           /\ i - (pos - 1) = i - pos + 1
OBVIOUS

LEMMA GrownData ==
    ASSUME NEW old \in Seq(Bytes), NEW s \in Seq(Bytes), NEW pos \in Nat \ {0},
           NEW size \in Nat, size = (pos - 1) + Len(s), size > Len(old)
    PROVE  Copied(Copied(Junk(size), 0, old), pos - 1, s)
               = Abstract!Overwrite(old, pos, s)
<1> DEFINE blank == Junk(size)
           a == Copied(blank, 0, old)
           b == Copied(a, pos - 1, s)
           c == Abstract!Overwrite(old, pos, s)
<1>1. blank \in Seq(Bytes) /\ Len(blank) = size
      /\ \A i \in 1 .. size : blank[i] = Undefined
  BY JunkFits DEF Junk
<1> HIDE DEF blank
<1>2. a \in Seq(Bytes) /\ Len(a) = size
  BY <1>1, CopiedFits
<1>3. b \in Seq(Bytes) /\ Len(b) = size
  <2> HIDE DEF a
  <2>1. pos - 1 \in Int
    OBVIOUS
  <2>2. QED
    BY <1>2, <2>1, CopiedFits
<1>l. Len(old) \in Nat /\ Len(s) \in Nat
  BY LenProperties
<1>4. c = [i \in 1 .. size |-> IF i >= pos /\ i < pos + Len(s) THEN s[i - pos + 1]
                               ELSE IF i <= Len(old) THEN old[i] ELSE Undefined]
  <2>1. size = IF pos + Len(s) - 1 > Len(old) THEN pos + Len(s) - 1 ELSE Len(old)
    BY <1>l
  <2>2. QED
    BY <2>1 DEF Abstract!Overwrite
<1>5. ASSUME NEW i \in 1 .. size
      PROVE  b[i] = c[i]
  <2>1. a[i] = IF i <= Len(old) THEN old[i] ELSE Undefined
    <3>1. a[i] = IF i > 0 /\ i <= 0 + Len(old) THEN old[i - 0] ELSE blank[i]
      BY <1>1, CopiedAt
    <3>2. i > 0 /\ i - 0 = i /\ 0 + Len(old) = Len(old)
      BY <1>l
    <3>3. QED
      BY <1>1, <3>1, <3>2
  <2> HIDE DEF a
  <2>2. b[i] = IF i > pos - 1 /\ i <= (pos - 1) + Len(s) THEN s[i - (pos - 1)] ELSE a[i]
    <3>1. pos - 1 \in Int /\ i \in 1 .. Len(a)
      BY <1>2
    <3>2. QED
      BY <1>2, <3>1, CopiedAt
  <2>3. /\ (i > pos - 1 /\ i <= (pos - 1) + Len(s)) <=> (i >= pos /\ i < pos + Len(s))
        /\ i - (pos - 1) = i - pos + 1
    BY <1>l, SamePlace
  <2>4. c[i] = IF i >= pos /\ i < pos + Len(s) THEN s[i - pos + 1]
               ELSE IF i <= Len(old) THEN old[i] ELSE Undefined
    BY <1>4
  <2> HIDE DEF b, c
  <2>5. QED
    BY <2>1, <2>2, <2>3, <2>4
<1> HIDE DEF b, c
<1>6. b \in [1 .. size -> Bytes]
  BY <1>3, LenProperties
<1>7. b = c
  BY <1>4, <1>5, <1>6
<1>8. QED
  BY <1>7 DEF a, b, c, blank

LEMMA WrittenData ==
    ASSUME NEW old \in Seq(Bytes), NEW s \in Seq(Bytes), NEW pos \in Nat \ {0},
           (pos - 1) + Len(s) <= Len(old)
    PROVE  Copied(old, pos - 1, s) = Abstract!Overwrite(old, pos, s)
<1> DEFINE b == Copied(old, pos - 1, s)
           c == Abstract!Overwrite(old, pos, s)
           n == Len(old)
<1>l. n \in Nat /\ Len(s) \in Nat
  BY LenProperties
<1>3. b \in Seq(Bytes) /\ Len(b) = n
  <2>1. pos - 1 \in Int
    OBVIOUS
  <2>2. QED
    BY <2>1, CopiedFits
<1>4. c = [i \in 1 .. n |-> IF i >= pos /\ i < pos + Len(s) THEN s[i - pos + 1]
                            ELSE IF i <= n THEN old[i] ELSE Undefined]
  <2>1. n = IF pos + Len(s) - 1 > Len(old) THEN pos + Len(s) - 1 ELSE Len(old)
    BY <1>l
  <2>2. QED
    BY <2>1 DEF Abstract!Overwrite
<1>5. ASSUME NEW i \in 1 .. n
      PROVE  b[i] = c[i]
  <2>1. b[i] = IF i > pos - 1 /\ i <= (pos - 1) + Len(s) THEN s[i - (pos - 1)] ELSE old[i]
    <3>1. pos - 1 \in Int /\ i \in 1 .. Len(old)
      OBVIOUS
    <3>2. QED
      BY <3>1, CopiedAt
  <2>2. /\ (i > pos - 1 /\ i <= (pos - 1) + Len(s)) <=> (i >= pos /\ i < pos + Len(s))
        /\ i - (pos - 1) = i - pos + 1
    BY <1>l, SamePlace
  <2>3. c[i] = IF i >= pos /\ i < pos + Len(s) THEN s[i - pos + 1]
               ELSE IF i <= n THEN old[i] ELSE Undefined
    BY <1>4
  <2> HIDE DEF b, c, n
  <2>4. i <= n
    BY <1>l
  <2>5. QED
    BY <2>1, <2>2, <2>3, <2>4
<1> HIDE DEF b, c, n
<1>6. b \in [1 .. n -> Bytes]
  BY <1>3, LenProperties
<1>7. b = c
  BY <1>4, <1>5, <1>6
<1>8. QED
  BY <1>7 DEF b, c

LEMMA ResizedData ==
    ASSUME NEW old \in Seq(Bytes), NEW n \in Nat, NEW kept \in Nat,
           kept = IF n > Len(old) THEN Len(old) ELSE n
    PROVE  Copied(Junk(n), 0, SubSeq(old, 1, kept)) = Abstract!Resize(old, n)
<1> DEFINE blank == Junk(n)
           front == SubSeq(old, 1, kept)
           b == Copied(blank, 0, front)
           c == Abstract!Resize(old, n)
<1>l. Len(old) \in Nat /\ kept <= Len(old) /\ kept <= n
  BY LenProperties
<1>1. blank \in Seq(Bytes) /\ Len(blank) = n /\ \A i \in 1 .. n : blank[i] = Undefined
  BY JunkFits DEF Junk
<1>2. front \in Seq(Bytes) /\ Len(front) = kept /\ \A i \in 1 .. kept : front[i] = old[i]
  <2>1. \A i \in 1 .. kept : old[i] \in Bytes
    BY <1>l, ElementOfSeq
  <2>2. /\ front \in Seq(Bytes)
        /\ Len(front) = IF 1 <= kept THEN kept - 1 + 1 ELSE 0
        /\ \A i \in 1 .. kept - 1 + 1 : front[i] = old[1 + i - 1]
    BY <2>1, SubSeqProperties
  <2>3. kept - 1 + 1 = kept /\ (~(1 <= kept) => kept = 0)
        /\ \A i \in 1 .. kept : 1 + i - 1 = i
    OBVIOUS
  <2> HIDE DEF front
  <2>4. QED
    BY <2>2, <2>3
<1> HIDE DEF blank, front
<1>3. b \in Seq(Bytes) /\ Len(b) = n
  BY <1>1, <1>2, CopiedFits
<1>4. c = [i \in 1 .. n |-> IF i <= Len(old) THEN old[i] ELSE Undefined]
  BY DEF Abstract!Resize
<1>5. ASSUME NEW i \in 1 .. n
      PROVE  b[i] = c[i]
  <2>1. b[i] = IF i > 0 /\ i <= 0 + Len(front) THEN front[i - 0] ELSE blank[i]
    BY <1>1, <1>2, CopiedAt
  <2>2. i > 0 /\ i - 0 = i /\ 0 + kept = kept /\ (i <= kept <=> i <= Len(old))
    BY <1>l
  <2>3. c[i] = IF i <= Len(old) THEN old[i] ELSE Undefined
    BY <1>4
  <2> HIDE DEF b, c
  <2>4. CASE i <= kept
    <3>1. i \in 1 .. kept
      BY <2>4
    <3>2. front[i] = old[i]
      BY <1>2, <3>1
    <3>3. QED
      BY <1>2, <2>1, <2>2, <2>3, <2>4, <3>2
  <2>5. CASE ~(i <= kept)
    BY <1>1, <1>2, <2>1, <2>2, <2>3, <2>5
  <2>6. QED
    BY <2>4, <2>5
<1> HIDE DEF b, c
<1>6. b \in [1 .. n -> Bytes]
  BY <1>3, LenProperties
<1>7. b = c
  BY <1>4, <1>5, <1>6
<1>8. QED
  BY <1>7 DEF b, c, blank, front

(* What was sent, as Values sees it.                                       *)
DataOf(q) == [i \in DOMAIN q |-> q[i].data]

LEMMA DataIs ==
    ASSUME NEW q \in Seq(Part)
    PROVE  /\ DataOf(q) \in Seq(Data) /\ Len(DataOf(q)) = Len(q) /\ Len(q) \in Nat
           /\ \A i \in 1 .. Len(q) : DataOf(q)[i] = q[i].data
<1>1. Len(q) \in Nat /\ DOMAIN q = 1 .. Len(q)
  BY LenProperties
<1>2. \A i \in 1 .. Len(q) : q[i].data \in Data
  BY ElementOfSeq DEF Part, Message
<1> DEFINE n == Len(q)
<1>3. DataOf(q) \in [1 .. n -> Data]
  BY <1>1, <1>2 DEF DataOf
<1>4. n \in Nat
  BY <1>1
<1> HIDE DEF n
<1>5. DataOf(q) \in Seq(Data) /\ Len(DataOf(q)) = n
  BY <1>3, <1>4, FunctionIsSequence
<1>6. QED
  BY <1>1, <1>5 DEF DataOf, n

LEMMA DataAppended ==
    ASSUME NEW q \in Seq(Part), NEW x \in Part
    PROVE  DataOf(Append(q, x)) = Append(DataOf(q), x.data)
<1> DEFINE r == Append(q, x)
           d == DataOf(q)
           e == DataOf(r)
           y == x.data
<1>1. y \in Data
  BY DEF Part, Message
<1>2. r \in Seq(Part) /\ Len(r) = Len(q) + 1 /\ r[Len(q) + 1] = x
      /\ \A i \in 1 .. Len(q) : r[i] = q[i]
  BY AppendProperties
<1> HIDE DEF r
<1>3. /\ d \in Seq(Data) /\ Len(d) = Len(q) /\ Len(q) \in Nat
      /\ \A i \in 1 .. Len(q) : d[i] = q[i].data
  BY DataIs
<1>4. /\ e \in Seq(Data) /\ Len(e) = Len(r)
      /\ \A i \in 1 .. Len(r) : e[i] = r[i].data
  BY <1>2, DataIs
<1> HIDE DEF d, e, y
<1>5. Append(d, y) \in Seq(Data) /\ Len(Append(d, y)) = Len(d) + 1
      /\ Append(d, y)[Len(d) + 1] = y
      /\ \A i \in 1 .. Len(d) : Append(d, y)[i] = d[i]
  BY <1>1, <1>3, AppendProperties
<1>6. ASSUME NEW i \in 1 .. Len(e)
      PROVE  e[i] = Append(d, y)[i]
  <2>1. CASE i \in 1 .. Len(q)
    BY <1>2, <1>3, <1>4, <1>5, <2>1
  <2>2. CASE i = Len(q) + 1
    BY <1>2, <1>3, <1>4, <1>5, <2>2 DEF y
  <2>3. QED
    BY <1>2, <1>3, <1>4, <2>1, <2>2
<1>7. e = Append(d, y)
  <2>1. Len(e) = Len(Append(d, y))
    BY <1>2, <1>3, <1>4, <1>5
  <2>2. QED
    BY <1>4, <1>5, <1>6, <2>1, SeqEqual
<1>8. QED
  BY <1>7 DEF d, e, r, y

LEMMA DataTaken ==
    ASSUME NEW q \in Seq(Part), q # <<>>
    PROVE  /\ DataOf(q) # <<>>
           /\ Head(DataOf(q)) = Head(q).data
           /\ Tail(DataOf(q)) = DataOf(Tail(q))
<1> DEFINE r == Tail(q)
           d == DataOf(q)
           e == DataOf(r)
<1>1. r \in Seq(Part) /\ Len(r) = Len(q) - 1
      /\ \A i \in 1 .. Len(r) : r[i] = q[i + 1]
  BY HeadTailProperties
<1>2. Head(q) = q[1]
  OBVIOUS
<1> HIDE DEF r
<1>3. /\ d \in Seq(Data) /\ Len(d) = Len(q) /\ Len(q) \in Nat
      /\ \A i \in 1 .. Len(q) : d[i] = q[i].data
  BY DataIs
<1>4. /\ e \in Seq(Data) /\ Len(e) = Len(r) /\ Len(r) \in Nat
      /\ \A i \in 1 .. Len(r) : e[i] = r[i].data
  BY <1>1, DataIs
<1> HIDE DEF d, e
<1>5. Len(q) \in Nat \ {0}
  BY EmptySeq
<1>6. d # <<>> /\ Head(d) = d[1]
  <2>1. Len(d) # 0 /\ Len(<<>>) = 0
    BY <1>3, <1>5
  <2>2. d # <<>>
    BY <2>1
  <2>3. QED
    BY <1>3, <2>2
<1>7. Tail(d) \in Seq(Data) /\ Len(Tail(d)) = Len(d) - 1
      /\ \A i \in 1 .. Len(Tail(d)) : Tail(d)[i] = d[i + 1]
  BY <1>3, <1>6, HeadTailProperties
<1>8. ASSUME NEW i \in 1 .. Len(e)
      PROVE  e[i] = Tail(d)[i]
  <2>1. i + 1 \in 1 .. Len(q) /\ i \in 1 .. Len(r) /\ i \in 1 .. Len(Tail(d))
    BY <1>1, <1>3, <1>4, <1>5, <1>7
  <2>2. QED
    BY <1>1, <1>3, <1>4, <1>7, <2>1
<1>9. e = Tail(d)
  <2>1. Len(e) = Len(Tail(d))
    BY <1>1, <1>3, <1>4, <1>7
  <2>2. QED
    BY <1>4, <1>7, <1>8, <2>1, SeqEqual
<1>10. d[1] = q[1].data
  BY <1>3, <1>5
<1>11. QED
  BY <1>2, <1>6, <1>9, <1>10 DEF d, e, r

-----------------------------------------------------------------------------
(* Every method is a step of Values, or none at all when a memcpy that     *)
(* would leave its buffer ends what is known of the program.               *)
LEMMA NothingChanges ==
    ASSUME msg' = msg, queue' = queue
    PROVE  [Abstract!Next]_(Abstract!vars)
<1>1. Value' = Value /\ Sent' = Sent
  BY DEF Value, Sent, Open
<1>2. QED
  BY <1>1, ValuesSees

LEMMA NewIsNew ==
    ASSUME IInv, NEW m \in Msgs, CanCreate(m), NEW x,
           msg' = [msg EXCEPT ![m] = x], queue' = queue
    PROVE  Abstract!Next
<1>1. m \notin Open
  BY DEF CanCreate, Closed, Open
<1>2. Value[m] = NoValue
  BY <1>1, OpenHasValue
<1>3. Value' = [Value EXCEPT ![m] = ValueOf(x)] /\ Sent' = Sent
  BY OneChanges, SameSent
<1>4. QED
  BY <1>2, <1>3, ValuesSees

LEMMA ConstructorsAreNew ==
    ASSUME IInv, NEW m \in Msgs,
           \/ MsgInit(m)
           \/ \E n \in Sizes : MsgInitSize(m, n)
           \/ \E s \in Strings : MsgInitData(m, s)
           \/ \E s, t \in Strings : MsgInitDataMulti(m, s, t)
           \/ \E s, t \in Strings, numbers \in SUBSET {1, 2} :
                 MsgInitDataArray(m, s, t, numbers)
    PROVE  [Abstract!Next]_(Abstract!vars)
<1>1. CASE MsgInit(m)
  BY <1>1, NewIsNew DEF MsgInit
<1>2. ASSUME NEW n \in Sizes, MsgInitSize(m, n)
      PROVE  Abstract!Next
  BY <1>2, NewIsNew DEF MsgInitSize
<1>3. ASSUME NEW s \in Strings, MsgInitData(m, s)
      PROVE  Abstract!Next
  BY <1>3, NewIsNew DEF MsgInitData
<1>4. ASSUME NEW s, NEW t, NEW size, NEW cause,
             CanCreate(m), queue' = queue, FromTwo(m, s, t, size, cause)
      PROVE  [Abstract!Next]_(Abstract!vars)
  <2>1. (\E x : msg' = [msg EXCEPT ![m] = x]) \/ msg' = msg
    BY <1>4 DEF FromTwo
  <2>2. QED
    BY <1>4, <2>1, NewIsNew, NothingChanges
<1>5. ASSUME NEW s \in Strings, NEW t \in Strings, MsgInitDataMulti(m, s, t)
      PROVE  [Abstract!Next]_(Abstract!vars)
  BY <1>4, <1>5 DEF MsgInitDataMulti
<1>6. ASSUME NEW s \in Strings, NEW t \in Strings,
             NEW numbers \in SUBSET {1, 2}, MsgInitDataArray(m, s, t, numbers)
      PROVE  [Abstract!Next]_(Abstract!vars)
  BY <1>4, <1>6 DEF MsgInitDataArray
<1>7. QED
  BY <1>1, <1>2, <1>3, <1>5, <1>6

(* What the object held is gone; what it refers to is shared, or moved.    *)
LEMMA ExchangesAreValues ==
    ASSUME IInv, NEW m \in Msgs,
           \/ MsgClose(m)
           \/ \E n \in Msgs : MsgMove(m, n) \/ MsgCopy(m, n)
           \/ \E more \in BOOLEAN : MsgSendFails(m, more)
    PROVE  [Abstract!Next]_(Abstract!vars)
<1>t. msg \in [Msgs -> Message]
  BY DEF IInv, Types
<1>1. CASE MsgClose(m)
  <2>1. Value' = [Value EXCEPT ![m] = ValueOf(NoObject)] /\ Sent' = Sent
    BY <1>1, OneChanges, SameSent DEF MsgClose
  <2>2. ValueOf(NoObject) = NoValue
    BY DEF ValueOf, NoObject
  <2>3. QED
    BY <2>1, <2>2, ValuesSees
<1>2. ASSUME NEW n \in Msgs, MsgMove(m, n)
      PROVE  Abstract!Next
  <2>1. n \in Open /\ m # n /\ queue' = queue
        /\ msg' = [msg EXCEPT ![m] = msg[n], ![n] = Empty]
    BY <1>2 DEF MsgMove, CanCall
  <2>2. ValueOf(msg[n]) = Value[n] /\ ValueOf(Empty) = <<>> /\ Value[n] # NoValue
    BY <2>1, OpenHasValue DEF ValueOf, Open, Empty, Object
  <2>3. msg' = [k \in Msgs |-> IF k = n THEN Empty ELSE IF k = m THEN msg[n] ELSE msg[k]]
    BY <1>t, <2>1
  <2>4. Value' = [Value EXCEPT ![m] = Value[n], ![n] = <<>>]
    BY <2>1, <2>2, <2>3, ValueIs
  <2>5. Sent' = Sent
    BY <2>1, SameSent
  <2>6. QED
    BY <2>1, <2>2, <2>4, <2>5, ValuesSees
<1>3. ASSUME NEW n \in Msgs, MsgCopy(m, n)
      PROVE  Abstract!Next
  <2>1. n \in Open /\ queue' = queue /\ msg' = [msg EXCEPT ![m] = msg[n]]
    BY <1>3 DEF MsgCopy, CanCall
  <2>2. ValueOf(msg[n]) = Value[n] /\ Value[n] # NoValue
    BY <2>1, OpenHasValue DEF ValueOf, Open
  <2>3. Value' = [Value EXCEPT ![m] = Value[n]] /\ Sent' = Sent
    BY <2>1, <2>2, OneChanges, SameSent
  <2>4. QED
    BY <2>2, <2>3, ValuesSees
<1>4. ASSUME NEW more \in BOOLEAN, MsgSendFails(m, more)
      PROVE  [Abstract!Next]_(Abstract!vars)
  <2> DEFINE x == [msg[m] EXCEPT !.more = more]
  <2>1. m \in Open /\ queue' = queue /\ msg' = [msg EXCEPT ![m] = x]
    BY <1>4 DEF MsgSendFails, CanCall
  <2>2. ValueOf(x) = Value[m]
    <3>1. x.state = msg[m].state /\ x.data = msg[m].data
      BY <1>t, MessageWith
    <3>2. QED
      BY <2>1, <3>1, OpenHasValue DEF ValueOf, Open
  <2> HIDE DEF x
  <2>3. Value' = [Value EXCEPT ![m] = Value[m]] /\ Sent' = Sent
    BY <2>1, <2>2, OneChanges, SameSent
  <2>4. Value[m] # NoValue
    BY <2>1, OpenHasValue
  <2>5. QED
    BY <2>3, <2>4, ValuesSees
<1>5. QED
  BY <1>1, <1>2, <1>3, <1>4

LEMMA SendIsSend ==
    ASSUME IInv, NEW m \in Msgs, NEW more \in BOOLEAN, MsgSend(m, more)
    PROVE  Abstract!Next
<1>t. msg \in [Msgs -> Message] /\ queue \in Seq(Part)
  BY DEF IInv, Types
<1> DEFINE x == [msg[m] EXCEPT !.more = more]
<1>1. m \in Open /\ queue' = Append(queue, x) /\ msg' = [msg EXCEPT ![m] = Empty]
  BY DEF MsgSend, CanCall
<1>2. x \in Part /\ x.data = msg[m].data
  <2>1. x \in Message /\ x.state = msg[m].state /\ x.data = msg[m].data
    BY <1>t, MessageWith
  <2>2. msg[m].state = "open"
    BY <1>1 DEF Open
  <2> HIDE DEF x
  <2>3. QED
    BY <2>1, <2>2 DEF Part
<1> HIDE DEF x
<1>3. Sent' = Append(Sent, x.data)
  <2>1. Sent = DataOf(queue) /\ Sent' = DataOf(Append(queue, x))
    BY <1>1 DEF Sent, DataOf
  <2>2. QED
    BY <1>t, <1>2, <2>1, DataAppended
<1>4. Value[m] = x.data /\ Value[m] # NoValue
  BY <1>1, <1>2, OpenHasValue
<1>5. ValueOf(Empty) = <<>>
  BY DEF ValueOf, Empty, Object
<1>6. Value' = [Value EXCEPT ![m] = <<>>]
  BY <1>1, <1>5, OneChanges
<1>7. QED
  BY <1>3, <1>4, <1>6, ValuesSees

LEMMA RecvIsReceive ==
    ASSUME IInv, NEW m \in Msgs, MsgRecv(m)
    PROVE  Abstract!Next
<1>t. msg \in [Msgs -> Message] /\ queue \in Seq(Part)
  BY DEF IInv, Types
<1>1. m \in Open /\ msg' = [msg EXCEPT ![m] = Head(queue)] /\ queue' = Tail(queue)
  BY DEF MsgRecv, CanCall
<1>2. queue # <<>>
  BY DEF MsgRecv, Completed
<1>3. Head(queue) \in Part
  BY <1>t, <1>2, HeadTailProperties
<1>4. Sent # <<>> /\ Head(Sent) = Head(queue).data /\ Sent' = Tail(Sent)
  <2>1. Sent = DataOf(queue) /\ Sent' = DataOf(Tail(queue))
    BY <1>1 DEF Sent, DataOf
  <2>2. QED
    BY <1>t, <1>2, <2>1, DataTaken
<1>5. ValueOf(Head(queue)) = Head(Sent)
  BY <1>3, <1>4 DEF ValueOf, Part
<1>6. Value' = [Value EXCEPT ![m] = Head(Sent)] /\ Value[m] # NoValue
  BY <1>1, <1>5, OneChanges, OpenHasValue
<1>7. QED
  BY <1>4, <1>6, ValuesSees

(* Nobody else holds the buffer: only the message is written.              *)
LEMMA WritesOne ==
    ASSUME IInv, NEW m \in Open, NEW d, ~IsShared(m), WriteInPlace(m, d)
    PROVE  Value' = [Value EXCEPT ![m] = d] /\ Sent' = Sent
<1>t. msg \in [Msgs -> Message] /\ queue \in Seq(Part) /\ m \in Msgs
  BY DEF IInv, Types, Open
<1> DEFINE x == [msg[m] EXCEPT !.data = d]
<1>1. x.state = "open" /\ x.data = d
  <2>1. msg[m].state = "open"
    BY DEF Open
  <2>2. msg[m] \in [state : {"open", "closed"}, data : Data,
                    buf : Buffers \cup {NoBuffer}, more : BOOLEAN]
    BY <1>t DEF Message
  <2>3. QED
    BY <2>1, <2>2
<1>2. queue' = queue /\ msg' = [msg EXCEPT ![m] = x]
  <2>1. CASE msg[m].buf = NoBuffer
    <3>1. msg' = [msg EXCEPT ![m].data = d] /\ queue' = queue
      BY <2>1 DEF WriteInPlace
    <3>2. QED
      BY <3>1
  <2>2. CASE msg[m].buf # NoBuffer
    <3>1. \A n \in Open : n # m => msg[n].buf # msg[m].buf
      BY <2>2 DEF IsShared
    <3>2. \A i \in DOMAIN queue : queue[i].buf # msg[m].buf
      BY <2>2 DEF IsShared
    <3>3. /\ msg' = [n \in Msgs |->
                        IF n \in Open /\ msg[n].buf = msg[m].buf
                        THEN [msg[n] EXCEPT !.data = d] ELSE msg[n]]
          /\ queue' = [i \in DOMAIN queue |->
                        IF queue[i].buf = msg[m].buf
                        THEN [queue[i] EXCEPT !.data = d] ELSE queue[i]]
      BY <2>2 DEF WriteInPlace
    <3>4. queue' = [i \in DOMAIN queue |-> queue[i]]
      BY <3>2, <3>3
    <3>5. queue' = queue
      <4>1. DOMAIN queue = 1 .. Len(queue) /\ Len(queue) \in Nat
        BY <1>t, LenProperties
      <4>2. queue = [i \in DOMAIN queue |-> queue[i]]
        BY <1>t, <4>1
      <4>3. QED
        BY <3>4, <4>2
    <3>6. msg' = [n \in Msgs |-> IF n = m THEN x ELSE msg[n]]
      BY <1>t, <3>1, <3>3
    <3>7. QED
      BY <1>t, <3>5, <3>6
  <2>3. QED
    BY <2>1, <2>2
<1> HIDE DEF x
<1>3. ValueOf(x) = d
  BY <1>1 DEF ValueOf
<1>4. QED
  BY <1>t, <1>2, <1>3, OneChanges, SameSent

LEMMA SetDataIsWrite ==
    ASSUME IInv, "shared" \notin Uses, NEW m \in Msgs, NEW s \in Strings,
           NEW pos \in Positions \cup {0}, MsgSetData(m, pos, s)
    PROVE  [Abstract!Next]_(Abstract!vars)
<1>t. msg \in [Msgs -> Message] /\ m \in Open
  BY DEF IInv, Types, MsgSetData, CanCall
<1> DEFINE at == pos - 1
           old == msg[m].data
           size == IF at + Len(s) > Len(old) THEN at + Len(s) ELSE Len(old)
<1>s. s \in Seq(Bytes) /\ Len(s) \in Nat
  BY StringFits
<1>o. old \in Seq(Bytes) /\ Len(old) \in Nat
  BY <1>t, MessageFields
<1>v. Value[m] = old /\ Value[m] # NoValue
  BY <1>t, OpenHasValue
<1>1. CASE Leaves(at, Len(s), size) \/ Leaves(0, Len(old), size)
  <2>1. msg' = msg /\ queue' = queue
    BY <1>1 DEF MsgSetData
  <2>2. QED
    BY <2>1, NothingChanges
<1>2. CASE ~(Leaves(at, Len(s), size) \/ Leaves(0, Len(old), size))
  <2>1. pos \in Nat \ {0} /\ pos \in Positions
    BY <1>2, SizesAssumption DEF Leaves, Positions
  <2>2. CASE size > Len(old)
    <3>1. /\ msg' = [msg EXCEPT ![m] =
                        Filled(Copied(Copied(Junk(size), 0, old), at, s))]
          /\ queue' = queue
      BY <1>2, <2>2 DEF MsgSetData
    <3>2. size = (pos - 1) + Len(s) /\ size \in Nat
      BY <1>s, <1>o, <2>1, <2>2
    <3> HIDE DEF old, size
    <3>3. Copied(Copied(Junk(size), 0, old), at, s) = Abstract!Overwrite(old, pos, s)
      BY <1>s, <1>o, <2>1, <2>2, <3>2, GrownData
    <3> DEFINE x == Filled(Copied(Copied(Junk(size), 0, old), at, s))
    <3>4. ValueOf(x) = Abstract!Overwrite(old, pos, s)
      BY <3>3 DEF ValueOf, Filled, Object
    <3>5. msg' = [msg EXCEPT ![m] = x]
      BY <3>1
    <3> HIDE DEF x
    <3>6. Value' = [Value EXCEPT ![m] = Abstract!Overwrite(old, pos, s)] /\ Sent' = Sent
      BY <3>1, <3>4, <3>5, OneChanges, SameSent
    <3>7. QED
      BY <1>v, <2>1, <3>6, ValuesSees
  <2>3. CASE ~(size > Len(old))
    <3>1. ~IsShared(m) /\ WriteInPlace(m, Copied(old, at, s))
      BY <1>2, <2>3 DEF MsgSetData
    <3>2. (pos - 1) + Len(s) <= Len(old)
      BY <1>s, <1>o, <2>1, <2>3
    <3> HIDE DEF old, size
    <3>3. Copied(old, at, s) = Abstract!Overwrite(old, pos, s)
      BY <1>s, <1>o, <2>1, <3>2, WrittenData
    <3>4. Value' = [Value EXCEPT ![m] = Abstract!Overwrite(old, pos, s)] /\ Sent' = Sent
      BY <1>t, <3>1, <3>3, WritesOne
    <3>5. QED
      BY <1>v, <2>1, <3>4, ValuesSees
  <2>4. QED
    BY <2>2, <2>3
<1>3. QED
  BY <1>1, <1>2

LEMMA SetSizeIsSetSize ==
    ASSUME IInv, NEW m \in Msgs, NEW n \in Sizes, MsgSetSize(m, n)
    PROVE  [Abstract!Next]_(Abstract!vars)
<1>t. msg \in [Msgs -> Message] /\ m \in Open
  BY DEF IInv, Types, MsgSetSize, CanCall
<1> DEFINE old == msg[m].data
           kept == IF n > Len(old) THEN Len(old) ELSE n
<1>o. old \in Seq(Bytes) /\ Len(old) \in Nat
  BY <1>t, MessageFields
<1>v. Value[m] = old /\ Value[m] # NoValue
  BY <1>t, OpenHasValue
<1>1. CASE Leaves(0, kept, n) \/ Leaves(0, kept, Len(old))
  <2>1. msg' = msg /\ queue' = queue
    BY <1>1 DEF MsgSetSize
  <2>2. QED
    BY <2>1, NothingChanges
<1>2. CASE ~(Leaves(0, kept, n) \/ Leaves(0, kept, Len(old)))
  <2> DEFINE x == Filled(Copied(Junk(n), 0, SubSeq(old, 1, kept)))
  <2>1. msg' = [msg EXCEPT ![m] = x] /\ queue' = queue
    BY <1>2 DEF MsgSetSize
  <2>2. n \in Nat /\ kept \in Nat
    BY <1>o, SizesAssumption DEF Sizes
  <2> HIDE DEF old
  <2>3. Copied(Junk(n), 0, SubSeq(old, 1, kept)) = Abstract!Resize(old, n)
    BY <1>o, <2>2, ResizedData
  <2> HIDE DEF kept
  <2>4. ValueOf(x) = Abstract!Resize(old, n)
    BY <2>3 DEF ValueOf, Filled, Object
  <2> HIDE DEF x
  <2>5. Value' = [Value EXCEPT ![m] = Abstract!Resize(old, n)] /\ Sent' = Sent
    BY <2>1, <2>4, OneChanges, SameSent
  <2>6. QED
    BY <1>v, <2>5, ValuesSees
<1>3. QED
  BY <1>1, <1>2

LEMMA StepIsValues ==
    ASSUME IInv, "shared" \notin Uses, [Next]_vars
    PROVE  [Abstract!Next]_(Abstract!vars)
<1>1. ASSUME NEW m \in Msgs,
             \/ MsgInit(m)
             \/ \E n \in Sizes : MsgInitSize(m, n)
             \/ \E s \in Strings : MsgInitData(m, s)
             \/ \E s, t \in Strings : MsgInitDataMulti(m, s, t)
             \/ \E s, t \in Strings, numbers \in SUBSET {1, 2} :
                   MsgInitDataArray(m, s, t, numbers)
      PROVE  [Abstract!Next]_(Abstract!vars)
  BY <1>1, ConstructorsAreNew
<1>2. ASSUME NEW m \in Msgs,
             \/ MsgClose(m)
             \/ \E n \in Msgs : MsgMove(m, n) \/ MsgCopy(m, n)
             \/ \E more \in BOOLEAN : MsgSendFails(m, more)
      PROVE  [Abstract!Next]_(Abstract!vars)
  BY <1>2, ExchangesAreValues
<1>3. ASSUME NEW m \in Msgs, NEW s \in Strings,
             NEW pos \in Positions \cup {0}, MsgSetData(m, pos, s)
      PROVE  [Abstract!Next]_(Abstract!vars)
  BY <1>3, SetDataIsWrite
<1>4. ASSUME NEW m \in Msgs, NEW n \in Sizes, MsgSetSize(m, n)
      PROVE  [Abstract!Next]_(Abstract!vars)
  BY <1>4, SetSizeIsSetSize
<1>5. ASSUME NEW m \in Msgs, NEW more \in BOOLEAN, MsgSend(m, more)
      PROVE  [Abstract!Next]_(Abstract!vars)
  BY <1>5, SendIsSend
<1>6. ASSUME NEW m \in Msgs, MsgRecv(m)
      PROVE  [Abstract!Next]_(Abstract!vars)
  BY <1>6, RecvIsReceive
<1>7. ASSUME NEW m \in Msgs, MsgSendMore(m)
      PROVE  [Abstract!Next]_(Abstract!vars)
  BY <1>2, <1>5, <1>7 DEF MsgSendMore
<1>8. CASE UNCHANGED vars
  BY <1>8, NothingChanges DEF vars
<1>9. QED
  BY <1>1, <1>2, <1>3, <1>4, <1>5, <1>6, <1>7, <1>8 DEF Next

(* A message object is a string of its own, and what was sent arrives as   *)
(* it was when it was sent, in order: the buffers the library shares, the  *)
(* reallocations and the copies of zmsg.c are not to be seen, as long as   *)
(* the application writes no buffer that something else holds.             *)
THEOREM MessagesImplementValues ==
    ASSUME "shared" \notin Uses
    PROVE  Spec => ImplementsValues
<1>1. Init => Abstract!Init
  <2> SUFFICES ASSUME Init
               PROVE  Abstract!Init
    OBVIOUS
  <2>1. Value = [m \in Msgs |-> NoValue]
    BY ValueIs DEF Init, ValueOf, NoObject
  <2>2. Sent = <<>>
    BY DEF Init, Sent
  <2>3. QED
    BY <2>1, <2>2, ValuesSees
<1>2. IInv /\ [Next]_vars => [Abstract!Next]_(Abstract!vars)
  BY StepIsValues
<1>3. QED
  BY <1>1, <1>2, IInvInit, IInvStep, PTL DEF Spec, ImplementsValues, Abstract!Spec
=============================================================================
