---------------------------- MODULE Worker_proofs ----------------------------
(***************************************************************************)
(* The two halves of a worker that face the outside: its event loop, which *)
(* lends memory to the kernel, and its broadcast, which sends differences  *)
(* to clients it hears nothing from.  Nothing here depends on the size of  *)
(* a queue, of the canvas or of a chunk.                                   *)
(***************************************************************************)
EXTENDS UringWorker, Broadcast, ModArith, SequenceTheorems, FiniteSetTheorems, TLAPS
-----------------------------------------------------------------------------
(* Sorted sets.                                                             *)

(* A finite set has a sorting: the number of elements up to x numbers the   *)
(* elements from one on without a gap.                                      *)
LEMMA SortingExists ==
  ASSUME NEW S \in SUBSET Int, IsFiniteSet(S)
  PROVE  \E s \in [1 .. Cardinality(S) -> S] : \A i, j \in DOMAIN s : i < j => s[i] < s[j]
<1> DEFINE n == Cardinality(S)
           UpTo(x) == {y \in S : y <= x}
           rank == [x \in S |-> Cardinality(UpTo(x))]
<1>1. n \in Nat
  BY FS_CardinalityType
<1>2. ASSUME NEW x \in S
      PROVE  IsFiniteSet(UpTo(x)) /\ Cardinality(UpTo(x)) \in 1 .. n
  <2>1. UpTo(x) \in SUBSET S /\ x \in UpTo(x)
    OBVIOUS
  <2> HIDE DEF UpTo
  <2>2. IsFiniteSet(UpTo(x)) /\ Cardinality(UpTo(x)) <= n
    BY <2>1, FS_Subset
  <2>3. Cardinality(UpTo(x)) \in Nat
    BY <2>2, FS_CardinalityType
  <2>4. Cardinality(UpTo(x)) # 0
    BY <2>1, <2>2, FS_EmptySet
  <2>5. QED
    BY <1>1, <2>2, <2>3, <2>4
<1>3. ASSUME NEW x \in S, NEW y \in S, x < y
      PROVE  rank[x] < rank[y]
  <2>0. x \in Int /\ y \in Int /\ \A z \in S : z \in Int
    OBVIOUS
  <2>1. UpTo(x) \in SUBSET UpTo(y) /\ y \in UpTo(y) /\ y \notin UpTo(x)
    <3>1. ASSUME NEW z \in UpTo(x) PROVE z \in UpTo(y)
      BY <1>3, <2>0
    <3>2. y \in UpTo(y)
      BY <2>0
    <3>3. y \notin UpTo(x)
      BY <1>3, <2>0
    <3>4. QED
      BY <3>1, <3>2, <3>3
  <2> HIDE DEF UpTo
  <2>2. Cardinality(UpTo(x)) <= Cardinality(UpTo(y))
        /\ Cardinality(UpTo(y)) # Cardinality(UpTo(x))
    BY <1>2, <2>1, FS_Subset
  <2>3. Cardinality(UpTo(x)) \in Int /\ Cardinality(UpTo(y)) \in Int
    BY <1>2
  <2>4. QED
    BY <2>2, <2>3
<1>4. rank \in [S -> 1 .. n]
  BY <1>2
<1> HIDE DEF rank, UpTo
<1>5. \A x, y \in S : rank[x] = rank[y] => x = y
  <2>1. \A x, y \in S : x < y \/ y < x \/ x = y
    OBVIOUS
  <2>2. \A x \in S : rank[x] \in Int
    BY <1>1, <1>4
  <2>3. QED
    BY <1>3, <2>1, <2>2
<1>6. rank \in Injection(S, 1 .. n)
  BY <1>4, <1>5 DEF Injection, IsInjective
<1>7. IsFiniteSet(1 .. n) /\ Cardinality(1 .. n) = n
  BY <1>1, FS_Interval
<1>8. rank \in Surjection(S, 1 .. n)
  BY <1>6, <1>7, FS_Injection
<1>9. \A k \in 1 .. n : \E x \in S : rank[x] = k
  BY <1>8 DEF Surjection
<1> DEFINE s == [k \in 1 .. n |-> CHOOSE x \in S : rank[x] = k]
<1>10. s \in [1 .. n -> S] /\ \A k \in 1 .. n : rank[s[k]] = k
  BY <1>9
<1> HIDE DEF s
<1>11. ASSUME NEW i \in 1 .. n, NEW j \in 1 .. n, i < j
       PROVE  s[i] < s[j]
  <2>1. s[i] \in S /\ s[j] \in S /\ rank[s[i]] = i /\ rank[s[j]] = j
    BY <1>10
  <2>2. s[i] < s[j] \/ s[j] < s[i] \/ s[i] = s[j]
    <3>1. s[i] \in Int /\ s[j] \in Int
      BY <2>1
    <3>2. QED
      BY <3>1
  <2>3. ~ (s[j] < s[i])
    <3>1. s[j] < s[i] => j < i
      BY <1>3, <2>1
    <3>2. QED
      BY <1>1, <1>11, <3>1
  <2>4. s[i] # s[j]
    BY <1>1, <1>11, <2>1
  <2>5. QED
    BY <2>2, <2>3, <2>4
<1>12. DOMAIN s = 1 .. n
  BY <1>10
<1>13. QED
  BY <1>10, <1>11, <1>12 DEF n

(* Sorted(S) holds every element of S, in ascending order, once. *)
LEMMA SortedProperties ==
  ASSUME NEW S \in SUBSET Int, IsFiniteSet(S)
  PROVE  /\ Cardinality(S) \in Nat
         /\ Sorted(S) \in [1 .. Cardinality(S) -> S]
         /\ \A i, j \in 1 .. Cardinality(S) : i < j => Sorted(S)[i] < Sorted(S)[j]
         /\ \A i, j \in 1 .. Cardinality(S) : Sorted(S)[i] = Sorted(S)[j] => i = j
         /\ \A x \in S : \E k \in 1 .. Cardinality(S) : Sorted(S)[k] = x
<1> DEFINE n == Cardinality(S)
           s == Sorted(S)
<1>1. n \in Nat
  BY FS_CardinalityType
<1>2. s \in [1 .. n -> S] /\ \A i, j \in DOMAIN s : i < j => s[i] < s[j]
  BY SortingExists DEF Sorted
<1> HIDE DEF n, s
<1>3. \A i, j \in 1 .. n : i < j => s[i] < s[j]
  BY <1>2
<1>4. \A i, j \in 1 .. n : s[i] = s[j] => i = j
  <2>1. \A i, j \in 1 .. n : i < j \/ j < i \/ i = j
    BY <1>1
  <2>2. \A i \in 1 .. n : s[i] \in Int
    BY <1>2
  <2>3. QED
    BY <1>3, <2>1, <2>2
<1>5. s \in Injection(1 .. n, S)
  BY <1>2, <1>4 DEF Injection, IsInjective
<1>6. Cardinality(1 .. n) = n
  BY <1>1, FS_Interval
<1>7. s \in Surjection(1 .. n, S)
  BY <1>5, <1>6, FS_Injection DEF n
<1>8. \A x \in S : \E k \in 1 .. n : s[k] = x
  BY <1>7 DEF Surjection
<1>9. QED
  BY <1>1, <1>2, <1>3, <1>4, <1>8 DEF n, s

-----------------------------------------------------------------------------
(* Counting in sequences.                                                   *)

(* A count is a number. *)
LEMMA CountType ==
  ASSUME NEW E, NEW q \in Seq(E), NEW T
  PROVE  /\ IsFiniteSet(IndicesOf(q, T)) /\ Count(q, T) \in Nat
         /\ IndicesOf(q, T) \in SUBSET (1 .. Len(q))
<1>1. Len(q) \in Nat /\ DOMAIN q = 1 .. Len(q)
  BY LenProperties
<1>2. IndicesOf(q, T) \in SUBSET (1 .. Len(q))
  BY <1>1 DEF IndicesOf
<1>3. IsFiniteSet(1 .. Len(q))
  BY <1>1, FS_Interval
<1>4. IsFiniteSet(IndicesOf(q, T))
  BY <1>2, <1>3, FS_Subset
<1>5. QED
  BY <1>2, <1>4, FS_CardinalityType DEF Count

(* Counts are the same when the indices can be paired. *)
LEMMA CountPaired ==
  ASSUME NEW A, NEW B, IsFiniteSet(A), NEW f \in [A -> B],
         \A x, y \in A : f[x] = f[y] => x = y,
         \A z \in B : \E x \in A : f[x] = z
  PROVE  IsFiniteSet(B) /\ Cardinality(B) = Cardinality(A)
<1>1. f \in Bijection(A, B)
  BY DEF Bijection, Injection, Surjection, IsInjective
<1>2. ExistsBijection(A, B)
  BY <1>1 DEF ExistsBijection
<1>3. QED
  BY <1>2, FS_Bijection

(* Two sequences one after the other. *)
LEMMA CountConcat ==
  ASSUME NEW E, NEW p \in Seq(E), NEW q \in Seq(E), NEW T
  PROVE  Count(p \o q, T) = Count(p, T) + Count(q, T)
<1> DEFINE m == Len(p)
           n == Len(q)
           A == IndicesOf(p, T)
           B == IndicesOf(q, T)
           C == IndicesOf(p \o q, T)
           D == {i \in C : i > m}
           f == [i \in B |-> i + m]
<1>1. m \in Nat /\ n \in Nat /\ DOMAIN p = 1 .. m /\ DOMAIN q = 1 .. n
  BY LenProperties
<1>2. /\ p \o q \in Seq(E) /\ DOMAIN (p \o q) = 1 .. m + n
      /\ \A i \in 1 .. m + n : (p \o q)[i] = IF i <= m THEN p[i] ELSE q[i - m]
  <2>1. /\ p \o q \in Seq(E) /\ Len(p \o q) = m + n
        /\ \A i \in 1 .. m + n : (p \o q)[i] = IF i <= m THEN p[i] ELSE q[i - m]
    BY ConcatProperties
  <2>2. QED
    BY <2>1, LenProperties
<1> DEFINE r == p \o q
<1> HIDE DEF m, n, r
<1>3. A = {i \in 1 .. m : p[i] \in T} /\ B = {i \in 1 .. n : q[i] \in T}
      /\ C = {i \in 1 .. m + n : r[i] \in T}
  BY <1>1, <1>2 DEF IndicesOf, r
<1>4. \A i \in 1 .. m + n : r[i] = IF i <= m THEN p[i] ELSE q[i - m]
  BY <1>2 DEF r
<1>5. IsFiniteSet(A) /\ IsFiniteSet(B) /\ IsFiniteSet(C)
  BY <1>2, CountType
<1> HIDE DEF A, B, C
<1>6. C = A \cup D /\ A \cap D = {}
  BY <1>1, <1>3, <1>4
<1>7. f \in [B -> D]
  BY <1>1, <1>3, <1>4
<1>8. \A x, y \in B : f[x] = f[y] => x = y
  BY <1>1, <1>3
<1>9. \A z \in D : \E x \in B : f[x] = z
  <2> TAKE z \in D
  <2>1. z - m \in B /\ (z - m) + m = z
    BY <1>1, <1>3, <1>4
  <2>2. f[z - m] = z
    BY <2>1
  <2>3. QED
    BY <2>1, <2>2
<1> HIDE DEF D, f
<1>10. IsFiniteSet(D) /\ Cardinality(D) = Cardinality(B)
  BY <1>5, <1>7, <1>8, <1>9, CountPaired
<1>11. Cardinality(C) = Cardinality(A) + Cardinality(D) - Cardinality(A \cap D)
  BY <1>5, <1>6, <1>10, FS_Union
<1>12. Cardinality(A \cap D) = 0 /\ Cardinality(A) \in Nat /\ Cardinality(D) \in Nat
  BY <1>5, <1>6, <1>10, FS_EmptySet, FS_CardinalityType
<1>13. QED
  BY <1>10, <1>11, <1>12 DEF Count, A, B, C, r

(* No entry, and one. *)
LEMMA CountEmpty ==
  ASSUME NEW T
  PROVE  Count(<< >>, T) = 0
<1>1. IndicesOf(<< >>, T) = {}
  BY DEF IndicesOf
<1>2. QED
  BY <1>1, FS_EmptySet DEF Count

LEMMA CountOne ==
  ASSUME NEW e, NEW T
  PROVE  Count(<<e>>, T) = IF e \in T THEN 1 ELSE 0
<1>1. IndicesOf(<<e>>, T) = IF e \in T THEN {1} ELSE {}
  BY DEF IndicesOf
<1>2. QED
  BY <1>1, FS_EmptySet, FS_Singleton DEF Count

(* Nothing of a set that the entries are not in. *)
LEMMA CountNone ==
  ASSUME NEW E, NEW q \in Seq(E), NEW T, E \cap T = {}
  PROVE  Count(q, T) = 0
<1>1. IndicesOf(q, T) = {}
  BY ElementOfSeq, LenProperties DEF IndicesOf
<1>2. QED
  BY <1>1, FS_EmptySet DEF Count

(* A sequence cut in two. *)
LEMMA CountSplit ==
  ASSUME NEW E, NEW q \in Seq(E), NEW n \in 0 .. Len(q), NEW T
  PROVE  /\ SubSeq(q, 1, n) \in Seq(E) /\ Len(SubSeq(q, 1, n)) = n
         /\ SubSeq(q, n + 1, Len(q)) \in Seq(E) /\ Len(SubSeq(q, n + 1, Len(q))) = Len(q) - n
         /\ Count(SubSeq(q, 1, n), T) + Count(SubSeq(q, n + 1, Len(q)), T) = Count(q, T)
<1>1. Len(q) \in Nat /\ \A i \in 1 .. Len(q) : q[i] \in E
  BY LenProperties, ElementOfSeq
<1> DEFINE a == SubSeq(q, 1, n)
           b == SubSeq(q, n + 1, Len(q))
<1>2. a \in Seq(E) /\ Len(a) = n
  <2>1. \A i \in 1 .. n : q[i] \in E
    BY <1>1
  <2>2. a \in Seq(E) /\ Len(a) = IF 1 <= n THEN n - 1 + 1 ELSE 0
    BY <2>1, SubSeqProperties
  <2>3. QED
    BY <1>1, <2>2
<1>3. b \in Seq(E) /\ Len(b) = Len(q) - n
  <2>1. \A i \in n + 1 .. Len(q) : q[i] \in E
    BY <1>1
  <2>2. b \in Seq(E) /\ Len(b) = IF n + 1 <= Len(q) THEN Len(q) - (n + 1) + 1 ELSE 0
    BY <1>1, <2>1, SubSeqProperties
  <2>3. QED
    BY <1>1, <2>2
<1>4. a \o b = q
  <2>1. 1 \in 1 .. Len(q) + 1 /\ n \in 1 - 1 .. Len(q) /\ Len(q) \in n .. Len(q)
    BY <1>1
  <2>2. SubSeq(q, 1, n) \o SubSeq(q, n + 1, Len(q)) = SubSeq(q, 1, Len(q))
    BY <2>1, ConcatAdjacentSubSeq
  <2>3. SubSeq(q, 1, Len(q)) = q
    BY SubSeqFull
  <2>4. QED
    BY <2>2, <2>3
<1> HIDE DEF a, b
<1>5. Count(a \o b, T) = Count(a, T) + Count(b, T)
  BY <1>2, <1>3, CountConcat
<1>6. QED
  BY <1>2, <1>3, <1>4, <1>5 DEF a, b

(* One entry more at the end, and the first one taken. *)
LEMMA CountAppend ==
  ASSUME NEW E, NEW q \in Seq(E), NEW e \in E, NEW T
  PROVE  Append(q, e) \in Seq(E) /\ Count(Append(q, e), T) = Count(q, T) + Count(<<e>>, T)
<1>1. <<e>> \in Seq(E) /\ Append(q, e) = q \o <<e>> /\ Append(q, e) \in Seq(E)
  BY AppendIsConcat, AppendProperties
<1>2. Count(q \o <<e>>, T) = Count(q, T) + Count(<<e>>, T)
  BY <1>1, CountConcat
<1>3. QED
  BY <1>1, <1>2

LEMMA CountTail ==
  ASSUME NEW E, NEW q \in Seq(E), q # << >>, NEW T
  PROVE  /\ Head(q) \in E /\ Tail(q) \in Seq(E) /\ Len(Tail(q)) = Len(q) - 1
         /\ Count(q, T) = Count(<<Head(q)>>, T) + Count(Tail(q), T)
<1>1. Head(q) \in E /\ Tail(q) \in Seq(E) /\ Len(Tail(q)) = Len(q) - 1
  BY HeadTailProperties
<1>2. <<Head(q)>> \in Seq(E) /\ q = <<Head(q)>> \o Tail(q)
  BY <1>1, SMT
<1> DEFINE h == <<Head(q)>>
           t == Tail(q)
<1> HIDE DEF h, t
<1>3. h \in Seq(E) /\ t \in Seq(E) /\ q = h \o t
  BY <1>1, <1>2 DEF h, t
<1>4. Count(h \o t, T) = Count(h, T) + Count(t, T)
  BY <1>3, CountConcat
<1>5. QED
  BY <1>1, <1>3, <1>4 DEF h, t

(* The entries of a set, taken out of a sequence. *)
LEMMA FilteredProperties ==
  ASSUME NEW E, NEW q \in Seq(E), NEW S
  PROVE  /\ Filtered(q, S) \in Seq(E \cap S)
         /\ \A T : Count(Filtered(q, S), T) = Count(q, S \cap T)
<1> DEFINE I == IndicesOf(q, S)
           n == Cardinality(I)
           at == Sorted(I)
           f == Filtered(q, S)
<1>1. IsFiniteSet(I) /\ I \in SUBSET (1 .. Len(q)) /\ Len(q) \in Nat
  BY CountType, LenProperties
<1>2. /\ n \in Nat
      /\ at \in [1 .. n -> I]
      /\ \A i, j \in 1 .. n : at[i] = at[j] => i = j
      /\ \A x \in I : \E k \in 1 .. n : at[k] = x
  <2>1. I \in SUBSET Int
    BY <1>1
  <2> HIDE DEF I
  <2>2. QED
    BY <1>1, <2>1, SortedProperties
<1>3. \A i \in I : q[i] \in E \cap S
  BY <1>1, ElementOfSeq DEF IndicesOf
<1>4. f = [k \in 1 .. n |-> q[at[k]]]
  <2>1. DOMAIN at = 1 .. n
    BY <1>2
  <2>2. QED
    BY <2>1 DEF Filtered
<1>5. \A i : i \in I <=> i \in DOMAIN q /\ q[i] \in S
  BY DEF IndicesOf
<1> HIDE DEF I, n, at, f
<1>6. f \in [1 .. n -> E \cap S]
  BY <1>2, <1>3, <1>4
<1>7. f \in Seq(E \cap S) /\ DOMAIN f = 1 .. n
  BY <1>2, <1>6
<1>8. ASSUME NEW T
      PROVE  Count(f, T) = Count(q, S \cap T)
  <2> DEFINE A == IndicesOf(f, T)
             B == IndicesOf(q, S \cap T)
             g == [k \in A |-> at[k]]
  <2>1. A = {k \in 1 .. n : q[at[k]] \in T}
    BY <1>4, <1>7 DEF IndicesOf
  <2>2. \A i : i \in B <=> i \in I /\ q[i] \in T
    BY <1>5 DEF IndicesOf
  <2>3. IsFiniteSet(A)
    BY <1>7, CountType
  <2> HIDE DEF A, B
  <2>4. g \in [A -> B]
    BY <1>2, <2>1, <2>2
  <2>5. \A x, y \in A : g[x] = g[y] => x = y
    BY <1>2, <2>1
  <2>6. \A z \in B : \E x \in A : g[x] = z
    BY <1>2, <2>1, <2>2
  <2> HIDE DEF g
  <2>7. Cardinality(B) = Cardinality(A)
    BY <2>3, <2>4, <2>5, <2>6, CountPaired
  <2>8. QED
    BY <2>7 DEF Count, A, B
<1>9. QED
  BY <1>7, <1>8 DEF f

-----------------------------------------------------------------------------
(* The io_uring event loop.                                                 *)

(* Completions that stand for a TX item, a buffer or the receive.           *)
Held == Completion \ Provide

(* Which of them stands for which.  (The others stand for nothing else.)    *)
SendOf(t) == {<<"send", t>>}
LEMMA HeldSets ==
  /\ \A t \in Tx : SendOf(t) \in SUBSET Held
  /\ \A b \in Buf : HoldsBuf(b) \in SUBSET Held
  /\ EndsRecv \in SUBSET Held
<1>1. \A t \in Tx : <<"send", t>> \in Completion /\ <<"send", t>> \notin Provide
  BY DEF Completion, Provide
<1>2. \A b \in Buf, more \in BOOLEAN :
        <<"packet", b, more>> \in Completion /\ <<"packet", b, more>> \notin Provide
  BY DEF Completion, Provide
<1>3. <<"error">> \in Completion /\ <<"error">> \notin Provide
  BY DEF Completion, Provide
<1>4. \A b \in Buf : \A c \in HoldsBuf(b) : \E more \in BOOLEAN : c = <<"packet", b, more>>
  BY DEF HoldsBuf
<1>5. \A t \in Tx : SendOf(t) \in SUBSET Held
  BY <1>1 DEF Held, SendOf
<1>6. ASSUME NEW b \in Buf PROVE HoldsBuf(b) \in SUBSET Held
  BY <1>2, <1>4 DEF Held
<1>7. EndsRecv \in SUBSET Held
  <2> SUFFICES ASSUME NEW c \in EndsRecv PROVE c \in Held
    OBVIOUS
  <2>1. CASE c = <<"error">>
    BY <1>3, <2>1 DEF Held
  <2>2. CASE c \in {"packet"} \X Buf \X {FALSE}
    <3> DEFINE Ended == {FALSE}
    <3>1. Ended \in SUBSET BOOLEAN /\ c \in {"packet"} \X Buf \X Ended
      BY <2>2, Zenon
    <3> HIDE DEF Ended
    <3>2. c = <<"packet", c[2], c[3]>> /\ c[2] \in Buf /\ c[3] \in Ended
      BY <3>1
    <3>3. c[3] \in BOOLEAN
      BY <3>1, <3>2, Zenon
    <3>4. QED
      BY <1>2, <3>2, <3>3 DEF Held
  <2>3. QED
    BY <2>1, <2>2 DEF EndsRecv
<1>8. QED
  BY <1>5, <1>6, <1>7

LEMMA WhichSend ==
  ASSUME NEW t \in Tx
  PROVE  /\ <<"send", t>> \in Completion
         /\ \A u \in Tx : <<"send", t>> \in SendOf(u) <=> t = u
         /\ \A b \in Buf : <<"send", t>> \notin HoldsBuf(b)
         /\ <<"send", t>> \notin EndsRecv
<1>1. \A b \in Buf : \A c \in HoldsBuf(b) : c[1] = "packet"
  BY DEF HoldsBuf
<1>2. ASSUME NEW c \in EndsRecv PROVE c[1] = "packet" \/ c[1] = "error"
  <2>1. CASE c = <<"error">>
    BY <2>1
  <2>2. CASE c \in {"packet"} \X Buf \X {FALSE}
    BY <2>2
  <2>3. QED
    BY <2>1, <2>2 DEF EndsRecv
<1>3. <<"send", t>>[1] = "send"
  OBVIOUS
<1>4. QED
  BY <1>1, <1>2, <1>3 DEF SendOf, Completion

LEMMA WhichPacket ==
  ASSUME NEW b \in Buf, NEW more \in BOOLEAN
  PROVE  /\ <<"packet", b, more>> \in Completion
         /\ \A t \in Tx : <<"packet", b, more>> \notin SendOf(t)
         /\ \A d \in Buf : <<"packet", b, more>> \in HoldsBuf(d) <=> b = d
         /\ <<"packet", b, more>> \in EndsRecv <=> ~ more
<1>1. \A t \in Tx : \A c \in SendOf(t) : c[1] = "send"
  BY DEF SendOf
<1>2. <<"packet", b, more>>[1] = "packet" /\ <<"error">>[1] = "error"
  OBVIOUS
<1>3. <<"packet", b, more>> \in EndsRecv <=> ~ more
  <2>1. <<"packet", b, more>> # <<"error">>
    BY <1>2
  <2>2. QED
    BY <2>1 DEF EndsRecv
<1>4. \A d \in Buf : <<"packet", b, more>> \in HoldsBuf(d) <=> b = d
  BY DEF HoldsBuf
<1>5. QED
  BY <1>1, <1>2, <1>3, <1>4 DEF Completion

LEMMA WhichError ==
  /\ <<"error">> \in Completion
  /\ \A t \in Tx : <<"error">> \notin SendOf(t)
  /\ \A b \in Buf : <<"error">> \notin HoldsBuf(b)
  /\ <<"error">> \in EndsRecv
<1>1. \A t \in Tx : \A c \in SendOf(t) : c[1] = "send"
  BY DEF SendOf
<1>2. \A b \in Buf : \A c \in HoldsBuf(b) : c[1] = "packet"
  BY DEF HoldsBuf
<1>3. <<"error">>[1] = "error"
  OBVIOUS
<1>4. QED
  BY <1>1, <1>2, <1>3 DEF EndsRecv, Completion

LEMMA WhichProvide ==
  ASSUME NEW b \in Buf
  PROVE  /\ <<"provide", b>> \in Completion
         /\ \A T \in SUBSET Held : <<"provide", b>> \notin T
<1>1. <<"provide", b>> \in Provide
  BY DEF Provide
<1>2. QED
  BY <1>1 DEF Held, Completion

(* Submissions of one kind are none of another. *)
LEMMA WhichSubmission ==
  /\ \A t \in Tx : <<"send", t>> \in Submission
  /\ \A b \in Buf : <<"provide", b>> \in Submission
  /\ <<"recv">> \in Submission
  /\ \A t, u \in Tx : <<"send", t>> \in {<<"send", u>>} <=> t = u
  /\ \A t \in Tx, b \in Buf : <<"send", t>> # <<"provide", b>>
  /\ \A t \in Tx : <<"send", t>> # <<"recv">>
  /\ \A b, d \in Buf : <<"provide", b>> \in {<<"provide", d>>} <=> b = d
  /\ \A b \in Buf : <<"provide", b>> # <<"recv">>
<1>1. \A t \in Tx : <<"send", t>>[1] = "send"
  OBVIOUS
<1>2. \A b \in Buf : <<"provide", b>>[1] = "provide"
  OBVIOUS
<1>3. <<"recv">>[1] = "recv"
  OBVIOUS
<1>4. QED
  BY <1>1, <1>2, <1>3 DEF Submission, Provide

(* How often the worker has asked the kernel for a thing and has no         *)
(* completion yet, and how many completions are on their way or dropped.    *)
AskedTx(t) == Count(sq, {<<"send", t>>}) + sending[t]
AskedBuf(b) == Count(sq, {<<"provide", b>>}) + provided[b]
AskedRecv == Count(sq, {<<"recv">>}) + armed
Seen(T) == Count(cq, T) + Count(pending_cqes, T) + Count(dropped, T)

(* The inductive invariant: OwnedOnce, summed up by asked and seen, and     *)
(* that pending_cqes is empty unless it is being worked off, so that Drain  *)
(* overwrites nothing.                                                      *)
OwnedInv ==
  /\ \A t \in Tx : Count(tx_free_indices, {t}) + AskedTx(t) + Seen(SendOf(t)) = 1
  /\ \A b \in Buf : AskedBuf(b) + Seen(HoldsBuf(b)) = 1
  /\ AskedRecv + Seen(EndsRecv) = 1
PendingInv == pc # "process" => pending_cqes = << >>
UringIInv == UringTypeOK /\ PendingInv /\ OwnedInv

(* All counts are numbers. *)
LEMMA CountsAreNat ==
  ASSUME UringTypeOK
  PROVE  \A T : /\ Count(tx_free_indices, T) \in Nat /\ Count(sq, T) \in Nat
                /\ Count(cq, T) \in Nat /\ Count(pending_cqes, T) \in Nat
                /\ Count(dropped, T) \in Nat /\ Seen(T) \in Nat
<1> SUFFICES ASSUME NEW T
             PROVE  /\ Count(tx_free_indices, T) \in Nat /\ Count(sq, T) \in Nat
                    /\ Count(cq, T) \in Nat /\ Count(pending_cqes, T) \in Nat
                    /\ Count(dropped, T) \in Nat /\ Seen(T) \in Nat
  OBVIOUS
<1>1. Count(tx_free_indices, T) \in Nat
  BY CountType DEF UringTypeOK
<1>2. Count(sq, T) \in Nat
  BY CountType DEF UringTypeOK
<1>3. Count(cq, T) \in Nat
  BY CountType DEF UringTypeOK
<1>4. Count(pending_cqes, T) \in Nat
  BY CountType DEF UringTypeOK
<1>5. Count(dropped, T) \in Nat
  BY CountType DEF UringTypeOK
<1>6. QED
  BY <1>1, <1>2, <1>3, <1>4, <1>5 DEF Seen

(* The inductive invariant is the one that the run checks, and a little     *)
(* more.                                                                    *)
LEMMA UringInvFollows == UringIInv => UringInv
<1> SUFFICES ASSUME UringIInv PROVE UringInv
  OBVIOUS
<1>1. UringTypeOK /\ OwnedInv
  BY DEF UringIInv
<1>2. \A T : /\ Count(tx_free_indices, T) \in Nat /\ Count(sq, T) \in Nat
             /\ Count(cq, T) \in Nat /\ Count(pending_cqes, T) \in Nat
             /\ Count(dropped, T) \in Nat
  BY <1>1, CountsAreNat
<1>3. ASSUME NEW t \in Tx PROVE TxPlaces(t) + CountOf(dropped, <<"send", t>>) = 1
  <2>1. sending[t] \in Nat
    BY <1>1 DEF UringTypeOK
  <2>2. Count(tx_free_indices, {t}) + AskedTx(t) + Seen(SendOf(t)) = 1
    BY <1>1 DEF OwnedInv
  <2>3. QED
    BY <1>2, <2>1, <2>2 DEF AskedTx, Seen, SendOf, TxPlaces, CountOf
<1>4. ASSUME NEW b \in Buf PROVE BufPlaces(b) + Count(dropped, HoldsBuf(b)) = 1
  <2>1. provided[b] \in Nat
    BY <1>1 DEF UringTypeOK
  <2>2. AskedBuf(b) + Seen(HoldsBuf(b)) = 1
    BY <1>1 DEF OwnedInv
  <2>3. QED
    BY <1>2, <2>1, <2>2 DEF AskedBuf, Seen, BufPlaces, CountOf
<1>5. RecvPlaces + Count(dropped, EndsRecv) = 1
  <2>1. armed \in Nat
    BY <1>1 DEF UringTypeOK
  <2>2. AskedRecv + Seen(EndsRecv) = 1
    BY <1>1 DEF OwnedInv
  <2>3. QED
    BY <1>2, <2>1, <2>2 DEF AskedRecv, Seen, RecvPlaces, CountOf
<1>6. QED
  BY <1>1, <1>3, <1>4, <1>5 DEF UringInv, OwnedOnce

(* Initially each TX item is on the stack once, and each buffer and the     *)
(* receive are with the kernel.                                             *)
LEMMA InitUring == UringInit => UringIInv
<1> SUFFICES ASSUME UringInit PROVE UringIInv
  OBVIOUS
<1>1. TX_CAPACITY \in Nat /\ SQ_DEPTH \in Nat \ {0} /\ PENDING_CAP \in Nat
  BY TxAssumption, QueueAssumption
<1>2. UringTypeOK
  <2>1. tx_free_indices \in Seq(Tx)
    <3>1. tx_free_indices \in [1 .. TX_CAPACITY -> Tx]
      BY <1>1 DEF UringInit, Tx
    <3>2. QED
      BY <1>1, <3>1
  <2>2. QED
    BY <1>1, <2>1 DEF UringInit, UringTypeOK
<1>3. \A T : Count(sq, T) = 0 /\ Seen(T) = 0
  BY CountEmpty DEF UringInit, Seen
<1>4. ASSUME NEW t \in Tx PROVE Count(tx_free_indices, {t}) = 1
  <2>1. t \in 0 .. TX_CAPACITY - 1
    BY DEF Tx
  <2>2. DOMAIN tx_free_indices = 1 .. TX_CAPACITY
        /\ \A i \in 1 .. TX_CAPACITY : tx_free_indices[i] = i - 1
    BY DEF UringInit
  <2>3. IndicesOf(tx_free_indices, {t}) = {t + 1}
    BY <1>1, <2>1, <2>2 DEF IndicesOf
  <2>4. QED
    BY <2>3, FS_Singleton DEF Count
<1>5. OwnedInv
  BY <1>3, <1>4 DEF UringInit, OwnedInv, AskedTx, AskedBuf, AskedRecv
<1>6. QED
  BY <1>2, <1>5 DEF UringInit, UringIInv, PendingInv

(* The remainder of a natural number is not larger than the number. *)
LEMMA ModAtMost ==
  ASSUME NEW n \in Nat \ {0}, NEW a \in Nat
  PROVE  a % n \in 0 .. n - 1 /\ a % n <= a
<1>1. a % n \in 0 .. n - 1
  BY ModRange
<1>2. CASE a < n
  <2>1. a \in 0 .. n - 1
    BY <1>2
  <2>2. QED
    BY <1>1, <2>1, ModSmall
<1>3. CASE a >= n
  BY <1>1, <1>3
<1>4. QED
  BY <1>2, <1>3

(* Adjacent pieces of a sequence. *)
LEMMA CountAdjacent ==
  ASSUME NEW E, NEW q \in Seq(E), NEW k \in 0 .. Len(q), NEW n \in k .. Len(q), NEW T
  PROVE  /\ SubSeq(q, 1, k) \in Seq(E) /\ Len(SubSeq(q, 1, k)) = k
         /\ SubSeq(q, k + 1, n) \in Seq(E)
         /\ SubSeq(q, n + 1, Len(q)) \in Seq(E)
         /\ Count(q, T) = Count(SubSeq(q, 1, k), T) + Count(SubSeq(q, k + 1, n), T)
                            + Count(SubSeq(q, n + 1, Len(q)), T)
<1>1. Len(q) \in Nat /\ \A i \in 1 .. Len(q) : q[i] \in E
  BY LenProperties, ElementOfSeq
<1>2. n \in 0 .. Len(q) /\ k \in Nat
  BY <1>1
<1> DEFINE a == SubSeq(q, 1, k)
           b == SubSeq(q, k + 1, n)
           ab == SubSeq(q, 1, n)
           c == SubSeq(q, n + 1, Len(q))
<1>3. a \in Seq(E) /\ Len(a) = k
  BY CountSplit
<1>4. ab \in Seq(E) /\ c \in Seq(E) /\ Count(ab, T) + Count(c, T) = Count(q, T)
  BY <1>2, CountSplit
<1>5. b \in Seq(E)
  <2>1. \A i \in k + 1 .. n : q[i] \in E
    BY <1>1, <1>2
  <2>2. QED
    BY <1>2, <2>1, SubSeqProperties
<1>6. a \o b = ab
  <2>1. 1 \in 1 .. Len(q) + 1 /\ k \in 1 - 1 .. Len(q)
    BY <1>1
  <2>2. QED
    BY <2>1, ConcatAdjacentSubSeq
<1> HIDE DEF a, b, c, ab
<1>7. Count(a \o b, T) = Count(a, T) + Count(b, T)
  BY <1>3, <1>5, CountConcat
<1>8. QED
  BY <1>3, <1>4, <1>5, <1>6, <1>7 DEF a, b, c, ab

(* What the kernel does with submissions. *)
LEMMA SubmitEffect ==
  ASSUME UringTypeOK, NEW q \in Seq(Submission), Submit(q)
  PROVE  /\ sending' \in [Tx -> Nat] /\ provided' \in [Buf -> Nat] /\ armed' \in Nat
         /\ cq' \in Seq(Completion)
         /\ \A t \in Tx : sending'[t] = sending[t] + Count(q, {<<"send", t>>})
         /\ \A b \in Buf : provided'[b] = provided[b] + Count(q, {<<"provide", b>>})
         /\ armed' = armed + Count(q, {<<"recv">>})
         /\ \A T \in SUBSET Held : Count(cq', T) = Count(cq, T)
<1>1. \A T : Count(q, T) \in Nat
  BY CountType
<1>2. sending \in [Tx -> Nat] /\ provided \in [Buf -> Nat] /\ armed \in Nat /\ cq \in Seq(Completion)
  BY DEF UringTypeOK
<1>3. /\ sending' = [t \in Tx |-> sending[t] + Count(q, {<<"send", t>>})]
      /\ provided' = [b \in Buf |-> provided[b] + Count(q, {<<"provide", b>>})]
      /\ armed' = armed + Count(q, {<<"recv">>})
      /\ cq' = cq \o Filtered(q, Provide)
  BY DEF Submit, CountOf
<1>4. sending' \in [Tx -> Nat] /\ \A t \in Tx : sending'[t] = sending[t] + Count(q, {<<"send", t>>})
  BY <1>1, <1>2, <1>3
<1>5. provided' \in [Buf -> Nat] /\ \A b \in Buf : provided'[b] = provided[b] + Count(q, {<<"provide", b>>})
  BY <1>1, <1>2, <1>3
<1>6. armed' \in Nat
  BY <1>1, <1>2, <1>3
<1> DEFINE f == Filtered(q, Provide)
<1>7. f \in Seq(Completion) /\ \A T \in SUBSET Held : Count(f, T) = 0
  <2>1. f \in Seq(Submission \cap Provide) /\ \A T : Count(f, T) = Count(q, Provide \cap T)
    BY FilteredProperties
  <2>2. Submission \cap Provide \subseteq Completion
    BY DEF Completion
  <2>3. \A T \in SUBSET Held : Provide \cap T = {}
    BY DEF Held
  <2> HIDE DEF f
  <2>4. f \in Seq(Completion)
    BY <2>1, <2>2, SeqMonotonic
  <2>5. Count(q, {}) = 0
    BY CountNone
  <2>6. QED
    BY <2>1, <2>3, <2>4, <2>5
<1>8. cq' = cq \o f
  BY <1>3
<1> HIDE DEF f
<1>9. cq \o f \in Seq(Completion)
  BY <1>2, <1>7, ConcatProperties
<1>10. ASSUME NEW T \in SUBSET Held PROVE Count(cq', T) = Count(cq, T)
  <2>1. Count(cq \o f, T) = Count(cq, T) + Count(f, T)
    BY <1>2, <1>7, CountConcat
  <2>2. Count(cq, T) \in Nat
    BY <1>2, CountType
  <2>3. QED
    BY <1>7, <1>8, <2>1, <2>2
<1>11. QED
  BY <1>3, <1>4, <1>5, <1>6, <1>8, <1>9, <1>10

(* What pushing entries does: they are asked for, whether they stay in the  *)
(* queue or make it be submitted, and the queue never holds more than its   *)
(* depth.                                                                   *)
LEMMA PushEffect ==
  ASSUME UringTypeOK, NEW e \in Seq(Submission), e # << >>, PushSqes(e)
  PROVE  /\ sq' \in Seq(Submission) /\ Len(sq') <= SQ_DEPTH
         /\ sending' \in [Tx -> Nat] /\ provided' \in [Buf -> Nat] /\ armed' \in Nat
         /\ cq' \in Seq(Completion)
         /\ \A t \in Tx : AskedTx(t)' = AskedTx(t) + Count(e, {<<"send", t>>})
         /\ \A b \in Buf : AskedBuf(b)' = AskedBuf(b) + Count(e, {<<"provide", b>>})
         /\ AskedRecv' = AskedRecv + Count(e, {<<"recv">>})
         /\ \A T \in SUBSET Held : Count(cq', T) = Count(cq, T)
<1> DEFINE all == sq \o e
           L == Len(all)
           left == ((L - 1) % SQ_DEPTH) + 1
           n == L - left
           gone == SubSeq(all, 1, n)
           kept == SubSeq(all, n + 1, L)
<1>1. sq \in Seq(Submission) /\ SQ_DEPTH \in Nat \ {0}
  BY QueueAssumption DEF UringTypeOK
<1>2. all \in Seq(Submission) /\ L = Len(sq) + Len(e) /\ L \in Nat \ {0}
  <2>1. all \in Seq(Submission) /\ L = Len(sq) + Len(e)
    BY <1>1, ConcatProperties
  <2>2. Len(sq) \in Nat /\ Len(e) \in Nat \ {0}
    BY <1>1, LenProperties, EmptySeq
  <2>3. QED
    BY <2>1, <2>2
<1>3. sq' = kept /\ Submit(gone)
  BY DEF PushSqes
<1> HIDE DEF all, L
<1>4. left \in 1 .. SQ_DEPTH /\ left <= L
  <2> DEFINE a == L - 1
  <2>1. a \in Nat
    BY <1>2
  <2> HIDE DEF a
  <2>2. a % SQ_DEPTH \in 0 .. SQ_DEPTH - 1 /\ a % SQ_DEPTH <= a
    BY <1>1, <2>1, ModAtMost
  <2> DEFINE r == a % SQ_DEPTH
  <2>3. left = r + 1
    BY DEF a
  <2> HIDE DEF r, left
  <2>4. r \in 0 .. SQ_DEPTH - 1 /\ r <= L - 1
    BY <2>2 DEF a, r
  <2>5. QED
    BY <1>1, <1>2, <2>3, <2>4
<1> HIDE DEF left
<1>5. n \in 0 .. L /\ L - n = left
  BY <1>1, <1>2, <1>4
<1> HIDE DEF n
<1>6. /\ gone \in Seq(Submission) /\ kept \in Seq(Submission) /\ Len(kept) = left
      /\ \A T : Count(gone, T) + Count(kept, T) = Count(all, T)
  <2>1. ASSUME NEW T
        PROVE  /\ gone \in Seq(Submission) /\ kept \in Seq(Submission) /\ Len(kept) = L - n
               /\ Count(gone, T) + Count(kept, T) = Count(all, T)
    <3>1. n \in 0 .. Len(all)
      BY <1>5 DEF L
    <3>2. /\ SubSeq(all, 1, n) \in Seq(Submission)
          /\ SubSeq(all, n + 1, Len(all)) \in Seq(Submission)
          /\ Len(SubSeq(all, n + 1, Len(all))) = Len(all) - n
          /\ Count(SubSeq(all, 1, n), T) + Count(SubSeq(all, n + 1, Len(all)), T) = Count(all, T)
      BY <1>2, <3>1, CountSplit
    <3>3. QED
      BY <3>2 DEF L
  <2>2. QED
    BY <1>5, <2>1
<1> HIDE DEF gone, kept
<1>7. \A T : Count(gone, T) + Count(sq', T) = Count(sq, T) + Count(e, T)
  <2>1. \A T : Count(all, T) = Count(sq, T) + Count(e, T)
    BY <1>1, CountConcat DEF all
  <2>2. QED
    BY <1>3, <1>6, <2>1
<1>8. \A T : Count(gone, T) \in Nat /\ Count(sq', T) \in Nat /\ Count(sq, T) \in Nat /\ Count(e, T) \in Nat
  BY <1>1, <1>3, <1>6, CountType
<1>9. /\ sending' \in [Tx -> Nat] /\ provided' \in [Buf -> Nat] /\ armed' \in Nat
      /\ cq' \in Seq(Completion)
      /\ \A t \in Tx : sending'[t] = sending[t] + Count(gone, {<<"send", t>>})
      /\ \A b \in Buf : provided'[b] = provided[b] + Count(gone, {<<"provide", b>>})
      /\ armed' = armed + Count(gone, {<<"recv">>})
      /\ \A T \in SUBSET Held : Count(cq', T) = Count(cq, T)
  <2>1. PICK g \in Seq(Submission) : g = gone
    BY <1>6
  <2>2. Submit(g)
    BY <1>3, <2>1
  <2>3. /\ sending' \in [Tx -> Nat] /\ provided' \in [Buf -> Nat] /\ armed' \in Nat
        /\ cq' \in Seq(Completion)
        /\ \A t \in Tx : sending'[t] = sending[t] + Count(g, {<<"send", t>>})
        /\ \A b \in Buf : provided'[b] = provided[b] + Count(g, {<<"provide", b>>})
        /\ armed' = armed + Count(g, {<<"recv">>})
        /\ \A T \in SUBSET Held : Count(cq', T) = Count(cq, T)
    BY <2>2, SubmitEffect
  <2>4. QED
    BY <2>1, <2>3
<1>10. sending \in [Tx -> Nat] /\ provided \in [Buf -> Nat] /\ armed \in Nat
  BY DEF UringTypeOK
<1>11. ASSUME NEW t \in Tx PROVE AskedTx(t)' = AskedTx(t) + Count(e, {<<"send", t>>})
  <2>1. sending[t] \in Nat /\ sending'[t] = sending[t] + Count(gone, {<<"send", t>>})
    BY <1>9, <1>10
  <2> DEFINE T == {<<"send", t>>}
  <2> HIDE DEF T
  <2>2. Count(gone, T) + Count(sq', T) = Count(sq, T) + Count(e, T)
    BY <1>7
  <2>3. Count(gone, T) \in Nat /\ Count(sq', T) \in Nat /\ Count(sq, T) \in Nat /\ Count(e, T) \in Nat
    BY <1>8
  <2>4. Count(sq', T) + sending'[t] = Count(sq, T) + sending[t] + Count(e, T)
    BY <2>1, <2>2, <2>3 DEF T
  <2>5. QED
    BY <2>4 DEF AskedTx, T
<1>12. ASSUME NEW b \in Buf PROVE AskedBuf(b)' = AskedBuf(b) + Count(e, {<<"provide", b>>})
  <2>1. provided[b] \in Nat /\ provided'[b] = provided[b] + Count(gone, {<<"provide", b>>})
    BY <1>9, <1>10
  <2> DEFINE T == {<<"provide", b>>}
  <2> HIDE DEF T
  <2>2. Count(gone, T) + Count(sq', T) = Count(sq, T) + Count(e, T)
    BY <1>7
  <2>3. Count(gone, T) \in Nat /\ Count(sq', T) \in Nat /\ Count(sq, T) \in Nat /\ Count(e, T) \in Nat
    BY <1>8
  <2>4. Count(sq', T) + provided'[b] = Count(sq, T) + provided[b] + Count(e, T)
    BY <2>1, <2>2, <2>3 DEF T
  <2>5. QED
    BY <2>4 DEF AskedBuf, T
<1>13. AskedRecv' = AskedRecv + Count(e, {<<"recv">>})
  <2>1. armed \in Nat /\ armed' = armed + Count(gone, {<<"recv">>})
    BY <1>9, <1>10
  <2> DEFINE T == {<<"recv">>}
  <2> HIDE DEF T
  <2>2. Count(gone, T) + Count(sq', T) = Count(sq, T) + Count(e, T)
    BY <1>7
  <2>3. Count(gone, T) \in Nat /\ Count(sq', T) \in Nat /\ Count(sq, T) \in Nat /\ Count(e, T) \in Nat
    BY <1>8
  <2>4. Count(sq', T) + armed' = Count(sq, T) + armed + Count(e, T)
    <3>1. armed' = armed + Count(gone, T)
      BY <2>1 DEF T
    <3>2. QED
      BY <2>1, <2>2, <2>3, <3>1
  <2>5. QED
    BY <2>4 DEF AskedRecv, T
<1>14. sq' \in Seq(Submission) /\ Len(sq') <= SQ_DEPTH
  BY <1>1, <1>3, <1>4, <1>6
<1>15. QED
  BY <1>9, <1>11, <1>12, <1>13, <1>14

(* Taking the first of the pending completions. *)
LEMMA TakeEffect ==
  ASSUME UringTypeOK, NEW c, Take(c), dropped' = dropped,
         \A T \in SUBSET Held : Count(cq', T) = Count(cq, T)
  PROVE  /\ pc = "process" /\ pending_cqes' \in Seq(Completion) /\ Len(pending_cqes') <= PENDING_CAP
         /\ \A T \in SUBSET Held : Seen(T) = Seen(T)' + Count(<<c>>, T) /\ Seen(T)' \in Nat
<1>1. /\ pending_cqes \in Seq(Completion) /\ Len(pending_cqes) <= PENDING_CAP
      /\ PENDING_CAP \in Nat /\ Len(pending_cqes) \in Nat
  BY QueueAssumption, LenProperties DEF UringTypeOK
<1>2. pc = "process" /\ pending_cqes # << >> /\ Head(pending_cqes) = c /\ pending_cqes' = Tail(pending_cqes)
  BY DEF Take, Rest
<1>3. pending_cqes' \in Seq(Completion) /\ Len(pending_cqes') = Len(pending_cqes) - 1
  BY <1>1, <1>2, CountTail
<1>4. ASSUME NEW T \in SUBSET Held
      PROVE  Seen(T) = Seen(T)' + Count(<<c>>, T) /\ Seen(T)' \in Nat
  <2>1. Count(pending_cqes, T) = Count(<<Head(pending_cqes)>>, T) + Count(Tail(pending_cqes), T)
    BY <1>1, <1>2, CountTail
  <2>2. Count(pending_cqes, T) = Count(<<c>>, T) + Count(pending_cqes', T)
    BY <1>2, <2>1
  <2>3. Count(cq, T) \in Nat /\ Count(dropped, T) \in Nat /\ Count(pending_cqes, T) \in Nat
    BY CountsAreNat
  <2>4. Count(pending_cqes', T) \in Nat
    BY <1>3, CountType
  <2>5. Count(<<c>>, T) \in Nat
    BY CountOne
  <2>6. QED
    BY <2>2, <2>3, <2>4, <2>5 DEF Seen
<1>5. QED
  BY <1>1, <1>2, <1>3, <1>4

(* A completion that the kernel adds. *)
LEMMA ArriveEffect ==
  ASSUME UringTypeOK, NEW c \in Completion, cq' = Append(cq, c),
         pending_cqes' = pending_cqes, dropped' = dropped
  PROVE  /\ cq' \in Seq(Completion)
         /\ \A T : Seen(T)' = Seen(T) + Count(<<c>>, T) /\ Seen(T) \in Nat
<1>1. cq \in Seq(Completion)
  BY DEF UringTypeOK
<1>2. cq' \in Seq(Completion)
  BY <1>1, CountAppend
<1>3. ASSUME NEW T PROVE Seen(T)' = Seen(T) + Count(<<c>>, T) /\ Seen(T) \in Nat
  <2>1. Count(cq', T) = Count(cq, T) + Count(<<c>>, T)
    BY <1>1, CountAppend
  <2>2. Count(cq, T) \in Nat /\ Count(dropped, T) \in Nat /\ Count(pending_cqes, T) \in Nat
    BY CountsAreNat
  <2>3. Count(<<c>>, T) \in Nat
    BY CountOne
  <2>4. QED
    BY <2>1, <2>2, <2>3 DEF Seen
<1>4. QED
  BY <1>2, <1>3

(* Completions that are drained are remembered or counted as dropped, but   *)
(* for those of ProvideBuffers.                                             *)
LEMMA DrainEffect ==
  ASSUME UringIInv, Drain
  PROVE  /\ cq' \in Seq(Completion) /\ dropped' \in Seq(Completion)
         /\ pending_cqes' \in Seq(Completion) /\ Len(pending_cqes') <= PENDING_CAP
         /\ \A T \in SUBSET Held : Seen(T)' = Seen(T)
<1> DEFINE L == Len(cq)
           n == IF L > CQ_CAP THEN CQ_CAP ELSE L
           k == IF n > PENDING_CAP THEN PENDING_CAP ELSE n
           a == SubSeq(cq, 1, k)
           b == SubSeq(cq, k + 1, n)
           c == SubSeq(cq, n + 1, L)
           f == Filtered(b, Held)
<1>1. UringTypeOK /\ cq \in Seq(Completion) /\ dropped \in Seq(Completion) /\ L \in Nat
  BY LenProperties DEF UringIInv, UringTypeOK
<1>2. pending_cqes = << >>
  BY DEF UringIInv, PendingInv, Drain
<1>3. CQ_CAP \in Nat /\ PENDING_CAP \in Nat
  BY QueueAssumption
<1>4. cq' = c /\ pending_cqes' = a /\ dropped' = dropped \o f
  BY DEF Drain, Held
<1> HIDE DEF L
<1>5. n \in 0 .. L
  BY <1>1, <1>3
<1> HIDE DEF n
<1>6. k \in 0 .. L /\ n \in k .. L /\ k <= PENDING_CAP
  BY <1>1, <1>3, <1>5
<1> HIDE DEF k
<1>7. /\ a \in Seq(Completion) /\ Len(a) = k /\ b \in Seq(Completion) /\ c \in Seq(Completion)
      /\ \A T : Count(cq, T) = Count(a, T) + Count(b, T) + Count(c, T)
  <2>1. k \in 0 .. Len(cq) /\ n \in k .. Len(cq)
    BY <1>6 DEF L
  <2>2. ASSUME NEW T
        PROVE  /\ SubSeq(cq, 1, k) \in Seq(Completion) /\ Len(SubSeq(cq, 1, k)) = k
               /\ SubSeq(cq, k + 1, n) \in Seq(Completion)
               /\ SubSeq(cq, n + 1, Len(cq)) \in Seq(Completion)
               /\ Count(cq, T) = Count(SubSeq(cq, 1, k), T) + Count(SubSeq(cq, k + 1, n), T)
                                  + Count(SubSeq(cq, n + 1, Len(cq)), T)
    BY <1>1, <2>1, CountAdjacent
  <2>3. QED
    BY <2>2 DEF L
<1> HIDE DEF a, b, c
<1>8. f \in Seq(Completion) /\ \A T \in SUBSET Held : Count(f, T) = Count(b, T)
  <2>1. f \in Seq(Completion \cap Held) /\ \A T : Count(f, T) = Count(b, Held \cap T)
    BY <1>7, FilteredProperties
  <2> HIDE DEF f
  <2>2. f \in Seq(Completion)
    BY <2>1, SeqMonotonic
  <2>3. \A T \in SUBSET Held : Held \cap T = T
    OBVIOUS
  <2>4. QED
    BY <2>1, <2>2, <2>3
<1> HIDE DEF f
<1>9. dropped \o f \in Seq(Completion)
  BY <1>1, <1>8, ConcatProperties
<1>10. ASSUME NEW T \in SUBSET Held PROVE Seen(T)' = Seen(T)
  <2>1. Count(dropped \o f, T) = Count(dropped, T) + Count(f, T)
    BY <1>1, <1>8, CountConcat
  <2>2. Count(f, T) = Count(b, T)
    BY <1>8
  <2>3. Count(cq, T) = Count(a, T) + Count(b, T) + Count(c, T)
    BY <1>7
  <2>4. Count(pending_cqes, T) = 0
    BY <1>2, CountEmpty
  <2>5. Count(a, T) \in Nat /\ Count(b, T) \in Nat /\ Count(c, T) \in Nat /\ Count(dropped, T) \in Nat
    BY <1>1, <1>7, CountType
  <2>6. Seen(T)' = Count(c, T) + Count(a, T) + Count(dropped \o f, T)
    BY <1>4 DEF Seen
  <2>7. QED
    BY <2>1, <2>2, <2>3, <2>4, <2>5, <2>6 DEF Seen
<1>11. QED
  BY <1>3, <1>4, <1>6, <1>7, <1>9, <1>10

(* What is asked for and what is on the stack are numbers. *)
LEMMA AskedAreNat ==
  ASSUME UringTypeOK
  PROVE  /\ \A t \in Tx : AskedTx(t) \in Nat /\ Count(tx_free_indices, {t}) \in Nat
         /\ \A b \in Buf : AskedBuf(b) \in Nat
         /\ AskedRecv \in Nat
<1>1. \A T : Count(sq, T) \in Nat /\ Count(tx_free_indices, T) \in Nat
  BY CountsAreNat
<1>2. sending \in [Tx -> Nat] /\ provided \in [Buf -> Nat] /\ armed \in Nat
  BY DEF UringTypeOK
<1>3. \A t \in Tx : AskedTx(t) \in Nat
  BY <1>1, <1>2 DEF AskedTx
<1>4. \A b \in Buf : AskedBuf(b) \in Nat
  BY <1>1, <1>2 DEF AskedBuf
<1>5. AskedRecv \in Nat
  BY <1>1, <1>2 DEF AskedRecv
<1>6. QED
  BY <1>1, <1>3, <1>4, <1>5

(* The invariant holds again when every sum is what it was. *)
LEMMA SumsKept ==
  ASSUME UringIInv,
         \A t \in Tx : Count(tx_free_indices, {t})' + AskedTx(t)' + Seen(SendOf(t))'
                         = Count(tx_free_indices, {t}) + AskedTx(t) + Seen(SendOf(t)),
         \A b \in Buf : AskedBuf(b)' + Seen(HoldsBuf(b))' = AskedBuf(b) + Seen(HoldsBuf(b)),
         AskedRecv' + Seen(EndsRecv)' = AskedRecv + Seen(EndsRecv)
  PROVE  OwnedInv'
BY DEF UringIInv, OwnedInv

(* The steps of the kernel: a send ends, a packet arrives, the receive      *)
(* ends.                                                                    *)
LEMMA KernelStep ==
  ASSUME UringIInv, Kernel
  PROVE  UringIInv'
<1>1. UringTypeOK /\ PendingInv /\ OwnedInv
  BY DEF UringIInv
<1>2. sending \in [Tx -> Nat] /\ provided \in [Buf -> Nat] /\ armed \in Nat
  BY <1>1 DEF UringTypeOK
<1>3. /\ \A t \in Tx : AskedTx(t) \in Nat /\ Count(tx_free_indices, {t}) \in Nat
      /\ \A b \in Buf : AskedBuf(b) \in Nat
      /\ AskedRecv \in Nat
  BY <1>1, AskedAreNat
<1>4. \A T : Count(sq, T) \in Nat
  BY <1>1, CountsAreNat
<1>5. ASSUME NEW t \in Tx, SendDone(t) PROVE UringIInv'
  <2>1. /\ sending[t] > 0
        /\ sending' = [sending EXCEPT ![t] = sending[t] - 1]
        /\ cq' = Append(cq, <<"send", t>>)
        /\ UNCHANGED <<pc, tx_free_indices, pending_cqes, sq, provided, armed, dropped>>
    BY <1>5 DEF SendDone
  <2>2. PICK c \in Completion : c = <<"send", t>>
    BY WhichSend
  <2>3. cq' \in Seq(Completion) /\ \A T : Seen(T)' = Seen(T) + Count(<<c>>, T) /\ Seen(T) \in Nat
    BY <1>1, <2>1, <2>2, ArriveEffect
  <2>4. /\ \A u \in Tx : Count(<<c>>, SendOf(u)) = IF t = u THEN 1 ELSE 0
        /\ \A b \in Buf : Count(<<c>>, HoldsBuf(b)) = 0
        /\ Count(<<c>>, EndsRecv) = 0
    BY <2>2, CountOne, WhichSend
  <2>5. sending' \in [Tx -> Nat]
    BY <1>2, <2>1
  <2>6. UringTypeOK' /\ PendingInv'
    BY <1>1, <2>1, <2>3, <2>5 DEF UringTypeOK, PendingInv
  <2>7. ASSUME NEW u \in Tx
        PROVE  Count(tx_free_indices, {u})' + AskedTx(u)' + Seen(SendOf(u))'
                 = Count(tx_free_indices, {u}) + AskedTx(u) + Seen(SendOf(u))
    <3>1. Count(tx_free_indices, {u})' = Count(tx_free_indices, {u})
      BY <2>1
    <3>2. AskedTx(u)' = AskedTx(u) - (IF t = u THEN 1 ELSE 0)
      BY <1>2, <1>4, <2>1 DEF AskedTx
    <3>3. Seen(SendOf(u))' = Seen(SendOf(u)) + (IF t = u THEN 1 ELSE 0) /\ Seen(SendOf(u)) \in Nat
      BY <2>3, <2>4
    <3>4. QED
      BY <1>3, <3>1, <3>2, <3>3
  <2>8. ASSUME NEW b \in Buf PROVE AskedBuf(b)' + Seen(HoldsBuf(b))' = AskedBuf(b) + Seen(HoldsBuf(b))
    <3>1. AskedBuf(b)' = AskedBuf(b)
      BY <2>1 DEF AskedBuf
    <3>2. Seen(HoldsBuf(b))' = Seen(HoldsBuf(b))
      BY <2>3, <2>4
    <3>3. QED
      BY <3>1, <3>2
  <2>9. AskedRecv' + Seen(EndsRecv)' = AskedRecv + Seen(EndsRecv)
    <3>1. AskedRecv' = AskedRecv
      BY <2>1 DEF AskedRecv
    <3>2. Seen(EndsRecv)' = Seen(EndsRecv)
      BY <2>3, <2>4
    <3>3. QED
      BY <3>1, <3>2
  <2>10. OwnedInv'
    BY <2>7, <2>8, <2>9, SumsKept
  <2>11. QED
    BY <2>6, <2>10 DEF UringIInv
<1>6. ASSUME NEW b \in Buf, NEW more \in BOOLEAN, Packet(b, more) PROVE UringIInv'
  <2>1. /\ armed > 0 /\ provided[b] > 0
        /\ provided' = [provided EXCEPT ![b] = provided[b] - 1]
        /\ armed' = IF more THEN armed ELSE armed - 1
        /\ cq' = Append(cq, <<"packet", b, more>>)
        /\ UNCHANGED <<pc, tx_free_indices, pending_cqes, sq, sending, dropped>>
    BY <1>6 DEF Packet
  <2>2. PICK c \in Completion : c = <<"packet", b, more>>
    BY WhichPacket
  <2>3. cq' \in Seq(Completion) /\ \A T : Seen(T)' = Seen(T) + Count(<<c>>, T) /\ Seen(T) \in Nat
    BY <1>1, <2>1, <2>2, ArriveEffect
  <2>4. /\ \A t \in Tx : Count(<<c>>, SendOf(t)) = 0
        /\ \A d \in Buf : Count(<<c>>, HoldsBuf(d)) = IF b = d THEN 1 ELSE 0
        /\ Count(<<c>>, EndsRecv) = IF more THEN 0 ELSE 1
    <3>1. /\ \A t \in Tx : c \notin SendOf(t)
          /\ \A d \in Buf : c \in HoldsBuf(d) <=> b = d
          /\ c \in EndsRecv <=> ~ more
      BY <2>2, WhichPacket
    <3>2. QED
      BY <3>1, CountOne
  <2>5. provided' \in [Buf -> Nat] /\ armed' \in Nat
    BY <1>2, <2>1
  <2>6. UringTypeOK' /\ PendingInv'
    BY <1>1, <2>1, <2>3, <2>5 DEF UringTypeOK, PendingInv
  <2>7. ASSUME NEW t \in Tx
        PROVE  Count(tx_free_indices, {t})' + AskedTx(t)' + Seen(SendOf(t))'
                 = Count(tx_free_indices, {t}) + AskedTx(t) + Seen(SendOf(t))
    <3>1. Count(tx_free_indices, {t})' = Count(tx_free_indices, {t}) /\ AskedTx(t)' = AskedTx(t)
      BY <2>1 DEF AskedTx
    <3>2. Seen(SendOf(t))' = Seen(SendOf(t))
      BY <2>3, <2>4
    <3>3. QED
      BY <3>1, <3>2
  <2>8. ASSUME NEW d \in Buf PROVE AskedBuf(d)' + Seen(HoldsBuf(d))' = AskedBuf(d) + Seen(HoldsBuf(d))
    <3>1. AskedBuf(d)' = AskedBuf(d) - (IF b = d THEN 1 ELSE 0)
      BY <1>2, <1>4, <2>1 DEF AskedBuf
    <3>2. Seen(HoldsBuf(d))' = Seen(HoldsBuf(d)) + (IF b = d THEN 1 ELSE 0) /\ Seen(HoldsBuf(d)) \in Nat
      BY <2>3, <2>4
    <3>3. QED
      BY <1>3, <3>1, <3>2
  <2>9. AskedRecv' + Seen(EndsRecv)' = AskedRecv + Seen(EndsRecv)
    <3>1. AskedRecv' = AskedRecv - (IF more THEN 0 ELSE 1)
      BY <1>2, <1>4, <2>1 DEF AskedRecv
    <3>2. Seen(EndsRecv)' = Seen(EndsRecv) + (IF more THEN 0 ELSE 1) /\ Seen(EndsRecv) \in Nat
      BY <2>3, <2>4
    <3>3. QED
      BY <1>3, <3>1, <3>2
  <2>10. OwnedInv'
    BY <2>7, <2>8, <2>9, SumsKept
  <2>11. QED
    BY <2>6, <2>10 DEF UringIInv
<1>7. ASSUME RecvError PROVE UringIInv'
  <2>1. /\ armed > 0
        /\ armed' = armed - 1
        /\ cq' = Append(cq, <<"error">>)
        /\ UNCHANGED <<pc, tx_free_indices, pending_cqes, sq, sending, provided, dropped>>
    BY <1>7 DEF RecvError
  <2>2. PICK c \in Completion : c = <<"error">>
    BY WhichError
  <2>3. cq' \in Seq(Completion) /\ \A T : Seen(T)' = Seen(T) + Count(<<c>>, T) /\ Seen(T) \in Nat
    BY <1>1, <2>1, <2>2, ArriveEffect
  <2>4. /\ \A t \in Tx : Count(<<c>>, SendOf(t)) = 0
        /\ \A d \in Buf : Count(<<c>>, HoldsBuf(d)) = 0
        /\ Count(<<c>>, EndsRecv) = 1
    BY <2>2, CountOne, WhichError
  <2>5. UringTypeOK' /\ PendingInv'
    BY <1>1, <1>2, <2>1, <2>3 DEF UringTypeOK, PendingInv
  <2>6. ASSUME NEW t \in Tx
        PROVE  Count(tx_free_indices, {t})' + AskedTx(t)' + Seen(SendOf(t))'
                 = Count(tx_free_indices, {t}) + AskedTx(t) + Seen(SendOf(t))
    <3>1. Count(tx_free_indices, {t})' = Count(tx_free_indices, {t}) /\ AskedTx(t)' = AskedTx(t)
      BY <2>1 DEF AskedTx
    <3>2. Seen(SendOf(t))' = Seen(SendOf(t))
      BY <2>3, <2>4
    <3>3. QED
      BY <3>1, <3>2
  <2>7. ASSUME NEW b \in Buf PROVE AskedBuf(b)' + Seen(HoldsBuf(b))' = AskedBuf(b) + Seen(HoldsBuf(b))
    <3>1. AskedBuf(b)' = AskedBuf(b)
      BY <2>1 DEF AskedBuf
    <3>2. Seen(HoldsBuf(b))' = Seen(HoldsBuf(b))
      BY <2>3, <2>4
    <3>3. QED
      BY <3>1, <3>2
  <2>8. AskedRecv' + Seen(EndsRecv)' = AskedRecv + Seen(EndsRecv)
    <3>1. AskedRecv' = AskedRecv - 1
      BY <1>2, <1>4, <2>1 DEF AskedRecv
    <3>2. Seen(EndsRecv)' = Seen(EndsRecv) + 1 /\ Seen(EndsRecv) \in Nat
      BY <2>3, <2>4
    <3>3. QED
      BY <1>3, <3>1, <3>2
  <2>9. OwnedInv'
    BY <2>6, <2>7, <2>8, SumsKept
  <2>10. QED
    BY <2>5, <2>9 DEF UringIInv
<1>8. QED
  BY <1>5, <1>6, <1>7 DEF Kernel

(* The steps of the worker that leave the pushing of entries aside.         *)
LEMMA PlainStep ==
  ASSUME UringIInv,
         SubmitAndWait \/ Drain \/ (\E t \in Tx : ProcessSend(t))
           \/ (\E b \in Buf : ProcessProvide(b)) \/ ProcessDone \/ FlushDone
           \/ UNCHANGED uringVars
  PROVE  UringIInv'
<1>1. UringTypeOK /\ PendingInv /\ OwnedInv
  BY DEF UringIInv
<1>2. sending \in [Tx -> Nat] /\ provided \in [Buf -> Nat] /\ armed \in Nat
  BY <1>1 DEF UringTypeOK
<1>3. /\ \A t \in Tx : AskedTx(t) \in Nat /\ Count(tx_free_indices, {t}) \in Nat
      /\ \A b \in Buf : AskedBuf(b) \in Nat
      /\ AskedRecv \in Nat
  BY <1>1, AskedAreNat
<1>4. \A T : Count(sq, T) \in Nat /\ Seen(T) \in Nat
  BY <1>1, CountsAreNat
<1>5. /\ \A t \in Tx : SendOf(t) \in SUBSET Held
      /\ \A b \in Buf : HoldsBuf(b) \in SUBSET Held
      /\ EndsRecv \in SUBSET Held
  BY HeldSets
<1>6. ASSUME SubmitAndWait PROVE UringIInv'
  <2>1. /\ pc = "submit" /\ pc' = "wait" /\ Submit(sq) /\ sq' = << >>
        /\ UNCHANGED <<tx_free_indices, pending_cqes, dropped>>
    BY <1>6 DEF SubmitAndWait
  <2>2. PICK q \in Seq(Submission) : q = sq
    BY <1>1 DEF UringTypeOK
  <2>3. Submit(q)
    BY <2>1, <2>2
  <2>4. /\ sending' \in [Tx -> Nat] /\ provided' \in [Buf -> Nat] /\ armed' \in Nat
        /\ cq' \in Seq(Completion)
        /\ \A t \in Tx : sending'[t] = sending[t] + Count(sq, {<<"send", t>>})
        /\ \A b \in Buf : provided'[b] = provided[b] + Count(sq, {<<"provide", b>>})
        /\ armed' = armed + Count(sq, {<<"recv">>})
        /\ \A T \in SUBSET Held : Count(cq', T) = Count(cq, T)
    BY <1>1, <2>2, <2>3, SubmitEffect
  <2>5. \A T : Count(sq', T) = 0
    BY <2>1, CountEmpty
  <2>6. \A T \in SUBSET Held : Seen(T)' = Seen(T)
    BY <2>1, <2>4 DEF Seen
  <2>7. \A t \in Tx : AskedTx(t)' = AskedTx(t)
    BY <1>2, <1>4, <2>4, <2>5 DEF AskedTx
  <2>8. \A b \in Buf : AskedBuf(b)' = AskedBuf(b)
    BY <1>2, <1>4, <2>4, <2>5 DEF AskedBuf
  <2>9. AskedRecv' = AskedRecv
    BY <1>2, <1>4, <2>4, <2>5 DEF AskedRecv
  <2>10. UringTypeOK'
    <3>1. sq' \in Seq(Submission) /\ Len(sq') <= SQ_DEPTH
      BY <2>1, QueueAssumption
    <3>2. QED
      BY <1>1, <2>1, <2>4, <3>1 DEF UringTypeOK
  <2>11. PendingInv'
    BY <1>1, <2>1 DEF PendingInv
  <2>12. OwnedInv'
    BY <1>5, <2>1, <2>6, <2>7, <2>8, <2>9, SumsKept
  <2>13. QED
    BY <2>10, <2>11, <2>12 DEF UringIInv
<1>7. ASSUME Drain PROVE UringIInv'
  <2>1. /\ cq' \in Seq(Completion) /\ dropped' \in Seq(Completion)
        /\ pending_cqes' \in Seq(Completion) /\ Len(pending_cqes') <= PENDING_CAP
        /\ \A T \in SUBSET Held : Seen(T)' = Seen(T)
    BY <1>7, DrainEffect
  <2>2. pc' = "process" /\ UNCHANGED <<tx_free_indices, sq, sending, provided, armed>>
    BY <1>7 DEF Drain
  <2>3. UringTypeOK' /\ PendingInv'
    BY <1>1, <2>1, <2>2 DEF UringTypeOK, PendingInv
  <2>4. OwnedInv'
    BY <1>5, <2>1, <2>2, SumsKept DEF AskedTx, AskedBuf, AskedRecv
  <2>5. QED
    BY <2>3, <2>4 DEF UringIInv
<1>8. ASSUME NEW t \in Tx, ProcessSend(t) PROVE UringIInv'
  <2>1. /\ Take(<<"send", t>>) /\ tx_free_indices' = Append(tx_free_indices, t)
        /\ UNCHANGED <<pc, dropped, sq, cq, sending, provided, armed>>
    BY <1>8 DEF ProcessSend, Recycle, ringVars
  <2>2. PICK c \in Completion : c = <<"send", t>>
    BY WhichSend
  <2>3. /\ pc = "process" /\ pending_cqes' \in Seq(Completion) /\ Len(pending_cqes') <= PENDING_CAP
        /\ \A T \in SUBSET Held : Seen(T) = Seen(T)' + Count(<<c>>, T) /\ Seen(T)' \in Nat
    BY <1>1, <2>1, <2>2, TakeEffect
  <2>4. /\ \A u \in Tx : Count(<<c>>, SendOf(u)) = IF t = u THEN 1 ELSE 0
        /\ \A b \in Buf : Count(<<c>>, HoldsBuf(b)) = 0
        /\ Count(<<c>>, EndsRecv) = 0
    BY <2>2, CountOne, WhichSend
  <2>5. tx_free_indices \in Seq(Tx)
    BY <1>1 DEF UringTypeOK
  <2>6. /\ tx_free_indices' \in Seq(Tx)
        /\ \A u \in Tx : Count(tx_free_indices, {u})'
                           = Count(tx_free_indices, {u}) + (IF t = u THEN 1 ELSE 0)
    <3>1. ASSUME NEW u \in Tx
          PROVE  /\ Append(tx_free_indices, t) \in Seq(Tx)
                 /\ Count(Append(tx_free_indices, t), {u})
                      = Count(tx_free_indices, {u}) + Count(<<t>>, {u})
      BY <2>5, CountAppend
    <3>2. \A u \in Tx : Count(<<t>>, {u}) = IF t = u THEN 1 ELSE 0
      BY CountOne
    <3>3. QED
      BY <2>1, <3>1, <3>2
  <2>7. UringTypeOK' /\ PendingInv'
    BY <1>1, <2>1, <2>3, <2>6 DEF UringTypeOK, PendingInv
  <2>8. ASSUME NEW u \in Tx
        PROVE  Count(tx_free_indices, {u})' + AskedTx(u)' + Seen(SendOf(u))'
                 = Count(tx_free_indices, {u}) + AskedTx(u) + Seen(SendOf(u))
    <3>1. AskedTx(u)' = AskedTx(u)
      BY <2>1 DEF AskedTx
    <3>2. Count(tx_free_indices, {u})' = Count(tx_free_indices, {u}) + (IF t = u THEN 1 ELSE 0)
      BY <2>6
    <3>3. Seen(SendOf(u)) = Seen(SendOf(u))' + (IF t = u THEN 1 ELSE 0) /\ Seen(SendOf(u))' \in Nat
      BY <1>5, <2>3, <2>4
    <3>4. QED
      BY <1>3, <3>1, <3>2, <3>3
  <2>9. ASSUME NEW b \in Buf PROVE AskedBuf(b)' + Seen(HoldsBuf(b))' = AskedBuf(b) + Seen(HoldsBuf(b))
    <3>1. AskedBuf(b)' = AskedBuf(b)
      BY <2>1 DEF AskedBuf
    <3>2. Seen(HoldsBuf(b)) = Seen(HoldsBuf(b))'
      BY <1>5, <2>3, <2>4
    <3>3. QED
      BY <3>1, <3>2
  <2>10. AskedRecv' + Seen(EndsRecv)' = AskedRecv + Seen(EndsRecv)
    <3>1. AskedRecv' = AskedRecv
      BY <2>1 DEF AskedRecv
    <3>2. Seen(EndsRecv) = Seen(EndsRecv)'
      BY <1>5, <2>3, <2>4
    <3>3. QED
      BY <3>1, <3>2
  <2>11. OwnedInv'
    BY <2>8, <2>9, <2>10, SumsKept
  <2>12. QED
    BY <2>7, <2>11 DEF UringIInv
<1>9. ASSUME NEW b \in Buf, ProcessProvide(b) PROVE UringIInv'
  <2>1. /\ Take(<<"provide", b>>)
        /\ UNCHANGED <<pc, tx_free_indices, dropped, sq, cq, sending, provided, armed>>
    BY <1>9 DEF ProcessProvide, ringVars
  <2>2. PICK c \in Completion : c = <<"provide", b>>
    BY WhichProvide
  <2>3. /\ pc = "process" /\ pending_cqes' \in Seq(Completion) /\ Len(pending_cqes') <= PENDING_CAP
        /\ \A T \in SUBSET Held : Seen(T) = Seen(T)' + Count(<<c>>, T) /\ Seen(T)' \in Nat
    BY <1>1, <2>1, <2>2, TakeEffect
  <2>4. \A T \in SUBSET Held : Count(<<c>>, T) = 0
    BY <2>2, CountOne, WhichProvide
  <2>5. \A T \in SUBSET Held : Seen(T)' = Seen(T)
    BY <2>3, <2>4
  <2>6. UringTypeOK' /\ PendingInv'
    BY <1>1, <2>1, <2>3 DEF UringTypeOK, PendingInv
  <2>7. OwnedInv'
    BY <1>5, <2>1, <2>5, SumsKept DEF AskedTx, AskedBuf, AskedRecv
  <2>8. QED
    BY <2>6, <2>7 DEF UringIInv
<1>10. ASSUME ProcessDone \/ FlushDone \/ UNCHANGED uringVars PROVE UringIInv'
  <2>1. /\ UNCHANGED <<tx_free_indices, pending_cqes, dropped, sq, cq, sending, provided, armed>>
        /\ pc' \in {"submit", "wait", "process", "flush"}
        /\ pc' # "process" => pending_cqes = << >>
    BY <1>1, <1>10 DEF ProcessDone, FlushDone, uringVars, ringVars, PendingInv, UringTypeOK
  <2>2. UringTypeOK' /\ PendingInv'
    BY <1>1, <2>1 DEF UringTypeOK, PendingInv
  <2>3. OwnedInv'
    BY <1>1, <2>1 DEF OwnedInv, AskedTx, AskedBuf, AskedRecv, Seen
  <2>4. QED
    BY <2>2, <2>3 DEF UringIInv
<1>11. QED
  BY <1>6, <1>7, <1>8, <1>9, <1>10

(* Two entries. *)
LEMMA CountTwo ==
  ASSUME NEW x, NEW y, NEW T
  PROVE  Count(<<x, y>>, T) = Count(<<x>>, T) + Count(<<y>>, T)
<1> DEFINE E == {x, y}
           q == <<x>>
<1>1. x \in E /\ y \in E
  OBVIOUS
<1> HIDE DEF E
<1>2. q \in Seq(E)
  BY <1>1
<1>3. <<x, y>> = Append(q, y)
  OBVIOUS
<1> HIDE DEF q
<1>4. Count(Append(q, y), T) = Count(q, T) + Count(<<y>>, T)
  BY <1>1, <1>2, CountAppend
<1>5. QED
  BY <1>3, <1>4 DEF q

(* A completion is taken and entries are pushed that ask for exactly what   *)
(* the completion stood for.                                                *)
LEMMA GivenBack ==
  ASSUME UringIInv, NEW c, NEW e \in Seq(Submission), e # << >>,
         Take(c), PushSqes(e), UNCHANGED <<pc, tx_free_indices, dropped>>,
         \A t \in Tx : Count(e, {<<"send", t>>}) = 0 /\ Count(<<c>>, SendOf(t)) = 0,
         \A b \in Buf : Count(e, {<<"provide", b>>}) = Count(<<c>>, HoldsBuf(b)),
         Count(e, {<<"recv">>}) = Count(<<c>>, EndsRecv)
  PROVE  UringIInv'
<1>1. UringTypeOK /\ PendingInv /\ OwnedInv
  BY DEF UringIInv
<1>2. /\ \A t \in Tx : AskedTx(t) \in Nat /\ Count(tx_free_indices, {t}) \in Nat
      /\ \A b \in Buf : AskedBuf(b) \in Nat
      /\ AskedRecv \in Nat
  BY <1>1, AskedAreNat
<1>3. /\ \A t \in Tx : SendOf(t) \in SUBSET Held
      /\ \A b \in Buf : HoldsBuf(b) \in SUBSET Held
      /\ EndsRecv \in SUBSET Held
  BY HeldSets
<1>4. /\ sq' \in Seq(Submission) /\ Len(sq') <= SQ_DEPTH
      /\ sending' \in [Tx -> Nat] /\ provided' \in [Buf -> Nat] /\ armed' \in Nat
      /\ cq' \in Seq(Completion)
      /\ \A t \in Tx : AskedTx(t)' = AskedTx(t) + Count(e, {<<"send", t>>})
      /\ \A b \in Buf : AskedBuf(b)' = AskedBuf(b) + Count(e, {<<"provide", b>>})
      /\ AskedRecv' = AskedRecv + Count(e, {<<"recv">>})
      /\ \A T \in SUBSET Held : Count(cq', T) = Count(cq, T)
  BY <1>1, PushEffect
<1>5. /\ pc = "process" /\ pending_cqes' \in Seq(Completion) /\ Len(pending_cqes') <= PENDING_CAP
      /\ \A T \in SUBSET Held : Seen(T) = Seen(T)' + Count(<<c>>, T) /\ Seen(T)' \in Nat
  BY <1>1, <1>4, TakeEffect
<1>6. UringTypeOK' /\ PendingInv'
  BY <1>1, <1>4, <1>5 DEF UringTypeOK, PendingInv
<1>7. ASSUME NEW t \in Tx
      PROVE  Count(tx_free_indices, {t})' + AskedTx(t)' + Seen(SendOf(t))'
               = Count(tx_free_indices, {t}) + AskedTx(t) + Seen(SendOf(t))
  <2>1. Count(tx_free_indices, {t})' = Count(tx_free_indices, {t})
    OBVIOUS
  <2>2. AskedTx(t)' = AskedTx(t)
    <3> DEFINE k == Count(e, {<<"send", t>>})
    <3>1. AskedTx(t)' = AskedTx(t) + k /\ k = 0
      BY <1>4
    <3>2. AskedTx(t) \in Nat
      BY <1>2
    <3>3. ASSUME NEW x \in Nat, NEW y, NEW z, y = x + z, z = 0 PROVE y = x
      BY <3>3
    <3>4. QED
      BY <3>1, <3>2, <3>3
  <2>3. Seen(SendOf(t)) = Seen(SendOf(t))'
    <3> DEFINE k == Count(<<c>>, SendOf(t))
    <3>1. Seen(SendOf(t)) = Seen(SendOf(t))' + k /\ k = 0 /\ Seen(SendOf(t))' \in Nat
      BY <1>3, <1>5
    <3> HIDE DEF k
    <3>2. QED
      BY <3>1
  <2>4. QED
    BY <2>1, <2>2, <2>3
<1>8. \A T : Count(<<c>>, T) \in Nat
  BY CountOne
<1>9. ASSUME NEW b \in Buf PROVE AskedBuf(b)' + Seen(HoldsBuf(b))' = AskedBuf(b) + Seen(HoldsBuf(b))
  <2> DEFINE n == Count(<<c>>, HoldsBuf(b))
  <2>1. AskedBuf(b)' = AskedBuf(b) + n
    BY <1>4
  <2>2. Seen(HoldsBuf(b)) = Seen(HoldsBuf(b))' + n /\ Seen(HoldsBuf(b))' \in Nat
    BY <1>3, <1>5
  <2>3. n \in Nat
    BY <1>8
  <2> HIDE DEF n
  <2>4. QED
    BY <1>2, <2>1, <2>2, <2>3
<1>10. AskedRecv' + Seen(EndsRecv)' = AskedRecv + Seen(EndsRecv)
  <2> DEFINE n == Count(<<c>>, EndsRecv)
  <2>1. AskedRecv' = AskedRecv + n
    BY <1>4
  <2>2. Seen(EndsRecv) = Seen(EndsRecv)' + n /\ Seen(EndsRecv)' \in Nat
    BY <1>3, <1>5
  <2>3. n \in Nat
    BY <1>8
  <2> HIDE DEF n
  <2>4. QED
    BY <1>2, <2>1, <2>2, <2>3
<1>11. OwnedInv'
  BY <1>7, <1>9, <1>10, SumsKept
<1>12. QED
  BY <1>6, <1>11 DEF UringIInv

(* A packet is handled: its buffer is given back, and a receive that ended  *)
(* with it is submitted again.                                              *)
LEMMA PacketStep ==
  ASSUME UringIInv, NEW b \in Buf, NEW more \in BOOLEAN, ProcessPacket(b, more)
  PROVE  UringIInv'
<1> DEFINE c == <<"packet", b, more>>
           p == <<"provide", b>>
           r == <<"recv">>
           e == IF more THEN <<p>> ELSE <<p, r>>
<1>1. Take(c) /\ PushSqes(e) /\ UNCHANGED <<pc, tx_free_indices, dropped>>
  BY DEF ProcessPacket
<1>2. /\ \A t \in Tx : c \notin SendOf(t)
      /\ \A d \in Buf : c \in HoldsBuf(d) <=> b = d
      /\ c \in EndsRecv <=> ~ more
  BY WhichPacket
<1>3. /\ p \in Submission /\ r \in Submission
      /\ \A t \in Tx : p \notin {<<"send", t>>} /\ r \notin {<<"send", t>>}
      /\ \A d \in Buf : (p \in {<<"provide", d>>} <=> b = d) /\ r \notin {<<"provide", d>>}
      /\ p \notin {<<"recv">>} /\ r \in {<<"recv">>}
  BY WhichSubmission
<1> HIDE DEF c, p, r
<1>4. e \in Seq(Submission) /\ e # << >>
  BY <1>3
<1>5. \A T : Count(e, T) = Count(<<p>>, T) + (IF more THEN 0 ELSE Count(<<r>>, T))
  <2> SUFFICES ASSUME NEW T
               PROVE  Count(e, T) = Count(<<p>>, T) + (IF more THEN 0 ELSE Count(<<r>>, T))
    OBVIOUS
  <2>1. CASE more
    <3>1. e = <<p>> /\ Count(<<p>>, T) \in Nat
      BY <2>1, CountOne
    <3>2. QED
      BY <2>1, <3>1
  <2>2. CASE ~ more
    <3>1. e = <<p, r>>
      BY <2>2
    <3>2. QED
      BY <2>2, <3>1, CountTwo
  <2>3. QED
    BY <2>1, <2>2
<1> HIDE DEF e
<1>6. ASSUME NEW t \in Tx PROVE Count(e, {<<"send", t>>}) = 0 /\ Count(<<c>>, SendOf(t)) = 0
  <2> DEFINE T == {<<"send", t>>}
  <2>1. p \notin T /\ r \notin T /\ c \notin SendOf(t)
    BY <1>2, <1>3
  <2> HIDE DEF T
  <2>2. Count(<<p>>, T) = 0 /\ Count(<<r>>, T) = 0 /\ Count(<<c>>, SendOf(t)) = 0
    BY <2>1, CountOne
  <2>3. Count(e, T) = Count(<<p>>, T) + (IF more THEN 0 ELSE Count(<<r>>, T))
    BY <1>5
  <2>4. QED
    BY <2>2, <2>3 DEF T
<1>7. ASSUME NEW d \in Buf PROVE Count(e, {<<"provide", d>>}) = Count(<<c>>, HoldsBuf(d))
  <2> DEFINE T == {<<"provide", d>>}
  <2>1. (p \in T <=> b = d) /\ r \notin T /\ (c \in HoldsBuf(d) <=> b = d)
    BY <1>2, <1>3
  <2> HIDE DEF T
  <2>2. /\ Count(<<p>>, T) = (IF b = d THEN 1 ELSE 0) /\ Count(<<r>>, T) = 0
        /\ Count(<<c>>, HoldsBuf(d)) = (IF b = d THEN 1 ELSE 0)
    BY <2>1, CountOne
  <2>3. Count(e, T) = Count(<<p>>, T) + (IF more THEN 0 ELSE Count(<<r>>, T))
    BY <1>5
  <2>4. QED
    BY <2>2, <2>3 DEF T
<1>8. Count(e, {<<"recv">>}) = Count(<<c>>, EndsRecv)
  <2> DEFINE T == {<<"recv">>}
  <2>1. p \notin T /\ r \in T /\ (c \in EndsRecv <=> ~ more)
    BY <1>2, <1>3
  <2> HIDE DEF T
  <2>2. /\ Count(<<p>>, T) = 0 /\ Count(<<r>>, T) = 1
        /\ Count(<<c>>, EndsRecv) = (IF more THEN 0 ELSE 1)
    BY <2>1, CountOne
  <2>3. Count(e, T) = Count(<<p>>, T) + (IF more THEN 0 ELSE Count(<<r>>, T))
    BY <1>5
  <2>4. QED
    BY <2>2, <2>3 DEF T
<1>9. QED
  BY <1>1, <1>4, <1>6, <1>7, <1>8, GivenBack

(* A receive that ended with an error is submitted again. *)
LEMMA ErrorStep ==
  ASSUME UringIInv, ProcessError
  PROVE  UringIInv'
<1> DEFINE c == <<"error">>
           r == <<"recv">>
<1>1. Take(c) /\ PushSqes(<<r>>) /\ UNCHANGED <<pc, tx_free_indices, dropped>>
  BY DEF ProcessError
<1>2. /\ \A t \in Tx : c \notin SendOf(t)
      /\ \A d \in Buf : c \notin HoldsBuf(d)
      /\ c \in EndsRecv
  BY WhichError
<1>3. /\ r \in Submission
      /\ \A t \in Tx : r \notin {<<"send", t>>}
      /\ \A d \in Buf : r \notin {<<"provide", d>>}
      /\ r \in {<<"recv">>}
  BY WhichSubmission
<1> HIDE DEF c, r
<1>4. <<r>> \in Seq(Submission) /\ <<r>> # << >>
  BY <1>3
<1>5. \A t \in Tx : Count(<<r>>, {<<"send", t>>}) = 0 /\ Count(<<c>>, SendOf(t)) = 0
  BY <1>2, <1>3, CountOne
<1>6. \A d \in Buf : Count(<<r>>, {<<"provide", d>>}) = Count(<<c>>, HoldsBuf(d))
  BY <1>2, <1>3, CountOne
<1>7. Count(<<r>>, {<<"recv">>}) = Count(<<c>>, EndsRecv)
  BY <1>2, <1>3, CountOne
<1>8. QED
  BY <1>1, <1>4, <1>5, <1>6, <1>7, GivenBack

(* A TX item goes from the stack into a submission. *)
LEMMA FlushStep ==
  ASSUME UringIInv, FlushSend
  PROVE  UringIInv'
<1> DEFINE n == Len(tx_free_indices)
           top == tx_free_indices[n]
           rest == SubSeq(tx_free_indices, 1, n - 1)
<1>1. UringTypeOK /\ PendingInv /\ OwnedInv /\ tx_free_indices \in Seq(Tx)
  BY DEF UringIInv, UringTypeOK
<1>2. /\ pc = "flush" /\ n > 0 /\ tx_free_indices' = rest /\ PushSqes(<<<<"send", top>>>>)
      /\ UNCHANGED <<pc, pending_cqes, dropped>>
  BY DEF FlushSend
<1>3. n \in Nat /\ n - 1 \in 0 .. n /\ top \in Tx
  <2>1. n \in Nat
    BY <1>1, LenProperties
  <2>2. n \in 1 .. Len(tx_free_indices)
    BY <1>2, <2>1
  <2>3. QED
    BY <1>1, <2>1, <2>2, ElementOfSeq
<1>4. /\ rest \in Seq(Tx)
      /\ \A T : Count(rest, T) + Count(<<top>>, T) = Count(tx_free_indices, T)
  <2>1. ASSUME NEW T
        PROVE  /\ rest \in Seq(Tx)
               /\ Count(rest, T) + Count(<<top>>, T) = Count(tx_free_indices, T)
    <3> DEFINE k == n - 1
    <3>1. k \in 0 .. Len(tx_free_indices) /\ k + 1 = n
      BY <1>3
    <3> HIDE DEF k
    <3>2. /\ SubSeq(tx_free_indices, 1, k) \in Seq(Tx)
          /\ Count(SubSeq(tx_free_indices, 1, k), T)
               + Count(SubSeq(tx_free_indices, k + 1, Len(tx_free_indices)), T)
             = Count(tx_free_indices, T)
      BY <1>1, <3>1, CountSplit
    <3>3. SubSeq(tx_free_indices, k + 1, Len(tx_free_indices)) = <<top>>
      <4> DEFINE last == SubSeq(tx_free_indices, n, n)
      <4>1. \A i \in n .. n : tx_free_indices[i] \in Tx
        BY <1>3
      <4>2. n \in Int
        BY <1>3
      <4> HIDE DEF n
      <4>3. last \in Seq(Tx) /\ Len(last) = 1 /\ last[1] = top
        <5>1. /\ last \in Seq(Tx) /\ Len(last) = IF n <= n THEN n - n + 1 ELSE 0
              /\ \A i \in 1 .. n - n + 1 : last[i] = tx_free_indices[n + i - 1]
          BY <4>1, <4>2, SubSeqProperties
        <5>2. n - n + 1 = 1 /\ n + 1 - 1 = n
          BY <4>2
        <5>3. QED
          BY <4>2, <5>1, <5>2
      <4> HIDE DEF last
      <4>4. last = <<top>>
        BY <1>3, <4>3
      <4>5. QED
        BY <3>1, <4>4 DEF last, n
    <3>4. QED
      BY <3>2, <3>3 DEF k
  <2>2. QED
    BY <2>1
<1>5. PICK t \in Tx : t = top
  BY <1>3
<1>6. PICK e \in Seq(Submission) : e = <<<<"send", t>>>>
  <2> DEFINE s == <<"send", t>>
  <2>1. s \in Submission
    BY WhichSubmission
  <2> HIDE DEF s
  <2>2. <<s>> \in Seq(Submission)
    BY <2>1
  <2>3. QED
    BY <2>2 DEF s
<1> HIDE DEF n, top, rest
<1>7. /\ e # << >>
      /\ \A u \in Tx : Count(e, {<<"send", u>>}) = IF t = u THEN 1 ELSE 0
      /\ \A b \in Buf : Count(e, {<<"provide", b>>}) = 0
      /\ Count(e, {<<"recv">>}) = 0
  <2> DEFINE s == <<"send", t>>
  <2>1. /\ \A u \in Tx : s \in {<<"send", u>>} <=> t = u
        /\ \A b \in Buf : s \notin {<<"provide", b>>}
        /\ s \notin {<<"recv">>}
    BY WhichSubmission
  <2>2. e = <<s>>
    BY <1>6
  <2> HIDE DEF s
  <2>3. QED
    BY <2>1, <2>2, CountOne
<1>8. PushSqes(e)
  BY <1>2, <1>5, <1>6
<1>9. /\ sq' \in Seq(Submission) /\ Len(sq') <= SQ_DEPTH
      /\ sending' \in [Tx -> Nat] /\ provided' \in [Buf -> Nat] /\ armed' \in Nat
      /\ cq' \in Seq(Completion)
      /\ \A u \in Tx : AskedTx(u)' = AskedTx(u) + Count(e, {<<"send", u>>})
      /\ \A b \in Buf : AskedBuf(b)' = AskedBuf(b) + Count(e, {<<"provide", b>>})
      /\ AskedRecv' = AskedRecv + Count(e, {<<"recv">>})
      /\ \A T \in SUBSET Held : Count(cq', T) = Count(cq, T)
  BY <1>1, <1>7, <1>8, PushEffect
<1>10. /\ \A u \in Tx : AskedTx(u) \in Nat /\ Count(tx_free_indices, {u}) \in Nat
       /\ \A b \in Buf : AskedBuf(b) \in Nat
       /\ AskedRecv \in Nat
  BY <1>1, AskedAreNat
<1>11. \A T \in SUBSET Held : Seen(T)' = Seen(T)
  BY <1>2, <1>9 DEF Seen
<1>12. /\ \A u \in Tx : SendOf(u) \in SUBSET Held
       /\ \A b \in Buf : HoldsBuf(b) \in SUBSET Held
       /\ EndsRecv \in SUBSET Held
  BY HeldSets
<1>13. UringTypeOK' /\ PendingInv'
  BY <1>1, <1>2, <1>4, <1>9 DEF UringTypeOK, PendingInv
<1>14. ASSUME NEW u \in Tx
       PROVE  Count(tx_free_indices, {u})' + AskedTx(u)' + Seen(SendOf(u))'
                = Count(tx_free_indices, {u}) + AskedTx(u) + Seen(SendOf(u))
  <2>1. Count(tx_free_indices, {u})' + (IF t = u THEN 1 ELSE 0) = Count(tx_free_indices, {u})
    <3>1. Count(<<t>>, {u}) = IF t = u THEN 1 ELSE 0
      BY CountOne
    <3>2. Count(rest, {u}) + Count(<<t>>, {u}) = Count(tx_free_indices, {u})
      BY <1>4, <1>5
    <3>3. QED
      BY <1>2, <3>1, <3>2
  <2>2. AskedTx(u)' = AskedTx(u) + (IF t = u THEN 1 ELSE 0)
    BY <1>7, <1>9
  <2>3. Seen(SendOf(u))' = Seen(SendOf(u))
    BY <1>11, <1>12
  <2>4. Count(tx_free_indices, {u})' \in Nat
    <3>1. Count(rest, {u}) \in Nat
      BY <1>4, CountType
    <3>2. QED
      BY <1>2, <3>1
  <2>5. Seen(SendOf(u)) \in Nat
    BY <1>1, CountsAreNat
  <2>6. QED
    BY <1>10, <2>1, <2>2, <2>3, <2>4, <2>5
<1>15. ASSUME NEW b \in Buf PROVE AskedBuf(b)' + Seen(HoldsBuf(b))' = AskedBuf(b) + Seen(HoldsBuf(b))
  <2>1. AskedBuf(b)' = AskedBuf(b)
    <3> DEFINE k == Count(e, {<<"provide", b>>})
    <3>1. AskedBuf(b)' = AskedBuf(b) + k /\ k = 0
      BY <1>7, <1>9
    <3> HIDE DEF k
    <3>2. QED
      BY <1>10, <3>1
  <2>2. Seen(HoldsBuf(b))' = Seen(HoldsBuf(b))
    BY <1>11, <1>12
  <2>3. QED
    BY <2>1, <2>2
<1>16. AskedRecv' + Seen(EndsRecv)' = AskedRecv + Seen(EndsRecv)
  <2>1. AskedRecv' = AskedRecv
    BY <1>7, <1>9, <1>10
  <2>2. Seen(EndsRecv)' = Seen(EndsRecv)
    BY <1>11, <1>12
  <2>3. QED
    BY <2>1, <2>2
<1>17. OwnedInv'
  BY <1>14, <1>15, <1>16, SumsKept
<1>18. QED
  BY <1>13, <1>17 DEF UringIInv

(* Every TX item, every receive buffer and the multishot receive is owned   *)
(* exactly once, the completions that the cap on pending_cqes drops         *)
(* included, and the submission queue stays within its depth: for every     *)
(* number of TX items and buffers and every depth of the queues             *)
(* (worker.rs:188-330).                                                     *)
THEOREM UringInvariant == UringSpec => []UringInv
<1>1. UringIInv /\ [UringNext]_uringVars => UringIInv'
  <2> SUFFICES ASSUME UringIInv, [UringNext]_uringVars PROVE UringIInv'
    OBVIOUS
  <2>1. CASE Kernel
    BY <2>1, KernelStep
  <2>2. CASE SubmitAndWait \/ Drain \/ (\E t \in Tx : ProcessSend(t))
               \/ (\E b \in Buf : ProcessProvide(b)) \/ ProcessDone \/ FlushDone
               \/ UNCHANGED uringVars
    BY <2>2, PlainStep
  <2>3. CASE \E b \in Buf, more \in BOOLEAN : ProcessPacket(b, more)
    BY <2>3, PacketStep
  <2>4. CASE ProcessError
    BY <2>4, ErrorStep
  <2>5. CASE FlushSend
    BY <2>5, FlushStep
  <2>6. QED
    BY <2>1, <2>2, <2>3, <2>4, <2>5 DEF UringNext, Loop
<1>2. QED
  BY <1>1, InitUring, UringInvFollows, PTL DEF UringSpec

(* Every step within a pass of the loop brings its end nearer, or is a      *)
(* completion.                                                              *)
LEMMA LoopPassStep ==
  ASSUME UringTypeOK, UringNext, pc \in {"process", "flush"}
  PROVE  \/ StepsLeft' < StepsLeft /\ StepsLeft' \in Nat
         \/ StepsLeft' = StepsLeft /\ Len(cq') = Len(cq) + 1
<1>1. /\ tx_free_indices \in Seq(Tx) /\ pending_cqes \in Seq(Completion) /\ cq \in Seq(Completion)
      /\ Len(tx_free_indices) \in Nat /\ Len(pending_cqes) \in Nat /\ Len(cq) \in Nat
  BY LenProperties DEF UringTypeOK
<1>2. /\ pc = "process" => StepsLeft = 2 * Len(pending_cqes) + Len(tx_free_indices) + 2
      /\ pc = "flush" => StepsLeft = Len(tx_free_indices) + 1
      /\ pc \notin {"process", "flush"} => StepsLeft = 0
  BY DEF StepsLeft
<1>3. /\ pc' = "process" => StepsLeft' = 2 * Len(pending_cqes') + Len(tx_free_indices') + 2
      /\ pc' = "flush" => StepsLeft' = Len(tx_free_indices') + 1
      /\ pc' \notin {"process", "flush"} => StepsLeft' = 0
  BY DEF StepsLeft
<1>4. CASE Kernel
  <2>1. /\ pc' = pc /\ tx_free_indices' = tx_free_indices /\ pending_cqes' = pending_cqes
        /\ \E c \in Completion : cq' = Append(cq, c)
    BY <1>4, WhichSend, WhichPacket, WhichError DEF Kernel, SendDone, Packet, RecvError
  <2>2. Len(cq') = Len(cq) + 1
    BY <1>1, <2>1, AppendProperties
  <2>3. QED
    BY <1>2, <1>3, <2>1, <2>2
<1>5. ASSUME NEW c, Take(c)
      PROVE  pc = "process" /\ Len(pending_cqes') = Len(pending_cqes) - 1 /\ Len(pending_cqes) > 0
  <2>1. pc = "process" /\ pending_cqes # << >> /\ pending_cqes' = Tail(pending_cqes)
    BY <1>5 DEF Take, Rest
  <2>2. Len(Tail(pending_cqes)) = Len(pending_cqes) - 1 /\ Len(pending_cqes) # 0
    BY <1>1, <2>1, HeadTailProperties, EmptySeq
  <2>3. QED
    BY <1>1, <2>1, <2>2
<1>6. ASSUME NEW t \in Tx, ProcessSend(t)
      PROVE  StepsLeft' < StepsLeft /\ StepsLeft' \in Nat
  <2>1. pc' = pc /\ tx_free_indices' = Append(tx_free_indices, t) /\ Take(<<"send", t>>)
    BY <1>6 DEF ProcessSend, Recycle
  <2>2. Len(Append(tx_free_indices, t)) = Len(tx_free_indices) + 1
    BY <1>1, AppendProperties
  <2>3. QED
    BY <1>1, <1>2, <1>3, <1>5, <2>1, <2>2
<1>7. ASSUME NEW c, Take(c), pc' = pc, tx_free_indices' = tx_free_indices
      PROVE  StepsLeft' < StepsLeft /\ StepsLeft' \in Nat
  BY <1>1, <1>2, <1>3, <1>5, <1>7
<1>8. CASE (\E b \in Buf, more \in BOOLEAN : ProcessPacket(b, more)) \/ ProcessError
             \/ (\E b \in Buf : ProcessProvide(b))
  BY <1>7, <1>8 DEF ProcessPacket, ProcessError, ProcessProvide
<1>9. CASE ProcessDone
  <2>1. /\ pc = "process" /\ pc' = "flush" /\ tx_free_indices' = tx_free_indices
    BY <1>9 DEF ProcessDone
  <2>2. QED
    BY <1>1, <1>2, <1>3, <2>1
<1>10. CASE FlushSend
  <2>1. /\ pc = "flush" /\ pc' = "flush" /\ Len(tx_free_indices) > 0
        /\ tx_free_indices' = SubSeq(tx_free_indices, 1, Len(tx_free_indices) - 1)
    BY <1>10 DEF FlushSend
  <2>2. Len(SubSeq(tx_free_indices, 1, Len(tx_free_indices) - 1)) = Len(tx_free_indices) - 1
    <3>1. PICK n \in Nat : n = Len(tx_free_indices)
      BY <1>1
    <3>2. 1 \in Int /\ n - 1 \in Int /\ \A i \in 1 .. n - 1 : tx_free_indices[i] \in Tx
      BY <1>1, <3>1, ElementOfSeq
    <3>3. Len(SubSeq(tx_free_indices, 1, n - 1)) = IF 1 <= n - 1 THEN (n - 1) - 1 + 1 ELSE 0
      BY <3>2, SubSeqProperties
    <3>4. QED
      BY <2>1, <3>1, <3>3
  <2>3. QED
    BY <1>1, <1>2, <1>3, <2>1, <2>2
<1>11. CASE FlushDone
  <2>1. pc = "flush" /\ pc' = "submit"
    BY <1>11 DEF FlushDone
  <2>2. QED
    BY <1>1, <1>2, <1>3, <2>1
<1>12. CASE SubmitAndWait \/ Drain
  BY <1>12 DEF SubmitAndWait, Drain
<1>13. QED
  BY <1>4, <1>6, <1>8, <1>9, <1>10, <1>11, <1>12 DEF UringNext, Loop

(* For every size of the queues and every number of TX items, a pass of the *)
(* loop ends after two steps for each completion it took and one for each   *)
(* TX item, whatever completes meanwhile (worker.rs:433, 503).              *)
THEOREM PassIsBoundedHolds == UringSpec => PassIsBounded
<1>1. UringInv /\ [UringNext]_uringVars
        => [(pc \in {"process", "flush"}) =>
              \/ StepsLeft' < StepsLeft /\ StepsLeft' \in Nat
              \/ StepsLeft' = StepsLeft /\ Len(cq') = Len(cq) + 1
           ]_uringVars
  BY LoopPassStep DEF UringInv
<1>2. QED
  BY <1>1, UringInvariant, PTL DEF UringSpec, PassIsBounded

-----------------------------------------------------------------------------
(* The broadcast: what the chunks hold.                                     *)

(* A finite set of numbers that is not empty has a largest one: the last of *)
(* the sorted ones.                                                         *)
LEMMA LargestExists ==
  ASSUME NEW S \in SUBSET Int, IsFiniteSet(S), S # {}
  PROVE  \E m \in S : \A x \in S : x <= m
<1> DEFINE n == Cardinality(S)
           s == Sorted(S)
<1>1. /\ n \in Nat /\ s \in [1 .. n -> S]
      /\ \A i, j \in 1 .. n : i < j => s[i] < s[j]
      /\ \A x \in S : \E k \in 1 .. n : s[k] = x
  BY SortedProperties
<1>2. n # 0
  BY FS_EmptySet
<1> HIDE DEF n, s
<1>3. n \in 1 .. n
  BY <1>1, <1>2
<1>4. ASSUME NEW x \in S PROVE x <= s[n]
  <2>1. PICK k \in 1 .. n : s[k] = x
    BY <1>1
  <2>2. s[n] \in Int /\ x \in Int
    BY <1>1, <1>3
  <2>3. CASE k = n
    BY <2>1, <2>2, <2>3
  <2>4. CASE k < n
    <3>1. s[k] < s[n]
      BY <1>1, <1>3, <2>4
    <3>2. QED
      BY <2>1, <2>2, <3>1
  <2>5. QED
    BY <1>1, <2>3, <2>4
<1>5. QED
  BY <1>1, <1>3, <1>4

(* The number of chunks: every item is in one of them. *)
LEMMA ChunkOfItem ==
  ASSUME NEW n \in Nat \ {0}, NEW len \in Nat, NEW j \in 1 .. len
  PROVE  ((j - 1) \div n) + 1 \in 1 .. ((len + n - 1) \div n)
<1> DEFINE a == (j - 1) \div n
           m == (len + n - 1) \div n
           r == (j - 1) % n
           s == (len + n - 1) % n
<1>1. j - 1 \in Int /\ len + n - 1 \in Int
  OBVIOUS
<1>2. a \in Int /\ m \in Int /\ j - 1 = n * a + r /\ len + n - 1 = n * m + s
  BY <1>1, DivMod, Zenon
<1>3. r \in 0 .. n - 1 /\ s \in 0 .. n - 1
  BY <1>1, ModRange, Zenon
<1> HIDE DEF a, m, r, s
<1> DEFINE na == n * a
           nm == n * m
<1>4. na \in Int /\ nm \in Int
  BY <1>2
<1>5. ~ (a < 0)
  <2>1. a < 0 => n * a <= - n
    BY <1>2
  <2>2. QED
    BY <1>2, <1>3, <2>1
<1>6. ~ (a >= m)
  <2>1. a >= m => n * a >= n * m
    BY <1>2
  <2> HIDE DEF na, nm
  <2>2. a >= m => na >= nm
    BY <2>1 DEF na, nm
  <2>3. j - 1 = na + r /\ len + n - 1 = nm + s
    BY <1>2 DEF na, nm
  <2>4. QED
    BY <1>3, <1>4, <2>2, <2>3
<1>7. a + 1 \in 1 .. m
  BY <1>2, <1>5, <1>6
<1>8. QED
  BY <1>7 DEF a, m

LEMMA ChunkNumber ==
  ASSUME NEW n \in Nat \ {0}, NEW len \in Nat
  PROVE  (len + n - 1) \div n \in Nat
<1> DEFINE m == (len + n - 1) \div n
           s == (len + n - 1) % n
<1>1. len + n - 1 \in Int
  OBVIOUS
<1>2. m \in Int /\ len + n - 1 = n * m + s
  BY <1>1, DivMod, Zenon
<1>3. s \in 0 .. n - 1
  BY <1>1, ModRange, Zenon
<1> HIDE DEF m, s
<1>4. ~ (m < 0)
  <2>1. m < 0 => n * m <= - n
    BY <1>2
  <2>2. QED
    BY <1>2, <1>3, <2>1
<1>5. QED
  BY <1>2, <1>4 DEF m

(* What a sequence of chunks about the cells of A, each with its colour in  *)
(* canvas, is.                                                              *)
Cover(chunks, A, canvas) ==
  /\ chunks \in Seq(Chunk)
  /\ \A k \in DOMAIN chunks : \A i \in DOMAIN chunks[k] : i \in A /\ chunks[k][i] = canvas[i]
  /\ \A i \in A : \E k \in DOMAIN chunks : i \in DOMAIN chunks[k]

(* Cutting items into chunks neither loses an item nor adds one. *)
LEMMA ChunksCover ==
  ASSUME NEW len \in Nat, NEW items, items \in [1 .. len -> SUBSET Cell],
         NEW n \in Nat \ {0}, NEW canvas \in Canvas
  PROVE  Cover(Chunks(items, n, canvas), UNION {items[j] : j \in 1 .. len}, canvas)
<1> DEFINE Cells(k) == UNION {items[j] : j \in {i \in DOMAIN items : (i - 1) \div n = k - 1}}
           m == (len + n - 1) \div n
           A == UNION {items[j] : j \in 1 .. len}
           chunks == Chunks(items, n, canvas)
<1>1. DOMAIN items = 1 .. len /\ Len(items) = len /\ m \in Nat
  BY ChunkNumber
<1>2. chunks = [k \in 1 .. m |-> [i \in Cells(k) |-> canvas[i]]]
  BY <1>1 DEF Chunks
<1>3. \A k : Cells(k) \in SUBSET A /\ Cells(k) \in SUBSET Cell
  BY <1>1
<1>4. \A k : \A i : i \in Cells(k) <=> \E j \in 1 .. len : (j - 1) \div n = k - 1 /\ i \in items[j]
  BY <1>1
<1> HIDE DEF Cells, m, chunks
<1>5. \A k \in 1 .. m : chunks[k] \in Chunk
  <2> TAKE k \in 1 .. m
  <2> DEFINE D == Cells(k)
  <2>1. D \in SUBSET Cell
    BY <1>3
  <2>2. chunks[k] = [i \in D |-> canvas[i]]
    BY <1>2
  <2> HIDE DEF D
  <2>3. chunks[k] \in [D -> Color]
    BY <2>1, <2>2 DEF Canvas
  <2>4. QED
    BY <2>1, <2>3 DEF Chunk
<1>6. chunks \in Seq(Chunk) /\ DOMAIN chunks = 1 .. m
  BY <1>1, <1>2, <1>5
<1>7. ASSUME NEW k \in DOMAIN chunks, NEW i \in DOMAIN chunks[k]
      PROVE  i \in A /\ chunks[k][i] = canvas[i]
  BY <1>2, <1>3, <1>6
<1>8. ASSUME NEW i \in A PROVE \E k \in DOMAIN chunks : i \in DOMAIN chunks[k]
  <2>1. PICK j \in 1 .. len : i \in items[j]
    OBVIOUS
  <2> DEFINE k == ((j - 1) \div n) + 1
  <2>2. k \in 1 .. m
    BY ChunkOfItem DEF m
  <2>3. k - 1 = (j - 1) \div n
    <3>1. (j - 1) \div n \in Int
      BY DivMod
    <3>2. QED
      BY <3>1
  <2> HIDE DEF k
  <2>4. i \in Cells(k)
    BY <1>4, <2>1, <2>3
  <2>5. QED
    BY <1>2, <1>6, <2>2, <2>4
<1>9. QED
  BY <1>6, <1>7, <1>8 DEF Cover, chunks

(* A full broadcast is about every cell: a cell belongs to the run that     *)
(* starts last before it.                                                   *)
LEMMA FullCovers ==
  ASSUME NEW new \in Canvas
  PROVE  Cover(FullChunks(new), Cell, new)
<1> DEFINE S == {i \in Cell : i = 1 \/ new[i] # new[i - 1]}
           n == Cardinality(S)
           starts == Sorted(S)
           End(k) == IF k = n THEN CANVAS_SIZE ELSE starts[k + 1] - 1
           items == [k \in 1 .. n |-> starts[k] .. End(k)]
<1>1. CANVAS_SIZE \in Nat \ {0} /\ RUNS_PER_CHUNK \in Nat \ {0}
  BY BroadcastAssumption
<1>2. S \in SUBSET Cell /\ 1 \in S /\ \A i \in Cell : i \in 1 .. CANVAS_SIZE
  BY <1>1 DEF Cell
<1>3. IsFiniteSet(Cell)
  BY <1>1, FS_Interval DEF Cell
<1>4. IsFiniteSet(S) /\ S \in SUBSET Int
  BY <1>1, <1>2, <1>3, FS_Subset
<1> HIDE DEF S
<1>5. /\ n \in Nat /\ starts \in [1 .. n -> S]
      /\ \A i, j \in 1 .. n : i < j => starts[i] < starts[j]
      /\ \A x \in S : \E k \in 1 .. n : starts[k] = x
  BY <1>4, SortedProperties
<1>6. DOMAIN starts = 1 .. n /\ Len(starts) = n
  BY <1>5
<1>7. FullChunks(new) = Chunks(items, RUNS_PER_CHUNK, new)
  BY <1>6 DEF FullChunks, RunStarts, S
<1> HIDE DEF n, starts
<1>8. \A k \in 1 .. n : starts[k] \in 1 .. CANVAS_SIZE
  BY <1>2, <1>5
<1>9. \A k \in 1 .. n : End(k) \in Int /\ End(k) <= CANVAS_SIZE
  <2> TAKE k \in 1 .. n
  <2>1. CASE k = n
    BY <1>1, <2>1
  <2>2. CASE k # n
    <3>1. k + 1 \in 1 .. n
      BY <1>5, <2>2
    <3>2. starts[k + 1] \in 1 .. CANVAS_SIZE
      BY <1>8, <3>1
    <3>3. QED
      BY <1>1, <2>2, <3>2
  <2>3. QED
    BY <2>1, <2>2
<1>10. \A k \in 1 .. n : starts[k] .. End(k) \in SUBSET Cell
  BY <1>1, <1>8, <1>9 DEF Cell
<1>11. items \in [1 .. n -> SUBSET Cell]
  BY <1>10
<1>12. ASSUME NEW i \in Cell PROVE \E k \in 1 .. n : i \in items[k]
  <2> DEFINE B == {s \in S : s <= i}
  <2>1. B \in SUBSET S /\ 1 \in B /\ i \in 1 .. CANVAS_SIZE /\ i \in Int
    BY <1>1, <1>2
  <2>2. IsFiniteSet(B) /\ B \in SUBSET Int /\ B # {}
    BY <1>4, <2>1, FS_Subset
  <2>3. \A x : x \in B <=> x \in S /\ x <= i
    OBVIOUS
  <2> HIDE DEF B
  <2>4. PICK m \in B : \A x \in B : x <= m
    BY <2>2, LargestExists
  <2>5. PICK k \in 1 .. n : starts[k] = m
    BY <1>5, <2>3, <2>4
  <2>6. m <= i /\ m \in Int
    BY <2>2, <2>3, <2>4
  <2>7. i <= End(k)
    <3>1. CASE k = n
      BY <2>1, <3>1
    <3>2. CASE k # n
      <4>1. k + 1 \in 1 .. n /\ k < k + 1
        BY <1>5, <3>2
      <4>2. starts[k] < starts[k + 1] /\ starts[k + 1] \in S /\ starts[k + 1] \in Int
        BY <1>4, <1>5, <4>1
      <4>3. ~ (starts[k + 1] <= i)
        <5>1. starts[k + 1] <= i => starts[k + 1] <= m
          BY <2>3, <2>4, <4>2
        <5>2. QED
          BY <2>5, <2>6, <4>2, <5>1
      <4>4. QED
        BY <2>1, <3>2, <4>2, <4>3
    <3>3. QED
      BY <3>1, <3>2
  <2>8. i \in starts[k] .. End(k)
    BY <1>9, <2>1, <2>5, <2>6, <2>7
  <2>9. QED
    BY <2>8
<1> HIDE DEF items, End
<1>13. UNION {items[k] : k \in 1 .. n} = Cell
  BY <1>11, <1>12
<1>14. Cover(Chunks(items, RUNS_PER_CHUNK, new), UNION {items[k] : k \in 1 .. n}, new)
  BY <1>1, <1>5, <1>11, ChunksCover
<1>15. QED
  BY <1>7, <1>13, <1>14

(* A diff is about the cells that have changed. *)
LEMMA DiffCovers ==
  ASSUME NEW new \in Canvas, NEW old \in Canvas
  PROVE  Cover(DiffChunks(new, old), {i \in Cell : old[i] # new[i]}, new)
<1> DEFINE S == {i \in Cell : old[i] # new[i]}
           n == Cardinality(S)
           changed == Sorted(S)
           items == [k \in 1 .. n |-> {changed[k]}]
<1>1. CANVAS_SIZE \in Nat \ {0} /\ ENTRIES_PER_CHUNK \in Nat \ {0}
  BY BroadcastAssumption
<1>2. IsFiniteSet(Cell) /\ Cell \in SUBSET Int
  BY <1>1, FS_Interval DEF Cell
<1>3. S \in SUBSET Cell
  OBVIOUS
<1> HIDE DEF S
<1>4. IsFiniteSet(S) /\ S \in SUBSET Int
  BY <1>2, <1>3, FS_Subset
<1>5. /\ n \in Nat /\ changed \in [1 .. n -> S]
      /\ \A x \in S : \E k \in 1 .. n : changed[k] = x
  BY <1>4, SortedProperties
<1>6. DOMAIN changed = 1 .. n
  BY <1>5
<1>7. DiffChunks(new, old) = Chunks(items, ENTRIES_PER_CHUNK, new)
  BY <1>6 DEF DiffChunks, Changed, S
<1> HIDE DEF n, changed
<1>8. items \in [1 .. n -> SUBSET Cell]
  BY <1>3, <1>5
<1>9. UNION {items[k] : k \in 1 .. n} = S
  BY <1>5
<1> HIDE DEF items
<1>10. Cover(Chunks(items, ENTRIES_PER_CHUNK, new), UNION {items[k] : k \in 1 .. n}, new)
  BY <1>1, <1>5, <1>8, ChunksCover
<1>11. QED
  BY <1>7, <1>9, <1>10 DEF S

-----------------------------------------------------------------------------
(* The broadcast: what the clients will show.                               *)

(* Chunks added to the queue: those about cells A, with the colours of new, *)
(* where the rest of the cells is the same in the old goal and the new.     *)
LEMMA ShowMore ==
  ASSUME NEW canvas, NEW q \in Seq(Chunk), NEW chunks, NEW A \in SUBSET Cell,
         NEW old, NEW new, Cover(chunks, A, new),
         \A i \in Cell : i \in A \/ (old[i] = new[i] /\ WillShow(canvas, q, old))
  PROVE  WillShow(canvas, q \o chunks, new)
<1> DEFINE m == Len(q)
           n == Len(chunks)
           r == q \o chunks
<1>1. chunks \in Seq(Chunk) /\ m \in Nat /\ n \in Nat /\ DOMAIN q = 1 .. m /\ DOMAIN chunks = 1 .. n
  BY LenProperties DEF Cover
<1>2. /\ DOMAIN r = 1 .. m + n
      /\ \A k \in 1 .. m + n : r[k] = IF k <= m THEN q[k] ELSE chunks[k - m]
  <2>1. /\ r \in Seq(Chunk) /\ Len(r) = m + n
        /\ \A k \in 1 .. m + n : r[k] = IF k <= m THEN q[k] ELSE chunks[k - m]
    BY <1>1, ConcatProperties
  <2>2. QED
    BY <2>1, LenProperties
<1> HIDE DEF m, n, r
<1>3. \A k \in 1 .. m : k \in 1 .. m + n /\ r[k] = q[k]
  BY <1>1, <1>2
<1>4. \A k \in 1 .. n : k + m \in 1 .. m + n /\ r[k + m] = chunks[k]
  BY <1>1, <1>2
<1>5. \A k \in 1 .. m + n : k \in 1 .. m \/ (k - m \in 1 .. n /\ r[k] = chunks[k - m])
  BY <1>1, <1>2
<1>6. ASSUME NEW i \in Cell, \A k \in DOMAIN r : i \notin DOMAIN r[k]
      PROVE  canvas[i] = new[i]
  <2>1. \A k \in DOMAIN chunks : i \notin DOMAIN chunks[k]
    BY <1>1, <1>2, <1>4, <1>6
  <2>2. i \notin A
    BY <2>1 DEF Cover
  <2>3. \A k \in DOMAIN q : i \notin DOMAIN q[k]
    BY <1>1, <1>2, <1>3, <1>6
  <2>4. QED
    BY <2>2, <2>3 DEF WillShow
<1>7. ASSUME NEW i \in Cell, NEW k \in DOMAIN r, LastAbout(r, k, i)
      PROVE  r[k][i] = new[i]
  <2>1. i \in DOMAIN r[k] /\ \A j \in DOMAIN r : j > k => i \notin DOMAIN r[j]
    BY <1>7 DEF LastAbout
  <2>2. CASE k \in 1 .. m
    <3>1. \A j \in 1 .. n : j + m > k /\ j + m \in DOMAIN r
      BY <1>1, <1>2, <1>4, <2>2
    <3>2. \A j \in DOMAIN chunks : i \notin DOMAIN chunks[j]
      BY <1>1, <1>4, <2>1, <3>1
    <3>3. i \notin A
      BY <3>2 DEF Cover
    <3>4. LastAbout(q, k, i)
      BY <1>1, <1>2, <1>3, <2>1, <2>2 DEF LastAbout
    <3>5. q[k][i] = old[i]
      BY <1>1, <2>2, <3>3, <3>4 DEF WillShow
    <3>6. QED
      BY <1>3, <2>2, <3>3, <3>5
  <2>3. CASE k - m \in 1 .. n /\ r[k] = chunks[k - m]
    <3>1. i \in DOMAIN chunks[k - m] /\ k - m \in DOMAIN chunks
      BY <1>1, <2>1, <2>3
    <3>2. QED
      BY <2>3, <3>1 DEF Cover
  <2>4. QED
    BY <1>2, <1>5, <2>2, <2>3
<1>8. QED
  BY <1>6, <1>7 DEF WillShow, r

(* The first chunk of the queue reaches the client. *)
LEMMA ShowFirst ==
  ASSUME NEW canvas, NEW q \in Seq(Chunk), NEW t \in Seq(Chunk), NEW goal,
         Len(q) = Len(t) + 1, \A k \in 1 .. Len(t) : t[k] = q[k + 1],
         WillShow(canvas, q, goal)
  PROVE  WillShow(Applied(canvas, q[1]), t, goal)
<1> DEFINE n == Len(t)
           after == Applied(canvas, q[1])
<1>1. n \in Nat /\ DOMAIN t = 1 .. n /\ DOMAIN q = 1 .. n + 1
  BY LenProperties
<1>2. \A i \in Cell : after[i] = IF i \in DOMAIN q[1] THEN q[1][i] ELSE canvas[i]
  BY DEF Applied
<1> HIDE DEF n, after
<1>3. \A k \in 1 .. n : k + 1 \in 1 .. n + 1 /\ t[k] = q[k + 1]
  BY <1>1 DEF n
<1>4. \A j \in 1 .. n + 1 : j = 1 \/ (j - 1 \in 1 .. n /\ t[j - 1] = q[j])
  <2> TAKE j \in 1 .. n + 1
  <2>1. CASE j = 1
    BY <2>1
  <2>2. CASE j # 1
    <3>1. j - 1 \in 1 .. n /\ (j - 1) + 1 = j
      BY <1>1, <2>2
    <3>2. QED
      BY <1>3, <3>1
  <2>3. QED
    BY <2>1, <2>2
<1>5. ASSUME NEW i \in Cell, \A k \in DOMAIN t : i \notin DOMAIN t[k]
      PROVE  after[i] = goal[i]
  <2>1. ASSUME NEW j \in DOMAIN q, j > 1 PROVE i \notin DOMAIN q[j]
    <3>1. j - 1 \in DOMAIN t /\ t[j - 1] = q[j]
      BY <1>1, <1>4, <2>1
    <3>2. QED
      BY <1>5, <3>1
  <2>2. 1 \in DOMAIN q
    BY <1>1
  <2>3. CASE i \in DOMAIN q[1]
    <3>1. LastAbout(q, 1, i)
      BY <2>1, <2>3 DEF LastAbout
    <3>2. q[1][i] = goal[i]
      BY <2>2, <3>1 DEF WillShow
    <3>3. QED
      BY <1>2, <2>3, <3>2
  <2>4. CASE i \notin DOMAIN q[1]
    <3>1. \A j \in DOMAIN q : i \notin DOMAIN q[j]
      BY <1>1, <1>4, <1>5, <2>4
    <3>2. canvas[i] = goal[i]
      BY <3>1 DEF WillShow
    <3>3. QED
      BY <1>2, <2>4, <3>2
  <2>5. QED
    BY <2>3, <2>4
<1>6. ASSUME NEW i \in Cell, NEW k \in DOMAIN t, LastAbout(t, k, i)
      PROVE  t[k][i] = goal[i]
  <2>1. i \in DOMAIN t[k] /\ \A j \in DOMAIN t : j > k => i \notin DOMAIN t[j]
    BY <1>6 DEF LastAbout
  <2>2. k + 1 \in DOMAIN q /\ t[k] = q[k + 1]
    BY <1>1, <1>3
  <2>3. \A j \in DOMAIN q : j > k + 1 => i \notin DOMAIN q[j]
    <3> TAKE j \in DOMAIN q
    <3> HAVE j > k + 1
    <3>1. j # 1 /\ j - 1 > k
      BY <1>1
    <3>2. j - 1 \in DOMAIN t /\ t[j - 1] = q[j]
      BY <1>1, <1>4, <3>1
    <3>3. QED
      BY <2>1, <3>1, <3>2
  <2>4. LastAbout(q, k + 1, i)
    BY <2>1, <2>2, <2>3 DEF LastAbout
  <2>5. QED
    BY <2>2, <2>4 DEF WillShow
<1>7. QED
  BY <1>5, <1>6 DEF WillShow, after

(* flush_outgoing moves datagrams from the queue to the wire: the window is *)
(* kept, and together they stay what they were.                             *)
LEMMA FlushEffect ==
  ASSUME TypeOK, NEW queues \in [Client -> Seq(Chunk)], Flush(queues),
         \A c \in Client : Len(queues[c]) <= QUIC_DGRAM_QUEUE_LEN
  PROVE  /\ wire' \in [Client -> Seq(Chunk)] /\ dgrams' \in [Client -> Seq(Chunk)]
         /\ awake' \in BOOLEAN
         /\ \A c \in Client : /\ Len(wire'[c]) <= WINDOW
                              /\ Len(dgrams'[c]) <= QUIC_DGRAM_QUEUE_LEN
                              /\ wire'[c] \o dgrams'[c] = wire[c] \o queues[c]
<1> DEFINE Room(c) == WINDOW - Len(wire[c])
           n == [c \in Client |-> IF Len(queues[c]) < Room(c) THEN Len(queues[c]) ELSE Room(c)]
<1>1. /\ wire' = [c \in Client |-> wire[c] \o SubSeq(queues[c], 1, n[c])]
      /\ dgrams' = [c \in Client |-> SubSeq(queues[c], n[c] + 1, Len(queues[c]))]
      /\ awake' = \E c \in Client : n[c] > 0
  BY DEF Flush
<1>2. awake' \in BOOLEAN
  BY <1>1
<1>3. wire \in [Client -> Seq(Chunk)] /\ \A c \in Client : Len(wire[c]) <= WINDOW
  BY DEF TypeOK
<1>4. WINDOW \in Nat /\ QUIC_DGRAM_QUEUE_LEN \in Nat
  BY BroadcastAssumption
<1>5. ASSUME NEW c \in Client
      PROVE  /\ wire'[c] \in Seq(Chunk) /\ dgrams'[c] \in Seq(Chunk)
             /\ Len(wire'[c]) <= WINDOW
             /\ Len(dgrams'[c]) <= QUIC_DGRAM_QUEUE_LEN
             /\ wire'[c] \o dgrams'[c] = wire[c] \o queues[c]
  <2> DEFINE w == wire[c]
             q == queues[c]
             k == n[c]
             a == SubSeq(q, 1, k)
             b == SubSeq(q, k + 1, Len(q))
  <2>1. w \in Seq(Chunk) /\ q \in Seq(Chunk) /\ Len(w) <= WINDOW /\ Len(q) <= QUIC_DGRAM_QUEUE_LEN
    BY <1>3
  <2>2. Len(w) \in Nat /\ Len(q) \in Nat
    BY <2>1, LenProperties
  <2>3. k = IF Len(q) < WINDOW - Len(w) THEN Len(q) ELSE WINDOW - Len(w)
    OBVIOUS
  <2>4. wire'[c] = w \o a /\ dgrams'[c] = b
    BY <1>1
  <2> HIDE DEF w, q, k, n
  <2>5. k \in 0 .. Len(q) /\ Len(w) + k <= WINDOW
    BY <1>4, <2>1, <2>2, <2>3
  <2>6. a \in Seq(Chunk) /\ Len(a) = k /\ b \in Seq(Chunk) /\ Len(b) = Len(q) - k
    BY <2>1, <2>5, CountSplit
  <2>7. a \o b = q
    <3>1. 1 \in 1 .. Len(q) + 1 /\ k \in 1 - 1 .. Len(q) /\ Len(q) \in k .. Len(q)
      BY <2>2, <2>5
    <3>2. SubSeq(q, 1, k) \o SubSeq(q, k + 1, Len(q)) = SubSeq(q, 1, Len(q))
      BY <2>1, <3>1, ConcatAdjacentSubSeq
    <3>3. SubSeq(q, 1, Len(q)) = q
      BY <2>1, SubSeqFull
    <3>4. QED
      BY <3>2, <3>3
  <2> HIDE DEF a, b
  <2>8. w \o a \in Seq(Chunk) /\ Len(w \o a) = Len(w) + Len(a)
    BY <2>1, <2>6, ConcatProperties
  <2>9. (w \o a) \o b = w \o (a \o b)
    <3>1. \A x, y, z \in Seq(Chunk) : (x \o y) \o z = x \o (y \o z)
      BY ConcatAssociative
    <3>2. QED
      BY <2>1, <2>6, <3>1
  <2>10. Len(b) <= QUIC_DGRAM_QUEUE_LEN /\ Len(w \o a) <= WINDOW
    BY <1>4, <2>1, <2>2, <2>5, <2>6, <2>8
  <2>11. QED
    BY <2>4, <2>6, <2>7, <2>8, <2>9, <2>10 DEF w, q
<1>6. wire' \in [Client -> Seq(Chunk)] /\ dgrams' \in [Client -> Seq(Chunk)]
  <2>1. DOMAIN wire' = Client /\ DOMAIN dgrams' = Client
    BY <1>1
  <2>2. wire' = [c \in Client |-> wire'[c]] /\ dgrams' = [c \in Client |-> dgrams'[c]]
    BY <1>1
  <2>3. QED
    BY <1>5, <2>2
<1>7. QED
  BY <1>2, <1>5, <1>6

(* dgram_send keeps the queue within its limit, and adds all chunks if they *)
(* fit.                                                                     *)
LEMMA EnqueueEffect ==
  ASSUME NEW q \in Seq(Chunk), Len(q) <= QUIC_DGRAM_QUEUE_LEN, NEW chunks \in Seq(Chunk)
  PROVE  /\ Enqueue(q, chunks) \in Seq(Chunk)
         /\ Len(Enqueue(q, chunks)) <= QUIC_DGRAM_QUEUE_LEN
         /\ Fits(q, chunks) => Enqueue(q, chunks) = q \o chunks
<1> DEFINE r == q \o chunks
           N == QUIC_DGRAM_QUEUE_LEN
<1>1. N \in Nat /\ Len(q) \in Nat /\ Len(chunks) \in Nat
  BY BroadcastAssumption, LenProperties
<1>2. r \in Seq(Chunk) /\ Len(r) = Len(q) + Len(chunks)
  BY ConcatProperties
<1>3. Fits(q, chunks) <=> Len(r) <= N
  BY <1>2 DEF Fits
<1>4. Enqueue(q, chunks) = IF Fits(q, chunks) THEN r ELSE SubSeq(r, 1, N)
  BY DEF Enqueue
<1> HIDE DEF r, N
<1>5. CASE Fits(q, chunks)
  BY <1>2, <1>3, <1>4, <1>5 DEF r, N
<1>6. CASE ~ Fits(q, chunks)
  <2>1. N \in 0 .. Len(r)
    BY <1>1, <1>2, <1>3, <1>6
  <2>2. SubSeq(r, 1, N) \in Seq(Chunk) /\ Len(SubSeq(r, 1, N)) = N
    BY <1>2, <2>1, CountSplit
  <2>3. QED
    BY <1>1, <1>4, <1>6, <2>2 DEF N
<1>7. QED
  BY <1>5, <1>6

(* What a connection takes of the chunks are chunks. *)
LEMMA AcceptedType ==
  ASSUME NEW c, NEW chunks \in Seq(Chunk), NEW short
  PROVE  Accepted(c, chunks, short) \in Seq(Chunk)
<1>1. << >> \in Seq(Chunk)
  BY EmptySeq
<1>2. ASSUME chunks # << >> PROVE <<chunks[Len(chunks)]>> \in Seq(Chunk)
  <2>1. Len(chunks) \in 1 .. Len(chunks)
    BY <1>2, LenProperties, EmptySeq
  <2>2. chunks[Len(chunks)] \in Chunk
    BY <2>1, ElementOfSeq
  <2>3. QED
    BY <2>2
<1>3. QED
  BY <1>1, <1>2 DEF Accepted

(* The counter of broadcasts stays below twice the interval. *)
LEMMA TicksInRange ==
  ASSUME NEW t \in 0 .. 2 * FULL_BROADCAST_INTERVAL - 1
  PROVE  NextTicks(t) \in 0 .. 2 * FULL_BROADCAST_INTERVAL - 1
<1>1. FULL_BROADCAST_INTERVAL \in Nat \ {0}
  BY BroadcastAssumption
<1>2. QED
  BY <1>1 DEF NextTicks

(* The parts of the types that several steps need. *)
LEMMA BroadcastTypes ==
  ASSUME TypeOK
  PROVE  /\ snapshot \in Canvas /\ last_sent_canvas \in Canvas
         /\ dgrams \in [Client -> Seq(Chunk)] /\ wire \in [Client -> Seq(Chunk)]
         /\ view \in [Client -> [Cell -> Color \cup {Unknown}]]
         /\ \A c \in Client : Len(wire[c]) <= WINDOW /\ Len(dgrams[c]) <= QUIC_DGRAM_QUEUE_LEN
         /\ in_step \in [Client -> BOOLEAN]
BY DEF TypeOK

(* A pass that finds a new snapshot.  A client that gets all of a full      *)
(* broadcast will show it; one that was in step will after a diff, since    *)
(* the diff is about every cell in which the two canvases differ.           *)
LEMMA PassBroadcastStep ==
  ASSUME BroadcastInv, PassBroadcast
  PROVE  BroadcastInv'
<1> DEFINE ticks == NextTicks(broadcast_ticks)
           full == should_broadcast_full(ticks)
           chunks == IF full THEN FullChunks(snapshot) ELSE DiffChunks(snapshot, last_sent_canvas)
           short == IF full
                    THEN Cardinality(RunStarts(snapshot)) % RUNS_PER_CHUNK # 0
                    ELSE Cardinality(Changed(snapshot, last_sent_canvas)) % ENTRIES_PER_CHUNK # 0
           taken == [c \in Client |-> Accepted(c, chunks, short)]
           queues == [c \in Client |->
                        IF c \in connected THEN Enqueue(dgrams[c], taken[c]) ELSE dgrams[c]]
           A == IF full THEN Cell ELSE {i \in Cell : last_sent_canvas[i] # snapshot[i]}
<1>1. TypeOK /\ DiffBaseIsClientView
  BY DEF BroadcastInv
<1>2. /\ snapshot \in Canvas /\ last_sent_canvas \in Canvas
      /\ dgrams \in [Client -> Seq(Chunk)] /\ wire \in [Client -> Seq(Chunk)]
      /\ \A c \in Client : Len(wire[c]) <= WINDOW /\ Len(dgrams[c]) <= QUIC_DGRAM_QUEUE_LEN
  BY <1>1, BroadcastTypes
<1>3. /\ broadcast_ticks' = ticks
      /\ last_broadcast_index' = active
      /\ news' = FALSE /\ missed' = FALSE
      /\ last_sent_canvas' = snapshot
      /\ Flush(queues)
      /\ in_step' = [c \in Client |->
                       /\ c \in connected
                       /\ taken[c] = chunks
                       /\ Fits(dgrams[c], chunks)
                       /\ full \/ in_step[c]]
      /\ UNCHANGED <<snapshot, active, connected, narrow, view>>
  <2>1. /\ broadcast_ticks' = ticks
        /\ last_broadcast_index' = active
        /\ news' = FALSE /\ missed' = FALSE
        /\ last_sent_canvas' = snapshot
        /\ UNCHANGED <<snapshot, active, connected, narrow, view>>
    BY DEF PassBroadcast, LastSent, pubVars, clientVars
  <2>2. \A c \in Client : taken[c] = Accepted(c, chunks, short)
    BY DEF taken
  <2>3. queues = [c \in Client |->
                    IF c \in connected THEN Enqueue(dgrams[c], Accepted(c, chunks, short))
                    ELSE dgrams[c]]
    BY <2>2
  <2>4. Flush([c \in Client |->
                 IF c \in connected THEN Enqueue(dgrams[c], Accepted(c, chunks, short))
                 ELSE dgrams[c]])
    BY DEF PassBroadcast
  <2>5. in_step' = [c \in Client |->
                      /\ c \in connected
                      /\ Accepted(c, chunks, short) = chunks
                      /\ Fits(dgrams[c], chunks)
                      /\ full \/ in_step[c]]
    BY DEF PassBroadcast
  <2>6. QED
    BY <2>1, <2>2, <2>3, <2>4, <2>5, Zenon
<1>4. ticks \in 0 .. 2 * FULL_BROADCAST_INTERVAL - 1
  BY <1>1, TicksInRange DEF TypeOK
<1>5. Cover(chunks, A, snapshot) /\ A \in SUBSET Cell
  BY <1>2, FullCovers, DiffCovers
<1>6. \A i \in Cell : i \in A \/ (~ full /\ last_sent_canvas[i] = snapshot[i])
  OBVIOUS
<1> HIDE DEF ticks, full, chunks, short, A
<1>7. chunks \in Seq(Chunk) /\ taken \in [Client -> Seq(Chunk)]
  <2>1. chunks \in Seq(Chunk)
    BY <1>5 DEF Cover
  <2>2. QED
    BY <2>1, AcceptedType
<1> HIDE DEF taken
<1>8. \A c \in Client : /\ Enqueue(dgrams[c], taken[c]) \in Seq(Chunk)
                        /\ Len(Enqueue(dgrams[c], taken[c])) <= QUIC_DGRAM_QUEUE_LEN
                        /\ Fits(dgrams[c], taken[c]) => Enqueue(dgrams[c], taken[c]) = dgrams[c] \o taken[c]
  BY <1>2, <1>7, EnqueueEffect
<1>9. /\ queues \in [Client -> Seq(Chunk)]
      /\ \A c \in Client : Len(queues[c]) <= QUIC_DGRAM_QUEUE_LEN
      /\ \A c \in Client : c \in connected /\ taken[c] = chunks /\ Fits(dgrams[c], chunks)
                            => queues[c] = dgrams[c] \o chunks
  BY <1>2, <1>8
<1> HIDE DEF queues
<1>10. /\ wire' \in [Client -> Seq(Chunk)] /\ dgrams' \in [Client -> Seq(Chunk)]
       /\ awake' \in BOOLEAN
       /\ \A c \in Client : /\ Len(wire'[c]) <= WINDOW
                            /\ Len(dgrams'[c]) <= QUIC_DGRAM_QUEUE_LEN
                            /\ wire'[c] \o dgrams'[c] = wire[c] \o queues[c]
  <2>1. PICK qs \in [Client -> Seq(Chunk)] : qs = queues
    BY <1>9
  <2>2. Flush(qs) /\ \A c \in Client : Len(qs[c]) <= QUIC_DGRAM_QUEUE_LEN
    BY <1>3, <1>9, <2>1
  <2>3. /\ wire' \in [Client -> Seq(Chunk)] /\ dgrams' \in [Client -> Seq(Chunk)]
        /\ awake' \in BOOLEAN
        /\ \A c \in Client : /\ Len(wire'[c]) <= WINDOW
                             /\ Len(dgrams'[c]) <= QUIC_DGRAM_QUEUE_LEN
                             /\ wire'[c] \o dgrams'[c] = wire[c] \o qs[c]
    BY <1>1, <2>2, FlushEffect
  <2>4. QED
    BY <2>1, <2>3
<1>11. in_step' \in [Client -> BOOLEAN]
  <2>1. full \in BOOLEAN
    BY DEF full, should_broadcast_full
  <2>2. \A c \in Client : Fits(dgrams[c], chunks) \in BOOLEAN /\ in_step[c] \in BOOLEAN
    BY <1>1, BroadcastTypes DEF Fits
  <2>3. QED
    BY <1>3, <2>1, <2>2, Zenon
<1>12. TypeOK'
  <2>1. /\ {awake', news', missed'} \subseteq BOOLEAN
        /\ {active', last_broadcast_index'} \subseteq Slot
    BY <1>1, <1>3, <1>10 DEF TypeOK
  <2>2. {snapshot', last_sent_canvas'} \subseteq Canvas
    BY <1>2, <1>3
  <2>3. {connected', narrow'} \subseteq SUBSET Client /\ view' \in [Client -> [Cell -> Color \cup {Unknown}]]
    BY <1>1, <1>3 DEF TypeOK
  <2>4. broadcast_ticks' \in 0 .. 2 * FULL_BROADCAST_INTERVAL - 1
    BY <1>3, <1>4
  <2>5. QED
    BY <1>10, <1>11, <2>1, <2>2, <2>3, <2>4 DEF TypeOK
<1>13. ASSUME NEW c \in Client, in_step'[c]
       PROVE  WillShow(view[c], wire'[c] \o dgrams'[c], snapshot)
  <2> DEFINE q == wire[c] \o dgrams[c]
  <2>1. c \in connected /\ taken[c] = chunks /\ Fits(dgrams[c], chunks) /\ (full \/ in_step[c])
    BY <1>3, <1>13
  <2>2. q \in Seq(Chunk)
    BY <1>2, ConcatProperties
  <2>3. wire'[c] \o dgrams'[c] = q \o chunks
    <3>1. wire'[c] \o dgrams'[c] = wire[c] \o (dgrams[c] \o chunks)
      BY <1>9, <1>10, <2>1
    <3>2. \A x, y, z \in Seq(Chunk) : (x \o y) \o z = x \o (y \o z)
      BY ConcatAssociative
    <3>3. (wire[c] \o dgrams[c]) \o chunks = wire[c] \o (dgrams[c] \o chunks)
      BY <1>2, <1>7, <3>2
    <3>4. QED
      BY <3>1, <3>3
  <2>4. in_step[c] => WillShow(view[c], q, last_sent_canvas)
    BY <1>1 DEF DiffBaseIsClientView
  <2> HIDE DEF q
  <2>5. \A i \in Cell : i \in A \/ (last_sent_canvas[i] = snapshot[i]
                                      /\ WillShow(view[c], q, last_sent_canvas))
    BY <1>6, <2>1, <2>4
  <2>6. WillShow(view[c], q \o chunks, snapshot)
    BY <1>5, <2>2, <2>5, ShowMore
  <2>7. QED
    BY <2>3, <2>6
<1>14. DiffBaseIsClientView'
  BY <1>3, <1>13 DEF DiffBaseIsClientView, WillShow, LastAbout
<1>15. QED
  BY <1>12, <1>14 DEF BroadcastInv

(* A pass that finds none only moves datagrams. *)
LEMMA PassNothingNewStep ==
  ASSUME BroadcastInv, PassNothingNew
  PROVE  BroadcastInv'
<1>1. TypeOK /\ DiffBaseIsClientView
  BY DEF BroadcastInv
<1>2. /\ Flush(dgrams)
      /\ UNCHANGED <<snapshot, active, last_broadcast_index, broadcast_ticks, last_sent_canvas,
                     connected, narrow, view, in_step>>
      /\ news' = FALSE /\ missed' = (news /\ active = last_broadcast_index)
  BY DEF PassNothingNew, pubVars, clientVars
<1>3. /\ dgrams \in [Client -> Seq(Chunk)]
      /\ \A c \in Client : Len(dgrams[c]) <= QUIC_DGRAM_QUEUE_LEN
  BY <1>1, BroadcastTypes
<1>4. PICK qs \in [Client -> Seq(Chunk)] : qs = dgrams
  BY <1>3
<1>5. Flush(qs) /\ \A c \in Client : Len(qs[c]) <= QUIC_DGRAM_QUEUE_LEN
  BY <1>2, <1>3, <1>4
<1>6. /\ wire' \in [Client -> Seq(Chunk)] /\ dgrams' \in [Client -> Seq(Chunk)]
      /\ awake' \in BOOLEAN
      /\ \A c \in Client : /\ Len(wire'[c]) <= WINDOW
                           /\ Len(dgrams'[c]) <= QUIC_DGRAM_QUEUE_LEN
                           /\ wire'[c] \o dgrams'[c] = wire[c] \o qs[c]
  BY <1>1, <1>5, FlushEffect
<1>7. TypeOK'
  BY <1>1, <1>2, <1>6 DEF TypeOK
<1>8. DiffBaseIsClientView'
  <2> SUFFICES ASSUME NEW c \in Client, in_step'[c]
               PROVE  WillShow(view[c], wire'[c] \o dgrams'[c], last_sent_canvas)
    BY <1>2 DEF DiffBaseIsClientView, WillShow, LastAbout
  <2>1. WillShow(view[c], wire[c] \o dgrams[c], last_sent_canvas)
    BY <1>1, <1>2 DEF DiffBaseIsClientView
  <2>2. wire'[c] \o dgrams'[c] = wire[c] \o dgrams[c]
    BY <1>4, <1>6
  <2>3. QED
    BY <2>1, <2>2
<1>9. QED
  BY <1>7, <1>8 DEF BroadcastInv

(* Taking a chunk off the wire, wherever it is. *)
LEMMA RemoveEffect ==
  ASSUME NEW w \in Seq(Chunk), NEW k \in 1 .. Len(w)
  PROVE  /\ RemoveAt(w, k) \in Seq(Chunk) /\ Len(RemoveAt(w, k)) = Len(w) - 1
         /\ k = 1 => \A j \in 1 .. Len(w) - 1 : RemoveAt(w, k)[j] = w[j + 1]
<1> DEFINE a == SubSeq(w, 1, k - 1)
           b == SubSeq(w, k + 1, Len(w))
<1>1. Len(w) \in Nat /\ k \in Nat /\ \A i \in 1 .. Len(w) : w[i] \in Chunk
  BY LenProperties, ElementOfSeq
<1>2. RemoveAt(w, k) = a \o b
  BY DEF RemoveAt
<1>3. a \in Seq(Chunk) /\ Len(a) = k - 1
  <2>1. k - 1 \in 0 .. Len(w)
    BY <1>1
  <2>2. QED
    BY <2>1, CountSplit
<1>4. /\ b \in Seq(Chunk) /\ Len(b) = Len(w) - k
      /\ \A j \in 1 .. Len(w) - k : b[j] = w[k + j]
  <2>1. \A i \in k + 1 .. Len(w) : w[i] \in Chunk
    BY <1>1
  <2>2. /\ b \in Seq(Chunk) /\ Len(b) = IF k + 1 <= Len(w) THEN Len(w) - (k + 1) + 1 ELSE 0
        /\ \A j \in 1 .. Len(w) - (k + 1) + 1 : b[j] = w[(k + 1) + j - 1]
    BY <1>1, <2>1, SubSeqProperties
  <2> HIDE DEF b
  <2>3. Len(b) = Len(w) - k
    BY <1>1, <2>2
  <2>4. ASSUME NEW j \in 1 .. Len(w) - k PROVE b[j] = w[k + j]
    <3>1. j \in 1 .. Len(w) - (k + 1) + 1 /\ (k + 1) + j - 1 = k + j
      BY <1>1
    <3>2. QED
      BY <2>2, <3>1
  <2>5. QED
    BY <2>2, <2>3, <2>4
<1> HIDE DEF a, b
<1>5. a \o b \in Seq(Chunk) /\ Len(a \o b) = Len(w) - 1
  <2>1. a \o b \in Seq(Chunk) /\ Len(a \o b) = Len(a) + Len(b)
    BY <1>3, <1>4, ConcatProperties
  <2>2. QED
    BY <1>1, <1>3, <1>4, <2>1
<1>6. ASSUME k = 1, NEW j \in 1 .. Len(w) - 1 PROVE (a \o b)[j] = w[j + 1]
  <2>1. a = << >>
    BY <1>3, <1>6
  <2>2. a \o b = b
    BY <1>4, <2>1, ConcatEmptySeq
  <2>3. QED
    BY <1>1, <1>4, <1>6, <2>2
<1>7. QED
  BY <1>2, <1>5, <1>6

(* A datagram arrives.  If it is the first, the client will show what it    *)
(* would have; if it overtakes others, the client is no longer in step.     *)
LEMMA DeliverStep ==
  ASSUME BroadcastInv, NEW c \in Client, Deliver(c)
  PROVE  BroadcastInv'
<1>1. TypeOK /\ DiffBaseIsClientView
  BY DEF BroadcastInv
<1>2. PICK k \in DOMAIN wire[c] :
        /\ view' = [view EXCEPT ![c] = Applied(view[c], wire[c][k])]
        /\ wire' = [wire EXCEPT ![c] = RemoveAt(wire[c], k)]
        /\ in_step' = [in_step EXCEPT ![c] = in_step[c] /\ k = 1]
        /\ awake' = TRUE
        /\ UNCHANGED <<snapshot, active, last_broadcast_index, broadcast_ticks, last_sent_canvas,
                       connected, narrow, dgrams, news, missed>>
  BY DEF Deliver, pubVars, workerVars, clientVars
<1> DEFINE w == wire[c]
           d == dgrams[c]
           t == RemoveAt(w, k)
<1>3. /\ w \in Seq(Chunk) /\ d \in Seq(Chunk) /\ Len(w) <= WINDOW
      /\ wire \in [Client -> Seq(Chunk)] /\ dgrams \in [Client -> Seq(Chunk)]
      /\ view \in [Client -> [Cell -> Color \cup {Unknown}]]
      /\ in_step \in [Client -> BOOLEAN]
  BY <1>1, BroadcastTypes
<1>4. Len(w) \in Nat /\ k \in 1 .. Len(w) /\ Len(d) \in Nat
  BY <1>3, LenProperties
<1>5. /\ t \in Seq(Chunk) /\ Len(t) = Len(w) - 1
      /\ k = 1 => \A j \in 1 .. Len(w) - 1 : t[j] = w[j + 1]
  BY <1>3, <1>4, RemoveEffect
<1>6. Applied(view[c], w[k]) \in [Cell -> Color \cup {Unknown}]
  <2>1. w[k] \in Chunk
    BY <1>3, <1>4, ElementOfSeq
  <2>2. \A i \in DOMAIN w[k] : w[k][i] \in Color
    BY <2>1 DEF Chunk
  <2>3. view[c] \in [Cell -> Color \cup {Unknown}]
    BY <1>3
  <2>4. QED
    BY <2>2, <2>3 DEF Applied
<1>7. TypeOK'
  <2>1. wire' \in [Client -> Seq(Chunk)] /\ \A e \in Client : Len(wire'[e]) <= WINDOW
    <3>1. WINDOW \in Nat /\ \A e \in Client : Len(wire[e]) <= WINDOW
      BY <1>1, BroadcastAssumption, BroadcastTypes
    <3>2. wire' = [wire EXCEPT ![c] = t]
      BY <1>2
    <3> HIDE DEF t, w
    <3>3. Len(t) <= WINDOW
      BY <1>3, <1>4, <1>5, <3>1
    <3>4. QED
      BY <1>3, <1>5, <3>1, <3>2, <3>3
  <2>2. view' \in [Client -> [Cell -> Color \cup {Unknown}]]
    BY <1>2, <1>3, <1>6
  <2>3. in_step' \in [Client -> BOOLEAN]
    BY <1>2, <1>3
  <2>4. QED
    BY <1>1, <1>2, <2>1, <2>2, <2>3 DEF TypeOK
<1>8. ASSUME NEW e \in Client, in_step'[e]
      PROVE  WillShow(view'[e], wire'[e] \o dgrams[e], last_sent_canvas)
  <2>1. in_step[e] /\ (e = c => k = 1)
    BY <1>2, <1>3, <1>8
  <2>2. WillShow(view[e], wire[e] \o dgrams[e], last_sent_canvas)
    BY <1>1, <2>1 DEF DiffBaseIsClientView
  <2>3. CASE e # c
    <3>1. view'[e] = view[e] /\ wire'[e] = wire[e]
      BY <1>2, <1>3, <2>3
    <3>2. QED
      BY <2>2, <3>1
  <2>4. CASE e = c
    <3> DEFINE q == w \o d
               r == t \o d
    <3>1. /\ q \in Seq(Chunk) /\ Len(q) = Len(w) + Len(d)
          /\ \A i \in 1 .. Len(w) + Len(d) : q[i] = IF i <= Len(w) THEN w[i] ELSE d[i - Len(w)]
      BY <1>3, ConcatProperties
    <3>2. /\ r \in Seq(Chunk) /\ Len(r) = Len(t) + Len(d)
          /\ \A i \in 1 .. Len(t) + Len(d) : r[i] = IF i <= Len(t) THEN t[i] ELSE d[i - Len(t)]
      BY <1>3, <1>5, ConcatProperties
    <3>3. k = 1 /\ WillShow(view[c], q, last_sent_canvas)
      BY <2>1, <2>2, <2>4
    <3>4. view'[c] = Applied(view[c], w[k]) /\ wire'[c] \o dgrams[c] = r
      BY <1>2, <1>3
    <3> HIDE DEF w, d, t, q, r
    <3>5. Len(q) = Len(r) + 1 /\ q[1] = w[k]
      BY <1>4, <1>5, <3>1, <3>2, <3>3
    <3>6. ASSUME NEW j \in 1 .. Len(r) PROVE r[j] = q[j + 1]
      <4>1. Len(t) \in Nat /\ Len(w) = Len(t) + 1 /\ Len(r) = Len(t) + Len(d)
        BY <1>4, <1>5, <3>2
      <4>2. CASE j <= Len(t)
        <5>1. j \in 1 .. Len(w) - 1 /\ r[j] = t[j]
          BY <1>4, <3>2, <4>1, <4>2
        <5>2. j + 1 \in 1 .. Len(w) + Len(d) /\ j + 1 <= Len(w)
          BY <1>4, <4>1, <4>2
        <5>3. QED
          BY <1>5, <3>1, <3>3, <5>1, <5>2
      <4>3. CASE ~ (j <= Len(t))
        <5>1. r[j] = d[j - Len(t)]
          BY <1>4, <3>2, <4>1, <4>3
        <5>2. /\ j + 1 \in 1 .. Len(w) + Len(d) /\ ~ (j + 1 <= Len(w))
              /\ (j + 1) - Len(w) = j - Len(t)
          BY <1>4, <4>1, <4>3
        <5>3. q[j + 1] = d[(j + 1) - Len(w)]
          BY <3>1, <5>2
        <5>4. QED
          BY <5>1, <5>2, <5>3
      <4>4. QED
        BY <4>2, <4>3
    <3>7. WillShow(Applied(view[c], q[1]), r, last_sent_canvas)
      BY <3>1, <3>2, <3>3, <3>5, <3>6, ShowFirst
    <3>8. QED
      BY <2>4, <3>4, <3>5, <3>7
  <2>5. QED
    BY <2>3, <2>4
<1>9. DiffBaseIsClientView'
  <2> SUFFICES ASSUME NEW e \in Client, in_step'[e]
               PROVE  WillShow(view'[e], wire'[e] \o dgrams'[e], last_sent_canvas')
    BY DEF DiffBaseIsClientView
  <2>1. WillShow(view'[e], wire'[e] \o dgrams[e], last_sent_canvas)
    BY <1>8
  <2>2. dgrams' = dgrams /\ last_sent_canvas' = last_sent_canvas
    BY <1>2
  <2>3. QED
    BY <2>1, <2>2
<1>10. QED
  BY <1>7, <1>9 DEF BroadcastInv

(* A datagram is lost: the client is not in step. *)
LEMMA LoseStep ==
  ASSUME BroadcastInv, NEW c \in Client, Lose(c)
  PROVE  BroadcastInv'
<1>1. TypeOK /\ DiffBaseIsClientView
  BY DEF BroadcastInv
<1>2. PICK k \in DOMAIN wire[c] :
        /\ wire' = [wire EXCEPT ![c] = RemoveAt(wire[c], k)]
        /\ in_step' = [in_step EXCEPT ![c] = FALSE]
        /\ UNCHANGED <<snapshot, active, last_broadcast_index, broadcast_ticks, last_sent_canvas,
                       connected, narrow, dgrams, view, awake, news, missed>>
  BY DEF Lose, pubVars, workerVars, clientVars
<1>3. /\ wire \in [Client -> Seq(Chunk)] /\ wire[c] \in Seq(Chunk)
      /\ \A e \in Client : Len(wire[e]) <= WINDOW
      /\ in_step \in [Client -> BOOLEAN] /\ WINDOW \in Nat
  BY <1>1, BroadcastTypes, BroadcastAssumption
<1>4. Len(wire[c]) \in Nat /\ k \in 1 .. Len(wire[c])
  BY <1>3, LenProperties
<1> DEFINE t == RemoveAt(wire[c], k)
<1>5. t \in Seq(Chunk) /\ Len(t) = Len(wire[c]) - 1 /\ wire' = [wire EXCEPT ![c] = t]
  BY <1>2, <1>3, <1>4, RemoveEffect
<1> HIDE DEF t
<1>6. wire' \in [Client -> Seq(Chunk)] /\ \A e \in Client : Len(wire'[e]) <= WINDOW
  <2>1. Len(t) <= WINDOW
    BY <1>3, <1>4, <1>5
  <2>2. QED
    BY <1>3, <1>5, <2>1
<1>7. in_step' \in [Client -> BOOLEAN]
  BY <1>2, <1>3
<1>8. TypeOK'
  BY <1>1, <1>2, <1>6, <1>7 DEF TypeOK
<1>9. ASSUME NEW e \in Client, in_step'[e]
      PROVE  WillShow(view[e], wire'[e] \o dgrams[e], last_sent_canvas)
  <2>1. e # c /\ in_step[e]
    BY <1>2, <1>3, <1>9
  <2>2. wire'[e] = wire[e]
    BY <1>2, <1>3, <2>1
  <2>3. QED
    BY <1>1, <2>1, <2>2 DEF DiffBaseIsClientView
<1>10. DiffBaseIsClientView'
  <2> SUFFICES ASSUME NEW e \in Client, in_step'[e]
               PROVE  WillShow(view'[e], wire'[e] \o dgrams'[e], last_sent_canvas')
    BY DEF DiffBaseIsClientView
  <2>1. WillShow(view[e], wire'[e] \o dgrams[e], last_sent_canvas)
    BY <1>9
  <2>2. view' = view /\ dgrams' = dgrams /\ last_sent_canvas' = last_sent_canvas
    BY <1>2
  <2>3. QED
    BY <2>1, <2>2
<1>11. QED
  BY <1>8, <1>10 DEF BroadcastInv

(* The steps that move no datagram. *)
LEMMA QuietStep ==
  ASSUME BroadcastInv,
         Publish \/ (\E c \in Client : Connect(c) \/ ClientPacket(c)) \/ UNCHANGED vars
  PROVE  BroadcastInv'
<1>1. TypeOK /\ DiffBaseIsClientView
  BY DEF BroadcastInv
<1>2. UNCHANGED <<last_broadcast_index, broadcast_ticks, last_sent_canvas, dgrams, wire, view,
                  in_step, missed>>
  BY DEF Publish, Connect, ClientPacket, vars, workerVars
<1>3. snapshot' \in Canvas
  <2>1. snapshot \in Canvas
    BY <1>1, BroadcastTypes
  <2>2. snapshot' = snapshot \/ \E i \in Cell, x \in Color : snapshot' = [snapshot EXCEPT ![i] = x]
    BY DEF Publish, Connect, ClientPacket, vars, pubVars
  <2>3. QED
    BY <2>1, <2>2 DEF Canvas
<1>4. /\ news' \in BOOLEAN /\ awake' \in BOOLEAN
      /\ {connected', narrow'} \subseteq SUBSET Client
  BY <1>1 DEF TypeOK, Publish, Connect, ClientPacket, vars, clientVars
<1>5. active' \in Slot
  <2>1. active \in Slot /\ CANVAS_BUFFER_POOL_SIZE \in Nat \ {0}
    BY <1>1, BroadcastAssumption DEF TypeOK
  <2>2. (active + 1) % CANVAS_BUFFER_POOL_SIZE \in Slot
    BY <2>1, ModRange DEF Slot
  <2>3. active' = active \/ active' = (active + 1) % CANVAS_BUFFER_POOL_SIZE
    BY DEF Publish, Connect, ClientPacket, vars, pubVars
  <2>4. QED
    BY <2>1, <2>2, <2>3
<1>6. TypeOK'
  BY <1>1, <1>2, <1>3, <1>4, <1>5 DEF TypeOK
<1>7. DiffBaseIsClientView'
  <2> SUFFICES ASSUME NEW e \in Client, in_step'[e]
               PROVE  WillShow(view'[e], wire'[e] \o dgrams'[e], last_sent_canvas')
    BY DEF DiffBaseIsClientView
  <2>1. WillShow(view[e], wire[e] \o dgrams[e], last_sent_canvas)
    BY <1>1, <1>2 DEF DiffBaseIsClientView
  <2>2. QED
    BY <1>2, <2>1
<1>8. QED
  BY <1>6, <1>7 DEF BroadcastInv

(* Initially nobody is in step. *)
LEMMA InitBroadcast == Init => BroadcastInv
<1> SUFFICES ASSUME Init PROVE BroadcastInv
  OBVIOUS
<1>1. /\ {QUIC_DGRAM_QUEUE_LEN, FULL_BROADCAST_INTERVAL, WINDOW} \subseteq Nat \ {0}
      /\ 0 \in Color
  BY BroadcastAssumption
<1>2. TypeOK
  <2>1. {snapshot, last_sent_canvas} \subseteq Canvas
    BY <1>1 DEF Init, Canvas
  <2>2. /\ broadcast_ticks \in 0 .. 2 * FULL_BROADCAST_INTERVAL - 1
        /\ {connected, narrow} \subseteq SUBSET Client
        /\ {active, last_broadcast_index} \subseteq Slot
    BY <1>1 DEF Init
  <2>3. << >> \in Seq(Chunk) /\ Len(<< >>) = 0
    BY EmptySeq
  <2>4. dgrams \in [Client -> Seq(Chunk)] /\ wire \in [Client -> Seq(Chunk)]
    BY <2>3 DEF Init
  <2>5. \A c \in Client : Len(wire[c]) <= WINDOW /\ Len(dgrams[c]) <= QUIC_DGRAM_QUEUE_LEN
    <3>1. \A c \in Client : wire[c] = << >> /\ dgrams[c] = << >>
      BY DEF Init
    <3>2. 0 <= WINDOW /\ 0 <= QUIC_DGRAM_QUEUE_LEN
      BY <1>1
    <3>3. QED
      BY <2>3, <3>1, <3>2
  <2>6. view \in [Client -> [Cell -> Color \cup {Unknown}]]
    BY DEF Init
  <2>7. {awake, news, missed} \subseteq BOOLEAN /\ in_step \in [Client -> BOOLEAN]
    BY DEF Init
  <2>8. QED
    BY <2>1, <2>2, <2>4, <2>5, <2>6, <2>7 DEF TypeOK
<1>3. DiffBaseIsClientView
  BY DEF Init, DiffBaseIsClientView
<1>4. QED
  BY <1>2, <1>3 DEF BroadcastInv

(* A client that had a whole full broadcast and lost nothing since will     *)
(* show the base of the next diff (worker.rs:292-362), and the datagram     *)
(* queue and the window keep their limits: for every canvas size, number of *)
(* colours and clients, size of chunks, of queue and of window, and any     *)
(* number of faults and changes.                                            *)
THEOREM BroadcastInvariant == Spec => []BroadcastInv
<1>1. BroadcastInv /\ [Next]_vars => BroadcastInv'
  <2> SUFFICES ASSUME BroadcastInv, [Next]_vars PROVE BroadcastInv'
    OBVIOUS
  <2>1. CASE Pass
    BY <2>1, PassBroadcastStep, PassNothingNewStep DEF Pass
  <2>2. CASE \E c \in Client : Deliver(c) \/ Lose(c)
    BY <2>2, DeliverStep, LoseStep
  <2>3. CASE Publish \/ (\E c \in Client : Connect(c) \/ ClientPacket(c)) \/ UNCHANGED vars
    BY <2>3, QuietStep
  <2>4. QED
    BY <2>1, <2>2, <2>3 DEF Next
<1>2. QED
  BY <1>1, InitBroadcast, PTL DEF Spec
=============================================================================
