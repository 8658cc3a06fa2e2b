--------------------------- MODULE ZoneMap_proofs ---------------------------
(***************************************************************************)
(* Facts about the zone-map test, for every range, every filter and every  *)
(* width that strings are cut to.                                          *)
(***************************************************************************)
EXTENDS ZoneMap, SequenceTheorems, WellFoundedInduction, TLAPS

LEMMA LeastNat ==
  ASSUME NEW S, S \subseteq Nat, S # {}
  PROVE  \E n \in S : \A m \in S : n <= m
<1> DEFINE R == {ij \in Nat \X Nat : ij[1] < ij[2]}
<1>1. IsWellFoundedOn(R, Nat)
  BY NatLessThanWellFounded DEF OpToRel
<1> HIDE DEF R
<1>2. PICK n \in S : \A m \in S : ~(<<m, n>> \in R)
  BY <1>1, WFMin
<1>3. \A m \in S : ~(m < n) /\ m \in Nat /\ n \in Nat
  BY <1>2 DEF R
<1> QED BY <1>3

LEMMA NatSetInduction ==
  ASSUME NEW S, 0 \in S, \A n \in Nat : n \in S => n + 1 \in S
  PROVE  Nat \subseteq S
<1> SUFFICES ASSUME Nat \ S # {} PROVE FALSE
  OBVIOUS
<1>1. PICK n \in Nat \ S : \A m \in Nat \ S : n <= m
  BY LeastNat
<1>2. n # 0 /\ n - 1 \in Nat
  BY <1>1
<1>3. n - 1 \in S
  BY <1>1, <1>2
<1> QED BY <1>1, <1>2, <1>3

(* A filter on a column has values of the column's type for its constants. *)
LEMMA FilterTypes ==
  ASSUME NEW V, NEW f \in Filter(V)
  PROVE  /\ f.op \in ScalarOps \cup NullOps \cup {"IN_SET"}
         /\ f.op \in ScalarOps => f.constant \in V
         /\ f.op = "IN_SET" => f.in_values \subseteq V
<1>2. CASE f \in [op : ScalarOps, constant : V]
  BY <1>2 DEF ScalarOps
<1>3. CASE f \in [op : {"IN_SET"}, in_values : SUBSET V]
  BY <1>3 DEF ScalarOps
<1>4. CASE f \in [op : NullOps]
  BY <1>4 DEF ScalarOps, NullOps
<1> QED BY <1>2, <1>3, <1>4 DEF Filter

(* The comparison of one value with one constant: if it holds, the zone map
   test of the same operator and constant lets the block through. *)
LEMMA ScalarSound ==
  ASSUME NEW z, z.inited, z.min \in Int, z.max \in Int,
         NEW v \in Int, z.min <= v, v <= z.max,
         NEW op \in ScalarOps, NEW c \in Int, OpHolds(op, CompareFixed(v, c))
  PROVE  ZoneMapCheckFixed(z, op, c)
  BY DEF ZoneMapCheckFixed, OpHolds, CompareFixed, ScalarOps,
         AnyGE, AnyGT, AnyLE, AnyLT, ContainsKey

(* A zone map that spans a value rejects no filter that the value satisfies:
   tae_zonemap.hpp:147, "Returns false if the block DEFINITELY has no matching
   rows". *)
THEOREM SpanIsSound ==
  ASSUME NEW z, NEW v \in Int \cup {Null}, NEW f \in Filter(Int),
         z.inited => /\ z.min \in Int /\ z.max \in Int
                     /\ v # Null => z.min <= v /\ v <= z.max,
         RowPassesFilter("fixed", f, v)
  PROVE  EvalFilterOnZoneMap("fixed", f, z)
<1> SUFFICES ASSUME z.inited, f.op \notin NullOps
             PROVE  EvalFilterOnZoneMap("fixed", f, z)
  BY DEF EvalFilterOnZoneMap
<1>1. v # Null
  BY DEF RowPassesFilter, NullOps, ScalarOps
<1>2. /\ v \in Int /\ z.min \in Int /\ z.max \in Int
      /\ z.min <= v /\ v <= z.max
  BY <1>1
<1>3. CASE f.op = "IN_SET"
  <2>1. PICK c \in f.in_values : Compare("fixed", v, c) = 0
    BY <1>3 DEF RowPassesFilter, NullOps, ScalarOps
  <2>2. c \in Int
    BY <1>3, <2>1, FilterTypes
  <2>3. OpHolds("EQUAL", CompareFixed(v, c))
    BY <2>1 DEF Compare, OpHolds
  <2>4. ZoneMapCheckFixed(z, "EQUAL", c)
    BY <1>2, <2>2, <2>3, ScalarSound DEF ScalarOps
  <2> QED BY <1>3, <2>1, <2>4 DEF EvalFilterOnZoneMap, ZoneMapCheckScalar
<1>4. CASE f.op \in ScalarOps
  <2>1. f.constant \in Int /\ OpHolds(f.op, CompareFixed(v, f.constant))
    BY <1>4, FilterTypes DEF RowPassesFilter, NullOps, ScalarOps, Compare
  <2>2. ZoneMapCheckFixed(z, f.op, f.constant)
    BY <1>2, <1>4, <2>1, ScalarSound
  <2> QED BY <1>4, <2>2 DEF EvalFilterOnZoneMap, ZoneMapCheckScalar
<1> QED BY <1>3, <1>4, FilterTypes

---------------------------------------------------------------------------
(* Strings.  A string is looked at as if it went on with bytes less than any
   other: then the order is that of the first byte that differs. *)

ByteOf(s, i) == IF i <= Len(s) THEN s[i] ELSE -1

(* a comes before b because of byte i. *)
PrecedesAt(a, b, i) ==
  /\ \A j \in 1 .. i - 1 : ByteOf(a, j) = ByteOf(b, j)
  /\ ByteOf(a, i) < ByteOf(b, i)

Precedes(a, b) == \E i \in Nat \ {0} : PrecedesAt(a, b, i)

LEMMA ByteType == ASSUME NEW s \in Seq(Nat), NEW i \in Nat \ {0} PROVE ByteOf(s, i) \in Int
<1>1. i <= Len(s) => s[i] \in Nat
  BY LenProperties, ElementOfSeq
<1> QED BY <1>1 DEF ByteOf

LEMMA SameBytes ==
  ASSUME NEW a \in Seq(Nat), NEW b \in Seq(Nat), \A i \in Nat \ {0} : ByteOf(a, i) = ByteOf(b, i)
  PROVE  a = b
<1>1. \A i \in 1 .. Len(a) : a[i] \in Nat
  BY ElementOfSeq
<1>2. \A i \in 1 .. Len(b) : b[i] \in Nat
  BY ElementOfSeq
<1>3. Len(a) \in Nat /\ Len(b) \in Nat
  BY LenProperties
<1>4. Len(a) = Len(b)
  <2>1. CASE Len(a) < Len(b)
    <3>1. ByteOf(a, Len(b)) = ByteOf(b, Len(b)) /\ b[Len(b)] \in Nat
      BY <1>2, <1>3, <2>1
    <3> QED BY <1>3, <2>1, <3>1 DEF ByteOf
  <2>2. CASE Len(b) < Len(a)
    <3>1. ByteOf(a, Len(a)) = ByteOf(b, Len(a)) /\ a[Len(a)] \in Nat
      BY <1>1, <1>3, <2>2
    <3> QED BY <1>3, <2>2, <3>1 DEF ByteOf
  <2> QED BY <1>3, <2>1, <2>2
<1>5. \A i \in 1 .. Len(a) : a[i] = b[i]
  BY <1>3, <1>4 DEF ByteOf
<1> QED BY <1>4, <1>5, SeqEqual

LEMMA PrecedesTransitive ==
  ASSUME NEW a \in Seq(Nat), NEW b \in Seq(Nat), NEW c \in Seq(Nat),
         NEW i \in Nat \ {0}, NEW k \in Nat \ {0}, PrecedesAt(a, b, i), PrecedesAt(b, c, k)
  PROVE  PrecedesAt(a, c, IF i < k THEN i ELSE k)
<1>1. \A j \in Nat \ {0} : ByteOf(a, j) \in Int /\ ByteOf(b, j) \in Int /\ ByteOf(c, j) \in Int
  BY ByteType
<1>2. CASE i < k
  <2>1. ByteOf(b, i) = ByteOf(c, i)
    BY <1>2 DEF PrecedesAt
  <2>2. \A j \in 1 .. i - 1 : j \in 1 .. k - 1
    BY <1>2
  <2> QED BY <1>1, <1>2, <2>1, <2>2 DEF PrecedesAt
<1>3. CASE ~(i < k)
  <2>1. ByteOf(a, k) <= ByteOf(b, k)
    <3>1. CASE k = i
      BY <1>1, <3>1 DEF PrecedesAt
    <3>2. CASE k < i
      <4>1. k \in 1 .. i - 1
        BY <3>2
      <4> QED BY <1>1, <4>1 DEF PrecedesAt
    <3> QED BY <1>3, <3>1, <3>2
  <2>2. \A j \in 1 .. k - 1 : j \in 1 .. i - 1
    BY <1>3
  <2> QED BY <1>1, <1>3, <2>1, <2>2 DEF PrecedesAt
<1> QED BY <1>2, <1>3

LEMMA NotPrecedesItself ==
  ASSUME NEW a \in Seq(Nat) PROVE ~Precedes(a, a)
  BY ByteType DEF Precedes, PrecedesAt

LEMMA NotBoth ==
  ASSUME NEW a \in Seq(Nat), NEW b \in Seq(Nat), Precedes(a, b), Precedes(b, a) PROVE FALSE
<1>1. PICK i \in Nat \ {0} : PrecedesAt(a, b, i)
  BY DEF Precedes
<1>2. PICK k \in Nat \ {0} : PrecedesAt(b, a, k)
  BY DEF Precedes
<1>3. Precedes(a, a)
  BY <1>1, <1>2, PrecedesTransitive DEF Precedes
<1> QED BY <1>3, NotPrecedesItself

(* Two strings are equal, or one precedes the other. *)
LEMMA Trichotomy ==
  ASSUME NEW a \in Seq(Nat), NEW b \in Seq(Nat)
  PROVE  a = b \/ Precedes(a, b) \/ Precedes(b, a)
<1> SUFFICES ASSUME a # b PROVE Precedes(a, b) \/ Precedes(b, a)
  OBVIOUS
<1> DEFINE D == {i \in Nat \ {0} : ByteOf(a, i) # ByteOf(b, i)}
<1>1. D # {} /\ D \subseteq Nat
  BY SameBytes
<1>2. PICK i \in D : \A m \in D : i <= m
  BY <1>1, LeastNat
<1>3. \A j \in 1 .. i - 1 : ByteOf(a, j) = ByteOf(b, j)
  <2> TAKE j \in 1 .. i - 1
  <2>1. i \in Nat \ {0}
    BY <1>2
  <2>2. j \in Nat \ {0} /\ j < i
    BY <2>1
  <2> QED BY <1>2, <2>1, <2>2
<1>4. i \in Nat \ {0} /\ ByteOf(a, i) # ByteOf(b, i)
  BY <1>2
<1>5. ByteOf(a, i) < ByteOf(b, i) \/ ByteOf(b, i) < ByteOf(a, i)
  BY <1>4, ByteType
<1> QED BY <1>3, <1>4, <1>5 DEF Precedes, PrecedesAt

(* The bytes that memcmp looks at, of two strings and no more than the shorter
   has. *)
LEMMA MemcmpFacts ==
  ASSUME NEW a \in Seq(Nat), NEW b \in Seq(Nat)
  PROVE  LET n == Shorter(a, b)
             m == Memcmp(a, b, n)
         IN  /\ n \in Nat /\ n <= Len(a) /\ n <= Len(b) /\ (n = Len(a) \/ n = Len(b))
             /\ m \in {-1, 0, 1}
             /\ m = 0 => \A i \in 1 .. n : ByteOf(a, i) = ByteOf(b, i)
             /\ m < 0 => \E i \in 1 .. n : PrecedesAt(a, b, i)
             /\ m > 0 => \E i \in 1 .. n : PrecedesAt(b, a, i)
<1> DEFINE n == Shorter(a, b)
           m == Memcmp(a, b, n)
<1>1. n \in Nat /\ n <= Len(a) /\ n <= Len(b) /\ (n = Len(a) \/ n = Len(b))
  BY LenProperties DEF Shorter
<1>2. \A i \in 1 .. n : a[i] = ByteOf(a, i) /\ b[i] = ByteOf(b, i)
  BY <1>1, LenProperties DEF ByteOf
<1> HIDE DEF n
<1>3. CASE \A i \in 1 .. n : a[i] = b[i]
  <2>1. m = 0
    BY <1>3 DEF Memcmp
  <2>2. \A i \in 1 .. n : ByteOf(a, i) = ByteOf(b, i)
    BY <1>2, <1>3
  <2> HIDE DEF m
  <2> QED BY <1>1, <2>1, <2>2 DEF n, m
<1>4. CASE ~(\A i \in 1 .. n : a[i] = b[i])
  <2> DEFINE D == {i \in 1 .. n : a[i] # b[i]}
             First(i) == i \in 1 .. n /\ a[i] # b[i] /\ \A j \in 1 .. i - 1 : a[j] = b[j]
  <2>1. D # {} /\ D \subseteq Nat
    BY <1>4
  <2>2. PICK d \in D : \A k \in D : d <= k
    BY <2>1, LeastNat
  <2>3. First(d)
    <3> SUFFICES ASSUME NEW j \in 1 .. d - 1 PROVE a[j] = b[j]
      BY <2>2
    <3>1. j \in 1 .. n /\ j < d /\ d \in 1 .. n
      BY <1>1, <2>2
    <3> QED BY <2>2, <3>1
  <2> DEFINE i == CHOOSE x \in 1 .. n : a[x] # b[x] /\ \A j \in 1 .. x - 1 : a[j] = b[j]
  <2>4. First(i)
    BY <2>3
  <2>5. m = IF a[i] < b[i] THEN -1 ELSE 1
    BY <1>4 DEF Memcmp
  <2> HIDE DEF i, m
  <2>6. i \in 1 .. n /\ a[i] # b[i] /\ \A j \in 1 .. i - 1 : a[j] = b[j]
    BY <2>4
  <2>7. \A j \in 1 .. i - 1 : ByteOf(a, j) = ByteOf(b, j)
    <3> TAKE j \in 1 .. i - 1
    <3>1. j \in 1 .. n /\ a[j] = b[j]
      BY <1>1, <2>6
    <3> QED BY <1>2, <3>1
  <2>8. ByteOf(a, i) \in Int /\ ByteOf(b, i) \in Int /\ ByteOf(a, i) = a[i] /\ ByteOf(b, i) = b[i]
    <3>1. i \in Nat \ {0}
      BY <1>1, <2>6
    <3> QED BY <1>2, <2>6, <3>1, ByteType
  <2>9. CASE a[i] < b[i]
    <3>1. PrecedesAt(a, b, i) /\ m = -1
      BY <2>5, <2>7, <2>8, <2>9 DEF PrecedesAt
    <3> QED BY <1>1, <2>6, <3>1 DEF n, m
  <2>10. CASE ~(a[i] < b[i])
    <3>1. PrecedesAt(b, a, i) /\ m = 1
      BY <2>5, <2>6, <2>7, <2>8, <2>10 DEF PrecedesAt
    <3> QED BY <1>1, <2>6, <3>1 DEF n, m
  <2> QED BY <2>9, <2>10
<1> QED BY <1>3, <1>4

(* The three-way comparison is that order. *)
LEMMA CompareFacts ==
  ASSUME NEW a \in Seq(Nat), NEW b \in Seq(Nat)
  PROVE  /\ CompareString(a, b) \in {-1, 0, 1}
         /\ CompareString(a, b) = 0 <=> a = b
         /\ CompareString(a, b) < 0 <=> Precedes(a, b)
         /\ CompareString(a, b) > 0 <=> Precedes(b, a)
<1> DEFINE n == Shorter(a, b)
           m == Memcmp(a, b, n)
           c == CompareString(a, b)
<1>1. /\ n \in Nat /\ n <= Len(a) /\ n <= Len(b) /\ (n = Len(a) \/ n = Len(b))
      /\ m \in {-1, 0, 1}
      /\ m = 0 => \A i \in 1 .. n : ByteOf(a, i) = ByteOf(b, i)
      /\ m < 0 => \E i \in 1 .. n : PrecedesAt(a, b, i)
      /\ m > 0 => \E i \in 1 .. n : PrecedesAt(b, a, i)
  BY MemcmpFacts
<1>2. c = IF m # 0 THEN m ELSE IF Len(a) < Len(b) THEN -1 ELSE IF Len(a) > Len(b) THEN 1 ELSE 0
  BY DEF CompareString
<1>3. Len(a) \in Nat /\ Len(b) \in Nat
  BY LenProperties
<1>4. \A i \in Nat \ {0} : ByteOf(a, i) \in Int /\ ByteOf(b, i) \in Int
  BY ByteType
<1> HIDE DEF n, m, c
<1>5. c < 0 => Precedes(a, b)
  <2>1. CASE m < 0
    BY <1>1, <2>1 DEF Precedes
  <2>2. CASE m = 0 /\ Len(a) < Len(b)
    <3>1. n = Len(a)
      BY <1>1, <1>3, <2>2
    <3>2. ByteOf(a, n + 1) = -1 /\ ByteOf(b, n + 1) \in Nat
      <4>1. b[n + 1] \in Nat
        BY <1>1, <1>3, <2>2, <3>1, ElementOfSeq
      <4> QED BY <1>1, <1>3, <2>2, <3>1, <4>1 DEF ByteOf
    <3>3. PrecedesAt(a, b, n + 1)
      BY <1>1, <2>2, <3>2 DEF PrecedesAt
    <3>4. n + 1 \in Nat \ {0}
      BY <1>1
    <3> QED BY <3>3, <3>4 DEF Precedes
  <2> QED BY <1>1, <1>2, <1>3, <2>1, <2>2
<1>6. c > 0 => Precedes(b, a)
  <2>1. CASE m > 0
    BY <1>1, <2>1 DEF Precedes
  <2>2. CASE m = 0 /\ Len(a) > Len(b)
    <3>1. n = Len(b)
      BY <1>1, <1>3, <2>2
    <3>2. ByteOf(b, n + 1) = -1 /\ ByteOf(a, n + 1) \in Nat
      <4>1. a[n + 1] \in Nat
        BY <1>1, <1>3, <2>2, <3>1, ElementOfSeq
      <4> QED BY <1>1, <1>3, <2>2, <3>1, <4>1 DEF ByteOf
    <3>3. PrecedesAt(b, a, n + 1)
      BY <1>1, <2>2, <3>2 DEF PrecedesAt
    <3>4. n + 1 \in Nat \ {0}
      BY <1>1
    <3> QED BY <3>3, <3>4 DEF Precedes
  <2> QED BY <1>1, <1>2, <1>3, <2>1, <2>2
<1>7. c = 0 => a = b
  <2> SUFFICES ASSUME c = 0 PROVE a = b
    OBVIOUS
  <2>1. m = 0 /\ Len(a) = Len(b) /\ n = Len(a)
    BY <1>1, <1>2, <1>3
  <2>2. ASSUME NEW i \in Nat \ {0} PROVE ByteOf(a, i) = ByteOf(b, i)
    <3>1. CASE i <= n
      BY <1>1, <2>1, <3>1
    <3>2. CASE ~(i <= n)
      BY <1>1, <2>1, <3>2 DEF ByteOf
    <3> QED BY <3>1, <3>2
  <2> QED BY <2>2, SameBytes
<1>8. c \in {-1, 0, 1}
  BY <1>1, <1>2
<1>9. /\ ~(Precedes(a, b) /\ Precedes(b, a))
      /\ a = b => ~Precedes(a, b) /\ ~Precedes(b, a)
  BY NotBoth, NotPrecedesItself
<1>10. c < 0 \/ c = 0 \/ c > 0
  BY <1>8
<1>11. ~(c < 0 /\ c > 0) /\ ~(c = 0 /\ c > 0) /\ ~(c = 0 /\ c < 0)
  BY <1>8
<1>12. /\ c = 0 <=> a = b
       /\ c < 0 <=> Precedes(a, b)
       /\ c > 0 <=> Precedes(b, a)
  BY <1>5, <1>6, <1>7, <1>9, <1>10, <1>11
<1> QED BY <1>8, <1>12 DEF c

---------------------------------------------------------------------------
(* The zone-map test of strings *)

(* A zone map covers a string: the minimum does not come after it, and the maximum
   does not come before it as far as the bytes that are kept can tell. *)
MinCovers(z, v) == v = z.min \/ Precedes(z.min, v)

MaxCovers(z, v) ==
  \/ v = z.max
  \/ \E i \in 1 .. Width : PrecedesAt(v, z.max, i)
  \/ z.max_truncated /\ \A i \in 1 .. Width : ByteOf(v, i) = ByteOf(z.max, i)

CoversString(z, v) ==
  /\ z.min \in Seq(Nat) /\ z.max \in Seq(Nat) /\ Len(z.max) <= Width
  /\ MinCovers(z, v) /\ MaxCovers(z, v)

LEMMA MinTests ==
  ASSUME NEW z, z.min \in Seq(Nat), NEW key \in Seq(Nat)
  PROVE  /\ ~AnyLEString(z, key) => Precedes(key, z.min)
         /\ ~AnyLTString(z, key) => key = z.min \/ Precedes(key, z.min)
<1> DEFINE c == CompareString(z.min, key)
           m == Memcmp(z.min, key, Shorter(z.min, key))
<1>1. /\ Len(z.min) \in Nat /\ Len(key) \in Nat /\ m \in {-1, 0, 1}
      /\ c = IF m # 0 THEN m ELSE IF Len(z.min) < Len(key) THEN -1
             ELSE IF Len(z.min) > Len(key) THEN 1 ELSE 0
  BY MemcmpFacts, LenProperties DEF CompareString
<1>2. AnyLEString(z, key) <=> m < 0 \/ (m = 0 /\ Len(z.min) <= Len(key))
  BY DEF AnyLEString
<1>3. AnyLTString(z, key) <=> m < 0 \/ (m = 0 /\ Len(z.min) < Len(key))
  BY DEF AnyLTString
<1>4. (c > 0 => Precedes(key, z.min)) /\ (c = 0 => key = z.min)
  BY CompareFacts
<1> HIDE DEF c, m
<1>5. (~AnyLEString(z, key) => c > 0) /\ (~AnyLTString(z, key) => c >= 0)
  BY <1>1, <1>2, <1>3
<1>6. c \in {-1, 0, 1}
  BY <1>1
<1> QED BY <1>4, <1>5, <1>6

LEMMA MaxTests ==
  ASSUME NEW z, z.max \in Seq(Nat), Len(z.max) <= Width, NEW v \in Seq(Nat),
         NEW key \in Seq(Nat), MaxCovers(z, v)
  PROVE  /\ ~AnyGEString(z, key) => Precedes(v, key)
         /\ ~AnyGTString(z, key) => v = key \/ Precedes(v, key)
<1> DEFINE c == CompareString(z.max, key)
           m == Memcmp(z.max, key, Shorter(z.max, key))
<1>1. /\ Len(z.max) \in Nat /\ Len(key) \in Nat /\ m \in {-1, 0, 1}
      /\ c = IF m # 0 THEN m ELSE IF Len(z.max) < Len(key) THEN -1
             ELSE IF Len(z.max) > Len(key) THEN 1 ELSE 0
  BY MemcmpFacts, LenProperties DEF CompareString
<1>2. AnyGEString(z, key) <=> m > 0 \/ (m = 0 /\ (z.max_truncated \/ Len(z.max) >= Len(key)))
  BY DEF AnyGEString
<1>3. AnyGTString(z, key) <=> m > 0 \/ (m = 0 /\ (z.max_truncated \/ Len(z.max) > Len(key)))
  BY DEF AnyGTString
<1>4. (c < 0 => Precedes(z.max, key)) /\ (c = 0 => key = z.max)
  BY CompareFacts
<1>5. m < 0 => \E i \in Nat \ {0} : i <= Width /\ PrecedesAt(z.max, key, i)
  <2> SUFFICES ASSUME m < 0 PROVE \E i \in Nat \ {0} : i <= Width /\ PrecedesAt(z.max, key, i)
    OBVIOUS
  <2> DEFINE n == Shorter(z.max, key)
  <2>1. (\E i \in 1 .. n : PrecedesAt(z.max, key, i)) /\ n \in Nat /\ n <= Len(z.max)
    BY MemcmpFacts
  <2> HIDE DEF n
  <2>2. PICK i \in 1 .. n : PrecedesAt(z.max, key, i)
    BY <2>1
  <2>3. i \in Nat \ {0} /\ i <= Width
    BY <1>1, <2>1, ZoneMapAssumption
  <2> QED BY <2>2, <2>3
<1> HIDE DEF c, m
<1>6. m < 0 => Precedes(v, key)
  <2> SUFFICES ASSUME m < 0 PROVE Precedes(v, key)
    OBVIOUS
  <2>1. PICK i \in Nat \ {0} : i <= Width /\ PrecedesAt(z.max, key, i)
    BY <1>5
  <2>2. CASE v = z.max
    BY <2>1, <2>2 DEF Precedes
  <2>3. CASE \E j \in 1 .. Width : PrecedesAt(v, z.max, j)
    <3>1. PICK j \in Nat \ {0} : PrecedesAt(v, z.max, j)
      BY <2>3
    <3>2. PrecedesAt(v, key, IF j < i THEN j ELSE i)
      BY <2>1, <3>1, PrecedesTransitive
    <3> QED BY <3>2 DEF Precedes
  <2>4. CASE \A j \in 1 .. Width : ByteOf(v, j) = ByteOf(z.max, j)
    <3>1. \A j \in 1 .. i : ByteOf(v, j) = ByteOf(z.max, j)
      BY <2>1, <2>4, ZoneMapAssumption
    <3>2. PrecedesAt(v, key, i)
      BY <2>1, <3>1 DEF PrecedesAt
    <3> QED BY <3>2 DEF Precedes
  <2> QED BY <2>2, <2>3, <2>4 DEF MaxCovers
<1>7. ~z.max_truncated => v = z.max \/ Precedes(v, z.max)
  BY DEF MaxCovers, Precedes
<1>8. Precedes(v, z.max) /\ Precedes(z.max, key) => Precedes(v, key)
  <2> SUFFICES ASSUME Precedes(v, z.max), Precedes(z.max, key) PROVE Precedes(v, key)
    OBVIOUS
  <2>1. PICK i \in Nat \ {0} : PrecedesAt(v, z.max, i)
    BY DEF Precedes
  <2>2. PICK k \in Nat \ {0} : PrecedesAt(z.max, key, k)
    BY DEF Precedes
  <2> QED BY <2>1, <2>2, PrecedesTransitive DEF Precedes
<1>9. ~AnyGEString(z, key) => m < 0 \/ (c < 0 /\ ~z.max_truncated)
  BY <1>1, <1>2
<1>10. ~AnyGTString(z, key) => m < 0 \/ ((c < 0 \/ c = 0) /\ ~z.max_truncated)
  BY <1>1, <1>3
<1> QED BY <1>4, <1>6, <1>7, <1>8, <1>9, <1>10

(* A string that satisfies a comparison is not rejected by a zone map that covers
   it; with NOT_EQUAL, only if the string is kept whole. *)
LEMMA StringScalarSound ==
  ASSUME NEW z, NEW v \in Seq(Nat), CoversString(z, v),
         NEW op \in ScalarOps, NEW c \in Seq(Nat), OpHolds(op, CompareString(v, c)),
         op = "NOT_EQUAL" => Len(v) <= Width
  PROVE  ZoneMapCheckString(z, op, c)
<1>1. /\ z.min \in Seq(Nat) /\ z.max \in Seq(Nat) /\ Len(z.max) <= Width
      /\ MinCovers(z, v) /\ MaxCovers(z, v)
  BY DEF CoversString
<1>2. /\ ~AnyLEString(z, c) => Precedes(c, z.min)
      /\ ~AnyLTString(z, c) => c = z.min \/ Precedes(c, z.min)
  BY <1>1, MinTests
<1>3. /\ ~AnyGEString(z, c) => Precedes(v, c)
      /\ ~AnyGTString(z, c) => v = c \/ Precedes(v, c)
  BY <1>1, MaxTests
<1>4. /\ Precedes(c, z.min) => Precedes(c, v)
      /\ c = z.min => c = v \/ Precedes(c, v)
  <2>1. ASSUME Precedes(c, z.min), Precedes(z.min, v) PROVE Precedes(c, v)
    <3>1. PICK i \in Nat \ {0} : PrecedesAt(c, z.min, i)
      BY <2>1 DEF Precedes
    <3>2. PICK k \in Nat \ {0} : PrecedesAt(z.min, v, k)
      BY <2>1 DEF Precedes
    <3> QED BY <1>1, <3>1, <3>2, PrecedesTransitive DEF Precedes
  <2> QED BY <1>1, <2>1 DEF MinCovers
<1>5. ~(Precedes(v, c) /\ Precedes(c, v)) /\ (v = c => ~Precedes(v, c) /\ ~Precedes(c, v))
  BY NotBoth, NotPrecedesItself
<1>6. /\ ~AnyLEString(z, c) => Precedes(c, v)
      /\ ~AnyLTString(z, c) => c = v \/ Precedes(c, v)
  BY <1>2, <1>4
<1> DEFINE cmp == CompareString(v, c)
<1>7. /\ cmp \in {-1, 0, 1} /\ OpHolds(op, cmp)
      /\ cmp = 0 <=> v = c
      /\ cmp < 0 <=> Precedes(v, c)
      /\ cmp > 0 <=> Precedes(c, v)
  BY CompareFacts
<1> HIDE DEF cmp
<1>8. CASE op = "EQUAL"
  <2>1. v = c
    BY <1>7, <1>8 DEF OpHolds
  <2> QED BY <1>3, <1>5, <1>6, <1>8, <2>1 DEF ZoneMapCheckString, ContainsKeyString
<1>9. CASE op = "GREATER_THAN"
  <2>1. Precedes(c, v)
    BY <1>7, <1>9 DEF OpHolds
  <2> QED BY <1>3, <1>5, <1>9, <2>1 DEF ZoneMapCheckString
<1>10. CASE op = "GREATER_THAN_OR_EQUAL"
  <2>1. v = c \/ Precedes(c, v)
    BY <1>7, <1>10 DEF OpHolds
  <2> QED BY <1>3, <1>5, <1>10, <2>1 DEF ZoneMapCheckString
<1>11. CASE op = "LESS_THAN"
  <2>1. Precedes(v, c)
    BY <1>7, <1>11 DEF OpHolds
  <2> QED BY <1>5, <1>6, <1>11, <2>1 DEF ZoneMapCheckString
<1>12. CASE op = "LESS_THAN_OR_EQUAL"
  <2>1. v = c \/ Precedes(v, c)
    BY <1>7, <1>12 DEF OpHolds
  <2> QED BY <1>5, <1>6, <1>12, <2>1 DEF ZoneMapCheckString
<1>13. CASE op = "NOT_EQUAL"
  <2>1. v # c
    BY <1>7, <1>13 DEF OpHolds
  <2>2. SUFFICES ASSUME Len(z.min) = Len(z.max), Len(z.min) = Len(c),
                        Memcmp(z.min, c, Len(c)) = 0, Memcmp(z.max, c, Len(c)) = 0
                 PROVE  FALSE
    BY <1>13 DEF ZoneMapCheckString
  <2>3. z.min = c /\ z.max = c
    <3>1. Shorter(z.min, c) = Len(c) /\ Shorter(z.max, c) = Len(c) /\ Len(c) \in Nat
      BY <2>2, LenProperties DEF Shorter
    <3>2. CompareString(z.min, c) = 0 /\ CompareString(z.max, c) = 0
      BY <2>2, <3>1 DEF CompareString
    <3> QED BY <1>1, <3>2, CompareFacts
  <2>4. Precedes(c, v)
    BY <1>1, <2>1, <2>3 DEF MinCovers
  <2>5. ~Precedes(v, c)
    BY <1>5, <2>4
  <2>6. \A i \in 1 .. Width : ByteOf(v, i) = ByteOf(c, i)
    <3>1. ~(\E i \in 1 .. Width : PrecedesAt(v, c, i))
      BY <2>5 DEF Precedes
    <3> QED BY <1>1, <2>1, <2>3, <3>1 DEF MaxCovers
  <2>7. ASSUME NEW i \in Nat \ {0} PROVE ByteOf(v, i) = ByteOf(c, i)
    <3>1. CASE i <= Width
      BY <2>6, <3>1, ZoneMapAssumption
    <3>2. CASE ~(i <= Width)
      <4>1. Len(v) < i /\ Len(c) < i
        BY <1>1, <1>13, <2>3, <3>2, ZoneMapAssumption, LenProperties
      <4> QED BY <4>1, LenProperties DEF ByteOf
    <3> QED BY <3>1, <3>2
  <2> QED BY <2>1, <2>7, SameBytes
<1> QED BY <1>8, <1>9, <1>10, <1>11, <1>12, <1>13 DEF ScalarOps

(* The zone maps of a string column reject no filter that a covered string
   satisfies, cut minima and maxima included, except NOT_EQUAL of a cut string. *)
THEOREM CoverOfStringIsSound ==
  ASSUME NEW z, NEW v \in Seq(Nat) \cup {Null}, NEW f \in Filter(Seq(Nat)),
         z.inited /\ v # Null => CoversString(z, v),
         f.op = "NOT_EQUAL" /\ v # Null => Len(v) <= Width,
         RowPassesFilter("string", f, v)
  PROVE  EvalFilterOnZoneMap("string", f, z)
<1> SUFFICES ASSUME z.inited, f.op \notin NullOps
             PROVE  EvalFilterOnZoneMap("string", f, z)
  BY DEF EvalFilterOnZoneMap
<1>1. v # Null
  BY DEF RowPassesFilter, NullOps, ScalarOps
<1>2. v \in Seq(Nat) /\ CoversString(z, v)
  BY <1>1
<1>3. CASE f.op = "IN_SET"
  <2>1. PICK c \in f.in_values : Compare("string", v, c) = 0
    BY <1>3 DEF RowPassesFilter, NullOps, ScalarOps
  <2>2. c \in Seq(Nat)
    BY <1>3, <2>1, FilterTypes
  <2>3. OpHolds("EQUAL", CompareString(v, c))
    BY <2>1 DEF Compare, OpHolds
  <2>4. ZoneMapCheckString(z, "EQUAL", c)
    BY <1>2, <2>2, <2>3, StringScalarSound DEF ScalarOps
  <2> QED BY <1>3, <2>1, <2>4 DEF EvalFilterOnZoneMap, ZoneMapCheckScalar
<1>4. CASE f.op \in ScalarOps
  <2>1. f.constant \in Seq(Nat) /\ OpHolds(f.op, CompareString(v, f.constant))
    BY <1>4, FilterTypes DEF RowPassesFilter, NullOps, ScalarOps, Compare
  <2>2. ZoneMapCheckString(z, f.op, f.constant)
    BY <1>1, <1>2, <1>4, <2>1, StringScalarSound
  <2> QED BY <1>4, <2>2 DEF EvalFilterOnZoneMap, ZoneMapCheckScalar
<1> QED BY <1>3, <1>4, FilterTypes
===========================================================================
