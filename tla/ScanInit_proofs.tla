--------------------------- MODULE ScanInit_proofs ---------------------------
(***************************************************************************)
(* What holds of the plans of TAEScanInit for all bind data: types, no     *)
(* block queued twice, no matching block lost to pruning, exact counts of  *)
(* what is skipped, and a cut that keeps the top rows.                     *)
(***************************************************************************)
EXTENDS ScanInit, ZoneMap_proofs, FiniteSetTheorems

---------------------------------------------------------------------------
(* Natural numbers and sums *)

(* Induction, for the set of the numbers that have a property. *)
(* The table of partial sums that SumTo is defined by. *)
IsSum(total, a, n) == total = [i \in 0 .. n |-> IF i = 0 THEN 0 ELSE total[i - 1] + a[i]]

LEMMA SumExists ==
  ASSUME NEW a, NEW n \in Nat
  PROVE  \E total : IsSum(total, a, n)
<1> DEFINE S == {k \in Nat : \E total : IsSum(total, a, k)}
<1>1. 0 \in S
  <2>1. IsSum([i \in 0 .. 0 |-> 0], a, 0)
    BY DEF IsSum
  <2> QED BY <2>1
<1>2. ASSUME NEW k \in Nat, k \in S PROVE k + 1 \in S
  <2>1. PICK t : IsSum(t, a, k)
    BY <1>2
  <2> DEFINE u == [i \in 0 .. k + 1 |-> IF i = k + 1 THEN t[k] + a[k + 1] ELSE t[i]]
  <2>2. \A i \in 0 .. k : u[i] = t[i] /\ t[i] = IF i = 0 THEN 0 ELSE t[i - 1] + a[i]
    BY <2>1 DEF IsSum
  <2>3. u[k + 1] = t[k] + a[k + 1] /\ u[k] = t[k]
    OBVIOUS
  <2>4. u = [i \in 0 .. k + 1 |-> u[i]]
    OBVIOUS
  <2> HIDE DEF u
  <2>5. \A i \in 0 .. k + 1 : u[i] = IF i = 0 THEN 0 ELSE u[i - 1] + a[i]
    <3> TAKE i \in 0 .. k + 1
    <3>1. CASE i = k + 1
      BY <2>3, <3>1
    <3>2. CASE i # k + 1
      <4>1. i \in 0 .. k /\ (i # 0 => i - 1 \in 0 .. k)
        BY <3>2
      <4> QED BY <2>2, <4>1
    <3> QED BY <3>1, <3>2
  <2>6. IsSum(u, a, k + 1)
    BY <2>4, <2>5 DEF IsSum
  <2> QED BY <2>6
<1> HIDE DEF S
<1>3. Nat \subseteq S
  BY <1>1, <1>2, NatSetInduction
<1> QED BY <1>3 DEF S

LEMMA SumIsSum ==
  ASSUME NEW a, NEW n \in Nat
  PROVE  \E total : IsSum(total, a, n) /\ SumTo(a, n) = total[n]
<1> DEFINE f == CHOOSE t : t = [i \in 0 .. n |-> IF i = 0 THEN 0 ELSE t[i - 1] + a[i]]
<1>1. SumTo(a, n) = f[n]
  BY DEF SumTo
<1>2. IsSum(f, a, n)
  BY SumExists DEF IsSum
<1> QED BY <1>1, <1>2

(* Two tables agree as far as both go and the numbers added do. *)
LEMMA SumUnique ==
  ASSUME NEW a, NEW b, NEW n \in Nat, NEW m \in Nat, NEW t, NEW u,
         IsSum(t, a, n), IsSum(u, b, m)
  PROVE  \A k \in Nat : k <= n /\ k <= m /\ (\A i \in 1 .. k : a[i] = b[i]) => t[k] = u[k]
<1> DEFINE S == {k \in Nat : k <= n /\ k <= m /\ (\A i \in 1 .. k : a[i] = b[i]) => t[k] = u[k]}
<1>0. /\ \A i \in 0 .. n : t[i] = IF i = 0 THEN 0 ELSE t[i - 1] + a[i]
      /\ \A i \in 0 .. m : u[i] = IF i = 0 THEN 0 ELSE u[i - 1] + b[i]
  BY DEF IsSum
<1>1. 0 \in S
  BY <1>0
<1>2. ASSUME NEW k \in Nat, k \in S PROVE k + 1 \in S
  <2> SUFFICES ASSUME k + 1 <= n, k + 1 <= m, \A i \in 1 .. k + 1 : a[i] = b[i]
               PROVE  t[k + 1] = u[k + 1]
    OBVIOUS
  <2>1. t[k] = u[k]
    BY <1>2
  <2>2. t[k + 1] = t[k] + a[k + 1] /\ u[k + 1] = u[k] + b[k + 1]
    BY <1>0
  <2> QED BY <2>1, <2>2
<1> HIDE DEF S
<1>3. Nat \subseteq S
  BY <1>1, <1>2, NatSetInduction
<1> QED BY <1>3 DEF S

(* What sums are used for. *)
LEMMA SumEmpty == ASSUME NEW a PROVE SumTo(a, 0) = 0
  BY SumIsSum DEF IsSum

LEMMA SumNext ==
  ASSUME NEW a, NEW n \in Nat
  PROVE  SumTo(a, n + 1) = SumTo(a, n) + a[n + 1]
<1>1. PICK t : IsSum(t, a, n) /\ SumTo(a, n) = t[n]
  BY SumIsSum
<1>2. PICK u : IsSum(u, a, n + 1) /\ SumTo(a, n + 1) = u[n + 1]
  BY SumIsSum
<1>3. t[n] = u[n]
  BY <1>1, <1>2, SumUnique
<1>4. u[n + 1] = u[n] + a[n + 1]
  BY <1>2 DEF IsSum
<1> QED BY <1>1, <1>2, <1>3, <1>4

LEMMA SumSame ==
  ASSUME NEW a, NEW b, NEW n \in Nat, \A i \in 1 .. n : a[i] = b[i]
  PROVE  SumTo(a, n) = SumTo(b, n)
<1>1. PICK t : IsSum(t, a, n) /\ SumTo(a, n) = t[n]
  BY SumIsSum
<1>2. PICK u : IsSum(u, b, n) /\ SumTo(b, n) = u[n]
  BY SumIsSum
<1> QED BY <1>1, <1>2, SumUnique

LEMMA SumType ==
  ASSUME NEW a, NEW n \in Nat, \A i \in 1 .. n : a[i] \in Nat
  PROVE  SumTo(a, n) \in Nat
<1> DEFINE S == {k \in Nat : k <= n => SumTo(a, k) \in Nat}
<1>1. 0 \in S
  BY SumEmpty
<1>2. ASSUME NEW k \in Nat, k \in S PROVE k + 1 \in S
  BY <1>2, SumNext
<1> HIDE DEF S
<1>3. Nat \subseteq S
  BY <1>1, <1>2, NatSetInduction
<1> QED BY <1>3 DEF S

LEMMA SumGrows ==
  ASSUME NEW a, NEW n \in Nat, NEW m \in 0 .. n, \A i \in 1 .. n : a[i] \in Nat
  PROVE  SumTo(a, m) <= SumTo(a, n)
<1> DEFINE S == {k \in Nat : m <= k /\ k <= n => SumTo(a, m) <= SumTo(a, k)}
<1>1. 0 \in S
  BY SumEmpty
<1>2. ASSUME NEW k \in Nat, k \in S PROVE k + 1 \in S
  <2> SUFFICES ASSUME m <= k + 1, k + 1 <= n PROVE SumTo(a, m) <= SumTo(a, k + 1)
    OBVIOUS
  <2>1. PICK x \in Nat, y \in Nat, z \in Nat :
          x = SumTo(a, m) /\ y = SumTo(a, k) /\ z = a[k + 1]
    BY SumType
  <2>2. SumTo(a, k + 1) = y + z
    BY <2>1, SumNext
  <2>3. CASE m = k + 1
    BY <2>1, <2>2, <2>3
  <2>4. CASE m # k + 1
    <3>1. x <= y
      BY <1>2, <2>1, <2>4
    <3> QED BY <2>1, <2>2, <3>1
  <2> QED BY <2>3, <2>4
<1> HIDE DEF S
<1>3. Nat \subseteq S
  BY <1>1, <1>2, NatSetInduction
<1> QED BY <1>3 DEF S

LEMMA SumMonotone ==
  ASSUME NEW a, NEW b, NEW n \in Nat,
         \A i \in 1 .. n : a[i] \in Nat /\ b[i] \in Nat /\ a[i] <= b[i]
  PROVE  SumTo(a, n) <= SumTo(b, n)
<1> DEFINE S == {k \in Nat : k <= n => SumTo(a, k) <= SumTo(b, k)}
<1>1. 0 \in S
  BY SumEmpty
<1>2. ASSUME NEW k \in Nat, k \in S PROVE k + 1 \in S
  <2> SUFFICES ASSUME k + 1 <= n PROVE SumTo(a, k + 1) <= SumTo(b, k + 1)
    OBVIOUS
  <2>1. PICK u \in Nat, v \in Nat, x \in Nat, y \in Nat :
          u = SumTo(a, k) /\ v = SumTo(b, k) /\ x = a[k + 1] /\ y = b[k + 1]
    BY SumType
  <2>2. SumTo(a, k + 1) = u + x /\ SumTo(b, k + 1) = v + y
    BY <2>1, SumNext
  <2>3. u <= v /\ x <= y
    BY <1>2, <2>1
  <2> QED BY <2>2, <2>3
<1> HIDE DEF S
<1>3. Nat \subseteq S
  BY <1>1, <1>2, NatSetInduction
<1> QED BY <1>3 DEF S

(* Counting: a function that repeats nothing, and sets that share nothing. *)
LEMMA CountOfImage ==
  ASSUME NEW m \in Nat, NEW f, \A i, j \in 1 .. m : i # j => f[i] # f[j]
  PROVE  /\ IsFiniteSet({f[i] : i \in 1 .. m})
         /\ Cardinality({f[i] : i \in 1 .. m}) = m
<1> DEFINE T == {f[i] : i \in 1 .. m}
<1>1. IsFiniteSet(1 .. m) /\ Cardinality(1 .. m) = m
  BY FS_Interval
<1>2. [i \in 1 .. m |-> f[i]] \in Bijection(1 .. m, T)
  BY DEF Bijection, Injection, Surjection, IsInjective
<1>3. ExistsBijection(1 .. m, T)
  BY <1>2 DEF ExistsBijection
<1> HIDE DEF T
<1>4. IsFiniteSet(T) /\ Cardinality(T) = m
  BY <1>1, <1>3, FS_Bijection
<1> QED BY <1>4 DEF T

LEMMA CountOfDisjoint ==
  ASSUME NEW n \in Nat, NEW F, NEW c,
         \A k \in 1 .. n : IsFiniteSet(F[k]) /\ Cardinality(F[k]) = c[k],
         \A j, k \in 1 .. n : j # k => F[j] \cap F[k] = {}
  PROVE  /\ IsFiniteSet(UNION {F[k] : k \in 1 .. n})
         /\ Cardinality(UNION {F[k] : k \in 1 .. n}) = SumTo(c, n)
<1> DEFINE U(m) == UNION {F[k] : k \in 1 .. m}
           S == {m \in Nat : m <= n => IsFiniteSet(U(m)) /\ Cardinality(U(m)) = SumTo(c, m)}
<1>1. 0 \in S
  <2>1. U(0) = {}
    OBVIOUS
  <2> HIDE DEF U
  <2> QED BY <2>1, FS_EmptySet, SumEmpty
<1>2. ASSUME NEW m \in Nat, m \in S PROVE m + 1 \in S
  <2> SUFFICES ASSUME m + 1 <= n
               PROVE  IsFiniteSet(U(m + 1)) /\ Cardinality(U(m + 1)) = SumTo(c, m + 1)
    OBVIOUS
  <2>1. IsFiniteSet(U(m)) /\ Cardinality(U(m)) = SumTo(c, m)
    BY <1>2
  <2>2. m + 1 \in 1 .. n /\ \A k \in 1 .. m : k \in 1 .. n /\ k # m + 1
    OBVIOUS
  <2>3. 1 .. m + 1 = (1 .. m) \cup {m + 1}
    OBVIOUS
  <2>4. U(m + 1) = U(m) \cup F[m + 1]
    BY <2>3
  <2>5. U(m) \cap F[m + 1] = {}
    BY <2>2
  <2>6. IsFiniteSet(F[m + 1]) /\ Cardinality(F[m + 1]) = c[m + 1]
    BY <2>2
  <2>7. IsFiniteSet(U(m) \cup F[m + 1])
    BY <2>1, <2>6, FS_Union
  <2>8. Cardinality(U(m) \cup F[m + 1]) = Cardinality(U(m)) + Cardinality(F[m + 1])
    <3> HIDE DEF U, S
    <3>1. Cardinality(U(m) \cup F[m + 1])
            = Cardinality(U(m)) + Cardinality(F[m + 1]) - Cardinality(U(m) \cap F[m + 1])
      BY <2>1, <2>6, FS_Union
    <3>2. Cardinality(U(m) \cap F[m + 1]) = 0
      BY <2>5, FS_EmptySet
    <3>3. Cardinality(U(m)) \in Nat /\ Cardinality(F[m + 1]) \in Nat
      BY <2>1, <2>6, FS_CardinalityType
    <3> QED BY <3>1, <3>2, <3>3
  <2> HIDE DEF U, S
  <2> QED BY <2>1, <2>4, <2>6, <2>7, <2>8, SumNext
<1>3. Nat \subseteq S
  <2> HIDE DEF S
  <2> QED BY <1>1, <1>2, NatSetInduction
<1> QED BY <1>3

---------------------------------------------------------------------------
(* The bind data and the plan *)

LEMMA BindFacts ==
  ASSUME TypeOK
  PROVE  /\ WellFormedBind(bind)
         /\ Len(bind.objects) \in Nat
         /\ \A o \in 1 .. Len(bind.objects) :
              /\ bind.objects[o].blocks \in Nat
              /\ Len(bind.objects[o].file) \in Nat
              /\ DOMAIN bind.objects[o].file = 1 .. Len(bind.objects[o].file)
<1>1. WellFormedBind(bind)
  BY ScanInitAssumption DEF TypeOK
<1>2. ASSUME NEW o \in 1 .. Len(bind.objects)
      PROVE  /\ bind.objects[o].blocks \in Nat
             /\ Len(bind.objects[o].file) \in Nat
             /\ DOMAIN bind.objects[o].file = 1 .. Len(bind.objects[o].file)
  <2>1. WellFormedObject(bind.objects[o], bind.sort_column)
    BY <1>1 DEF WellFormedBind
  <2> QED BY <2>1, LenProperties DEF WellFormedObject
<1> QED BY <1>1, <1>2 DEF WellFormedBind

(* The manifest's blocks of an object as a sequence. *)
LEMMA ManifestFacts ==
  ASSUME TypeOK, NEW o \in 1 .. Len(bind.objects)
  PROVE  /\ ManifestUnits(o) \in Seq(UnitsOfBind)
         /\ Len(ManifestUnits(o)) = bind.objects[o].blocks
         /\ \A b \in 1 .. bind.objects[o].blocks : ManifestUnits(o)[b] = Unit(o, b)
<1>1. bind.objects[o].blocks \in Nat
  BY BindFacts
<1>2. \A b \in 1 .. bind.objects[o].blocks : Unit(o, b) \in UnitsOfBind
  BY <1>1 DEF Unit, UnitsOfBind
<1>3. ManifestUnits(o) \in [1 .. bind.objects[o].blocks -> UnitsOfBind]
  BY <1>2 DEF ManifestUnits
<1>4. ManifestUnits(o) \in Seq(UnitsOfBind)
  BY <1>1, <1>3
<1>5. Len(ManifestUnits(o)) = bind.objects[o].blocks
  BY <1>1, <1>3, <1>4, LenProperties
<1> QED BY <1>4, <1>5 DEF ManifestUnits

(* The units queued so far. *)
LEMMA PlanFacts ==
  ASSUME TypeOK
  PROVE  /\ work_units \in Seq(UnitsOfBind)
         /\ Len(work_units) \in Nat /\ DOMAIN work_units = 1 .. Len(work_units)
         /\ \A i \in DOMAIN work_units :
              /\ work_units[i] \in UnitsOfBind
              /\ work_units[i].object_idx \in Nat /\ work_units[i].block_idx \in Nat
         /\ obj \in Nat /\ blk \in Nat
<1>1. /\ work_units \in Seq(UnitsOfBind)
      /\ Len(work_units) \in Nat /\ DOMAIN work_units = 1 .. Len(work_units)
  BY LenProperties DEF TypeOK
<1>2. \A i \in DOMAIN work_units : work_units[i] \in UnitsOfBind
  BY <1>1, ElementOfSeq
<1>3. \A u \in UnitsOfBind : u.object_idx \in Nat /\ u.block_idx \in Nat
  BY BindFacts DEF UnitsOfBind
<1>4. obj \in Nat /\ blk \in Nat
  BY BindFacts DEF TypeOK
<1> QED BY <1>1, <1>2, <1>3, <1>4

(* Sequences without repetitions and without a common element. *)
LEMMA ConcatDistinct ==
  ASSUME NEW S, NEW s \in Seq(S), NEW t \in Seq(S),
         \A i, j \in DOMAIN s : i # j => s[i] # s[j],
         \A i, j \in DOMAIN t : i # j => t[i] # t[j],
         \A i \in DOMAIN s, j \in DOMAIN t : s[i] # t[j]
  PROVE  /\ \A i, j \in DOMAIN (s \o t) : i # j => (s \o t)[i] # (s \o t)[j]
         /\ \A i \in DOMAIN (s \o t) : \/ \E j \in DOMAIN s : (s \o t)[i] = s[j]
                                     \/ \E j \in DOMAIN t : (s \o t)[i] = t[j]
         /\ \A i \in DOMAIN s : \E j \in DOMAIN (s \o t) : (s \o t)[j] = s[i]
         /\ \A i \in DOMAIN t : \E j \in DOMAIN (s \o t) : (s \o t)[j] = t[i]
<1>1. /\ Len(s) \in Nat /\ DOMAIN s = 1 .. Len(s)
      /\ Len(t) \in Nat /\ DOMAIN t = 1 .. Len(t)
  BY LenProperties
<1>2. /\ DOMAIN (s \o t) = 1 .. Len(s) + Len(t)
      /\ \A i \in 1 .. Len(s) + Len(t) :
           (s \o t)[i] = IF i <= Len(s) THEN s[i] ELSE t[i - Len(s)]
  BY ConcatProperties, LenProperties
<1>3. \A i \in 1 .. Len(s) : i \in DOMAIN (s \o t) /\ (s \o t)[i] = s[i]
  BY <1>1, <1>2
<1>4. \A i \in 1 .. Len(t) : i + Len(s) \in DOMAIN (s \o t) /\ (s \o t)[i + Len(s)] = t[i]
  BY <1>1, <1>2
<1>5. \A i \in DOMAIN (s \o t) : \/ i \in DOMAIN s
                                \/ (i - Len(s) \in DOMAIN t /\ (s \o t)[i] = t[i - Len(s)])
  <2> TAKE i \in DOMAIN (s \o t)
  <2>1. i \in 1 .. Len(s) + Len(t)
    BY <1>2
  <2>2. CASE i <= Len(s)
    BY <1>1, <2>1, <2>2
  <2>3. CASE ~(i <= Len(s))
    BY <1>1, <1>2, <2>1, <2>3
  <2> QED BY <2>2, <2>3
<1>6. ASSUME NEW i \in DOMAIN (s \o t), NEW j \in DOMAIN (s \o t), i # j
      PROVE  (s \o t)[i] # (s \o t)[j]
  <2>1. i \in Int /\ j \in Int
    BY <1>1, <1>2
  <2>2. CASE i \in DOMAIN s /\ j \in DOMAIN s
    BY <1>1, <1>3, <1>6, <2>2
  <2>3. CASE i \notin DOMAIN s /\ j \notin DOMAIN s
    <3>1. i - Len(s) # j - Len(s)
      BY <1>1, <1>6, <2>1
    <3> QED BY <1>5, <2>3, <3>1
  <2>4. CASE i \in DOMAIN s /\ j \notin DOMAIN s
    BY <1>1, <1>3, <1>5, <2>4
  <2>5. CASE i \notin DOMAIN s /\ j \in DOMAIN s
    BY <1>1, <1>3, <1>5, <2>5
  <2> QED BY <2>2, <2>3, <2>4, <2>5
<1> QED BY <1>1, <1>3, <1>4, <1>5, <1>6

(* Sorting permutes the units. *)
LEMMA ReorderingFacts ==
  ASSUME TypeOK, NEW units \in Reorderings(work_units)
  PROVE  /\ units \in Seq(UnitsOfBind)
         /\ DOMAIN units = DOMAIN work_units
         /\ UnitsDistinct =>
              \A i, j \in DOMAIN units : i # j => units[i] # units[j]
         /\ {units[i] : i \in DOMAIN units} = Planned
<1> DEFINE D == DOMAIN work_units
<1>1. PICK p \in Bijection(D, D) : units = [i \in D |-> work_units[p[i]]]
  BY DEF Reorderings
<1>2. /\ p \in [D -> D]
      /\ \A i, j \in D : i # j => p[i] # p[j]
      /\ \A j \in D : \E i \in D : p[i] = j
  BY <1>1 DEF Bijection, Injection, Surjection, IsInjective
<1>3. /\ work_units \in Seq(UnitsOfBind)
      /\ Len(work_units) \in Nat /\ D = 1 .. Len(work_units)
  BY LenProperties DEF TypeOK
<1>4. \A i \in D : work_units[p[i]] \in UnitsOfBind
  BY <1>2, <1>3, ElementOfSeq
<1>5. units \in [1 .. Len(work_units) -> UnitsOfBind]
  BY <1>1, <1>3, <1>4
<1>6. units \in Seq(UnitsOfBind)
  BY <1>3, <1>5
<1>7. {units[i] : i \in DOMAIN units} = Planned
  BY <1>1, <1>2 DEF Planned
<1> QED BY <1>1, <1>2, <1>6, <1>7 DEF UnitsDistinct

(* Truncation keeps a prefix. *)
LEMMA TruncateFacts ==
  ASSUME TypeOK, Truncate
  PROVE  /\ work_units' \in Seq(UnitsOfBind)
         /\ DOMAIN work_units' \subseteq DOMAIN work_units
         /\ \A i \in DOMAIN work_units' : work_units'[i] = work_units[i]
<1>1. /\ work_units \in Seq(UnitsOfBind)
      /\ Len(work_units) \in Nat /\ DOMAIN work_units = 1 .. Len(work_units)
  BY LenProperties DEF TypeOK
<1>2. CASE UNCHANGED work_units
  BY <1>1, <1>2
<1>3. CASE \E i \in DOMAIN work_units : work_units' = SubSeq(work_units, 1, i)
  <2>1. PICK i \in 1 .. Len(work_units) : work_units' = SubSeq(work_units, 1, i)
    BY <1>1, <1>3
  <2>2. \A j \in 1 .. i : work_units[j] \in UnitsOfBind
    BY <1>1, ElementOfSeq
  <2>3. /\ SubSeq(work_units, 1, i) \in Seq(UnitsOfBind)
        /\ Len(SubSeq(work_units, 1, i)) = i
        /\ \A j \in 1 .. i : SubSeq(work_units, 1, i)[j] = work_units[j]
    BY <1>1, <2>2, SubSeqProperties
  <2>4. DOMAIN work_units' = 1 .. i
    BY <2>1, <2>3, LenProperties
  <2> QED BY <1>1, <2>1, <2>3, <2>4
<1> QED BY <1>2, <1>3 DEF Truncate

---------------------------------------------------------------------------
(* Types *)

LEMMA TypeInit == Init => TypeOK
<1> SUFFICES ASSUME Init PROVE TypeOK
  OBVIOUS
<1>1. WellFormedBind(bind)
  BY ScanInitAssumption DEF Init
<1>2. Len(bind.objects) \in Nat
  BY <1>1 DEF WellFormedBind
<1>3. work_units \in Seq(UnitsOfBind)
  BY EmptySeq DEF Init
<1>4. obj \in 1 .. Len(bind.objects) + 1
  BY <1>2 DEF Init
<1>5. /\ bind \in Binds /\ phase = "object" /\ blk = 1 /\ any_block_passes = FALSE
      /\ blocks_skipped = 0 /\ objects_skipped = 0
  BY DEF Init
<1>6. phase \in {"object", "blocks", "order", "truncate", "ready", "failed"} /\ phase # "blocks"
  BY <1>5
<1>7. blk \in Nat \ {0}
  BY <1>5
<1>8. any_block_passes \in BOOLEAN
  BY <1>5
<1>9. blocks_skipped \in Nat /\ objects_skipped \in Nat
  BY <1>5
<1> QED BY <1>3, <1>4, <1>5, <1>6, <1>7, <1>8, <1>9 DEF TypeOK

LEMMA TypeStep == TypeOK /\ [Next]_init_vars => TypeOK'
<1> SUFFICES ASSUME TypeOK, [Next]_init_vars PROVE TypeOK'
  OBVIOUS
<1> USE BindFacts
<1> work_units \in Seq(UnitsOfBind)
  BY DEF TypeOK
<1>0. UnitsOfBind' = UnitsOfBind
  BY DEF UnitsOfBind, Next, InitStep, ListObject, SkipObject, ReadMeta, Fallback, KeepBlock,
         DropBlock, EndObject, EndPruning, SortUnits, SortFails, Truncate, Returned, init_vars
<1> USE <1>0
<1>1. CASE UNCHANGED init_vars
  BY <1>1 DEF init_vars, TypeOK
<1>2. CASE ListObject \/ Fallback
  <2>1. obj \in 1 .. Len(bind.objects)
    BY <1>2 DEF ListObject, Fallback, AtObject, TypeOK
  <2>2. work_units \o ManifestUnits(obj) \in Seq(UnitsOfBind)
    BY <2>1, ManifestFacts, ConcatProperties
  <2>3. /\ bind' = bind /\ phase' = "object" /\ obj' = obj + 1
        /\ work_units' \in Seq(UnitsOfBind')
        /\ UNCHANGED <<blk, any_block_passes, blocks_skipped, objects_skipped>>
    BY <1>2, <2>2 DEF ListObject, Fallback, AtObject, MayThrow
  <2>4. obj' \in 1 .. Len(bind'.objects) + 1
    BY <2>1, <2>3
  <2> QED BY <2>3, <2>4 DEF TypeOK
<1>3. CASE SkipObject
  <2>1. obj \in 1 .. Len(bind.objects)
    BY <1>3 DEF SkipObject, AtObject, TypeOK
  <2>2. BlocksOfSkipped(bind.objects[obj]) \in Nat
    BY <2>1 DEF BlocksOfSkipped
  <2>3. /\ bind' = bind /\ phase' = "object" /\ obj' = obj + 1
        /\ blocks_skipped' \in Nat /\ objects_skipped' \in Nat
        /\ UNCHANGED <<work_units, blk, any_block_passes>>
    BY <1>3, <2>2 DEF SkipObject, AtObject, TypeOK
  <2>4. obj' \in 1 .. Len(bind'.objects) + 1
    BY <2>1, <2>3
  <2> QED BY <2>3, <2>4 DEF TypeOK
<1>4. CASE ReadMeta
  <2>1. /\ bind' = bind /\ phase' = "blocks" /\ obj' = obj /\ blk' = 1
        /\ any_block_passes' \in BOOLEAN
        /\ UNCHANGED <<work_units, blocks_skipped, objects_skipped>>
        /\ obj <= Len(bind.objects)
    BY <1>4 DEF ReadMeta, AtObject
  <2> QED BY <2>1 DEF TypeOK
<1>5. CASE KeepBlock
  <2>1. Unit(obj, blk) \in UnitsOfBind
    BY <1>5 DEF KeepBlock, AtBlock, Unit, UnitsOfBind, TypeOK
  <2>2. Append(work_units, Unit(obj, blk)) \in Seq(UnitsOfBind)
    BY <2>1, AppendProperties
  <2> QED BY <1>5, <2>2 DEF KeepBlock, AtBlock, TypeOK
<1>6. CASE DropBlock
  BY <1>6 DEF DropBlock, AtBlock, TypeOK
<1>7. CASE EndObject
  BY <1>7 DEF EndObject, TypeOK
<1>8. CASE EndPruning
  BY <1>8 DEF EndPruning, TypeOK
<1>9. CASE SortUnits
  <2>1. work_units' \in Seq(UnitsOfBind)
    BY <1>9, ReorderingFacts DEF SortUnits
  <2> QED BY <1>9, <2>1 DEF SortUnits, TypeOK
<1>10. CASE SortFails
  BY <1>10 DEF SortFails, TypeOK
<1>11. CASE Truncate
  <2>1. work_units' \in Seq(UnitsOfBind)
    BY <1>11, TruncateFacts
  <2> QED BY <1>11, <2>1 DEF Truncate, TypeOK
<1>12. CASE Returned
  BY <1>12 DEF Returned, init_vars, TypeOK
<1> QED BY <1>1, <1>2, <1>3, <1>4, <1>5, <1>6, <1>7, <1>8, <1>9, <1>10, <1>11, <1>12
        DEF Next, InitStep

(* The state of TAEScanInit is well typed. *)
THEOREM TypeCorrect == Spec => []TypeOK
<1> QED BY TypeInit, TypeStep, PTL DEF Spec

---------------------------------------------------------------------------
(* No block twice *)

(* Units are queued object by object and, within one, block by block. *)
QueuedSoFar ==
  phase \in {"object", "blocks"} => \A i \in DOMAIN work_units :
    \/ work_units[i].object_idx < obj
    \/ /\ phase = "blocks" /\ work_units[i].object_idx = obj
       /\ work_units[i].block_idx < blk

DistinctInv == UnitsDistinct /\ QueuedSoFar

LEMMA ManifestKeepsDistinct ==
  ASSUME TypeOK, DistinctInv, obj \in 1 .. Len(bind.objects),
         phase = "object", phase' = "object", obj' = obj + 1,
         work_units' = work_units \o ManifestUnits(obj)
  PROVE  DistinctInv'
<1> DEFINE m == ManifestUnits(obj)
<1> HIDE DEF m
<1>1. /\ m \in Seq(UnitsOfBind)
      /\ \A i \in DOMAIN m : m[i] = Unit(obj, i)
  BY ManifestFacts, LenProperties DEF m
<1>2. \A i \in DOMAIN work_units : work_units[i].object_idx < obj
  BY DEF DistinctInv, QueuedSoFar
<1>3. \A i, j \in DOMAIN m : i # j => m[i] # m[j]
  BY <1>1 DEF Unit
<1>4. \A i \in DOMAIN work_units, j \in DOMAIN m : work_units[i] # m[j]
  BY <1>1, <1>2, PlanFacts DEF Unit
<1>5. work_units' = work_units \o m
  BY DEF m
<1>6. UnitsDistinct'
  BY <1>1, <1>3, <1>4, <1>5, PlanFacts, ConcatDistinct DEF DistinctInv, UnitsDistinct
<1>7. \A i \in DOMAIN work_units' : \/ \E j \in DOMAIN work_units : work_units'[i] = work_units[j]
                                  \/ \E j \in DOMAIN m : work_units'[i] = m[j]
  BY <1>1, <1>3, <1>4, <1>5, PlanFacts, ConcatDistinct DEF DistinctInv, UnitsDistinct
<1>8. \A j \in DOMAIN m : m[j].object_idx = obj
  BY <1>1 DEF Unit
<1>9. \A i \in DOMAIN work_units' : work_units'[i].object_idx < obj + 1
  <2> TAKE i \in DOMAIN work_units'
  <2>1. CASE \E j \in DOMAIN work_units : work_units'[i] = work_units[j]
    BY <2>1, <1>2, PlanFacts
  <2>2. CASE \E j \in DOMAIN m : work_units'[i] = m[j]
    BY <2>2, <1>8, PlanFacts
  <2> QED BY <1>7, <2>1, <2>2
<1> QED BY <1>6, <1>9 DEF DistinctInv, QueuedSoFar

LEMMA DistinctStep == TypeOK /\ DistinctInv /\ [Next]_init_vars => DistinctInv'
<1> SUFFICES ASSUME TypeOK, DistinctInv, [Next]_init_vars PROVE DistinctInv'
  OBVIOUS
<1>1. CASE UNCHANGED work_units /\ UNCHANGED <<phase, obj, blk>>
  BY <1>1 DEF DistinctInv, UnitsDistinct, QueuedSoFar
<1>2. CASE ListObject \/ Fallback
  <2>1. obj \in 1 .. Len(bind.objects)
    BY <1>2, BindFacts DEF ListObject, Fallback, AtObject, TypeOK
  <2> QED BY <1>2, <2>1, ManifestKeepsDistinct DEF ListObject, Fallback, AtObject, MayThrow
<1>3. CASE SkipObject \/ ReadMeta \/ EndObject \/ DropBlock
  <2>1. UNCHANGED work_units
    BY <1>3 DEF SkipObject, ReadMeta, EndObject, DropBlock
  <2>2. QueuedSoFar'
    <3>1. CASE SkipObject
      BY <3>1, <2>1, PlanFacts DEF SkipObject, AtObject, DistinctInv, QueuedSoFar
    <3>2. CASE ReadMeta
      BY <3>2, <2>1, PlanFacts DEF ReadMeta, AtObject, DistinctInv, QueuedSoFar
    <3>3. CASE EndObject
      BY <3>3, <2>1, PlanFacts DEF EndObject, DistinctInv, QueuedSoFar
    <3>4. CASE DropBlock
      BY <3>4, <2>1, PlanFacts DEF DropBlock, AtBlock, DistinctInv, QueuedSoFar
    <3> QED BY <1>3, <3>1, <3>2, <3>3, <3>4
  <2> QED BY <2>1, <2>2 DEF DistinctInv, UnitsDistinct
<1>4. CASE KeepBlock
  <2> DEFINE n == Len(work_units)
  <2>1. /\ phase = "blocks" /\ phase' = "blocks" /\ obj' = obj /\ blk' = blk + 1
        /\ work_units' = Append(work_units, Unit(obj, blk))
    BY <1>4 DEF KeepBlock, AtBlock
  <2>2. Unit(obj, blk) \in UnitsOfBind
    BY <2>1, BindFacts DEF Unit, UnitsOfBind, TypeOK
  <2>3. /\ n \in Nat /\ DOMAIN work_units = 1 .. n /\ DOMAIN work_units' = 1 .. n + 1
        /\ \A i \in 1 .. n : work_units'[i] = work_units[i]
        /\ work_units'[n + 1] = Unit(obj, blk)
    BY <2>1, <2>2, PlanFacts, AppendProperties, LenProperties
  <2>4. \A i \in DOMAIN work_units :
          \/ work_units[i].object_idx < obj
          \/ (work_units[i].object_idx = obj /\ work_units[i].block_idx < blk)
    BY <2>1 DEF DistinctInv, QueuedSoFar
  <2>5. \A i \in DOMAIN work_units : work_units[i] # Unit(obj, blk)
    BY <2>3, <2>4, PlanFacts DEF Unit
  <2>6. UnitsDistinct'
    <3> HIDE DEF n
    <3> SUFFICES ASSUME NEW i \in 1 .. n + 1, NEW j \in 1 .. n + 1, i # j
                 PROVE  work_units'[i] # work_units'[j]
      BY <2>3 DEF UnitsDistinct
    <3>1. (i \in 1 .. n \/ i = n + 1) /\ (j \in 1 .. n \/ j = n + 1)
      BY <2>3
    <3> QED BY <2>3, <2>5, <3>1 DEF UnitsDistinct, DistinctInv
  <2>7. QueuedSoFar'
    <3> HIDE DEF n
    <3> SUFFICES ASSUME NEW i \in 1 .. n + 1
                 PROVE  \/ work_units'[i].object_idx < obj
                        \/ (work_units'[i].object_idx = obj /\ work_units'[i].block_idx < blk + 1)
      BY <2>1, <2>3 DEF QueuedSoFar
    <3>1. CASE i \in 1 .. n
      BY <2>3, <2>4, <3>1, PlanFacts
    <3>2. CASE i = n + 1
      BY <2>3, <3>2, PlanFacts DEF Unit
    <3> QED BY <2>3, <3>1, <3>2
  <2> QED BY <2>6, <2>7 DEF DistinctInv
<1>5. CASE EndPruning \/ SortFails
  BY <1>5 DEF EndPruning, SortFails, DistinctInv, UnitsDistinct, QueuedSoFar
<1>6. CASE SortUnits
  <2>1. /\ work_units' \in Reorderings(work_units)
        /\ phase' \notin {"object", "blocks"}
    BY <1>6 DEF SortUnits
  <2> QED BY <2>1, ReorderingFacts DEF DistinctInv, UnitsDistinct, QueuedSoFar
<1>7. CASE Truncate
  <2>1. phase' = "ready"
    BY <1>7 DEF Truncate
  <2> QED BY <1>7, <2>1, TruncateFacts DEF DistinctInv, UnitsDistinct, QueuedSoFar
<1> QED BY <1>1, <1>2, <1>3, <1>4, <1>5, <1>6, <1>7 DEF Next, InitStep, Returned, init_vars

LEMMA DistinctInit == Init => DistinctInv
  BY DEF Init, DistinctInv, UnitsDistinct, QueuedSoFar

(* No block is queued twice in any plan. *)
THEOREM PlannedOnce == Spec => []UnitsDistinct
<1>1. DistinctInv => UnitsDistinct
  BY DEF DistinctInv
<1> QED BY <1>1, DistinctInit, TypeInit, TypeStep, DistinctStep, PTL DEF Spec

---------------------------------------------------------------------------
(* Pruning *)

(* The rows of a file have integers or NULLs in every column, and the zone maps
   span them. *)
LEMMA FileFacts ==
  ASSUME TypeOK, NEW o \in 1 .. Len(bind.objects), NEW b \in DOMAIN bind.objects[o].file,
         NEW i \in DOMAIN bind.objects[o].file[b].rows, NEW c \in Columns
  PROVE  LET v == bind.objects[o].file[b].rows[i][c]
             z == bind.objects[o].file[b].zms[c]
             k == bind.objects[o].sort_key_zm
         IN  /\ v \in Int \cup {Null}
             /\ z.inited => /\ z.min \in Int /\ z.max \in Int
                            /\ v # Null => z.min <= v /\ v <= z.max
             /\ bind.sort_column = c /\ k.inited =>
                  /\ k.min \in Int /\ k.max \in Int
                  /\ v # Null => k.min <= v /\ v <= k.max
<1> DEFINE file == bind.objects[o].file
           Row == [Columns -> Int \cup {Null}]
           ZoneMaps == [Columns -> [inited : {FALSE}] \cup [inited : {TRUE}, min : Int, max : Int]]
           Block == [rows : Seq(Row), zms : ZoneMaps]
<1>1. /\ WellFormedObject(bind.objects[o], bind.sort_column)
      /\ NoColumn \notin Columns
  BY BindFacts, ScanInitAssumption DEF WellFormedBind
<1>2. file \in Seq(Block)
  BY <1>1 DEF WellFormedObject
<1>3. file[b] \in Block
  <2> HIDE DEF Block
  <2> QED BY <1>2, LenProperties, ElementOfSeq
<1>4. file[b].rows \in Seq(Row)
  <2> HIDE DEF Row
  <2> QED BY <1>3
<1>5. file[b].rows[i] \in Row
  <2> HIDE DEF Row
  <2> QED BY <1>4, LenProperties, ElementOfSeq
<1>6. file[b].rows[i][c] \in Column(file[b], c)
  BY DEF Column
<1>7. Spans(file[b].zms[c], Column(file[b], c))
  BY <1>1 DEF WellFormedObject
<1>8. bind.sort_column = c =>
        Spans(bind.objects[o].sort_key_zm, UNION {Column(file[d], c) : d \in DOMAIN file})
  BY <1>1 DEF WellFormedObject
<1> QED BY <1>5, <1>6, <1>7, <1>8 DEF Spans

(* A block that a zone map rejects holds no row that satisfies all filters. *)
LEMMA RejectedHasNoMatch ==
  ASSUME TypeOK, NEW o \in 1 .. Len(bind.objects), NEW b \in DOMAIN bind.objects[o].file
  PROVE  /\ ~SortKeyPasses(bind.objects[o]) => ~HasMatch(o, b)
         /\ ~BlockPassesFilters(bind.filters, bind.objects[o].file[b]) => ~HasMatch(o, b)
<1> SUFFICES ASSUME NEW i \in DOMAIN bind.objects[o].file[b].rows,
                    RowPassesFilters(bind.filters, bind.objects[o].file[b].rows[i])
             PROVE  /\ SortKeyPasses(bind.objects[o])
                    /\ BlockPassesFilters(bind.filters, bind.objects[o].file[b])
  BY DEF HasMatch
<1>1. ASSUME NEW f \in bind.filters
      PROVE  /\ f.column \in Columns /\ f.filter \in Filter(Int)
             /\ RowPassesFilter("fixed", f.filter, bind.objects[o].file[b].rows[i][f.column])
  <2>1. f \in [column : Columns, filter : Filter(Int)]
    BY BindFacts DEF WellFormedBind
  <2>2. f.column \in Columns /\ f.filter \in Filter(Int)
    BY <2>1
  <2> QED BY <2>2 DEF RowPassesFilters, Passes
<1>2. BlockPassesFilters(bind.filters, bind.objects[o].file[b])
  <2> SUFFICES ASSUME NEW f \in bind.filters
               PROVE  EvalFilterOnZoneMap("fixed", f.filter, bind.objects[o].file[b].zms[f.column])
    BY DEF BlockPassesFilters
  <2> QED BY <1>1, FileFacts, SpanIsSound
<1>3. SortKeyPasses(bind.objects[o])
  <2> SUFFICES ASSUME NEW f \in bind.filters, f.column = bind.sort_column
               PROVE  EvalFilterOnZoneMap("fixed", f.filter, bind.objects[o].sort_key_zm)
    BY DEF SortKeyPasses, ZoneMapPassesFilters
  <2> QED BY <1>1, FileFacts, SpanIsSound
<1> QED BY <1>2, <1>3

(* Of the first n blocks of object o, those with a match are queued. *)
KeptUpTo(o, n) ==
  MatchesFile(bind.objects[o]) => \A b \in 1 .. n : HasMatch(o, b) => Unit(o, b) \in Planned

KeptInv ==
  /\ ~MayBeCut => \A o \in Decided : KeptUpTo(o, Len(bind.objects[o].file))
  /\ phase = "blocks" => KeptUpTo(obj, blk - 1)
  /\ phase = "truncate" => bind.order.row_limit > 0

(* A step that leaves the bind data alone and drops no unit keeps what was
   kept. *)
LEMMA KeptGrows ==
  ASSUME UNCHANGED bind, Planned \subseteq Planned', NEW o, NEW n, KeptUpTo(o, n)
  PROVE  KeptUpTo(o, n)'
BY DEF KeptUpTo, HasMatch, MatchesFile, Unit

LEMMA ManifestKept ==
  ASSUME TypeOK, NEW o \in 1 .. Len(bind.objects), UNCHANGED bind,
         work_units' = work_units \o ManifestUnits(o)
  PROVE  /\ Planned \subseteq Planned'
         /\ KeptUpTo(o, Len(bind.objects[o].file))'
<1> DEFINE m == ManifestUnits(o)
<1> HIDE DEF m
<1>1. /\ m \in Seq(UnitsOfBind) /\ DOMAIN m = 1 .. bind.objects[o].blocks
      /\ \A i \in DOMAIN m : m[i] = Unit(o, i)
  BY ManifestFacts, LenProperties DEF m
<1>2. work_units' = work_units \o m
  BY DEF m
<1>3. /\ Len(work_units) \in Nat /\ DOMAIN work_units = 1 .. Len(work_units)
      /\ Len(m) \in Nat /\ DOMAIN m = 1 .. Len(m)
      /\ DOMAIN work_units' = 1 .. Len(work_units) + Len(m)
      /\ \A i \in 1 .. Len(work_units) + Len(m) :
           work_units'[i] = IF i <= Len(work_units) THEN work_units[i] ELSE m[i - Len(work_units)]
  BY <1>1, <1>2, PlanFacts, ConcatProperties, LenProperties
<1>4. \A i \in DOMAIN work_units : i \in DOMAIN work_units' /\ work_units'[i] = work_units[i]
  BY <1>3
<1>5. \A i \in DOMAIN m : /\ i + Len(work_units) \in DOMAIN work_units'
                         /\ work_units'[i + Len(work_units)] = m[i]
  BY <1>3
<1>6. Planned \subseteq Planned'
  BY <1>4 DEF Planned
<1>7. \A b \in 1 .. bind.objects[o].blocks : Unit(o, b) \in Planned'
  BY <1>1, <1>5 DEF Planned
<1> QED BY <1>6, <1>7 DEF KeptUpTo, MatchesFile, Unit

LEMMA KeptStep == TypeOK /\ KeptInv /\ [Next]_init_vars => KeptInv'
<1> SUFFICES ASSUME TypeOK, KeptInv, [Next]_init_vars PROVE KeptInv'
  OBVIOUS
<1>0. UNCHANGED bind
  BY DEF Next, InitStep, ListObject, SkipObject, ReadMeta, Fallback, KeepBlock, DropBlock,
         EndObject, EndPruning, SortUnits, SortFails, Truncate, Returned, init_vars
<1> DEFINE N == Len(bind.objects)
<1>n. N \in Nat /\ obj \in Nat /\ blk \in Nat \ {0} /\ bind.order.row_limit \in Nat
  BY BindFacts, PlanFacts DEF TypeOK, WellFormedBind
<1>1. CASE UNCHANGED init_vars \/ Returned
  <2>1. UNCHANGED <<bind, phase, obj, blk, work_units>>
    BY <1>1 DEF Returned, init_vars
  <2>2. Planned' = Planned /\ Decided' = Decided /\ MayBeCut' = MayBeCut
    BY <2>1 DEF Planned, Decided, MayBeCut
  <2> QED BY <2>1, <2>2, KeptGrows DEF KeptInv
<1>2. CASE ListObject \/ Fallback
  <2>1. PICK o \in 1 .. N : o = obj
    BY <1>2, <1>n DEF ListObject, Fallback, AtObject, TypeOK
  <2>2. /\ phase \in {"object", "blocks"} /\ phase' = "object" /\ obj' = obj + 1
        /\ work_units' = work_units \o ManifestUnits(o)
    BY <1>2, <2>1 DEF ListObject, Fallback, AtObject, MayThrow
  <2>3. Decided = 1 .. o - 1 /\ Decided' = 1 .. o
    BY <2>1, <2>2 DEF Decided
  <2>4. \A d \in 1 .. o - 1 : KeptUpTo(d, Len(bind.objects[d].file))
    BY <2>2, <2>3 DEF KeptInv, MayBeCut
  <2>5. \A d \in 1 .. o - 1 : KeptUpTo(d, Len(bind.objects[d].file))'
    BY <1>0, <2>2, <2>4, ManifestKept, KeptGrows
  <2>6. KeptUpTo(o, Len(bind.objects[o].file))'
    BY <1>0, <2>2, ManifestKept
  <2> QED BY <1>0, <2>2, <2>3, <2>5, <2>6 DEF KeptInv
<1>3. CASE SkipObject
  <2>1. PICK o \in 1 .. N : o = obj
    BY <1>3, <1>n DEF SkipObject, AtObject, TypeOK
  <2>2. /\ phase = "object" /\ phase' = "object" /\ obj' = obj + 1 /\ UNCHANGED work_units
        /\ ~SortKeyPasses(bind.objects[o])
    BY <1>3, <2>1 DEF SkipObject, AtObject
  <2>3. Decided = 1 .. o - 1 /\ Decided' = 1 .. o /\ Planned' = Planned
    BY <2>1, <2>2 DEF Decided, Planned
  <2>4. KeptUpTo(o, Len(bind.objects[o].file))
    BY <2>2, BindFacts, RejectedHasNoMatch DEF KeptUpTo
  <2>5. \A d \in 1 .. o : KeptUpTo(d, Len(bind.objects[d].file))
    BY <2>2, <2>3, <2>4 DEF KeptInv, MayBeCut
  <2> QED BY <1>0, <2>2, <2>3, <2>5, KeptGrows DEF KeptInv
<1>4. CASE ReadMeta
  <2>1. /\ phase = "object" /\ phase' = "blocks" /\ UNCHANGED <<obj, work_units>> /\ blk' = 1
    BY <1>4 DEF ReadMeta, AtObject
  <2>2. Decided' = Decided /\ Planned' = Planned
    BY <1>0, <2>1 DEF Decided, Planned
  <2>3. KeptUpTo(obj, blk - 1)'
    BY <2>1 DEF KeptUpTo
  <2> QED BY <1>0, <2>1, <2>2, <2>3, KeptGrows DEF KeptInv, MayBeCut
<1>5. CASE KeepBlock \/ DropBlock
  <2>1. /\ phase = "blocks" /\ phase' = "blocks" /\ UNCHANGED obj /\ blk' = blk + 1
        /\ blk <= Len(File)
    BY <1>5 DEF KeepBlock, DropBlock, AtBlock
  <2>2. PICK o \in 1 .. N, b \in Nat \ {0} : o = obj /\ b = blk
    BY <1>n, <2>1 DEF TypeOK
  <2>3. b \in DOMAIN bind.objects[o].file
    BY <2>1, <2>2, BindFacts DEF File
  <2>4. Decided' = Decided
    BY <1>0, <2>1 DEF Decided
  <2>5. /\ Planned \subseteq Planned'
        /\ HasMatch(o, b) => Unit(o, b) \in Planned'
    <3>1. CASE KeepBlock
      <4>1. work_units' = Append(work_units, Unit(o, b))
        BY <2>2, <3>1 DEF KeepBlock
      <4>2. Unit(o, b) \in UnitsOfBind
        BY DEF Unit, UnitsOfBind
      <4> QED BY <4>1, <4>2, PlanFacts, AppendProperties, LenProperties DEF Planned
    <3>2. CASE DropBlock
      <4>1. UNCHANGED work_units /\ ~BlockPassesFilters(bind.filters, bind.objects[o].file[b])
        BY <2>2, <3>2 DEF DropBlock, File
      <4> QED BY <2>3, <4>1, RejectedHasNoMatch DEF Planned
    <3> QED BY <1>5, <3>1, <3>2
  <2>6. KeptUpTo(o, b - 1)
    BY <2>1, <2>2 DEF KeptInv
  <2>7. KeptUpTo(o, b)'
    <3>1. \A d \in 1 .. b : d \in 1 .. b - 1 \/ d = b
      BY <2>2
    <3> QED BY <1>0, <2>5, <2>6, <3>1 DEF KeptUpTo, HasMatch, MatchesFile, Unit
  <2>8. (blk - 1)' = b /\ obj' = o
    BY <2>1, <2>2
  <2>9. KeptUpTo(obj, blk - 1)'
    BY <2>7, <2>8 DEF KeptUpTo, HasMatch, MatchesFile, Unit, Planned
  <2> QED BY <1>0, <2>1, <2>4, <2>5, <2>9, KeptGrows DEF KeptInv, MayBeCut
<1>6. CASE EndObject
  <2>1. PICK o \in 1 .. N, b \in Nat \ {0} : o = obj /\ b = blk
    BY <1>6, <1>n DEF EndObject, TypeOK
  <2>2. /\ phase = "blocks" /\ phase' = "object" /\ obj' = obj + 1 /\ UNCHANGED work_units
        /\ b > Len(bind.objects[o].file)
    BY <1>6, <2>1 DEF EndObject, File
  <2>3. Decided = 1 .. o - 1 /\ Decided' = 1 .. o /\ Planned' = Planned
    BY <2>1, <2>2 DEF Decided, Planned
  <2>4. KeptUpTo(o, b - 1)
    BY <2>1, <2>2 DEF KeptInv
  <2>5. KeptUpTo(o, Len(bind.objects[o].file))
    BY <2>2, <2>4, BindFacts DEF KeptUpTo
  <2>6. \A d \in 1 .. o : KeptUpTo(d, Len(bind.objects[d].file))
    BY <2>2, <2>3, <2>5 DEF KeptInv, MayBeCut
  <2> QED BY <1>0, <2>2, <2>3, <2>6, KeptGrows DEF KeptInv
<1>7. CASE EndPruning \/ SortFails
  <2>1. /\ UNCHANGED <<obj, work_units>> /\ phase' \in {"order", "ready", "failed"} /\ ~MayBeCut
    BY <1>7 DEF EndPruning, SortFails, MayBeCut
  <2>2. Decided' = Decided /\ Planned' = Planned
    BY <1>0, <1>7, <1>n, <2>1 DEF EndPruning, SortFails, Decided, Planned, TypeOK
  <2> QED BY <1>0, <2>1, <2>2, KeptGrows DEF KeptInv
<1>8. CASE SortUnits
  <2>1. /\ phase = "order" /\ work_units' \in Reorderings(work_units)
        /\ phase' = IF bind.order.row_limit > 0 THEN "truncate" ELSE "ready"
    BY <1>8 DEF SortUnits
  <2>2. Planned' = Planned
    BY <2>1, ReorderingFacts DEF Planned
  <2>3. Decided' = Decided
    BY <1>0, <2>1 DEF Decided
  <2> QED BY <1>0, <2>1, <2>2, <2>3, KeptGrows DEF KeptInv, MayBeCut
<1>9. CASE Truncate
  <2>1. phase = "truncate" /\ phase' = "ready"
    BY <1>9 DEF Truncate
  <2> QED BY <1>0, <2>1 DEF KeptInv, MayBeCut
<1> QED BY <1>1, <1>2, <1>3, <1>4, <1>5, <1>6, <1>7, <1>8, <1>9 DEF Next, InitStep

LEMMA KeptInit == Init => KeptInv
<1> SUFFICES ASSUME Init PROVE KeptInv
  OBVIOUS
<1>1. phase = "object" /\ obj = 1
  BY DEF Init
<1>2. Decided = {}
  BY <1>1 DEF Decided
<1> QED BY <1>1, <1>2 DEF KeptInv

(* Pruning never costs a matching row, whatever the bind data: zone maps, sort
   key and the fallback after an error all keep it in the plan. *)
THEOREM MatchesKept == Spec => []PruningKeepsMatches
<1>1. TypeOK /\ KeptInv => PruningKeepsMatches
  <2> SUFFICES ASSUME TypeOK, KeptInv, ~MayBeCut, NEW o \in Decided PROVE
         MatchesFile(bind.objects[o]) => \A b \in DOMAIN bind.objects[o].file :
           HasMatch(o, b) => Unit(o, b) \in Planned
    BY DEF PruningKeepsMatches
  <2>1. o \in 1 .. Len(bind.objects)
    BY BindFacts DEF Decided, TypeOK
  <2> QED BY <2>1, BindFacts DEF KeptInv, KeptUpTo
<1> QED BY <1>1, KeptInit, TypeInit, TypeStep, KeptStep, PTL DEF Spec
---------------------------------------------------------------------------
(* The skip counters *)

AllMatch == \A o \in DOMAIN bind.objects : MatchesFile(bind.objects[o])

(* The blocks of the objects decided, and those looked at of the current one. *)
BlocksSeen ==
  IF phase = "object" THEN BlocksUpTo(obj - 1)
  ELSE IF phase = "blocks" THEN BlocksUpTo(obj - 1) + (blk - 1)
  ELSE BlocksUpTo(Len(bind.objects))

(* Every block seen is queued or counted, also halfway through an object. *)
CountInv ==
  /\ phase = "blocks" => blk <= Len(File) + 1
  /\ AllMatch /\ ~MayBeCut => Len(work_units) + blocks_skipped = BlocksSeen

LEMMA DecidedFacts ==
  ASSUME TypeOK
  PROVE  /\ IsFiniteSet(Decided) /\ Decided \subseteq 1 .. Len(bind.objects)
         /\ Cardinality(Decided) = IF phase \in {"object", "blocks"} THEN obj - 1
                                   ELSE Len(bind.objects)
         /\ Cardinality(Decided) \in 0 .. Len(bind.objects)
<1>1. Len(bind.objects) \in Nat /\ obj \in 1 .. Len(bind.objects) + 1
  BY BindFacts DEF TypeOK
<1>2. \A n \in Nat : IsFiniteSet(1 .. n) /\ Cardinality(1 .. n) = n
  BY FS_Interval
<1> QED BY <1>1, <1>2 DEF Decided

LEMMA BlocksUpToFacts ==
  ASSUME TypeOK
  PROVE  /\ BlocksUpTo(0) = 0
         /\ \A n \in 0 .. Len(bind.objects) : BlocksUpTo(n) \in Nat
         /\ \A o \in 1 .. Len(bind.objects) :
              BlocksUpTo(o) = BlocksUpTo(o - 1) + bind.objects[o].blocks
         /\ \A n \in 0 .. Len(bind.objects) : BlocksUpTo(n) <= BlocksUpTo(Len(bind.objects))
<1> DEFINE a == [o \in DOMAIN bind.objects |-> bind.objects[o].blocks]
<1>1. /\ Len(bind.objects) \in Nat /\ DOMAIN bind.objects = 1 .. Len(bind.objects)
      /\ \A o \in 1 .. Len(bind.objects) : a[o] = bind.objects[o].blocks /\ a[o] \in Nat
  BY BindFacts DEF WellFormedBind
<1>2. \A n \in Nat : BlocksUpTo(n) = SumTo(a, n)
  BY DEF BlocksUpTo
<1> HIDE DEF a
<1>3. \A n \in 0 .. Len(bind.objects) : SumTo(a, n) \in Nat
  BY <1>1, SumType
<1>4. \A o \in 1 .. Len(bind.objects) : SumTo(a, o) = SumTo(a, o - 1) + a[o]
  <2> TAKE o \in 1 .. Len(bind.objects)
  <2>1. o - 1 \in Nat /\ (o - 1) + 1 = o
    OBVIOUS
  <2> QED BY <2>1, SumNext
<1>5. \A n \in 0 .. Len(bind.objects) : SumTo(a, n) <= SumTo(a, Len(bind.objects))
  BY <1>1, SumGrows
<1> QED BY <1>1, <1>2, <1>3, <1>4, <1>5, SumEmpty

LEMMA CountStep ==
  ASSUME TypeOK, CountInv, KeptInv, [Next]_init_vars
  PROVE  CountInv'
<1>0. UNCHANGED bind
  BY DEF Next, InitStep, ListObject, SkipObject, ReadMeta, Fallback, KeepBlock, DropBlock,
         EndObject, EndPruning, SortUnits, SortFails, Truncate, Returned, init_vars
<1> DEFINE N == Len(bind.objects)
<1>n. /\ N \in Nat /\ obj \in 1 .. N + 1 /\ blk \in Nat \ {0} /\ blocks_skipped \in Nat
      /\ Len(work_units) \in Nat /\ bind.order.row_limit \in Nat
  BY BindFacts, PlanFacts DEF TypeOK, WellFormedBind
<1>k. PICK w \in Nat, k \in Nat : w = Len(work_units) /\ k = blocks_skipped
  BY <1>n
<1>b. \A n : BlocksUpTo(n)' = BlocksUpTo(n)
  BY <1>0 DEF BlocksUpTo
<1>m. AllMatch' = AllMatch
  BY <1>0 DEF AllMatch, MatchesFile
<1>1. CASE UNCHANGED init_vars \/ Returned
  <2>1. UNCHANGED <<bind, phase, obj, blk, work_units, blocks_skipped>>
    BY <1>1 DEF Returned, init_vars
  <2> QED BY <2>1, <1>m DEF CountInv, BlocksSeen, BlocksUpTo, MayBeCut, File
<1>2. CASE ListObject \/ Fallback \/ SkipObject
  <2>1. PICK o \in 1 .. N : o = obj
    BY <1>2, <1>n DEF ListObject, Fallback, SkipObject, AtObject
  <2>2. /\ phase = "object" /\ phase' = "object" /\ obj' = o + 1
        /\ \/ blocks_skipped' = k /\ work_units' = work_units \o ManifestUnits(o)
           \/ work_units' = work_units /\ blocks_skipped' = k + bind.objects[o].blocks
    BY <1>k, <1>2, <2>1 DEF ListObject, Fallback, SkipObject, AtObject, MayThrow, BlocksOfSkipped
  <2>3. PICK d \in Nat, c \in Nat :
          d = bind.objects[o].blocks /\ c = BlocksUpTo(o - 1) /\ c + d = BlocksUpTo(o)
    <3>1. o - 1 \in 0 .. Len(bind.objects)
      BY <2>1, <1>n
    <3> QED BY <2>1, <3>1, BindFacts, BlocksUpToFacts
  <2>4. \/ blocks_skipped' = k /\ Len(work_units') = w + d
        \/ blocks_skipped' = k + d /\ Len(work_units') = w
    <3> DEFINE m == ManifestUnits(o)
    <3>1. m \in Seq(UnitsOfBind) /\ Len(m) = d
      BY <2>3, ManifestFacts
    <3> HIDE DEF m
    <3>2. Len(work_units \o m) = w + d
      BY <1>k, <3>1, PlanFacts, ConcatProperties
    <3> QED BY <1>k, <2>2, <2>3, <3>2 DEF m
  <2>5. BlocksSeen = c /\ BlocksSeen' = c + d
    <3>1. (o + 1) - 1 = o
      BY <2>1
    <3> QED BY <1>b, <2>1, <2>2, <2>3, <3>1 DEF BlocksSeen
  <2>6. AllMatch => w + k = c
    BY <1>k, <2>2, <2>5 DEF CountInv, MayBeCut
  <2>7. AllMatch => Len(work_units') + blocks_skipped' = c + d
    BY <2>4, <2>6
  <2> QED BY <1>m, <2>2, <2>5, <2>7 DEF CountInv
<1>3. CASE ReadMeta
  <2>1. PICK o \in 1 .. N : o = obj
    BY <1>3, <1>n DEF ReadMeta, AtObject
  <2>2. /\ phase = "object" /\ phase' = "blocks" /\ blk' = 1 /\ obj' = o
        /\ UNCHANGED <<work_units, blocks_skipped>>
    BY <1>3, <2>1 DEF ReadMeta, AtObject
  <2>3. PICK c \in Nat : c = BlocksUpTo(o - 1)
    BY BlocksUpToFacts
  <2>4. BlocksSeen' = c /\ BlocksSeen = c
    BY <1>b, <2>1, <2>2, <2>3 DEF BlocksSeen
  <2>5. Len(File') \in Nat
    BY <1>0, <2>2, BindFacts DEF File
  <2> QED BY <1>m, <2>2, <2>4, <2>5 DEF CountInv, MayBeCut
<1>4. CASE KeepBlock \/ DropBlock
  <2>1. PICK o \in 1 .. N, b \in Nat \ {0} : o = obj /\ b = blk
    BY <1>4, <1>n DEF KeepBlock, DropBlock, AtBlock, TypeOK
  <2>2. /\ phase = "blocks" /\ phase' = "blocks" /\ obj' = o /\ blk' = b + 1 /\ b <= Len(File)
        /\ \/ blocks_skipped' = k /\ work_units' = Append(work_units, Unit(o, b))
           \/ blocks_skipped' = k + 1 /\ UNCHANGED work_units
    BY <1>k, <1>4, <2>1 DEF KeepBlock, DropBlock, AtBlock
  <2>3. Len(Append(work_units, Unit(o, b))) = w + 1
    <3>1. Unit(o, b) \in UnitsOfBind
      BY DEF Unit, UnitsOfBind
    <3> QED BY <1>k, <3>1, PlanFacts, AppendProperties
  <2>4. PICK c \in Nat : c = BlocksUpTo(o - 1)
    BY BlocksUpToFacts
  <2>5. BlocksSeen = c + (b - 1) /\ BlocksSeen' = c + b
    <3>1. (b + 1) - 1 = b
      BY <2>1
    <3> QED BY <1>b, <2>1, <2>2, <2>4, <3>1 DEF BlocksSeen
  <2>6. AllMatch => w + k = c + (b - 1)
    BY <1>k, <2>2, <2>5 DEF CountInv, MayBeCut
  <2>7. AllMatch => Len(work_units') + blocks_skipped' = c + b
    BY <1>k, <2>1, <2>2, <2>3, <2>6
  <2>8. Len(File) \in Nat /\ File' = File
    BY <1>0, <2>1, <2>2, BindFacts DEF File
  <2>9. b + 1 <= Len(File) + 1
    BY <2>1, <2>2, <2>8
  <2> QED BY <1>m, <2>2, <2>5, <2>7, <2>8, <2>9 DEF CountInv
<1>5. CASE EndObject
  <2>1. PICK o \in 1 .. N, b \in Nat \ {0} : o = obj /\ b = blk
    BY <1>5, <1>n DEF EndObject, TypeOK
  <2>2. /\ phase = "blocks" /\ phase' = "object" /\ obj' = o + 1 /\ b > Len(File)
        /\ UNCHANGED <<work_units, blocks_skipped>>
    BY <1>5, <2>1 DEF EndObject
  <2>3. PICK d \in Nat, c \in Nat :
          d = bind.objects[o].blocks /\ c = BlocksUpTo(o - 1) /\ c + d = BlocksUpTo(o)
    <3>1. o - 1 \in 0 .. Len(bind.objects)
      BY <2>1, <1>n
    <3> QED BY <2>1, <3>1, BindFacts, BlocksUpToFacts
  <2>4. AllMatch => b - 1 = d
    <3>1. Len(File) \in Nat
      BY <2>1, BindFacts DEF File
    <3>2. b <= Len(File) + 1
      BY <2>1, <2>2 DEF CountInv
    <3>3. AllMatch => d = Len(File)
      BY <2>1, <2>3, BindFacts DEF AllMatch, MatchesFile, File, WellFormedBind
    <3> QED BY <2>2, <3>1, <3>2, <3>3
  <2>5. BlocksSeen = c + (b - 1) /\ BlocksSeen' = c + d
    <3>1. (o + 1) - 1 = o
      BY <2>1
    <3> QED BY <1>b, <2>1, <2>2, <2>3, <3>1 DEF BlocksSeen
  <2> QED BY <1>m, <2>2, <2>4, <2>5 DEF CountInv, MayBeCut
<1>6. CASE EndPruning \/ SortFails \/ SortUnits
  <2>1. /\ phase # "blocks" /\ phase' \notin {"object", "blocks"} /\ UNCHANGED blocks_skipped
        /\ phase = "object" => obj = N + 1
        /\ ~MayBeCut
    BY <1>6, <1>n DEF EndPruning, SortFails, SortUnits, MayBeCut
  <2>2. Len(work_units') = w
    <3>1. CASE SortUnits
      <4>1. DOMAIN work_units' = DOMAIN work_units /\ work_units' \in Seq(UnitsOfBind)
        BY <3>1, ReorderingFacts DEF SortUnits
      <4> QED BY <1>k, <4>1, PlanFacts, LenProperties
    <3>2. CASE ~SortUnits
      BY <1>6, <1>k, <3>2 DEF EndPruning, SortFails
    <3> QED BY <3>1, <3>2
  <2>3. BlocksSeen = BlocksUpTo(N) /\ BlocksSeen' = BlocksUpTo(N)
    <3>1. (N + 1) - 1 = N
      BY <1>n
    <3> QED BY <1>0, <1>b, <2>1, <3>1 DEF BlocksSeen
  <2> QED BY <1>k, <1>m, <2>1, <2>2, <2>3 DEF CountInv
<1>7. CASE Truncate
  <2>1. phase = "truncate" /\ phase' = "ready" /\ bind.order.row_limit > 0
    BY <1>7 DEF Truncate, KeptInv
  <2> QED BY <1>0, <2>1 DEF CountInv, MayBeCut
<1> QED BY <1>1, <1>2, <1>3, <1>4, <1>5, <1>6, <1>7 DEF Next, InitStep

LEMMA CountInit == Init => CountInv
<1> SUFFICES ASSUME Init PROVE CountInv
  OBVIOUS
<1>1. phase = "object" /\ obj = 1 /\ work_units = <<>> /\ blocks_skipped = 0
  BY DEF Init
<1>2. BlocksUpTo(1 - 1) = 0 /\ Len(work_units) = 0
  <2>1. 1 - 1 = 0
    OBVIOUS
  <2> QED BY <1>1, <2>1, TypeInit, BlocksUpToFacts, EmptySeq
<1> QED BY <1>1, <1>2 DEF CountInv, BlocksSeen

(* The objects decided of which no block is queued. *)
Unqueued == {o \in Decided : \A u \in Planned : u.object_idx # o}

NoneEmpty == \A o \in DOMAIN bind.objects : bind.objects[o].blocks > 0

(* The flag of the loop says whether the current object has a block queued, and
   the counter is exact for the objects before it. *)
SkipInv ==
  /\ phase = "blocks" => (any_block_passes <=> \E u \in Planned : u.object_idx = obj)
  /\ NoneEmpty /\ ~MayBeCut => objects_skipped = Cardinality(Unqueued)

(* The units that a step adds. *)
LEMMA PlannedGrows ==
  ASSUME TypeOK, NEW o \in 1 .. Len(bind.objects)
  PROVE  /\ work_units' = work_units \o ManifestUnits(o) =>
              Planned' = Planned \cup {Unit(o, b) : b \in 1 .. bind.objects[o].blocks}
         /\ \A b \in Nat \ {0} : work_units' = Append(work_units, Unit(o, b)) =>
              Planned' = Planned \cup {Unit(o, b)}
<1>1. ASSUME work_units' = work_units \o ManifestUnits(o)
      PROVE  Planned' = Planned \cup {Unit(o, b) : b \in 1 .. bind.objects[o].blocks}
  <2> DEFINE m == ManifestUnits(o)
  <2>1. /\ m \in Seq(UnitsOfBind) /\ DOMAIN m = 1 .. bind.objects[o].blocks
        /\ \A i \in DOMAIN m : m[i] = Unit(o, i)
    BY ManifestFacts, LenProperties
  <2>2. work_units' = work_units \o m
    BY <1>1
  <2> HIDE DEF m
  <2>3. /\ Len(work_units) \in Nat /\ DOMAIN work_units = 1 .. Len(work_units)
        /\ Len(m) \in Nat /\ DOMAIN m = 1 .. Len(m)
        /\ DOMAIN work_units' = 1 .. Len(work_units) + Len(m)
        /\ \A i \in 1 .. Len(work_units) + Len(m) :
             work_units'[i] = IF i <= Len(work_units) THEN work_units[i] ELSE m[i - Len(work_units)]
    BY <2>1, <2>2, PlanFacts, ConcatProperties, LenProperties
  <2>4. \A i \in DOMAIN work_units : i \in DOMAIN work_units' /\ work_units'[i] = work_units[i]
    BY <2>3
  <2>5. \A i \in DOMAIN m : /\ i + Len(work_units) \in DOMAIN work_units'
                           /\ work_units'[i + Len(work_units)] = m[i]
    BY <2>3
  <2>6. \A i \in DOMAIN work_units' :
          \/ i \in DOMAIN work_units /\ work_units'[i] = work_units[i]
          \/ i - Len(work_units) \in DOMAIN m /\ work_units'[i] = m[i - Len(work_units)]
    BY <2>3
  <2> QED BY <2>1, <2>4, <2>5, <2>6 DEF Planned
<1>2. ASSUME NEW b \in Nat \ {0}, work_units' = Append(work_units, Unit(o, b))
      PROVE  Planned' = Planned \cup {Unit(o, b)}
  <2>1. Unit(o, b) \in UnitsOfBind
    BY DEF Unit, UnitsOfBind
  <2>2. /\ Len(work_units) \in Nat /\ DOMAIN work_units = 1 .. Len(work_units)
        /\ DOMAIN work_units' = 1 .. Len(work_units) + 1
        /\ \A i \in 1 .. Len(work_units) : work_units'[i] = work_units[i]
        /\ work_units'[Len(work_units) + 1] = Unit(o, b)
    BY <1>2, <2>1, PlanFacts, AppendProperties, LenProperties
  <2>3. \A i \in 1 .. Len(work_units) + 1 : i \in 1 .. Len(work_units) \/ i = Len(work_units) + 1
    BY <2>2
  <2>4. /\ \A i \in DOMAIN work_units : i \in DOMAIN work_units'
        /\ Len(work_units) + 1 \in DOMAIN work_units'
    BY <2>2
  <2> QED BY <2>2, <2>3, <2>4 DEF Planned
<1> QED BY <1>1, <1>2

LEMMA UnqueuedFinite ==
  ASSUME TypeOK
  PROVE  IsFiniteSet(Unqueued) /\ Cardinality(Unqueued) \in Nat
  BY DecidedFacts, FS_Subset, FS_CardinalityType DEF Unqueued

LEMMA SkipStep ==
  ASSUME TypeOK, DistinctInv, SkipInv, KeptInv, [Next]_init_vars
  PROVE  SkipInv'
<1>0. UNCHANGED bind
  BY DEF Next, InitStep, ListObject, SkipObject, ReadMeta, Fallback, KeepBlock, DropBlock,
         EndObject, EndPruning, SortUnits, SortFails, Truncate, Returned, init_vars
<1> DEFINE N == Len(bind.objects)
<1>n. N \in Nat /\ obj \in 1 .. N + 1 /\ bind.order.row_limit \in Nat
  BY BindFacts DEF TypeOK, WellFormedBind
<1>e. NoneEmpty' = NoneEmpty
  BY <1>0 DEF NoneEmpty
<1>k. PICK s \in Nat : s = objects_skipped
  BY DEF TypeOK
<1>1. CASE UNCHANGED init_vars \/ Returned
  <2>1. UNCHANGED <<phase, obj, any_block_passes, work_units, objects_skipped>>
    BY <1>1 DEF Returned, init_vars
  <2>2. Planned' = Planned /\ Unqueued' = Unqueued
    BY <1>0, <2>1 DEF Planned, Unqueued, Decided
  <2> QED BY <1>0, <1>e, <2>1, <2>2 DEF SkipInv, MayBeCut
<1>2. CASE ListObject \/ Fallback
  <2>1. PICK o \in 1 .. N : o = obj
    BY <1>2, <1>n DEF ListObject, Fallback, AtObject
  <2>2. /\ phase = "object" /\ phase' = "object" /\ obj' = o + 1
        /\ work_units' = work_units \o ManifestUnits(o) /\ UNCHANGED objects_skipped
    BY <1>2, <2>1 DEF ListObject, Fallback, AtObject, MayThrow
  <2>3. Decided = 1 .. o - 1 /\ Decided' = 1 .. o
    <3>1. (o + 1) - 1 = o
      BY <2>1
    <3> QED BY <2>1, <2>2, <3>1 DEF Decided
  <2>4. Planned' = Planned \cup {Unit(o, b) : b \in 1 .. bind.objects[o].blocks}
    BY <2>2, PlannedGrows
  <2>5. NoneEmpty => Unit(o, 1) \in Planned'
    <3>1. NoneEmpty => 1 \in 1 .. bind.objects[o].blocks
      BY BindFacts DEF NoneEmpty, WellFormedBind
    <3> QED BY <2>4, <3>1
  <2>6. NoneEmpty => Unqueued' = Unqueued
    <3>1. 1 .. o = (1 .. o - 1) \cup {o} /\ o \notin 1 .. o - 1
      BY <2>1
    <3>2. \A b : Unit(o, b).object_idx = o
      BY DEF Unit
    <3> QED BY <2>3, <2>4, <2>5, <3>1, <3>2 DEF Unqueued
  <2> QED BY <1>e, <2>2, <2>6 DEF SkipInv, MayBeCut
<1>3. CASE SkipObject \/ EndObject
  <2>1. PICK o \in 1 .. N : o = obj
    BY <1>3, <1>n DEF SkipObject, EndObject, AtObject, TypeOK
  <2> DEFINE queued == \E u \in Planned : u.object_idx = o
  <2>2. /\ phase \in {"object", "blocks"} /\ phase' = "object" /\ obj' = o + 1
        /\ UNCHANGED work_units
    BY <1>3, <2>1 DEF SkipObject, EndObject, AtObject
  <2>3. Decided = 1 .. o - 1 /\ Decided' = 1 .. o /\ Planned' = Planned
    <3>1. (o + 1) - 1 = o
      BY <2>1
    <3> QED BY <2>1, <2>2, <3>1 DEF Decided, Planned
  <2>4. objects_skipped' = IF queued THEN s ELSE s + 1
    <3>1. CASE SkipObject
      <4>1. phase = "object" /\ objects_skipped' = s + 1
        BY <1>k, <3>1 DEF SkipObject, AtObject
      <4>2. ~queued
        BY <2>1, <4>1, PlanFacts DEF DistinctInv, QueuedSoFar, Planned
      <4> QED BY <4>1, <4>2
    <3>2. CASE EndObject
      <4>1. phase = "blocks" /\ objects_skipped' = IF any_block_passes THEN s ELSE s + 1
        BY <1>k, <3>2 DEF EndObject
      <4> QED BY <2>1, <4>1 DEF SkipInv
    <3> QED BY <1>3, <3>1, <3>2
  <2>5. Unqueued' = IF queued THEN Unqueued ELSE Unqueued \cup {o}
    <3>1. 1 .. o = (1 .. o - 1) \cup {o} /\ o \notin 1 .. o - 1
      BY <2>1
    <3> QED BY <2>3, <3>1 DEF Unqueued
  <2>6. o \notin Unqueued
    BY <2>1, <2>3 DEF Unqueued
  <2>7. Cardinality(Unqueued \cup {o}) = Cardinality(Unqueued) + 1
    BY <2>6, UnqueuedFinite, FS_AddElement
  <2>8. NoneEmpty => s = Cardinality(Unqueued)
    BY <1>k, <2>2 DEF SkipInv, MayBeCut
  <2> QED BY <1>e, <2>2, <2>4, <2>5, <2>7, <2>8 DEF SkipInv
<1>4. CASE ReadMeta
  <2>1. /\ phase = "object" /\ phase' = "blocks" /\ any_block_passes' = FALSE
        /\ UNCHANGED <<obj, work_units, objects_skipped>>
    BY <1>4 DEF ReadMeta, AtObject
  <2>2. Planned' = Planned /\ Unqueued' = Unqueued
    BY <1>0, <2>1 DEF Planned, Unqueued, Decided
  <2>3. \A u \in Planned : u.object_idx # obj
    BY <1>n, <2>1, PlanFacts DEF DistinctInv, QueuedSoFar, Planned
  <2> QED BY <1>e, <2>1, <2>2, <2>3 DEF SkipInv, MayBeCut
<1>5. CASE KeepBlock
  <2>1. PICK o \in 1 .. N, b \in Nat \ {0} : o = obj /\ b = blk
    BY <1>5, <1>n DEF KeepBlock, AtBlock, TypeOK
  <2>2. /\ phase = "blocks" /\ phase' = "blocks" /\ obj' = o /\ any_block_passes' = TRUE
        /\ work_units' = Append(work_units, Unit(o, b)) /\ UNCHANGED objects_skipped
    BY <1>5, <2>1 DEF KeepBlock, AtBlock
  <2>3. Planned' = Planned \cup {Unit(o, b)} /\ Unit(o, b).object_idx = o
    BY <2>2, PlannedGrows DEF Unit
  <2>4. Decided = 1 .. o - 1 /\ Decided' = 1 .. o - 1 /\ o \notin 1 .. o - 1
    BY <2>1, <2>2 DEF Decided
  <2>5. Unqueued' = Unqueued
    BY <2>3, <2>4 DEF Unqueued
  <2> QED BY <1>e, <2>2, <2>3, <2>5 DEF SkipInv, MayBeCut
<1>6. CASE DropBlock
  <2>1. UNCHANGED <<phase, obj, any_block_passes, work_units, objects_skipped>>
    BY <1>6 DEF DropBlock, AtBlock
  <2>2. Planned' = Planned /\ Unqueued' = Unqueued
    BY <1>0, <2>1 DEF Planned, Unqueued, Decided
  <2> QED BY <1>0, <1>e, <2>1, <2>2 DEF SkipInv, MayBeCut
<1>7. CASE EndPruning \/ SortFails \/ SortUnits
  <2>1. /\ phase # "blocks" /\ phase' \notin {"object", "blocks"} /\ UNCHANGED objects_skipped
        /\ phase = "object" => obj = N + 1
        /\ ~MayBeCut
    BY <1>7, <1>n DEF EndPruning, SortFails, SortUnits, MayBeCut
  <2>2. Planned' = Planned
    BY <1>7, ReorderingFacts DEF EndPruning, SortFails, SortUnits, Planned
  <2>3. Decided' = Decided
    <3>1. (N + 1) - 1 = N
      BY <1>n
    <3> QED BY <1>0, <2>1, <3>1 DEF Decided
  <2>4. Unqueued' = Unqueued
    BY <2>2, <2>3 DEF Unqueued
  <2> QED BY <1>e, <2>1, <2>4 DEF SkipInv
<1>8. CASE Truncate
  <2>1. phase = "truncate" /\ phase' = "ready" /\ bind.order.row_limit > 0
    BY <1>8 DEF Truncate, KeptInv
  <2> QED BY <1>0, <2>1 DEF SkipInv, MayBeCut
<1> QED BY <1>1, <1>2, <1>3, <1>4, <1>5, <1>6, <1>7, <1>8 DEF Next, InitStep

LEMMA SkipInit == Init => SkipInv
<1> SUFFICES ASSUME Init PROVE SkipInv
  OBVIOUS
<1>1. phase = "object" /\ obj = 1 /\ objects_skipped = 0
  BY DEF Init
<1>2. Unqueued = {}
  BY <1>1 DEF Unqueued, Decided
<1> QED BY <1>1, <1>2, FS_EmptySet DEF SkipInv

(* What EXPLAIN ANALYZE shows of pruning is exact for every manifest that matches
   its files: each block is queued or counted as skipped, and an object counts as
   skipped if none of its blocks is queued. *)
THEOREM SkipsAccounted == Spec => []PruneAccounting
<1> DEFINE Inv == TypeOK /\ DistinctInv /\ KeptInv /\ CountInv /\ SkipInv
<1>1. Init => Inv
  BY TypeInit, DistinctInit, KeptInit, CountInit, SkipInit
<1>2. Inv /\ [Next]_init_vars => Inv'
  BY TypeStep, DistinctStep, KeptStep, CountStep, SkipStep
<1>3. Inv => PruneAccounting
  <2> SUFFICES ASSUME Inv, phase # "blocks", ~MayBeCut, AllMatch, NoneEmpty
               PROVE  /\ Len(work_units) + blocks_skipped = BlocksUpTo(Cardinality(Decided))
                      /\ objects_skipped = Cardinality(Unqueued)
    BY DEF PruneAccounting, AllMatch, NoneEmpty, Unqueued
  <2>1. BlocksSeen = BlocksUpTo(Cardinality(Decided))
    BY DecidedFacts DEF BlocksSeen, TypeOK
  <2> QED BY <2>1 DEF CountInv, SkipInv
<1> QED BY <1>1, <1>2, <1>3, PTL DEF Spec

---------------------------------------------------------------------------
(* ORDER BY ... LIMIT *)

(* Units are real blocks, or blocks that the manifest made up. *)
ListedInv ==
  \A u \in Planned : InFile(u) \/ u.block_idx <= bind.objects[u.object_idx].blocks

(* Units are cut only after they have been sorted, by a column. *)
OrderInv ==
  /\ phase \in {"order", "truncate"} => bind.order.column # NoColumn
  /\ phase = "truncate" => Sorted(work_units)

LEMMA PlannedType ==
  ASSUME TypeOK
  PROVE  /\ Planned \subseteq UnitsOfBind
         /\ \A u \in Planned : u = Unit(u.object_idx, u.block_idx)
<1>1. Planned \subseteq UnitsOfBind
  BY PlanFacts DEF Planned
<1> QED BY <1>1 DEF UnitsOfBind, Unit

LEMMA ListedStep ==
  ASSUME TypeOK, ListedInv, [Next]_init_vars
  PROVE  ListedInv'
<1>0. UNCHANGED bind
  BY DEF Next, InitStep, ListObject, SkipObject, ReadMeta, Fallback, KeepBlock, DropBlock,
         EndObject, EndPruning, SortUnits, SortFails, Truncate, Returned, init_vars
<1> DEFINE Listed(u) == InFile(u) \/ u.block_idx <= bind.objects[u.object_idx].blocks
<1>1. SUFFICES \A u \in Planned' : Listed(u)
  BY <1>0 DEF ListedInv, InFile
<1>2. CASE Planned' \subseteq Planned
  BY <1>2 DEF ListedInv
<1>3. CASE ListObject \/ Fallback
  <2>1. PICK o \in 1 .. Len(bind.objects) : o = obj
    BY <1>3, BindFacts DEF ListObject, Fallback, AtObject, TypeOK
  <2>2. Planned' = Planned \cup {Unit(o, b) : b \in 1 .. bind.objects[o].blocks}
    BY <1>3, <2>1, PlannedGrows DEF ListObject, Fallback
  <2>3. \A b \in 1 .. bind.objects[o].blocks : Listed(Unit(o, b))
    BY BindFacts DEF Unit
  <2> QED BY <2>2, <2>3 DEF ListedInv
<1>4. CASE KeepBlock
  <2>1. PICK o \in 1 .. Len(bind.objects), b \in Nat \ {0} : o = obj /\ b = blk
    BY <1>4, BindFacts DEF KeepBlock, AtBlock, TypeOK
  <2>2. Planned' = Planned \cup {Unit(o, b)} /\ b <= Len(bind.objects[o].file)
    BY <1>4, <2>1, PlannedGrows DEF KeepBlock, AtBlock, File
  <2>3. Listed(Unit(o, b))
    BY <2>2 DEF Unit, InFile
  <2> QED BY <2>2, <2>3 DEF ListedInv
<1>5. CASE SortUnits
  BY <1>2, <1>5, ReorderingFacts DEF SortUnits, Planned
<1>6. CASE Truncate
  BY <1>2, <1>6, TruncateFacts DEF Planned
<1>7. CASE UNCHANGED work_units
  BY <1>2, <1>7 DEF Planned
<1> QED BY <1>3, <1>4, <1>5, <1>6, <1>7 DEF Next, InitStep, SkipObject, ReadMeta, DropBlock,
           EndObject, EndPruning, SortFails, Returned, init_vars

LEMMA OrderStep ==
  ASSUME TypeOK, OrderInv, [Next]_init_vars
  PROVE  OrderInv'
<1>0. UNCHANGED bind
  BY DEF Next, InitStep, ListObject, SkipObject, ReadMeta, Fallback, KeepBlock, DropBlock,
         EndObject, EndPruning, SortUnits, SortFails, Truncate, Returned, init_vars
<1>2. CASE UNCHANGED init_vars \/ Returned
  <2>1. UNCHANGED <<phase, work_units>>
    BY <1>2 DEF Returned, init_vars
  <2>2. Sorted(work_units)' = Sorted(work_units)
    BY <1>0, <2>1 DEF Sorted, Before, OrderKey, InFile, BlockOf
  <2> QED BY <1>0, <2>1, <2>2 DEF OrderInv
<1>3. CASE SortUnits
  <2>1. phase = "order" /\ Sorted(work_units')
    BY <1>3 DEF SortUnits
  <2>2. PICK units : units = work_units' /\ Sorted(units)
    BY <2>1 DEF Sorted
  <2>3. Sorted(work_units)'
    <3> SUFFICES ASSUME NEW i \in DOMAIN work_units', NEW j \in DOMAIN work_units', i < j
                 PROVE  ~Before(OrderKey(work_units[j]), OrderKey(work_units[i]))'
      BY DEF Sorted
    <3>1. ~Before(OrderKey(units[j]), OrderKey(units[i]))
      BY <2>2 DEF Sorted
    <3> QED BY <1>0, <2>2, <3>1 DEF Before, OrderKey, InFile, BlockOf
  <2> QED BY <1>0, <2>1, <2>3 DEF OrderInv
<1>4. CASE EndPruning
  BY <1>0, <1>4 DEF EndPruning, OrderInv
<1>5. CASE ~(UNCHANGED init_vars \/ Returned \/ SortUnits \/ EndPruning)
  <2>1. phase' \notin {"order", "truncate"}
    BY <1>5 DEF Next, InitStep, ListObject, SkipObject, ReadMeta, Fallback, KeepBlock, DropBlock,
         EndObject, SortFails, Truncate, AtObject, AtBlock, MayThrow
  <2> QED BY <2>1 DEF OrderInv
<1> QED BY <1>2, <1>3, <1>4, <1>5

(* A block of the table is a block of some object's file. *)
LEMMA BlockFacts ==
  ASSUME TypeOK, NEW w \in TableBlocks, InFile(w)
  PROVE  \E o \in 1 .. Len(bind.objects) : \E b \in DOMAIN bind.objects[o].file :
           /\ w = Unit(o, b) /\ BlockOf(w) = bind.objects[o].file[b]
           /\ Len(BlockOf(w).rows) \in Nat
           /\ DOMAIN BlockOf(w).rows = 1 .. Len(BlockOf(w).rows)
<1>1. PICK o \in DOMAIN bind.objects, p \in DOMAIN bind.objects :
        \E b \in DOMAIN bind.objects[p].file : w = Unit(o, b)
  BY DEF TableBlocks
<1>2. PICK b \in DOMAIN bind.objects[p].file : w = Unit(o, b)
  BY <1>1
<1>3. o \in 1 .. Len(bind.objects) /\ b \in 1 .. Len(bind.objects[o].file)
  BY <1>2, BindFacts DEF InFile, Unit, WellFormedBind
<1>4. BlockOf(w) = bind.objects[o].file[b] /\ b \in DOMAIN bind.objects[o].file
  BY <1>2, <1>3, BindFacts DEF BlockOf, Unit
<1> DEFINE Rows == Seq([Columns -> Int \cup {Null}])
           ZoneMaps == [Columns -> [inited : {FALSE}] \cup [inited : {TRUE}, min : Int, max : Int]]
<1>5. bind.objects[o].file \in Seq([rows : Rows, zms : ZoneMaps])
  BY <1>3, BindFacts DEF WellFormedBind, WellFormedObject
<1> HIDE DEF Rows, ZoneMaps
<1>6. bind.objects[o].file[b] \in [rows : Rows, zms : ZoneMaps]
  BY <1>4, <1>5, LenProperties, ElementOfSeq
<1>7. BlockOf(w).rows \in Rows
  BY <1>4, <1>6
<1>8. Len(BlockOf(w).rows) \in Nat /\ DOMAIN BlockOf(w).rows = 1 .. Len(BlockOf(w).rows)
  BY <1>7, LenProperties DEF Rows
<1> QED BY <1>2, <1>3, <1>4, <1>8

(* Of two blocks in sorted order, the rows are in order if the blocks do not
   overlap. *)
LEMMA RowsInOrder ==
  ASSUME TypeOK, OrderUsable, Separated, bind.order.column # NoColumn,
         NEW u \in TableBlocks, NEW v \in TableBlocks, u # v, InFile(u), InFile(v),
         ~Before(OrderKey(u), OrderKey(v)),
         NEW i \in DOMAIN BlockOf(u).rows, NEW j \in DOMAIN BlockOf(v).rows
  PROVE  ~Before(BlockOf(u).rows[i][bind.order.column], BlockOf(v).rows[j][bind.order.column])
<1> DEFINE c == bind.order.column
           x == BlockOf(u).rows[i][c]
           y == BlockOf(v).rows[j][c]
           zu == OrderZoneMap(u)
           zv == OrderZoneMap(v)
<1>1. c \in Columns /\ bind.order.ascending \in BOOLEAN
  BY BindFacts DEF WellFormedBind
<1>2. ASSUME NEW w \in TableBlocks, InFile(w), NEW k \in DOMAIN BlockOf(w).rows
      PROVE  LET z == OrderZoneMap(w)
                 r == BlockOf(w).rows[k][c]
             IN  /\ z.inited /\ z.min \in Int /\ z.max \in Int
                 /\ r \in Int /\ r # Null /\ z.min <= r /\ r <= z.max
  <2>1. PICK o \in 1 .. Len(bind.objects) : \E b \in DOMAIN bind.objects[o].file :
          w = Unit(o, b) /\ BlockOf(w) = bind.objects[o].file[b]
    BY <1>2, BlockFacts
  <2>2. PICK b \in DOMAIN bind.objects[o].file : BlockOf(w) = bind.objects[o].file[b]
    BY <2>1
  <2>3. OrderZoneMap(w).inited /\ Null \notin Column(BlockOf(w), c)
    BY <1>2 DEF OrderUsable
  <2>4. BlockOf(w).rows[k][c] # Null
    BY <1>2, <2>3 DEF Column
  <2>5. k \in DOMAIN bind.objects[o].file[b].rows
    BY <1>2, <2>2
  <2>6. OrderZoneMap(w) = bind.objects[o].file[b].zms[c]
    BY <2>2 DEF OrderZoneMap
  <2>7. LET r == bind.objects[o].file[b].rows[k][c]
            z == bind.objects[o].file[b].zms[c]
        IN  /\ r \in Int \cup {Null}
            /\ z.inited => z.min \in Int /\ z.max \in Int /\ (r # Null => z.min <= r /\ r <= z.max)
    <3> PICK d \in Columns : d = c
      BY <1>1
    <3> HIDE DEF c
    <3> QED BY <2>2, <2>5, FileFacts
  <2> QED BY <2>2, <2>3, <2>4, <2>6, <2>7
<1>3. /\ zu.inited /\ zu.min \in Int /\ zu.max \in Int
      /\ x \in Int /\ x # Null /\ zu.min <= x /\ x <= zu.max
  BY <1>2
<1>4. /\ zv.inited /\ zv.min \in Int /\ zv.max \in Int
      /\ y \in Int /\ y # Null /\ zv.min <= y /\ y <= zv.max
  BY <1>2
<1>5. zu.max < zv.min \/ zv.max < zu.min
  BY DEF Separated
<1>6. /\ OrderKey(u) = IF bind.order.ascending THEN zu.min ELSE zu.max
      /\ OrderKey(v) = IF bind.order.ascending THEN zv.min ELSE zv.max
  BY <1>3, <1>4 DEF OrderKey, OrderZoneMap, OrderUsable
<1> HIDE DEF x, y, zu, zv
<1>7. PICK un \in Int, ux \in Int, vn \in Int, vx \in Int, xx \in Int, yy \in Int :
        un = zu.min /\ ux = zu.max /\ vn = zv.min /\ vx = zv.max /\ xx = x /\ yy = y
  BY <1>3, <1>4
<1>8. /\ un <= xx /\ xx <= ux /\ vn <= yy /\ yy <= vx
      /\ ux < vn \/ vx < un
  BY <1>3, <1>4, <1>5, <1>7
<1>9. CASE bind.order.ascending
  <2>1. ~(un < vn)
    BY <1>6, <1>7, <1>9, ZoneMapAssumption DEF Before
  <2>2. yy <= xx
    BY <1>8, <2>1
  <2> QED BY <1>3, <1>4, <1>7, <1>9, <2>2, ZoneMapAssumption DEF Before, x, y
<1>10. CASE ~bind.order.ascending
  <2>1. ~(ux > vx)
    BY <1>6, <1>7, <1>10, ZoneMapAssumption DEF Before
  <2>2. xx <= yy
    BY <1>8, <2>1
  <2> QED BY <1>3, <1>4, <1>7, <1>10, <2>2, ZoneMapAssumption DEF Before, x, y
<1> QED BY <1>9, <1>10

(* Before the cut every row is queued. *)
LEMMA AllRowsPlanned ==
  ASSUME TypeOK, KeptInv, ~MayBeCut, OrderUsable, Decided = 1 .. Len(bind.objects),
         NEW u \in TableBlocks, InFile(u), DOMAIN BlockOf(u).rows # {}
  PROVE  u \in Planned
<1>1. PICK o \in 1 .. Len(bind.objects) : \E b \in DOMAIN bind.objects[o].file :
        u = Unit(o, b) /\ BlockOf(u) = bind.objects[o].file[b]
  BY BlockFacts
<1>2. PICK b \in DOMAIN bind.objects[o].file :
        u = Unit(o, b) /\ BlockOf(u) = bind.objects[o].file[b]
  BY <1>1
<1>3. HasMatch(o, b)
  BY <1>2 DEF HasMatch, RowPassesFilters, OrderUsable
<1>4. MatchesFile(bind.objects[o]) /\ b \in 1 .. Len(bind.objects[o].file)
  BY BindFacts DEF OrderUsable, WellFormedBind
<1> QED BY <1>2, <1>3, <1>4 DEF KeptInv, KeptUpTo

(* What the cut keeps comes no later than what it drops, and is enough. *)
LEMMA TruncateKeepsTop ==
  ASSUME TypeOK, UnitsDistinct, KeptInv, ListedInv, OrderInv, Truncate, OrderUsable, Separated
  PROVE  CutRowsArePastLimit'
<1> DEFINE c == bind.order.column
           Row(w, j) == BlockOf(w).rows[j][c]
<1>0. bind' = bind /\ phase = "truncate" /\ c # NoColumn
  BY DEF Truncate, OrderInv
<1>1. SUFFICES ASSUME NEW u \in TableBlocks, u \notin Planned', InFile(u),
                      NEW i \in DOMAIN BlockOf(u).rows
               PROVE  Cardinality(QueuedUpTo(Row(u, i)))' >= bind.order.row_limit
  <2>1. TableBlocks' = TableBlocks /\ \A w : InFile(w)' = InFile(w) /\ BlockOf(w)' = BlockOf(w)
    <3>1. bind' = bind
      BY <1>0
    <3>2. TableBlocks' = TableBlocks
      BY <3>1 DEF TableBlocks
    <3>3. \A w : InFile(w)' = InFile(w) /\ BlockOf(w)' = BlockOf(w)
      BY <3>1 DEF InFile, BlockOf
    <3> QED BY <3>2, <3>3
  <2> QED BY <1>0, <2>1 DEF CutRowsArePastLimit
<1>2. /\ work_units \in Seq(UnitsOfBind)
      /\ Len(work_units) \in Nat /\ DOMAIN work_units = 1 .. Len(work_units)
  BY PlanFacts
<1>3. u \in Planned
  BY <1>0, <1>1, AllRowsPlanned DEF MayBeCut, Decided
<1>4. PICK p \in 1 .. Len(work_units) : work_units[p] = u
  BY <1>2, <1>3 DEF Planned
<1>5. PICK n \in 1 .. Len(work_units) :
        ReachesLimit(n) /\ work_units' = SubSeq(work_units, 1, n)
  <2>1. work_units' # work_units
    BY <1>1, <1>3 DEF Planned
  <2> QED BY <1>2, <2>1 DEF Truncate
<1>6. DOMAIN work_units' = 1 .. n /\ \A k \in 1 .. n : work_units'[k] = work_units[k]
  <2>1. \A k \in 1 .. n : work_units[k] \in UnitsOfBind
    BY <1>2, ElementOfSeq
  <2> QED BY <1>2, <1>5, <2>1, SubSeqProperties, LenProperties
<1>7. n < p
  BY <1>1, <1>4, <1>6 DEF Planned
<1>8. ASSUME NEW k \in 1 .. n
      PROVE  LET w == work_units[k]
             IN  w \in TableBlocks /\ InFile(w) /\ w # u /\ ~Before(OrderKey(u), OrderKey(w))
  <2> DEFINE w == work_units[k]
  <2>1. k \in 1 .. Len(work_units) /\ k < p
    BY <1>7
  <2>2. w \in Planned /\ w \in UnitsOfBind
    BY <1>2, <2>1, PlanFacts DEF Planned
  <2>3. w # u
    BY <1>2, <1>4, <2>1 DEF UnitsDistinct
  <2>4. ~Before(OrderKey(u), OrderKey(w))
    BY <1>0, <1>2, <1>4, <2>1 DEF OrderInv, Sorted
  <2>5. PICK o \in 1 .. Len(bind.objects), b \in Nat \ {0} : w = Unit(o, b)
    BY <2>2, PlannedType DEF UnitsOfBind
  <2>6. InFile(w)
    <3>1. MatchesFile(bind.objects[o])
      BY BindFacts DEF OrderUsable, WellFormedBind
    <3> QED BY <2>2, <2>5, <3>1 DEF ListedInv, InFile, MatchesFile, Unit
  <2>7. b \in DOMAIN bind.objects[o].file
    BY <2>5, <2>6, BindFacts DEF InFile, Unit
  <2>8. w \in TableBlocks
    BY <2>5, <2>7, BindFacts DEF TableBlocks, WellFormedBind
  <2> QED BY <2>3, <2>4, <2>6, <2>8
<1>9. \A k \in 1 .. n : \A j \in DOMAIN BlockOf(work_units[k]).rows :
        ~Before(Row(u, i), Row(work_units[k], j))
  BY <1>0, <1>1, <1>8, RowsInOrder
<1> DEFINE F == [k \in 1 .. n |-> {<<work_units[k], j>> : j \in DOMAIN BlockOf(work_units[k]).rows}]
           count == [k \in DOMAIN work_units |-> BlockRowCount(work_units[k])]
<1>10. QueuedUpTo(Row(u, i))' = UNION {F[k] : k \in 1 .. n}
  <2>1. Row(u, i)' = Row(u, i)
    BY <1>0 DEF BlockOf
  <2>2. QueuedUpTo(Row(u, i))' =
          UNION {{<<w, j>> : j \in {l \in DOMAIN BlockOf(w).rows : ~Before(Row(u, i), Row(w, l))}} :
                   w \in Planned'}
    BY <1>0, <2>1 DEF QueuedUpTo, BlockOf, Before
  <2>3. Planned' = {work_units[k] : k \in 1 .. n}
    BY <1>6 DEF Planned
  <2>4. \A k \in 1 .. n : {<<work_units[k], j>> : j \in {l \in DOMAIN BlockOf(work_units[k]).rows :
                             ~Before(Row(u, i), Row(work_units[k], l))}} = F[k]
    BY <1>9
  <2> HIDE DEF F, Row
  <2> QED BY <2>2, <2>3, <2>4
<1>11. /\ \A k \in 1 .. n : IsFiniteSet(F[k]) /\ Cardinality(F[k]) = count[k]
       /\ \A j, k \in 1 .. n : j # k => F[j] \cap F[k] = {}
  <2>1. ASSUME NEW k \in 1 .. n PROVE IsFiniteSet(F[k]) /\ Cardinality(F[k]) = count[k]
    <3> DEFINE w == work_units[k]
               m == Len(BlockOf(w).rows)
               f == [j \in 1 .. m |-> <<w, j>>]
    <3>1. m \in Nat /\ DOMAIN BlockOf(w).rows = 1 .. m
      BY <1>8, BlockFacts
    <3>2. F[k] = {f[j] : j \in 1 .. m}
      BY <3>1
    <3>3. \A j, l \in 1 .. m : j # l => f[j] # f[l]
      OBVIOUS
    <3>4. count[k] = m
      BY <1>2, <1>8 DEF BlockRowCount
    <3> HIDE DEF f, m, F, count
    <3>5. IsFiniteSet({f[j] : j \in 1 .. m}) /\ Cardinality({f[j] : j \in 1 .. m}) = m
      BY <3>1, <3>3, CountOfImage
    <3> QED BY <3>2, <3>4, <3>5
  <2>2. ASSUME NEW j \in 1 .. n, NEW k \in 1 .. n, j # k PROVE F[j] \cap F[k] = {}
    <3>1. work_units[j] # work_units[k]
      BY <1>2, <2>2 DEF UnitsDistinct
    <3> QED BY <3>1
  <2> QED BY <2>1, <2>2
<1> HIDE DEF F, count
<1>12. Cardinality(UNION {F[k] : k \in 1 .. n}) = SumTo(count, n)
  <2>1. n \in Nat
    BY <1>2
  <2> QED BY <1>11, <2>1, CountOfDisjoint
<1>13. SumTo(count, n) >= bind.order.row_limit
  BY <1>5 DEF ReachesLimit, RowsAvailable, count
<1> QED BY <1>10, <1>12, <1>13

LEMMA TopNStep ==
  ASSUME TypeOK, UnitsDistinct, KeptInv, ListedInv, OrderInv, TopNKept, [Next]_init_vars
  PROVE  TopNKept'
<1>0. UNCHANGED bind
  BY DEF Next, InitStep, ListObject, SkipObject, ReadMeta, Fallback, KeepBlock, DropBlock,
         EndObject, EndPruning, SortUnits, SortFails, Truncate, Returned, init_vars
<1>1. /\ OrderUsable' = OrderUsable /\ Separated' = Separated /\ TableBlocks' = TableBlocks
      /\ \A w : InFile(w)' = InFile(w) /\ BlockOf(w)' = BlockOf(w)
  BY <1>0 DEF OrderUsable, Separated, TableBlocks, InFile, BlockOf, OrderZoneMap, MatchesFile
<1>2. CASE UNCHANGED init_vars \/ Returned
  <2>1. UNCHANGED <<phase, work_units>>
    BY <1>2 DEF Returned, init_vars
  <2>2. CutRowsArePastLimit' = CutRowsArePastLimit
    BY <1>0, <2>1 DEF CutRowsArePastLimit, QueuedUpTo, Planned, TableBlocks, InFile, BlockOf, Before
  <2> QED BY <1>0, <1>1, <2>1, <2>2 DEF TopNKept, MayBeCut
<1>3. CASE Truncate
  BY <1>1, <1>3, TruncateKeepsTop DEF TopNKept
<1>4. CASE EndPruning
  <2>1. phase = "object" /\ obj > Len(bind.objects) /\ UNCHANGED work_units
    BY <1>4 DEF EndPruning
  <2>2. Decided = 1 .. Len(bind.objects)
    BY <2>1, BindFacts DEF Decided, TypeOK
  <2>3. ~MayBeCut /\ Planned' = Planned
    BY <2>1 DEF MayBeCut, Planned
  <2>4. OrderUsable => \A u \in TableBlocks \ Planned : InFile(u) => DOMAIN BlockOf(u).rows = {}
    BY <2>2, <2>3, AllRowsPlanned
  <2> QED BY <1>1, <2>3, <2>4 DEF TopNKept, CutRowsArePastLimit
<1>5. CASE SortUnits
  BY <1>0, <1>5, BindFacts DEF SortUnits, TopNKept, MayBeCut, WellFormedBind
<1>6. CASE ListObject \/ SkipObject \/ ReadMeta \/ Fallback \/ KeepBlock \/ DropBlock
           \/ EndObject \/ SortFails
  <2>1. phase' # "ready"
    BY <1>6 DEF ListObject, SkipObject, ReadMeta, Fallback, KeepBlock, DropBlock, EndObject,
         SortFails, AtObject, AtBlock
  <2> QED BY <2>1 DEF TopNKept, MayBeCut
<1> QED BY <1>2, <1>3, <1>4, <1>5, <1>6 DEF Next, InitStep

(* ORDER BY ... LIMIT without filters: when no two blocks overlap in the order
   column and the order uses the statistic of its direction, the rows that are
   left contain an answer, for every manifest that matches its files. *)
THEOREM CutKeepsTop == Spec => []TopNKept
<1> DEFINE Inv == TypeOK /\ DistinctInv /\ KeptInv /\ ListedInv /\ OrderInv /\ TopNKept
<1>1. Init => Inv
  <2>1. Init => ListedInv /\ OrderInv /\ TopNKept
    BY DEF Init, ListedInv, OrderInv, TopNKept, MayBeCut, Planned
  <2> QED BY <2>1, TypeInit, DistinctInit, KeptInit
<1>2. Inv /\ [Next]_init_vars => Inv'
  BY TypeStep, DistinctStep, KeptStep, ListedStep, OrderStep, TopNStep DEF DistinctInv
<1>3. Inv => TopNKept
  OBVIOUS
<1> QED BY <1>1, <1>2, <1>3, PTL DEF Spec
===========================================================================
