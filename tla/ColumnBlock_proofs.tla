--------------------------- MODULE ColumnBlock_proofs ---------------------------
(***************************************************************************)
(* Zone maps are sound, for every set of integers or strings, every filter *)
(* on them and every width that strings are cut to; those of fixed-width   *)
(* columns are sharp as well.                                              *)
(***************************************************************************)
EXTENDS ColumnBlock, ZoneMap_proofs

(* The zone map of a block covers the block's values. *)
Covers ==
  kind = "fixed" =>
    /\ rows \subseteq Int \cup {Null}
    /\ zm.inited \in BOOLEAN
    /\ ~zm.inited => rows \subseteq {Null}
    /\ zm.inited => /\ zm.min \in Int /\ zm.max \in Int /\ zm.min <= zm.max
                    /\ \A v \in rows \ {Null} : zm.min <= v /\ v <= zm.max

(* Appending a value keeps the zone map a cover. *)
LEMMA CoversStep == Covers /\ [Next]_vars => Covers'
<1> SUFFICES ASSUME Covers, [Next]_vars, kind' = "fixed" PROVE Covers'
  BY DEF Covers
<1>1. CASE UNCHANGED vars
  BY <1>1 DEF vars, Covers
<1>2. CASE Next
  <2>1. kind = "fixed"
    BY <1>2 DEF Next, AppendRow
  <2>2. PICK v \in Fixed \cup {Null} : AppendRow(v)
    BY <1>2, <2>1 DEF Next, Values
  <2>3. rows' = rows \cup {v} /\ zm' = UpdateZoneMap(kind, zm, v)
    BY <2>2 DEF AppendRow
  <2>4. CASE v = Null
    BY <2>1, <2>3, <2>4 DEF UpdateZoneMap, Covers
  <2>5. CASE v # Null
    <3>1. v \in Int
      BY <2>5, <2>2, ColumnBlockAssumption
    <3>2. zm' = UpdateFixed(zm, v)
      BY <2>1, <2>3, <2>5 DEF UpdateZoneMap
    <3>3. CASE ~zm.inited
      <4>1. /\ zm'.inited = TRUE /\ zm'.min = v /\ zm'.max = v
        BY <3>2, <3>3 DEF UpdateFixed, FixedZoneMap
      <4>2. rows' \subseteq {v, Null}
        BY <2>1, <2>3, <3>3 DEF Covers
      <4>3. v <= v
        BY <3>1
      <4>4. \A w \in rows' \ {Null} : zm'.min <= w /\ w <= zm'.max
        BY <4>1, <4>2, <4>3
      <4> QED BY <3>1, <4>1, <4>2, <4>3, <4>4 DEF Covers
    <3>4. CASE zm.inited
      <4>1. /\ zm'.inited = TRUE
            /\ zm'.min = IF v < zm.min THEN v ELSE zm.min
            /\ zm'.max = IF v > zm.max THEN v ELSE zm.max
        BY <3>2, <3>4 DEF UpdateFixed, FixedZoneMap
      <4>2. /\ zm.min \in Int /\ zm.max \in Int /\ zm.min <= zm.max
            /\ rows \subseteq Int \cup {Null}
            /\ \A w \in rows \ {Null} : zm.min <= w /\ w <= zm.max
        BY <2>1, <3>4 DEF Covers
      <4>3. /\ zm'.min \in Int /\ zm'.max \in Int /\ zm'.min <= zm'.max
            /\ zm'.min <= v /\ v <= zm'.max
            /\ zm'.min <= zm.min /\ zm.max <= zm'.max
        BY <3>1, <4>1, <4>2
      <4>4. ASSUME NEW w \in rows' \ {Null} PROVE zm'.min <= w /\ w <= zm'.max
        <5>1. CASE w = v
          BY <4>3, <5>1
        <5>2. CASE w \in rows
          <6>1. w \in Int /\ zm.min <= w /\ w <= zm.max
            BY <4>2, <5>2
          <6> QED BY <4>2, <4>3, <6>1
        <5> QED BY <2>3, <5>1, <5>2
      <4>5. rows' \subseteq Int \cup {Null}
        BY <2>3, <3>1, <4>2
      <4> QED BY <4>1, <4>3, <4>4, <4>5 DEF Covers
    <3> QED BY <2>1, <3>3, <3>4 DEF Covers
  <2> QED BY <2>4, <2>5
<1> QED BY <1>1, <1>2

(* A covering zone map rejects no filter that a row satisfies. *)
LEMMA CoverIsSound == Covers => NoFalseSkipFixed
<1> SUFFICES ASSUME Covers, kind = "fixed", NEW f \in FixedFilters,
                    NEW v \in rows, RowPassesFilter("fixed", f, v)
             PROVE  EvalFilterOnZoneMap("fixed", f, zm)
  BY DEF NoFalseSkipFixed, FalseSkip
<1>1. f \in Filter(Int) /\ v \in Int \cup {Null}
  BY ColumnBlockAssumption DEF Covers
<1>2. zm.inited => /\ zm.min \in Int /\ zm.max \in Int
                   /\ v # Null => zm.min <= v /\ v <= zm.max
  BY DEF Covers
<1> QED BY <1>1, <1>2, SpanIsSound

(* No filter on a fixed-width column makes the scan skip a block with a
   matching row, whatever the block holds. *)
THEOREM FixedZoneMapsSound == Spec => []NoFalseSkipFixed
<1>1. Init => Covers
  BY DEF Init, Covers, NoZoneMap
<1> QED BY <1>1, CoversStep, CoverIsSound, PTL DEF Spec

(* A comparison that passes the zone map is satisfied by a value of its range:
   the minimum, the maximum, or the constant itself. *)
LEMMA CoverIsSharp == Covers => KeptOnlyIfInRange
<1> SUFFICES ASSUME Covers, kind = "fixed", zm.inited, NEW f \in FixedFilters,
                    f.op \in ScalarOps, EvalFilterOnZoneMap(kind, f, zm)
             PROVE  \E x \in zm.min .. zm.max : OpHolds(f.op, CompareFixed(x, f.constant))
  BY DEF KeptOnlyIfInRange
<1>1. /\ zm.min \in zm.min .. zm.max /\ zm.max \in zm.min .. zm.max
      /\ zm.min \in Int /\ zm.max \in Int /\ f.constant \in Int
  BY FilterTypes, ColumnBlockAssumption DEF Covers
<1>2. ZoneMapCheckFixed(zm, f.op, f.constant)
  BY DEF EvalFilterOnZoneMap, ZoneMapCheckScalar, ScalarOps, NullOps
<1>3. CASE f.op = "EQUAL"
  <2>1. f.constant \in zm.min .. zm.max
    BY <1>1, <1>2, <1>3 DEF ZoneMapCheckFixed, ContainsKey, NullOps
  <2>2. OpHolds(f.op, CompareFixed(f.constant, f.constant))
    BY <1>1, <1>3 DEF OpHolds, CompareFixed
  <2> QED BY <2>1, <2>2
<1>4. CASE f.op # "EQUAL"
  <2>1. \/ OpHolds(f.op, CompareFixed(zm.min, f.constant))
        \/ OpHolds(f.op, CompareFixed(zm.max, f.constant))
    BY <1>1, <1>2, <1>4 DEF ZoneMapCheckFixed, OpHolds, CompareFixed, ScalarOps, NullOps,
         AnyGE, AnyGT, AnyLE, AnyLT
  <2> QED BY <1>1, <2>1
<1> QED BY <1>3, <1>4

(* The test is as sharp as a minimum and a maximum allow. *)
THEOREM FixedZoneMapsSharp == Spec => []KeptOnlyIfInRange
<1>1. Init => Covers
  BY DEF Init, Covers, NoZoneMap
<1> QED BY <1>1, CoversStep, CoverIsSharp, PTL DEF Spec

---------------------------------------------------------------------------
(* Strings *)

(* The bytes that are kept of a string are its own. *)
LEMMA CutFacts ==
  ASSUME NEW v \in Seq(Nat)
  PROVE  /\ CutTo(v) \in Seq(Nat) /\ Len(CutTo(v)) <= Width
         /\ \A i \in 1 .. Width : ByteOf(CutTo(v), i) = ByteOf(v, i)
         /\ Len(v) <= Width => CutTo(v) = v
         /\ CutTo(v) = v \/ Precedes(CutTo(v), v)
<1>1. Width \in Nat \ {0} /\ Len(v) \in Nat
  BY ZoneMapAssumption, LenProperties
<1>2. CASE Len(v) <= Width
  BY <1>1, <1>2 DEF CutTo
<1>3. CASE Len(v) > Width
  <2>1. CutTo(v) = SubSeq(v, 1, Width)
    BY <1>3 DEF CutTo
  <2>2. /\ CutTo(v) \in Seq(Nat) /\ Len(CutTo(v)) = Width
        /\ \A i \in 1 .. Width : CutTo(v)[i] = v[i]
    BY <1>1, <1>3, <2>1, SubSeqProperties
  <2>3. \A i \in 1 .. Width : ByteOf(CutTo(v), i) = ByteOf(v, i)
    BY <1>1, <1>3, <2>2 DEF ByteOf
  <2>4. PrecedesAt(CutTo(v), v, Width + 1)
    <3>1. v[Width + 1] \in Nat
      BY <1>1, <1>3, ElementOfSeq
    <3>2. ByteOf(CutTo(v), Width + 1) = -1 /\ ByteOf(v, Width + 1) = v[Width + 1]
      BY <1>1, <1>3, <2>2 DEF ByteOf
    <3> QED BY <1>1, <2>3, <3>1, <3>2 DEF PrecedesAt
  <2>5. Precedes(CutTo(v), v)
    BY <1>1, <2>4 DEF Precedes
  <2> QED BY <1>1, <1>3, <2>2, <2>3, <2>5
<1> QED BY <1>1, <1>2, <1>3

LEMMA PrecedesThrough ==
  ASSUME NEW a \in Seq(Nat), NEW b \in Seq(Nat), NEW c \in Seq(Nat),
         Precedes(a, b), b = c \/ Precedes(b, c)
  PROVE  Precedes(a, c)
<1>1. CASE b = c
  BY <1>1
<1>2. CASE Precedes(b, c)
  <2>1. PICK i \in Nat \ {0} : PrecedesAt(a, b, i)
    BY DEF Precedes
  <2>2. PICK k \in Nat \ {0} : PrecedesAt(b, c, k)
    BY <1>2 DEF Precedes
  <2> QED BY <2>1, <2>2, PrecedesTransitive DEF Precedes
<1> QED BY <1>1, <1>2

(* A string with room for no more than Width bytes that another precedes differs
   from it in one of these. *)
LEMMA PrecedesEarly ==
  ASSUME NEW a \in Seq(Nat), NEW b \in Seq(Nat), Len(b) <= Width, Precedes(a, b)
  PROVE  \E i \in 1 .. Width : PrecedesAt(a, b, i)
<1>1. PICK i \in Nat \ {0} : PrecedesAt(a, b, i)
  BY DEF Precedes
<1>2. ByteOf(a, i) \in Int /\ ByteOf(a, i) >= -1
  <2>1. i <= Len(a) => a[i] \in Nat
    BY LenProperties, ElementOfSeq
  <2> QED BY <2>1 DEF ByteOf
<1>3. i <= Len(b)
  BY <1>1, <1>2, LenProperties DEF PrecedesAt, ByteOf
<1> QED BY <1>1, <1>3, LenProperties, ZoneMapAssumption

(* The zone map of a block covers the block's strings. *)
StringCovers ==
  kind = "string" =>
    /\ rows \subseteq Seq(Nat) \cup {Null}
    /\ zm.inited \in BOOLEAN
    /\ ~zm.inited => rows \subseteq {Null}
    /\ zm.inited => \A v \in rows \ {Null} : CoversString(zm, v)
    /\ zm.inited => /\ zm.min \in Seq(Nat) /\ zm.max \in Seq(Nat) /\ Len(zm.max) <= Width

(* Appending a string makes the zone map cover it. *)
LEMMA NewCovered ==
  ASSUME NEW z, z.inited, z.min \in Seq(Nat), z.max \in Seq(Nat), Len(z.max) <= Width,
         NEW v \in Seq(Nat)
  PROVE  CoversString(UpdateString(z, v), v)
<1> DEFINE cut == CutTo(v)
           long == Len(v) > Width
           c == CompareString(cut, z.max)
           new == UpdateString(z, v)
<1>1. /\ cut \in Seq(Nat) /\ Len(cut) <= Width
      /\ \A i \in 1 .. Width : ByteOf(cut, i) = ByteOf(v, i)
      /\ ~long => cut = v
      /\ cut = v \/ Precedes(cut, v)
  BY CutFacts, ZoneMapAssumption, LenProperties
<1>2. /\ new.min = IF CompareString(cut, z.min) < 0 THEN cut ELSE z.min
      /\ new.max = IF c > 0 THEN cut ELSE z.max
      /\ new.max_truncated = IF c > 0 THEN long ELSE z.max_truncated \/ (c = 0 /\ long)
  BY DEF UpdateString, StringZoneMap
<1>3. /\ c \in {-1, 0, 1} /\ (c = 0 => cut = z.max) /\ (c < 0 => Precedes(cut, z.max))
  BY <1>1, CompareFacts
<1>4. MinCovers(new, v)
  <2>1. CASE CompareString(cut, z.min) < 0
    BY <1>1, <1>2, <2>1 DEF MinCovers
  <2>2. CASE ~(CompareString(cut, z.min) < 0)
    <3>1. new.min = z.min /\ (z.min = cut \/ Precedes(z.min, cut))
      BY <1>1, <1>2, <2>2, CompareFacts
    <3>2. z.min = v \/ Precedes(z.min, v)
      BY <1>1, <3>1, PrecedesThrough
    <3> QED BY <3>1, <3>2 DEF MinCovers
  <2> QED BY <2>1, <2>2
<1> HIDE DEF c, cut, new
<1>5. MaxCovers(new, v)
  <2>1. CASE c > 0 \/ c = 0
    <3>1. new.max = cut /\ (long => new.max_truncated)
      BY <1>2, <1>3, <2>1
    <3> QED BY <1>1, <3>1 DEF MaxCovers
  <2>2. CASE c < 0
    <3>1. new.max = z.max
      BY <1>2, <1>3, <2>2
    <3>2. PICK i \in 1 .. Width : PrecedesAt(cut, z.max, i)
      BY <1>1, <1>3, <2>2, PrecedesEarly
    <3>3. \A j \in 1 .. i : ByteOf(cut, j) = ByteOf(v, j)
      BY <1>1, ZoneMapAssumption
    <3>4. PrecedesAt(v, z.max, i)
      BY <3>2, <3>3, ZoneMapAssumption DEF PrecedesAt
    <3> QED BY <3>1, <3>4 DEF MaxCovers
  <2> QED BY <1>3, <2>1, <2>2
<1>6. new.min \in Seq(Nat) /\ new.max \in Seq(Nat) /\ Len(new.max) <= Width
  BY <1>1, <1>2
<1> QED BY <1>4, <1>5, <1>6 DEF CoversString, new

(* It still covers what it covered. *)
LEMMA OldCovered ==
  ASSUME NEW z, z.inited, NEW v \in Seq(Nat), NEW w \in Seq(Nat), CoversString(z, w)
  PROVE  CoversString(UpdateString(z, v), w)
<1> DEFINE cut == CutTo(v)
           long == Len(v) > Width
           c == CompareString(cut, z.max)
           new == UpdateString(z, v)
<1>1. cut \in Seq(Nat) /\ Len(cut) <= Width
  BY CutFacts
<1>2. /\ new.min = IF CompareString(cut, z.min) < 0 THEN cut ELSE z.min
      /\ new.max = IF c > 0 THEN cut ELSE z.max
      /\ new.max_truncated = IF c > 0 THEN long ELSE z.max_truncated \/ (c = 0 /\ long)
  BY DEF UpdateString, StringZoneMap
<1>3. /\ z.min \in Seq(Nat) /\ z.max \in Seq(Nat) /\ Len(z.max) <= Width
      /\ MinCovers(z, w) /\ MaxCovers(z, w)
  BY DEF CoversString
<1>4. MinCovers(new, w)
  <2>1. CASE CompareString(cut, z.min) < 0
    <3>1. new.min = cut /\ Precedes(cut, z.min)
      BY <1>1, <1>2, <1>3, <2>1, CompareFacts
    <3>2. Precedes(cut, w)
      BY <1>1, <1>3, <3>1, PrecedesThrough DEF MinCovers
    <3> QED BY <3>1, <3>2 DEF MinCovers
  <2>2. CASE ~(CompareString(cut, z.min) < 0)
    BY <1>2, <1>3, <2>2 DEF MinCovers
  <2> QED BY <2>1, <2>2
<1>5. MaxCovers(new, w)
  <2>1. CASE c > 0
    <3>1. new.max = cut /\ Precedes(z.max, cut)
      BY <1>1, <1>2, <1>3, <2>1, CompareFacts
    <3>2. PICK i \in 1 .. Width : PrecedesAt(z.max, cut, i)
      BY <1>1, <1>3, <3>1, PrecedesEarly
    <3>3. \E k \in 1 .. Width : PrecedesAt(w, cut, k)
      <4>1. CASE w = z.max
        BY <3>2, <4>1
      <4>2. CASE \E j \in 1 .. Width : PrecedesAt(w, z.max, j)
        <5>1. PICK j \in 1 .. Width : PrecedesAt(w, z.max, j)
          BY <4>2
        <5>2. i \in Nat \ {0} /\ j \in Nat \ {0}
          BY ZoneMapAssumption
        <5>3. PrecedesAt(w, cut, IF j < i THEN j ELSE i)
          BY <1>1, <1>3, <3>2, <5>1, <5>2, PrecedesTransitive
        <5> QED BY <5>3
      <4>3. CASE \A j \in 1 .. Width : ByteOf(w, j) = ByteOf(z.max, j)
        <5>1. \A j \in 1 .. i : ByteOf(w, j) = ByteOf(z.max, j)
          BY <4>3, ZoneMapAssumption
        <5>2. PrecedesAt(w, cut, i)
          BY <3>2, <5>1, ZoneMapAssumption DEF PrecedesAt
        <5> QED BY <5>2
      <4> QED BY <1>3, <4>1, <4>2, <4>3 DEF MaxCovers
    <3> HIDE DEF cut, new
    <3> QED BY <3>1, <3>3 DEF MaxCovers
  <2>2. CASE ~(c > 0)
    <3>1. new.max = z.max /\ (z.max_truncated => new.max_truncated)
      BY <1>2, <2>2
    <3> HIDE DEF new
    <3> QED BY <1>3, <3>1 DEF MaxCovers
  <2> QED BY <2>1, <2>2
<1> HIDE DEF c, cut, new
<1>6. new.min \in Seq(Nat) /\ new.max \in Seq(Nat) /\ Len(new.max) <= Width
  BY <1>1, <1>2, <1>3
<1> QED BY <1>4, <1>5, <1>6 DEF CoversString, new

LEMMA StringCoversStep == StringCovers /\ [Next]_vars => StringCovers'
<1> SUFFICES ASSUME StringCovers, [Next]_vars, kind' = "string" PROVE StringCovers'
  BY DEF StringCovers
<1>1. CASE UNCHANGED vars
  BY <1>1 DEF vars, StringCovers
<1>2. CASE Next
  <2>1. kind = "string"
    BY <1>2 DEF Next, AppendRow
  <2>2. PICK v \in Strings \cup {Null} : AppendRow(v)
    BY <1>2, <2>1 DEF Next, Values
  <2>3. rows' = rows \cup {v} /\ zm' = UpdateZoneMap(kind, zm, v)
    BY <2>2 DEF AppendRow
  <2>4. CASE v = Null
    BY <2>1, <2>3, <2>4 DEF UpdateZoneMap, StringCovers
  <2>5. CASE v # Null
    <3>1. v \in Seq(Nat) /\ rows \subseteq Seq(Nat) \cup {Null} /\ zm.inited \in BOOLEAN
      BY <2>1, <2>5, <2>2, ColumnBlockAssumption DEF StringCovers
    <3>2. zm' = UpdateString(zm, v)
      BY <2>1, <2>3, <2>5 DEF UpdateZoneMap
    <3>3. zm'.inited = TRUE
      BY <3>1, <3>2 DEF UpdateString, StringZoneMap
    <3>4. rows' \subseteq Seq(Nat) \cup {Null}
      BY <2>3, <3>1
    <3>5. CoversString(zm', v)
      <4>1. CASE zm.inited
        BY <2>1, <3>1, <3>2, <4>1, NewCovered DEF StringCovers
      <4>2. CASE ~zm.inited
        <5>1. zm'.min = CutTo(v) /\ zm'.max = CutTo(v) /\ zm'.max_truncated = (Len(v) > Width)
          BY <3>2, <4>2 DEF UpdateString, StringZoneMap
        <5>2. Len(v) <= Width \/ Len(v) > Width
          BY <3>1, LenProperties, ZoneMapAssumption
        <5> QED BY <3>1, <5>1, <5>2, CutFacts DEF CoversString, MinCovers, MaxCovers
      <4> QED BY <3>1, <4>1, <4>2
    <3>6. ASSUME NEW w \in rows' \ {Null} PROVE CoversString(zm', w)
      <4>1. CASE w = v
        BY <3>5, <4>1
      <4>2. CASE w # v
        <5>1. w \in rows \ {Null} /\ w \in Seq(Nat)
          BY <2>3, <3>1, <4>2
        <5>2. zm.inited /\ CoversString(zm, w)
          BY <2>1, <5>1 DEF StringCovers
        <5> QED BY <3>1, <3>2, <5>1, <5>2, OldCovered
      <4> QED BY <4>1, <4>2
    <3>7. zm'.min \in Seq(Nat) /\ zm'.max \in Seq(Nat) /\ Len(zm'.max) <= Width
      BY <3>5 DEF CoversString
    <3> QED BY <3>3, <3>4, <3>6, <3>7 DEF StringCovers
  <2> QED BY <2>4, <2>5
<1> QED BY <1>1, <1>2

LEMMA StringCoverIsSound == StringCovers => NoFalseSkipString
<1> SUFFICES ASSUME StringCovers, kind = "string", NEW f \in StringFilters,
                    f.op = "NOT_EQUAL" => \A v \in rows \ {Null} : Len(v) <= Width,
                    NEW v \in rows, RowPassesFilter("string", f, v)
             PROVE  EvalFilterOnZoneMap("string", f, zm)
  BY DEF NoFalseSkipString, FalseSkip
<1>1. f \in Filter(Seq(Nat)) /\ v \in Seq(Nat) \cup {Null}
  BY ColumnBlockAssumption DEF StringCovers
<1>2. zm.inited /\ v # Null => CoversString(zm, v)
  BY DEF StringCovers
<1> QED BY <1>1, <1>2, CoverOfStringIsSound

(* No filter on a string column makes the scan skip a block with a matching row,
   whatever was cut off its minimum and maximum, but NOT_EQUAL in a block with a
   cut string. *)
THEOREM StringZoneMapsSound == Spec => []NoFalseSkipString
<1>1. Init => StringCovers
  BY DEF Init, StringCovers, NoZoneMap
<1> QED BY <1>1, StringCoversStep, StringCoverIsSound, PTL DEF Spec
===========================================================================
