-------------------------- MODULE Snapshot_proofs --------------------------
(***************************************************************************)
(* Proofs about Snapshot and the modules it is made of, for every number   *)
(* of threads and structures and every address space: what each step of    *)
(* alloc_mmap and forkscan_alloc_munmap does to the list of Forkscan's     *)
(* regions, the registry of threads, the walk of the child, the ranges it  *)
(* scans and the words of a range it reads.                                *)
(***************************************************************************)
EXTENDS Snapshot, SequenceTheorems, FiniteSetTheorems, TLAPS

\* The recursive function of MapIterate, f[p \in 0 .. NPages] == MapDef(f, p).
MapDef(f, p) ==
    IF p = NPages THEN <<>>
    ELSE LET lines == {r \in LinesAt(p) : IsWanted(r)} IN
         (IF lines = {} THEN <<>> ELSE CollectRanges(CHOOSE r \in lines : TRUE)) \o f[p + 1]

PagesLeft(p) == NPages - p

\* Induction and recursion: what Recursion says of every function, and of this one.
Rec == INSTANCE Recursion WITH Dom <- 0 .. NPages, Rank <- PagesLeft, Def <- MapDef

-----------------------------------------------------------------------------
(***************************************************************************)
(* The invariant.                                                          *)
(***************************************************************************)
AllocPcs == {"idle", "block", "blockhead", "nodes", "mmap", "insert", "head", "done",
             "munmap", "free"}

Bounds == [low : Nat, high : Nat]
Regions == {r \in Bounds : r.low < r.high /\ r.high <= NPages}
Ops == [pc : AllocPcs, meta : Bounds, size : Nat, shared : BOOLEAN]

\* The mapper has a region that is not in the list.
OutsidePcs == {"block", "insert", "munmap"}
Outside(c) == op[c].pc \in OutsidePcs

\* It has linked its region behind the last one, and it is to become the head.
RotatingPcs == {"blockhead", "head"}
Rotating(c) == op[c].pc \in RotatingPcs

AllocTypeOK ==
    /\ vm \in [Pages -> UserKinds \cup OwnKinds]
    /\ alloc_list \in Seq(Regions)
    /\ free_list \in Nat
    /\ list_lock \in Mappers \cup {Nobody}
    /\ op \in [Mappers -> Ops]
    /\ \A c \in Mappers : Outside(c) => op[c].meta \in Regions
    /\ \A c \in Mappers :
          op[c].pc \in {"block", "blockhead", "nodes", "mmap"} => op[c].size > 0

LockPcs == {"block", "blockhead", "nodes", "head"}
LockInv == \A c \in Mappers : list_lock = c <=> op[c].pc \in LockPcs

\* The regions of Forkscan, wherever they are, do not overlap; they are the pages
\* that Forkscan has mapped, and each is private or shared as a whole.
Flying == {op[c].meta : c \in {m \in Mappers : Outside(m)}}
Held == Range(alloc_list) \cup Flying

Apart(r, s) == r.high <= s.low \/ s.high <= r.low

HeldInv ==
    /\ \A r, s \in Held : r # s => Apart(r, s)
    /\ \A p \in Pages : vm[p] \in OwnKinds <=> \E r \in Held : p \in PagesOf(r)
    /\ \A r \in Held : \A p \in PagesOf(r) : vm[p] = vm[r.low]

\* A region that is not in the list is in the hands of one mapper.
PlaceInv ==
    /\ \A c \in Mappers : Outside(c) => op[c].meta \notin Range(alloc_list)
    /\ \A c, e \in Mappers : c # e /\ Outside(c) /\ Outside(e) => op[c].meta # op[e].meta

\* The list is sorted, except that a new head is still at its end.
Sorted(s, n) == \A i, j \in 1 .. n : i < j => s[i].high <= s[j].low

OrderInv ==
    /\ (\A c \in Mappers : ~ Rotating(c)) => Sorted(alloc_list, Len(alloc_list))
    /\ \A c \in Mappers : Rotating(c) =>
          /\ Len(alloc_list) > 0 /\ op[c].meta = Last(alloc_list)
          /\ Sorted(alloc_list, Len(alloc_list) - 1)
          /\ \A i \in 1 .. (Len(alloc_list) - 1) : op[c].meta.high <= alloc_list[i].low

AllocInv == AllocTypeOK /\ LockInv /\ HeldInv /\ PlaceInv /\ OrderInv

-----------------------------------------------------------------------------
(***************************************************************************)
(* Facts about the operators.                                              *)
(***************************************************************************)
LEMMA GapIsFree ==
    ASSUME AllocTypeOK, NEW size \in Nat \ {0}, NEW r \in Gaps(size)
    PROVE  /\ r \in Regions /\ r.high = r.low + size
           /\ \A p \in PagesOf(r) : p \in Pages /\ vm[p] = "none"
<1>1. PICK p \in 0 .. (NPages - size) :
         r = Region(p, size) /\ \A q \in p .. (p + size - 1) : vm[q] = "none"
  BY DEF Gaps
<1>2. r.low = p /\ r.high = p + size /\ r \in Bounds /\ p + size <= NPages
  BY <1>1, AllocAssumption DEF Region, Bounds
<1> QED
  BY <1>1, <1>2, AllocAssumption DEF Regions, PagesOf, Pages

\* The three ways in which the list changes.
LEMMA Appended ==
    ASSUME NEW T, NEW s \in Seq(T), NEW e \in T
    PROVE  /\ Append(s, e) \in Seq(T) /\ Len(Append(s, e)) = Len(s) + 1
           /\ \A i \in 1 .. Len(s) : Append(s, e)[i] = s[i]
           /\ Append(s, e)[Len(s) + 1] = e
           /\ Range(Append(s, e)) = Range(s) \cup {e}
<1>1. /\ Append(s, e) \in Seq(T) /\ Len(Append(s, e)) = Len(s) + 1
      /\ \A i \in 1 .. Len(s) : Append(s, e)[i] = s[i]
      /\ Append(s, e)[Len(s) + 1] = e
  BY AppendProperties
<1>2. DOMAIN Append(s, e) = 1 .. (Len(s) + 1) /\ DOMAIN s = 1 .. Len(s) /\ Len(s) \in Nat
  BY <1>1, LenProperties
<1>3. 1 .. (Len(s) + 1) = (1 .. Len(s)) \cup {Len(s) + 1}
  BY <1>2
<1> QED
  BY <1>1, <1>2, <1>3 DEF Range

LEMMA Inserted ==
    ASSUME NEW T, NEW s \in Seq(T), NEW e \in T, NEW k \in 1 .. Len(s)
    PROVE  /\ InsertAt(s, k, e) \in Seq(T) /\ Len(InsertAt(s, k, e)) = Len(s) + 1
           /\ \A i \in 1 .. (k - 1) : InsertAt(s, k, e)[i] = s[i]
           /\ InsertAt(s, k, e)[k] = e
           /\ \A i \in (k + 1) .. (Len(s) + 1) : InsertAt(s, k, e)[i] = s[i - 1]
           /\ Range(InsertAt(s, k, e)) = Range(s) \cup {e}
<1> DEFINE a == SubSeq(s, 1, k - 1)
           b == SubSeq(s, k, Len(s))
           w == InsertAt(s, k, e)
<1>1. Len(s) \in Nat /\ DOMAIN s = 1 .. Len(s)
  BY LenProperties
<1>2. a \in Seq(T) /\ Len(a) = k - 1 /\ \A i \in 1 .. (k - 1) : a[i] = s[i]
  BY <1>1, SubSeqProperties
<1>3. /\ b \in Seq(T) /\ Len(b) = Len(s) - k + 1
      /\ \A i \in 1 .. (Len(s) - k + 1) : b[i] = s[k + i - 1]
  BY <1>1, SubSeqProperties
<1>4. PICK v : v = a \o <<e>>
  OBVIOUS
<1>5. w = v \o b
  BY <1>4 DEF InsertAt
<1> HIDE DEF a, b, w
<1>6. /\ v \in Seq(T) /\ Len(v) = k /\ v[k] = e /\ \A i \in 1 .. (k - 1) : v[i] = s[i]
  <2>1. v = Append(a, e)
    BY <1>2, <1>4, AppendIsConcat
  <2>2. /\ v \in Seq(T) /\ Len(v) = Len(a) + 1 /\ v[Len(a) + 1] = e
        /\ \A i \in 1 .. Len(a) : v[i] = a[i]
    BY <1>2, <2>1, Appended
  <2> QED
    BY <1>1, <1>2, <2>2
<1>7. /\ w \in Seq(T) /\ Len(w) = Len(s) + 1
      /\ \A i \in 1 .. k : w[i] = v[i]
      /\ \A i \in (k + 1) .. (Len(s) + 1) : w[i] = b[i - k]
  <2>1. /\ w \in Seq(T) /\ Len(w) = Len(v) + Len(b)
        /\ \A i \in 1 .. (Len(v) + Len(b)) : w[i] = IF i <= Len(v) THEN v[i] ELSE b[i - Len(v)]
    BY <1>3, <1>5, <1>6, ConcatProperties
  <2> QED
    BY <1>1, <1>3, <1>6, <2>1
<1>8. \A i \in (k + 1) .. (Len(s) + 1) : w[i] = s[i - 1]
  BY <1>1, <1>3, <1>7
<1>9. /\ \A i \in 1 .. (k - 1) : w[i] = s[i]
      /\ w[k] = e
  BY <1>1, <1>6, <1>7
<1>10. Range(w) = Range(s) \cup {e}
  <2>1. DOMAIN w = 1 .. (Len(s) + 1)
    BY <1>7
  <2>2. ASSUME NEW i \in 1 .. (Len(s) + 1) PROVE w[i] \in Range(s) \cup {e}
    <3>1. i < k \/ i = k \/ (i > k /\ i - 1 \in 1 .. Len(s))
      BY <1>1, <2>2
    <3> QED
      BY <1>1, <1>8, <1>9, <2>2, <3>1 DEF Range
  <2>3. ASSUME NEW i \in 1 .. Len(s) PROVE s[i] \in Range(w)
    <3>1. CASE i < k
      BY <1>1, <1>9, <2>1, <3>1 DEF Range
    <3>2. CASE i >= k
      <4>1. i + 1 \in (k + 1) .. (Len(s) + 1) /\ (i + 1) - 1 = i /\ i + 1 \in DOMAIN w
        BY <1>1, <2>1, <3>2
      <4> QED
        BY <1>8, <4>1 DEF Range
    <3> QED
      BY <1>1, <3>1, <3>2
  <2>4. e \in Range(w)
    BY <1>1, <1>9, <2>1 DEF Range
  <2> QED
    BY <1>1, <2>1, <2>2, <2>3, <2>4 DEF Range
<1> QED
  BY <1>7, <1>8, <1>9, <1>10 DEF w

LEMMA Removed ==
    ASSUME NEW T, NEW s \in Seq(T), NEW k \in 1 .. Len(s)
    PROVE  /\ RemoveAt(s, k) \in Seq(T) /\ Len(RemoveAt(s, k)) = Len(s) - 1
           /\ \A i \in 1 .. (k - 1) : RemoveAt(s, k)[i] = s[i]
           /\ \A i \in k .. (Len(s) - 1) : RemoveAt(s, k)[i] = s[i + 1]
           /\ Range(RemoveAt(s, k)) = {s[i] : i \in (1 .. Len(s)) \ {k}}
<1> DEFINE a == SubSeq(s, 1, k - 1)
           b == SubSeq(s, k + 1, Len(s))
           w == RemoveAt(s, k)
<1>1. PICK n \in Nat : n = Len(s) /\ DOMAIN s = 1 .. n /\ k \in 1 .. n
  BY LenProperties
<1>2. a \in Seq(T) /\ Len(a) = k - 1 /\ \A i \in 1 .. (k - 1) : a[i] = s[i]
  BY <1>1, SubSeqProperties
<1>3. b \in Seq(T) /\ Len(b) = n - k /\ \A i \in 1 .. (n - k) : b[i] = s[k + i]
  <2>1. k + 1 \in Int /\ Len(s) \in Int /\ \A i \in (k + 1) .. Len(s) : s[i] \in T
    BY <1>1
  <2>2. /\ b \in Seq(T)
        /\ Len(b) = IF k + 1 <= Len(s) THEN Len(s) - (k + 1) + 1 ELSE 0
        /\ \A i \in 1 .. (Len(s) - (k + 1) + 1) : b[i] = s[(k + 1) + i - 1]
    BY <2>1, SubSeqProperties
  <2>3. PICK d : d = b
    OBVIOUS
  <2>4. /\ Len(d) = IF k + 1 <= n THEN n - (k + 1) + 1 ELSE 0
        /\ \A i \in 1 .. (n - (k + 1) + 1) : d[i] = s[(k + 1) + i - 1]
    BY <1>1, <2>2, <2>3
  <2>5. Len(d) = n - k
    BY <1>1, <2>4
  <2>6. ASSUME NEW i \in 1 .. (n - k) PROVE d[i] = s[k + i]
    <3>1. i \in 1 .. (n - (k + 1) + 1) /\ (k + 1) + i - 1 = k + i
      BY <1>1
    <3> QED
      BY <2>4, <3>1
  <2> QED
    BY <2>2, <2>3, <2>5, <2>6
<1>4. w = a \o b
  BY DEF RemoveAt
<1> HIDE DEF a, b, w
<1>5. /\ w \in Seq(T) /\ Len(w) = Len(a) + Len(b)
      /\ \A i \in 1 .. (Len(a) + Len(b)) : w[i] = IF i <= Len(a) THEN a[i] ELSE b[i - Len(a)]
  BY <1>2, <1>3, <1>4, ConcatProperties
<1>6. Len(w) = n - 1 /\ DOMAIN w = 1 .. (n - 1) /\ \A i \in 1 .. (k - 1) : w[i] = s[i]
  <2>1. Len(w) = n - 1
    BY <1>1, <1>2, <1>3, <1>5
  <2>2. \A i \in 1 .. (k - 1) : i \in 1 .. (Len(a) + Len(b)) /\ i <= Len(a)
    BY <1>1, <1>2, <1>3
  <2> QED
    BY <1>2, <1>5, <2>1, <2>2, LenProperties
<1>7. ASSUME NEW i \in k .. (n - 1) PROVE w[i] = s[i + 1]
  <2>1. /\ i \in 1 .. (Len(a) + Len(b)) /\ ~(i <= Len(a)) /\ i - Len(a) \in 1 .. (n - k)
        /\ k + (i - Len(a)) = i + 1
    BY <1>1, <1>2, <1>3
  <2> QED
    BY <1>3, <1>5, <2>1
<1>8. Range(w) = {s[i] : i \in (1 .. n) \ {k}}
  <2>1. ASSUME NEW i \in 1 .. (n - 1) PROVE \E j \in (1 .. n) \ {k} : w[i] = s[j]
    <3>1. CASE i < k
      BY <1>1, <1>6, <3>1
    <3>2. CASE i >= k
      <4>1. i + 1 \in (1 .. n) \ {k} /\ i \in k .. (n - 1)
        BY <1>1, <3>2
      <4> QED
        BY <1>7, <4>1
    <3> QED
      BY <1>1, <3>1, <3>2
  <2>2. ASSUME NEW i \in (1 .. n) \ {k} PROVE \E j \in 1 .. (n - 1) : w[j] = s[i]
    <3>1. CASE i < k
      BY <1>1, <1>6, <3>1
    <3>2. CASE i > k
      <4>1. i - 1 \in k .. (n - 1) /\ i - 1 \in 1 .. (n - 1) /\ (i - 1) + 1 = i
        BY <1>1, <3>2
      <4> QED
        BY <1>7, <4>1
    <3> QED
      BY <1>1, <3>1, <3>2
  <2>3. Range(w) = {w[i] : i \in 1 .. (n - 1)}
    BY <1>6 DEF Range
  <2>4. PICK D : D = (1 .. n) \ {k}
    OBVIOUS
  <2>5. \A i \in 1 .. (n - 1) : w[i] \in {s[j] : j \in D}
    BY <2>1, <2>4
  <2>6. \A i \in D : s[i] \in {w[j] : j \in 1 .. (n - 1)}
    BY <2>2, <2>4
  <2>7. Range(w) = {s[j] : j \in D}
    BY <2>3, <2>5, <2>6, Zenon
  <2> QED
    BY <2>4, <2>7
<1> QED
  BY <1>1, <1>5, <1>6, <1>7, <1>8 DEF w

LEMMA LastFirst ==
    ASSUME NEW T, NEW s \in Seq(T), Len(s) > 0
    PROVE  LET w == <<Last(s)>> \o Front(s) IN
           /\ w \in Seq(T) /\ Len(w) = Len(s) /\ w[1] = Last(s)
           /\ \A i \in 2 .. Len(s) : w[i] = s[i - 1]
           /\ Range(w) = Range(s)
<1> DEFINE b == Front(s)
           w == <<Last(s)>> \o Front(s)
<1>1. PICK n \in Nat : n = Len(s) /\ n > 0 /\ DOMAIN s = 1 .. n /\ Last(s) = s[n]
                       /\ Last(s) \in T
  BY LenProperties, ElementOfSeq DEF Last
<1>2. b \in Seq(T) /\ Len(b) = n - 1 /\ \A i \in 1 .. (n - 1) : b[i] = s[i]
  BY <1>1, SubSeqProperties DEF Front
<1>3. PICK a : a = <<Last(s)>>
  OBVIOUS
<1>4. a \in Seq(T) /\ Len(a) = 1 /\ a[1] = Last(s) /\ w = a \o b
  BY <1>1, <1>3
<1> HIDE DEF w, b
<1>5. /\ w \in Seq(T) /\ Len(w) = Len(a) + Len(b)
      /\ \A i \in 1 .. (Len(a) + Len(b)) : w[i] = IF i <= Len(a) THEN a[i] ELSE b[i - Len(a)]
  BY <1>2, <1>4, ConcatProperties
<1>6. /\ Len(w) = n /\ DOMAIN w = 1 .. n /\ w[1] = Last(s)
      /\ \A i \in 2 .. n : w[i] = s[i - 1]
  BY <1>1, <1>2, <1>4, <1>5
<1>7. Range(w) = Range(s)
  <2>1. ASSUME NEW i \in 1 .. n PROVE \E j \in 1 .. n : w[i] = s[j]
    <3>1. i = 1 \/ (i \in 2 .. n /\ i - 1 \in 1 .. n)
      BY <1>1
    <3> QED
      BY <1>1, <1>6, <3>1
  <2>2. ASSUME NEW i \in 1 .. n PROVE \E j \in 1 .. n : w[j] = s[i]
    <3>1. CASE i = n
      BY <1>1, <1>6, <3>1
    <3>2. CASE i < n
      <4>1. i + 1 \in 2 .. n /\ i + 1 \in 1 .. n /\ (i + 1) - 1 = i
        BY <1>1, <3>2
      <4> QED
        BY <1>6, <4>1
    <3> QED
      BY <1>1, <3>1, <3>2
  <2>3. Range(w) = {w[i] : i \in 1 .. n} /\ Range(s) = {s[i] : i \in 1 .. n}
    BY <1>1, <1>6 DEF Range
  <2> QED
    BY <2>1, <2>2, <2>3, Zenon
<1> QED
  BY <1>1, <1>5, <1>6, <1>7 DEF w

-----------------------------------------------------------------------------
(***************************************************************************)
(* metadata_do_insert puts a region in its place.                          *)
(***************************************************************************)
LEMMA PlaceForFits ==
    ASSUME AllocTypeOK, NEW meta \in Regions, ~ GoesLast(meta),
           Sorted(alloc_list, Len(alloc_list)),
           \A r \in Range(alloc_list) : Apart(meta, r)
    PROVE  /\ PlaceFor(meta) \in 1 .. Len(alloc_list)
           /\ \A i \in 1 .. (PlaceFor(meta) - 1) : alloc_list[i].high <= meta.low
           /\ \A i \in PlaceFor(meta) .. Len(alloc_list) : meta.high <= alloc_list[i].low
<1>1. PICK n \in Nat : n = Len(alloc_list) /\ DOMAIN alloc_list = 1 .. n
  BY LenProperties DEF AllocTypeOK
<1>2. \A i \in 1 .. n : alloc_list[i] \in Regions /\ Apart(meta, alloc_list[i])
  BY <1>1 DEF AllocTypeOK, Range
<1>3. \A i \in 1 .. n : /\ alloc_list[i].low \in Nat /\ alloc_list[i].high \in Nat
                        /\ alloc_list[i].low < alloc_list[i].high
  BY <1>2 DEF Regions, Bounds
<1>4. meta.low \in Nat /\ meta.high \in Nat /\ meta.low < meta.high
  BY DEF Regions, Bounds
<1>5. n > 0 /\ meta.high <= alloc_list[n].low
  <2>1. n # 0 /\ ~(alloc_list[n].high <= meta.low)
    BY <1>1 DEF GoesLast, Last, AllocTypeOK
  <2>2. n \in 1 .. n
    BY <2>1
  <2> QED
    BY <1>2, <2>1, <2>2 DEF Apart
<1> DEFINE P(i) == /\ alloc_list[i].low >= meta.high
                   /\ \A j \in 1 .. (i - 1) : alloc_list[j].low < meta.high
           above == {i \in 1 .. n : alloc_list[i].low >= meta.high}
<1>6. PICK m \in above : \A j \in above : m <= j
  <2>1. n \in above
    BY <1>3, <1>4, <1>5
  <2> HIDE DEF above
  <2>2. above \in SUBSET Nat
    BY DEF above
  <2> QED
    BY <2>1, <2>2, Rec!LeastNatural
<1>7. m \in DOMAIN alloc_list /\ P(m)
  BY <1>1, <1>3, <1>4, <1>6
<1>8. PICK k : k = PlaceFor(meta)
  OBVIOUS
<1>9. k \in 1 .. n /\ P(k)
  <2>1. PlaceFor(meta) \in DOMAIN alloc_list /\ P(PlaceFor(meta))
    BY <1>7 DEF PlaceFor
  <2> QED
    BY <1>1, <1>8, <2>1
<1>10. ASSUME NEW i \in 1 .. (k - 1) PROVE alloc_list[i].high <= meta.low
  <2>1. i \in 1 .. n /\ alloc_list[i].low < meta.high
    BY <1>1, <1>9
  <2> QED
    BY <1>2, <1>3, <1>4, <2>1 DEF Apart
<1>11. ASSUME NEW i \in k .. n PROVE meta.high <= alloc_list[i].low
  <2>1. i \in 1 .. n /\ (i = k \/ k < i)
    BY <1>9
  <2>2. i = k \/ alloc_list[k].high <= alloc_list[i].low
    BY <1>1, <1>9, <2>1 DEF Sorted
  <2> QED
    BY <1>3, <1>4, <1>9, <2>1, <2>2
<1> QED
  BY <1>1, <1>8, <1>9, <1>10, <1>11

LEMMA LinkedInOrder ==
    ASSUME AllocTypeOK, NEW meta \in Regions, Sorted(alloc_list, Len(alloc_list)),
           \A r \in Range(alloc_list) : Apart(meta, r)
    PROVE  /\ Linked(meta) \in Seq(Regions)
           /\ Range(Linked(meta)) = Range(alloc_list) \cup {meta}
           /\ ~ BecomesHead(meta) => Sorted(Linked(meta), Len(Linked(meta)))
           /\ BecomesHead(meta) =>
                 /\ Len(Linked(meta)) > 0 /\ Last(Linked(meta)) = meta
                 /\ Sorted(Linked(meta), Len(Linked(meta)) - 1)
                 /\ \A i \in 1 .. (Len(Linked(meta)) - 1) : meta.high <= Linked(meta)[i].low
<1>1. PICK n \in Nat : n = Len(alloc_list) /\ DOMAIN alloc_list = 1 .. n
  BY LenProperties DEF AllocTypeOK
<1>2. PICK s \in Seq(Regions) : s = alloc_list
  BY DEF AllocTypeOK
<1>3. /\ \A i \in 1 .. n : s[i] \in Regions /\ s[i].low \in Nat /\ s[i].high \in Nat
                           /\ s[i].low < s[i].high
      /\ meta.low \in Nat /\ meta.high \in Nat /\ meta.low < meta.high
  BY <1>1, <1>2 DEF Regions, Bounds
<1>4. \A i, j \in 1 .. n : i < j => s[i].high <= s[j].low
  BY <1>1, <1>2 DEF Sorted
<1>5. PICK w : w = Linked(meta)
  OBVIOUS
<1>6. CASE GoesLast(meta)
  <2>1. w = Append(s, meta) /\ ~ BecomesHead(meta)
    BY <1>2, <1>5, <1>6 DEF Linked, BecomesHead
  <2>2. /\ w \in Seq(Regions) /\ Len(w) = n + 1 /\ \A i \in 1 .. n : w[i] = s[i]
        /\ w[n + 1] = meta /\ Range(w) = Range(s) \cup {meta}
    BY <1>1, <1>2, <2>1, Appended
  <2>3. ASSUME NEW i \in 1 .. n PROVE s[i].high <= meta.low
    <3>1. n \in 1 .. n /\ s[n].high <= meta.low
      BY <1>1, <1>2, <1>6 DEF GoesLast, Last
    <3>2. i = n \/ s[i].high <= s[n].low
      BY <1>4, <3>1
    <3> QED
      BY <1>3, <3>1, <3>2
  <2>4. ASSUME NEW i \in 1 .. (n + 1), NEW j \in 1 .. (n + 1), i < j
        PROVE  w[i].high <= w[j].low
    <3>1. i \in 1 .. n /\ (j \in 1 .. n \/ j = n + 1)
      BY <2>4
    <3> QED
      BY <1>4, <2>2, <2>3, <2>4, <3>1
  <2>5. Sorted(w, Len(w))
    BY <2>2, <2>4 DEF Sorted
  <2> QED
    BY <1>2, <1>5, <2>1, <2>2, <2>5
<1>7. CASE ~ GoesLast(meta)
  <2>1. PICK k \in 1 .. n : /\ k = PlaceFor(meta)
                            /\ \A i \in 1 .. (k - 1) : s[i].high <= meta.low
                            /\ \A i \in k .. n : meta.high <= s[i].low
    BY <1>1, <1>2, <1>7, PlaceForFits
  <2>2. CASE k = 1
    <3>1. w = Append(s, meta) /\ BecomesHead(meta)
      BY <1>2, <1>5, <1>7, <2>1, <2>2 DEF Linked, BecomesHead
    <3>2. /\ w \in Seq(Regions) /\ Len(w) = n + 1 /\ \A i \in 1 .. n : w[i] = s[i]
          /\ w[n + 1] = meta /\ Range(w) = Range(s) \cup {meta}
      BY <1>1, <1>2, <3>1, Appended
    <3>3. Len(w) - 1 = n /\ Len(w) > 0 /\ Last(w) = meta
      BY <3>2 DEF Last
    <3>4. Sorted(w, n) /\ \A i \in 1 .. n : meta.high <= w[i].low
      BY <1>4, <2>1, <2>2, <3>2 DEF Sorted
    <3> QED
      BY <1>2, <1>5, <3>1, <3>2, <3>3, <3>4
  <2>3. CASE k # 1
    <3>1. w = InsertAt(s, k, meta) /\ ~ BecomesHead(meta)
      BY <1>2, <1>5, <1>7, <2>1, <2>3 DEF Linked, BecomesHead
    <3>2. /\ w \in Seq(Regions) /\ Len(w) = n + 1 /\ \A i \in 1 .. (k - 1) : w[i] = s[i]
          /\ w[k] = meta /\ Range(w) = Range(s) \cup {meta}
          /\ \A i \in (k + 1) .. (n + 1) : w[i] = s[i - 1]
      <4>1. k \in 1 .. Len(s) /\ n = Len(s)
        BY <1>1, <1>2, <2>1
      <4>2. InsertAt(s, k, meta) \in Seq(Regions)
        BY <4>1, Inserted
      <4>3. Len(InsertAt(s, k, meta)) = Len(s) + 1
        BY <4>1, Inserted
      <4>4. \A i \in 1 .. (k - 1) : InsertAt(s, k, meta)[i] = s[i]
        BY <4>1, Inserted
      <4>5. InsertAt(s, k, meta)[k] = meta
        BY <4>1, Inserted
      <4>6. \A i \in (k + 1) .. (Len(s) + 1) : InsertAt(s, k, meta)[i] = s[i - 1]
        BY <4>1, Inserted
      <4>7. Range(InsertAt(s, k, meta)) = Range(s) \cup {meta}
        BY <4>1, Inserted
      <4> QED
        BY <3>1, <4>1, <4>2, <4>3, <4>4, <4>5, <4>6, <4>7
    <3>3. ASSUME NEW i \in 1 .. (n + 1), NEW j \in 1 .. (n + 1), i < j
          PROVE  w[i].high <= w[j].low
      <4>1. CASE j < k
        BY <1>4, <3>2, <3>3, <4>1
      <4>2. CASE j = k
        BY <2>1, <3>2, <3>3, <4>2
      <4>3. CASE j > k
        <5>1. /\ j \in (k + 1) .. (n + 1) /\ w[j] = s[j - 1]
              /\ j - 1 \in k .. n /\ j - 1 \in 1 .. n
          BY <3>2, <4>3
        <5>2. CASE i < k
          <6>1. w[i] = s[i] /\ i \in 1 .. n /\ i < j - 1
            BY <3>2, <5>1, <5>2
          <6> QED
            BY <1>4, <5>1, <6>1
        <5>3. CASE i = k
          BY <2>1, <3>2, <5>1, <5>3
        <5>4. CASE i > k
          <6>1. w[i] = s[i - 1] /\ i - 1 \in 1 .. n /\ i - 1 < j - 1
            BY <3>2, <3>3, <5>1, <5>4
          <6> QED
            BY <1>4, <5>1, <6>1
        <5> QED
          BY <5>2, <5>3, <5>4
      <4> QED
        BY <4>1, <4>2, <4>3
    <3>4. Sorted(w, Len(w))
      BY <3>2, <3>3 DEF Sorted
    <3> QED
      BY <1>2, <1>5, <3>1, <3>2, <3>4
  <2> QED
    BY <2>2, <2>3
<1> QED
  BY <1>6, <1>7

-----------------------------------------------------------------------------
(***************************************************************************)
(* The regions as a whole.                                                 *)
(***************************************************************************)
LEMMA HeldTypes ==
    ASSUME AllocTypeOK
    PROVE  Held \subseteq Regions
BY DEF AllocTypeOK, Held, Flying, Range

\* A step that only moves a region from one place to another.
LEMMA HeldMoved ==
    ASSUME HeldInv, vm' = vm, Held' = Held
    PROVE  HeldInv'
BY DEF HeldInv, Apart, PagesOf

LEMMA RegionPages ==
    ASSUME NEW r \in Regions
    PROVE  r.low \in PagesOf(r) /\ PagesOf(r) \subseteq Pages
BY AllocAssumption DEF Regions, Bounds, PagesOf, Pages

\* Regions without a common page are apart, and the other way round.
LEMMA ApartPages ==
    ASSUME NEW r \in Regions, NEW s \in Regions
    PROVE  Apart(r, s) <=> PagesOf(r) \cap PagesOf(s) = {}
<1>1. /\ r.low \in Nat /\ r.high \in Nat /\ r.low < r.high
      /\ s.low \in Nat /\ s.high \in Nat /\ s.low < s.high
  BY DEF Regions, Bounds
<1>2. ASSUME Apart(r, s) PROVE PagesOf(r) \cap PagesOf(s) = {}
  BY <1>1, <1>2 DEF Apart, PagesOf
<1>3. ASSUME ~ Apart(r, s) PROVE r.low \in PagesOf(s) \/ s.low \in PagesOf(r)
  BY <1>1, <1>3 DEF Apart, PagesOf
<1>4. r.low \in PagesOf(r) /\ s.low \in PagesOf(s)
  BY <1>1 DEF PagesOf
<1> QED
  BY <1>2, <1>3, <1>4

LEMMA HeldMapped ==
    ASSUME AllocTypeOK, HeldInv, NEW r \in Regions, NEW kind \in OwnKinds,
           \A p \in PagesOf(r) : vm[p] = "none",
           vm' = Mapped(r, kind), Held' = Held \cup {r}
    PROVE  /\ HeldInv' /\ r \notin Held
           /\ vm' \in [Pages -> UserKinds \cup OwnKinds]
           /\ \A p \in Pages : p \notin PagesOf(r) => vm'[p] = vm[p]
           /\ \A p \in PagesOf(r) : vm'[p] = kind
<1>1. /\ vm \in [Pages -> UserKinds \cup OwnKinds] /\ Held \subseteq Regions
      /\ "none" \notin OwnKinds
  BY HeldTypes DEF AllocTypeOK, OwnKinds
<1>2. r.low \in PagesOf(r) /\ PagesOf(r) \subseteq Pages
  BY RegionPages
<1>3. /\ vm' \in [Pages -> UserKinds \cup OwnKinds]
      /\ \A p \in Pages : vm'[p] = IF p \in PagesOf(r) THEN kind ELSE vm[p]
  BY <1>1 DEF Mapped
<1>4. ASSUME NEW s \in Held PROVE PagesOf(r) \cap PagesOf(s) = {} /\ Apart(r, s) /\ s # r
  <2>1. \A p \in PagesOf(s) : p \in Pages /\ vm[p] \in OwnKinds
    BY <1>1, RegionPages DEF HeldInv
  <2>2. PagesOf(r) \cap PagesOf(s) = {}
    BY <1>1, <2>1
  <2> QED
    BY <1>1, <1>2, <2>2, ApartPages
<1>5. \A s \in Held : s.low \in PagesOf(s) /\ PagesOf(s) \subseteq Pages
  BY <1>1, RegionPages
<1>6. \A u, v \in Held' : u # v => Apart(u, v)
  BY <1>4 DEF HeldInv, Apart
<1>7. \A p \in Pages : vm'[p] \in OwnKinds <=> \E u \in Held' : p \in PagesOf(u)
  BY <1>3, <1>4 DEF HeldInv
<1>8. ASSUME NEW u \in Held', NEW p \in PagesOf(u) PROVE vm'[p] = vm'[u.low]
  <2>1. CASE u = r
    BY <1>2, <1>3, <1>8, <2>1
  <2>2. CASE u \in Held
    <3>1. /\ p \in Pages /\ u.low \in Pages
          /\ p \notin PagesOf(r) /\ u.low \notin PagesOf(r)
      BY <1>4, <1>5, <1>8, <2>2
    <3> QED
      BY <1>3, <1>8, <2>2, <3>1 DEF HeldInv
  <2> QED
    BY <2>1, <2>2
<1>9. HeldInv'
  BY <1>6, <1>7, <1>8 DEF HeldInv, Apart, PagesOf
<1> QED
  BY <1>2, <1>3, <1>4, <1>9

LEMMA HeldUnmapped ==
    ASSUME AllocTypeOK, HeldInv, NEW r \in Held,
           vm' = Mapped(r, "none"), Held' = Held \ {r}
    PROVE  /\ HeldInv' /\ vm' \in [Pages -> UserKinds \cup OwnKinds]
           /\ \A p \in Pages : p \notin PagesOf(r) => vm'[p] = vm[p]
<1>1. /\ vm \in [Pages -> UserKinds \cup OwnKinds] /\ Held \subseteq Regions
      /\ "none" \notin OwnKinds /\ "none" \in UserKinds
  BY HeldTypes DEF AllocTypeOK, OwnKinds, UserKinds
<1>2. /\ vm' \in [Pages -> UserKinds \cup OwnKinds]
      /\ \A p \in Pages : vm'[p] = IF p \in PagesOf(r) THEN "none" ELSE vm[p]
  BY <1>1 DEF Mapped
<1>3. \A s \in Held : s.low \in PagesOf(s) /\ PagesOf(s) \subseteq Pages
  BY <1>1, RegionPages
<1>4. ASSUME NEW s \in Held' PROVE s \in Held /\ PagesOf(r) \cap PagesOf(s) = {}
  BY <1>1, <1>4, ApartPages DEF HeldInv
<1>5. \A u, v \in Held' : u # v => Apart(u, v)
  BY DEF HeldInv
<1>6. \A p \in Pages : vm'[p] \in OwnKinds <=> \E u \in Held' : p \in PagesOf(u)
  BY <1>1, <1>2, <1>4 DEF HeldInv
<1>7. ASSUME NEW u \in Held', NEW p \in PagesOf(u) PROVE vm'[p] = vm'[u.low]
  <2>1. /\ p \in Pages /\ u.low \in Pages
        /\ p \notin PagesOf(r) /\ u.low \notin PagesOf(r)
    BY <1>3, <1>4, <1>7
  <2> QED
    BY <1>2, <1>4, <1>7, <2>1 DEF HeldInv
<1>8. HeldInv'
  BY <1>5, <1>6, <1>7 DEF HeldInv, Apart, PagesOf
<1> QED
  BY <1>2, <1>8

-----------------------------------------------------------------------------
(***************************************************************************)
(* A step of the mapper c, which is x afterwards: the conjuncts of the     *)
(* invariant, one by one.                                                  *)
(***************************************************************************)
LEMMA OpAfter ==
    ASSUME AllocTypeOK, NEW c \in Mappers, NEW x \in Ops, op' = [op EXCEPT ![c] = x]
    PROVE  /\ op' \in [Mappers -> Ops] /\ op'[c] = x
           /\ \A e \in Mappers : e # c => op'[e] = op[e]
           /\ Outside(c)' <=> x.pc \in OutsidePcs
           /\ Rotating(c)' <=> x.pc \in RotatingPcs
           /\ \A e \in Mappers : e # c => (Outside(e)' <=> Outside(e))
           /\ \A e \in Mappers : e # c => (Rotating(e)' <=> Rotating(e))
<1>1. /\ op' \in [Mappers -> Ops] /\ op'[c] = x
      /\ \A e \in Mappers : e # c => op'[e] = op[e]
  BY DEF AllocTypeOK
<1> QED
  BY <1>1 DEF Outside, Rotating

LEMMA TypesAfter ==
    ASSUME AllocTypeOK, NEW c \in Mappers, NEW x \in Ops, op' = [op EXCEPT ![c] = x],
           vm' \in [Pages -> UserKinds \cup OwnKinds], alloc_list' \in Seq(Regions),
           free_list' \in Nat, list_lock' \in Mappers \cup {Nobody},
           x.pc \in OutsidePcs => x.meta \in Regions,
           x.pc \in {"block", "blockhead", "nodes", "mmap"} => x.size > 0
    PROVE  AllocTypeOK'
<1>1. ASSUME NEW e \in Mappers
      PROVE  /\ op'[e].pc \in OutsidePcs => op'[e].meta \in Regions
             /\ op'[e].pc \in {"block", "blockhead", "nodes", "mmap"} => op'[e].size > 0
  BY OpAfter DEF AllocTypeOK, Outside
<1> QED
  BY <1>1, OpAfter DEF AllocTypeOK, Outside

LEMMA LockAfter ==
    ASSUME AllocTypeOK, LockInv, NEW c \in Mappers, NEW x \in Ops, op' = [op EXCEPT ![c] = x],
           list_lock' = c <=> x.pc \in LockPcs,
           list_lock' = list_lock \/ {list_lock, list_lock'} \subseteq {c, Nobody}
    PROVE  LockInv'
<1>1. ASSUME NEW e \in Mappers PROVE list_lock' = e <=> op'[e].pc \in LockPcs
  <2>1. CASE e = c
    BY <2>1, OpAfter
  <2>2. CASE e # c
    <3>1. op'[e] = op[e] /\ (list_lock = e <=> op[e].pc \in LockPcs) /\ e # Nobody
      BY <2>2, OpAfter, AllocAssumption DEF LockInv
    <3> QED
      BY <2>2, <3>1
  <2> QED
    BY <2>1, <2>2
<1> QED
  BY <1>1 DEF LockInv

\* The regions in the hands of the other mappers.
Others(c) == {op[e].meta : e \in {m \in Mappers : m # c /\ Outside(m)}}

LEMMA HeldBefore ==
    ASSUME NEW c \in Mappers
    PROVE  /\ Outside(c) => Held = Range(alloc_list) \cup Others(c) \cup {op[c].meta}
           /\ ~ Outside(c) => Held = Range(alloc_list) \cup Others(c)
BY DEF Held, Flying, Others

LEMMA HeldAfter ==
    ASSUME AllocTypeOK, NEW c \in Mappers, NEW x \in Ops, op' = [op EXCEPT ![c] = x]
    PROVE  /\ x.pc \in OutsidePcs => Held' = Range(alloc_list') \cup Others(c) \cup {x.meta}
           /\ x.pc \notin OutsidePcs => Held' = Range(alloc_list') \cup Others(c)
<1>1. \A r : r \in Flying' <=> \E e \in Mappers : Outside(e)' /\ r = op'[e].meta
  BY DEF Flying
<1>2. ASSUME NEW r
      PROVE  r \in Flying' <=> r \in Others(c) \/ (x.pc \in OutsidePcs /\ r = x.meta)
  <2>1. \A e \in Mappers : e # c => (Outside(e)' <=> Outside(e)) /\ op'[e].meta = op[e].meta
    BY OpAfter
  <2>2. op'[c].meta = x.meta /\ (Outside(c)' <=> x.pc \in OutsidePcs)
    BY OpAfter
  <2>3. r \in Others(c) <=> \E e \in Mappers : e # c /\ Outside(e) /\ r = op[e].meta
    BY DEF Others
  <2>4. ASSUME r \in Flying' PROVE r \in Others(c) \/ (x.pc \in OutsidePcs /\ r = x.meta)
    <3>1. PICK e \in Mappers : Outside(e)' /\ r = op'[e].meta
      BY <1>1, <2>4
    <3> QED
      BY <2>1, <2>2, <2>3, <3>1
  <2>5. ASSUME r \in Others(c) \/ (x.pc \in OutsidePcs /\ r = x.meta) PROVE r \in Flying'
    BY <1>1, <2>1, <2>2, <2>3, <2>5
  <2> QED
    BY <2>4, <2>5
<1>3. \A r : r \in Held' <=> r \in Range(alloc_list') \/ r \in Flying'
  BY DEF Held
<1> QED
  BY <1>2, <1>3

LEMMA PlaceAfter ==
    ASSUME AllocTypeOK, PlaceInv, NEW c \in Mappers, NEW x \in Ops, op' = [op EXCEPT ![c] = x],
           x.pc \in OutsidePcs =>
              /\ x.meta \notin Range(alloc_list')
              /\ \A e \in Mappers : e # c /\ Outside(e) => op[e].meta # x.meta,
           \A e \in Mappers : e # c /\ Outside(e) => op[e].meta \notin Range(alloc_list')
    PROVE  PlaceInv'
<1>1. \A e \in Mappers : Outside(e)' => op'[e].meta \notin Range(alloc_list')
  BY OpAfter
<1>2. ASSUME NEW e \in Mappers, NEW f \in Mappers, e # f, Outside(e)', Outside(f)'
      PROVE  op'[e].meta # op'[f].meta
  BY <1>2, OpAfter DEF PlaceInv
<1> QED
  BY <1>1, <1>2 DEF PlaceInv

LEMMA OrderKept ==
    ASSUME AllocTypeOK, OrderInv, NEW c \in Mappers, NEW x \in Ops, op' = [op EXCEPT ![c] = x],
           ~ Rotating(c), x.pc \notin RotatingPcs, alloc_list' = alloc_list
    PROVE  OrderInv'
<1>1. (\A e \in Mappers : ~ Rotating(e)') => \A e \in Mappers : ~ Rotating(e)
  BY OpAfter
<1>2. \A e \in Mappers : Rotating(e)' => Rotating(e) /\ op'[e].meta = op[e].meta
  BY OpAfter
<1>3. (\A e \in Mappers : ~ Rotating(e)') => Sorted(alloc_list, Len(alloc_list))
  BY <1>1 DEF OrderInv
<1>4. \A e \in Mappers : Rotating(e)' =>
         /\ Len(alloc_list) > 0 /\ op'[e].meta = Last(alloc_list)
         /\ Sorted(alloc_list, Len(alloc_list) - 1)
         /\ \A i \in 1 .. (Len(alloc_list) - 1) : op'[e].meta.high <= alloc_list[i].low
  BY <1>2 DEF OrderInv
<1> QED
  BY <1>3, <1>4 DEF OrderInv, Sorted, Last

\* Nobody but the holder of the lock is about to make a region the head.
LEMMA NobodyElseRotates ==
    ASSUME AllocInv, NEW c \in Mappers, list_lock \in {c, Nobody}, ~ Rotating(c)
    PROVE  /\ \A e \in Mappers : ~ Rotating(e)
           /\ Sorted(alloc_list, Len(alloc_list))
<1>1. \A e \in Mappers : Rotating(e) => list_lock = e
  BY DEF AllocInv, LockInv, Rotating, RotatingPcs, LockPcs
<1> QED
  BY <1>1, AllocAssumption DEF AllocInv, OrderInv

-----------------------------------------------------------------------------
(***************************************************************************)
(* The steps, by what they do to the regions.                              *)
(***************************************************************************)

\* Steps on the list of free nodes, and the ends of the calls.
LEMMA NodeStep ==
    ASSUME AllocInv, NEW c \in Mappers, NEW x \in Ops, op' = [op EXCEPT ![c] = x],
           op[c].pc \in {"idle", "nodes", "free", "done"}, x.pc \in {"idle", "mmap"},
           x.pc = "mmap" => x.size > 0,
           UNCHANGED <<vm, alloc_list>>, free_list' \in Nat,
           list_lock' = IF op[c].pc = "nodes" THEN Nobody ELSE list_lock
    PROVE  AllocInv'
<1> USE DEF AllocInv
<1>1. /\ ~ Outside(c) /\ ~ Rotating(c)
      /\ x.pc \notin OutsidePcs /\ x.pc \notin RotatingPcs /\ x.pc \notin LockPcs
  BY DEF Outside, Rotating, OutsidePcs, RotatingPcs, LockPcs
<1>2. Held' = Held
  BY <1>1, HeldAfter, HeldBefore
<1>3. HeldInv'
  BY <1>2, HeldMoved
<1>4. AllocTypeOK'
  <2>1. /\ vm' \in [Pages -> UserKinds \cup OwnKinds] /\ alloc_list' \in Seq(Regions)
        /\ list_lock' \in Mappers \cup {Nobody}
    BY DEF AllocTypeOK
  <2> QED
    BY <1>1, <2>1, TypesAfter
<1>5. LockInv'
  <2>1. list_lock = c <=> op[c].pc = "nodes"
    BY DEF LockInv, LockPcs
  <2>2. /\ list_lock' # c
        /\ list_lock' = list_lock \/ {list_lock, list_lock'} \subseteq {c, Nobody}
    BY <2>1, AllocAssumption
  <2> QED
    BY <1>1, <2>2, LockAfter
<1>6. PlaceInv'
  BY <1>1, PlaceAfter DEF PlaceInv
<1>7. OrderInv'
  BY <1>1, OrderKept
<1> QED
  BY <1>3, <1>4, <1>5, <1>6, <1>7

\* Steps that map a region.
LEMMA MapStep ==
    ASSUME AllocInv, NEW c \in Mappers, NEW x \in Ops, op' = [op EXCEPT ![c] = x],
           NEW size \in Nat \ {0}, x.meta \in Gaps(size), x.size > 0,
           NEW kind \in OwnKinds, vm' = Mapped(x.meta, kind),
           UNCHANGED <<alloc_list, free_list>>,
           \/ op[c].pc = "idle" /\ x.pc = "block" /\ list_lock = Nobody /\ list_lock' = c
           \/ op[c].pc = "mmap" /\ x.pc = "insert" /\ list_lock' = list_lock
    PROVE  AllocInv'
<1> USE DEF AllocInv
<1>1. /\ ~ Outside(c) /\ ~ Rotating(c)
      /\ x.pc \in OutsidePcs /\ x.pc \notin RotatingPcs
      /\ x.pc \in LockPcs <=> x.pc = "block"
      /\ op[c].pc \notin LockPcs
  BY DEF Outside, Rotating, OutsidePcs, RotatingPcs, LockPcs
<1>2. /\ x.meta \in Regions /\ \A p \in PagesOf(x.meta) : vm[p] = "none"
  BY GapIsFree
<1>3. Held' = Held \cup {x.meta}
  BY <1>1, HeldAfter, HeldBefore
<1>4. HeldInv' /\ x.meta \notin Held /\ vm' \in [Pages -> UserKinds \cup OwnKinds]
  BY <1>2, <1>3, HeldMapped
<1>5. AllocTypeOK'
  <2>1. /\ alloc_list' \in Seq(Regions) /\ free_list' \in Nat
        /\ list_lock' \in Mappers \cup {Nobody}
    BY DEF AllocTypeOK
  <2> QED
    BY <1>2, <1>4, <2>1, TypesAfter
<1>6. LockInv'
  <2>1. list_lock # c
    BY <1>1 DEF LockInv
  <2>2. /\ list_lock' = c <=> x.pc \in LockPcs
        /\ list_lock' = list_lock \/ {list_lock, list_lock'} \subseteq {c, Nobody}
    BY <1>1, <2>1
  <2> QED
    BY <2>2, LockAfter
<1>7. PlaceInv'
  <2>1. /\ x.meta \notin Range(alloc_list')
        /\ \A e \in Mappers : e # c /\ Outside(e) => op[e].meta # x.meta
    BY <1>4 DEF Held, Flying
  <2> QED
    BY <2>1, PlaceAfter DEF PlaceInv
<1>8. OrderInv'
  BY <1>1, OrderKept
<1> QED
  BY <1>4, <1>5, <1>6, <1>7, <1>8

\* A region in the hands of a mapper overlaps no other.
LEMMA MetaApart ==
    ASSUME AllocInv, NEW c \in Mappers, Outside(c)
    PROVE  /\ op[c].meta \in Regions /\ op[c].meta \in Held
           /\ op[c].meta \notin Range(alloc_list) /\ op[c].meta \notin Others(c)
           /\ \A r \in Range(alloc_list) : Apart(op[c].meta, r)
BY DEF AllocInv, AllocTypeOK, HeldInv, PlaceInv, Held, Flying, Others

\* Steps that link a region in.
LEMMA LinkStep ==
    ASSUME AllocInv, NEW c \in Mappers, NEW x \in Ops, op' = [op EXCEPT ![c] = x],
           op[c].pc \in {"block", "insert"}, list_lock \in {c, Nobody}, x.meta = op[c].meta,
           x.pc = IF BecomesHead(op[c].meta)
                  THEN IF op[c].pc = "block" THEN "blockhead" ELSE "head"
                  ELSE IF op[c].pc = "block" THEN "nodes" ELSE "done",
           op[c].pc = "block" => x.size = op[c].size,
           alloc_list' = Linked(op[c].meta), UNCHANGED <<vm, free_list>>,
           list_lock' = IF x.pc = "done" THEN Nobody ELSE c
    PROVE  AllocInv'
<1> USE DEF AllocInv
<1>1. /\ Outside(c) /\ ~ Rotating(c) /\ x.pc \notin OutsidePcs
      /\ x.pc \in RotatingPcs <=> BecomesHead(op[c].meta)
      /\ x.pc \in LockPcs <=> x.pc # "done"
  BY DEF Outside, Rotating, OutsidePcs, RotatingPcs, LockPcs
<1>2. /\ \A e \in Mappers : ~ Rotating(e)
      /\ Sorted(alloc_list, Len(alloc_list))
  BY <1>1, NobodyElseRotates
<1>3. PICK meta \in Regions : meta = op[c].meta
  BY <1>1, MetaApart
<1>4. /\ meta \notin Range(alloc_list) /\ meta \notin Others(c)
      /\ \A r \in Range(alloc_list) : Apart(meta, r)
  BY <1>1, <1>3, MetaApart
<1>5. /\ alloc_list' \in Seq(Regions) /\ Range(alloc_list') = Range(alloc_list) \cup {meta}
      /\ ~ BecomesHead(meta) => Sorted(alloc_list', Len(alloc_list'))
      /\ BecomesHead(meta) =>
            /\ Len(alloc_list') > 0 /\ Last(alloc_list') = meta
            /\ Sorted(alloc_list', Len(alloc_list') - 1)
            /\ \A i \in 1 .. (Len(alloc_list') - 1) : meta.high <= alloc_list'[i].low
  BY <1>2, <1>3, <1>4, LinkedInOrder
<1>6. Held' = Held
  <2>1. Held' = Range(alloc_list') \cup Others(c)
    BY <1>1, HeldAfter
  <2>2. Held = Range(alloc_list) \cup Others(c) \cup {meta}
    BY <1>1, <1>3, HeldBefore
  <2>3. Range(alloc_list') = Range(alloc_list) \cup {meta}
    BY <1>5
  <2> QED
    BY <2>1, <2>2, <2>3
<1>7. HeldInv'
  BY <1>6, HeldMoved
<1>8. AllocTypeOK'
  <2>1. /\ vm' \in [Pages -> UserKinds \cup OwnKinds] /\ free_list' \in Nat
        /\ list_lock' \in Mappers \cup {Nobody}
    BY DEF AllocTypeOK
  <2>2. x.pc \in {"block", "blockhead", "nodes", "mmap"} => x.size > 0
    BY DEF AllocTypeOK
  <2> QED
    BY <1>1, <1>5, <2>1, <2>2, TypesAfter
<1>9. LockInv'
  <2>1. /\ list_lock' = c <=> x.pc \in LockPcs
        /\ {list_lock, list_lock'} \subseteq {c, Nobody}
    BY <1>1, AllocAssumption
  <2> QED
    BY <2>1, LockAfter
<1>10. PlaceInv'
  <2>1. \A e \in Mappers : e # c /\ Outside(e) => op[e].meta \notin Range(alloc_list')
    BY <1>1, <1>3, <1>5 DEF PlaceInv
  <2> QED
    BY <1>1, <2>1, PlaceAfter
<1>11. OrderInv'
  <2>1. /\ \A e \in Mappers : e # c => ~ Rotating(e)'
        /\ Rotating(c)' <=> BecomesHead(meta)
        /\ op'[c].meta = meta
    BY <1>1, <1>2, <1>3, OpAfter
  <2> QED
    BY <1>5, <2>1 DEF OrderInv, Sorted, Last
<1> QED
  BY <1>7, <1>8, <1>9, <1>10, <1>11

\* Steps that make the last region the head.
LEMMA RotateStep ==
    ASSUME AllocInv, NEW c \in Mappers, NEW x \in Ops, op' = [op EXCEPT ![c] = x],
           \/ op[c].pc = "blockhead" /\ x.pc = "nodes" /\ x.size = op[c].size
                                     /\ list_lock' = list_lock
           \/ op[c].pc = "head" /\ x.pc = "done" /\ list_lock' = Nobody,
           alloc_list' = Rotated, UNCHANGED <<vm, free_list>>
    PROVE  AllocInv'
<1> USE DEF AllocInv
<1>1. /\ ~ Outside(c) /\ Rotating(c) /\ x.pc \notin OutsidePcs /\ x.pc \notin RotatingPcs
      /\ op[c].pc \in LockPcs
      /\ x.pc \in LockPcs <=> x.pc # "done"
  BY DEF Outside, Rotating, OutsidePcs, RotatingPcs, LockPcs
<1>2. list_lock = c /\ \A e \in Mappers : Rotating(e) => e = c
  BY <1>1 DEF LockInv, Rotating, RotatingPcs, LockPcs
<1>3. PICK s \in Seq(Regions), n \in Nat : s = alloc_list /\ n = Len(s) /\ DOMAIN s = 1 .. n
  BY LenProperties DEF AllocTypeOK
<1>4. /\ n > 0 /\ op[c].meta = Last(s)
      /\ \A i, j \in 1 .. (n - 1) : i < j => s[i].high <= s[j].low
      /\ \A i \in 1 .. (n - 1) : op[c].meta.high <= s[i].low
  BY <1>1, <1>3 DEF OrderInv, Sorted
<1>5. PICK w : w = Rotated
  OBVIOUS
<1>6. /\ w \in Seq(Regions) /\ Len(w) = n /\ w[1] = Last(s)
      /\ \A i \in 2 .. n : w[i] = s[i - 1]
      /\ Range(w) = Range(s)
  BY <1>3, <1>4, <1>5, LastFirst DEF Rotated
<1>7. HeldInv'
  <2>1. Held' = Held
    BY <1>1, <1>3, <1>5, <1>6, HeldAfter, HeldBefore
  <2> QED
    BY <2>1, HeldMoved
<1>8. AllocTypeOK'
  <2>1. /\ vm' \in [Pages -> UserKinds \cup OwnKinds] /\ free_list' \in Nat
        /\ list_lock' \in Mappers \cup {Nobody} /\ alloc_list' \in Seq(Regions)
    BY <1>5, <1>6 DEF AllocTypeOK
  <2>2. x.pc \in {"block", "blockhead", "nodes", "mmap"} => x.size > 0
    BY DEF AllocTypeOK
  <2> QED
    BY <1>1, <2>1, <2>2, TypesAfter
<1>9. LockInv'
  <2>1. /\ list_lock' = c <=> x.pc \in LockPcs
        /\ {list_lock, list_lock'} \subseteq {c, Nobody}
    BY <1>1, <1>2, AllocAssumption
  <2> QED
    BY <2>1, LockAfter
<1>10. PlaceInv'
  BY <1>1, <1>3, <1>5, <1>6, PlaceAfter DEF PlaceInv
<1>11. OrderInv'
  <2>1. ASSUME NEW i \in 1 .. n, NEW j \in 1 .. n, i < j PROVE w[i].high <= w[j].low
    <3>1. j \in 2 .. n /\ j - 1 \in 1 .. (n - 1) /\ w[j] = s[j - 1]
      BY <1>6, <2>1
    <3>2. CASE i = 1
      BY <1>4, <1>6, <3>1, <3>2
    <3>3. CASE i # 1
      <4>1. i - 1 \in 1 .. (n - 1) /\ i - 1 < j - 1 /\ w[i] = s[i - 1]
        BY <1>6, <2>1, <3>3
      <4> QED
        BY <1>4, <3>1, <4>1
    <3> QED
      BY <3>2, <3>3
  <2>2. Sorted(alloc_list', Len(alloc_list'))
    BY <1>5, <1>6, <2>1 DEF Sorted
  <2>3. \A e \in Mappers : ~ Rotating(e)'
    BY <1>1, <1>2, OpAfter
  <2> QED
    BY <2>2, <2>3 DEF OrderInv, Sorted
<1> QED
  BY <1>7, <1>8, <1>9, <1>10, <1>11

\* metadata_remove.
LEMMA RemoveStep ==
    ASSUME AllocInv, NEW c \in Mappers, NEW k \in DOMAIN alloc_list, MetadataRemove(c, k)
    PROVE  AllocInv'
<1> USE DEF AllocInv
<1>1. PICK s \in Seq(Regions), n \in Nat : s = alloc_list /\ n = Len(s) /\ DOMAIN s = 1 .. n
  BY LenProperties DEF AllocTypeOK
<1>2. k \in 1 .. n /\ s[k] \in Regions
  BY <1>1
<1> DEFINE x == [NoOp EXCEPT !.pc = "munmap", !.meta = s[k]]
<1>3. x \in Ops /\ x.pc = "munmap" /\ x.meta = s[k] /\ op' = [op EXCEPT ![c] = x]
  BY <1>1, <1>2 DEF NoOp, Ops, AllocPcs, Regions, Bounds, Region, MetadataRemove
<1> HIDE DEF x
<1>4. /\ ~ Outside(c) /\ ~ Rotating(c) /\ op[c].pc \notin LockPcs
      /\ x.pc \in OutsidePcs /\ x.pc \notin RotatingPcs /\ x.pc \notin LockPcs
      /\ list_lock = Nobody
  BY <1>3 DEF MetadataRemove, Outside, Rotating, OutsidePcs, RotatingPcs, LockPcs
<1>5. /\ \A e \in Mappers : ~ Rotating(e)
      /\ \A i, j \in 1 .. n : i < j => s[i].high <= s[j].low
  BY <1>1, <1>4, NobodyElseRotates DEF Sorted
<1>6. PICK w : w = alloc_list'
  OBVIOUS
<1>7. /\ w \in Seq(Regions) /\ Len(w) = n - 1
      /\ \A i \in 1 .. (k - 1) : w[i] = s[i]
      /\ \A i \in k .. (n - 1) : w[i] = s[i + 1]
      /\ Range(w) = {s[i] : i \in (1 .. n) \ {k}}
  <2>1. w = RemoveAt(s, k) /\ k \in 1 .. Len(s)
    BY <1>1, <1>2, <1>6 DEF MetadataRemove
  <2> HIDE DEF AllocInv
  <2>2. PICK u : u = RemoveAt(s, k)
    OBVIOUS
  <2>3. /\ u \in Seq(Regions) /\ Len(u) = Len(s) - 1
        /\ \A i \in 1 .. (k - 1) : u[i] = s[i]
        /\ \A i \in k .. (Len(s) - 1) : u[i] = s[i + 1]
        /\ Range(u) = {s[i] : i \in (1 .. Len(s)) \ {k}}
    BY <2>1, <2>2, Removed
  <2> QED
    BY <1>1, <2>1, <2>2, <2>3
<1>8. s[k] \notin Range(w)
  <2>1. \A i \in 1 .. n : s[i].low \in Nat /\ s[i].high \in Nat /\ s[i].low < s[i].high
    BY <1>1 DEF Regions, Bounds
  <2>2. \A i \in (1 .. n) \ {k} : s[i] # s[k]
    BY <1>2, <1>5, <2>1
  <2> QED
    BY <1>7, <2>2
<1>9. Range(s) = Range(w) \cup {s[k]}
  BY <1>1, <1>2, <1>7 DEF Range
<1>10. HeldInv'
  <2>1. Held' = Range(w) \cup Others(c) \cup {s[k]}
    BY <1>3, <1>4, <1>6, HeldAfter
  <2>2. Held = Range(s) \cup Others(c)
    BY <1>1, <1>4, HeldBefore
  <2>3. Held' = Held
    BY <1>9, <2>1, <2>2
  <2> QED
    BY <2>3, HeldMoved DEF MetadataRemove
<1>11. AllocTypeOK'
  <2>1. /\ vm' \in [Pages -> UserKinds \cup OwnKinds] /\ free_list' \in Nat
        /\ list_lock' \in Mappers \cup {Nobody} /\ alloc_list' \in Seq(Regions)
    BY <1>6, <1>7 DEF AllocTypeOK, MetadataRemove
  <2> QED
    BY <1>2, <1>3, <2>1, TypesAfter
<1>12. LockInv'
  <2>1. list_lock' = list_lock /\ list_lock' # c
    BY <1>4, AllocAssumption DEF MetadataRemove
  <2> QED
    BY <1>3, <1>4, <2>1, LockAfter
<1>13. PlaceInv'
  <2>1. \A e \in Mappers : e # c /\ Outside(e) =>
           op[e].meta # s[k] /\ op[e].meta \notin Range(w)
    BY <1>1, <1>9 DEF PlaceInv
  <2> QED
    BY <1>3, <1>6, <1>8, <2>1, PlaceAfter
<1>14. OrderInv'
  <2>1. ASSUME NEW i \in 1 .. (n - 1), NEW j \in 1 .. (n - 1), i < j
        PROVE  w[i].high <= w[j].low
    <3>1. CASE j < k
      <4>1. w[i] = s[i] /\ w[j] = s[j] /\ i \in 1 .. n /\ j \in 1 .. n
        BY <1>2, <1>7, <2>1, <3>1
      <4> QED
        BY <1>5, <2>1, <4>1
    <3>2. CASE ~(j < k)
      <4>1. w[j] = s[j + 1] /\ j + 1 \in 1 .. n
        BY <1>2, <1>7, <3>2
      <4>2. CASE i < k
        <5>1. w[i] = s[i] /\ i \in 1 .. n /\ i < j + 1
          BY <1>2, <1>7, <2>1, <4>2
        <5> QED
          BY <1>5, <4>1, <5>1
      <4>3. CASE ~(i < k)
        <5>1. w[i] = s[i + 1] /\ i + 1 \in 1 .. n /\ i + 1 < j + 1
          BY <1>2, <1>7, <2>1, <4>3
        <5> QED
          BY <1>5, <4>1, <5>1
      <4> QED
        BY <4>2, <4>3
    <3> QED
      BY <3>1, <3>2
  <2>2. Sorted(alloc_list', Len(alloc_list'))
    BY <1>6, <1>7, <2>1 DEF Sorted
  <2>3. \A e \in Mappers : ~ Rotating(e)'
    BY <1>3, <1>4, <1>5, OpAfter
  <2> QED
    BY <2>2, <2>3 DEF OrderInv, Sorted
<1> QED
  BY <1>10, <1>11, <1>12, <1>13, <1>14

LEMMA UnmapStep ==
    ASSUME AllocInv, NEW c \in Mappers, MunmapWrap(c)
    PROVE  AllocInv' /\ \A p \in Pages : p \notin PagesOf(op[c].meta) => vm'[p] = vm[p]
<1> USE DEF AllocInv
<1> DEFINE x == [op[c] EXCEPT !.pc = "free"]
<1>1. x \in Ops /\ x.pc = "free" /\ x.meta = op[c].meta /\ op' = [op EXCEPT ![c] = x]
  BY DEF MunmapWrap, AllocTypeOK, Ops, AllocPcs
<1> HIDE DEF x
<1>2. /\ Outside(c) /\ ~ Rotating(c) /\ op[c].pc \notin LockPcs
      /\ x.pc \notin OutsidePcs /\ x.pc \notin RotatingPcs /\ x.pc \notin LockPcs
  BY <1>1 DEF MunmapWrap, Outside, Rotating, OutsidePcs, RotatingPcs, LockPcs
<1>3. /\ vm' = Mapped(op[c].meta, "none")
      /\ UNCHANGED <<alloc_list, free_list, list_lock>>
  BY DEF MunmapWrap
<1>4. Held' = Held \ {op[c].meta} /\ op[c].meta \in Held
  <2>1. Held' = Range(alloc_list) \cup Others(c)
    BY <1>1, <1>2, <1>3, HeldAfter
  <2>2. Held = Range(alloc_list) \cup Others(c) \cup {op[c].meta}
    BY <1>2, HeldBefore
  <2>3. op[c].meta \notin Range(alloc_list) /\ op[c].meta \notin Others(c)
    BY <1>2, MetaApart
  <2> QED
    BY <2>1, <2>2, <2>3
<1>5. /\ HeldInv' /\ vm' \in [Pages -> UserKinds \cup OwnKinds]
      /\ \A p \in Pages : p \notin PagesOf(op[c].meta) => vm'[p] = vm[p]
  BY <1>3, <1>4, HeldUnmapped
<1>6. AllocTypeOK'
  <2>1. /\ alloc_list' \in Seq(Regions) /\ free_list' \in Nat
        /\ list_lock' \in Mappers \cup {Nobody}
    BY <1>3 DEF AllocTypeOK
  <2> QED
    BY <1>1, <1>2, <1>5, <2>1, TypesAfter
<1>7. LockInv'
  <2>1. list_lock' # c
    BY <1>2, <1>3 DEF LockInv
  <2> QED
    BY <1>1, <1>2, <1>3, <2>1, LockAfter
<1>8. PlaceInv'
  BY <1>1, <1>2, <1>3, PlaceAfter DEF PlaceInv
<1>9. OrderInv'
  BY <1>1, <1>2, <1>3, OrderKept
<1> QED
  BY <1>5, <1>6, <1>7, <1>8, <1>9

-----------------------------------------------------------------------------
(***************************************************************************)
(* The actions.                                                            *)
(***************************************************************************)
\* A call of alloc_mmap that has got its node.
MmapOp(n, b) == [NoOp EXCEPT !.pc = "mmap", !.size = n, !.shared = b]

LEMMA ToMmap ==
    ASSUME NEW n \in Nat \ {0}, NEW b \in BOOLEAN
    PROVE  /\ MmapOp(n, b) \in Ops /\ MmapOp(n, b).pc = "mmap"
           /\ MmapOp(n, b).size = n /\ MmapOp(n, b).shared = b
<1> DEFINE x == MmapOp(n, b)
<1>0. NoOp \in Ops
  BY DEF NoOp, Ops, AllocPcs, Bounds, Region
<1> DEFINE u == [NoOp EXCEPT !.pc = "mmap"]
<1>1. u \in Ops /\ u.pc = "mmap"
  BY <1>0 DEF Ops, AllocPcs
<1> HIDE DEF u
<1> DEFINE v == [u EXCEPT !.size = n]
<1>2. v \in Ops /\ v.pc = "mmap" /\ v.size = n
  BY <1>1 DEF Ops
<1> HIDE DEF v
<1>3. x = [v EXCEPT !.shared = b]
  BY DEF u, v, MmapOp
<1> HIDE DEF x
<1>4. x \in Ops /\ x.pc = "mmap" /\ x.size = n /\ x.shared = b
  BY <1>2, <1>3 DEF Ops
<1> QED
  BY <1>4 DEF x

LEMMA TakeNodeStep ==
    ASSUME AllocInv, NEW c \in Mappers, NEW size \in Nat \ {0}, NEW shared \in BOOLEAN,
           TakeNode(c, size, shared)
    PROVE  AllocInv'
<1> DEFINE x == MmapOp(size, shared)
<1>3. op' = [op EXCEPT ![c] = x]
  BY DEF TakeNode, MmapOp
<1>4. x \in Ops /\ x.pc = "mmap" /\ x.size = size
  BY ToMmap
<1> HIDE DEF x
<1>1. x \in Ops /\ x.pc = "mmap" /\ x.size = size /\ size > 0
  BY <1>4
<1>2. free_list' \in Nat
  BY DEF TakeNode, AllocInv, AllocTypeOK
<1> QED
  BY <1>1, <1>2, <1>3, NodeStep DEF TakeNode

LEMMA MapBlockStep ==
    ASSUME AllocInv, NEW c \in Mappers, NEW size \in Nat \ {0}, NEW shared \in BOOLEAN,
           MapBlock(c, size, shared)
    PROVE  AllocInv'
<1>1. PICK r \in Gaps(1) :
         /\ vm' = Mapped(r, "own")
         /\ op' = [op EXCEPT ![c] = [pc |-> "block", meta |-> r, size |-> size,
                                     shared |-> shared]]
  BY DEF MapBlock
<1> DEFINE x == [pc |-> "block", meta |-> r, size |-> size, shared |-> shared]
<1>2. r \in Regions
  BY GapIsFree DEF AllocInv
<1>3. x \in Ops /\ x.pc = "block" /\ x.meta = r /\ x.size > 0 /\ op' = [op EXCEPT ![c] = x]
  BY <1>1, <1>2 DEF Ops, AllocPcs, Regions
<1> HIDE DEF x
<1>4. "own" \in OwnKinds /\ 1 \in Nat \ {0}
  BY DEF OwnKinds
<1> QED
  BY <1>1, <1>3, <1>4, MapStep DEF MapBlock

LEMMA InsertBlockStep ==
    ASSUME AllocInv, NEW c \in Mappers, InsertBlock(c)
    PROVE  AllocInv'
<1> DEFINE x == [op[c] EXCEPT !.pc = IF BecomesHead(op[c].meta) THEN "blockhead" ELSE "nodes"]
<1>1. /\ x \in Ops /\ x.meta = op[c].meta /\ x.size = op[c].size /\ op' = [op EXCEPT ![c] = x]
      /\ x.pc = IF BecomesHead(op[c].meta) THEN "blockhead" ELSE "nodes"
  BY DEF InsertBlock, AllocInv, AllocTypeOK, Ops, AllocPcs
<1> HIDE DEF x
<1>2. list_lock = c /\ list_lock' = c
  BY DEF InsertBlock, AllocInv, LockInv, LockPcs
<1> QED
  BY <1>1, <1>2, LinkStep DEF InsertBlock

LEMMA InsertStep ==
    ASSUME AllocInv, NEW c \in Mappers, Insert(c)
    PROVE  AllocInv'
<1> DEFINE x == [op[c] EXCEPT !.pc = IF BecomesHead(op[c].meta) THEN "head" ELSE "done"]
<1>1. /\ x \in Ops /\ x.meta = op[c].meta /\ x.size = op[c].size /\ op' = [op EXCEPT ![c] = x]
      /\ x.pc = IF BecomesHead(op[c].meta) THEN "head" ELSE "done"
  BY DEF Insert, AllocInv, AllocTypeOK, Ops, AllocPcs
<1> HIDE DEF x
<1>2. list_lock = Nobody /\ list_lock' = IF x.pc = "done" THEN Nobody ELSE c
  BY <1>1 DEF Insert
<1> QED
  BY <1>1, <1>2, LinkStep DEF Insert

LEMMA InsertHeadStep ==
    ASSUME AllocInv, NEW c \in Mappers, InsertBlockHead(c) \/ InsertHead(c)
    PROVE  AllocInv'
<1>1. PICK d \in {"nodes", "done"} : op' = [op EXCEPT ![c].pc = d]
                                     /\ d = IF op[c].pc = "head" THEN "done" ELSE "nodes"
  BY DEF InsertBlockHead, InsertHead
<1> DEFINE x == [op[c] EXCEPT !.pc = d]
<1>2. x \in Ops /\ x.pc = d /\ x.size = op[c].size /\ op' = [op EXCEPT ![c] = x]
  BY <1>1 DEF AllocInv, AllocTypeOK, Ops, AllocPcs
<1> HIDE DEF x
<1> QED
  BY <1>1, <1>2, RotateStep DEF InsertBlockHead, InsertHead

LEMMA BlockNodeStep ==
    ASSUME AllocInv, NEW c \in Mappers, BlockNode(c)
    PROVE  AllocInv'
<1> DEFINE x == [op[c] EXCEPT !.pc = "mmap"]
<1>1. x \in Ops /\ x.pc = "mmap" /\ x.size > 0 /\ op' = [op EXCEPT ![c] = x]
  BY DEF BlockNode, AllocInv, AllocTypeOK, Ops, AllocPcs
<1> HIDE DEF x
<1>2. free_list' \in Nat
  BY AllocAssumption DEF BlockNode
<1> QED
  BY <1>1, <1>2, NodeStep DEF BlockNode

LEMMA MmapWrapStep ==
    ASSUME AllocInv, NEW c \in Mappers, MmapWrap(c)
    PROVE  AllocInv'
<1>1. PICK r \in Gaps(op[c].size) :
         /\ vm' = Mapped(r, IF op[c].shared THEN "ownshared" ELSE "own")
         /\ op' = [op EXCEPT ![c].pc = "insert", ![c].meta = r]
  BY DEF MmapWrap
<1>2. op[c].pc = "mmap" /\ op[c].size \in Nat \ {0} /\ op[c] \in Ops
  BY DEF MmapWrap, AllocInv, AllocTypeOK, Ops
<1>3. PICK size \in Nat \ {0} : size = op[c].size
  BY <1>2
<1>4. r \in Regions
  BY <1>1, <1>3, GapIsFree DEF AllocInv
<1>7. r \in Bounds
  BY <1>4 DEF Regions
<1>8. PICK y \in Ops : y = op[c]
  BY <1>2
<1> DEFINE u == [y EXCEPT !.pc = "insert"]
           x == [u EXCEPT !.meta = r]
<1>9. op' = [op EXCEPT ![c] = x]
  BY <1>1, <1>8
<1>10. u \in Ops /\ u.pc = "insert" /\ u.size = y.size
  BY <1>8 DEF Ops, AllocPcs
<1> HIDE DEF u
<1>5. x \in Ops /\ x.pc = "insert" /\ x.meta = r /\ x.size = y.size
  BY <1>7, <1>10 DEF Ops
<1> HIDE DEF x
<1>11. x.size > 0
  BY <1>2, <1>5, <1>8
<1>6. PICK kind \in OwnKinds : kind = IF op[c].shared THEN "ownshared" ELSE "own"
  BY DEF OwnKinds
<1> QED
  BY <1>1, <1>2, <1>3, <1>5, <1>6, <1>9, <1>11, MapStep DEF MmapWrap

LEMMA MetadataFreeStep ==
    ASSUME AllocInv, NEW c \in Mappers, MetadataFree(c)
    PROVE  AllocInv'
<1>1. NoOp \in Ops /\ NoOp.pc = "idle" /\ op' = [op EXCEPT ![c] = NoOp]
  BY DEF MetadataFree, NoOp, Ops, AllocPcs, Bounds, Region
<1>2. free_list' \in Nat
  BY DEF MetadataFree, AllocInv, AllocTypeOK
<1> QED
  BY <1>1, <1>2, NodeStep DEF MetadataFree

LEMMA AllocStepInv ==
    ASSUME AllocInv, NEW c \in Mappers, AllocStep(c)
    PROVE  AllocInv'
BY InsertBlockStep, InsertHeadStep, BlockNodeStep, MmapWrapStep, InsertStep, UnmapStep,
   MetadataFreeStep DEF AllocStep

\* The call returns to its caller.
LEMMA ReturnStep ==
    ASSUME AllocInv, NEW c \in Mappers, op[c].pc = "done", op' = [op EXCEPT ![c] = NoOp],
           UNCHANGED <<vm, alloc_list, free_list, list_lock>>
    PROVE  AllocInv'
<1>1. NoOp \in Ops /\ NoOp.pc = "idle"
  BY DEF NoOp, Ops, AllocPcs, Bounds, Region
<1>2. free_list' \in Nat
  BY DEF AllocInv, AllocTypeOK
<1> QED
  BY <1>1, <1>2, NodeStep

\* What the property says of the list follows from the invariant.
LEMMA ListCompleteHolds == AllocInv => ListComplete
<1> SUFFICES ASSUME AllocInv PROVE ListComplete
  OBVIOUS
<1> USE DEF AllocInv
<1>1. PICK n \in Nat : n = Len(alloc_list) /\ DOMAIN alloc_list = 1 .. n
  BY LenProperties DEF AllocTypeOK
<1>2. ASSUME list_lock = Nobody, NEW i \in 1 .. (n - 1)
      PROVE  alloc_list[i].high <= alloc_list[i + 1].low
  <2>1. \A c \in Mappers : ~ Rotating(c)
    BY <1>2, AllocAssumption DEF LockInv, LockPcs, Rotating, RotatingPcs
  <2>2. i \in 1 .. n /\ i + 1 \in 1 .. n /\ i < i + 1
    OBVIOUS
  <2> QED
    BY <1>1, <2>1, <2>2 DEF OrderInv, Sorted
<1>3. Range(alloc_list) \cup InFlight = Held
  <2>1. ASSUME NEW c \in Mappers, Rotating(c) PROVE op[c].meta \in Range(alloc_list)
    BY <1>1, <2>1 DEF OrderInv, Range, Last
  <2>2. \A c \in Mappers : op[c].pc \in {"block", "blockhead", "insert", "head", "munmap"}
                            <=> Outside(c) \/ Rotating(c)
    BY DEF Outside, Rotating, OutsidePcs, RotatingPcs
  <2> QED
    BY <2>1, <2>2 DEF Held, Flying, InFlight
<1>4. {p \in Pages : vm[p] \in OwnKinds} = UNION {PagesOf(r) : r \in Held}
  <2>1. \A r \in Held : PagesOf(r) \subseteq Pages
    BY HeldTypes, RegionPages
  <2> QED
    BY <2>1 DEF HeldInv
<1> QED
  BY <1>1, <1>2, <1>3, <1>4 DEF ListComplete

-----------------------------------------------------------------------------
(***************************************************************************)
(* The memory Forkscan maps for itself.                                    *)
(***************************************************************************)
LEMMA AllocInit == Init => AllocInv
<1> SUFFICES ASSUME Init PROVE AllocInv
  OBVIOUS
<1> USE SnapshotAssumption, AllocAssumption
<1>1. PICK m \in UserMaps : vm = [m EXCEPT ![MetaBlock] = "own", ![TdBatch] = "ownshared"]
  BY DEF Init
<1>2. /\ m \in [Pages -> UserKinds] /\ m[MetaBlock] = "none" /\ m[TdBatch] = "none"
      /\ MetaBlock \in Pages /\ TdBatch \in Pages /\ MetaBlock < TdBatch
      /\ MetaBlock \in Nat /\ TdBatch \in Nat
  BY DEF Pages
<1>3. /\ vm \in [Pages -> UserKinds \cup OwnKinds]
      /\ \A p \in Pages : vm[p] = IF p = TdBatch THEN "ownshared"
                                  ELSE IF p = MetaBlock THEN "own" ELSE m[p]
  BY <1>1, <1>2 DEF OwnKinds
<1>4. PICK r, s : r = Region(MetaBlock, 1) /\ s = Region(TdBatch, 1)
  OBVIOUS
<1>5. /\ r.low = MetaBlock /\ r.high = MetaBlock + 1
      /\ s.low = TdBatch /\ s.high = TdBatch + 1
      /\ r \in Regions /\ s \in Regions
  BY <1>2, <1>4 DEF Region, Regions, Bounds, Pages
<1>6. /\ PagesOf(r) = {MetaBlock} /\ PagesOf(s) = {TdBatch}
  BY <1>2, <1>5 DEF PagesOf
<1>7. /\ alloc_list = <<r, s>> /\ alloc_list \in Seq(Regions)
      /\ Len(alloc_list) = 2 /\ DOMAIN alloc_list = 1 .. 2
      /\ alloc_list[1] = r /\ alloc_list[2] = s
  BY <1>4, <1>5 DEF Init
<1>8. /\ op = [c \in Mappers |-> NoOp] /\ NoOp \in Ops /\ NoOp.pc = "idle"
      /\ \A c \in Mappers : op[c] = NoOp
  BY DEF Init, NoOp, Ops, AllocPcs, Bounds, Region
<1>9. \A c \in Mappers : op[c].pc = "idle" /\ ~ Outside(c) /\ ~ Rotating(c)
  BY <1>8 DEF Outside, OutsidePcs, Rotating, RotatingPcs
<1>10. AllocTypeOK
  <2>1. free_list \in Nat /\ list_lock = Nobody
    BY DEF Init
  <2> QED
    BY <1>3, <1>7, <1>8, <1>9, <2>1 DEF AllocTypeOK
<1>11. LockInv
  BY <1>9 DEF LockInv, LockPcs, Init
<1>12. Held = {r, s}
  BY <1>7, <1>9 DEF Held, Flying, Range
<1>13. HeldInv
  <2>1. \A q1, q2 \in Held : q1 # q2 => Apart(q1, q2)
    BY <1>2, <1>5, <1>12 DEF Apart
  <2>2. \A p \in Pages : vm[p] \in OwnKinds <=> \E q \in Held : p \in PagesOf(q)
    BY <1>2, <1>3, <1>6, <1>12 DEF OwnKinds, UserKinds
  <2>3. \A q \in Held : \A p \in PagesOf(q) : vm[p] = vm[q.low]
    BY <1>5, <1>6, <1>12
  <2> QED
    BY <2>1, <2>2, <2>3 DEF HeldInv
<1>14. PlaceInv
  BY <1>9 DEF PlaceInv, Outside
<1>15. OrderInv
  BY <1>2, <1>5, <1>7, <1>9 DEF OrderInv, Sorted
<1> QED
  BY <1>10, <1>11, <1>13, <1>14, <1>15 DEF AllocInv

\* The mappers of the instance: the threads and the collector.
LEMMA AllocNextInv == AllocInv /\ [Next]_vars => AllocInv'
<1> SUFFICES ASSUME AllocInv, [Next]_vars PROVE AllocInv'
  OBVIOUS
<1> USE SnapshotAssumption
<1>1. ASSUME UNCHANGED allocVars PROVE AllocInv'
  BY <1>1 DEF allocVars, AllocInv, AllocTypeOK, LockInv, HeldInv, PlaceInv, OrderInv, Held,
     Flying, Outside, Rotating
<1>2. ASSUME NEW c \in Callers, MapStacks(c) PROVE AllocInv'
  BY <1>2, RegistryAssumption, TakeNodeStep, MapBlockStep DEF MapStacks, AllocMmap
<1>3. ASSUME NEW c \in Callers, StacksMapped(c) PROVE AllocInv'
  BY <1>3, ReturnStep DEF StacksMapped
<1>4. ASSUME MapAggregate PROVE AllocInv'
  <2>1. Collector \in Mappers /\ 1 \in Nat \ {0} /\ TRUE \in BOOLEAN
    OBVIOUS
  <2>2. TakeNode(Collector, 1, TRUE) \/ MapBlock(Collector, 1, TRUE)
    BY <1>4 DEF MapAggregate, AllocMmap
  <2> QED
    BY <2>1, <2>2, TakeNodeStep, MapBlockStep
<1>5. ASSUME AggregateMapped PROVE AllocInv'
  BY <1>5, ReturnStep DEF AggregateMapped
<1>6. ASSUME UnmapAggregate PROVE AllocInv'
  BY <1>6, RemoveStep DEF UnmapAggregate, Aggregates
<1>7. ASSUME NEW c \in Mappers, AllocStep(c) PROVE AllocInv'
  BY <1>7, AllocStepInv
<1>8. ASSUME AllocNext PROVE AllocInv'
  BY <1>2, <1>3, <1>4, <1>5, <1>6, <1>7, <1>8 DEF AllocNext
<1> QED
  BY <1>1, <1>8 DEF Next, vars, LeaveList, Fork, AddStackRange, ChildGone

\* Whoever holds no lock finds the list of Forkscan's regions sorted and free of
\* overlaps, and every page that Forkscan has mapped is in the list or in the hands of
\* the thread that maps or unmaps it, whatever threads map at the same time and
\* wherever they are stopped (metadata_do_insert, alloc_mmap and
\* forkscan_alloc_munmap).
THEOREM RegionsListed == Spec => []ListComplete
<1>1. Spec => []AllocInv
  BY AllocInit, AllocNextInv, PTL DEF Spec
<1> QED
  BY <1>1, ListCompleteHolds, PTL

-----------------------------------------------------------------------------
(***************************************************************************)
(* The registry of threads: its invariant.  Everything but ListInv holds   *)
(* whether or not creations fail.                                          *)
(***************************************************************************)
Slots == Tds \cup {NULL}
TdRecs == [next : Slots, self : Callers, stack : Int, ours : BOOLEAN, ref_count : Int]
ThreadRecs == [pc : {"none", "ready", "active", "unlisted", "staged", "ended"}, td : Slots]
CallRecs == [pc : {"idle", "stack", "map", "add", "orig", "free"}, td : Slots]

\* A structure is in the hands of a call, or of a thread.
Busy(c) == call[c].pc # "idle"
Alive(t) == thread[t].pc # "none"

RegTypeOK ==
    /\ td \in [Tds -> TdRecs] /\ head \in Slots /\ staged \in Slots
    /\ threaddata_pool \in Seq(Tds) /\ stack_pool \in Seq(Int)
    /\ thread \in [Workers -> ThreadRecs] /\ call \in [Callers -> CallRecs]
    /\ \A t \in Workers : Alive(t) => thread[t].td \in Tds
    /\ \A c \in Callers : Busy(c) => call[c].td \in Tds
    /\ failed \in BOOLEAN

\* A structure is the initial thread's, in the pool, in the hands of one call, or in
\* those of one thread.
Distinct(s) == \A i, j \in DOMAIN s : s[i] = s[j] => i = j

OwnerInv ==
    /\ Distinct(threaddata_pool)
    /\ MainTd \notin InSeq(threaddata_pool)
    /\ \A c \in Callers : Busy(c) =>
          /\ call[c].td \notin InSeq(threaddata_pool) /\ call[c].td # MainTd
          /\ \A b \in Callers : Busy(b) /\ call[b].td = call[c].td => b = c
          /\ \A t \in Workers : Alive(t) => thread[t].td # call[c].td
    /\ \A t \in Workers : Alive(t) =>
          /\ thread[t].td \notin InSeq(threaddata_pool) /\ thread[t].td # MainTd
          /\ \A u \in Workers : Alive(u) /\ thread[u].td = thread[t].td => u = t
    /\ \A d \in Tds : \/ d = MainTd
                      \/ d \in InSeq(threaddata_pool)
                      \/ \E c \in Callers : Busy(c) /\ call[c].td = d
                      \/ \E t \in Workers : Alive(t) /\ thread[t].td = d

\* One reference until the thread leaves; self once the thread has started.
FieldInv ==
    /\ \A c \in Callers : call[c].pc \in {"stack", "map", "add", "orig"} =>
          td[call[c].td].ref_count = 1
    /\ \A t \in Workers : thread[t].pc \in {"ready", "active", "unlisted"} =>
          td[thread[t].td].ref_count = 1
    /\ \A t \in Workers : thread[t].pc \in {"active", "unlisted", "staged", "ended"} =>
          td[thread[t].td].self = t
    /\ ~ td[MainTd].ours

\* The structures f[1], ..., f[n] are those of D, linked in this order from first.
Chain(next, f, n, first, D) ==
    /\ f \in [1 .. n -> Tds]
    /\ \A i, j \in 1 .. n : f[i] = f[j] => i = j
    /\ D = {f[i] : i \in 1 .. n}
    /\ first = IF n = 0 THEN NULL ELSE f[1]
    /\ \A i \in 1 .. n : next[f[i]] = IF i = n THEN NULL ELSE f[i + 1]

Nexts == [d \in Tds |-> td[d].next]
IsList(next, first, D) ==
    \E n \in Nat : \E f \in [1 .. n -> Tds] : Chain(next, f, n, first, D)

StagedInv == IsList(Nexts, staged, OfThreads({"staged", "ended"}))

Members == {MainTd} \cup Awaited \cup OfThreads({"ready", "active"})
ListInv == ~failed => IsList(Nexts, head, Members)

\* The structures whose stack somebody may be about to run on, runs on, or is to
\* return.
Holders == {d \in Tds :
    /\ td[d].ours
    /\ \/ \E c \in Callers : call[c].td = d /\ call[c].pc \in {"add", "orig", "free"}
       \/ \E t \in Workers : thread[t].td = d /\ Alive(t)}

InUse == {td[d].stack : d \in Holders} \cup InSeq(stack_pool)

\* A caller has mapped a batch of stacks that is not in use yet.
Batch(c) == op[c].pc \in {"insert", "head", "done"}

StackInv ==
    /\ Distinct(stack_pool)
    /\ \A d \in Holders : td[d].stack \notin InSeq(stack_pool)
    /\ \A d, e \in Holders : td[d].stack = td[e].stack => d = e
    /\ \A p \in InUse : p \in Pages /\ vm[p] = "own"
    /\ \A c \in Callers : /\ op[c].pc \notin {"munmap", "free"}
                          /\ call[c].pc # "map" => op[c].pc = "idle"
                          /\ op[c].pc # "idle" => op[c].size = StackBatch /\ ~ op[c].shared
    /\ \A c \in Callers : Batch(c) =>
          /\ op[c].meta.high = op[c].meta.low + StackBatch
          /\ \A p \in PagesOf(op[c].meta) : p \in Pages /\ vm[p] = "own" /\ p \notin InUse
          /\ \A b \in Callers : b # c /\ Batch(b) =>
                PagesOf(op[b].meta) \cap PagesOf(op[c].meta) = {}
    /\ op[Collector].pc = "munmap" => vm[op[Collector].meta.low] = "ownshared"
    /\ op[Collector].pc \in {"block", "blockhead", "nodes", "mmap"} => op[Collector].shared

-----------------------------------------------------------------------------
(***************************************************************************)
(* Lists linked through the structures.                                    *)
(***************************************************************************)
LEMMA ChainAgrees ==
    ASSUME NEW next, NEW next2, NEW n \in Nat, NEW f \in [1 .. n -> Tds], NEW first, NEW D,
           Chain(next, f, n, first, D), \A d \in D : next2[d] = next[d]
    PROVE  Chain(next2, f, n, first, D)
BY DEF Chain

LEMMA ChainPush ==
    ASSUME NEW next, NEW next2, NEW n \in Nat, NEW f \in [1 .. n -> Tds], NEW first, NEW D,
           Chain(next, f, n, first, D), NEW e \in Tds, e \notin D,
           next2[e] = first, \A d \in D : next2[d] = next[d]
    PROVE  \E m \in Nat : \E g \in [1 .. m -> Tds] : Chain(next2, g, m, e, D \cup {e})
<1> DEFINE g == [i \in 1 .. (n + 1) |-> IF i = 1 THEN e ELSE f[i - 1]]
<1>1. /\ g \in [1 .. (n + 1) -> Tds] /\ g[1] = e
      /\ \A i \in 2 .. (n + 1) : i - 1 \in 1 .. n /\ g[i] = f[i - 1]
      /\ \A i \in 1 .. n : i + 1 \in 2 .. (n + 1) /\ g[i + 1] = f[i]
  OBVIOUS
<1> HIDE DEF g
<1>2. \A i \in 1 .. n : f[i] \in D
  BY DEF Chain
<1>3. \A i, j \in 1 .. (n + 1) : g[i] = g[j] => i = j
  <2> TAKE i, j \in 1 .. (n + 1)
  <2> HAVE g[i] = g[j]
  <2>1. CASE i = 1
    BY <1>1, <1>2, <2>1
  <2>2. CASE j = 1
    BY <1>1, <1>2, <2>2
  <2>3. CASE i \in 2 .. (n + 1) /\ j \in 2 .. (n + 1)
    <3>1. i - 1 \in 1 .. n /\ j - 1 \in 1 .. n /\ f[i - 1] = f[j - 1]
      BY <1>1, <2>3
    <3>2. i - 1 = j - 1
      BY <3>1 DEF Chain
    <3> QED
      BY <3>2
  <2> QED
    BY <2>1, <2>2, <2>3
<1>4. D \cup {e} = {g[i] : i \in 1 .. (n + 1)}
  <2>1. D = {f[i] : i \in 1 .. n}
    BY DEF Chain
  <2>2. \A i \in 1 .. n : \E j \in 1 .. (n + 1) : f[i] = g[j]
    BY <1>1
  <2>3. \A j \in 1 .. (n + 1) : g[j] = e \/ \E i \in 1 .. n : g[j] = f[i]
    BY <1>1
  <2>4. \E j \in 1 .. (n + 1) : g[j] = e
    <3>1. 1 \in 1 .. (n + 1)
      OBVIOUS
    <3> QED
      BY <1>1, <3>1
  <2>5. ASSUME NEW d \in D \cup {e} PROVE d \in {g[j] : j \in 1 .. (n + 1)}
    BY <2>1, <2>2, <2>4
  <2>6. ASSUME NEW d \in {g[j] : j \in 1 .. (n + 1)} PROVE d \in D \cup {e}
    BY <2>1, <2>3
  <2> QED
    BY <2>5, <2>6
<1>5. \A i \in 1 .. (n + 1) : next2[g[i]] = IF i = n + 1 THEN NULL ELSE g[i + 1]
  <2> TAKE i \in 1 .. (n + 1)
  <2>1. CASE i = 1
    <3>1. next2[g[i]] = IF n = 0 THEN NULL ELSE f[1]
      BY <1>1, <2>1 DEF Chain
    <3>2. CASE n = 0
      BY <2>1, <3>1, <3>2
    <3>3. CASE n # 0
      <4>1. 1 \in 1 .. n /\ i + 1 = 1 + 1 /\ i # n + 1
        BY <2>1, <3>3
      <4>2. g[i + 1] = f[1]
        BY <1>1, <4>1
      <4> QED
        BY <3>1, <3>3, <4>1, <4>2
    <3> QED
      BY <3>2, <3>3
  <2>2. CASE i \in 2 .. (n + 1)
    <3>1. i - 1 \in 1 .. n /\ g[i] = f[i - 1]
      BY <1>1, <2>2
    <3>2. next2[g[i]] = IF i - 1 = n THEN NULL ELSE f[(i - 1) + 1]
      BY <1>2, <3>1 DEF Chain
    <3>3. CASE i = n + 1
      BY <3>2, <3>3
    <3>4. CASE i # n + 1
      BY <1>1, <3>2, <3>4
    <3> QED
      BY <3>3, <3>4
  <2> QED
    BY <2>1, <2>2
<1>6. e = IF n + 1 = 0 THEN NULL ELSE g[1]
  BY <1>1
<1>7. Chain(next2, g, n + 1, e, D \cup {e})
  BY <1>1, <1>3, <1>4, <1>5, <1>6 DEF Chain
<1> QED
  BY <1>1, <1>7

LEMMA ChainRemove ==
    ASSUME NEW next, NEW next2, NEW n \in Nat, NEW f \in [1 .. n -> Tds], NEW first, NEW D,
           Chain(next, f, n, first, D), NEW k \in 1 .. n, NEW first2,
           \A d \in D : d # f[k] /\ (k > 1 => d # f[k - 1]) => next2[d] = next[d],
           k = 1 => first2 = next[f[k]],
           k # 1 => first2 = first /\ next2[f[k - 1]] = next[f[k]]
    PROVE  IsList(next2, first2, D \ {f[k]})
<1> DEFINE g == [i \in 1 .. (n - 1) |-> IF i < k THEN f[i] ELSE f[i + 1]]
<1>1. /\ n - 1 \in Nat /\ g \in [1 .. (n - 1) -> Tds]
      /\ \A i \in 1 .. (n - 1) : /\ i \in 1 .. n /\ i + 1 \in 1 .. n
                                 /\ i < k => g[i] = f[i]
                                 /\ i >= k => g[i] = f[i + 1]
  OBVIOUS
<1> HIDE DEF g
<1>2. /\ \A i \in 1 .. n : f[i] \in D
      /\ \A i, j \in 1 .. n : f[i] = f[j] => i = j
      /\ \A i \in 1 .. n : next[f[i]] = IF i = n THEN NULL ELSE f[i + 1]
      /\ D = {f[i] : i \in 1 .. n}
  BY DEF Chain
<1>3. \A i, j \in 1 .. (n - 1) : g[i] = g[j] => i = j
  <2> TAKE i, j \in 1 .. (n - 1)
  <2>1. PICK i2 \in 1 .. n : i2 = (IF i < k THEN i ELSE i + 1) /\ g[i] = f[i2]
    BY <1>1
  <2>2. PICK j2 \in 1 .. n : j2 = (IF j < k THEN j ELSE j + 1) /\ g[j] = f[j2]
    BY <1>1
  <2> HAVE g[i] = g[j]
  <2>3. f[i2] = f[j2]
    BY <2>1, <2>2
  <2>4. i2 = j2
    BY <1>2, <2>3
  <2> QED
    BY <2>1, <2>2, <2>4
<1>4. D \ {f[k]} = {g[i] : i \in 1 .. (n - 1)}
  <2>1. ASSUME NEW i \in 1 .. n, i # k PROVE \E j \in 1 .. (n - 1) : f[i] = g[j]
    <3>1. CASE i < k
      BY <1>1, <3>1
    <3>2. CASE i > k
      <4>1. i - 1 \in 1 .. (n - 1) /\ i - 1 >= k /\ (i - 1) + 1 = i
        BY <3>2
      <4> QED
        BY <1>1, <4>1
    <3> QED
      BY <2>1, <3>1, <3>2
  <2>2. ASSUME NEW j \in 1 .. (n - 1) PROVE \E i \in 1 .. n : i # k /\ g[j] = f[i]
    BY <1>1
  <2>3. \A i \in 1 .. n : i # k => f[i] # f[k]
    BY <1>2
  <2>4. ASSUME NEW d \in D \ {f[k]} PROVE d \in {g[j] : j \in 1 .. (n - 1)}
    BY <1>2, <2>1
  <2>5. ASSUME NEW d \in {g[j] : j \in 1 .. (n - 1)} PROVE d \in D \ {f[k]}
    <3>1. PICK j \in 1 .. (n - 1) : d = g[j]
      BY <2>5
    <3>2. PICK i \in 1 .. n : i # k /\ g[j] = f[i]
      BY <2>2
    <3> QED
      BY <1>2, <2>3, <3>1, <3>2
  <2> QED
    BY <2>4, <2>5
<1>5. first2 = IF n - 1 = 0 THEN NULL ELSE g[1]
  <2>1. CASE k = 1
    BY <1>1, <1>2, <2>1
  <2>2. CASE k # 1
    BY <1>1, <2>2 DEF Chain
  <2> QED
    BY <2>1, <2>2
<1>6. \A i \in 1 .. (n - 1) : next2[g[i]] = IF i = n - 1 THEN NULL ELSE g[i + 1]
  <2> TAKE i \in 1 .. (n - 1)
  <2>1. CASE i < k - 1
    <3>1. f[i] # f[k] /\ f[i] # f[k - 1] /\ i < n - 1 /\ i + 1 \in 1 .. (n - 1)
      BY <1>2, <2>1
    <3>2. next2[f[i]] = f[i + 1]
      BY <1>2, <2>1, <3>1
    <3> QED
      BY <1>1, <2>1, <3>1, <3>2
  <2>2. CASE i = k - 1
    <3>1. next2[f[i]] = next[f[k]] /\ g[i] = f[i]
      BY <1>1, <2>2
    <3>2. CASE i = n - 1
      BY <1>2, <2>2, <3>1, <3>2
    <3>3. CASE i # n - 1
      <4>1. i + 1 \in 1 .. (n - 1) /\ i + 1 = k /\ k # n
        BY <2>2, <3>3
      <4>2. g[i + 1] = f[k + 1]
        BY <1>1, <4>1
      <4> QED
        BY <1>2, <3>1, <3>3, <4>1, <4>2
    <3> QED
      BY <3>2, <3>3
  <2>3. CASE i >= k
    <3>1. i + 1 \in 1 .. n /\ g[i] = f[i + 1]
      BY <1>1, <2>3
    <3>2. f[i + 1] # f[k] /\ (k > 1 => f[i + 1] # f[k - 1])
      BY <1>2, <2>3, <3>1
    <3>3. next2[f[i + 1]] = IF i + 1 = n THEN NULL ELSE f[(i + 1) + 1]
      BY <1>2, <3>1, <3>2
    <3>4. CASE i = n - 1
      BY <3>1, <3>3, <3>4
    <3>5. CASE i # n - 1
      <4>1. i + 1 \in 1 .. (n - 1) /\ i + 1 >= k
        BY <2>3, <3>5
      <4> QED
        BY <1>1, <3>1, <3>3, <3>5, <4>1
    <3> QED
      BY <3>4, <3>5
  <2> QED
    BY <2>1, <2>2, <2>3
<1>7. Chain(next2, g, n - 1, first2, D \ {f[k]})
  BY <1>1, <1>3, <1>4, <1>5, <1>6 DEF Chain
<1> QED
  BY <1>1, <1>7 DEF IsList

LEMMA ListKept ==
    ASSUME NEW next, NEW next2, NEW first, NEW D, IsList(next, first, D),
           \A d \in D : next2[d] = next[d]
    PROVE  IsList(next2, first, D)
BY ChainAgrees DEF IsList

LEMMA ListPushed ==
    ASSUME NEW next, NEW next2, NEW first, NEW D, IsList(next, first, D),
           NEW e \in Tds, e \notin D, next2[e] = first, \A d \in D : next2[d] = next[d]
    PROVE  IsList(next2, e, D \cup {e})
BY ChainPush DEF IsList

LEMMA ListClosed ==
    ASSUME NEW next, NEW first, NEW D, IsList(next, first, D)
    PROVE  \A d \in D : next[d] \in D \cup {NULL}
<1>0. PICK n \in Nat : \E f \in [1 .. n -> Tds] : Chain(next, f, n, first, D)
  BY DEF IsList
<1>1. PICK f \in [1 .. n -> Tds] : Chain(next, f, n, first, D)
  BY <1>0
<1>2. \A i \in 1 .. n : i # n => i + 1 \in 1 .. n
  OBVIOUS
<1> QED
  BY <1>1, <1>2 DEF Chain

\* The structure d is taken out, at the front or after the one that points to it.
LEMMA ListRemoved ==
    ASSUME NEW next, NEW next2, NEW first, NEW D, IsList(next, first, D), NEW d \in D,
           NEW first2,
           \/ /\ first = d /\ first2 = next[d]
              /\ \A e \in D : next2[e] = next[e]
           \/ /\ first # d /\ first2 = first
              /\ \E w \in D : /\ next[w] = d /\ next2[w] = next[d]
                              /\ \A e \in D : e # w => next2[e] = next[e]
    PROVE  IsList(next2, first2, D \ {d})
<1>0. PICK n \in Nat : \E f \in [1 .. n -> Tds] : Chain(next, f, n, first, D)
  BY DEF IsList
<1>1. PICK f \in [1 .. n -> Tds] : Chain(next, f, n, first, D)
  BY <1>0
<1>2. PICK k \in 1 .. n : d = f[k]
  BY <1>1 DEF Chain
<1>3. first = f[1] /\ 1 \in 1 .. n
  BY <1>1 DEF Chain
<1>4. CASE first = d
  <2>1. k = 1
    BY <1>1, <1>2, <1>3, <1>4 DEF Chain
  <2>2. \A e \in D : e # f[k] /\ (k > 1 => e # f[k - 1]) => next2[e] = next[e]
    BY <1>2, <1>4, <2>1
  <2>9. /\ k = 1 => first2 = next[f[k]]
        /\ k # 1 => first2 = first /\ next2[f[k - 1]] = next[f[k]]
    BY <1>2, <1>4, <2>1
  <2>8. IsList(next2, first2, D \ {f[k]})
    BY <1>1, <2>2, <2>9, ChainRemove
  <2> QED
    BY <1>2, <2>8
<1>5. CASE first # d
  <2>1. PICK w \in D : /\ next[w] = d /\ next2[w] = next[d]
                       /\ \A e \in D : e # w => next2[e] = next[e]
    BY <1>5
  <2>2. PICK j \in 1 .. n : w = f[j]
    BY <1>1 DEF Chain
  <2>3. d # NULL
    BY <1>2, RegistryAssumption
  <2>4. j # n /\ j + 1 \in 1 .. n /\ f[j + 1] = d
    BY <1>1, <2>1, <2>2, <2>3 DEF Chain
  <2>5. k = j + 1
    BY <1>1, <1>2, <2>4 DEF Chain
  <2>6. k # 1 /\ f[k - 1] = w
    BY <2>2, <2>5
  <2>7. \A e \in D : e # f[k] /\ (k > 1 => e # f[k - 1]) => next2[e] = next[e]
    BY <1>2, <1>5, <2>1, <2>6
  <2>9. /\ k = 1 => first2 = next[f[k]]
        /\ k # 1 => first2 = first /\ next2[f[k - 1]] = next[f[k]]
    BY <1>2, <1>5, <2>1, <2>6
  <2>8. IsList(next2, first2, D \ {f[k]})
    BY <1>1, <2>7, <2>9, ChainRemove
  <2> QED
    BY <1>2, <2>8
<1> QED
  BY <1>4, <1>5

-----------------------------------------------------------------------------
(***************************************************************************)
(* Walks.                                                                  *)
(***************************************************************************)
LEMMA CountTds == Cardinality(Tds) \in Nat
BY RegistryAssumption, FS_CardinalityType

\* The steps of a walk, as far as they go.
Steps(next, h, k, first) ==
    /\ h \in [0 .. k -> Slots]
    /\ h[0] = first
    /\ \A i \in 1 .. k : h[i] = IF h[i - 1] = NULL THEN NULL ELSE next[h[i - 1]]

LEMMA StepsExist ==
    ASSUME NEW next \in [Tds -> Slots], NEW first \in Slots, NEW k \in Nat
    PROVE  \E h : Steps(next, h, k, first)
<1> DEFINE Missing == {j \in Nat : ~ \E h : Steps(next, h, j, first)}
<1>1. SUFFICES ASSUME Missing # {} PROVE FALSE
  OBVIOUS
<1>2. PICK j \in Missing : \A i \in Missing : j <= i
  BY <1>1, Rec!LeastNatural
<1>3. CASE j = 0
  <2> DEFINE h == [i \in 0 .. 0 |-> first]
  <2>1. h \in [0 .. 0 -> Slots] /\ h[0] = first /\ 1 .. 0 = {}
    OBVIOUS
  <2>2. Steps(next, h, 0, first)
    BY <2>1 DEF Steps
  <2> QED
    BY <1>3, <2>2
<1>4. CASE j # 0
  <2>1. j - 1 \in Nat /\ j - 1 \notin Missing
    BY <1>2, <1>4
  <2>2. PICK h : Steps(next, h, j - 1, first)
    BY <2>1
  <2>3. h \in [0 .. (j - 1) -> Slots]
    BY <2>2 DEF Steps
  <2> DEFINE x == IF h[j - 1] = NULL THEN NULL ELSE next[h[j - 1]]
             g == [i \in 0 .. j |-> IF i = j THEN x ELSE h[i]]
  <2>4. h[j - 1] \in Slots
    BY <2>1, <2>3
  <2>5. x \in Slots
    BY <2>4 DEF Slots
  <2> HIDE DEF x
  <2>6. /\ g \in [0 .. j -> Slots] /\ g[j] = x
        /\ \A i \in 0 .. (j - 1) : g[i] = h[i]
    BY <1>4, <2>3, <2>5
  <2> HIDE DEF g
  <2>7. g[0] = first
    BY <1>4, <2>2, <2>6 DEF Steps
  <2>8. \A i \in 1 .. j : g[i] = IF g[i - 1] = NULL THEN NULL ELSE next[g[i - 1]]
    <3> TAKE i \in 1 .. j
    <3>1. g[i - 1] = h[i - 1]
      BY <2>6
    <3>2. CASE i = j
      BY <2>6, <3>1, <3>2 DEF x
    <3>3. CASE i # j
      <4>1. i \in 1 .. (j - 1) /\ i \in 0 .. (j - 1)
        BY <3>3
      <4> QED
        BY <2>2, <2>6, <3>1, <4>1 DEF Steps
    <3> QED
      BY <3>2, <3>3
  <2>9. Steps(next, g, j, first)
    BY <2>6, <2>7, <2>8 DEF Steps
  <2> QED
    BY <1>2, <2>9
<1> QED
  BY <1>3, <1>4

LEMMA WalkSteps ==
    ASSUME td \in [Tds -> TdRecs], NEW first \in Slots
    PROVE  Steps(Nexts, WalkFrom(first), Cardinality(Tds), first)
<1> DEFINE N == Cardinality(Tds)
<1>1. Nexts \in [Tds -> Slots] /\ \A d \in Tds : Nexts[d] = td[d].next
  BY DEF Nexts, TdRecs
<1>2. PICK h : Steps(Nexts, h, N, first)
  BY <1>1, CountTds, StepsExist
<1>3. h = [n \in 0 .. N |-> IF n = 0 THEN first
                            ELSE IF h[n - 1] = NULL THEN NULL ELSE td[h[n - 1]].next]
  <2>1. ASSUME NEW n \in 0 .. N
        PROVE  h[n] = IF n = 0 THEN first
                      ELSE IF h[n - 1] = NULL THEN NULL ELSE td[h[n - 1]].next
    <3>1. CASE n = 0
      BY <1>2, <3>1 DEF Steps
    <3>2. CASE n # 0
      <4>1. n \in 1 .. N /\ n - 1 \in 0 .. N
        BY <2>1, <3>2, CountTds
      <4>2. h[n - 1] # NULL => h[n - 1] \in Tds
        BY <1>2, <4>1 DEF Steps, Slots
      <4> QED
        BY <1>1, <1>2, <3>2, <4>1, <4>2 DEF Steps
    <3> QED
      BY <3>1, <3>2
  <2> QED
    BY <1>2, <2>1 DEF Steps
<1> DEFINE IsWalk(at) == at = [n \in 0 .. N |->
                                 IF n = 0 THEN first
                                 ELSE IF at[n - 1] = NULL THEN NULL ELSE td[at[n - 1]].next]
<1>4. WalkFrom(first) = CHOOSE at : IsWalk(at)
  BY DEF WalkFrom
<1>5. IsWalk(WalkFrom(first))
  BY <1>3, <1>4
<1>6. PICK w : w = WalkFrom(first) /\ IsWalk(w)
  BY <1>5
<1> DEFINE val(at, n) == IF n = 0 THEN first
                         ELSE IF at[n - 1] = NULL THEN NULL ELSE td[at[n - 1]].next
<1>7. /\ w = [n \in 0 .. N |-> val(w, n)]
      /\ h = [n \in 0 .. N |-> val(h, n)]
  BY <1>3, <1>6
<1>8. \A n \in 0 .. N : n # 0 => n - 1 \in 0 .. N /\ n - 1 \in Nat
  BY CountTds
<1> HIDE DEF N
<1>9. \A n \in 0 .. N : w[n] = h[n]
  <2> DEFINE Wrong == {n \in 0 .. N : w[n] # h[n]}
  <2>1. SUFFICES ASSUME Wrong # {} PROVE FALSE
    OBVIOUS
  <2>2. Wrong \subseteq Nat
    OBVIOUS
  <2>3. PICK n \in Wrong : \A i \in Wrong : n <= i
    BY <2>1, <2>2, Rec!LeastNatural
  <2>4. w[n] = val(w, n) /\ h[n] = val(h, n)
    BY <1>7
  <2>5. n # 0 => w[n - 1] = h[n - 1]
    BY <1>8, <2>3
  <2> QED
    BY <2>4, <2>5
<1>10. w = h
  BY <1>7, <1>9
<1> QED
  BY <1>2, <1>6, <1>10 DEF N

\* A list of distinct structures is no longer than there are structures.
LEMMA ChainShort ==
    ASSUME NEW next, NEW n \in Nat, NEW f \in [1 .. n -> Tds], NEW first, NEW D,
           Chain(next, f, n, first, D)
    PROVE  n <= Cardinality(Tds)
<1>1. IsFiniteSet(1 .. n) /\ Cardinality(1 .. n) = n
  BY FS_Interval
<1>2. IsInjective(f)
  BY DEF Chain, IsInjective
<1>3. f \in Injection(1 .. n, Tds)
  BY <1>2 DEF Injection
<1> QED
  BY <1>1, <1>3, RegistryAssumption, FS_Injection

\* A walk along a list meets its structures in order, and then its end.
LEMMA ChainWalk ==
    ASSUME td \in [Tds -> TdRecs], NEW n \in Nat, NEW f \in [1 .. n -> Tds],
           NEW first \in Slots, NEW D, Chain(Nexts, f, n, first, D)
    PROVE  /\ DOMAIN WalkFrom(first) = 0 .. Cardinality(Tds)
           /\ \A i \in 0 .. Cardinality(Tds) :
                 WalkFrom(first)[i] = IF i < n THEN f[i + 1] ELSE NULL
<1>0. PICK N \in Nat : N = Cardinality(Tds)
  BY CountTds
<1>1. PICK w : w = WalkFrom(first) /\ Steps(Nexts, w, N, first)
  BY <1>0, WalkSteps
<1> DEFINE Wrong == {i \in 0 .. N : w[i] # IF i < n THEN f[i + 1] ELSE NULL}
<1>2. ASSUME Wrong # {} PROVE FALSE
  <2>1. PICK i \in Wrong : \A j \in Wrong : i <= j
    <3>1. Wrong \subseteq Nat
      OBVIOUS
    <3> QED
      BY <1>2, <3>1, Rec!LeastNatural
  <2>2. CASE i = 0
    BY <1>1, <2>2 DEF Steps, Chain
  <2>3. CASE i # 0
    <3>1. i \in 1 .. N /\ i - 1 \in 0 .. N /\ i - 1 \notin Wrong
      BY <2>1, <2>3
    <3>2. w[i - 1] = IF i - 1 < n THEN f[(i - 1) + 1] ELSE NULL
      BY <3>1
    <3>3. w[i] = IF w[i - 1] = NULL THEN NULL ELSE Nexts[w[i - 1]]
      BY <1>1, <3>1 DEF Steps
    <3>4. CASE i - 1 < n
      <4>1. i \in 1 .. n /\ w[i - 1] = f[i]
        BY <3>1, <3>2, <3>4
      <4>2. f[i] # NULL
        BY <4>1, RegistryAssumption
      <4>3. w[i] = IF i = n THEN NULL ELSE f[i + 1]
        BY <3>3, <4>1, <4>2 DEF Chain
      <4> QED
        BY <4>1, <4>3
    <3>5. CASE ~ (i - 1 < n)
      BY <3>1, <3>2, <3>3, <3>5
    <3> QED
      BY <3>4, <3>5
  <2> QED
    BY <2>2, <2>3
<1>3. DOMAIN w = 0 .. N
  BY <1>1 DEF Steps
<1>4. \A i \in 0 .. N : w[i] = IF i < n THEN f[i + 1] ELSE NULL
  BY <1>2
<1> QED
  BY <1>0, <1>1, <1>3, <1>4

\* So the walk meets exactly the structures of the list, and ends.
LEMMA ChainMet ==
    ASSUME td \in [Tds -> TdRecs], NEW first \in Slots, NEW D, IsList(Nexts, first, D)
    PROVE  /\ WalkFrom(first)[Cardinality(Tds)] = NULL
           /\ {WalkFrom(first)[i] : i \in DOMAIN WalkFrom(first)} \ {NULL} = D
<1>0. PICK n \in Nat : \E f \in [1 .. n -> Tds] : Chain(Nexts, f, n, first, D)
  BY DEF IsList
<1>1. PICK f \in [1 .. n -> Tds] : Chain(Nexts, f, n, first, D)
  BY <1>0
<1>8. PICK N \in Nat : N = Cardinality(Tds)
  BY CountTds
<1>2. PICK w : /\ w = WalkFrom(first)
               /\ DOMAIN w = 0 .. N
               /\ \A i \in 0 .. N : w[i] = IF i < n THEN f[i + 1] ELSE NULL
  BY <1>1, <1>8, ChainWalk
<1>3. n <= N
  BY <1>1, <1>8, ChainShort
<1>4. w[N] = NULL
  BY <1>2, <1>3
<1>5. ASSUME NEW d \in D PROVE d # NULL /\ \E i \in 0 .. N : w[i] = d
  <2>1. PICK i \in 1 .. n : d = f[i]
    BY <1>1 DEF Chain
  <2>2. i - 1 \in 0 .. N /\ i - 1 < n /\ (i - 1) + 1 = i
    BY <1>3
  <2> QED
    BY <1>2, <2>1, <2>2, RegistryAssumption
<1>6. ASSUME NEW i \in 0 .. N, w[i] # NULL PROVE w[i] \in D
  <2>1. i < n /\ w[i] = f[i + 1]
    BY <1>2, <1>6
  <2>2. i + 1 \in 1 .. n
    BY <2>1
  <2> QED
    BY <1>1, <2>1, <2>2 DEF Chain
<1>7. {w[i] : i \in DOMAIN w} \ {NULL} = D
  BY <1>2, <1>5, <1>6
<1> QED
  BY <1>2, <1>4, <1>7, <1>8

-----------------------------------------------------------------------------
(***************************************************************************)
(* The pools.                                                              *)
(***************************************************************************)
LEMMA PoolTaken ==
    ASSUME NEW S, NEW s \in Seq(S), s # <<>>, Distinct(s)
    PROVE  /\ Head(s) \in S /\ Head(s) \in InSeq(s)
           /\ Tail(s) \in Seq(S) /\ Distinct(Tail(s))
           /\ InSeq(Tail(s)) = InSeq(s) \ {Head(s)}
<1>1. PICK n \in Nat : n = Len(s) /\ DOMAIN s = 1 .. n /\ n > 0
  BY LenProperties, EmptySeq
<1>2. /\ Tail(s) \in Seq(S) /\ Len(Tail(s)) = n - 1 /\ DOMAIN Tail(s) = 1 .. (n - 1)
      /\ \A i \in 1 .. (n - 1) : Tail(s)[i] = s[i + 1]
      /\ Head(s) = s[1] /\ 1 \in 1 .. n /\ s[1] \in S
  BY <1>1, HeadTailProperties
<1>3. \A i \in 1 .. (n - 1) : i + 1 \in 1 .. n /\ i + 1 # 1
  BY <1>1
<1>4. Distinct(Tail(s))
  BY <1>1, <1>2, <1>3 DEF Distinct
<1>5. ASSUME NEW x \in InSeq(Tail(s)) PROVE x \in InSeq(s) \ {Head(s)}
  BY <1>1, <1>2, <1>3 DEF InSeq, Distinct
<1>6. ASSUME NEW x \in InSeq(s) \ {Head(s)} PROVE x \in InSeq(Tail(s))
  <2>1. PICK i \in 1 .. n : x = s[i]
    BY <1>1 DEF InSeq
  <2>2. i - 1 \in 1 .. (n - 1) /\ (i - 1) + 1 = i
    BY <1>2, <2>1
  <2> QED
    BY <1>2, <2>1, <2>2 DEF InSeq
<1> QED
  BY <1>1, <1>2, <1>4, <1>5, <1>6 DEF InSeq

LEMMA PoolJoined ==
    ASSUME NEW S, NEW s \in Seq(S), NEW t \in Seq(S), Distinct(s), Distinct(t),
           InSeq(s) \cap InSeq(t) = {}
    PROVE  t \o s \in Seq(S) /\ Distinct(t \o s) /\ InSeq(t \o s) = InSeq(t) \cup InSeq(s)
<1>1. PICK n \in Nat : n = Len(s) /\ DOMAIN s = 1 .. n
  BY LenProperties
<1>2. PICK m \in Nat : m = Len(t) /\ DOMAIN t = 1 .. m
  BY LenProperties
<1>3. PICK u \in Seq(S) : u = t \o s
  BY ConcatProperties
<1>4. /\ DOMAIN u = 1 .. (m + n)
      /\ \A i \in 1 .. m : i \in 1 .. (m + n) /\ u[i] = t[i]
      /\ \A i \in 1 .. n : m + i \in 1 .. (m + n) /\ u[m + i] = s[i]
  <2>1. Len(u) = m + n /\ \A i \in 1 .. Len(u) : u[i] = IF i <= m THEN t[i] ELSE s[i - m]
    BY <1>1, <1>2, <1>3, ConcatProperties
  <2>2. DOMAIN u = 1 .. (m + n)
    BY <1>3, <2>1, LenProperties
  <2>3. ASSUME NEW i \in 1 .. n PROVE m + i \in 1 .. (m + n) /\ u[m + i] = s[i]
    <3>1. m + i \in 1 .. (m + n) /\ ~ (m + i <= m) /\ (m + i) - m = i
      OBVIOUS
    <3> QED
      BY <2>1, <3>1
  <2>4. ASSUME NEW i \in 1 .. m PROVE i \in 1 .. (m + n) /\ u[i] = t[i]
    BY <2>1
  <2> QED
    BY <2>2, <2>3, <2>4
<1>5. \A i \in 1 .. (m + n) : i \in 1 .. m \/ \E j \in 1 .. n : i = m + j
  <2> TAKE i \in 1 .. (m + n)
  <2>1. CASE i > m
    <3>1. i - m \in 1 .. n /\ i = m + (i - m)
      BY <2>1
    <3> QED
      BY <3>1
  <2> QED
    BY <2>1
<1>6. \A i \in 1 .. m, j \in 1 .. n : t[i] # s[j]
  BY <1>1, <1>2 DEF InSeq
<1>7. Distinct(u)
  <2> SUFFICES ASSUME NEW i \in 1 .. (m + n), NEW j \in 1 .. (m + n), u[i] = u[j] PROVE i = j
    BY <1>4 DEF Distinct
  <2>1. CASE i \in 1 .. m /\ j \in 1 .. m
    BY <1>2, <1>4, <2>1 DEF Distinct
  <2>2. ASSUME NEW k \in 1 .. n, i = m + k, NEW l \in 1 .. n, j = m + l PROVE i = j
    <3>1. s[k] = s[l]
      BY <1>4, <2>2
    <3>2. k = l
      BY <1>1, <3>1 DEF Distinct
    <3> QED
      BY <2>2, <3>2
  <2>3. ASSUME i \in 1 .. m, NEW l \in 1 .. n, j = m + l PROVE FALSE
    <3>1. u[i] = t[i] /\ u[j] = s[l]
      BY <1>4, <2>3
    <3> QED
      BY <1>6, <2>3, <3>1
  <2>4. ASSUME j \in 1 .. m, NEW l \in 1 .. n, i = m + l PROVE FALSE
    <3>1. u[j] = t[j] /\ u[i] = s[l]
      BY <1>4, <2>4
    <3> QED
      BY <1>6, <2>4, <3>1
  <2> QED
    BY <1>5, <2>1, <2>2, <2>3, <2>4
<1>8. ASSUME NEW x \in InSeq(u) PROVE x \in InSeq(t) \cup InSeq(s)
  <2>1. PICK i \in 1 .. (m + n) : x = u[i]
    BY <1>4 DEF InSeq
  <2>2. CASE i \in 1 .. m
    BY <1>2, <1>4, <2>1, <2>2 DEF InSeq
  <2>3. ASSUME NEW l \in 1 .. n, i = m + l PROVE x \in InSeq(s)
    <3>1. x = s[l]
      BY <1>4, <2>1, <2>3
    <3> QED
      BY <1>1, <3>1 DEF InSeq
  <2> QED
    BY <1>5, <2>2, <2>3
<1>9. ASSUME NEW x \in InSeq(t) \cup InSeq(s) PROVE x \in InSeq(u)
  <2>1. ASSUME NEW i \in 1 .. m, x = t[i] PROVE x \in InSeq(u)
    BY <1>4, <2>1 DEF InSeq
  <2>2. ASSUME NEW i \in 1 .. n, x = s[i] PROVE x \in InSeq(u)
    BY <1>4, <2>2 DEF InSeq
  <2> QED
    BY <1>1, <1>2, <2>1, <2>2 DEF InSeq
<1> QED
  BY <1>3, <1>7, <1>8, <1>9

LEMMA PoolGiven ==
    ASSUME NEW S, NEW s \in Seq(S), NEW x \in S, Distinct(s), x \notin InSeq(s)
    PROVE  /\ <<x>> \o s \in Seq(S) /\ Distinct(<<x>> \o s)
           /\ InSeq(<<x>> \o s) = InSeq(s) \cup {x}
<1>1. /\ <<x>> \in Seq(S) /\ DOMAIN <<x>> = {1} /\ <<x>>[1] = x
  OBVIOUS
<1>2. Distinct(<<x>>) /\ InSeq(<<x>>) = {x}
  BY <1>1 DEF Distinct, InSeq
<1>3. PICK t \in Seq(S) : t = <<x>> /\ Distinct(t) /\ InSeq(t) = {x}
  BY <1>1, <1>2
<1>4. t \o s \in Seq(S) /\ Distinct(t \o s) /\ InSeq(t \o s) = InSeq(t) \cup InSeq(s)
  <2>1. InSeq(s) \cap InSeq(t) = {}
    BY <1>3
  <2> QED
    BY <1>3, <2>1, PoolJoined
<1> QED
  BY <1>3, <1>4

-----------------------------------------------------------------------------
(***************************************************************************)
(* What the actions do to the structures: one of them changes.             *)
(***************************************************************************)
TdFields(x, next, self, stack, ours, count) ==
    /\ x \in TdRecs
    /\ x.next = next /\ x.self = self /\ x.stack = stack /\ x.ours = ours
    /\ x.ref_count = count

LEMMA TdFieldsSet ==
    ASSUME NEW y \in TdRecs
    PROVE  /\ \A v \in Slots :
                 TdFields([y EXCEPT !.next = v], v, y.self, y.stack, y.ours, y.ref_count)
           /\ \A v \in Callers :
                 TdFields([y EXCEPT !.self = v], y.next, v, y.stack, y.ours, y.ref_count)
           /\ \A v \in Int :
                 TdFields([y EXCEPT !.stack = v], y.next, y.self, v, y.ours, y.ref_count)
           /\ \A v \in BOOLEAN :
                 TdFields([y EXCEPT !.ours = v], y.next, y.self, y.stack, v, y.ref_count)
           /\ \A v \in Int :
                 TdFields([y EXCEPT !.ref_count = v], y.next, y.self, y.stack, y.ours, v)
BY DEF TdFields, TdRecs

\* The structure d becomes x; the others stay.
TdSet(d, x) ==
    /\ td' \in [Tds -> TdRecs] /\ td'[d] = x
    /\ \A e \in Tds : e # d => td'[e] = td[e]

LEMMA TdSetBy ==
    ASSUME RegTypeOK, NEW d \in Tds, NEW x \in TdRecs, td' = [td EXCEPT ![d] = x]
    PROVE  TdSet(d, x)
BY DEF TdSet, RegTypeOK

LEMMA NewTdSet ==
    ASSUME RegTypeOK, NEW d \in Tds, NEW ours \in BOOLEAN,
           td' = [td EXCEPT ![d].ref_count = 1, ![d].ours = @ /\ ours]
    PROVE  \E x : /\ TdFields(x, td[d].next, td[d].self, td[d].stack, td[d].ours /\ ours, 1)
                  /\ TdSet(d, x)
<1>1. PICK y \in TdRecs : y = td[d]
  BY DEF RegTypeOK
<1>2. PICK b \in BOOLEAN : b = (td[d].ours /\ ours)
  BY <1>1 DEF TdRecs
<1> DEFINE z == [y EXCEPT !.ref_count = 1]
           x == [z EXCEPT !.ours = b]
<1>3. TdFields(z, y.next, y.self, y.stack, y.ours, 1)
  BY <1>1, TdFieldsSet
<1>4. z \in TdRecs /\ z.ours = y.ours
  BY <1>3 DEF TdFields
<1>5. td' = [td EXCEPT ![d] = x]
  BY <1>1, <1>2, <1>4 DEF RegTypeOK
<1> HIDE DEF z
<1>6. TdFields(x, z.next, z.self, z.stack, b, z.ref_count)
  BY <1>2, <1>4, TdFieldsSet
<1> HIDE DEF x
<1>7. TdFields(x, y.next, y.self, y.stack, b, 1)
  BY <1>3, <1>6 DEF TdFields
<1>8. x \in TdRecs
  BY <1>7 DEF TdFields
<1> QED
  BY <1>1, <1>2, <1>5, <1>7, <1>8, TdSetBy

LEMMA StackTdSet ==
    ASSUME RegTypeOK, NEW d \in Tds, NEW v \in Int,
           td' = [td EXCEPT ![d].stack = v, ![d].ours = TRUE]
    PROVE  \E x : /\ TdFields(x, td[d].next, td[d].self, v, TRUE, td[d].ref_count)
                  /\ TdSet(d, x)
<1>1. PICK y \in TdRecs : y = td[d]
  BY DEF RegTypeOK
<1> DEFINE z == [y EXCEPT !.stack = v]
           x == [z EXCEPT !.ours = TRUE]
<1>3. TdFields(z, y.next, y.self, v, y.ours, y.ref_count)
  BY <1>1, TdFieldsSet
<1>4. z \in TdRecs
  BY <1>3 DEF TdFields
<1>5. td' = [td EXCEPT ![d] = x]
  BY <1>1 DEF RegTypeOK
<1> HIDE DEF z
<1>6. TdFields(x, z.next, z.self, z.stack, TRUE, z.ref_count)
  BY <1>4, TdFieldsSet
<1> HIDE DEF x
<1>7. TdFields(x, y.next, y.self, v, TRUE, y.ref_count)
  BY <1>3, <1>6 DEF TdFields
<1>8. x \in TdRecs
  BY <1>7 DEF TdFields
<1> QED
  BY <1>1, <1>5, <1>7, <1>8, TdSetBy

LEMMA NextTdSet ==
    ASSUME RegTypeOK, NEW d \in Tds, NEW v \in Slots, td' = [td EXCEPT ![d].next = v]
    PROVE  \E x : /\ TdFields(x, v, td[d].self, td[d].stack, td[d].ours, td[d].ref_count)
                  /\ TdSet(d, x)
<1>1. PICK y \in TdRecs : y = td[d]
  BY DEF RegTypeOK
<1> DEFINE x == [y EXCEPT !.next = v]
<1>3. TdFields(x, v, y.self, y.stack, y.ours, y.ref_count)
  BY <1>1, TdFieldsSet
<1>5. td' = [td EXCEPT ![d] = x]
  BY <1>1 DEF RegTypeOK
<1> HIDE DEF x
<1>8. x \in TdRecs
  BY <1>3 DEF TdFields
<1> QED
  BY <1>1, <1>3, <1>5, <1>8, TdSetBy

LEMMA SelfTdSet ==
    ASSUME RegTypeOK, NEW d \in Tds, NEW v \in Callers, td' = [td EXCEPT ![d].self = v]
    PROVE  \E x : /\ TdFields(x, td[d].next, v, td[d].stack, td[d].ours, td[d].ref_count)
                  /\ TdSet(d, x)
<1>1. PICK y \in TdRecs : y = td[d]
  BY DEF RegTypeOK
<1> DEFINE x == [y EXCEPT !.self = v]
<1>3. TdFields(x, y.next, v, y.stack, y.ours, y.ref_count)
  BY <1>1, TdFieldsSet
<1>5. td' = [td EXCEPT ![d] = x]
  BY <1>1 DEF RegTypeOK
<1> HIDE DEF x
<1>8. x \in TdRecs
  BY <1>3 DEF TdFields
<1> QED
  BY <1>1, <1>3, <1>5, <1>8, TdSetBy

LEMMA LeaveTdSet ==
    ASSUME RegTypeOK, NEW d \in Tds, NEW v \in Slots,
           td' = [td EXCEPT ![d].ref_count = @ - 1, ![d].next = v]
    PROVE  \E x : /\ TdFields(x, v, td[d].self, td[d].stack, td[d].ours, td[d].ref_count - 1)
                  /\ TdSet(d, x)
<1>1. PICK y \in TdRecs : y = td[d]
  BY DEF RegTypeOK
<1>2. PICK k \in Int : k = y.ref_count - 1
  BY <1>1 DEF TdRecs
<1> DEFINE z == [y EXCEPT !.ref_count = k]
           x == [z EXCEPT !.next = v]
<1>3. TdFields(z, y.next, y.self, y.stack, y.ours, k)
  BY <1>1, <1>2, TdFieldsSet
<1>4. z \in TdRecs
  BY <1>3 DEF TdFields
<1>5. td' = [td EXCEPT ![d] = x]
  BY <1>1, <1>2 DEF RegTypeOK
<1> HIDE DEF z
<1>6. TdFields(x, v, z.self, z.stack, z.ours, z.ref_count)
  BY <1>4, TdFieldsSet
<1> HIDE DEF x
<1>7. TdFields(x, v, y.self, y.stack, y.ours, k)
  BY <1>3, <1>6 DEF TdFields
<1>8. x \in TdRecs
  BY <1>7 DEF TdFields
<1> QED
  BY <1>1, <1>2, <1>5, <1>7, <1>8, TdSetBy

-----------------------------------------------------------------------------
(***************************************************************************)
(* What the actions do to the calls and to the threads.                    *)
(***************************************************************************)
CallSet(c, p, d) ==
    /\ call' \in [Callers -> CallRecs] /\ call'[c].pc = p /\ call'[c].td = d
    /\ \A b \in Callers : b # c => call'[b] = call[b]

ThreadSet(t, p, d) ==
    /\ thread' \in [Workers -> ThreadRecs] /\ thread'[t].pc = p /\ thread'[t].td = d
    /\ \A u \in Workers : u # t => thread'[u] = thread[u]

LEMMA CallSetTo ==
    ASSUME RegTypeOK, NEW c \in Callers, NEW p, NEW d \in Slots,
           p \in {"idle", "stack", "map", "add", "orig", "free"},
           call' = [call EXCEPT ![c] = [pc |-> p, td |-> d]]
    PROVE  CallSet(c, p, d)
BY DEF CallSet, RegTypeOK, CallRecs

LEMMA CallSetPc ==
    ASSUME RegTypeOK, NEW c \in Callers, NEW p,
           p \in {"idle", "stack", "map", "add", "orig", "free"},
           call' = [call EXCEPT ![c].pc = p]
    PROVE  CallSet(c, p, call[c].td)
<1>1. PICK y \in CallRecs : y = call[c]
  BY DEF RegTypeOK
<1> DEFINE x == [y EXCEPT !.pc = p]
<1>2. x \in CallRecs /\ x.pc = p /\ x.td = y.td
  BY DEF CallRecs
<1>3. call' = [call EXCEPT ![c] = x]
  BY <1>1
<1> HIDE DEF x
<1> QED
  BY <1>1, <1>2, <1>3 DEF CallSet, RegTypeOK

LEMMA ThreadSetTo ==
    ASSUME RegTypeOK, NEW t \in Workers, NEW p, NEW d \in Slots,
           p \in {"none", "ready", "active", "unlisted", "staged", "ended"},
           thread' = [thread EXCEPT ![t] = [pc |-> p, td |-> d]]
    PROVE  ThreadSet(t, p, d)
BY DEF ThreadSet, RegTypeOK, ThreadRecs

LEMMA ThreadSetPc ==
    ASSUME RegTypeOK, NEW t \in Workers, NEW p,
           p \in {"none", "ready", "active", "unlisted", "staged", "ended"},
           thread' = [thread EXCEPT ![t].pc = p]
    PROVE  ThreadSet(t, p, thread[t].td)
<1>1. PICK y \in ThreadRecs : y = thread[t]
  BY DEF RegTypeOK
<1> DEFINE x == [y EXCEPT !.pc = p]
<1>2. x \in ThreadRecs /\ x.pc = p /\ x.td = y.td
  BY DEF ThreadRecs
<1>3. thread' = [thread EXCEPT ![t] = x]
  BY <1>1
<1> HIDE DEF x
<1> QED
  BY <1>1, <1>2, <1>3 DEF ThreadSet, RegTypeOK

-----------------------------------------------------------------------------
(***************************************************************************)
(* The steps of the registry.                                              *)
(***************************************************************************)
RegInv == RegTypeOK /\ OwnerInv /\ FieldInv /\ StagedInv /\ ListInv

LEMMA Alone ==
    ASSUME RegTypeOK
    PROVE  /\ \A d \in Tds : Nexts[d] = td[d].next
           /\ OfThreads({"staged", "ended"}) \subseteq Tds
           /\ OfThreads({"ready", "active"}) \subseteq Tds
           /\ Awaited \subseteq Tds /\ Members \subseteq Tds
BY RegistryAssumption DEF Nexts, RegTypeOK, OfThreads, Awaited, Members, Alive, Busy

\* The next pointers of the two lists are left alone.
LEMMA StagedKept ==
    ASSUME RegTypeOK, RegTypeOK', StagedInv, UNCHANGED staged,
           OfThreads({"staged", "ended"})' = OfThreads({"staged", "ended"}),
           \A d \in OfThreads({"staged", "ended"}) : td'[d].next = td[d].next
    PROVE  StagedInv'
<1> DEFINE D == OfThreads({"staged", "ended"})
<1>1. \A d \in Tds : Nexts[d] = td[d].next /\ Nexts'[d] = td'[d].next
  BY DEF Nexts
<1>2. D \subseteq Tds
  BY Alone
<1>3. \A d \in D : Nexts'[d] = Nexts[d]
  BY <1>1, <1>2
<1>4. IsList(Nexts, staged, D)
  BY DEF StagedInv
<1>5. IsList(Nexts', staged, D)
  BY <1>3, <1>4, ListKept
<1> QED
  BY <1>5 DEF StagedInv

LEMMA MembersKept ==
    ASSUME RegTypeOK, RegTypeOK', ListInv, UNCHANGED <<head, failed>>, Members' = Members,
           ~failed => \A d \in Members : td'[d].next = td[d].next
    PROVE  ListInv'
<1> SUFFICES ASSUME ~failed PROVE ListInv'
  BY DEF ListInv
<1>1. \A d \in Tds : Nexts[d] = td[d].next /\ Nexts'[d] = td'[d].next
  BY DEF Nexts
<1>2. \A d \in Members : Nexts'[d] = Nexts[d]
  BY <1>1, Alone
<1>4. IsList(Nexts, head, Members)
  BY DEF ListInv
<1>5. IsList(Nexts', head, Members)
  BY <1>2, <1>4, ListKept
<1> QED
  BY <1>5 DEF ListInv

LEMMA NewEffect ==
    ASSUME RegTypeOK, OwnerInv, NEW c \in Callers, NEW ours \in BOOLEAN, ThreadDataNew(c, ours)
    PROVE  \E d \in Tds, x \in TdRecs :
              /\ call[c].pc = "idle" /\ d \in InSeq(threaddata_pool)
              /\ threaddata_pool' \in Seq(Tds) /\ Distinct(threaddata_pool')
              /\ InSeq(threaddata_pool') = InSeq(threaddata_pool) \ {d}
              /\ CallSet(c, IF ours THEN "stack" ELSE "add", d)
              /\ TdFields(x, td[d].next, td[d].self, td[d].stack, td[d].ours /\ ours, 1)
              /\ TdSet(d, x)
              /\ UNCHANGED <<head, staged, stack_pool, thread, failed>>
<1>1. PICK d : d = Head(threaddata_pool)
  OBVIOUS
<1>2. /\ d \in Tds /\ d \in InSeq(threaddata_pool)
      /\ threaddata_pool' \in Seq(Tds) /\ Distinct(threaddata_pool')
      /\ InSeq(threaddata_pool') = InSeq(threaddata_pool) \ {d}
  BY <1>1, PoolTaken DEF RegTypeOK, OwnerInv, ThreadDataNew
<1>3. PICK p : p = IF ours THEN "stack" ELSE "add"
  OBVIOUS
<1>4. CallSet(c, p, d)
  <2>1. call' = [call EXCEPT ![c] = [pc |-> p, td |-> d]]
    BY <1>1, <1>3 DEF ThreadDataNew
  <2>2. d \in Slots /\ p \in {"idle", "stack", "map", "add", "orig", "free"}
    BY <1>2, <1>3 DEF Slots
  <2> QED
    BY <2>1, <2>2, CallSetTo
<1>5. PICK x : /\ TdFields(x, td[d].next, td[d].self, td[d].stack, td[d].ours /\ ours, 1)
               /\ TdSet(d, x)
  BY <1>1, <1>2, NewTdSet DEF ThreadDataNew
<1>6. x \in TdRecs
  BY <1>5 DEF TdFields
<1>7. call[c].pc = "idle" /\ UNCHANGED <<head, staged, stack_pool, thread, failed>>
  BY DEF ThreadDataNew, MayCall
<1> QED
  BY <1>2, <1>3, <1>4, <1>5, <1>6, <1>7

LEMMA NewStep ==
    ASSUME RegInv, NEW c \in Callers, NEW ours \in BOOLEAN, ThreadDataNew(c, ours)
    PROVE  RegInv'
<1> USE DEF RegInv
<1>1. PICK d \in Tds, x \in TdRecs :
              /\ call[c].pc = "idle" /\ d \in InSeq(threaddata_pool)
              /\ threaddata_pool' \in Seq(Tds) /\ Distinct(threaddata_pool')
              /\ InSeq(threaddata_pool') = InSeq(threaddata_pool) \ {d}
              /\ CallSet(c, IF ours THEN "stack" ELSE "add", d)
              /\ TdFields(x, td[d].next, td[d].self, td[d].stack, td[d].ours /\ ours, 1)
              /\ TdSet(d, x)
              /\ UNCHANGED <<head, staged, stack_pool, thread, failed>>
  BY NewEffect
<1>2. RegTypeOK'
  BY <1>1 DEF RegTypeOK, CallSet, TdSet, Alive, Busy
<1>3. OwnerInv'
  <2>1. \A b \in Callers : /\ b # c => (Busy(b)' <=> Busy(b)) /\ call'[b].td = call[b].td
                           /\ b = c => ~ Busy(b) /\ Busy(b)' /\ call'[b].td = d
    BY <1>1 DEF CallSet, Busy
  <2> QED
    BY <1>1, <2>1 DEF OwnerInv, Alive
<1>4. FieldInv'
  <2>1. /\ \A b \in Callers : b # c /\ Busy(b) => call[b].td \in Tds \ {d}
        /\ \A t \in Workers : Alive(t) => thread[t].td \in Tds \ {d}
        /\ MainTd \in Tds \ {d}
    BY <1>1, RegistryAssumption DEF OwnerInv, RegTypeOK
  <2>2. \A b \in Callers : (call[b].pc \in {"stack", "map", "add", "orig"})' =>
           (td[call[b].td].ref_count = 1)'
    BY <1>1, <2>1 DEF FieldInv, CallSet, TdSet, TdFields, Busy
  <2>3. \A t \in Workers : Alive(t) => td'[thread'[t].td] = td[thread[t].td]
    BY <1>1, <2>1 DEF TdSet
  <2>4. ~ td'[MainTd].ours
    BY <1>1, <2>1 DEF TdSet, FieldInv
  <2> QED
    BY <1>1, <2>2, <2>3, <2>4 DEF FieldInv, Alive
<1>5. StagedInv'
  <2>1. OfThreads({"staged", "ended"})' = OfThreads({"staged", "ended"})
    BY <1>1 DEF OfThreads
  <2>2. \A e \in OfThreads({"staged", "ended"}) : td'[e].next = td[e].next
    BY <1>1, Alone DEF TdSet, TdFields
  <2> QED
    BY <1>1, <1>2, <2>1, <2>2, StagedKept
<1>6. ListInv'
  <2>1. Members' = Members
    BY <1>1 DEF Members, Awaited, OfThreads, CallSet
  <2>2. \A e \in Members : td'[e].next = td[e].next
    BY <1>1, Alone DEF TdSet, TdFields
  <2> QED
    BY <1>1, <1>2, <2>1, <2>2, MembersKept
<1> QED
  BY <1>2, <1>3, <1>4, <1>5, <1>6

\* No structure changes hands.
LEMMA OwnerKept ==
    ASSUME OwnerInv, UNCHANGED threaddata_pool,
           \A c \in Callers : /\ Busy(c)' <=> Busy(c)
                              /\ Busy(c) => call'[c].td = call[c].td,
           \A t \in Workers : /\ Alive(t)' <=> Alive(t)
                              /\ Alive(t) => thread'[t].td = thread[t].td
    PROVE  OwnerInv'
BY DEF OwnerInv

\* References, self and the initial thread's structure are left alone.
LEMMA FieldKept ==
    ASSUME RegTypeOK, FieldInv,
           \A e \in Tds : td'[e].ref_count = td[e].ref_count /\ td'[e].self = td[e].self,
           td'[MainTd].ours = td[MainTd].ours,
           \A c \in Callers : call'[c].pc \in {"stack", "map", "add", "orig"} =>
              call[c].pc \in {"stack", "map", "add", "orig"} /\ call'[c].td = call[c].td,
           \A t \in Workers : Alive(t)' =>
              /\ thread'[t].td = thread[t].td /\ Alive(t)
              /\ thread'[t].pc \in {"ready", "active", "unlisted"} =>
                    thread[t].pc \in {"ready", "active", "unlisted"}
              /\ thread'[t].pc \in {"active", "unlisted", "staged", "ended"} =>
                    thread[t].pc \in {"active", "unlisted", "staged", "ended"}
    PROVE  FieldInv'
<1>1. \A c \in Callers : (call[c].pc \in {"stack", "map", "add", "orig"})' =>
         (td[call[c].td].ref_count = 1)'
  <2> SUFFICES ASSUME NEW c \in Callers, call'[c].pc \in {"stack", "map", "add", "orig"}
               PROVE  td'[call'[c].td].ref_count = 1
    OBVIOUS
  <2>1. call[c].pc \in {"stack", "map", "add", "orig"} /\ call'[c].td = call[c].td
    OBVIOUS
  <2>2. call[c].td \in Tds
    BY <2>1 DEF RegTypeOK, Busy
  <2> QED
    BY <2>1, <2>2 DEF FieldInv
<1>2. \A t \in Workers : (thread[t].pc \in {"ready", "active", "unlisted"})' =>
         (td[thread[t].td].ref_count = 1)'
  BY DEF FieldInv, RegTypeOK, Alive
<1>3. \A t \in Workers : (thread[t].pc \in {"active", "unlisted", "staged", "ended"})' =>
         (td[thread[t].td].self = t)'
  BY DEF FieldInv, RegTypeOK, Alive
<1> QED
  BY <1>1, <1>2, <1>3 DEF FieldInv

\* The stack of a structure that is being created is chosen, or is to be mapped.
LEMMA StackStep ==
    ASSUME RegInv, NEW c \in Callers, call[c].pc \in {"stack", "map"},
           NEW p \in {"map", "add"}, CallSet(c, p, call[c].td), stack_pool' \in Seq(Int),
           UNCHANGED <<head, staged, threaddata_pool, thread, failed>>,
           \/ UNCHANGED td
           \/ \E x, v : LET d == call[c].td IN
                 /\ TdFields(x, td[d].next, td[d].self, v, TRUE, td[d].ref_count)
                 /\ TdSet(d, x)
    PROVE  RegInv'
<1> USE DEF RegInv
<1>1. PICK d \in Tds : d = call[c].td /\ d # MainTd
  BY DEF RegTypeOK, OwnerInv, Busy
<1>2. /\ td' \in [Tds -> TdRecs]
      /\ \A e \in Tds : /\ td'[e].next = td[e].next /\ td'[e].self = td[e].self
                        /\ td'[e].ref_count = td[e].ref_count
                        /\ e # d => td'[e] = td[e]
  BY <1>1 DEF TdFields, TdSet, RegTypeOK
<1>3. \A b \in Callers : /\ Busy(b)' <=> Busy(b)
                         /\ call'[b].td = call[b].td
                         /\ b # c => call'[b].pc = call[b].pc
  BY DEF CallSet, Busy
<1>4. RegTypeOK'
  BY <1>2, <1>3 DEF RegTypeOK, CallSet, Alive
<1>5. OwnerInv'
  BY <1>3, OwnerKept DEF Alive
<1>6. FieldInv'
  <2>1. MainTd \in Tds
    BY RegistryAssumption
  <2>2. td'[MainTd].ours = td[MainTd].ours
    BY <1>1, <1>2, <2>1
  <2>3. \A b \in Callers : call'[b].pc \in {"stack", "map", "add", "orig"} =>
           call[b].pc \in {"stack", "map", "add", "orig"} /\ call'[b].td = call[b].td
    BY <1>3
  <2> QED
    BY <1>2, <2>2, <2>3, FieldKept DEF Alive
<1>7. StagedInv'
  <2>1. OfThreads({"staged", "ended"})' = OfThreads({"staged", "ended"})
    BY DEF OfThreads
  <2> QED
    BY <1>2, <1>4, <2>1, Alone, StagedKept
<1>8. ListInv'
  <2>1. Members' = Members
    BY <1>3 DEF Members, Awaited, OfThreads, CallSet
  <2> QED
    BY <1>2, <1>4, <2>1, Alone, MembersKept
<1> QED
  BY <1>4, <1>5, <1>6, <1>7, <1>8

LEMMA AddStep ==
    ASSUME RegInv, NEW c \in Callers, ListAdd(c)
    PROVE  RegInv'
<1> USE DEF RegInv
<1>1. PICK d \in Tds : d = call[c].td /\ d # MainTd /\ call[c].pc = "add"
  BY DEF RegTypeOK, OwnerInv, Busy, ListAdd
<1>2. CallSet(c, "orig", d)
  BY <1>1, CallSetPc DEF ListAdd
<1>3. PICK x : /\ TdFields(x, head, td[d].self, td[d].stack, td[d].ours, td[d].ref_count)
               /\ TdSet(d, x)
  BY <1>1, NextTdSet DEF ListAdd, RegTypeOK
<1>4. UNCHANGED <<staged, threaddata_pool, stack_pool, thread, failed>> /\ head' = d
  BY <1>1 DEF ListAdd
<1>5. /\ td' \in [Tds -> TdRecs] /\ td'[d].next = head
      /\ \A e \in Tds : /\ td'[e].self = td[e].self /\ td'[e].ref_count = td[e].ref_count
                        /\ td'[e].ours = td[e].ours
                        /\ e # d => td'[e] = td[e]
  BY <1>3 DEF TdFields, TdSet
<1>6. \A b \in Callers : /\ Busy(b)' <=> Busy(b)
                         /\ call'[b].td = call[b].td
                         /\ b # c => call'[b].pc = call[b].pc
  BY <1>1, <1>2 DEF CallSet, Busy
<1>7. RegTypeOK'
  BY <1>1, <1>2, <1>4, <1>5, <1>6 DEF RegTypeOK, CallSet, Alive, Slots
<1>8. OwnerInv'
  BY <1>4, <1>6, OwnerKept DEF Alive
<1>9. FieldInv'
  <2>1. \A b \in Callers : call'[b].pc \in {"stack", "map", "add", "orig"} =>
           call[b].pc \in {"stack", "map", "add", "orig"} /\ call'[b].td = call[b].td
    BY <1>1, <1>6
  <2> QED
    BY <1>4, <1>5, <2>1, FieldKept, RegistryAssumption DEF Alive
<1>10. \A t \in Workers : Alive(t) => thread[t].td # d
  BY <1>1 DEF OwnerInv, Busy
<1>11. StagedInv'
  <2>1. OfThreads({"staged", "ended"})' = OfThreads({"staged", "ended"})
    BY <1>4 DEF OfThreads
  <2>2. d \notin OfThreads({"staged", "ended"})
    BY <1>10 DEF OfThreads, Alive
  <2> QED
    BY <1>4, <1>5, <1>7, <2>1, <2>2, Alone, StagedKept
<1>12. ListInv'
  <2> SUFFICES ASSUME ~failed PROVE IsList(Nexts', head', Members')
    BY <1>4 DEF ListInv
  <2>1. Members' = Members \cup {d}
    <3>1. Awaited' = Awaited \cup {d}
      BY <1>1, <1>2, <1>6 DEF Awaited, CallSet
    <3> QED
      BY <1>4, <3>1 DEF Members, OfThreads
  <2>2. d \notin Members
    <3>1. d \notin Awaited
      BY <1>1 DEF OwnerInv, Awaited, Busy
    <3> QED
      BY <1>1, <1>10, <3>1 DEF Members, OfThreads, Alive
  <2>3. \A e \in Tds : Nexts[e] = td[e].next /\ Nexts'[e] = td'[e].next
    BY DEF Nexts
  <2>4. Nexts'[d] = head /\ \A e \in Members : Nexts'[e] = Nexts[e]
    BY <1>5, <2>2, <2>3, Alone
  <2>5. IsList(Nexts', d, Members \cup {d})
    BY <2>2, <2>4, ListPushed DEF ListInv
  <2> QED
    BY <1>4, <2>1, <2>5
<1> QED
  BY <1>7, <1>8, <1>9, <1>11, <1>12

\* The structure goes from the call to the thread.
LEMMA CreateStep ==
    ASSUME RegInv, NEW c \in Callers, NEW t \in Workers, OrigCreate(c, t)
    PROVE  RegInv'
<1> USE DEF RegInv
<1>1. PICK d \in Tds : d = call[c].td /\ call[c].pc = "orig" /\ thread[t].pc = "none"
  BY DEF RegTypeOK, Busy, OrigCreate
<1>2. CallSet(c, "idle", NULL)
  BY CallSetTo DEF OrigCreate, NoCall, Slots
<1>3. ThreadSet(t, "ready", d)
  BY <1>1, ThreadSetTo DEF OrigCreate, Slots
<1>4. UNCHANGED <<td, head, staged, threaddata_pool, stack_pool, failed>>
  BY DEF OrigCreate
<1>5. \A b \in Callers : /\ b = c => ~ Busy(b)' /\ Busy(b)
                         /\ b # c => call'[b] = call[b] /\ (Busy(b)' <=> Busy(b))
  BY <1>1, <1>2 DEF CallSet, Busy
<1>6. \A u \in Workers : /\ u = t => Alive(u)' /\ ~ Alive(u) /\ thread'[u].td = d
                         /\ u # t => thread'[u] = thread[u] /\ (Alive(u)' <=> Alive(u))
  BY <1>1, <1>3 DEF ThreadSet, Alive
<1>7. RegTypeOK'
  BY <1>1, <1>2, <1>3, <1>4, <1>5, <1>6 DEF RegTypeOK, CallSet, ThreadSet
<1>8. OwnerInv'
  <2> USE <1>1, <1>4, <1>5, <1>6
  <2>1. \A b \in Callers : Busy(b)' =>
          /\ call'[b].td \notin InSeq(threaddata_pool') /\ call'[b].td # MainTd
          /\ \A e \in Callers : Busy(e)' /\ call'[e].td = call'[b].td => e = b
          /\ \A u \in Workers : Alive(u)' => thread'[u].td # call'[b].td
    BY DEF OwnerInv
  <2>2. \A u \in Workers : Alive(u)' =>
          /\ thread'[u].td \notin InSeq(threaddata_pool') /\ thread'[u].td # MainTd
          /\ \A w \in Workers : Alive(w)' /\ thread'[w].td = thread'[u].td => w = u
    BY DEF OwnerInv
  <2>3. \A e \in Tds : \/ e = MainTd
                       \/ e \in InSeq(threaddata_pool')
                       \/ \E b \in Callers : Busy(b)' /\ call'[b].td = e
                       \/ \E u \in Workers : Alive(u)' /\ thread'[u].td = e
    BY DEF OwnerInv
  <2> QED
    BY <2>1, <2>2, <2>3 DEF OwnerInv
<1>9. FieldInv'
  <2>1. \A b \in Callers : (call[b].pc \in {"stack", "map", "add", "orig"})' =>
           (td[call[b].td].ref_count = 1)'
    BY <1>2, <1>4, <1>5 DEF FieldInv, Busy
  <2>2. \A u \in Workers : (thread[u].pc \in {"ready", "active", "unlisted"})' =>
           (td[thread[u].td].ref_count = 1)'
    BY <1>1, <1>3, <1>4, <1>6 DEF FieldInv
  <2>3. \A u \in Workers : (thread[u].pc \in {"active", "unlisted", "staged", "ended"})' =>
           (td[thread[u].td].self = u)'
    BY <1>3, <1>4, <1>6 DEF FieldInv, ThreadSet
  <2> QED
    BY <1>4, <2>1, <2>2, <2>3 DEF FieldInv
<1>10. StagedInv'
  <2>1. OfThreads({"staged", "ended"})' = OfThreads({"staged", "ended"})
    BY <1>1, <1>3, <1>6 DEF OfThreads, ThreadSet
  <2> QED
    BY <1>4, <1>7, <2>1, StagedKept
<1>11. ListInv'
  <2>1. Awaited' = Awaited \ {d}
    BY <1>1, <1>2, <1>5 DEF Awaited, CallSet, OwnerInv, Busy
  <2>2. OfThreads({"ready", "active"})' = OfThreads({"ready", "active"}) \cup {d}
    BY <1>1, <1>3, <1>6 DEF OfThreads, ThreadSet
  <2>3. d \in Awaited
    BY <1>1 DEF Awaited
  <2>4. Members' = Members
    BY <2>1, <2>2, <2>3 DEF Members
  <2> QED
    BY <1>4, <1>7, <2>4, MembersKept
<1> QED
  BY <1>7, <1>8, <1>9, <1>10, <1>11

\* The structure goes from the call back to the pool.
LEMMA GiveBackStep ==
    ASSUME RegInv, NEW c \in Callers, CreateFails(c) \/ FreeThreadData(c),
           stack_pool' \in Seq(Int)
    PROVE  RegInv'
<1> USE DEF RegInv
<1>1. PICK d \in Tds : d = call[c].td /\ call[c].pc \in {"orig", "free"} /\ d # MainTd
                       /\ d \notin InSeq(threaddata_pool)
  BY DEF RegTypeOK, OwnerInv, Busy, CreateFails, FreeThreadData
<1>2. CallSet(c, "idle", NULL)
  BY CallSetTo DEF CreateFails, FreeThreadData, NoCall, Slots
<1>3. /\ threaddata_pool' \in Seq(Tds) /\ Distinct(threaddata_pool')
      /\ InSeq(threaddata_pool') = InSeq(threaddata_pool) \cup {d}
  <2>1. threaddata_pool' = <<d>> \o threaddata_pool
    BY <1>1 DEF CreateFails, FreeThreadData
  <2> QED
    BY <1>1, <2>1, PoolGiven DEF RegTypeOK, OwnerInv
<1>4. UNCHANGED <<td, head, staged, thread>>
  BY DEF CreateFails, FreeThreadData
<1>5. \A b \in Callers : /\ b = c => ~ Busy(b)' /\ Busy(b)
                         /\ b # c => call'[b] = call[b] /\ (Busy(b)' <=> Busy(b))
  BY <1>1, <1>2 DEF CallSet, Busy
<1>6. \A u \in Workers : Alive(u)' <=> Alive(u)
  BY <1>4 DEF Alive
<1>7. RegTypeOK'
  <2>1. failed' \in BOOLEAN
    BY DEF CreateFails, FreeThreadData, RegTypeOK
  <2> QED
    BY <1>1, <1>2, <1>3, <1>4, <1>5, <1>6, <2>1 DEF RegTypeOK, CallSet
<1>8. OwnerInv'
  BY <1>1, <1>3, <1>4, <1>5, <1>6 DEF OwnerInv
<1>9. FieldInv'
  <2>1. \A b \in Callers : (call[b].pc \in {"stack", "map", "add", "orig"})' =>
           (td[call[b].td].ref_count = 1)'
    BY <1>2, <1>4, <1>5 DEF FieldInv, Busy
  <2> QED
    BY <1>4, <2>1 DEF FieldInv
<1>10. StagedInv'
  <2>1. OfThreads({"staged", "ended"})' = OfThreads({"staged", "ended"})
    BY <1>4 DEF OfThreads
  <2> QED
    BY <1>4, <1>7, <2>1, StagedKept
<1>11. ListInv'
  <2>1. CASE CreateFails(c)
    BY <2>1 DEF CreateFails, ListInv
  <2>2. CASE FreeThreadData(c)
    <3>1. Members' = Members
      BY <1>2, <1>4, <1>5, <2>2 DEF FreeThreadData, Members, Awaited, OfThreads, CallSet
    <3>2. UNCHANGED failed
      BY <2>2 DEF FreeThreadData
    <3> QED
      BY <1>4, <1>7, <3>1, <3>2, MembersKept
  <2> QED
    BY <2>1, <2>2
<1> QED
  BY <1>7, <1>8, <1>9, <1>10, <1>11

LEMMA StartStep ==
    ASSUME RegInv, NEW t \in Workers, StartThread(t)
    PROVE  RegInv'
<1> USE DEF RegInv
<1>1. PICK d \in Tds : d = thread[t].td /\ thread[t].pc = "ready"
  BY DEF RegTypeOK, Alive, StartThread
<1>2. ThreadSet(t, "active", d)
  BY <1>1, ThreadSetPc DEF StartThread
<1>3. PICK x : /\ TdFields(x, td[d].next, t, td[d].stack, td[d].ours, td[d].ref_count)
               /\ TdSet(d, x)
  BY <1>1, SelfTdSet DEF StartThread, Callers
<1>4. UNCHANGED <<head, staged, threaddata_pool, stack_pool, call, failed>>
  BY DEF StartThread
<1>5. /\ td' \in [Tds -> TdRecs] /\ td'[d].self = t
      /\ \A e \in Tds : /\ td'[e].next = td[e].next /\ td'[e].ref_count = td[e].ref_count
                        /\ td'[e].ours = td[e].ours
                        /\ e # d => td'[e] = td[e]
  BY <1>3 DEF TdFields, TdSet
<1>6. \A u \in Workers : /\ Alive(u)' <=> Alive(u)
                         /\ thread'[u].td = thread[u].td
                         /\ u # t => thread'[u].pc = thread[u].pc
  BY <1>1, <1>2 DEF ThreadSet, Alive
<1>7. RegTypeOK'
  BY <1>2, <1>4, <1>5, <1>6 DEF RegTypeOK, ThreadSet, Busy
<1>8. OwnerInv'
  BY <1>4, <1>6, OwnerKept DEF Busy
<1>9. FieldInv'
  <2>1. \A b \in Callers : (call[b].pc \in {"stack", "map", "add", "orig"})' =>
           (td[call[b].td].ref_count = 1)'
    BY <1>4, <1>5 DEF FieldInv, RegTypeOK, Busy
  <2>2. \A u \in Workers : (thread[u].pc \in {"ready", "active", "unlisted"})' =>
           (td[thread[u].td].ref_count = 1)'
    BY <1>1, <1>5, <1>6 DEF FieldInv, RegTypeOK, Alive
  <2>3. \A u \in Workers : (thread[u].pc \in {"active", "unlisted", "staged", "ended"})' =>
           (td[thread[u].td].self = u)'
    <3>1. \A u \in Workers : u # t /\ Alive(u) => thread[u].td \in Tds \ {d}
      BY <1>1 DEF OwnerInv, RegTypeOK, Alive
    <3> QED
      BY <1>1, <1>5, <1>6, <3>1 DEF FieldInv, Alive
  <2> QED
    BY <1>5, <2>1, <2>2, <2>3, RegistryAssumption DEF FieldInv
<1>10. StagedInv'
  <2>1. OfThreads({"staged", "ended"})' = OfThreads({"staged", "ended"})
    BY <1>1, <1>2, <1>6 DEF OfThreads, ThreadSet
  <2> QED
    BY <1>4, <1>5, <1>7, <2>1, Alone, StagedKept
<1>11. ListInv'
  <2>1. OfThreads({"ready", "active"})' = OfThreads({"ready", "active"})
    BY <1>1, <1>2, <1>6 DEF OfThreads, ThreadSet
  <2>2. Members' = Members
    BY <1>4, <2>1 DEF Members, Awaited
  <2> QED
    BY <1>4, <1>5, <1>7, <2>2, Alone, MembersKept
<1> QED
  BY <1>7, <1>8, <1>9, <1>10, <1>11

LEMMA ExitStep ==
    ASSUME RegInv, NEW t \in Workers, OrigExit(t)
    PROVE  RegInv'
<1> USE DEF RegInv
<1>1. thread[t].pc = "staged" /\ ThreadSet(t, "ended", thread[t].td)
  BY ThreadSetPc DEF OrigExit
<1>4. UNCHANGED <<td, head, staged, threaddata_pool, stack_pool, call, failed>>
  BY DEF OrigExit
<1>6. \A u \in Workers : /\ Alive(u)' <=> Alive(u)
                         /\ thread'[u].td = thread[u].td
                         /\ u # t => thread'[u].pc = thread[u].pc
  BY <1>1 DEF ThreadSet, Alive
<1>7. RegTypeOK'
  BY <1>1, <1>4, <1>6 DEF RegTypeOK, ThreadSet, Busy
<1>8. OwnerInv'
  BY <1>4, <1>6, OwnerKept DEF Busy
<1>9. FieldInv'
  BY <1>1, <1>4, <1>6 DEF FieldInv, ThreadSet
<1>10. StagedInv'
  <2>1. OfThreads({"staged", "ended"})' = OfThreads({"staged", "ended"})
    BY <1>1, <1>6 DEF OfThreads, ThreadSet
  <2> QED
    BY <1>4, <1>7, <2>1, StagedKept
<1>11. ListInv'
  <2>1. OfThreads({"ready", "active"})' = OfThreads({"ready", "active"})
    BY <1>1, <1>6 DEF OfThreads, ThreadSet
  <2>2. Members' = Members
    BY <1>4, <2>1 DEF Members, Awaited
  <2> QED
    BY <1>4, <1>7, <2>2, MembersKept
<1> QED
  BY <1>7, <1>8, <1>9, <1>10, <1>11

\* The structure of a thread that leaves is pushed on the staged list.
LEMMA DecrStep ==
    ASSUME RegInv, NEW t \in Workers, DecrRef(t)
    PROVE  RegInv'
<1> USE DEF RegInv
<1>1. PICK d \in Tds : d = thread[t].td /\ thread[t].pc = "unlisted" /\ d # MainTd
  BY DEF RegTypeOK, OwnerInv, Alive, DecrRef
<1>2. ThreadSet(t, "staged", d)
  BY <1>1, ThreadSetPc DEF DecrRef
<1>3. td[d].ref_count = 1 /\ td[d].self = t
  BY <1>1 DEF FieldInv
<1>4. UNCHANGED <<head, threaddata_pool, stack_pool, call, failed>> /\ staged' = d
  BY <1>1, <1>3 DEF DecrRef
<1>5. PICK x : /\ TdFields(x, staged, td[d].self, td[d].stack, td[d].ours, td[d].ref_count - 1)
               /\ TdSet(d, x)
  <2>1. td' = [td EXCEPT ![d].ref_count = @ - 1, ![d].next = staged]
    BY <1>1, <1>3 DEF DecrRef
  <2> QED
    BY <2>1, LeaveTdSet DEF RegTypeOK
<1>6. /\ td' \in [Tds -> TdRecs] /\ td'[d].next = staged
      /\ \A e \in Tds : /\ td'[e].self = td[e].self /\ td'[e].ours = td[e].ours
                        /\ e # d => td'[e] = td[e]
  BY <1>5 DEF TdFields, TdSet
<1>7. \A u \in Workers : /\ Alive(u)' <=> Alive(u)
                         /\ thread'[u].td = thread[u].td
                         /\ u # t => thread'[u].pc = thread[u].pc
  BY <1>1, <1>2 DEF ThreadSet, Alive
<1>8. RegTypeOK'
  BY <1>2, <1>4, <1>6, <1>7 DEF RegTypeOK, ThreadSet, Busy, Slots
<1>9. OwnerInv'
  BY <1>4, <1>7, OwnerKept DEF Busy
<1>10. /\ \A b \in Callers : Busy(b) => call[b].td \in Tds \ {d}
       /\ \A u \in Workers : u # t /\ Alive(u) => thread[u].td \in Tds \ {d}
  BY <1>1 DEF OwnerInv, RegTypeOK, Alive
<1>11. FieldInv'
  <2>1. \A b \in Callers : (call[b].pc \in {"stack", "map", "add", "orig"})' =>
           (td[call[b].td].ref_count = 1)'
    BY <1>4, <1>6, <1>10 DEF FieldInv, Busy
  <2>2. \A u \in Workers : (thread[u].pc \in {"ready", "active", "unlisted"})' =>
           (td[thread[u].td].ref_count = 1)'
    BY <1>2, <1>6, <1>7, <1>10 DEF FieldInv, ThreadSet, Alive
  <2>3. \A u \in Workers : (thread[u].pc \in {"active", "unlisted", "staged", "ended"})' =>
           (td[thread[u].td].self = u)'
    BY <1>1, <1>3, <1>6, <1>7, <1>10 DEF FieldInv, Alive
  <2> QED
    BY <1>6, <2>1, <2>2, <2>3, RegistryAssumption DEF FieldInv
<1>12. StagedInv'
  <2>1. OfThreads({"staged", "ended"})' = OfThreads({"staged", "ended"}) \cup {d}
    BY <1>1, <1>2, <1>7 DEF OfThreads, ThreadSet
  <2>2. d \notin OfThreads({"staged", "ended"})
    BY <1>1, <1>10 DEF OfThreads, Alive
  <2>3. \A e \in Tds : Nexts[e] = td[e].next /\ Nexts'[e] = td'[e].next
    BY DEF Nexts
  <2>4. Nexts'[d] = staged /\ \A e \in OfThreads({"staged", "ended"}) : Nexts'[e] = Nexts[e]
    BY <1>6, <2>2, <2>3, Alone
  <2>5. IsList(Nexts', d, OfThreads({"staged", "ended"}) \cup {d})
    BY <2>2, <2>4, ListPushed DEF StagedInv
  <2> QED
    BY <1>4, <2>1, <2>5 DEF StagedInv
<1>13. ListInv'
  <2>1. OfThreads({"ready", "active"})' = OfThreads({"ready", "active"})
    BY <1>1, <1>2, <1>7 DEF OfThreads, ThreadSet
  <2>2. Members' = Members
    BY <1>4, <2>1 DEF Members, Awaited
  <2>3. d \notin Members
    BY <1>1, <1>10 DEF Members, Awaited, OfThreads, Busy, Alive
  <2> QED
    BY <1>4, <1>6, <1>8, <2>2, <2>3, Alone, MembersKept
<1> QED
  BY <1>8, <1>9, <1>11, <1>12, <1>13

\* What a thread that exits does to the list: the structure in front of it, if there
\* is one, is not staged.
LEMMA LeaveEffect ==
    ASSUME RegInv, NEW t \in Workers, ListRemove(t), NEW d, d = thread[t].td
    PROVE  \/ head = d /\ head' = td[d].next /\ UNCHANGED td
           \/ /\ head # d /\ UNCHANGED head
              /\ \E w \in Tds, x \in TdRecs :
                    /\ td[w].next = d
                    /\ ~failed => w \in Members
                    /\ TdFields(x, td[d].next, td[w].self, td[w].stack, td[w].ours,
                                td[w].ref_count)
                    /\ TdSet(w, x)
<1> USE DEF RegInv
<1>1. d \in Tds
  BY DEF RegTypeOK, Alive, ListRemove
<1>2. CASE head = d
  BY <1>2 DEF ListRemove
<1>3. CASE head # d
  <2>1. PICK n \in DOMAIN Walk : /\ Walk[n] # NULL /\ td[Walk[n]].next = d
                                 /\ td' = [td EXCEPT ![Walk[n]].next = td[d].next]
    BY <1>3 DEF ListRemove
  <2>2. PICK w : w = Walk[n]
    OBVIOUS
  <2>3. Steps(Nexts, Walk, Cardinality(Tds), head)
    BY WalkSteps DEF Walk, RegTypeOK
  <2>4. w \in Tds
    BY <2>1, <2>2, <2>3 DEF Steps, Slots
  <2>5. ~failed => w \in Members
    <3> SUFFICES ASSUME ~failed PROVE w \in Members
      OBVIOUS
    <3>1. {Walk[i] : i \in DOMAIN Walk} \ {NULL} = Members
      BY ChainMet DEF ListInv, Walk, RegTypeOK
    <3> QED
      BY <2>1, <2>2, <3>1
  <2>6. td[d].next \in Slots
    BY <1>1 DEF RegTypeOK, TdRecs
  <2>7. PICK x : /\ TdFields(x, td[d].next, td[w].self, td[w].stack, td[w].ours,
                             td[w].ref_count)
                 /\ TdSet(w, x)
    BY <2>1, <2>2, <2>4, <2>6, NextTdSet
  <2>8. x \in TdRecs
    BY <2>7 DEF TdFields
  <2>9. UNCHANGED head
    BY <1>3 DEF ListRemove
  <2> QED
    BY <1>3, <2>1, <2>2, <2>4, <2>5, <2>7, <2>8, <2>9
<1> QED
  BY <1>2, <1>3

LEMMA LeaveStep ==
    ASSUME RegInv, NEW t \in Workers, ListRemove(t)
    PROVE  RegInv'
<1> USE DEF RegInv
<1>1. PICK d \in Tds : d = thread[t].td /\ thread[t].pc = "active" /\ d # MainTd
  BY DEF RegTypeOK, OwnerInv, Alive, ListRemove
<1>2. ThreadSet(t, "unlisted", d)
  BY <1>1, ThreadSetPc DEF ListRemove
<1>3. UNCHANGED <<staged, threaddata_pool, stack_pool, call, failed>>
  BY DEF ListRemove
<1>4. \/ head = d /\ head' = td[d].next /\ UNCHANGED td
      \/ /\ head # d /\ UNCHANGED head
         /\ \E w \in Tds, x \in TdRecs :
               /\ td[w].next = d
               /\ ~failed => w \in Members
               /\ TdFields(x, td[d].next, td[w].self, td[w].stack, td[w].ours, td[w].ref_count)
               /\ TdSet(w, x)
  BY <1>1, LeaveEffect
<1>5. /\ td' \in [Tds -> TdRecs] /\ head' \in Slots
      /\ \A e \in Tds : /\ td'[e].self = td[e].self /\ td'[e].ref_count = td[e].ref_count
                        /\ td'[e].ours = td[e].ours
                        /\ td[e].next # d => td'[e] = td[e]
  BY <1>1, <1>4 DEF TdFields, TdSet, RegTypeOK, TdRecs
<1>6. \A u \in Workers : /\ Alive(u)' <=> Alive(u)
                         /\ thread'[u].td = thread[u].td
                         /\ u # t => thread'[u].pc = thread[u].pc
  BY <1>1, <1>2 DEF ThreadSet, Alive
<1>7. RegTypeOK'
  BY <1>2, <1>3, <1>5, <1>6 DEF RegTypeOK, ThreadSet, Busy
<1>8. OwnerInv'
  BY <1>3, <1>6, OwnerKept DEF Busy
<1>9. FieldInv'
  <2>1. \A u \in Workers : Alive(u)' =>
              /\ thread'[u].td = thread[u].td /\ Alive(u)
              /\ thread'[u].pc \in {"ready", "active", "unlisted"} =>
                    thread[u].pc \in {"ready", "active", "unlisted"}
              /\ thread'[u].pc \in {"active", "unlisted", "staged", "ended"} =>
                    thread[u].pc \in {"active", "unlisted", "staged", "ended"}
    BY <1>1, <1>2, <1>6 DEF ThreadSet
  <2> QED
    BY <1>3, <1>5, <2>1, FieldKept, RegistryAssumption
<1>10. StagedInv'
  <2>1. OfThreads({"staged", "ended"})' = OfThreads({"staged", "ended"})
    BY <1>1, <1>2, <1>6 DEF OfThreads, ThreadSet
  <2>2. d \notin OfThreads({"staged", "ended"}) /\ d # NULL
    BY <1>1, RegistryAssumption DEF OfThreads, OwnerInv, Alive
  <2>3. \A e \in OfThreads({"staged", "ended"}) : e \in Tds /\ td[e].next # d
    BY <2>2, Alone, ListClosed DEF StagedInv
  <2> QED
    BY <1>3, <1>5, <1>7, <2>1, <2>3, StagedKept
<1>11. ListInv'
  <2> SUFFICES ASSUME ~failed PROVE IsList(Nexts', head', Members')
    BY <1>3 DEF ListInv
  <2>1. OfThreads({"ready", "active"})' = OfThreads({"ready", "active"}) \ {d}
    <3>1. \A u \in Workers : Alive(u) /\ thread[u].td = d => u = t
      BY <1>1 DEF OwnerInv, Alive
    <3> QED
      BY <1>1, <1>2, <1>6, <3>1 DEF OfThreads, ThreadSet, Alive
  <2>2. d \in OfThreads({"ready", "active"}) /\ d \notin Awaited
    BY <1>1 DEF OfThreads, Awaited, OwnerInv, Busy, Alive
  <2>3. Members' = Members \ {d} /\ d \in Members
    BY <1>1, <1>3, <2>1, <2>2 DEF Members, Awaited
  <2>4. \A e \in Tds : Nexts[e] = td[e].next /\ Nexts'[e] = td'[e].next
    BY DEF Nexts
  <2>5. \/ /\ head = d /\ head' = Nexts[d]
           /\ \A e \in Members : Nexts'[e] = Nexts[e]
        \/ /\ head # d /\ head' = head
           /\ \E w \in Members : /\ Nexts[w] = d /\ Nexts'[w] = Nexts[d]
                                 /\ \A e \in Members : e # w => Nexts'[e] = Nexts[e]
    BY <1>4, <2>4, Alone DEF TdFields, TdSet
  <2>6. IsList(Nexts', head', Members \ {d})
    BY <2>3, <2>5, ListRemoved DEF ListInv
  <2> QED
    BY <2>3, <2>6
<1> QED
  BY <1>7, <1>8, <1>9, <1>10, <1>11

\* pthread_join finds the structure of the thread that has been joined.
LEMMA JoinEffect ==
    ASSUME RegInv, NEW c \in Callers, NEW t \in Workers, Unstage(c, t), NEW d,
           d = thread[t].td
    PROVE  /\ d \in Tds /\ call' = [call EXCEPT ![c] = [pc |-> "free", td |-> d]]
           /\ \/ staged = d /\ staged' = td[d].next /\ UNCHANGED td
              \/ /\ staged # d /\ UNCHANGED staged
                 /\ \E w \in OfThreads({"staged", "ended"}), x \in TdRecs :
                       /\ td[w].next = d
                       /\ TdFields(x, td[d].next, td[w].self, td[w].stack, td[w].ours,
                                   td[w].ref_count)
                       /\ TdSet(w, x)
<1> USE DEF RegInv
<1> DEFINE D == OfThreads({"staged", "ended"})
<1>1. PICK n \in DOMAIN StagedWalk :
         /\ StagedWalk[n] # NULL /\ td[StagedWalk[n]].self = t
         /\ \A m \in 0 .. (n - 1) : td[StagedWalk[m]].self # t
         /\ IF n = 0 THEN staged' = td[StagedWalk[n]].next /\ UNCHANGED td
            ELSE /\ td' = [td EXCEPT ![StagedWalk[n - 1]].next = td[StagedWalk[n]].next]
                 /\ UNCHANGED staged
         /\ call' = [call EXCEPT ![c] = [pc |-> "free", td |-> StagedWalk[n]]]
  BY DEF Unstage
<1>2. Steps(Nexts, StagedWalk, Cardinality(Tds), staged)
  BY WalkSteps DEF StagedWalk, RegTypeOK
<1>3. {StagedWalk[i] : i \in DOMAIN StagedWalk} \ {NULL} = D
  BY ChainMet DEF StagedInv, StagedWalk, RegTypeOK
<1>4. StagedWalk[n] \in D
  BY <1>1, <1>3
<1>5. StagedWalk[n] = d /\ d \in Tds
  BY <1>1, <1>4, Alone DEF OfThreads, FieldInv
<1>6. n \in 0 .. Cardinality(Tds) /\ StagedWalk[0] = staged
  BY <1>1, <1>2 DEF Steps
<1>7. CASE n = 0
  BY <1>1, <1>5, <1>6, <1>7
<1>8. CASE n # 0
  <2>1. n \in 1 .. Cardinality(Tds) /\ n - 1 \in 0 .. Cardinality(Tds) /\ 0 \in 0 .. (n - 1)
    BY <1>6, <1>8, CountTds
  <2>2. PICK w : w = StagedWalk[n - 1]
    OBVIOUS
  <2>3. StagedWalk[n] = IF w = NULL THEN NULL ELSE Nexts[w]
    BY <1>2, <2>1, <2>2 DEF Steps
  <2>4. w # NULL /\ Nexts[w] = d
    BY <1>1, <1>5, <2>3
  <2>5. n - 1 \in DOMAIN StagedWalk
    BY <1>2, <2>1 DEF Steps
  <2>6. w \in D /\ w \in Tds
    BY <1>3, <2>2, <2>4, <2>5, Alone
  <2>7. td[w].next = d /\ td[d].next \in Slots
    BY <1>5, <2>4, <2>6 DEF Nexts, RegTypeOK, TdRecs
  <2>8. staged # d
    BY <1>1, <1>5, <1>6, <2>1
  <2>9. td' = [td EXCEPT ![w].next = td[d].next] /\ UNCHANGED staged
    BY <1>1, <1>5, <1>8, <2>2
  <2>10. PICK x : /\ TdFields(x, td[d].next, td[w].self, td[w].stack, td[w].ours,
                              td[w].ref_count)
                  /\ TdSet(w, x)
    BY <2>6, <2>7, <2>9, NextTdSet
  <2>11. x \in TdRecs
    BY <2>10 DEF TdFields
  <2> QED
    BY <1>1, <1>5, <2>6, <2>7, <2>8, <2>9, <2>10, <2>11
<1> QED
  BY <1>7, <1>8

LEMMA JoinStep ==
    ASSUME RegInv, NEW c \in Callers, NEW t \in Workers, Unstage(c, t)
    PROVE  RegInv'
<1> USE DEF RegInv
<1>1. PICK d \in Tds : d = thread[t].td /\ thread[t].pc = "ended" /\ d # MainTd
  BY DEF RegTypeOK, OwnerInv, Alive, Unstage
<1>2. call[c].pc = "idle" /\ UNCHANGED <<head, threaddata_pool, stack_pool, failed>>
  BY DEF Unstage, MayCall
<1>3. ThreadSet(t, "none", NULL)
  BY ThreadSetTo DEF Unstage, NoThread, Slots
<1>4. CallSet(c, "free", d)
  <2>1. call' = [call EXCEPT ![c] = [pc |-> "free", td |-> d]]
    BY <1>1, JoinEffect
  <2> QED
    BY <2>1, CallSetTo DEF Slots
<1>5. \/ staged = d /\ staged' = td[d].next /\ UNCHANGED td
      \/ /\ staged # d /\ UNCHANGED staged
         /\ \E w \in OfThreads({"staged", "ended"}), x \in TdRecs :
               /\ td[w].next = d
               /\ TdFields(x, td[d].next, td[w].self, td[w].stack, td[w].ours, td[w].ref_count)
               /\ TdSet(w, x)
  BY <1>1, JoinEffect
<1>6. /\ td' \in [Tds -> TdRecs] /\ staged' \in Slots
      /\ \A e \in Tds : /\ td'[e].self = td[e].self /\ td'[e].ref_count = td[e].ref_count
                        /\ td'[e].ours = td[e].ours
                        /\ e \notin OfThreads({"staged", "ended"}) => td'[e] = td[e]
  BY <1>1, <1>5, Alone DEF TdFields, TdSet, RegTypeOK, TdRecs
<1>7. \A b \in Callers : /\ b = c => ~ Busy(b) /\ Busy(b)' /\ call'[b].td = d
                         /\ b # c => call'[b] = call[b] /\ (Busy(b)' <=> Busy(b))
  BY <1>2, <1>4 DEF CallSet, Busy
<1>8. \A u \in Workers : /\ u = t => ~ Alive(u)' /\ Alive(u)
                         /\ u # t => thread'[u] = thread[u] /\ (Alive(u)' <=> Alive(u))
  BY <1>1, <1>3 DEF ThreadSet, Alive
<1>9. RegTypeOK'
  BY <1>1, <1>2, <1>3, <1>4, <1>6, <1>7, <1>8 DEF RegTypeOK, CallSet, ThreadSet
<1>10. OwnerInv'
  <2> USE <1>1, <1>2, <1>7, <1>8
  <2>1. \A b \in Callers : Busy(b)' =>
          /\ call'[b].td \notin InSeq(threaddata_pool') /\ call'[b].td # MainTd
          /\ \A e \in Callers : Busy(e)' /\ call'[e].td = call'[b].td => e = b
          /\ \A u \in Workers : Alive(u)' => thread'[u].td # call'[b].td
    BY DEF OwnerInv
  <2>2. \A u \in Workers : Alive(u)' =>
          /\ thread'[u].td \notin InSeq(threaddata_pool') /\ thread'[u].td # MainTd
          /\ \A w \in Workers : Alive(w)' /\ thread'[w].td = thread'[u].td => w = u
    BY DEF OwnerInv
  <2>3. \A e \in Tds : \/ e = MainTd
                       \/ e \in InSeq(threaddata_pool')
                       \/ \E b \in Callers : Busy(b)' /\ call'[b].td = e
                       \/ \E u \in Workers : Alive(u)' /\ thread'[u].td = e
    BY DEF OwnerInv
  <2> QED
    BY <2>1, <2>2, <2>3 DEF OwnerInv
<1>11. FieldInv'
  <2>1. \A b \in Callers : call'[b].pc \in {"stack", "map", "add", "orig"} =>
           call[b].pc \in {"stack", "map", "add", "orig"} /\ call'[b].td = call[b].td
    BY <1>4, <1>7 DEF CallSet
  <2>2. \A u \in Workers : Alive(u)' => thread'[u] = thread[u] /\ Alive(u)
    BY <1>8
  <2> QED
    BY <1>6, <2>1, <2>2, FieldKept, RegistryAssumption
<1>12. StagedInv'
  <2> DEFINE D == OfThreads({"staged", "ended"})
  <2>1. D' = D \ {d} /\ d \in D
    <3>1. \A u \in Workers : Alive(u) /\ thread[u].td = d => u = t
      BY <1>1 DEF OwnerInv, Alive
    <3> QED
      BY <1>1, <1>3, <1>8, <3>1 DEF OfThreads, ThreadSet, Alive
  <2>4. \A e \in Tds : Nexts[e] = td[e].next /\ Nexts'[e] = td'[e].next
    BY DEF Nexts
  <2>5. \/ /\ staged = d /\ staged' = Nexts[d]
           /\ \A e \in D : Nexts'[e] = Nexts[e]
        \/ /\ staged # d /\ staged' = staged
           /\ \E w \in D : /\ Nexts[w] = d /\ Nexts'[w] = Nexts[d]
                           /\ \A e \in D : e # w => Nexts'[e] = Nexts[e]
    BY <1>5, <2>4, Alone DEF TdFields, TdSet
  <2>6. IsList(Nexts', staged', D \ {d})
    BY <2>1, <2>5, ListRemoved DEF StagedInv
  <2> QED
    BY <2>1, <2>6 DEF StagedInv
<1>13. ListInv'
  <2>1. OfThreads({"ready", "active"})' = OfThreads({"ready", "active"})
    BY <1>1, <1>3, <1>8 DEF OfThreads, ThreadSet
  <2>2. Awaited' = Awaited
    BY <1>2, <1>4, <1>7 DEF Awaited, CallSet
  <2>3. Members' = Members
    BY <2>1, <2>2 DEF Members
  <2>4. ASSUME NEW e \in Members PROVE e \notin OfThreads({"staged", "ended"})
    <3>1. \A u \in Workers, w \in Workers : Alive(u) /\ Alive(w) /\ thread[u].td = thread[w].td
             => u = w
      BY DEF OwnerInv
    <3>2. \A u \in Workers : Alive(u) => thread[u].td # MainTd /\ thread[u].td \notin Awaited
      BY DEF OwnerInv, Awaited, Busy
    <3> QED
      BY <3>1, <3>2 DEF Members, OfThreads, Alive
  <2> QED
    BY <1>2, <1>6, <1>9, <2>3, <2>4, Alone, MembersKept
<1> QED
  BY <1>9, <1>10, <1>11, <1>12, <1>13

-----------------------------------------------------------------------------
(***************************************************************************)
(* The initial states, and what the invariant says of the registry.        *)
(***************************************************************************)
LEMMA ListEmpty == \A next : IsList(next, NULL, {})
<1> TAKE next
<1> DEFINE f == [i \in 1 .. 0 |-> MainTd]
<1>1. f \in [1 .. 0 -> Tds] /\ 1 .. 0 = {}
  BY RegistryAssumption
<1>2. Chain(next, f, 0, NULL, {})
  BY <1>1 DEF Chain
<1> QED
  BY <1>1, <1>2 DEF IsList

\* A sequence of all elements of a finite set, each once.
LEMMA Arranged ==
    ASSUME NEW S, IsFiniteSet(S), NEW s \in SetToSeqs(S)
    PROVE  s \in Seq(S) /\ Distinct(s) /\ InSeq(s) = S
<1>1. PICK n \in Nat : n = Cardinality(S)
  BY FS_CardinalityType
<1>2. s \in [1 .. n -> S] /\ \A i, j \in 1 .. n : i # j => s[i] # s[j]
  BY <1>1 DEF SetToSeqs
<1>3. IsInjective(s)
  BY <1>2 DEF IsInjective
<1>4. s \in Injection(1 .. n, S)
  BY <1>2, <1>3 DEF Injection
<1>5. IsFiniteSet(1 .. n) /\ Cardinality(1 .. n) = n
  BY FS_Interval
<1>6. s \in Surjection(1 .. n, S)
  BY <1>1, <1>4, <1>5, FS_Injection
<1>7. InSeq(s) = S
  BY <1>2, <1>6 DEF Surjection, InSeq
<1>8. s \in Seq(S)
  BY <1>2, SeqDef
<1> QED
  BY <1>2, <1>7, <1>8 DEF Distinct

LEMMA DistinctCount ==
    ASSUME NEW S, NEW s \in Seq(S), Distinct(s)
    PROVE  Cardinality(InSeq(s)) = Len(s)
<1>1. PICK n \in Nat : n = Len(s) /\ DOMAIN s = 1 .. n
  BY LenProperties
<1>2. s \in [1 .. n -> InSeq(s)]
  BY <1>1 DEF InSeq
<1>3. s \in Bijection(1 .. n, InSeq(s))
  <2>1. IsInjective(s)
    BY <1>1 DEF IsInjective, Distinct
  <2>2. s \in Surjection(1 .. n, InSeq(s))
    BY <1>1, <1>2 DEF Surjection, InSeq
  <2> QED
    BY <1>2, <2>1, <2>2 DEF Bijection, Injection
<1>4. ExistsBijection(1 .. n, InSeq(s))
  BY <1>3 DEF ExistsBijection
<1>5. IsFiniteSet(1 .. n) /\ Cardinality(1 .. n) = n
  BY FS_Interval
<1> QED
  BY <1>1, <1>4, <1>5, FS_Bijection

LEMMA RegInit == RegistryInit => RegInv /\ stack_pool = <<>> /\ \A d \in Tds : ~ td[d].ours
<1> SUFFICES ASSUME RegistryInit
             PROVE  RegInv /\ stack_pool = <<>> /\ \A d \in Tds : ~ td[d].ours
  OBVIOUS
<1>1. PICK t \in Workers, d \in Tds \ {MainTd} :
        /\ td = [[e \in Tds |-> NewTd] EXCEPT ![d].next = MainTd, ![d].self = t]
        /\ head = d
        /\ staged = NULL
        /\ threaddata_pool \in SetToSeqs(Tds \ {MainTd, d})
        /\ stack_pool = <<>>
        /\ thread = [u \in Workers |-> IF u = t THEN [pc |-> "active", td |-> d]
                                       ELSE NoThread]
        /\ call = [c \in Callers |-> NoCall]
        /\ failed = FALSE
  BY DEF RegistryInit
<1> DEFINE y == [NewTd EXCEPT !.next = MainTd]
           x == [y EXCEPT !.self = t]
<1>2. NewTd \in TdRecs /\ TdFields(NewTd, NULL, Main, -1, FALSE, 1)
  BY DEF NewTd, TdRecs, TdFields, Slots, Callers, NoStack
<1>3. TdFields(x, MainTd, t, -1, FALSE, 1)
  <2>1. TdFields(y, MainTd, NewTd.self, NewTd.stack, NewTd.ours, NewTd.ref_count)
    BY <1>2, TdFieldsSet, RegistryAssumption DEF Slots
  <2>2. y \in TdRecs
    BY <2>1 DEF TdFields
  <2> HIDE DEF y
  <2>3. TdFields(x, y.next, t, y.stack, y.ours, y.ref_count)
    BY <2>2, TdFieldsSet DEF Callers
  <2> HIDE DEF x
  <2> QED
    BY <1>2, <2>1, <2>3 DEF TdFields
<1>4. \A e \in Tds : td[e] = IF e = d THEN x ELSE NewTd
  BY <1>1
<1>5. td \in [Tds -> TdRecs]
  <2>1. x \in TdRecs
    BY <1>3 DEF TdFields
  <2>2. td = [[e \in Tds |-> NewTd] EXCEPT ![d] = x]
    BY <1>1
  <2> HIDE DEF x
  <2> QED
    BY <1>2, <2>1, <2>2
<1> HIDE DEF x, y
<1>6. \A e \in Tds : /\ ~ td[e].ours /\ td[e].ref_count = 1
                     /\ e # d => td[e].next = NULL
  BY <1>2, <1>3, <1>4 DEF TdFields
<1>7. td[d].next = MainTd /\ td[d].self = t
  BY <1>3, <1>4 DEF TdFields
<1>8. /\ threaddata_pool \in Seq(Tds \ {MainTd, d}) /\ Distinct(threaddata_pool)
      /\ InSeq(threaddata_pool) = Tds \ {MainTd, d}
  <2>1. IsFiniteSet(Tds \ {MainTd, d})
    BY RegistryAssumption, FS_Subset
  <2> QED
    BY <1>1, <2>1, Arranged
<1>9. \A c \in Callers : call[c] = NoCall /\ ~ Busy(c) /\ call[c].pc = "idle"
  BY <1>1 DEF NoCall, Busy
<1>10. \A u \in Workers : /\ u = t => thread[u].pc = "active" /\ thread[u].td = d /\ Alive(u)
                          /\ u # t => thread[u].pc = "none" /\ ~ Alive(u)
  BY <1>1 DEF NoThread, Alive
<1>11. RegTypeOK
  <2>1. threaddata_pool \in Seq(Tds)
    BY <1>8, SeqMonotonic
  <2>2. call \in [Callers -> CallRecs] /\ thread \in [Workers -> ThreadRecs]
    BY <1>1 DEF CallRecs, ThreadRecs, NoCall, NoThread, Slots
  <2>3. stack_pool \in Seq(Int)
    BY <1>1
  <2>4. head \in Slots /\ staged \in Slots /\ failed \in BOOLEAN
    BY <1>1 DEF Slots
  <2> QED
    BY <1>5, <1>9, <1>10, <2>1, <2>2, <2>3, <2>4 DEF RegTypeOK
<1>12. OwnerInv
  BY <1>8, <1>9, <1>10 DEF OwnerInv
<1>13. FieldInv
  BY <1>6, <1>7, <1>9, <1>10, RegistryAssumption DEF FieldInv
<1>14. StagedInv
  <2>1. OfThreads({"staged", "ended"}) = {}
    BY <1>10 DEF OfThreads
  <2> QED
    BY <1>1, <2>1, ListEmpty DEF StagedInv
<1>15. ListInv
  <2>1. Members = ({} \cup {MainTd}) \cup {d}
    BY <1>9, <1>10 DEF Members, Awaited, OfThreads
  <2>2. Nexts[MainTd] = NULL /\ Nexts[d] = MainTd
    BY <1>1, <1>6, <1>7, RegistryAssumption DEF Nexts
  <2>3. IsList(Nexts, MainTd, {} \cup {MainTd})
    BY <2>2, ListEmpty, ListPushed, RegistryAssumption
  <2>4. IsList(Nexts, d, ({} \cup {MainTd}) \cup {d})
    BY <1>1, <2>2, <2>3, ListPushed
  <2> QED
    BY <1>1, <2>1, <2>4 DEF ListInv
<1> QED
  BY <1>1, <1>6, <1>11, <1>12, <1>13, <1>14, <1>15 DEF RegInv

LEMMA RegistrySoundHolds == RegInv => RegistrySound
<1> SUFFICES ASSUME RegInv, ~failed PROVE RegistrySound
  BY DEF RegistrySound
<1> USE DEF RegInv
<1>1. Walk[Cardinality(Tds)] = NULL /\ Listed = Members
  BY ChainMet DEF ListInv, Walk, Listed, RegTypeOK
<1>2. StagedWalk[Cardinality(Tds)] = NULL /\ Staged = OfThreads({"staged", "ended"})
  BY ChainMet DEF StagedInv, StagedWalk, Staged, RegTypeOK
<1>3. Cardinality(InSeq(threaddata_pool)) = Len(threaddata_pool)
  BY DistinctCount DEF RegTypeOK, OwnerInv
<1>4. InSeq(threaddata_pool) =
          Tds \ (Listed \cup Staged \cup Created \cup Freed \cup OfThreads({"unlisted"}))
  <2> DEFINE Out == Listed \cup Staged \cup Created \cup Freed \cup OfThreads({"unlisted"})
  <2>1. \A c \in Callers : Busy(c) => call[c].td \in Out
    BY <1>1 DEF Members, Awaited, Created, Freed, Busy, RegTypeOK, CallRecs
  <2>2. \A t \in Workers : Alive(t) => thread[t].td \in Out
    BY <1>1, <1>2 DEF Members, OfThreads, Alive, RegTypeOK, ThreadRecs
  <2>3. MainTd \in Out
    BY <1>1 DEF Members
  <2>4. ASSUME NEW d \in Out
        PROVE  \/ d = MainTd
               \/ \E c \in Callers : Busy(c) /\ call[c].td = d
               \/ \E t \in Workers : Alive(t) /\ thread[t].td = d
    BY <1>1, <1>2 DEF Members, Awaited, Created, Freed, OfThreads, Busy, Alive
  <2>5. InSeq(threaddata_pool) \subseteq Tds
    BY DEF RegTypeOK, InSeq
  <2>6. ASSUME NEW d \in Tds PROVE d \in InSeq(threaddata_pool) <=> d \notin Out
    BY <2>1, <2>2, <2>3, <2>4 DEF OwnerInv
  <2> QED
    BY <2>5, <2>6
<1> QED
  BY <1>1, <1>2, <1>3, <1>4 DEF RegistrySound, Members

-----------------------------------------------------------------------------
(***************************************************************************)
(* The stacks, in the steps of the registry.                               *)
(***************************************************************************)
MapCalls == \A c \in Callers : call[c].pc # "map" => op[c].pc = "idle"

\* Stacks only change hands; none is new.
LEMMA StackMoved ==
    ASSUME StackInv, UNCHANGED allocVars, Distinct(stack_pool'), MapCalls',
           InUse' \subseteq InUse,
           \A d \in Holders' : td'[d].stack \notin InSeq(stack_pool'),
           \A d, e \in Holders' : td'[d].stack = td'[e].stack => d = e
    PROVE  StackInv'
<1>1. UNCHANGED <<vm, op>> /\ \A c \in Callers : Batch(c)' <=> Batch(c)
  BY DEF allocVars, Batch
<1>2. (\A p \in InUse : p \in Pages /\ vm[p] = "own")'
  BY <1>1 DEF StackInv
<1>3. (\A c \in Callers : Batch(c) =>
          /\ op[c].meta.high = op[c].meta.low + StackBatch
          /\ \A p \in PagesOf(op[c].meta) : p \in Pages /\ vm[p] = "own" /\ p \notin InUse
          /\ \A b \in Callers : b # c /\ Batch(b) =>
                PagesOf(op[b].meta) \cap PagesOf(op[c].meta) = {})'
  BY <1>1 DEF StackInv
<1>4. (\A c \in Callers : /\ op[c].pc \notin {"munmap", "free"}
                          /\ call[c].pc # "map" => op[c].pc = "idle"
                          /\ op[c].pc # "idle" => op[c].size = StackBatch /\ ~ op[c].shared)'
  BY <1>1 DEF StackInv, MapCalls
<1> QED
  BY <1>1, <1>2, <1>3, <1>4 DEF StackInv

LEMMA StackKept ==
    ASSUME StackInv, UNCHANGED <<allocVars, stack_pool>>, MapCalls', Holders' = Holders,
           \A d \in Holders : td'[d].stack = td[d].stack
    PROVE  StackInv'
<1>1. InUse' = InUse
  BY DEF InUse
<1>2. Distinct(stack_pool')
  BY DEF StackInv
<1>3. \A d \in Holders' : td'[d].stack \notin InSeq(stack_pool')
  BY DEF StackInv
<1>4. \A d, e \in Holders' : td'[d].stack = td'[e].stack => d = e
  BY DEF StackInv
<1> QED
  BY <1>1, <1>2, <1>3, <1>4, StackMoved

LEMMA NewStack ==
    ASSUME RegInv, StackInv, NEW c \in Callers, NEW ours \in BOOLEAN, ThreadDataNew(c, ours),
           UNCHANGED allocVars
    PROVE  StackInv'
<1>1. PICK d \in Tds, x \in TdRecs :
              /\ call[c].pc = "idle" /\ d \in InSeq(threaddata_pool)
              /\ CallSet(c, IF ours THEN "stack" ELSE "add", d)
              /\ TdFields(x, td[d].next, td[d].self, td[d].stack, td[d].ours /\ ours, 1)
              /\ TdSet(d, x)
              /\ UNCHANGED <<stack_pool, thread>>
  BY NewEffect DEF RegInv
<1>2. /\ \A b \in Callers : Busy(b) => call[b].td # d
      /\ \A t \in Workers : Alive(t) => thread[t].td # d
  BY <1>1 DEF RegInv, OwnerInv
<1>3. d \notin Holders
  BY <1>2 DEF Holders, Busy
<1>4. d \notin Holders'
  <2>1. \A t \in Workers : Alive(t)' => thread'[t].td # d
    BY <1>1, <1>2 DEF Alive
  <2>2. CASE ours
    BY <1>1, <1>2, <2>1, <2>2 DEF Holders, Busy, CallSet
  <2>3. CASE ~ ours
    BY <1>1, <2>3 DEF Holders, TdSet, TdFields
  <2> QED
    BY <2>2, <2>3
<1>5. ASSUME NEW e \in Tds, e # d PROVE e \in Holders' <=> e \in Holders
  <2>1. td'[e] = td[e]
    BY <1>1, <1>5 DEF TdSet
  <2>2. (\E b \in Callers : call[b].td = e /\ call[b].pc \in {"add", "orig", "free"})'
        <=> \E b \in Callers : call[b].td = e /\ call[b].pc \in {"add", "orig", "free"}
    BY <1>1, <1>5 DEF CallSet
  <2>3. (\E t \in Workers : thread[t].td = e /\ Alive(t))'
        <=> \E t \in Workers : thread[t].td = e /\ Alive(t)
    BY <1>1 DEF Alive
  <2> QED
    BY <2>1, <2>2, <2>3 DEF Holders
<1>6. Holders' = Holders
  BY <1>3, <1>4, <1>5 DEF Holders
<1>7. \A e \in Holders : td'[e].stack = td[e].stack
  BY <1>1, <1>3 DEF Holders, TdSet
<1>8. MapCalls'
  BY <1>1 DEF MapCalls, CallSet, StackInv, allocVars
<1> QED
  BY <1>1, <1>6, <1>7, <1>8, StackKept

\* Calls and threads keep their structures, and the structures keep their stacks.
LEMMA HoldersKept ==
    ASSUME \A e \in Tds : td'[e].stack = td[e].stack /\ td'[e].ours = td[e].ours,
           \A e \in Tds :
              (\/ \E b \in Callers : call[b].td = e /\ call[b].pc \in {"add", "orig", "free"}
               \/ \E t \in Workers : thread[t].td = e /\ Alive(t))'
              <=>
              (\/ \E b \in Callers : call[b].td = e /\ call[b].pc \in {"add", "orig", "free"}
               \/ \E t \in Workers : thread[t].td = e /\ Alive(t))
    PROVE  Holders' = Holders /\ \A d \in Holders : td'[d].stack = td[d].stack
BY DEF Holders

LEMMA AddStack ==
    ASSUME RegInv, StackInv, NEW c \in Callers, ListAdd(c), UNCHANGED allocVars
    PROVE  StackInv'
<1> USE DEF RegInv
<1>1. PICK d \in Tds : d = call[c].td /\ call[c].pc = "add"
  BY DEF RegTypeOK, Busy, ListAdd
<1>2. CallSet(c, "orig", d)
  BY <1>1, CallSetPc DEF ListAdd
<1>3. PICK x : /\ TdFields(x, head, td[d].self, td[d].stack, td[d].ours, td[d].ref_count)
               /\ TdSet(d, x)
  BY <1>1, NextTdSet DEF ListAdd, RegTypeOK
<1>4. UNCHANGED <<stack_pool, thread>>
  BY DEF ListAdd
<1>5. \A e \in Tds : td'[e].stack = td[e].stack /\ td'[e].ours = td[e].ours
  BY <1>3 DEF TdFields, TdSet
<1>6. \A b \in Callers : call'[b].td = call[b].td
                         /\ (call'[b].pc \in {"add", "orig", "free"}
                             <=> call[b].pc \in {"add", "orig", "free"})
  BY <1>1, <1>2 DEF CallSet
<1>7. Holders' = Holders /\ \A e \in Holders : td'[e].stack = td[e].stack
  BY <1>4, <1>5, <1>6, HoldersKept DEF Alive
<1>8. MapCalls'
  BY <1>1, <1>2 DEF MapCalls, CallSet, StackInv, allocVars
<1> QED
  BY <1>4, <1>7, <1>8, StackKept

LEMMA CreateStack ==
    ASSUME RegInv, StackInv, NEW c \in Callers, NEW t \in Workers, OrigCreate(c, t),
           UNCHANGED allocVars
    PROVE  StackInv'
<1> USE DEF RegInv
<1>1. PICK d \in Tds : d = call[c].td /\ call[c].pc = "orig" /\ thread[t].pc = "none"
  BY DEF RegTypeOK, Busy, OrigCreate
<1>2. CallSet(c, "idle", NULL)
  BY CallSetTo DEF OrigCreate, NoCall, Slots
<1>3. ThreadSet(t, "ready", d)
  BY <1>1, ThreadSetTo DEF OrigCreate, Slots
<1>4. UNCHANGED <<td, stack_pool>>
  BY DEF OrigCreate
<1>5. ASSUME NEW e \in Tds
      PROVE  (\/ \E b \in Callers : call[b].td = e /\ call[b].pc \in {"add", "orig", "free"}
              \/ \E u \in Workers : thread[u].td = e /\ Alive(u))' <=>
             (\/ \E b \in Callers : call[b].td = e /\ call[b].pc \in {"add", "orig", "free"}
              \/ \E u \in Workers : thread[u].td = e /\ Alive(u))
  <2>1. CASE e = d
    BY <1>1, <1>3, <2>1 DEF ThreadSet, Alive
  <2>2. CASE e # d
    BY <1>1, <1>2, <1>3, <2>2 DEF ThreadSet, CallSet, Alive
  <2> QED
    BY <2>1, <2>2
<1>7. Holders' = Holders /\ \A e \in Holders : td'[e].stack = td[e].stack
  BY <1>4, <1>5, HoldersKept
<1>8. MapCalls'
  BY <1>1, <1>2 DEF MapCalls, CallSet, StackInv, allocVars
<1> QED
  BY <1>4, <1>7, <1>8, StackKept

\* A thread starts, leaves and ends: its structure and its stack stay with it.
LEMMA LifeStack ==
    ASSUME RegInv, StackInv, NEW t \in Workers, UNCHANGED allocVars,
           StartThread(t) \/ ListRemove(t) \/ DecrRef(t) \/ OrigExit(t)
    PROVE  StackInv'
<1> USE DEF RegInv
<1>1. PICK d \in Tds : d = thread[t].td
  BY DEF RegTypeOK, Alive, StartThread, ListRemove, DecrRef, OrigExit
<1>2. UNCHANGED <<stack_pool, call>>
  BY DEF StartThread, ListRemove, DecrRef, OrigExit
<1>3. \A u \in Workers : (Alive(u)' <=> Alive(u)) /\ thread'[u].td = thread[u].td
  <2>1. PICK p \in {"active", "unlisted", "staged", "ended"} :
           thread' = [thread EXCEPT ![t].pc = p]
    BY DEF StartThread, ListRemove, DecrRef, OrigExit
  <2>2. ThreadSet(t, p, d)
    BY <1>1, <2>1, ThreadSetPc
  <2>3. Alive(t)
    BY DEF Alive, StartThread, ListRemove, DecrRef, OrigExit
  <2> QED
    BY <1>1, <2>1, <2>2, <2>3 DEF ThreadSet, Alive
<1>4. \A e \in Tds : td'[e].stack = td[e].stack /\ td'[e].ours = td[e].ours
  <2>1. CASE StartThread(t)
    <3>1. PICK x : /\ TdFields(x, td[d].next, t, td[d].stack, td[d].ours, td[d].ref_count)
                   /\ TdSet(d, x)
      BY <1>1, <2>1, SelfTdSet DEF StartThread, Callers
    <3> QED
      BY <3>1 DEF TdFields, TdSet
  <2>2. CASE ListRemove(t)
    <3>1. \/ UNCHANGED td
          \/ \E w \in Tds, x \in TdRecs :
                /\ TdFields(x, td[d].next, td[w].self, td[w].stack, td[w].ours,
                            td[w].ref_count)
                /\ TdSet(w, x)
      BY <1>1, <2>2, LeaveEffect
    <3> QED
      BY <3>1 DEF TdFields, TdSet
  <2>3. CASE DecrRef(t)
    <3>1. td[d].ref_count = 1
      BY <1>1, <2>3 DEF DecrRef, FieldInv
    <3>2. td' = [td EXCEPT ![d].ref_count = @ - 1, ![d].next = staged]
      BY <1>1, <2>3, <3>1 DEF DecrRef
    <3>3. PICK x : /\ TdFields(x, staged, td[d].self, td[d].stack, td[d].ours,
                               td[d].ref_count - 1)
                   /\ TdSet(d, x)
      BY <3>2, LeaveTdSet DEF RegTypeOK
    <3> QED
      BY <3>3 DEF TdFields, TdSet
  <2>4. CASE OrigExit(t)
    BY <2>4 DEF OrigExit
  <2> QED
    BY <2>1, <2>2, <2>3, <2>4
<1>5. Holders' = Holders /\ \A e \in Holders : td'[e].stack = td[e].stack
  BY <1>2, <1>3, <1>4, HoldersKept
<1>6. MapCalls'
  BY <1>2 DEF MapCalls, StackInv, allocVars
<1> QED
  BY <1>2, <1>5, <1>6, StackKept

LEMMA JoinStack ==
    ASSUME RegInv, StackInv, NEW c \in Callers, NEW t \in Workers, Unstage(c, t),
           UNCHANGED allocVars
    PROVE  StackInv'
<1> USE DEF RegInv
<1>1. PICK d \in Tds : d = thread[t].td /\ thread[t].pc = "ended"
  BY DEF RegTypeOK, Alive, Unstage
<1>2. call[c].pc = "idle" /\ UNCHANGED stack_pool
  BY DEF Unstage, MayCall
<1>3. ThreadSet(t, "none", NULL)
  BY ThreadSetTo DEF Unstage, NoThread, Slots
<1>4. CallSet(c, "free", d)
  <2>1. call' = [call EXCEPT ![c] = [pc |-> "free", td |-> d]]
    BY <1>1, JoinEffect
  <2> QED
    BY <2>1, CallSetTo DEF Slots
<1>5. \A e \in Tds : td'[e].stack = td[e].stack /\ td'[e].ours = td[e].ours
  <2>1. \/ UNCHANGED td
        \/ \E w \in OfThreads({"staged", "ended"}), x \in TdRecs :
              /\ TdFields(x, td[d].next, td[w].self, td[w].stack, td[w].ours, td[w].ref_count)
              /\ TdSet(w, x)
    BY <1>1, JoinEffect
  <2> QED
    BY <2>1 DEF TdFields, TdSet
<1>6. ASSUME NEW e \in Tds
      PROVE  (\/ \E b \in Callers : call[b].td = e /\ call[b].pc \in {"add", "orig", "free"}
              \/ \E u \in Workers : thread[u].td = e /\ Alive(u))' <=>
             (\/ \E b \in Callers : call[b].td = e /\ call[b].pc \in {"add", "orig", "free"}
              \/ \E u \in Workers : thread[u].td = e /\ Alive(u))
  <2>1. CASE e = d
    BY <1>1, <1>4, <2>1 DEF CallSet, Alive
  <2>2. CASE e # d
    BY <1>1, <1>2, <1>3, <1>4, <2>2 DEF ThreadSet, CallSet, Alive
  <2> QED
    BY <2>1, <2>2
<1>7. Holders' = Holders /\ \A e \in Holders : td'[e].stack = td[e].stack
  BY <1>5, <1>6, HoldersKept
<1>8. MapCalls'
  BY <1>2, <1>4 DEF MapCalls, CallSet, StackInv, allocVars
<1> QED
  BY <1>2, <1>7, <1>8, StackKept

\* The stack of a structure that is given back goes to the pool.
LEMMA GiveBackStack ==
    ASSUME RegInv, StackInv, NEW c \in Callers, CreateFails(c) \/ FreeThreadData(c),
           UNCHANGED allocVars
    PROVE  stack_pool' \in Seq(Int) /\ StackInv'
<1> USE DEF RegInv
<1>1. PICK d \in Tds : d = call[c].td /\ call[c].pc \in {"orig", "free"}
  BY DEF RegTypeOK, Busy, CreateFails, FreeThreadData
<1>2. CallSet(c, "idle", NULL)
  BY CallSetTo DEF CreateFails, FreeThreadData, NoCall, Slots
<1>3. UNCHANGED <<td, thread>>
  BY DEF CreateFails, FreeThreadData
<1>4. stack_pool' = IF td[d].ours THEN <<td[d].stack>> \o stack_pool ELSE stack_pool
  BY <1>1 DEF CreateFails, FreeThreadData, FreedStacks
<1>5. /\ \A b \in Callers : b # c /\ Busy(b) => call[b].td # d
      /\ \A t \in Workers : Alive(t) => thread[t].td # d
  BY <1>1 DEF OwnerInv, Busy
<1>6. Holders' = Holders \ {d}
  <2>1. d \notin Holders'
    BY <1>2, <1>3, <1>5 DEF Holders, CallSet, Busy, Alive
  <2>2. ASSUME NEW e \in Tds, e # d PROVE e \in Holders' <=> e \in Holders
    <3>1. (\E b \in Callers : call[b].td = e /\ call[b].pc \in {"add", "orig", "free"})'
          <=> \E b \in Callers : call[b].td = e /\ call[b].pc \in {"add", "orig", "free"}
      BY <1>1, <1>2, <2>2 DEF CallSet
    <3>2. (\E t \in Workers : thread[t].td = e /\ Alive(t))'
          <=> \E t \in Workers : thread[t].td = e /\ Alive(t)
      BY <1>3 DEF Alive
    <3> QED
      BY <1>3, <3>1, <3>2 DEF Holders
  <2> QED
    BY <2>1, <2>2 DEF Holders
<1>7. td[d].ours => d \in Holders
  BY <1>1 DEF Holders
<1>8. \A e \in Tds : td[e].stack \in Int /\ td[e].ours \in BOOLEAN
  BY DEF RegTypeOK, TdRecs
<1>9. /\ stack_pool' \in Seq(Int) /\ Distinct(stack_pool')
      /\ InSeq(stack_pool') = InSeq(stack_pool) \cup (IF td[d].ours THEN {td[d].stack} ELSE {})
  <2>1. stack_pool \in Seq(Int) /\ Distinct(stack_pool)
    BY DEF RegTypeOK, StackInv
  <2>2. CASE td[d].ours
    <3>1. td[d].stack \in Int /\ td[d].stack \notin InSeq(stack_pool)
      BY <1>7, <1>8, <2>2 DEF StackInv
    <3> QED
      BY <1>4, <2>1, <2>2, <3>1, PoolGiven
  <2>3. CASE ~ td[d].ours
    BY <1>4, <2>1, <2>3
  <2> QED
    BY <2>2, <2>3
<1>10. InUse' \subseteq InUse
  BY <1>3, <1>6, <1>7, <1>9 DEF InUse
<1>11. \A e \in Holders' : td'[e].stack \notin InSeq(stack_pool')
  BY <1>3, <1>6, <1>7, <1>9 DEF StackInv
<1>12. \A e1, e2 \in Holders' : td'[e1].stack = td'[e2].stack => e1 = e2
  BY <1>3, <1>6 DEF StackInv
<1>13. MapCalls'
  BY <1>1, <1>2 DEF MapCalls, CallSet, StackInv, allocVars
<1> QED
  BY <1>9, <1>10, <1>11, <1>12, <1>13, StackMoved

\* A structure gets a stack that is not in use, or that is taken from the pool.
LEMMA ArmedHolders ==
    ASSUME RegInv, NEW c \in Callers, NEW d \in Tds, d = call[c].td,
           call[c].pc \in {"stack", "map"}, NEW x, NEW v,
           TdFields(x, td[d].next, td[d].self, v, TRUE, td[d].ref_count), TdSet(d, x),
           CallSet(c, "add", d), UNCHANGED thread
    PROVE  /\ d \notin Holders /\ Holders' = Holders \cup {d}
           /\ td'[d].stack = v /\ \A e \in Holders : td'[e].stack = td[e].stack
<1> USE DEF RegInv
<1>1. /\ \A b \in Callers : b # c /\ Busy(b) => call[b].td # d
      /\ \A t \in Workers : Alive(t) => thread[t].td # d
  BY DEF OwnerInv, Busy
<1>2. d \notin Holders
  BY <1>1 DEF Holders, Busy
<1>3. d \in Holders' /\ td'[d].stack = v
  BY DEF Holders, CallSet, TdSet, TdFields
<1>4. ASSUME NEW e \in Tds, e # d PROVE (e \in Holders' <=> e \in Holders) /\ td'[e] = td[e]
  <2>1. td'[e] = td[e]
    BY <1>4 DEF TdSet
  <2>2. (\E b \in Callers : call[b].td = e /\ call[b].pc \in {"add", "orig", "free"})'
        <=> \E b \in Callers : call[b].td = e /\ call[b].pc \in {"add", "orig", "free"}
    BY <1>4 DEF CallSet
  <2>3. (\E t \in Workers : thread[t].td = e /\ Alive(t))'
        <=> \E t \in Workers : thread[t].td = e /\ Alive(t)
    BY DEF Alive
  <2> QED
    BY <2>1, <2>2, <2>3 DEF Holders
<1>5. Holders \subseteq Tds /\ Holders' \subseteq Tds
  BY DEF Holders
<1>6. Holders' = Holders \cup {d}
  BY <1>3, <1>4, <1>5
<1>7. \A e \in Holders : td'[e].stack = td[e].stack
  BY <1>2, <1>4, <1>5
<1> QED
  BY <1>2, <1>3, <1>6, <1>7

LEMMA MakeStackStep ==
    ASSUME RegInv, StackInv, NEW c \in Callers, MakeStack(c), UNCHANGED allocVars
    PROVE  RegInv' /\ StackInv'
<1>1. PICK d \in Tds : d = call[c].td /\ call[c].pc = "stack"
  BY DEF RegInv, RegTypeOK, Busy, MakeStack
<1>2. UNCHANGED <<head, staged, threaddata_pool, thread, failed>>
  BY DEF MakeStack
<1>3. op[c].pc = "idle" /\ op' = op
  BY <1>1 DEF StackInv, allocVars
<1>4. CASE stack_pool = <<>>
  <2>1. UNCHANGED <<td, stack_pool>> /\ call' = [call EXCEPT ![c].pc = "map"]
    BY <1>4 DEF MakeStack
  <2>2. CallSet(c, "map", d)
    BY <1>1, <2>1, CallSetPc DEF RegInv
  <2>3. stack_pool' \in Seq(Int)
    BY <2>1 DEF RegInv, RegTypeOK
  <2>4. RegInv'
    BY <1>1, <1>2, <2>1, <2>2, <2>3, StackStep
  <2>5. \A b \in Callers : call'[b].td = call[b].td
                           /\ (call'[b].pc \in {"add", "orig", "free"}
                               <=> call[b].pc \in {"add", "orig", "free"})
    BY <1>1, <2>2 DEF CallSet
  <2>6. Holders' = Holders /\ \A e \in Holders : td'[e].stack = td[e].stack
    BY <1>2, <2>1, <2>5, HoldersKept DEF Alive
  <2>7. MapCalls'
    BY <1>3, <2>2 DEF MapCalls, CallSet, StackInv
  <2> QED
    BY <2>1, <2>4, <2>6, <2>7, StackKept
<1>5. CASE stack_pool # <<>>
  <2>1. PICK v : v = Head(stack_pool)
    OBVIOUS
  <2>2. /\ td' = [td EXCEPT ![d].stack = v, ![d].ours = TRUE]
        /\ stack_pool' = Tail(stack_pool) /\ call' = [call EXCEPT ![c].pc = "add"]
    BY <1>1, <1>5, <2>1 DEF MakeStack
  <2>3. /\ v \in Int /\ v \in InSeq(stack_pool)
        /\ stack_pool' \in Seq(Int) /\ Distinct(stack_pool')
        /\ InSeq(stack_pool') = InSeq(stack_pool) \ {v}
    BY <1>5, <2>1, <2>2, PoolTaken DEF RegInv, RegTypeOK, StackInv
  <2>4. CallSet(c, "add", d)
    BY <1>1, <2>2, CallSetPc DEF RegInv
  <2>5. PICK x : /\ TdFields(x, td[d].next, td[d].self, v, TRUE, td[d].ref_count)
                 /\ TdSet(d, x)
    BY <2>2, <2>3, StackTdSet DEF RegInv
  <2>6. RegInv'
    BY <1>1, <1>2, <2>3, <2>4, <2>5, StackStep
  <2>7. /\ d \notin Holders /\ Holders' = Holders \cup {d}
        /\ td'[d].stack = v /\ \A e \in Holders : td'[e].stack = td[e].stack
    BY <1>1, <1>2, <2>4, <2>5, ArmedHolders
  <2>8. InUse' \subseteq InUse
    BY <2>3, <2>7 DEF InUse
  <2>9. \A e \in Holders' : td'[e].stack \notin InSeq(stack_pool')
    BY <2>3, <2>7 DEF StackInv
  <2>10. \A e1, e2 \in Holders' : td'[e1].stack = td'[e2].stack => e1 = e2
    BY <2>3, <2>7 DEF StackInv
  <2>11. MapCalls'
    BY <1>3, <2>4 DEF MapCalls, CallSet, StackInv
  <2> QED
    BY <2>3, <2>6, <2>8, <2>9, <2>10, <2>11, StackMoved
<1> QED
  BY <1>4, <1>5

\* The stacks of a batch that go to the pool.
LEMMA BatchPool ==
    ASSUME NEW base \in Int, NEW s, s = [i \in 1 .. (StackBatch - 1) |-> base + StackBatch - i]
    PROVE  /\ s \in Seq(Int) /\ Distinct(s)
           /\ InSeq(s) = (base + 1) .. (base + StackBatch - 1)
<1>1. PICK n \in Nat : n = StackBatch - 1
  BY RegistryAssumption
<1>2. PICK top \in Int : top = base + StackBatch
  BY RegistryAssumption
<1>3. s = [i \in 1 .. n |-> top - i]
  <2>1. 1 .. (StackBatch - 1) = 1 .. n
    BY <1>1
  <2>2. \A i \in 1 .. n : base + StackBatch - i = top - i
    BY <1>2, RegistryAssumption
  <2> QED
    BY <2>1, <2>2
<1>4. \A i \in 1 .. n : top - i \in Int
  OBVIOUS
<1>5. s \in [1 .. n -> Int] /\ \A i \in 1 .. n : s[i] = top - i
  BY <1>3, <1>4
<1>6. s \in Seq(Int) /\ DOMAIN s = 1 .. n
  BY <1>5, SeqDef
<1>7. Distinct(s)
  <2> SUFFICES ASSUME NEW i \in 1 .. n, NEW j \in 1 .. n, s[i] = s[j] PROVE i = j
    BY <1>6 DEF Distinct
  <2>1. top - i = top - j
    BY <1>5
  <2> QED
    BY <2>1
<1>8. ASSUME NEW p \in (top - n) .. (top - 1) PROVE p \in InSeq(s)
  <2>1. top - p \in 1 .. n /\ p = top - (top - p)
    OBVIOUS
  <2> QED
    BY <1>5, <1>6, <2>1 DEF InSeq
<1>9. ASSUME NEW p \in InSeq(s) PROVE p \in (top - n) .. (top - 1)
  <2>1. PICK i \in 1 .. n : p = top - i
    BY <1>5, <1>6 DEF InSeq
  <2> QED
    BY <2>1
<1>10. InSeq(s) = (top - n) .. (top - 1)
  BY <1>8, <1>9
<1>11. top - n = base + 1 /\ top - 1 = base + StackBatch - 1
  BY <1>1, <1>2, RegistryAssumption
<1> QED
  BY <1>6, <1>7, <1>10, <1>11

\* A batch is in use from now on: its first stack, and those in the pool.
LEMMA BatchStep ==
    ASSUME RegInv, AllocInv, StackInv, NEW c \in Callers, StacksMapped(c)
    PROVE  RegInv' /\ StackInv'
<1> USE DEF RegInv
<1>1. PICK d \in Tds : d = call[c].td /\ call[c].pc = "map"
  BY DEF RegTypeOK, Busy, StacksMapped, MakeBatch
<1>2. UNCHANGED <<head, staged, threaddata_pool, thread, failed, vm>>
  BY DEF StacksMapped, MakeBatch
<1>3. c \in Mappers /\ op[c].pc = "done" /\ op[c] \in Ops /\ op' = [op EXCEPT ![c] = NoOp]
  BY SnapshotAssumption DEF StacksMapped, AllocInv, AllocTypeOK
<1>4. PICK v \in Int : v = op[c].meta.low /\ op[c].meta.high = v + StackBatch
  BY <1>3 DEF StackInv, Batch, Ops, Bounds
<1>5. PICK s : s = [i \in 1 .. (StackBatch - 1) |-> v + StackBatch - i]
  OBVIOUS
<1>6. /\ td' = [td EXCEPT ![d].stack = v, ![d].ours = TRUE]
      /\ stack_pool' = s \o stack_pool /\ call' = [call EXCEPT ![c].pc = "add"]
  BY <1>1, <1>4, <1>5 DEF StacksMapped, MakeBatch
<1>7. s \in Seq(Int) /\ Distinct(s) /\ InSeq(s) = (v + 1) .. (v + StackBatch - 1)
  BY <1>5, BatchPool
<1>8. /\ PagesOf(op[c].meta) = v .. (v + StackBatch - 1)
      /\ \A p \in PagesOf(op[c].meta) : p \in Pages /\ vm[p] = "own" /\ p \notin InUse
  <2>1. Batch(c)
    BY <1>3 DEF Batch
  <2>2. PagesOf(op[c].meta) = v .. (v + StackBatch - 1)
    BY <1>4, RegistryAssumption DEF PagesOf
  <2>3. \A p \in PagesOf(op[c].meta) : p \in Pages /\ vm[p] = "own" /\ p \notin InUse
    BY <2>1 DEF StackInv
  <2> QED
    BY <2>2, <2>3
<1>9. /\ v \in PagesOf(op[c].meta) /\ v \notin InSeq(s)
      /\ InSeq(s) \subseteq PagesOf(op[c].meta)
  BY <1>7, <1>8, RegistryAssumption
<1>10. /\ stack_pool' \in Seq(Int) /\ Distinct(stack_pool')
       /\ InSeq(stack_pool') = InSeq(s) \cup InSeq(stack_pool)
  <2>1. InSeq(stack_pool) \cap InSeq(s) = {}
    BY <1>8, <1>9 DEF InUse
  <2>2. stack_pool \in Seq(Int) /\ Distinct(stack_pool)
    BY DEF RegTypeOK, StackInv
  <2>3. /\ s \o stack_pool \in Seq(Int) /\ Distinct(s \o stack_pool)
        /\ InSeq(s \o stack_pool) = InSeq(s) \cup InSeq(stack_pool)
    BY <1>7, <2>1, <2>2, PoolJoined
  <2> QED
    BY <1>6, <2>3
<1>11. CallSet(c, "add", d)
  BY <1>1, <1>6, CallSetPc
<1>12. PICK x : /\ TdFields(x, td[d].next, td[d].self, v, TRUE, td[d].ref_count)
                /\ TdSet(d, x)
  BY <1>6, StackTdSet
<1>13. RegInv'
  BY <1>1, <1>2, <1>10, <1>11, <1>12, StackStep
<1>14. /\ d \notin Holders /\ Holders' = Holders \cup {d}
       /\ td'[d].stack = v /\ \A e \in Holders : td'[e].stack = td[e].stack
  BY <1>1, <1>2, <1>11, <1>12, ArmedHolders
<1>15. InUse' \subseteq InUse \cup PagesOf(op[c].meta)
  BY <1>9, <1>10, <1>14 DEF InUse
<1>16. \A e \in Holders' : td'[e].stack \notin InSeq(stack_pool')
  <2>1. \A e \in Holders : td[e].stack \in InUse /\ td[e].stack \notin InSeq(stack_pool)
    BY DEF InUse, StackInv
  <2>2. \A e \in Holders : td[e].stack \notin InSeq(s)
    BY <1>8, <1>9, <2>1
  <2>3. v \notin InSeq(stack_pool)
    BY <1>8, <1>9 DEF InUse
  <2> QED
    BY <1>9, <1>10, <1>14, <2>1, <2>2, <2>3
<1>17. \A e1, e2 \in Holders' : td'[e1].stack = td'[e2].stack => e1 = e2
  <2>1. \A e \in Holders : td[e].stack # v
    BY <1>8, <1>9 DEF InUse
  <2> QED
    BY <1>14, <2>1 DEF StackInv
<1>18. \A b \in Mappers : /\ b = c => op'[b].pc = "idle"
                          /\ b # c => op'[b] = op[b]
  BY <1>3 DEF AllocInv, AllocTypeOK, NoOp
<1>19. Callers \subseteq Mappers /\ Collector \in Mappers /\ Collector \notin Callers
  BY SnapshotAssumption
<1>20. \A b \in Callers : Batch(b)' <=> Batch(b) /\ b # c
  BY <1>18, <1>19 DEF Batch
<1>21. (\A p \in InUse : p \in Pages /\ vm[p] = "own")'
  BY <1>2, <1>8, <1>15 DEF StackInv
<1>22. (\A b \in Callers : Batch(b) =>
          /\ op[b].meta.high = op[b].meta.low + StackBatch
          /\ \A p \in PagesOf(op[b].meta) : p \in Pages /\ vm[p] = "own" /\ p \notin InUse
          /\ \A e \in Callers : e # b /\ Batch(e) =>
                PagesOf(op[e].meta) \cap PagesOf(op[b].meta) = {})'
  <2>1. SUFFICES ASSUME NEW b \in Callers, Batch(b), b # c
                 PROVE  /\ op[b].meta.high = op[b].meta.low + StackBatch
                        /\ \A p \in PagesOf(op[b].meta) :
                              p \in Pages /\ vm[p] = "own" /\ p \notin InUse'
                        /\ \A e \in Callers : e # b /\ Batch(e) =>
                              PagesOf(op[e].meta) \cap PagesOf(op[b].meta) = {}
    BY <1>2, <1>18, <1>19, <1>20
  <2>2. PagesOf(op[c].meta) \cap PagesOf(op[b].meta) = {}
    BY <1>3, <2>1 DEF StackInv, Batch
  <2> QED
    BY <1>15, <2>1, <2>2 DEF StackInv
<1>23. (\A b \in Callers : /\ op[b].pc \notin {"munmap", "free"}
                           /\ call[b].pc # "map" => op[b].pc = "idle"
                           /\ op[b].pc # "idle" => op[b].size = StackBatch /\ ~ op[b].shared)'
  BY <1>11, <1>18, <1>19 DEF StackInv, CallSet
<1>24. op'[Collector] = op[Collector]
  BY <1>18, <1>19
<1>25. StackInv'
  BY <1>2, <1>10, <1>16, <1>17, <1>21, <1>22, <1>23, <1>24 DEF StackInv
<1> QED
  BY <1>13, <1>25

-----------------------------------------------------------------------------
(***************************************************************************)
(* The stacks, in the steps of alloc_mmap and forkscan_alloc_munmap.       *)
(***************************************************************************)
LEMMA Everybody ==
    /\ Callers \subseteq Mappers /\ Collector \in Mappers /\ Collector \notin Callers
    /\ \A c \in Mappers : c \in Callers \/ c = Collector
BY SnapshotAssumption

\* The call of c goes on; pages of Forkscan's private memory stay what they are.
LEMMA OpStep ==
    ASSUME StackInv, UNCHANGED registryVars, NEW c \in Mappers,
           \A b \in Mappers : b # c => op'[b] = op[b],
           \A p \in Pages : vm[p] = "own" => vm'[p] = "own",
           c \in Callers =>
              /\ op'[c].pc \notin {"munmap", "free"}
              /\ call[c].pc # "map" => op'[c].pc = "idle"
              /\ op'[c].pc # "idle" => op'[c].size = StackBatch /\ ~ op'[c].shared,
           c \in Callers /\ Batch(c)' =>
              \/ Batch(c) /\ op'[c].meta = op[c].meta
              \/ /\ op'[c].meta.high = op'[c].meta.low + StackBatch
                 /\ \A p \in PagesOf(op'[c].meta) :
                       p \in Pages /\ vm[p] # "own" /\ vm'[p] = "own",
           op'[Collector].pc = "munmap" => vm'[op'[Collector].meta.low] = "ownshared",
           op'[Collector].pc \in {"block", "blockhead", "nodes", "mmap"} =>
              op'[Collector].shared
    PROVE  StackInv'
<1>1. UNCHANGED <<td, stack_pool, thread, call>>
  BY DEF registryVars
<1>2. Holders' = Holders
  BY <1>1 DEF Holders, Alive
<1>3. InUse' = InUse
  BY <1>1, <1>2 DEF InUse
<1>4. (\A p \in InUse : p \in Pages /\ vm[p] = "own")'
  BY <1>3 DEF StackInv
<1>5. \A b \in Callers : b # c => op'[b] = op[b] /\ (Batch(b)' <=> Batch(b))
  BY Everybody DEF Batch
<1>6. (\A b \in Callers : /\ op[b].pc \notin {"munmap", "free"}
                          /\ call[b].pc # "map" => op[b].pc = "idle"
                          /\ op[b].pc # "idle" => op[b].size = StackBatch /\ ~ op[b].shared)'
  BY <1>1, <1>5 DEF StackInv
<1>7. ASSUME NEW b \in Callers, Batch(b)'
      PROVE  /\ op'[b].meta.high = op'[b].meta.low + StackBatch
             /\ \A p \in PagesOf(op'[b].meta) : p \in Pages /\ vm'[p] = "own" /\ p \notin InUse
             /\ \/ Batch(b) /\ op'[b].meta = op[b].meta
                \/ b = c /\ \A p \in PagesOf(op'[b].meta) : vm[p] # "own"
  <2>1. CASE Batch(b) /\ op'[b].meta = op[b].meta
    BY <2>1 DEF StackInv
  <2>2. CASE /\ b = c
             /\ op'[c].meta.high = op'[c].meta.low + StackBatch
             /\ \A p \in PagesOf(op'[c].meta) : p \in Pages /\ vm[p] # "own" /\ vm'[p] = "own"
    BY <2>2 DEF StackInv
  <2> QED
    BY <1>5, <1>7, <2>1, <2>2
<1>8. ASSUME NEW b \in Callers, NEW e \in Callers, Batch(b)', Batch(e)', b # e
      PROVE  PagesOf(op'[e].meta) \cap PagesOf(op'[b].meta) = {}
  <2>1. CASE /\ Batch(b) /\ op'[b].meta = op[b].meta
             /\ Batch(e) /\ op'[e].meta = op[e].meta
    BY <1>8, <2>1 DEF StackInv
  <2>2. CASE b = c /\ \A p \in PagesOf(op'[b].meta) : vm[p] # "own"
    <3>1. \A p \in PagesOf(op'[e].meta) : vm[p] = "own"
      BY <1>5, <1>8, <2>2 DEF StackInv
    <3> QED
      BY <2>2, <3>1
  <2>3. CASE e = c /\ \A p \in PagesOf(op'[e].meta) : vm[p] # "own"
    <3>1. \A p \in PagesOf(op'[b].meta) : vm[p] = "own"
      BY <1>5, <1>8, <2>3 DEF StackInv
    <3> QED
      BY <2>3, <3>1
  <2> QED
    BY <1>7, <1>8, <2>1, <2>2, <2>3
<1>9. (\A b \in Callers : Batch(b) =>
          /\ op[b].meta.high = op[b].meta.low + StackBatch
          /\ \A p \in PagesOf(op[b].meta) : p \in Pages /\ vm[p] = "own" /\ p \notin InUse
          /\ \A e \in Callers : e # b /\ Batch(e) =>
                PagesOf(op[e].meta) \cap PagesOf(op[b].meta) = {})'
  BY <1>3, <1>7, <1>8
<1>10. /\ Distinct(stack_pool') /\ \A d \in Holders' : td'[d].stack \notin InSeq(stack_pool')
       /\ \A d, e \in Holders' : td'[d].stack = td'[e].stack => d = e
  BY <1>1, <1>2 DEF StackInv
<1> QED
  BY <1>4, <1>6, <1>9, <1>10 DEF StackInv

LEMMA OpPc ==
    ASSUME AllocInv, NEW c \in Mappers, NEW p \in AllocPcs, op' = [op EXCEPT ![c].pc = p]
    PROVE  /\ op'[c].pc = p /\ op'[c].size = op[c].size /\ op'[c].shared = op[c].shared
           /\ op'[c].meta = op[c].meta
           /\ \A b \in Mappers : b # c => op'[b] = op[b]
<1>1. PICK y \in Ops : y = op[c]
  BY DEF AllocInv, AllocTypeOK
<1> DEFINE x == [y EXCEPT !.pc = p]
<1>2. x.pc = p /\ x.size = y.size /\ x.shared = y.shared /\ x.meta = y.meta
  BY DEF Ops
<1>3. op' = [op EXCEPT ![c] = x]
  BY <1>1
<1> HIDE DEF x
<1>4. op'[c] = x /\ \A b \in Mappers : b # c => op'[b] = op[b]
  BY <1>3 DEF AllocInv, AllocTypeOK
<1> QED
  BY <1>1, <1>2, <1>4

LEMMA OpSet ==
    ASSUME AllocInv, NEW c \in Mappers, NEW x, op' = [op EXCEPT ![c] = x]
    PROVE  op'[c] = x /\ \A b \in Mappers : b # c => op'[b] = op[b]
BY DEF AllocInv, AllocTypeOK

\* A new mapping takes unmapped pages, and leaves the others.
LEMMA MappedPages ==
    ASSUME AllocInv, NEW size \in Nat \ {0}, NEW r \in Gaps(size), NEW kind,
           vm' = Mapped(r, kind)
    PROVE  /\ r.high = r.low + size
           /\ \A p \in PagesOf(r) : p \in Pages /\ vm[p] = "none" /\ vm'[p] = kind
           /\ \A p \in Pages : vm[p] # "none" => vm'[p] = vm[p]
<1>1. /\ r.high = r.low + size
      /\ \A p \in PagesOf(r) : p \in Pages /\ vm[p] = "none"
  BY GapIsFree DEF AllocInv
<1>2. \A p \in Pages : vm'[p] = IF p \in PagesOf(r) THEN kind ELSE vm[p]
  BY DEF Mapped
<1> QED
  BY <1>1, <1>2

\* The region that the collector unmaps.
LEMMA UnmappedPages ==
    ASSUME AllocInv, StackInv, op[Collector].pc = "munmap"
    PROVE  /\ op[Collector].meta.low \in Pages
           /\ \A p \in PagesOf(op[Collector].meta) : p \in Pages /\ vm[p] = "ownshared"
<1>1. Outside(Collector) /\ Collector \in Mappers
  BY SnapshotAssumption DEF Outside, OutsidePcs
<1>2. op[Collector].meta \in Held /\ op[Collector].meta \in Regions
  BY <1>1 DEF Held, Flying, AllocInv, AllocTypeOK
<1>3. \A p \in PagesOf(op[Collector].meta) : vm[p] = vm[op[Collector].meta.low]
  BY <1>2 DEF AllocInv, HeldInv
<1> QED
  BY <1>2, <1>3, RegionPages DEF StackInv

\* A call of alloc_mmap begins.
LEMMA MmapBegins ==
    ASSUME AllocInv, StackInv, UNCHANGED registryVars, NEW c \in Mappers,
           NEW size \in Nat \ {0}, NEW shared \in BOOLEAN,
           TakeNode(c, size, shared) \/ MapBlock(c, size, shared),
           c \in Callers => call[c].pc = "map" /\ size = StackBatch /\ ~ shared,
           c = Collector => shared
    PROVE  StackInv'
<1>1. /\ op'[c].pc \in {"mmap", "block"} /\ op'[c].size = size /\ op'[c].shared = shared
      /\ \A b \in Mappers : b # c => op'[b] = op[b]
      /\ \A p \in Pages : vm[p] # "none" => vm'[p] = vm[p]
  <2>1. CASE TakeNode(c, size, shared)
    <3>1. PICK x : x = MmapOp(size, shared)
      OBVIOUS
    <3>3. x.pc = "mmap" /\ x.size = size /\ x.shared = shared
      BY <3>1, ToMmap
    <3>4. op' = [op EXCEPT ![c] = x] /\ vm' = vm
      BY <2>1, <3>1 DEF TakeNode, MmapOp
    <3>5. op'[c] = x /\ \A b \in Mappers : b # c => op'[b] = op[b]
      BY <3>4, OpSet
    <3> QED
      BY <3>3, <3>4, <3>5
  <2>2. CASE MapBlock(c, size, shared)
    <3>1. PICK r \in Gaps(1) :
             /\ vm' = Mapped(r, "own")
             /\ op' = [op EXCEPT ![c] = [pc |-> "block", meta |-> r, size |-> size,
                                         shared |-> shared]]
      BY <2>2 DEF MapBlock
    <3>2. 1 \in Nat \ {0}
      OBVIOUS
    <3>3. \A p \in Pages : vm[p] # "none" => vm'[p] = vm[p]
      BY <3>1, <3>2, MappedPages
    <3>4. /\ op'[c] = [pc |-> "block", meta |-> r, size |-> size, shared |-> shared]
          /\ \A b \in Mappers : b # c => op'[b] = op[b]
      BY <3>1, OpSet
    <3> QED
      BY <3>3, <3>4
  <2> QED
    BY <2>1, <2>2
<1>2. \A p \in Pages : vm[p] = "own" => vm'[p] = "own"
  BY <1>1
<1>3. ~ Batch(c)'
  BY <1>1 DEF Batch
<1>4. op'[Collector].pc = "munmap" => vm'[op'[Collector].meta.low] = "ownshared"
  BY <1>1, Everybody, UnmappedPages DEF StackInv
<1>5. op'[Collector].pc \in {"block", "blockhead", "nodes", "mmap"} => op'[Collector].shared
  BY <1>1, Everybody DEF StackInv
<1> QED
  BY <1>1, <1>2, <1>3, <1>4, <1>5, OpStep

\* The call goes on without a new mapping.
LEMMA MmapGoesOn ==
    ASSUME AllocInv, StackInv, UNCHANGED registryVars, NEW c \in Mappers,
           InsertBlock(c) \/ InsertBlockHead(c) \/ BlockNode(c) \/ Insert(c) \/ InsertHead(c)
    PROVE  StackInv'
<1>1. PICK p \in {"blockhead", "nodes", "mmap", "head", "done"} :
         /\ op' = [op EXCEPT ![c].pc = p] /\ vm' = vm
         /\ p \in {"head", "done"} => op[c].pc \in {"insert", "head"}
         /\ p \notin {"head", "done"} => op[c].pc \in {"block", "blockhead", "nodes"}
  BY DEF InsertBlock, InsertBlockHead, BlockNode, Insert, InsertHead
<1>2. p \in AllocPcs
  BY <1>1 DEF AllocPcs
<1>3. /\ op'[c].pc = p /\ op'[c].size = op[c].size /\ op'[c].shared = op[c].shared
      /\ op'[c].meta = op[c].meta
      /\ \A b \in Mappers : b # c => op'[b] = op[b]
  BY <1>1, <1>2, OpPc
<1>4. c \in Callers =>
         /\ op'[c].pc \notin {"munmap", "free"}
         /\ call[c].pc # "map" => op'[c].pc = "idle"
         /\ op'[c].pc # "idle" => op'[c].size = StackBatch /\ ~ op'[c].shared
  BY <1>1, <1>3 DEF StackInv
<1>5. Batch(c)' => Batch(c) /\ op'[c].meta = op[c].meta
  BY <1>1, <1>3 DEF Batch
<1>6. op'[Collector].pc = "munmap" => vm'[op'[Collector].meta.low] = "ownshared"
  BY <1>1, <1>3, Everybody DEF StackInv
<1>7. op'[Collector].pc \in {"block", "blockhead", "nodes", "mmap"} => op'[Collector].shared
  BY <1>1, <1>3, Everybody DEF StackInv
<1>8. \A q \in Pages : vm[q] = "own" => vm'[q] = "own"
  BY <1>1
<1> QED
  BY <1>3, <1>4, <1>5, <1>6, <1>7, <1>8, OpStep

\* The batch of a caller is mapped where nothing was.
LEMMA MmapMaps ==
    ASSUME AllocInv, StackInv, UNCHANGED registryVars, NEW c \in Mappers, MmapWrap(c)
    PROVE  StackInv'
<1>1. PICK r \in Gaps(op[c].size) :
         /\ vm' = Mapped(r, IF op[c].shared THEN "ownshared" ELSE "own")
         /\ op' = [op EXCEPT ![c].pc = "insert", ![c].meta = r]
  BY DEF MmapWrap
<1>2. op[c].pc = "mmap" /\ op[c].size \in Nat \ {0} /\ op[c] \in Ops
  BY DEF MmapWrap, AllocInv, AllocTypeOK, Ops
<1>3. PICK size \in Nat \ {0}, kind \in {"ownshared", "own"} :
         size = op[c].size /\ kind = IF op[c].shared THEN "ownshared" ELSE "own"
  BY <1>2
<1>4. /\ r.high = r.low + size
      /\ \A p \in PagesOf(r) : p \in Pages /\ vm[p] = "none" /\ vm'[p] = kind
      /\ \A p \in Pages : vm[p] # "none" => vm'[p] = vm[p]
  BY <1>1, <1>3, MappedPages
<1>5. PICK y \in Ops : y = op[c]
  BY <1>2
<1> DEFINE u == [y EXCEPT !.pc = "insert"]
           x == [u EXCEPT !.meta = r]
<1>6. op' = [op EXCEPT ![c] = x]
  BY <1>1, <1>5
<1>7. x.pc = "insert" /\ x.meta = r /\ x.size = y.size /\ x.shared = y.shared
  BY <1>5 DEF Ops
<1> HIDE DEF x, u
<1>8. op'[c] = x /\ \A b \in Mappers : b # c => op'[b] = op[b]
  BY <1>6, OpSet
<1>9. c \in Callers =>
         /\ op'[c].pc \notin {"munmap", "free"}
         /\ call[c].pc # "map" => op'[c].pc = "idle"
         /\ op'[c].pc # "idle" => op'[c].size = StackBatch /\ ~ op'[c].shared
  BY <1>2, <1>5, <1>7, <1>8 DEF StackInv
<1>10. c \in Callers =>
          /\ op'[c].meta.high = op'[c].meta.low + StackBatch
          /\ \A p \in PagesOf(op'[c].meta) : p \in Pages /\ vm[p] # "own" /\ vm'[p] = "own"
  <2> SUFFICES ASSUME c \in Callers
               PROVE  /\ op'[c].meta.high = op'[c].meta.low + StackBatch
                      /\ \A p \in PagesOf(op'[c].meta) :
                            p \in Pages /\ vm[p] # "own" /\ vm'[p] = "own"
    OBVIOUS
  <2>1. size = StackBatch /\ kind = "own" /\ op'[c].meta = r
    BY <1>2, <1>3, <1>7, <1>8 DEF StackInv
  <2> QED
    BY <1>4, <2>1
<1>11. op'[Collector].pc = "munmap" => vm'[op'[Collector].meta.low] = "ownshared"
  BY <1>4, <1>7, <1>8, Everybody, UnmappedPages DEF StackInv
<1>12. op'[Collector].pc \in {"block", "blockhead", "nodes", "mmap"} => op'[Collector].shared
  BY <1>7, <1>8, Everybody DEF StackInv
<1>13. \A q \in Pages : vm[q] = "own" => vm'[q] = "own"
  BY <1>4
<1> QED
  BY <1>8, <1>9, <1>10, <1>11, <1>12, <1>13, OpStep

\* The collector takes what it has mapped, or returns the node of what it unmapped.
LEMMA CollectorDone ==
    ASSUME AllocInv, StackInv, UNCHANGED registryVars,
           op' = [op EXCEPT ![Collector] = NoOp], vm' = vm
    PROVE  StackInv'
<1>1. op'[Collector] = NoOp /\ \A b \in Mappers : b # Collector => op'[b] = op[b]
  BY Everybody, OpSet
<1>2. op'[Collector].pc = "idle"
  BY <1>1 DEF NoOp
<1>3. \A p \in Pages : vm[p] = "own" => vm'[p] = "own"
  OBVIOUS
<1> QED
  BY <1>1, <1>2, <1>3, Everybody, OpStep

\* The collector takes a shared buffer out of the list ...
MunmapOp(r) == [NoOp EXCEPT !.pc = "munmap", !.meta = r]

LEMMA ToMunmap == ASSUME NEW r PROVE MunmapOp(r).pc = "munmap" /\ MunmapOp(r).meta = r
<1> DEFINE u == [NoOp EXCEPT !.pc = "munmap"]
<1>1. u.pc = "munmap" /\ u \in [{"pc", "meta", "size", "shared"} ->
                                   {u.pc, u.meta, u.size, u.shared}]
  BY DEF NoOp
<1>2. MunmapOp(r) = [u EXCEPT !.meta = r]
  BY DEF MunmapOp
<1> HIDE DEF u
<1> QED
  BY <1>1, <1>2

LEMMA MunmapBegins ==
    ASSUME AllocInv, StackInv, UNCHANGED registryVars,
           \E i \in Aggregates : MetadataRemove(Collector, i)
    PROVE  StackInv'
<1>1. PICK i \in Aggregates : MetadataRemove(Collector, i)
  OBVIOUS
<1>2. PICK r : r = alloc_list[i]
  OBVIOUS
<1>3. op' = [op EXCEPT ![Collector] = MunmapOp(r)] /\ vm' = vm
  BY <1>1, <1>2 DEF MetadataRemove, MunmapOp
<1>4. vm[r.low] = "ownshared"
  BY <1>1, <1>2 DEF Aggregates
<1>5. op'[Collector] = MunmapOp(r) /\ \A b \in Mappers : b # Collector => op'[b] = op[b]
  BY <1>3, Everybody, OpSet
<1>6. op'[Collector].pc = "munmap" /\ op'[Collector].meta = r
  BY <1>5, ToMunmap
<1>7. vm'[op'[Collector].meta.low] = "ownshared"
  BY <1>3, <1>4, <1>6
<1>8. \A p \in Pages : vm[p] = "own" => vm'[p] = "own"
  BY <1>3
<1> QED
  BY <1>5, <1>6, <1>7, <1>8, Everybody, OpStep

\* ... and unmaps it; no stack lies in it.
LEMMA MunmapUnmaps ==
    ASSUME AllocInv, StackInv, UNCHANGED registryVars, NEW c \in Mappers, MunmapWrap(c)
    PROVE  StackInv'
<1>1. c = Collector /\ op[Collector].pc = "munmap"
  BY Everybody DEF MunmapWrap, StackInv
<1>2. op' = [op EXCEPT ![Collector].pc = "free"] /\ "free" \in AllocPcs
  BY <1>1 DEF MunmapWrap, AllocPcs
<1>3. op'[Collector].pc = "free" /\ \A b \in Mappers : b # Collector => op'[b] = op[b]
  BY <1>2, Everybody, OpPc
<1>4. \A p \in PagesOf(op[Collector].meta) : vm[p] = "ownshared"
  BY <1>1, UnmappedPages
<1>5. \A p \in Pages : vm'[p] = IF p \in PagesOf(op[Collector].meta) THEN "none" ELSE vm[p]
  BY <1>1 DEF MunmapWrap, Mapped
<1>6. \A p \in Pages : vm[p] = "own" => vm'[p] = "own"
  BY <1>4, <1>5
<1> QED
  BY <1>3, <1>6, Everybody, OpStep

LEMMA AllocStepStack ==
    ASSUME AllocInv, StackInv, UNCHANGED registryVars, NEW c \in Mappers, AllocStep(c)
    PROVE  StackInv'
<1>1. CASE InsertBlock(c) \/ InsertBlockHead(c) \/ BlockNode(c) \/ Insert(c) \/ InsertHead(c)
  BY <1>1, MmapGoesOn
<1>2. CASE MmapWrap(c)
  BY <1>2, MmapMaps
<1>3. CASE MunmapWrap(c)
  BY <1>3, MunmapUnmaps
<1>4. CASE MetadataFree(c)
  <2>1. c = Collector
    BY <1>4, Everybody DEF MetadataFree, StackInv
  <2> QED
    BY <1>4, <2>1, CollectorDone DEF MetadataFree
<1> QED
  BY <1>1, <1>2, <1>3, <1>4 DEF AllocStep

-----------------------------------------------------------------------------
(***************************************************************************)
(* The registry and the stacks in every behaviour.                         *)
(***************************************************************************)
LEMMA StackInit == Init => RegInv /\ StackInv
<1> SUFFICES ASSUME Init PROVE RegInv /\ StackInv
  OBVIOUS
<1>1. RegInv /\ stack_pool = <<>> /\ \A d \in Tds : ~ td[d].ours
  BY RegInit DEF Init
<1>2. Holders = {} /\ InSeq(stack_pool) = {} /\ Distinct(stack_pool)
  BY <1>1 DEF Holders, InSeq, Distinct
<1>3. InUse = {}
  BY <1>2 DEF InUse
<1>4. \A c \in Mappers : op[c].pc = "idle"
  BY DEF Init, NoOp
<1> QED
  BY <1>1, <1>2, <1>3, <1>4, Everybody DEF StackInv, Batch

LEMMA RegistryStepInv ==
    ASSUME RegInv, StackInv, RegistryStep, UNCHANGED allocVars
    PROVE  RegInv' /\ StackInv'
<1>1. CASE \E c \in Callers, ours \in BOOLEAN : ThreadDataNew(c, ours)
  BY <1>1, NewStep, NewStack
<1>2. CASE \E c \in Callers : MakeStack(c)
  BY <1>2, MakeStackStep
<1>3. CASE \E c \in Callers : ListAdd(c)
  BY <1>3, AddStep, AddStack
<1>4. CASE \E c \in Callers, t \in Workers : OrigCreate(c, t)
  BY <1>4, CreateStep, CreateStack
<1>5. CASE \E c \in Callers, t \in Workers : Unstage(c, t)
  BY <1>5, JoinStep, JoinStack
<1>6. CASE \E c \in Callers : CreateFails(c) \/ FreeThreadData(c)
  BY <1>6, GiveBackStep, GiveBackStack
<1>7. CASE \E t \in Workers : StartThread(t)
  BY <1>7, StartStep, LifeStack
<1>8. CASE \E t \in Workers : DecrRef(t)
  BY <1>8, DecrStep, LifeStack
<1>9. CASE \E t \in Workers : OrigExit(t)
  BY <1>9, ExitStep, LifeStack
<1> QED
  BY <1>1, <1>2, <1>3, <1>4, <1>5, <1>6, <1>7, <1>8, <1>9 DEF RegistryStep

LEMMA RegistryKept == RegInv /\ UNCHANGED registryVars => RegInv'
BY DEF registryVars, RegInv, RegTypeOK, OwnerInv, FieldInv, StagedInv, ListInv, Alive, Busy,
   Nexts, Members, Awaited, OfThreads

LEMMA NothingMoves ==
    RegInv /\ StackInv /\ UNCHANGED registryVars /\ UNCHANGED allocVars => RegInv' /\ StackInv'
<1> SUFFICES ASSUME RegInv, StackInv, UNCHANGED registryVars, UNCHANGED allocVars
             PROVE  RegInv' /\ StackInv'
  OBVIOUS
<1>1. StackInv'
  BY DEF StackInv, registryVars, allocVars, Holders, InUse, Batch, Alive
<1> QED
  BY <1>1, RegistryKept

LEMMA AllocNextStack ==
    ASSUME RegInv, AllocInv, StackInv, AllocNext
    PROVE  RegInv' /\ StackInv'
<1>1. ASSUME NEW c \in Callers, MapStacks(c) PROVE RegInv' /\ StackInv'
  <2>1. /\ c \in Mappers /\ StackBatch \in Nat \ {0} /\ FALSE \in BOOLEAN
        /\ c # Collector
    BY Everybody, RegistryAssumption
  <2>2. /\ TakeNode(c, StackBatch, FALSE) \/ MapBlock(c, StackBatch, FALSE)
        /\ call[c].pc = "map" /\ UNCHANGED registryVars
    BY <1>1 DEF MapStacks, AllocMmap
  <2>3. StackInv'
    BY <2>1, <2>2, MmapBegins
  <2> QED
    BY <2>2, <2>3, RegistryKept
<1>2. ASSUME NEW c \in Callers, StacksMapped(c) PROVE RegInv' /\ StackInv'
  BY <1>2, BatchStep
<1>3. CASE MapAggregate
  <2>1. /\ Collector \in Mappers /\ Collector \notin Callers
        /\ 1 \in Nat \ {0} /\ TRUE \in BOOLEAN
    BY Everybody
  <2>2. /\ TakeNode(Collector, 1, TRUE) \/ MapBlock(Collector, 1, TRUE)
        /\ UNCHANGED registryVars
    BY <1>3 DEF MapAggregate, AllocMmap
  <2>3. StackInv'
    BY <2>1, <2>2, MmapBegins
  <2> QED
    BY <2>2, <2>3, RegistryKept
<1>4. CASE AggregateMapped
  BY <1>4, CollectorDone, RegistryKept DEF AggregateMapped
<1>5. CASE UnmapAggregate
  BY <1>5, MunmapBegins, RegistryKept DEF UnmapAggregate
<1>6. ASSUME NEW c \in Mappers, AllocStep(c), UNCHANGED registryVars
      PROVE  RegInv' /\ StackInv'
  BY <1>6, AllocStepStack, RegistryKept
<1> QED
  BY <1>1, <1>2, <1>3, <1>4, <1>5, <1>6 DEF AllocNext

LEMMA StackNext == RegInv /\ AllocInv /\ StackInv /\ [Next]_vars => RegInv' /\ StackInv'
<1> SUFFICES ASSUME RegInv, AllocInv, StackInv, [Next]_vars PROVE RegInv' /\ StackInv'
  OBVIOUS
<1>1. CASE RegistryStep /\ UNCHANGED allocVars
  BY <1>1, RegistryStepInv
<1>2. ASSUME NEW t \in Workers, LeaveList(t) PROVE RegInv' /\ StackInv'
  BY <1>2, LeaveStep, LifeStack DEF LeaveList
<1>3. CASE AllocNext
  BY <1>3, AllocNextStack
<1>4. CASE Fork \/ AddStackRange \/ ChildGone
  BY <1>4, NothingMoves DEF Fork, AddStackRange, ChildGone
<1>5. CASE UNCHANGED vars
  BY <1>5, NothingMoves DEF vars
<1> QED
  BY <1>1, <1>2, <1>3, <1>4, <1>5 DEF Next

LEMMA StackExclusiveHolds == RegInv /\ StackInv => StackExclusive
<1> SUFFICES ASSUME RegInv, StackInv PROVE StackExclusive
  OBVIOUS
<1>1. ASSUME NEW t \in Workers, thread[t].pc # "none", td[thread[t].td].ours
      PROVE  thread[t].td \in Holders
  BY <1>1 DEF RegInv, RegTypeOK, Holders, Alive
<1>2. ASSUME NEW t \in Workers, NEW u \in Workers, t # u,
             thread[t].pc # "none", thread[u].pc # "none"
      PROVE  thread[t].td # thread[u].td
  BY <1>2 DEF RegInv, OwnerInv, Alive
<1> QED
  BY <1>1, <1>2 DEF StackInv, StackExclusive

LEMMA StackAlways == Spec => [](RegInv /\ AllocInv /\ StackInv)
<1>1. Init => RegInv /\ AllocInv /\ StackInv
  BY AllocInit, StackInit
<1>2. RegInv /\ AllocInv /\ StackInv /\ [Next]_vars => RegInv' /\ AllocInv' /\ StackInv'
  BY AllocNextInv, StackNext
<1> QED
  BY <1>1, <1>2, PTL DEF Spec

\* As long as every creation succeeds, the thread list holds the structures of exactly
\* the threads that have been registered and have not left, the staged list those of
\* the exited threads not joined yet, both end, and what the pool holds is in neither
\* of them nor in anybody's hands, for every number of threads and structures
\* (forkscan_util_thread_list_add and _remove, forkscan_util_thread_data_decr_ref and
\* _cleanup, the wrappers of pthread_create, pthread_exit and pthread_join).
THEOREM RegistryIsSound == Spec => []RegistrySound
BY StackAlways, RegistrySoundHolds, PTL

\* No stack of Forkscan is ever the stack of two threads, or that of a thread and in
\* the pool, also when creations fail and stacks and structures are recycled: a batch
\* is mapped where nothing was, and what the collector unmaps is never a batch
\* (forkscan_buffer_makestack, forkscan_buffer_freestack, alloc_mmap).
THEOREM StacksAreExclusive == Spec => []StackExclusive
BY StackAlways, StackExclusiveHolds, PTL

-----------------------------------------------------------------------------
(***************************************************************************)
(* The walk of the child.  R are the structures that it has still to       *)
(* visit: they are linked from where it is, whatever is added in front.    *)
(***************************************************************************)
StacksOf(D) == {td[d].stack : d \in {e \in D : td[e].ours}}

Rest(R) ==
    /\ R \subseteq Members /\ IsList(Nexts, child.at, R)
    /\ child.running \subseteq InSeq(child.stacks) \cup StacksOf(R)
    /\ InSeq(child.stacks) \subseteq StacksOf(Members \ R)

ChildFields == {"pc", "g_n_ranges", "at", "stacks", "running", "left"}

\* The claim is about a round in which nobody exits and no creation has failed.
Calm == ~ child.left /\ ~ failed

ChildInv ==
    /\ DOMAIN child = ChildFields /\ child.left \in BOOLEAN
    /\ Calm /\ child.pc \in {"walk", "scan"} =>
          child.stacks \in Seq(Int) /\ Distinct(child.stacks)
    /\ Calm /\ child.pc = "walk" => \E R : Rest(R)
    /\ Calm /\ child.pc = "scan" => child.running \subseteq InSeq(child.stacks)

\* The list may grow, and its structures keep their links and their stacks.
Steady ==
    /\ failed => failed'
    /\ Members \subseteq Members'
    /\ \A d \in Members : /\ td'[d].next = td[d].next /\ td'[d].ours = td[d].ours
                          /\ td'[d].stack = td[d].stack

LEMMA SteadyChild ==
    ASSUME RegTypeOK, RegTypeOK', ChildInv, UNCHANGED child, Calm' => Steady
    PROVE  ChildInv'
<1>1. Calm' => Calm
  BY DEF Calm, Steady
<1>2. ASSUME Calm', child.pc = "walk" PROVE \E R : Rest(R)'
  <2>1. PICK R : Rest(R)
    BY <1>1, <1>2 DEF ChildInv
  <2>2. R \subseteq Tds
    BY <2>1, Alone DEF Rest
  <2>3. \A d \in R : Nexts'[d] = Nexts[d]
    BY <1>2, <2>1, <2>2 DEF Steady, Rest, Nexts
  <2>4. IsList(Nexts', child.at, R)
    BY <2>1, <2>3, ListKept DEF Rest
  <2>5. StacksOf(R) = StacksOf(R)'
    BY <1>2, <2>1 DEF StacksOf, Steady, Rest
  <2>6. StacksOf(Members \ R) \subseteq StacksOf(Members \ R)'
    BY <1>2 DEF StacksOf, Steady
  <2>7. R \subseteq Members'
    BY <1>2, <2>1 DEF Steady, Rest
  <2> QED
    BY <2>1, <2>4, <2>5, <2>6, <2>7 DEF Rest
<1> QED
  BY <1>1, <1>2 DEF ChildInv

LEMMA MembersGrow ==
    ASSUME \A c \in Callers : call[c].pc = "orig" =>
              \/ call'[c].pc = "orig" /\ call'[c].td = call[c].td
              \/ \E t \in Workers : /\ thread'[t].pc = "ready"
                                    /\ thread'[t].td = call[c].td,
           \A t \in Workers : thread[t].pc \in {"ready", "active"} =>
              thread'[t].pc \in {"ready", "active"} /\ thread'[t].td = thread[t].td
    PROVE  Members \subseteq Members'
<1>1. Awaited \subseteq Awaited' \cup OfThreads({"ready", "active"})'
  BY DEF Awaited, OfThreads
<1>2. OfThreads({"ready", "active"}) \subseteq OfThreads({"ready", "active"})'
  BY DEF OfThreads
<1> QED
  BY <1>1, <1>2 DEF Members

\* A structure of the list is not in the pool, not being created, not exiting.
LEMMA NotMember ==
    ASSUME RegInv
    PROVE  /\ Members \cap InSeq(threaddata_pool) = {}
           /\ \A c \in Callers : Busy(c) /\ call[c].pc # "orig" => call[c].td \notin Members
           /\ \A t \in Workers : Alive(t) /\ thread[t].pc \notin {"ready", "active"} =>
                 thread[t].td \notin Members
<1> USE DEF RegInv
<1>1. Members \cap InSeq(threaddata_pool) = {}
  BY DEF OwnerInv, Members, Awaited, OfThreads, Alive, Busy
<1>2. \A c \in Callers : Busy(c) /\ call[c].pc # "orig" => call[c].td \notin Members
  BY DEF OwnerInv, Members, Awaited, OfThreads, Alive, Busy
<1>3. \A t \in Workers : Alive(t) /\ thread[t].pc \notin {"ready", "active"} =>
         thread[t].td \notin Members
  BY DEF OwnerInv, Members, Awaited, OfThreads, Alive, Busy
<1> QED
  BY <1>1, <1>2, <1>3

LEMMA TdsKept ==
    ASSUME RegTypeOK, NEW d \in Tds, d \notin Members, \A e \in Tds : e # d => td'[e] = td[e]
    PROVE  \A e \in Members : /\ td'[e].next = td[e].next /\ td'[e].ours = td[e].ours
                              /\ td'[e].stack = td[e].stack
BY Alone

LEMMA CallsSteady ==
    ASSUME RegInv, NEW c \in Callers, ~ failed',
           \/ \E ours \in BOOLEAN : ThreadDataNew(c, ours)
           \/ MakeStack(c) \/ ListAdd(c) \/ FreeThreadData(c) \/ CreateFails(c)
           \/ \E base : MakeBatch(c, base)
    PROVE  Steady
<1> USE DEF RegInv
<1>1. CASE \E ours \in BOOLEAN : ThreadDataNew(c, ours)
  <2>1. PICK ours \in BOOLEAN : ThreadDataNew(c, ours)
    BY <1>1
  <2>2. PICK d \in Tds, x \in TdRecs :
              /\ call[c].pc = "idle" /\ d \in InSeq(threaddata_pool)
              /\ threaddata_pool' \in Seq(Tds) /\ Distinct(threaddata_pool')
              /\ InSeq(threaddata_pool') = InSeq(threaddata_pool) \ {d}
              /\ CallSet(c, IF ours THEN "stack" ELSE "add", d)
              /\ TdFields(x, td[d].next, td[d].self, td[d].stack, td[d].ours /\ ours, 1)
              /\ TdSet(d, x)
              /\ UNCHANGED <<head, staged, stack_pool, thread, failed>>
    BY <2>1, NewEffect
  <2>3. d \notin Members /\ \A e \in Tds : e # d => td'[e] = td[e]
    BY <2>2, NotMember DEF TdSet
  <2>4. Members \subseteq Members'
    BY <2>2, MembersGrow DEF CallSet
  <2> QED
    BY <2>2, <2>3, <2>4, TdsKept DEF Steady
<1>2. CASE MakeStack(c) \/ \E base : MakeBatch(c, base)
  <2>1. PICK d \in Tds : d = call[c].td /\ call[c].pc \in {"stack", "map"}
    BY <1>2 DEF MakeStack, MakeBatch, RegTypeOK, Busy
  <2>2. d \notin Members
    BY <2>1, NotMember DEF Busy
  <2>3. \A e \in Tds : e # d => td'[e] = td[e]
    BY <1>2, <2>1 DEF MakeStack, MakeBatch, RegTypeOK
  <2>4. \A b \in Callers : b # c => call'[b] = call[b]
    BY <1>2 DEF MakeStack, MakeBatch, RegTypeOK
  <2>5. UNCHANGED <<thread, failed>>
    BY <1>2 DEF MakeStack, MakeBatch
  <2>6. Members \subseteq Members'
    BY <2>1, <2>4, <2>5, MembersGrow
  <2> QED
    BY <2>2, <2>3, <2>5, <2>6, TdsKept DEF Steady
<1>3. CASE ListAdd(c)
  <2>1. PICK d \in Tds : d = call[c].td /\ call[c].pc = "add"
    BY <1>3 DEF ListAdd, RegTypeOK, Busy
  <2>2. d \notin Members
    BY <2>1, NotMember DEF Busy
  <2>3. \A e \in Tds : e # d => td'[e] = td[e]
    BY <1>3, <2>1 DEF ListAdd, RegTypeOK
  <2>4. UNCHANGED <<thread, failed>> /\ \A b \in Callers : b # c => call'[b] = call[b]
    BY <1>3 DEF ListAdd, RegTypeOK
  <2>5. Members \subseteq Members'
    BY <2>1, <2>4, MembersGrow
  <2> QED
    BY <2>2, <2>3, <2>4, <2>5, TdsKept DEF Steady
<1>4. CASE FreeThreadData(c)
  <2>1. /\ UNCHANGED <<td, thread, failed>> /\ call[c].pc = "free"
        /\ \A b \in Callers : b # c => call'[b] = call[b]
    BY <1>4 DEF FreeThreadData, RegTypeOK
  <2>2. Members \subseteq Members'
    BY <2>1, MembersGrow
  <2> QED
    BY <2>1, <2>2 DEF Steady
<1>5. CASE CreateFails(c)
  BY <1>5 DEF CreateFails
<1> QED
  BY <1>1, <1>2, <1>3, <1>4, <1>5

LEMMA CreateSteady ==
    ASSUME RegInv, NEW c \in Callers, NEW t \in Workers, OrigCreate(c, t)
    PROVE  Steady
<1>1. PICK d \in Tds : d = call[c].td /\ call[c].pc = "orig" /\ thread[t].pc = "none"
  BY DEF RegInv, RegTypeOK, Busy, OrigCreate
<1>2. ThreadSet(t, "ready", d)
  BY <1>1, ThreadSetTo DEF OrigCreate, Slots, RegInv
<1>3. UNCHANGED <<td, failed>> /\ \A b \in Callers : b # c => call'[b] = call[b]
  BY DEF OrigCreate, RegInv, RegTypeOK
<1>4. Members \subseteq Members'
  BY <1>1, <1>2, <1>3, MembersGrow DEF ThreadSet
<1> QED
  BY <1>3, <1>4 DEF Steady

LEMMA JoinSteady ==
    ASSUME RegInv, NEW c \in Callers, NEW t \in Workers, Unstage(c, t)
    PROVE  Steady
<1> USE DEF RegInv
<1>1. PICK d : d = thread[t].td
  OBVIOUS
<1>2. /\ UNCHANGED failed /\ call[c].pc = "idle" /\ thread[t].pc = "ended"
      /\ \A b \in Callers : b # c => call'[b] = call[b]
      /\ \A u \in Workers : u # t => thread'[u] = thread[u]
  <2>1. call' = [call EXCEPT ![c] = [pc |-> "free", td |-> d]]
    BY <1>1, JoinEffect
  <2> QED
    BY <2>1 DEF Unstage, MayCall, RegTypeOK
<1>3. Members \subseteq Members'
  BY <1>2, MembersGrow
<1>4. \A e \in OfThreads({"staged", "ended"}) : e \notin Members
  BY NotMember DEF OfThreads, Alive
<1>5. \/ UNCHANGED td
      \/ \E w \in OfThreads({"staged", "ended"}) : \A e \in Tds : e # w => td'[e] = td[e]
  BY <1>1, JoinEffect DEF TdSet
<1>6. \A e \in Members : td'[e] = td[e]
  BY <1>4, <1>5, Alone
<1> QED
  BY <1>2, <1>3, <1>6 DEF Steady

LEMMA LifeSteady ==
    ASSUME RegInv, NEW t \in Workers, StartThread(t) \/ DecrRef(t) \/ OrigExit(t)
    PROVE  Steady
<1> USE DEF RegInv
<1>1. CASE StartThread(t)
  <2>1. PICK d \in Tds : d = thread[t].td /\ thread[t].pc = "ready"
    BY <1>1 DEF RegTypeOK, Alive, StartThread
  <2>2. ThreadSet(t, "active", d)
    BY <1>1, <2>1, ThreadSetPc DEF StartThread
  <2>3. PICK x : /\ TdFields(x, td[d].next, t, td[d].stack, td[d].ours, td[d].ref_count)
                 /\ TdSet(d, x)
    BY <1>1, <2>1, SelfTdSet DEF StartThread, Callers
  <2>4. UNCHANGED <<call, failed>>
    BY <1>1 DEF StartThread
  <2>5. Members \subseteq Members'
    BY <2>1, <2>2, <2>4, MembersGrow DEF ThreadSet
  <2>6. \A e \in Tds : /\ td'[e].next = td[e].next /\ td'[e].ours = td[e].ours
                       /\ td'[e].stack = td[e].stack
    BY <2>3 DEF TdFields, TdSet
  <2> QED
    BY <2>4, <2>5, <2>6, Alone DEF Steady
<1>2. CASE DecrRef(t)
  <2>1. PICK d \in Tds : d = thread[t].td /\ thread[t].pc = "unlisted"
    BY <1>2 DEF RegTypeOK, Alive, DecrRef
  <2>2. d \notin Members
    BY <2>1, NotMember DEF Alive
  <2>3. \A e \in Tds : e # d => td'[e] = td[e]
    BY <1>2, <2>1 DEF DecrRef, RegTypeOK
  <2>4. UNCHANGED <<call, failed>> /\ \A u \in Workers : u # t => thread'[u] = thread[u]
    BY <1>2 DEF DecrRef, RegTypeOK
  <2>5. Members \subseteq Members'
    BY <2>1, <2>4, MembersGrow
  <2> QED
    BY <2>2, <2>3, <2>4, <2>5, TdsKept DEF Steady
<1>3. CASE OrigExit(t)
  <2>1. /\ UNCHANGED <<td, call, failed>> /\ thread[t].pc = "staged"
        /\ \A u \in Workers : u # t => thread'[u] = thread[u]
    BY <1>3 DEF OrigExit, RegTypeOK
  <2>2. Members \subseteq Members'
    BY <2>1, MembersGrow
  <2> QED
    BY <2>1, <2>2 DEF Steady
<1> QED
  BY <1>1, <1>2, <1>3

LEMMA RegistrySteady ==
    ASSUME RegInv, RegistryStep, ~ failed'
    PROVE  Steady
<1>1. ASSUME NEW c \in Callers,
             \/ \E ours \in BOOLEAN : ThreadDataNew(c, ours)
             \/ MakeStack(c) \/ ListAdd(c) \/ FreeThreadData(c) \/ CreateFails(c)
      PROVE  Steady
  BY <1>1, CallsSteady
<1>2. ASSUME NEW c \in Callers, NEW t \in Workers, OrigCreate(c, t) \/ Unstage(c, t)
      PROVE  Steady
  BY <1>2, CreateSteady, JoinSteady
<1>3. ASSUME NEW t \in Workers, StartThread(t) \/ DecrRef(t) \/ OrigExit(t) PROVE Steady
  BY <1>3, LifeSteady
<1> QED
  BY <1>1, <1>2, <1>3 DEF RegistryStep

\* A list is at its end, or goes on behind its first structure.
LEMMA ListFront ==
    ASSUME NEW next, NEW first, NEW D, IsList(next, first, D)
    PROVE  \/ first = NULL /\ D = {}
           \/ first # NULL /\ first \in D /\ IsList(next, next[first], D \ {first})
<1>0. PICK n \in Nat : \E f \in [1 .. n -> Tds] : Chain(next, f, n, first, D)
  BY DEF IsList
<1>1. PICK f \in [1 .. n -> Tds] : Chain(next, f, n, first, D)
  BY <1>0
<1>2. CASE n = 0
  BY <1>1, <1>2 DEF Chain
<1>3. CASE n # 0
  <2>1. first = f[1] /\ 1 \in 1 .. n
    BY <1>1, <1>3 DEF Chain
  <2>2. first \in D /\ first # NULL
    BY <1>1, <2>1, RegistryAssumption DEF Chain
  <2>3. \A e \in D : next[e] = next[e]
    OBVIOUS
  <2>4. IsList(next, next[first], D \ {first})
    BY <2>2, <2>3, ListRemoved
  <2> QED
    BY <2>2, <2>4
<1> QED
  BY <1>2, <1>3

\* The structures of the list with a stack of Forkscan hold different stacks.
LEMMA MembersHold ==
    ASSUME RegInv, StackInv
    PROVE  /\ \A d \in Members : td[d].ours => d \in Holders /\ td[d].stack \in Int
           /\ \A d, e \in Members :
                 td[d].ours /\ td[e].ours /\ td[d].stack = td[e].stack => d = e
<1> USE DEF RegInv
<1>1. ASSUME NEW d \in Members, td[d].ours PROVE d \in Holders
  <2>1. d # MainTd /\ d \in Tds
    BY <1>1, Alone DEF FieldInv
  <2> QED
    BY <1>1, <2>1 DEF Members, Awaited, OfThreads, Holders, Alive
<1>2. \A d \in Tds : td[d].stack \in Int
  BY DEF RegTypeOK, TdRecs
<1> QED
  BY <1>1, <1>2, Alone DEF StackInv

\* What add_stack_ranges does to the child.
LEMMA ChildSet ==
    ASSUME DOMAIN child = ChildFields
    PROVE  /\ \A p : LET x == [child EXCEPT !.pc = p] IN
                 /\ DOMAIN x = ChildFields /\ x.pc = p /\ x.at = child.at
                 /\ x.stacks = child.stacks
                 /\ x.running = child.running /\ x.left = child.left
           /\ \A a : LET x == [child EXCEPT !.at = a] IN
                 /\ DOMAIN x = ChildFields /\ x.pc = child.pc /\ x.at = a
                 /\ x.stacks = child.stacks
                 /\ x.running = child.running /\ x.left = child.left
           /\ \A b : LET x == [child EXCEPT !.left = b] IN
                 /\ DOMAIN x = ChildFields /\ x.pc = child.pc /\ x.at = child.at
                 /\ x.stacks = child.stacks
                 /\ x.running = child.running /\ x.left = b
           /\ \A a, s : LET x == [child EXCEPT !.stacks = s, !.at = a] IN
                 /\ DOMAIN x = ChildFields /\ x.pc = child.pc /\ x.at = a
                 /\ x.stacks = s
                 /\ x.running = child.running /\ x.left = child.left
BY DEF ChildFields

LEMMA StackScanned ==
    ASSUME NEW S, NEW s \in Seq(S), NEW v \in S, Distinct(s), v \notin InSeq(s)
    PROVE  /\ Append(s, v) \in Seq(S) /\ Distinct(Append(s, v))
           /\ InSeq(Append(s, v)) = InSeq(s) \cup {v}
<1>1. PICK n \in Nat : n = Len(s) /\ DOMAIN s = 1 .. n
  BY LenProperties
<1>2. PICK u : u = Append(s, v)
  OBVIOUS
<1>3. /\ u \in Seq(S) /\ DOMAIN u = 1 .. (n + 1) /\ u[n + 1] = v
      /\ \A i \in 1 .. n : u[i] = s[i]
  BY <1>1, <1>2, AppendProperties
<1>4. /\ \A i \in 1 .. n : i \in 1 .. (n + 1)
      /\ \A i \in 1 .. (n + 1) : i \in 1 .. n \/ i = n + 1
      /\ n + 1 \in 1 .. (n + 1)
  OBVIOUS
<1>5. \A i \in 1 .. n : s[i] # v
  BY <1>1 DEF InSeq
<1>6. Distinct(u)
  BY <1>1, <1>3, <1>4, <1>5 DEF Distinct
<1>7. InSeq(u) = InSeq(s) \cup {v}
  BY <1>1, <1>3, <1>4 DEF InSeq
<1> QED
  BY <1>2, <1>3, <1>6, <1>7

\* The child is forked with the list of the moment ahead of it.
LEMMA ForkStep ==
    ASSUME RegInv, Fork
    PROVE  ChildInv'
<1> USE DEF RegInv
<1>1. UNCHANGED <<td, head, thread, call, failed>>
  BY DEF Fork, registryVars
<1>2. PICK n : n = Len(MapIterate)
  OBVIOUS
<1>3. PICK p : p = IF n >= MaxRanges THEN "fatal" ELSE "walk"
  OBVIOUS
<1>4. child' = [pc |-> p, g_n_ranges |-> n, at |-> head, stacks |-> <<>>,
                running |-> RunningStacks, left |-> FALSE]
  BY <1>2, <1>3 DEF Fork
<1>5. /\ DOMAIN child' = ChildFields /\ child'.left = FALSE /\ child'.pc = p
      /\ child'.at = head /\ child'.stacks = <<>> /\ child'.running = RunningStacks
  BY <1>4 DEF ChildFields
<1>6. <<>> \in Seq(Int) /\ Distinct(<<>>) /\ InSeq(<<>>) = {}
  BY DEF Distinct, InSeq
<1>7. Members' = Members /\ Nexts' = Nexts
  BY <1>1 DEF Members, Awaited, OfThreads, Nexts
<1>8. ASSUME ~ failed PROVE Rest(Members)'
  <2>1. IsList(Nexts, head, Members)
    BY <1>8 DEF ListInv
  <2>2. RunningStacks \subseteq StacksOf(Members)'
    BY <1>1, <1>7 DEF RunningStacks, StacksOf, Members, OfThreads
  <2>3. IsList(Nexts', child'.at, Members')
    BY <1>5, <1>7, <2>1
  <2>4. child'.running \subseteq InSeq(child'.stacks) \cup StacksOf(Members)'
    BY <1>5, <2>2
  <2>5. InSeq(child'.stacks) = {}
    BY <1>5, <1>6
  <2> QED
    BY <2>3, <2>4, <2>5 DEF Rest
<1>9. Calm' => ~ failed
  BY <1>1 DEF Calm
<1>10. p # "scan"
  BY <1>3
<1> QED
  BY <1>5, <1>6, <1>8, <1>9, <1>10 DEF ChildInv

\* The child visits a structure, or is at the end of the list.
LEMMA WalkStep ==
    ASSUME RegInv, StackInv, ChildInv, AddStackRange
    PROVE  ChildInv'
<1> USE DEF RegInv
<1>1. /\ UNCHANGED <<td, head, thread, call, failed>> /\ child.pc = "walk"
      /\ DOMAIN child = ChildFields /\ child.left \in BOOLEAN
  BY DEF AddStackRange, registryVars, ChildInv
<1>2. /\ Members' = Members /\ Nexts' = Nexts
      /\ \A D : StacksOf(D)' = StacksOf(D)
  BY <1>1 DEF Members, Awaited, OfThreads, Nexts, StacksOf
<1>3. CASE ~ Calm
  <2>1. DOMAIN child' = ChildFields /\ child'.left = child.left
    BY <1>1, ChildSet DEF AddStackRange
  <2> QED
    BY <1>1, <1>3, <2>1 DEF ChildInv, Calm
<1>4. CASE Calm
  <2>1. PICK R : Rest(R)
    BY <1>1, <1>4 DEF ChildInv
  <2>2. child.stacks \in Seq(Int) /\ Distinct(child.stacks)
    BY <1>1, <1>4 DEF ChildInv
  <2>3. CASE child.at = NULL
    <3>1. child' = [child EXCEPT !.pc = "scan"]
      BY <2>3 DEF AddStackRange
    <3>2. /\ DOMAIN child' = ChildFields /\ child'.pc = "scan" /\ child'.left = child.left
          /\ child'.stacks = child.stacks /\ child'.running = child.running
      BY <1>1, <3>1, ChildSet
    <3>3. R = {}
      BY <2>1, <2>3, ListFront DEF Rest
    <3>4. child.running \subseteq InSeq(child.stacks)
      BY <2>1, <3>3 DEF Rest, StacksOf
    <3> QED
      BY <1>1, <2>2, <3>2, <3>4 DEF ChildInv
  <2>4. CASE child.at # NULL
    <3>1. PICK d : d = child.at
      OBVIOUS
    <3>2. d \in R /\ IsList(Nexts, Nexts[d], R \ {d}) /\ d \in Members /\ d \in Tds
      BY <2>1, <2>4, <3>1, ListFront, Alone DEF Rest
    <3>3. Nexts[d] = td[d].next
      BY <3>2 DEF Nexts
    <3>4. /\ StacksOf(R) \subseteq StacksOf(R \ {d}) \cup StacksOf({d})
          /\ StacksOf(Members \ (R \ {d})) = StacksOf(Members \ R) \cup StacksOf({d})
      BY <3>2 DEF StacksOf
    <3>5. CASE ~ td[d].ours
      <4>1. child' = [child EXCEPT !.at = td[d].next]
        BY <2>4, <3>1, <3>5 DEF AddStackRange
      <4>2. /\ DOMAIN child' = ChildFields /\ child'.pc = "walk" /\ child'.left = child.left
            /\ child'.stacks = child.stacks /\ child'.running = child.running
            /\ child'.at = td[d].next
        BY <1>1, <4>1, ChildSet
      <4>3. StacksOf({d}) = {}
        BY <3>5 DEF StacksOf
      <4>4. Rest(R \ {d})'
        BY <1>2, <2>1, <3>2, <3>3, <3>4, <4>2, <4>3 DEF Rest
      <4> QED
        BY <1>1, <2>2, <4>2, <4>4 DEF ChildInv
    <3>6. CASE td[d].ours /\ child' = [child EXCEPT !.pc = "overrun"]
      <4>1. /\ DOMAIN child' = ChildFields /\ child'.pc = "overrun"
            /\ child'.left = child.left
        BY <1>1, <3>6, ChildSet
      <4> QED
        BY <1>1, <4>1 DEF ChildInv
    <3>7. CASE /\ td[d].ours
               /\ child' = [child EXCEPT !.stacks = Append(@, td[d].stack),
                                         !.at = td[d].next]
      <4>1. PICK v \in Int : v = td[d].stack
        BY <3>2, <3>7, MembersHold
      <4>2. PICK s : s = Append(child.stacks, v)
        OBVIOUS
      <4>3. child' = [child EXCEPT !.stacks = s, !.at = td[d].next]
        BY <3>7, <4>1, <4>2
      <4>4. /\ DOMAIN child' = ChildFields /\ child'.pc = "walk" /\ child'.left = child.left
            /\ child'.stacks = s /\ child'.running = child.running
            /\ child'.at = td[d].next
        BY <1>1, <4>3, ChildSet
      <4>5. StacksOf({d}) = {v}
        BY <3>7, <4>1 DEF StacksOf
      <4>6. v \notin InSeq(child.stacks)
        <5>1. v \notin StacksOf(Members \ R)
          BY <3>2, <3>7, <4>1, MembersHold DEF StacksOf
        <5> QED
          BY <2>1, <5>1 DEF Rest
      <4>7. s \in Seq(Int) /\ Distinct(s) /\ InSeq(s) = InSeq(child.stacks) \cup {v}
        BY <2>2, <4>1, <4>2, <4>6, StackScanned
      <4>8. Rest(R \ {d})'
        BY <1>2, <2>1, <3>2, <3>3, <3>4, <4>4, <4>5, <4>7 DEF Rest
      <4> QED
        BY <1>1, <4>4, <4>7, <4>8 DEF ChildInv
    <3> QED
      BY <2>4, <3>1, <3>5, <3>6, <3>7 DEF AddStackRange
  <2> QED
    BY <2>3, <2>4
<1> QED
  BY <1>3, <1>4

LEMMA ChildNext ==
    RegInv /\ AllocInv /\ StackInv /\ ChildInv /\ [Next]_vars => ChildInv'
<1> SUFFICES ASSUME RegInv, AllocInv, StackInv, ChildInv, [Next]_vars PROVE ChildInv'
  OBVIOUS
<1>0. RegInv'
  BY StackNext
<1>1. RegTypeOK /\ RegTypeOK'
  BY <1>0 DEF RegInv
<1>2. CASE RegistryStep /\ UNCHANGED child
  <2>1. Calm' => Steady
    BY <1>2, RegistrySteady DEF Calm
  <2> QED
    BY <1>1, <1>2, <2>1, SteadyChild
<1>3. CASE UNCHANGED registryVars /\ UNCHANGED child
  <2>1. Steady
    BY <1>3 DEF registryVars, Steady, Members, Awaited, OfThreads
  <2> QED
    BY <1>1, <1>3, <2>1, SteadyChild
<1>4. ASSUME NEW c \in Callers, StacksMapped(c) PROVE ChildInv'
  <2>1. \E base : MakeBatch(c, base)
    BY <1>4 DEF StacksMapped
  <2>2. Calm' => Steady
    BY <2>1, CallsSteady DEF Calm
  <2> QED
    BY <1>1, <1>4, <2>2, SteadyChild DEF StacksMapped
<1>5. CASE AllocNext
  BY <1>3, <1>4, <1>5 DEF AllocNext, MapStacks, MapAggregate, AggregateMapped, UnmapAggregate
<1>6. ASSUME NEW t \in Workers, LeaveList(t) PROVE ChildInv'
  <2>1. UNCHANGED failed
    BY <1>6 DEF LeaveList, ListRemove
  <2>2. PICK b \in BOOLEAN : b <=> (child.left \/ child.pc = "walk")
    OBVIOUS
  <2>3. child' = [child EXCEPT !.left = b]
    BY <1>6, <2>2 DEF LeaveList, ChildInv
  <2>4. /\ DOMAIN child' = ChildFields /\ child'.pc = child.pc /\ child'.left = b
        /\ child'.stacks = child.stacks /\ child'.running = child.running
    BY <2>3, ChildSet DEF ChildInv
  <2>5. Calm' => Calm /\ child.pc # "walk"
    BY <2>1, <2>2, <2>4 DEF Calm, ChildInv
  <2> QED
    BY <2>4, <2>5 DEF ChildInv
<1>7. CASE Fork
  BY <1>7, ForkStep
<1>8. CASE AddStackRange
  BY <1>8, WalkStep
<1>9. CASE ChildGone
  <2>1. child' = NoChild
    BY <1>9 DEF ChildGone
  <2>2. DOMAIN child' = ChildFields /\ child'.pc = "none" /\ child'.left = FALSE
    BY <2>1 DEF NoChild, ChildFields
  <2> QED
    BY <2>2 DEF ChildInv
<1>10. CASE UNCHANGED vars
  BY <1>3, <1>10 DEF vars
<1> QED
  BY <1>2, <1>5, <1>6, <1>7, <1>8, <1>9, <1>10 DEF Next

LEMMA ChildInit == Init => ChildInv
BY DEF Init, NoChild, ChildInv, ChildFields

LEMMA StacksKeptHolds == ChildInv => StacksKept
<1> SUFFICES ASSUME ChildInv, child.pc = "scan", ~ child.left, ~ failed
             PROVE  /\ child.running \subseteq InSeq(child.stacks)
                    /\ Cardinality(InSeq(child.stacks)) = Len(child.stacks)
  BY DEF StacksKept
<1>1. child.stacks \in Seq(Int) /\ Distinct(child.stacks)
  BY DEF ChildInv, Calm
<1> QED
  BY <1>1, DistinctCount DEF ChildInv, Calm

\* If no thread exits while the child walks the list, and no creation has ever
\* failed, the child scans the stack of every thread that ran when it was forked, and
\* no stack twice, although the parent adds threads to the list, joins others and
\* recycles their structures while the child reads them (add_stack_ranges, which walks
\* structures in shared memory; forkscan_util_thread_list_add adds at the front).
THEOREM StacksAreKept == Spec => []StacksKept
<1>1. Init => ChildInv
  BY ChildInit
<1>2. (RegInv /\ AllocInv /\ StackInv) /\ ChildInv /\ [Next]_vars => ChildInv'
  BY ChildNext
<1>3. Spec => []ChildInv
  BY <1>1, <1>2, StackAlways, PTL DEF Spec
<1> QED
  BY <1>3, StacksKeptHolds, PTL

-----------------------------------------------------------------------------
(***************************************************************************)
(* Sequences of ranges.  Exact(q, S): the ranges of q hold the pages in S, *)
(* each once, and none is empty or above the maximum.                      *)
(***************************************************************************)
Exact(q, S) ==
    /\ q \in Seq(Bounds)
    /\ UNION {PagesOf(q[i]) : i \in DOMAIN q} = S
    /\ \A i, j \in DOMAIN q : i # j => PagesOf(q[i]) \cap PagesOf(q[j]) = {}
    /\ \A i \in DOMAIN q : q[i].low < q[i].high /\ q[i].high - q[i].low <= MaxRangeSize

\* No ranges, no pages.
LEMMA ExactNone == Exact(<<>>, {})
BY DEF Exact

\* One range.
LEMMA ExactOne ==
    ASSUME NEW r \in Bounds, r.low < r.high, r.high - r.low <= MaxRangeSize
    PROVE  Exact(<<r>>, PagesOf(r))
<1>1. <<r>> \in Seq(Bounds) /\ DOMAIN <<r>> = {1} /\ <<r>>[1] = r
  OBVIOUS
<1>2. PICK q : q = <<r>>
  OBVIOUS
<1> QED
  BY <1>1, <1>2 DEF Exact

\* The ranges of two sequences that have no page in common.
LEMMA ExactBoth ==
    ASSUME NEW q, NEW t, NEW S, NEW T, Exact(q, S), Exact(t, T), S \cap T = {}
    PROVE  Exact(q \o t, S \cup T)
<1>1. PICK m \in Nat : q \in Seq(Bounds) /\ m = Len(q) /\ DOMAIN q = 1 .. m
  BY LenProperties DEF Exact
<1>2. PICK n \in Nat : t \in Seq(Bounds) /\ n = Len(t) /\ DOMAIN t = 1 .. n
  BY LenProperties DEF Exact
<1>3. PICK u : u = q \o t
  OBVIOUS
<1>4. /\ u \in Seq(Bounds) /\ Len(u) = m + n
      /\ \A i \in 1 .. (m + n) : u[i] = IF i <= m THEN q[i] ELSE t[i - m]
  BY <1>1, <1>2, <1>3, ConcatProperties
<1>5. DOMAIN u = 1 .. (m + n)
  BY <1>1, <1>2, <1>4, LenProperties
<1>6. \A i \in DOMAIN u : \/ i \in DOMAIN q /\ u[i] = q[i]
                          \/ i - m \in DOMAIN t /\ i > m /\ i \notin DOMAIN q /\ u[i] = t[i - m]
  BY <1>1, <1>2, <1>4, <1>5
<1>7. /\ \A i \in DOMAIN q : i \in DOMAIN u /\ u[i] = q[i]
      /\ \A i \in DOMAIN t : i + m \in DOMAIN u /\ u[i + m] = t[i]
  <2>1. \A i \in DOMAIN q : i \in 1 .. (m + n) /\ i <= m
    BY <1>1, <1>2
  <2>2. \A i \in DOMAIN t : i + m \in 1 .. (m + n) /\ ~(i + m <= m) /\ i + m - m = i
    BY <1>1, <1>2
  <2>3. ASSUME NEW i \in DOMAIN t PROVE i + m \in DOMAIN u /\ u[i + m] = t[i]
    <3>1. PICK k : k = i + m
      OBVIOUS
    <3>2. k \in 1 .. (m + n) /\ ~(k <= m) /\ k - m = i
      BY <1>1, <1>2, <2>2, <3>1
    <3> QED
      BY <1>4, <1>5, <3>1, <3>2
  <2> QED
    BY <1>4, <1>5, <2>1, <2>3
<1>8. UNION {PagesOf(u[i]) : i \in DOMAIN u} = S \cup T
  <2>1. /\ \A x : x \in S <=> \E i \in DOMAIN q : x \in PagesOf(q[i])
        /\ \A x : x \in T <=> \E i \in DOMAIN t : x \in PagesOf(t[i])
    BY DEF Exact
  <2>2. \A x : (\E i \in DOMAIN u : x \in PagesOf(u[i])) <=> x \in S \/ x \in T
    <3>1. \A x, i : i \in DOMAIN u /\ x \in PagesOf(u[i]) => x \in S \/ x \in T
      BY <1>6, <2>1
    <3>2. \A x : x \in S => \E i \in DOMAIN u : x \in PagesOf(u[i])
      BY <1>7, <2>1
    <3>3. \A x : x \in T => \E i \in DOMAIN u : x \in PagesOf(u[i])
      BY <1>7, <2>1
    <3> QED
      BY <3>1, <3>2, <3>3, Zenon
  <2> QED
    BY <2>2
<1>9. ASSUME NEW i \in DOMAIN u, NEW j \in DOMAIN u, i # j
      PROVE  PagesOf(u[i]) \cap PagesOf(u[j]) = {}
  <2>1. \A k \in DOMAIN q : PagesOf(q[k]) \subseteq S
    BY DEF Exact
  <2>2. \A k \in DOMAIN t : PagesOf(t[k]) \subseteq T
    BY DEF Exact
  <2>3. CASE i \in DOMAIN q /\ u[i] = q[i]
    <3>1. CASE j \in DOMAIN q /\ u[j] = q[j]
      BY <1>9, <2>3, <3>1 DEF Exact
    <3>2. CASE j - m \in DOMAIN t /\ u[j] = t[j - m]
      BY <2>1, <2>2, <2>3, <3>2
    <3> QED
      BY <1>6, <3>1, <3>2
  <2>4. CASE i - m \in DOMAIN t /\ u[i] = t[i - m]
    <3>1. CASE j \in DOMAIN q /\ u[j] = q[j]
      BY <2>1, <2>2, <2>4, <3>1
    <3>2. CASE j - m \in DOMAIN t /\ u[j] = t[j - m]
      <4>1. i - m # j - m
        BY <1>1, <1>2, <1>5, <1>9
      <4> QED
        BY <2>4, <3>2, <4>1 DEF Exact
    <3> QED
      BY <1>6, <3>1, <3>2
  <2> QED
    BY <1>6, <2>3, <2>4
<1>10. \A i \in DOMAIN u : u[i].low < u[i].high /\ u[i].high - u[i].low <= MaxRangeSize
  BY <1>6 DEF Exact
<1>11. Exact(u, S \cup T)
  BY <1>4, <1>8, <1>9, <1>10, Zenon DEF Exact
<1> QED
  BY <1>3, <1>11

\* Whole pieces of the maximum, and a rest that is not empty.
LEMMA ChopBounds ==
    ASSUME NEW x \in Nat, NEW m \in Nat, m > 0
    PROVE  /\ x \div m \in Nat /\ (x \div m) * m \in Nat
           /\ (x \div m) * m <= x /\ x < (x \div m) * m + m
<1>1. x = m * (x \div m) + (x % m) /\ x % m \in 0 .. (m - 1)
  BY Z3
<1>2. x \div m \in Nat
  BY Z3
<1>3. (x \div m) * m = m * (x \div m) /\ (x \div m) * m \in Nat
  BY <1>2, Z3
<1> DEFINE a == (x \div m) * m
<1>4. x = a + (x % m) /\ a \in Nat
  BY <1>1, <1>3
<1> HIDE DEF a
<1>5. a <= x /\ x < a + m
  BY <1>1, <1>4
<1> QED
  BY <1>2, <1>4, <1>5 DEF a

\* collect_ranges chops a range without loss.
LEMMA ExactChopped ==
    ASSUME NEW r \in Bounds, r.low < r.high
    PROVE  Exact(Chopped(r), PagesOf(r))
<1> DEFINE M == MaxRangeSize
           n == (r.high - r.low - 1) \div M
           piece(i) == Region(r.low + (i - 1) * M, M)
           pieces(k) == [i \in 1 .. k |-> piece(i)]
<1>1. M \in Nat /\ M > 0 /\ r.low \in Nat /\ r.high \in Nat /\ r.high - r.low - 1 \in Nat
  BY ScanAssumption DEF Bounds
<1> HIDE DEF M
<1>2. /\ n \in Nat /\ n * M \in Nat
      /\ n * M <= r.high - r.low - 1 /\ r.high - r.low - 1 < n * M + M
  BY <1>1, ChopBounds
<1> HIDE DEF n
<1>3. \A k \in Nat : k * M \in Nat /\ (k + 1) * M = k * M + M
  BY <1>1, Z3
<1> DEFINE S == {k \in Nat : Exact(pieces(k), r.low .. (r.low + k * M - 1))}
<1>4. 0 \in S
  <2>1. pieces(0) = <<>> /\ 0 * M = 0
    BY <1>1
  <2>2. r.low .. (r.low + 0 * M - 1) = {}
    BY <1>1, <2>1
  <2> QED
    BY <2>1, <2>2, ExactNone
<1>5. ASSUME NEW k \in Nat, k \in S PROVE k + 1 \in S
  <2>1. PICK a \in Nat : a = k * M
    BY <1>3
  <2>2. PICK s \in Bounds : s = piece(k + 1) /\ s.low = r.low + a /\ s.high = r.low + a + M
    <3>1. ((k + 1) - 1) * M = a
      BY <2>1, <1>1, Z3
    <3>2. piece(k + 1) = Region(r.low + a, M)
      BY <3>1
    <3> HIDE DEF piece
    <3> QED
      BY <1>1, <3>2 DEF Region, Bounds
  <2>3. Exact(<<s>>, PagesOf(s)) /\ PagesOf(s) = (r.low + a) .. (r.low + a + M - 1)
    <3>1. s.low < s.high /\ s.high - s.low <= M
      BY <1>1, <2>2
    <3> HIDE DEF piece
    <3>2. Exact(<<s>>, PagesOf(s))
      BY <3>1, ExactOne DEF M
    <3> QED
      BY <1>1, <2>2, <3>2 DEF PagesOf
  <2>4. Exact(pieces(k), r.low .. (r.low + a - 1))
    BY <1>5, <2>1
  <2>5. pieces(k + 1) = pieces(k) \o <<s>>
    <3>1. PICK f : f = pieces(k)
      OBVIOUS
    <3>2. f \in Seq(Bounds) /\ Len(f) = k /\ \A i \in 1 .. k : f[i] = piece(i)
      BY <2>4, <3>1 DEF Exact
    <3>3. <<s>> \in Seq(Bounds) /\ Len(<<s>>) = 1 /\ <<s>>[1] = s
      OBVIOUS
    <3> HIDE DEF piece
    <3>4. PICK g : g = f \o <<s>>
      OBVIOUS
    <3>5. /\ g \in Seq(Bounds) /\ Len(g) = k + 1
          /\ \A i \in 1 .. (k + 1) : g[i] = IF i <= k THEN f[i] ELSE <<s>>[i - k]
      BY <3>2, <3>3, <3>4, ConcatProperties
    <3>6. DOMAIN g = 1 .. (k + 1) /\ \A i \in 1 .. (k + 1) : g[i] = piece(i)
      <4>1. DOMAIN g = 1 .. (k + 1)
        BY <3>5, LenProperties
      <4>2. ASSUME NEW i \in 1 .. (k + 1) PROVE g[i] = piece(i)
        <5>1. CASE i <= k
          BY <3>2, <3>5, <5>1
        <5>2. CASE i = k + 1
          BY <2>2, <3>3, <3>5, <5>2
        <5> QED
          BY <5>1, <5>2
      <4> QED
        BY <4>1, <4>2
    <3>7. g = [i \in 1 .. (k + 1) |-> g[i]]
      BY <3>5, <3>6
    <3> QED
      BY <3>1, <3>4, <3>6, <3>7
  <2>6. (r.low .. (r.low + a - 1)) \cap PagesOf(s) = {}
    BY <1>1, <2>3
  <2>7. (r.low .. (r.low + a - 1)) \cup PagesOf(s) = r.low .. (r.low + (k + 1) * M - 1)
    BY <1>1, <1>3, <2>1, <2>3
  <2> HIDE DEF pieces, piece
  <2>8. Exact(pieces(k + 1), r.low .. (r.low + (k + 1) * M - 1))
    <3>1. Exact(pieces(k) \o <<s>>, (r.low .. (r.low + a - 1)) \cup PagesOf(s))
      BY <2>3, <2>4, <2>6, ExactBoth, Zenon
    <3> QED
      BY <2>5, <2>7, <3>1, Zenon
  <2> QED
    BY <2>8
<1>6. n \in S
  <2> HIDE DEF S
  <2> QED
    BY <1>2, <1>4, <1>5, Rec!Induction
<1>7. PICK a \in Nat : a = n * M /\ Exact(pieces(n), r.low .. (r.low + a - 1))
  BY <1>2, <1>6
<1>8. PICK t \in Bounds : t = [low |-> r.low + a, high |-> r.high]
  <2>1. [low |-> r.low + a, high |-> r.high] \in Bounds
    BY <1>1, <1>7 DEF Bounds
  <2> QED
    BY <2>1
<1>9. t.low < t.high /\ t.high - t.low <= M
  BY <1>1, <1>2, <1>7, <1>8
<1>10. Exact(<<t>>, PagesOf(t))
  BY <1>9, ExactOne DEF M
<1>11. /\ (r.low .. (r.low + a - 1)) \cap PagesOf(t) = {}
       /\ (r.low .. (r.low + a - 1)) \cup PagesOf(t) = PagesOf(r)
  <2>1. a <= r.high - r.low - 1 /\ t.low = r.low + a /\ t.high = r.high
    BY <1>2, <1>7, <1>8
  <2> QED
    BY <1>1, <2>1 DEF PagesOf
<1>12. Chopped(r) = pieces(n) \o <<t>>
  BY <1>7, <1>8 DEF Chopped, M, n
<1> HIDE DEF pieces
<1> QED
  <2>1. Exact(pieces(n) \o <<t>>, (r.low .. (r.low + a - 1)) \cup PagesOf(t))
    BY <1>7, <1>10, <1>11, ExactBoth, Zenon
  <2> QED
    BY <1>11, <1>12, <2>1

-----------------------------------------------------------------------------
(***************************************************************************)
(* metadata_break_range.  The first m regions of the list are sorted; a    *)
(* region behind them is one that is to become the head.                   *)
(***************************************************************************)
Shape(m) ==
    /\ alloc_list \in Seq(Regions) /\ m \in Nat \ {0} /\ Len(alloc_list) \in {m, m + 1}
    /\ Sorted(alloc_list, m)
    /\ Len(alloc_list) = m + 1 => \A i \in 1 .. m : alloc_list[m + 1].high <= alloc_list[i].low

PagesListed(m) == UNION {PagesOf(alloc_list[i]) : i \in 1 .. m}

\* The regions of such a list, as numbers.
LEMMA ShapeNumbers ==
    ASSUME NEW m, Shape(m)
    PROVE  /\ m \in Nat /\ 1 <= m /\ Len(alloc_list) \in Nat
           /\ DOMAIN alloc_list = 1 .. Len(alloc_list)
           /\ m <= Len(alloc_list) /\ Len(alloc_list) <= m + 1
           /\ \A i \in 1 .. Len(alloc_list) : /\ alloc_list[i].low \in Nat /\ alloc_list[i].high \in Nat
                                              /\ alloc_list[i].low < alloc_list[i].high
           /\ \A i, j \in 1 .. m : i < j => alloc_list[i].high <= alloc_list[j].low
           /\ \A i \in 1 .. m : \A k \in 1 .. Len(alloc_list) :
                 k > m => alloc_list[k].high <= alloc_list[i].low
<1>1. /\ m \in Nat /\ 1 <= m /\ Len(alloc_list) \in Nat /\ DOMAIN alloc_list = 1 .. Len(alloc_list)
      /\ m <= Len(alloc_list) /\ Len(alloc_list) <= m + 1
  BY LenProperties DEF Shape
<1>2. \A i \in 1 .. Len(alloc_list) : alloc_list[i] \in Regions
  <2>1. alloc_list \in Seq(Regions)
    BY DEF Shape
  <2> QED
    BY <2>1, ElementOfSeq
<1>3. \A r \in Regions : r.low \in Nat /\ r.high \in Nat /\ r.low < r.high
  BY DEF Regions, Bounds
<1>4. \A i, j \in 1 .. m : i < j => alloc_list[i].high <= alloc_list[j].low
  BY DEF Shape, Sorted
<1>5. \A i \in 1 .. m : \A k \in 1 .. Len(alloc_list) :
         k > m => alloc_list[k].high <= alloc_list[i].low
  <2>1. PICK n \in Nat : n = Len(alloc_list)
    BY <1>1
  <2>3. m \in Nat /\ m <= n /\ n <= m + 1
    BY <1>1, <2>1
  <2>2. \A k \in 1 .. n : k > m => k = m + 1 /\ n = m + 1
    BY <2>3
  <2> QED
    BY <2>1, <2>2 DEF Shape
<1> QED
  BY <1>1, <1>2, <1>3, <1>4, <1>5

\* The first loop of metadata_break_range ends at the first region above low.
LEMMA FirstAboveIs ==
    ASSUME NEW m, Shape(m), NEW low \in Nat, NEW f, f = FirstAbove(low)
    PROVE  /\ f \in 1 .. m
           /\ \A i \in 1 .. m : i < f => alloc_list[i].high <= low
           /\ alloc_list[f].high > low \/ \A i \in 1 .. m : alloc_list[i].high <= low
<1> DEFINE n == Len(alloc_list)
           above == {i \in DOMAIN alloc_list : alloc_list[i].high > low}
<1>1. /\ m \in Nat /\ 1 <= m /\ n \in Nat /\ DOMAIN alloc_list = 1 .. n /\ m <= n /\ n <= m + 1
      /\ \A i \in 1 .. n : /\ alloc_list[i].low \in Nat /\ alloc_list[i].high \in Nat
                           /\ alloc_list[i].low < alloc_list[i].high
      /\ \A i \in 1 .. m : \A k \in 1 .. n : k > m => alloc_list[k].high <= alloc_list[i].low
  BY ShapeNumbers
<1>2. CASE above = {}
  <2>1. f = 1
    BY <1>2 DEF FirstAbove
  <2>2. \A i \in 1 .. m : alloc_list[i].high <= low
    BY <1>1, <1>2
  <2> QED
    BY <1>1, <2>1, <2>2
<1>3. CASE above # {}
  <2>1. f = CHOOSE i \in above : \A j \in above : i <= j
    BY <1>3 DEF FirstAbove
  <2>2. above \subseteq Nat
    BY <1>1
  <2>3. f \in above /\ \A j \in above : f <= j
    <3> HIDE DEF above
    <3>1. \E i \in above : \A j \in above : i <= j
      BY <1>3, <2>2, Rec!LeastNatural
    <3> QED
      BY <2>1, <3>1, Zenon
  <2>4. \A i \in 1 .. n : i < f => alloc_list[i].high <= low
    BY <1>1, <2>3
  <2>5. f \in 1 .. m
    <3>1. SUFFICES ASSUME f > m PROVE FALSE
      BY <1>1, <2>3
    <3>2. /\ alloc_list[f].high <= alloc_list[1].low /\ alloc_list[1].high <= low
          /\ alloc_list[1].low < alloc_list[1].high /\ alloc_list[f].high > low
          /\ alloc_list[f].high \in Nat /\ alloc_list[1].high \in Nat /\ alloc_list[1].low \in Nat
      BY <1>1, <2>3, <2>4, <3>1
    <3> QED
      BY <3>2
  <2> QED
    BY <1>1, <2>3, <2>4, <2>5
<1> QED
  BY <1>2, <1>3

\* Where the second loop has advanced the beginning of the range to.
LEMMA AdvancedIs ==
    ASSUME NEW m, Shape(m), NEW low \in Nat, NEW high \in Nat, low < high,
           NEW f, f = FirstAbove(low), alloc_list[f].high > low, alloc_list[f].low < high
    PROVE  /\ Advanced(low, high)[f - 1] = low
           /\ \A k \in f .. m : Advanced(low, high)[k] = LeastOf(alloc_list[k].high, high)
           /\ \A k \in 1 .. Len(alloc_list) :
                 k > m => Advanced(low, high)[k] = LeastOf(alloc_list[m].high, high)
<1> DEFINE n == Len(alloc_list)
           body(w, j) == IF j < f THEN low
                         ELSE IF alloc_list[j].high >= w[j - 1]
                              THEN LeastOf(alloc_list[j].high, high) ELSE w[j - 1]
           IsAdvanced(w) == w = [j \in (f - 1) .. n |-> body(w, j)]
           value(j) == IF j < f THEN low ELSE IF j <= m THEN LeastOf(alloc_list[j].high, high)
                       ELSE LeastOf(alloc_list[m].high, high)
           h == [j \in (f - 1) .. n |-> value(j)]
<1>1. /\ m \in Nat /\ 1 <= m /\ n \in Nat /\ m <= n /\ n <= m + 1
      /\ \A i \in 1 .. n : /\ alloc_list[i].low \in Nat /\ alloc_list[i].high \in Nat
                           /\ alloc_list[i].low < alloc_list[i].high
      /\ \A i, j \in 1 .. m : i < j => alloc_list[i].high <= alloc_list[j].low
      /\ \A i \in 1 .. m : \A k \in 1 .. n : k > m => alloc_list[k].high <= alloc_list[i].low
  BY ShapeNumbers
<1>2. f \in 1 .. m
  BY FirstAboveIs
<1> HIDE DEF n
<1>3. ASSUME NEW w, NEW j \in (f - 1) .. n, j >= f => w[j - 1] = value(j - 1)
      PROVE  body(w, j) = value(j)
  <2>1. CASE j < f
    BY <2>1
  <2>2. CASE j = f
    <3>1. w[j - 1] = low
      BY <1>1, <1>2, <1>3, <2>2
    <3> QED
      BY <1>1, <1>2, <2>2, <3>1
  <2>3. CASE j > f /\ j <= m
    <3>1. w[j - 1] = LeastOf(alloc_list[j - 1].high, high)
      BY <1>1, <1>2, <1>3, <2>3
    <3>2. /\ j \in 1 .. m /\ j - 1 \in 1 .. m /\ j - 1 < j
          /\ alloc_list[j - 1].high <= alloc_list[j].low
          /\ alloc_list[j].low < alloc_list[j].high
          /\ alloc_list[j].low \in Nat /\ alloc_list[j].high \in Nat
          /\ alloc_list[j - 1].high \in Nat
      BY <1>1, <1>2, <2>3
    <3>3. alloc_list[j].high >= w[j - 1]
      BY <3>1, <3>2 DEF LeastOf
    <3> QED
      BY <2>3, <3>3
  <2>4. CASE j > m
    <3>1. w[j - 1] = LeastOf(alloc_list[m].high, high) /\ j - 1 = m /\ j = n
      BY <1>1, <1>2, <1>3, <2>4
    <3>2. /\ alloc_list[j].high <= alloc_list[f].low
          /\ alloc_list[f].low < alloc_list[f].high
          /\ f # m => alloc_list[f].high <= alloc_list[m].low
          /\ alloc_list[m].low < alloc_list[m].high
          /\ alloc_list[f].low \in Nat /\ alloc_list[f].high \in Nat
          /\ alloc_list[m].low \in Nat /\ alloc_list[m].high \in Nat
          /\ alloc_list[j].high \in Nat
      BY <1>1, <1>2, <2>4, <3>1
    <3>3. alloc_list[f].low < alloc_list[m].high
      BY <3>2
    <3>4. ~(alloc_list[j].high >= w[j - 1])
      BY <3>1, <3>2, <3>3 DEF LeastOf
    <3> QED
      BY <1>1, <1>2, <2>4, <3>1, <3>4
  <2> QED
    BY <1>1, <1>2, <2>1, <2>2, <2>3, <2>4
<1>4. IsAdvanced(h)
  <2>1. ASSUME NEW j \in (f - 1) .. n PROVE h[j] = body(h, j)
    <3>1. j >= f => j - 1 \in (f - 1) .. n
      BY <1>1, <1>2
    <3>2. j >= f => h[j - 1] = value(j - 1)
      BY <3>1
    <3>3. h[j] = value(j)
      OBVIOUS
    <3> HIDE DEF h, body, value
    <3> QED
      BY <1>3, <3>2, <3>3
  <2>2. h = [j \in (f - 1) .. n |-> h[j]]
    OBVIOUS
  <2> HIDE DEF h, body
  <2> QED
    BY <2>1, <2>2
<1>5. Advanced(low, high) = CHOOSE w : IsAdvanced(w)
  BY DEF Advanced, n
<1>6. PICK w : w = Advanced(low, high) /\ IsAdvanced(w)
  <2> HIDE DEF h, IsAdvanced
  <2> QED
    BY <1>4, <1>5, Zenon
<1>7. \A j \in (f - 1) .. n : w[j] = body(w, j)
  BY <1>6
<1>8. \A j \in (f - 1) .. n : w[j] = value(j)
  <2> DEFINE Wrong == {j \in Nat : j \in (f - 1) .. n /\ w[j] # value(j)}
  <2>1. SUFFICES ASSUME Wrong # {} PROVE FALSE
    BY <1>1, <1>2
  <2>2. PICK j \in Wrong : \A i \in Wrong : j <= i
    <3>1. Wrong \subseteq Nat
      OBVIOUS
    <3> HIDE DEF Wrong
    <3> QED
      BY <2>1, <3>1, Rec!LeastNatural
  <2>3. j >= f => j - 1 \notin Wrong /\ j - 1 \in (f - 1) .. n /\ j - 1 \in Nat
    BY <1>1, <1>2, <2>2
  <2>4. j >= f => w[j - 1] = value(j - 1)
    <3> HIDE DEF value
    <3> QED
      BY <2>3
  <2> HIDE DEF value, body
  <2> QED
    BY <1>3, <1>7, <2>2, <2>4
<1>9. w[f - 1] = low
  <2>1. f - 1 \in (f - 1) .. n /\ f - 1 < f
    BY <1>1, <1>2
  <2> QED
    BY <1>8, <2>1
<1>10. \A k \in f .. m : w[k] = LeastOf(alloc_list[k].high, high)
  <2>1. \A k \in f .. m : k \in (f - 1) .. n /\ ~(k < f) /\ k <= m
    BY <1>1, <1>2
  <2> QED
    BY <1>8, <2>1
<1>11. \A k \in 1 .. n : k > m => w[k] = LeastOf(alloc_list[m].high, high)
  <2>1. \A k \in 1 .. n : k > m => k \in (f - 1) .. n /\ ~(k < f) /\ ~(k <= m)
    BY <1>1, <1>2
  <2> QED
    BY <1>8, <2>1
<1> QED
  BY <1>6, <1>9, <1>10, <1>11 DEF n

\* What metadata_break_range returns: what it passes over is in the list, and the
\* range it returns is not.
LEMMA BreakRangeIs ==
    ASSUME NEW m, Shape(m), NEW low \in Nat, NEW high \in Nat, low < high,
           NEW r, r = BreakRange(low, high)
    PROVE  /\ r \in Bounds /\ low <= r.low /\ r.low <= r.high /\ r.high <= high /\ low < r.high
           /\ \A p \in low .. (r.low - 1) : p \in PagesListed(m)
           /\ \A p \in r.low .. (r.high - 1) : p \notin PagesListed(m)
<1> DEFINE n == Len(alloc_list)
           s == alloc_list
<1>1. /\ m \in Nat /\ 1 <= m /\ n \in Nat /\ m <= n /\ n <= m + 1
      /\ \A i \in 1 .. n : s[i].low \in Nat /\ s[i].high \in Nat /\ s[i].low < s[i].high
      /\ \A i, j \in 1 .. m : i < j => s[i].high <= s[j].low
      /\ \A i \in 1 .. m : \A k \in 1 .. n : k > m => s[k].high <= s[i].low
  BY ShapeNumbers
<1>2. PICK f : f = FirstAbove(low)
  OBVIOUS
<1>3. /\ f \in 1 .. m
      /\ \A i \in 1 .. m : i < f => s[i].high <= low
      /\ s[f].high > low \/ \A i \in 1 .. m : s[i].high <= low
  BY <1>2, FirstAboveIs
<1> HIDE DEF n, s
<1>4. \A p \in Int : p \in PagesListed(m) <=> \E i \in 1 .. m : s[i].low <= p /\ p < s[i].high
  <2>1. \A p : p \in PagesListed(m) <=> \E i \in 1 .. m : p \in PagesOf(s[i])
    BY DEF PagesListed, s
  <2>2. \A p \in Int : \A i \in 1 .. m : p \in PagesOf(s[i]) <=> s[i].low <= p /\ p < s[i].high
    BY <1>1 DEF PagesOf
  <2> QED
    BY <2>1, <2>2
<1>5. ASSUME ~(s[f].high > low /\ s[f].low < high) PROVE r = [low |-> low, high |-> high]
  BY <1>2, <1>5 DEF BreakRange, s
<1>6. CASE ~(s[f].high > low /\ s[f].low < high)
  <2>1. \A i \in 1 .. m : s[i].high <= low \/ s[i].low >= high
    <3>1. CASE \A i \in 1 .. m : s[i].high <= low
      BY <3>1
    <3>2. CASE s[f].low >= high
      <4>1. ASSUME NEW i \in 1 .. m, ~(i < f) PROVE s[i].low >= high
        <5>1. i = f \/ (f < i /\ s[f].high <= s[i].low)
          BY <1>1, <1>3, <4>1
        <5>2. /\ s[f].low \in Nat /\ s[f].high \in Nat /\ s[i].low \in Nat
              /\ s[f].low < s[f].high
          BY <1>1, <1>3
        <5> QED
          BY <3>2, <5>1, <5>2
      <4> QED
        BY <1>3, <4>1
    <3> QED
      BY <1>1, <1>3, <1>6, <3>1, <3>2
  <2>2. r \in Bounds /\ r.low = low /\ r.high = high
    BY <1>5, <1>6 DEF Bounds
  <2>3. \A p \in low .. (high - 1) : \A i \in 1 .. m : ~(s[i].low <= p /\ p < s[i].high)
    BY <1>1, <2>1
  <2>4. \A p \in low .. (high - 1) : p \in Int
    OBVIOUS
  <2>5. /\ \A p \in low .. (low - 1) : p \in PagesListed(m)
        /\ \A p \in low .. (high - 1) : p \notin PagesListed(m)
    BY <1>4, <2>3, <2>4
  <2> QED
    BY <2>2, <2>5
<1>7. CASE s[f].high > low /\ s[f].low < high
  <2> DEFINE A == Advanced(low, high)
             Stops(j) == /\ j <= n => s[j].low > A[j - 1]
                         /\ \A k \in f .. (j - 1) : s[k].low <= A[k - 1]
             stop == CHOOSE j \in f .. (n + 1) : Stops(j)
             newLow == A[stop - 1]
             curr == s[IF stop > n THEN 1 ELSE stop]
  <2>1. /\ A[f - 1] = low
        /\ \A k \in f .. m : A[k] = LeastOf(s[k].high, high)
        /\ \A k \in 1 .. n : k > m => A[k] = LeastOf(s[m].high, high)
    BY <1>2, <1>7, AdvancedIs DEF s, n
  <2>2. r = [low |-> newLow,
             high |-> IF curr.low > newLow THEN LeastOf(curr.low, high) ELSE high]
    BY <1>2, <1>7 DEF BreakRange, s, n
  <2> HIDE DEF A
  <2>3. \E j \in f .. (n + 1) : Stops(j)
    <3> DEFINE Ends == {j \in Nat : j \in f .. (n + 1) /\ (j <= n => s[j].low > A[j - 1])}
    <3>1. n + 1 \in Ends
      BY <1>1, <1>3
    <3>2. PICK j \in Ends : \A i \in Ends : j <= i
      <4>1. Ends \subseteq Nat /\ Ends # {}
        BY <3>1
      <4> HIDE DEF Ends
      <4> QED
        BY <4>1, Rec!LeastNatural
    <3>3. ASSUME NEW k \in f .. (j - 1) PROVE s[k].low <= A[k - 1]
      <4>1. k \notin Ends /\ k \in Nat /\ k \in f .. (n + 1) /\ k \in 1 .. n
        BY <1>1, <1>3, <3>2
      <4>2. ~(s[k].low > A[k - 1]) /\ s[k].low \in Nat
        BY <1>1, <4>1
      <4>3. A[k - 1] \in Nat
        <5>1. CASE k = f
          BY <2>1, <5>1
        <5>2. CASE k > f /\ k - 1 <= m
          <6>1. k - 1 \in f .. m /\ k - 1 \in 1 .. n
            BY <1>1, <1>3, <4>1, <5>2
          <6> QED
            BY <1>1, <2>1, <6>1 DEF LeastOf
        <5>3. CASE k > f /\ k - 1 > m
          BY <1>1, <4>1, <5>3
        <5> QED
          BY <1>1, <1>3, <3>2, <5>1, <5>2, <5>3
      <4> QED
        BY <4>2, <4>3
    <3> QED
      BY <3>2, <3>3
  <2>4. stop \in f .. (n + 1) /\ Stops(stop)
    <3> HIDE DEF Stops
    <3> QED
      BY <2>3, Zenon
  <2>5. PICK e \in f .. (n + 1) : e = stop /\ Stops(e)
    BY <2>4
  <2> HIDE DEF stop
  <2>6. \A k \in f .. m : /\ A[k] \in Nat /\ A[k] <= s[k].high /\ A[k] <= high
                          /\ A[k] = s[k].high \/ A[k] = high
    BY <1>1, <1>3, <2>1 DEF LeastOf
  \* Everything from low to where the loop has come is listed.
  <2>7. ASSUME NEW k \in (f - 1) .. m, k < e
        PROVE  \A p \in low .. (A[k] - 1) : p \in PagesListed(m)
    <3> DEFINE Good == {j \in Nat : j \in (f - 1) .. m /\ j < e /\
                           ~ \A p \in low .. (A[j] - 1) : p \in PagesListed(m)}
    <3>1. SUFFICES ASSUME Good # {} PROVE FALSE
      <4>1. k \in Nat
        BY <1>1, <1>3
      <4> QED
        BY <2>7, <4>1
    <3>2. PICK j \in Good : \A i \in Good : j <= i
      <4>1. Good \subseteq Nat
        OBVIOUS
      <4> HIDE DEF Good
      <4> QED
        BY <3>1, <4>1, Rec!LeastNatural
    <3>3. j # f - 1
      BY <2>1, <3>2
    <3>4. j \in f .. m /\ j - 1 \in (f - 1) .. m /\ j - 1 < e /\ j - 1 \in Nat /\ j - 1 \notin Good
      BY <1>1, <1>3, <3>2, <3>3
    <3>5. \A p \in low .. (A[j - 1] - 1) : p \in PagesListed(m)
      BY <3>4
    <3>6. s[j].low <= A[j - 1]
      BY <1>1, <1>3, <2>5, <3>2, <3>4
    <3>7. A[j - 1] \in Nat /\ s[j].low \in Nat /\ s[j].high \in Nat /\ A[j] \in Nat /\ A[j] <= s[j].high
      BY <1>1, <1>3, <2>1, <2>6, <3>4
    <3>8. ASSUME NEW p \in low .. (A[j] - 1) PROVE p \in PagesListed(m)
      <4>1. CASE p < A[j - 1]
        BY <3>5, <3>7, <4>1
      <4>2. CASE p >= A[j - 1]
        <5>1. s[j].low <= p /\ p < s[j].high /\ p \in Int
          BY <3>6, <3>7, <4>2
        <5>2. j \in 1 .. m
          BY <1>1, <1>3, <3>4
        <5> QED
          BY <1>4, <5>1, <5>2
      <4> QED
        BY <3>7, <4>1, <4>2
    <3> QED
      BY <3>2, <3>8
  \* The loop ends at once, at a region above low.
  <2>8. CASE e = f
    <3>1. newLow = low /\ curr = s[f] /\ s[f].low > low /\ s[f].low \in Nat
      BY <1>1, <1>3, <2>1, <2>5, <2>8
    <3>2. r \in Bounds /\ r.low = low /\ r.high = s[f].low
      BY <1>7, <2>2, <3>1 DEF Bounds, LeastOf
    <3>3. \A i \in 1 .. m : s[i].high <= low \/ s[i].low >= s[f].low
      <4>1. ASSUME NEW i \in 1 .. m, ~(i < f) PROVE s[i].low >= s[f].low
        <5>1. i = f \/ (f < i /\ s[f].high <= s[i].low)
          BY <1>1, <1>3, <4>1
        <5>2. /\ s[f].low \in Nat /\ s[f].high \in Nat /\ s[i].low \in Nat
              /\ s[f].low < s[f].high
          BY <1>1, <1>3
        <5> QED
          BY <5>1, <5>2
      <4> QED
        BY <1>3, <4>1
    <3>4. \A p \in low .. (s[f].low - 1) : \A i \in 1 .. m : ~(s[i].low <= p /\ p < s[i].high)
      <4>1. \A i \in 1 .. m : s[i].low \in Nat /\ s[i].high \in Nat
        BY <1>1
      <4> QED
        BY <3>1, <3>3, <4>1
    <3> QED
      BY <1>4, <1>7, <3>1, <3>2, <3>4
  \* It ends before a region of the list, ...
  <2>9. CASE e > f /\ e <= m
    <3>1. PICK k \in f .. m : k = e - 1 /\ k \in 1 .. m /\ e \in 1 .. m
      BY <1>1, <1>3, <2>9
    <3>2. PICK a \in Nat : a = newLow /\ a = A[k]
      BY <2>5, <2>6, <3>1
    <3>3. curr = s[e] /\ s[e].low > a /\ s[e].low \in Nat
      BY <1>1, <2>5, <2>9, <3>1, <3>2
    <3>4. a <= high /\ (a = s[k].high \/ a = high) /\ a <= s[k].high
      BY <2>6, <3>2
    <3>5. a > low
      <4>1. s[f].high \in Nat /\ s[k].high \in Nat /\ s[k].low \in Nat /\ s[k].low < s[k].high
        BY <1>1, <1>3, <3>1
      <4>2. k = f \/ s[f].high <= s[k].low
        BY <1>1, <1>3, <3>1
      <4> QED
        BY <1>7, <3>4, <4>1, <4>2
    <3>6. r \in Bounds /\ r.low = a /\ r.high = LeastOf(s[e].low, high)
      BY <2>2, <3>2, <3>3 DEF Bounds, LeastOf
    <3>7. a <= r.high /\ r.high <= high /\ r.high <= s[e].low
      BY <3>3, <3>4, <3>6 DEF LeastOf
    <3>8. ASSUME NEW p \in a .. (r.high - 1), NEW i \in 1 .. m
          PROVE  ~(s[i].low <= p /\ p < s[i].high)
      <4>1. r.high \in Nat /\ a < high
        BY <3>6, <3>7 DEF Bounds
      <4>2. a = s[k].high
        BY <3>4, <4>1
      <4>3. CASE i <= k
        <5>1. i = k \/ s[i].high <= s[k].low
          BY <1>1, <3>1, <4>3
        <5>2. /\ s[i].high \in Nat /\ s[i].low \in Nat /\ s[k].high \in Nat /\ s[k].low \in Nat
              /\ s[k].low < s[k].high
          BY <1>1, <3>1
        <5> QED
          BY <4>2, <5>1, <5>2
      <4>4. CASE i >= e
        <5>1. i = e \/ s[e].high <= s[i].low
          BY <1>1, <3>1, <4>4
        <5>2. /\ s[i].high \in Nat /\ s[i].low \in Nat /\ s[e].high \in Nat /\ s[e].low \in Nat
              /\ s[e].low < s[e].high
          BY <1>1, <3>1
        <5> QED
          BY <3>7, <4>1, <5>1, <5>2
      <4> QED
        BY <1>1, <3>1, <4>3, <4>4
    <3>9. \A p \in low .. (a - 1) : p \in PagesListed(m)
      <4>1. k \in (f - 1) .. m /\ k < e
        BY <1>1, <1>3, <3>1
      <4> QED
        BY <2>7, <3>2, <4>1
    <3>10. \A p \in a .. (r.high - 1) : p \notin PagesListed(m)
      <4>1. \A p \in a .. (r.high - 1) : p \in Int
        BY <3>6 DEF Bounds
      <4> QED
        BY <1>4, <3>8, <4>1
    <3>11. r.high \in Nat
      BY <3>6 DEF Bounds
    <3> QED
      BY <3>5, <3>6, <3>7, <3>9, <3>10, <3>11
  \* ... or when it comes back to the head.
  <2>10. CASE e > m
    <3>1. PICK a \in Nat : a = A[m] /\ a = newLow /\ e = n + 1
      <4>1. A[m] \in Nat /\ (A[m] = s[m].high \/ A[m] = high)
        BY <1>1, <1>3, <2>6
      <4>2. CASE e = n + 1
        BY <1>1, <1>3, <2>1, <2>5, <4>1, <4>2
      <4>3. CASE e = m + 1 /\ e = n
        <5>1. s[e].low > A[m] /\ e \in 1 .. n /\ e > m
          BY <1>1, <2>5, <4>3
        <5>2. /\ s[e].high <= s[f].low /\ s[e].low < s[e].high
              /\ s[f].low < s[f].high /\ (f # m => s[f].high <= s[m].low)
              /\ s[m].low < s[m].high
              /\ s[f].low \in Nat /\ s[f].high \in Nat /\ s[m].low \in Nat
              /\ s[m].high \in Nat /\ s[e].low \in Nat /\ s[e].high \in Nat
          BY <1>1, <1>3, <5>1
        <5>3. s[f].low < s[m].high
          BY <5>2
        <5> QED
          BY <1>7, <4>1, <5>1, <5>2, <5>3
      <4> QED
        BY <1>1, <2>10, <4>2, <4>3
    <3>2. a <= high /\ (a = s[m].high \/ a = high) /\ a <= s[m].high
      <4>1. m \in f .. m
        BY <1>1, <1>3
      <4> QED
        BY <2>6, <3>1, <4>1
    <3>3. s[f].low <= low /\ s[1].low <= s[f].low
      <4>1. f \in f .. (e - 1) /\ 1 \in 1 .. m /\ f \in 1 .. n /\ 1 \in 1 .. n
        BY <1>1, <1>3, <2>10
      <4>2. s[f].low <= A[f - 1]
        BY <2>5, <4>1
      <4>3. f = 1 \/ s[1].high <= s[f].low
        BY <1>1, <1>3, <4>1
      <4>4. s[1].low \in Nat /\ s[1].high \in Nat /\ s[1].low < s[1].high /\ s[f].low \in Nat
        BY <1>1, <4>1
      <4> QED
        BY <2>1, <4>2, <4>3, <4>4
    <3>4. a > low
      <4>1. s[f].high \in Nat /\ s[m].high \in Nat /\ s[m].low \in Nat /\ s[m].low < s[m].high
        BY <1>1, <1>3
      <4>2. m = f \/ s[f].high <= s[m].low
        BY <1>1, <1>3
      <4> QED
        BY <1>7, <3>2, <4>1, <4>2
    <3>5. s[1].low \in Nat /\ s[f].low \in Nat
      BY <1>1, <1>3
    <3>6. curr = s[1] /\ ~(curr.low > a)
      BY <1>1, <2>5, <3>1, <3>3, <3>4, <3>5
    <3>7. r \in Bounds /\ r.low = a /\ r.high = high
      BY <2>2, <3>1, <3>6 DEF Bounds
    <3>8. ASSUME NEW p \in a .. (high - 1), NEW i \in 1 .. m
          PROVE  ~(s[i].low <= p /\ p < s[i].high)
      <4>1. a = s[m].high
        BY <3>2
      <4>2. i = m \/ s[i].high <= s[m].low
        BY <1>1
      <4>3. /\ s[i].high \in Nat /\ s[i].low \in Nat /\ s[m].high \in Nat /\ s[m].low \in Nat
            /\ s[m].low < s[m].high
        BY <1>1
      <4> QED
        BY <4>1, <4>2, <4>3
    <3>9. \A p \in low .. (a - 1) : p \in PagesListed(m)
      <4>1. m \in (f - 1) .. m /\ m < e
        BY <1>1, <1>3, <2>10
      <4> QED
        BY <2>7, <3>1, <4>1
    <3> QED
      BY <1>4, <3>2, <3>4, <3>7, <3>8, <3>9
  <2> QED
    BY <1>1, <1>3, <2>5, <2>8, <2>9, <2>10
<1> QED
  BY <1>6, <1>7

\* collect_ranges makes of a line the ranges of what is not in the list.
LEMMA CollectRangesIs ==
    ASSUME NEW m, Shape(m), NEW line \in Bounds, line.low <= line.high
    PROVE  Exact(CollectRanges(line), PagesOf(line) \ PagesListed(m))
<1> DEFINE D == line.low .. line.high
           next(low) == BreakRange(low, line.high)
           part(low) == IF next(low).low # next(low).high THEN Chopped(next(low)) ELSE <<>>
           body(f, low) == IF low = line.high THEN <<>> ELSE part(low) \o f[next(low).high]
           IsFrom(f) == f = [low \in D |-> body(f, low)]
           V == Seq(Bounds)
           rank == [low \in D |-> line.high - low]
           step == [a \in [D -> V] \X D |-> body(a[1], a[2])]
<1>1. line.low \in Nat /\ line.high \in Nat
  BY DEF Bounds
<1>2. ASSUME NEW low \in D, low # line.high
      PROVE  /\ next(low) \in Bounds /\ low <= next(low).low /\ next(low).low <= next(low).high
             /\ next(low).high \in D /\ low < next(low).high
             /\ Exact(part(low), (low .. (next(low).high - 1)) \ PagesListed(m))
  <2>1. low \in Nat /\ low < line.high
    BY <1>1, <1>2
  <2>2. PICK r : r = next(low)
    OBVIOUS
  <2>3. /\ r \in Bounds /\ low <= r.low /\ r.low <= r.high /\ r.high <= line.high /\ low < r.high
        /\ \A p \in low .. (r.low - 1) : p \in PagesListed(m)
        /\ \A p \in r.low .. (r.high - 1) : p \notin PagesListed(m)
    BY <1>1, <2>1, <2>2, BreakRangeIs
  <2>4. r.low \in Nat /\ r.high \in Nat /\ r.high \in D
    BY <1>1, <2>1, <2>3 DEF Bounds
  <2>5. (low .. (r.high - 1)) \ PagesListed(m) = r.low .. (r.high - 1)
    BY <2>1, <2>3, <2>4
  <2>6. Exact(part(low), r.low .. (r.high - 1))
    <3>1. CASE r.low # r.high
      <4>1. Exact(Chopped(r), PagesOf(r))
        BY <2>3, <2>4, <3>1, ExactChopped
      <4> QED
        BY <2>2, <3>1, <4>1 DEF PagesOf
    <3>2. CASE r.low = r.high
      <4>1. r.low .. (r.high - 1) = {}
        BY <2>4, <3>2
      <4> QED
        BY <2>2, <3>2, <4>1, ExactNone
    <3> QED
      BY <3>1, <3>2
  <2> HIDE DEF part
  <2> QED
    BY <2>2, <2>3, <2>4, <2>5, <2>6
<1> HIDE DEF part, next
<1>3. \A low \in D : low # line.high => part(low) \in V
  BY <1>2 DEF Exact
<1>4. Rec!Recursive(D, V, rank, step)
  <2>1. V # {} /\ rank \in [D -> Nat]
    <3>1. <<>> \in V
      OBVIOUS
    <3>2. rank \in [D -> Nat]
      BY <1>1
    <3> HIDE DEF V, rank
    <3> QED
      BY <3>1, <3>2
  <2>2. ASSUME NEW f \in [D -> V], NEW low \in D PROVE body(f, low) \in V
    <3>1. CASE low = line.high
      BY <3>1, EmptySeq
    <3>2. CASE low # line.high
      <4>1. part(low) \in V /\ f[next(low).high] \in V
        BY <1>2, <1>3, <3>2
      <4> QED
        BY <3>2, <4>1, ConcatProperties
    <3> QED
      BY <3>1, <3>2
  <2>3. step \in [[D -> V] \X D -> V]
    <3> HIDE DEF body
    <3>1. \A a \in [D -> V] \X D : a[1] \in [D -> V] /\ a[2] \in D
      OBVIOUS
    <3> QED
      BY <2>2, <3>1
  <2>4. ASSUME NEW g \in [D -> V], NEW h \in [D -> V], NEW x \in D,
               \A y \in D : rank[y] < rank[x] => g[y] = h[y]
        PROVE  step[<<g, x>>] = step[<<h, x>>]
    <3>1. step[<<g, x>>] = body(g, x) /\ step[<<h, x>>] = body(h, x)
      <4> HIDE DEF body
      <4> QED
        OBVIOUS
    <3>2. x # line.high => g[next(x).high] = h[next(x).high]
      <4> SUFFICES ASSUME x # line.high PROVE g[next(x).high] = h[next(x).high]
        OBVIOUS
      <4>1. PICK y \in D : y = next(x).high /\ x < y
        BY <1>2
      <4>2. rank[y] < rank[x]
        BY <1>1, <4>1
      <4> QED
        BY <2>4, <4>1, <4>2
    <3> QED
      BY <3>1, <3>2
  <2> HIDE DEF step, rank, V
  <2> QED
    BY <2>1, <2>3, <2>4 DEF Rec!Recursive
<1>5. \E f : IsFrom(f)
  <2>1. PICK f \in [D -> V] : \A x \in D : f[x] = step[<<f, x>>]
    <3> HIDE DEF step, rank, V, D
    <3> QED
      BY <1>4, Rec!RecursiveFunction
  <2> HIDE DEF body
  <2>2. \A x \in D : f[x] = body(f, x)
    BY <2>1
  <2>3. f = [x \in D |-> f[x]]
    BY <2>1
  <2> QED
    BY <2>2, <2>3
<1>6. CollectRanges(line) = (CHOOSE f : IsFrom(f))[line.low]
  BY DEF CollectRanges, part, next
<1>7. PICK f : IsFrom(f) /\ CollectRanges(line) = f[line.low]
  <2> HIDE DEF IsFrom
  <2> QED
    BY <1>5, <1>6, Zenon
<1>8. \A low \in D : f[low] = body(f, low)
  BY <1>7
<1> DEFINE Good == {low \in D : Exact(f[low], (low .. (line.high - 1)) \ PagesListed(m))}
<1>9. ASSUME NEW low \in D, \A y \in D : rank[y] < rank[low] => y \in Good PROVE low \in Good
  <2>1. CASE low = line.high
    <3>1. f[low] = <<>> /\ (low .. (line.high - 1)) \ PagesListed(m) = {}
      BY <1>1, <1>8, <2>1
    <3> QED
      BY <3>1, ExactNone
  <2>2. CASE low # line.high
    <3>1. PICK y \in D : y = next(low).high /\ low < y
      BY <1>2, <2>2
    <3>2. rank[y] < rank[low]
      BY <1>1, <3>1
    <3>3. Exact(f[y], (y .. (line.high - 1)) \ PagesListed(m))
      BY <1>9, <3>2
    <3>4. Exact(part(low), (low .. (y - 1)) \ PagesListed(m))
      BY <1>2, <2>2, <3>1
    <3>5. f[low] = part(low) \o f[y]
      BY <1>8, <2>2, <3>1
    <3>6. /\ ((low .. (y - 1)) \ PagesListed(m)) \cap ((y .. (line.high - 1)) \ PagesListed(m)) = {}
          /\ ((low .. (y - 1)) \ PagesListed(m)) \cup ((y .. (line.high - 1)) \ PagesListed(m))
                = (low .. (line.high - 1)) \ PagesListed(m)
      BY <1>1, <3>1
    <3>7. PICK q, t, S, T : /\ q = part(low) /\ S = (low .. (y - 1)) \ PagesListed(m)
                            /\ t = f[y] /\ T = (y .. (line.high - 1)) \ PagesListed(m)
      OBVIOUS
    <3>8. Exact(q, S) /\ Exact(t, T) /\ S \cap T = {}
      BY <3>3, <3>4, <3>6, <3>7
    <3>9. Exact(q \o t, S \cup T)
      BY <3>8, ExactBoth
    <3> QED
      BY <3>5, <3>6, <3>7, <3>9
  <2> QED
    BY <2>1, <2>2
<1>10. D \subseteq Good
  <2>1. rank \in [D -> Nat]
    BY <1>1
  <2> HIDE DEF Good, rank, D
  <2> QED
    BY <1>9, <2>1, Rec!RankInduction
<1>11. line.low \in D
  BY <1>1
<1> QED
  BY <1>7, <1>10, <1>11 DEF PagesOf

-----------------------------------------------------------------------------
(***************************************************************************)
(* forkscan_proc_map_iterate.                                              *)
(***************************************************************************)

\* The lines that begin at a page.
LEMMA LineBounds ==
    ASSUME NEW p \in Pages, NEW r \in LinesAt(p)
    PROVE  /\ r \in Bounds /\ r.low = p /\ r.low < r.high /\ r.high <= NPages /\ IsLine(r)
           /\ \A x : x \in PagesOf(r) <=> x \in Int /\ r.low <= x /\ x < r.high
           /\ PagesOf(r) \subseteq Pages
<1>1. PICK n \in 1 .. (NPages - p) : r = Region(p, n)
  BY DEF LinesAt
<1>2. NPages \in Nat /\ p \in Nat /\ p < NPages
  BY AllocAssumption DEF Pages
<1>3. r \in Bounds /\ r.low = p /\ r.high = p + n
  BY <1>1, <1>2 DEF Region, Bounds
<1>4. IsLine(r)
  BY DEF LinesAt
<1> QED
  BY <1>1, <1>2, <1>3, <1>4 DEF PagesOf, Pages

\* The kernel's lines are the maximal runs of pages that go together.
LEMMA LinesApart ==
    ASSUME NEW p \in Pages, NEW q \in Pages, NEW r \in LinesAt(p), NEW s \in LinesAt(q)
    PROVE  (p < q => r.high <= s.low) /\ (p = q => r = s)
<1>1. /\ NPages \in Nat /\ p \in Nat /\ q \in Nat /\ p < NPages /\ q < NPages
  BY AllocAssumption DEF Pages
<1>2. /\ r \in Bounds /\ r.low = p /\ r.low < r.high /\ r.high <= NPages /\ IsLine(r)
      /\ \A x : x \in PagesOf(r) <=> x \in Int /\ r.low <= x /\ x < r.high
  BY LineBounds
<1>3. /\ s \in Bounds /\ s.low = q /\ s.low < s.high /\ s.high <= NPages /\ IsLine(s)
      /\ \A x : x \in PagesOf(s) <=> x \in Int /\ s.low <= x /\ x < s.high
  BY LineBounds
<1>4. r.high \in Nat /\ s.high \in Nat
  BY <1>2, <1>3 DEF Bounds
<1>5. \A x, y, z : OneLine(x, z) /\ OneLine(y, z) => OneLine(x, y)
  BY DEF OneLine
<1>6. ASSUME p < q, ~(r.high <= s.low) PROVE FALSE
  <2>1. q \in PagesOf(r) /\ q - 1 \in PagesOf(r) /\ q > 0
    BY <1>1, <1>2, <1>3, <1>4, <1>6
  <2>2. OneLine(q - 1, q)
    BY <1>2, <1>5, <2>1 DEF IsLine
  <2> QED
    BY <1>3, <2>1, <2>2 DEF IsLine
<1>7. ASSUME p = q, r.high < s.high PROVE FALSE
  <2>1. r.high \in PagesOf(s) /\ r.high < NPages
    BY <1>1, <1>2, <1>3, <1>4, <1>7
  <2> QED
    BY <1>2, <1>3, <1>7, <2>1 DEF IsLine
<1>8. ASSUME p = q, s.high < r.high PROVE FALSE
  <2>1. s.high \in PagesOf(r) /\ s.high < NPages
    BY <1>1, <1>2, <1>3, <1>4, <1>8
  <2> QED
    BY <1>2, <1>3, <1>8, <2>1 DEF IsLine
<1>9. p = q => r.high = s.high
  BY <1>4, <1>7, <1>8
<1>10. p = q => r = s
  BY <1>2, <1>3, <1>9 DEF Bounds
<1> QED
  BY <1>6, <1>10

\* The pages of the wanted lines from page p on.
WantedFrom(p) == {x \in Pages : \E q \in Pages : /\ p <= q
                    /\ \E r \in LinesAt(q) : IsWanted(r) /\ x \in PagesOf(r)}

\* Forkscan's scan begins with the pages of the wanted lines that are not in the list.
LEMMA MapIterateIs ==
    ASSUME NEW m, Shape(m)
    PROVE  Exact(MapIterate, WantedFrom(0) \ PagesListed(m))
<1> DEFINE L == PagesListed(m)
           part(p) == LET lines == {r \in LinesAt(p) : IsWanted(r)} IN
                      IF lines = {} THEN <<>> ELSE CollectRanges(CHOOSE r \in lines : TRUE)
           there(p) == {x \in Pages : \E r \in LinesAt(p) : IsWanted(r) /\ x \in PagesOf(r)}
<1>1. NPages \in Nat /\ NPages > 0
  BY AllocAssumption
<1>2. ASSUME NEW p \in Pages
      PROVE  Exact(part(p), there(p) \ L)
  <2> DEFINE lines == {r \in LinesAt(p) : IsWanted(r)}
  <2>1. CASE lines = {}
    <3>1. there(p) \ L = {} /\ part(p) = <<>>
      BY <2>1
    <3> QED
      BY <3>1, ExactNone
  <2>2. CASE lines # {}
    <3>1. PICK r : r = CHOOSE x \in lines : TRUE
      OBVIOUS
    <3>2. r \in lines
      <4> HIDE DEF lines
      <4> QED
        BY <2>2, <3>1, Zenon
    <3>3. r \in LinesAt(p) /\ IsWanted(r) /\ part(p) = CollectRanges(r)
      BY <2>2, <3>1, <3>2
    <3>4. /\ r \in Bounds /\ r.low < r.high /\ PagesOf(r) \subseteq Pages
      BY <3>3, LineBounds
    <3>5. there(p) = PagesOf(r)
      BY <3>3, <3>4, LinesApart
    <3>6. r.low <= r.high
      BY <3>4 DEF Bounds
    <3> HIDE DEF there, part
    <3> QED
      BY <3>3, <3>4, <3>5, <3>6, CollectRangesIs
  <2> QED
    BY <2>1, <2>2
<1>3. ASSUME NEW p \in Pages
      PROVE  /\ p + 1 \in 0 .. NPages /\ p # NPages
             /\ there(p) \cap WantedFrom(p + 1) = {}
             /\ there(p) \cup WantedFrom(p + 1) = WantedFrom(p)
  <2>1. p \in Nat /\ p < NPages /\ \A q \in Pages : q \in Nat
    BY <1>1 DEF Pages
  <2>2. ASSUME NEW x, x \in there(p), x \in WantedFrom(p + 1) PROVE FALSE
    <3>1. PICK r \in LinesAt(p) : x \in PagesOf(r)
      BY <2>2
    <3>2. PICK q \in Pages : p + 1 <= q /\ \E s \in LinesAt(q) : x \in PagesOf(s)
      BY <2>2 DEF WantedFrom
    <3>3. PICK s \in LinesAt(q) : x \in PagesOf(s)
      BY <3>2
    <3>4. p < q /\ r.high <= s.low
      BY <2>1, <3>2, LinesApart
    <3>5. x \in Int /\ x < r.high /\ s.low <= x /\ r \in Bounds /\ s \in Bounds
      BY <3>1, <3>3, LineBounds
    <3>6. r.high \in Nat /\ s.low \in Nat
      BY <3>5 DEF Bounds
    <3> QED
      BY <3>4, <3>5, <3>6
  <2>3. \A q \in Pages : p <= q <=> q = p \/ p + 1 <= q
    BY <2>1
  <2>4. there(p) \cup WantedFrom(p + 1) = WantedFrom(p)
    BY <2>3 DEF WantedFrom
  <2> HIDE DEF there
  <2> QED
    BY <1>1, <2>1, <2>2, <2>4
<1>4. Rec!Calls
  <2> SUFFICES ASSUME NEW g, NEW h, NEW x \in 0 .. NPages,
                      \A y \in 0 .. NPages : PagesLeft(y) < PagesLeft(x) => g[y] = h[y]
               PROVE  MapDef(g, x) = MapDef(h, x)
    BY DEF Rec!Calls
  <2>1. x # NPages => x + 1 \in 0 .. NPages /\ PagesLeft(x + 1) < PagesLeft(x)
    BY <1>1 DEF PagesLeft
  <2>2. x # NPages => g[x + 1] = h[x + 1]
    BY <2>1
  <2> QED
    BY <2>2 DEF MapDef
<1>5. MapIterate = (CHOOSE g : g = [p \in 0 .. NPages |-> MapDef(g, p)])[0]
  BY DEF MapIterate, MapDef
<1>6. PICK f : f = CHOOSE g : g = [p \in 0 .. NPages |-> MapDef(g, p)]
  OBVIOUS
<1>7. \A p \in 0 .. NPages : PagesLeft(p) \in Nat
  BY <1>1 DEF PagesLeft
<1>8. f = [p \in 0 .. NPages |-> MapDef(f, p)]
  BY <1>4, <1>6, <1>7, Rec!DefinedByRecursion
<1>9. \A p \in 0 .. NPages : f[p] = IF p = NPages THEN <<>> ELSE part(p) \o f[p + 1]
  <2>1. \A p \in 0 .. NPages : f[p] = MapDef(f, p)
    BY <1>8
  <2> QED
    BY <2>1 DEF MapDef
<1> DEFINE Good == {p \in 0 .. NPages : Exact(f[p], WantedFrom(p) \ L)}
           D == 0 .. NPages
           rank == [p \in D |-> NPages - p]
<1>10. ASSUME NEW p \in D, \A y \in D : rank[y] < rank[p] => y \in Good PROVE p \in Good
  <2>1. CASE p = NPages
    <3>1. f[p] = <<>>
      BY <1>9, <2>1
    <3>2. WantedFrom(p) \ L = {}
      BY <1>1, <2>1 DEF WantedFrom, Pages
    <3> QED
      BY <3>1, <3>2, ExactNone
  <2>2. CASE p # NPages
    <3>1. p \in Pages
      BY <1>1, <2>2 DEF Pages
    <3>2. p + 1 \in D /\ rank[p + 1] < rank[p]
      BY <1>1, <1>3, <3>1
    <3>3. PICK q, t, S, T : /\ q = part(p) /\ S = there(p) \ L
                            /\ t = f[p + 1] /\ T = WantedFrom(p + 1) \ L
      OBVIOUS
    <3> HIDE DEF part, there, L
    <3>4. Exact(q, S) /\ Exact(t, T) /\ S \cap T = {} /\ S \cup T = WantedFrom(p) \ L
      BY <1>2, <1>3, <1>10, <3>1, <3>2, <3>3
    <3>5. Exact(q \o t, S \cup T)
      BY <3>4, ExactBoth
    <3>6. f[p] = q \o t
      BY <1>9, <2>2, <3>3
    <3> QED
      BY <3>4, <3>5, <3>6
  <2> QED
    BY <2>1, <2>2
<1>11. D \subseteq Good
  <2>1. rank \in [D -> Nat]
    BY <1>1
  <2> HIDE DEF Good, rank, D
  <2> QED
    BY <1>10, <2>1, Rec!RankInduction
<1>12. 0 \in D
  BY <1>1
<1> QED
  BY <1>5, <1>6, <1>11, <1>12

-----------------------------------------------------------------------------
(***************************************************************************)
(* The ranges of a child.  The batch of structures never leaves the list,  *)
(* so that there is a region to begin with.                                *)
(***************************************************************************)
TdRegion == Region(TdBatch, 1)

HeadInv ==
    /\ TdRegion \in Range(alloc_list)
    /\ \A c \in Mappers : Rotating(c) => op[c].meta # TdRegion

\* The batch of structures is there from the start.
LEMMA HeadInit == Init => HeadInv
<1> SUFFICES ASSUME Init PROVE HeadInv
  OBVIOUS
<1>1. alloc_list = <<Region(MetaBlock, 1), TdRegion>>
  BY DEF Init, TdRegion
<1>2. TdRegion \in Range(alloc_list)
  BY <1>1 DEF Range
<1>3. \A c \in Mappers : op[c].pc = "idle"
  BY DEF Init, NoOp
<1> QED
  BY <1>2, <1>3 DEF HeadInv, Rotating, RotatingPcs

\* A step that leaves the list alone and brings no mapper to rotate it.
LEMMA HeadKept ==
    ASSUME AllocInv, HeadInv, NEW c \in Mappers, NEW x, x.pc \notin RotatingPcs,
           op' = [op EXCEPT ![c] = x], TdRegion \in Range(alloc_list')
    PROVE  HeadInv'
<1>1. op'[c] = x /\ \A e \in Mappers : e # c => op'[e] = op[e]
  BY DEF AllocInv, AllocTypeOK
<1>2. TdRegion' = TdRegion
  BY DEF TdRegion, Region
<1>3. ASSUME NEW e \in Mappers, op'[e].pc \in RotatingPcs PROVE op'[e].meta # TdRegion
  BY <1>1, <1>3 DEF HeadInv, Rotating
<1> QED
  BY <1>2, <1>3 DEF HeadInv, Rotating

\* A region that is linked in.
LEMMA HeadLinked ==
    ASSUME AllocInv, HeadInv, NEW c \in Mappers, InsertBlock(c) \/ Insert(c)
    PROVE  HeadInv'
<1>1. /\ op[c].pc \in {"block", "insert"} /\ list_lock \in {c, Nobody}
      /\ alloc_list' = Linked(op[c].meta)
  BY DEF InsertBlock, Insert, AllocInv, LockInv, LockPcs
<1>2. Outside(c) /\ ~Rotating(c)
  BY <1>1 DEF Outside, OutsidePcs, Rotating, RotatingPcs
<1>3. op[c].meta \in Regions /\ op[c].meta \notin Range(alloc_list)
  BY <1>2 DEF AllocInv, AllocTypeOK, PlaceInv
<1>4. Range(alloc_list') = Range(alloc_list) \cup {op[c].meta}
  BY <1>1, <1>2, <1>3, NobodyElseRotates, MetaApart, LinkedInOrder DEF AllocInv
<1>5. PICK y : op' = [op EXCEPT ![c].pc = y]
  BY DEF InsertBlock, Insert
<1>6. /\ op'[c].meta = op[c].meta /\ \A e \in Mappers : e # c => op'[e] = op[e]
  BY <1>5 DEF AllocInv, AllocTypeOK, Ops
<1>7. TdRegion' = TdRegion
  BY DEF TdRegion, Region
<1>8. ASSUME NEW e \in Mappers PROVE op'[e].pc \in RotatingPcs => op'[e].meta # TdRegion
  BY <1>3, <1>6 DEF HeadInv, Rotating
<1> QED
  BY <1>4, <1>7, <1>8 DEF HeadInv, Rotating

\* The list turns.
LEMMA HeadRotated ==
    ASSUME AllocInv, HeadInv, NEW c \in Mappers, InsertBlockHead(c) \/ InsertHead(c)
    PROVE  HeadInv'
<1>1. Rotating(c) /\ alloc_list' = Rotated
  BY DEF InsertBlockHead, InsertHead, Rotating, RotatingPcs
<1>2. alloc_list \in Seq(Regions) /\ Len(alloc_list) > 0
  BY <1>1 DEF AllocInv, AllocTypeOK, OrderInv
<1>3. Range(alloc_list') = Range(alloc_list)
  BY <1>1, <1>2, LastFirst DEF Rotated
<1>4. PICK y : y \in {"nodes", "done"} /\ op' = [op EXCEPT ![c].pc = y]
  BY DEF InsertBlockHead, InsertHead
<1> DEFINE x == [op[c] EXCEPT !.pc = y]
<1>5. x.pc = y
  <2>1. op[c] \in Ops
    BY DEF AllocInv, AllocTypeOK
  <2> QED
    BY <2>1 DEF Ops
<1>6. op' = [op EXCEPT ![c] = x] /\ x.pc \notin RotatingPcs
  BY <1>4, <1>5 DEF RotatingPcs
<1> HIDE DEF x
<1> QED
  BY <1>3, <1>6, HeadKept DEF HeadInv

\* What the collector unmaps is not the batch.
LEMMA HeadRemoved ==
    ASSUME AllocInv, HeadInv, UnmapAggregate
    PROVE  HeadInv'
<1>1. PICK i \in Aggregates : MetadataRemove(Collector, i)
  BY DEF UnmapAggregate
<1>2. alloc_list \in Seq(Regions) /\ i \in DOMAIN alloc_list /\ alloc_list[i].low # TdBatch
  BY DEF Aggregates, AllocInv, AllocTypeOK
<1>3. DOMAIN alloc_list = 1 .. Len(alloc_list)
  BY <1>2, LenProperties
<1>4. Range(alloc_list') = {alloc_list[j] : j \in (1 .. Len(alloc_list)) \ {i}}
  BY <1>1, <1>2, <1>3, Removed DEF MetadataRemove
<1>5. TdRegion.low = TdBatch
  BY DEF TdRegion, Region
<1>6. PICK k \in 1 .. Len(alloc_list) : alloc_list[k] = TdRegion
  BY <1>3 DEF HeadInv, Range
<1>7. TdRegion \in Range(alloc_list')
  BY <1>2, <1>4, <1>5, <1>6
<1> DEFINE x == [NoOp EXCEPT !.pc = "munmap", !.meta = alloc_list[i]]
<1>8. x.pc = "munmap"
  BY DEF NoOp
<1>9. Collector \in Mappers /\ op' = [op EXCEPT ![Collector] = x] /\ x.pc \notin RotatingPcs
  BY <1>1, <1>8, SnapshotAssumption DEF MetadataRemove, RotatingPcs
<1> HIDE DEF x
<1> QED
  BY <1>7, <1>9, HeadKept

\* The other steps leave the list alone.
LEMMA HeadAlone ==
    ASSUME AllocInv, HeadInv, NEW c \in Mappers, UNCHANGED alloc_list,
           \/ \E size, shared : TakeNode(c, size, shared) \/ MapBlock(c, size, shared)
           \/ op' = [op EXCEPT ![c] = NoOp]
           \/ BlockNode(c) \/ MmapWrap(c) \/ MunmapWrap(c) \/ MetadataFree(c)
    PROVE  HeadInv'
<1>1. op[c] \in Ops /\ op \in [Mappers -> Ops] /\ TdRegion \in Range(alloc_list')
  BY DEF AllocInv, AllocTypeOK, HeadInv
<1>2. ASSUME NEW y, y \in {"mmap", "insert", "free"}, op' = [op EXCEPT ![c].pc = y] PROVE HeadInv'
  <2> DEFINE x == [op[c] EXCEPT !.pc = y]
  <2>1. x.pc = y
    BY <1>1 DEF Ops
  <2>2. op' = [op EXCEPT ![c] = x] /\ x.pc \notin RotatingPcs
    BY <1>2, <2>1 DEF RotatingPcs
  <2> HIDE DEF x
  <2> QED
    BY <1>1, <2>2, HeadKept
<1>3. ASSUME NEW r, op' = [op EXCEPT ![c].pc = "insert", ![c].meta = r] PROVE HeadInv'
  <2> DEFINE x == [op[c] EXCEPT !.pc = "insert", !.meta = r]
  <2>1. x.pc = "insert"
    BY <1>1 DEF Ops
  <2>2. op' = [op EXCEPT ![c] = x] /\ x.pc \notin RotatingPcs
    BY <1>1, <1>3, <2>1 DEF RotatingPcs
  <2> HIDE DEF x
  <2> QED
    BY <1>1, <2>2, HeadKept
<1>5. ASSUME NEW size, NEW shared, TakeNode(c, size, shared) PROVE HeadInv'
  <2> DEFINE x == [NoOp EXCEPT !.pc = "mmap", !.size = size, !.shared = shared]
  <2>1. x.pc = "mmap"
    BY DEF NoOp
  <2>2. op' = [op EXCEPT ![c] = x] /\ x.pc \notin RotatingPcs
    BY <1>5, <2>1 DEF TakeNode, RotatingPcs
  <2> HIDE DEF x
  <2> QED
    BY <1>1, <2>2, HeadKept
<1>6. ASSUME NEW size, NEW shared, MapBlock(c, size, shared) PROVE HeadInv'
  <2>1. PICK r : op' = [op EXCEPT ![c] = [pc |-> "block", meta |-> r, size |-> size,
                                          shared |-> shared]]
    BY <1>6 DEF MapBlock
  <2> DEFINE x == [pc |-> "block", meta |-> r, size |-> size, shared |-> shared]
  <2>2. op' = [op EXCEPT ![c] = x] /\ x.pc \notin RotatingPcs
    BY <2>1 DEF RotatingPcs
  <2> HIDE DEF x
  <2> QED
    BY <1>1, <2>2, HeadKept
<1>7. NoOp.pc \notin RotatingPcs
  BY DEF NoOp, RotatingPcs
<1>8. ASSUME op' = [op EXCEPT ![c] = NoOp] PROVE HeadInv'
  BY <1>1, <1>7, <1>8, HeadKept
<1> QED
  BY <1>2, <1>3, <1>5, <1>6, <1>8 DEF BlockNode, MmapWrap, MunmapWrap, MetadataFree

\* No step takes it out of the list.
LEMMA HeadNext == AllocInv /\ HeadInv /\ [Next]_vars => HeadInv'
<1> SUFFICES ASSUME AllocInv, HeadInv, [Next]_vars PROVE HeadInv'
  OBVIOUS
<1>0. Collector \in Mappers /\ Callers \subseteq Mappers
  BY SnapshotAssumption
<1>1. ASSUME UNCHANGED allocVars PROVE HeadInv'
  BY <1>1 DEF allocVars, HeadInv, Rotating, TdRegion, Region
<1>2. ASSUME NEW c \in Callers, MapStacks(c) PROVE HeadInv'
  <2>1. TakeNode(c, StackBatch, FALSE) \/ MapBlock(c, StackBatch, FALSE)
    BY <1>2 DEF MapStacks, AllocMmap
  <2>2. UNCHANGED alloc_list
    BY <2>1 DEF TakeNode, MapBlock
  <2> QED
    BY <1>0, <2>1, <2>2, HeadAlone
<1>3. ASSUME NEW c \in Callers, StacksMapped(c) PROVE HeadInv'
  BY <1>0, <1>3, HeadAlone DEF StacksMapped
<1>4. ASSUME MapAggregate PROVE HeadInv'
  <2>1. TakeNode(Collector, 1, TRUE) \/ MapBlock(Collector, 1, TRUE)
    BY <1>4 DEF MapAggregate, AllocMmap
  <2>2. UNCHANGED alloc_list
    BY <2>1 DEF TakeNode, MapBlock
  <2> QED
    BY <1>0, <2>1, <2>2, HeadAlone
<1>5. ASSUME AggregateMapped PROVE HeadInv'
  BY <1>0, <1>5, HeadAlone DEF AggregateMapped
<1>6. ASSUME NEW c \in Mappers, AllocStep(c) PROVE HeadInv'
  <2>1. CASE InsertBlock(c) \/ Insert(c)
    BY <2>1, HeadLinked
  <2>2. CASE InsertBlockHead(c) \/ InsertHead(c)
    BY <2>2, HeadRotated
  <2>3. CASE BlockNode(c) \/ MmapWrap(c) \/ MunmapWrap(c) \/ MetadataFree(c)
    <3>1. UNCHANGED alloc_list
      BY <2>3 DEF BlockNode, MmapWrap, MunmapWrap, MetadataFree
    <3> QED
      BY <2>3, <3>1, HeadAlone
  <2> QED
    BY <1>6, <2>1, <2>2, <2>3 DEF AllocStep
<1>7. ASSUME AllocNext PROVE HeadInv'
  BY <1>2, <1>3, <1>4, <1>5, <1>6, <1>7, HeadRemoved DEF AllocNext
<1> QED
  BY <1>1, <1>7 DEF Next, vars, LeaveList, Fork, AddStackRange, ChildGone

\* The list is sorted but for a region that is to become its head.
LEMMA ListHasShape ==
    ASSUME AllocInv, HeadInv
    PROVE  \E m : /\ Shape(m)
                  /\ \A r \in Range(alloc_list) :
                        (\E i \in 1 .. m : r = alloc_list[i]) \/ r \in InFlight
<1>1. PICK n \in Nat : /\ n = Len(alloc_list) /\ DOMAIN alloc_list = 1 .. n
                       /\ alloc_list \in Seq(Regions)
  BY LenProperties DEF AllocInv, AllocTypeOK
<1>2. PICK t \in 1 .. n : alloc_list[t] = TdRegion
  BY <1>1 DEF HeadInv, Range
<1>3. CASE \A c \in Mappers : ~Rotating(c)
  <2>1. Shape(n)
    BY <1>1, <1>2, <1>3 DEF Shape, AllocInv, OrderInv
  <2>2. \A r \in Range(alloc_list) : \E i \in 1 .. n : r = alloc_list[i]
    BY <1>1 DEF Range
  <2> QED
    BY <2>1, <2>2
<1>4. ASSUME NEW c \in Mappers, Rotating(c)
      PROVE  \E m : /\ Shape(m)
                    /\ \A r \in Range(alloc_list) :
                          (\E i \in 1 .. m : r = alloc_list[i]) \/ r \in InFlight
  <2>1. /\ n > 0 /\ op[c].meta = alloc_list[n] /\ Sorted(alloc_list, n - 1)
        /\ \A i \in 1 .. (n - 1) : op[c].meta.high <= alloc_list[i].low
    BY <1>1, <1>4 DEF AllocInv, OrderInv, Last
  <2>2. op[c].meta # TdRegion
    BY <1>4 DEF HeadInv
  <2>3. n # 1
    BY <1>2, <2>1, <2>2
  <2>4. PICK m \in Nat \ {0} : n = m + 1
    BY <2>1, <2>3
  <2>5. Shape(m)
    BY <1>1, <2>1, <2>4 DEF Shape
  <2>6. op[c].meta \in InFlight
    BY <1>4 DEF InFlight, Rotating, RotatingPcs
  <2>7. ASSUME NEW r \in Range(alloc_list)
        PROVE  (\E i \in 1 .. m : r = alloc_list[i]) \/ r \in InFlight
    <3>1. PICK i \in 1 .. n : r = alloc_list[i]
      BY <1>1 DEF Range
    <3>2. i = n \/ i \in 1 .. m
      BY <2>4
    <3> QED
      BY <2>1, <2>6, <3>1, <3>2
  <2> QED
    BY <2>5, <2>7
<1> QED
  BY <1>3, <1>4

\* The list that the child reads has the shape that BreakRange counts on.
LEMMA RangesExactHolds == AllocInv /\ HeadInv => RangesExact
<1> SUFFICES ASSUME AllocInv, HeadInv PROVE RangesExact
  OBVIOUS
<1>1. PICK m : /\ Shape(m)
               /\ \A r \in Range(alloc_list) :
                     (\E i \in 1 .. m : r = alloc_list[i]) \/ r \in InFlight
  BY ListHasShape
<1>2. PICK q : q = MapIterate /\ Exact(q, WantedFrom(0) \ PagesListed(m))
  BY <1>1, MapIterateIs
<1>3. \A p \in Pages : 0 <= p
  BY DEF Pages
<1>4. \A x : x \in WantedFrom(0) <=>
         x \in Pages /\ \E r \in MapLines : IsWanted(r) /\ x \in PagesOf(r)
  BY <1>3 DEF WantedFrom, MapLines
<1>5. \A x \in PagesListed(m) : x \in Pages => vm[x] \in OwnKinds
  <2>1. m \in Nat /\ \A i \in 1 .. m : i \in DOMAIN alloc_list
    BY <1>1, ShapeNumbers
  <2>2. \A i \in 1 .. m : alloc_list[i] \in Held
    BY <2>1 DEF Held, Range
  <2> QED
    BY <2>2 DEF PagesListed, AllocInv, HeldInv
<1>6. Scannable \subseteq WantedFrom(0) \ PagesListed(m)
  BY <1>4, <1>5 DEF Scannable, OwnKinds
<1>7. ASSUME NEW x \in WantedFrom(0) \ PagesListed(m) PROVE x \in Scannable \cup PagesInFlight
  <2>1. PICK r \in MapLines : IsWanted(r) /\ x \in PagesOf(r) /\ x \in Pages
    BY <1>4
  <2>2. vm[x] \in {"data", "own"}
    BY <2>1 DEF IsWanted
  <2>3. CASE vm[x] = "data"
    BY <2>1, <2>3 DEF Scannable
  <2>4. CASE vm[x] = "own"
    <3>1. PICK h \in Held : x \in PagesOf(h)
      BY <2>1, <2>4 DEF AllocInv, HeldInv, OwnKinds
    <3>2. h \in InFlight
      <4>1. CASE h \in Flying
        BY <4>1 DEF Flying, InFlight, Outside, OutsidePcs
      <4>2. CASE h \in Range(alloc_list)
        BY <1>1, <1>7, <3>1, <4>2 DEF PagesListed
      <4> QED
        BY <4>1, <4>2 DEF Held
    <3> QED
      BY <3>1, <3>2 DEF PagesInFlight
  <2> QED
    BY <2>2, <2>3, <2>4
<1>8. ASSUME NEW i \in DOMAIN q PROVE Cardinality(PagesOf(q[i])) \in 1 .. MaxRangeSize
  <2>1. q[i] \in Bounds /\ q[i].low < q[i].high /\ q[i].high - q[i].low <= MaxRangeSize
    BY <1>2 DEF Exact
  <2>2. PICK a \in Nat, b \in Nat : a = q[i].low /\ b = q[i].high
    BY <2>1 DEF Bounds
  <2>3. Cardinality(a .. (b - 1)) = b - a
    <3>1. b - 1 \in Int /\ ~(a > b - 1)
      BY <2>1, <2>2
    <3>2. Cardinality(a .. (b - 1)) = (b - 1) - a + 1
      BY <3>1, FS_Interval
    <3> QED
      BY <3>2
  <2> QED
    BY <2>1, <2>2, <2>3, ScanAssumption DEF PagesOf
<1>9. PICK U : U = UNION {PagesOf(q[i]) : i \in DOMAIN q}
  OBVIOUS
<1>10. U = WantedFrom(0) \ PagesListed(m)
  BY <1>2, <1>9 DEF Exact
<1>11. \A i, j \in DOMAIN q : i # j => PagesOf(q[i]) \cap PagesOf(q[j]) = {}
  BY <1>2 DEF Exact
<1>12. Scannable \subseteq U /\ U \subseteq Scannable \cup PagesInFlight
  BY <1>6, <1>7, <1>10
<1> QED
  BY <1>2, <1>8, <1>9, <1>11, <1>12 DEF RangesExact

\* Wherever the threads are when the collector forks, also in the middle of a change to
\* the list of Forkscan's regions, the ranges of the child hold every page of the
\* application's writable memory, no page twice, no piece above the maximum, and of
\* Forkscan's own memory only what its mapper had not got into the list yet, for every
\* address space, number of threads and MAX_RANGE_SIZE (metadata_break_range,
\* collect_ranges, forkscan_proc_map_iterate).
THEOREM RangesAreExact == Spec => []RangesExact
<1>1. AllocInv /\ HeadInv /\ [Next]_vars => AllocInv' /\ HeadInv'
  BY AllocNextInv, HeadNext
<1>2. Spec => [](AllocInv /\ HeadInv)
  BY <1>1, AllocInit, HeadInit, PTL DEF Spec
<1> QED
  BY <1>2, RangesExactHolds, PTL

-----------------------------------------------------------------------------
(***************************************************************************)
(* find_roots.  InOrder(q, S): q holds the words in S, each once, in       *)
(* ascending order.                                                        *)
(***************************************************************************)
InOrder(q, S) ==
    /\ q \in Seq(Nat)
    /\ Range(q) = S
    /\ \A i, j \in DOMAIN q : i < j => q[i] < q[j]

\* Nothing to compare.
LEMMA InOrderNone == InOrder(<<>>, {})
BY DEF InOrder, Range

\* The words that one turn of the loop compares.
LEMMA InOrderRun ==
    ASSUME NEW a \in Nat, NEW b \in Nat
    PROVE  InOrder([k \in 1 .. (b - a) |-> a + k - 1], a .. (b - 1))
<1> DEFINE q == [k \in 1 .. (b - a) |-> a + k - 1]
<1>0. CASE b <= a
  <2>1. 1 .. (b - a) = {} /\ a .. (b - 1) = {}
    BY <1>0
  <2>2. q = <<>>
    BY <2>1
  <2> QED
    BY <2>1, <2>2, InOrderNone
<1>1. CASE a < b
  <2>1. b - a \in Nat
    BY <1>1
  <2>2. \A k \in 1 .. (b - a) : a + k - 1 \in Nat
    OBVIOUS
  <2>3. q \in Seq(Nat) /\ DOMAIN q = 1 .. (b - a)
    BY <2>1, <2>2, IsASeq
  <2>4. \A x : x \in Range(q) <=> \E k \in 1 .. (b - a) : x = a + k - 1
    BY <2>3 DEF Range
  <2>5. \A x \in a .. (b - 1) : x - a + 1 \in 1 .. (b - a) /\ x = a + (x - a + 1) - 1
    OBVIOUS
  <2>6. Range(q) = a .. (b - 1)
    <3>1. \A x \in Range(q) : x \in a .. (b - 1)
      BY <2>4
    <3>2. \A x \in a .. (b - 1) : x \in Range(q)
      BY <2>4, <2>5
    <3> QED
      BY <3>1, <3>2
  <2>7. \A i, j \in DOMAIN q : i < j => q[i] < q[j]
    BY <2>3
  <2> HIDE DEF q
  <2>8. InOrder(q, a .. (b - 1))
    BY <2>3, <2>6, <2>7 DEF InOrder
  <2> QED
    BY <2>8 DEF q
<1> QED
  BY <1>0, <1>1

\* Two runs, one above the other.
LEMMA InOrderBoth ==
    ASSUME NEW q, NEW t, NEW S, NEW T, InOrder(q, S), InOrder(t, T),
           \A x \in S, y \in T : x < y
    PROVE  InOrder(q \o t, S \cup T)
<1>1. PICK m \in Nat : q \in Seq(Nat) /\ m = Len(q) /\ DOMAIN q = 1 .. m
  BY LenProperties DEF InOrder
<1>2. PICK n \in Nat : t \in Seq(Nat) /\ n = Len(t) /\ DOMAIN t = 1 .. n
  BY LenProperties DEF InOrder
<1>3. PICK u : u = q \o t
  OBVIOUS
<1>4. /\ u \in Seq(Nat) /\ Len(u) = m + n
      /\ \A i \in 1 .. (m + n) : u[i] = IF i <= m THEN q[i] ELSE t[i - m]
  BY <1>1, <1>2, <1>3, ConcatProperties
<1>5. DOMAIN u = 1 .. (m + n)
  BY <1>1, <1>2, <1>4, LenProperties
<1>6. \A i \in DOMAIN u : \/ i \in DOMAIN q /\ u[i] = q[i]
                          \/ i - m \in DOMAIN t /\ i > m /\ u[i] = t[i - m]
  <2>1. ASSUME NEW i \in 1 .. (m + n), ~(i <= m) PROVE i - m \in 1 .. n /\ i > m
    BY <2>1
  <2>2. ASSUME NEW i \in 1 .. (m + n), i <= m PROVE i \in 1 .. m
    BY <2>2
  <2> QED
    BY <1>1, <1>2, <1>4, <1>5, <2>1, <2>2
<1>7. /\ \A i \in DOMAIN q : i \in DOMAIN u /\ u[i] = q[i]
      /\ \A i \in DOMAIN t : i + m \in DOMAIN u /\ u[i + m] = t[i]
  <2>1. ASSUME NEW i \in DOMAIN q PROVE i \in DOMAIN u /\ u[i] = q[i]
    BY <1>1, <1>2, <1>4, <1>5
  <2>2. ASSUME NEW i \in DOMAIN t PROVE i + m \in DOMAIN u /\ u[i + m] = t[i]
    <3>1. PICK k : k = i + m
      OBVIOUS
    <3>2. k \in 1 .. (m + n) /\ ~(k <= m) /\ k - m = i
      BY <1>1, <1>2, <3>1
    <3> QED
      BY <1>4, <1>5, <3>1, <3>2
  <2> QED
    BY <2>1, <2>2
<1>8. /\ \A x : x \in S <=> \E i \in DOMAIN q : x = q[i]
      /\ \A x : x \in T <=> \E i \in DOMAIN t : x = t[i]
      /\ \A x : x \in Range(u) <=> \E i \in DOMAIN u : x = u[i]
  BY DEF InOrder, Range
<1>9. Range(u) = S \cup T
  <2>1. \A x \in Range(u) : x \in S \cup T
    BY <1>6, <1>8
  <2>2. \A x \in S : x \in Range(u)
    BY <1>7, <1>8
  <2>3. \A x \in T : x \in Range(u)
    BY <1>7, <1>8
  <2> QED
    BY <2>1, <2>2, <2>3, Zenon
<1>10. ASSUME NEW i \in DOMAIN u, NEW j \in DOMAIN u, i < j PROVE u[i] < u[j]
  <2>1. i \in Nat /\ j \in Nat
    BY <1>1, <1>2, <1>5
  <2>2. CASE i \in DOMAIN q /\ u[i] = q[i]
    <3>1. CASE j \in DOMAIN q /\ u[j] = q[j]
      BY <1>10, <2>2, <3>1 DEF InOrder
    <3>2. CASE j - m \in DOMAIN t /\ u[j] = t[j - m]
      BY <1>8, <2>2, <3>2
    <3> QED
      BY <1>6, <3>1, <3>2
  <2>3. CASE i - m \in DOMAIN t /\ i > m /\ u[i] = t[i - m]
    <3>1. ~(j \in DOMAIN q)
      BY <1>1, <1>10, <2>1, <2>3
    <3>2. j - m \in DOMAIN t /\ u[j] = t[j - m] /\ i - m < j - m
      BY <1>1, <1>6, <1>10, <2>1, <3>1
    <3> QED
      BY <2>3, <3>2 DEF InOrder
  <2> QED
    BY <1>6, <2>2, <2>3
<1>11. InOrder(u, S \cup T)
  BY <1>4, <1>9, <1>10 DEF InOrder
<1> QED
  BY <1>3, <1>11

\* A set of numbers up to n has a greatest element.
LEMMA GreatestOfSet ==
    ASSUME NEW n \in Nat, NEW S, S \subseteq 0 .. n, S # {}
    PROVE  \E x \in S : \A y \in S : x >= y
<1> DEFINE R == {k \in Nat : n - k \in S}
<1>1. R # {}
  <2>1. PICK x \in S : x \in 0 .. n
    OBVIOUS
  <2>2. n - x \in Nat /\ n - (n - x) = x
    BY <2>1
  <2>3. n - x \in R
    BY <2>2
  <2> QED
    BY <2>3
<1>2. PICK k \in R : \A l \in R : k <= l
  <2>1. R \subseteq Nat
    OBVIOUS
  <2> HIDE DEF R
  <2> QED
    BY <1>1, <2>1, Rec!LeastNatural
<1>3. ASSUME NEW y \in S PROVE n - k >= y
  <2>1. y \in 0 .. n
    OBVIOUS
  <2>2. n - y \in Nat /\ n - (n - y) = y
    BY <2>1
  <2>3. n - y \in R
    BY <2>2
  <2>4. k <= n - y /\ k \in Nat
    BY <1>2, <2>3
  <2> QED
    BY <2>1, <2>4
<1>4. n - k \in S
  BY <1>2
<1> QED
  BY <1>3, <1>4

-----------------------------------------------------------------------------
\* Nodes in ascending order.
Ascend(s) ==
    /\ s \in Seq(Bounds)
    /\ \A i \in 1 .. Len(s) : s[i].low < s[i].high /\ s[i].high <= NWords
    /\ Sorted(s, Len(s))

InNode(p, s) == \E i \in 1 .. Len(s) : s[i].low <= p /\ p < s[i].high

\* The nodes before the k-th end at or below low, the others begin at or above it.
Divides(low, k, s) ==
    /\ \A i \in 1 .. Len(s) : i < k => s[i].high <= low
    /\ \A i \in 1 .. Len(s) : i >= k => low <= s[i].low

\* Ascending nodes, as numbers.
LEMMA AscendNumbers ==
    ASSUME NEW s, Ascend(s)
    PROVE  /\ Len(s) \in Nat /\ DOMAIN s = 1 .. Len(s) /\ NWords \in Nat
           /\ \A i \in 1 .. Len(s) : /\ s[i].low \in Nat /\ s[i].high \in Nat
                                     /\ s[i].low < s[i].high /\ s[i].high <= NWords
           /\ \A i, j \in 1 .. Len(s) : i < j => s[i].high <= s[j].low
<1>1. s \in Seq(Bounds) /\ Len(s) \in Nat /\ DOMAIN s = 1 .. Len(s)
  BY LenProperties DEF Ascend
<1>2. \A i \in 1 .. Len(s) : s[i] \in Bounds
  BY <1>1, ElementOfSeq
<1>3. \A r \in Bounds : r.low \in Nat /\ r.high \in Nat
  BY DEF Bounds
<1> QED
  BY <1>1, <1>2, <1>3, ScanAssumption DEF Ascend, Sorted

\* find_roots leaves the node in which the range begins.
LEMMA SkipFirstIs ==
    ASSUME NEW s, Ascend(s), NEW low \in Nat, low <= NWords, NEW x, x = SkipFirst(low, s)
    PROVE  /\ x.low \in Nat /\ x.idx \in Nat \ {0} /\ low <= x.low /\ x.low <= NWords
           /\ Divides(x.low, x.idx, s)
           /\ \A p \in low .. (x.low - 1) : InNode(p, s)
           /\ x.low = low \/ \E i \in 1 .. Len(s) : x.low = s[i].high /\ s[i].low <= low
<1> DEFINE n == Len(s)
           S == {1} \cup {i \in DOMAIN s : s[i].low <= low}
<1>1. /\ n \in Nat /\ DOMAIN s = 1 .. n /\ NWords \in Nat
      /\ \A i \in 1 .. n : /\ s[i].low \in Nat /\ s[i].high \in Nat
                           /\ s[i].low < s[i].high /\ s[i].high <= NWords
      /\ \A i, j \in 1 .. n : i < j => s[i].high <= s[j].low
  BY AscendNumbers
<1>2. PICK k : k = SearchFrom(low, s)
  OBVIOUS
<1>3. k \in S /\ \A y \in S : k >= y
  <2>1. S \subseteq 0 .. (n + 1) /\ S # {} /\ n + 1 \in Nat
    BY <1>1
  <2>2. k = CHOOSE z \in S : \A y \in S : z >= y
    BY <1>2 DEF SearchFrom, Max
  <2> HIDE DEF S
  <2>3. \E z \in S : \A y \in S : z >= y
    BY <2>1, GreatestOfSet
  <2> QED
    BY <2>2, <2>3, Zenon
<1>4. k \in Nat /\ k >= 1 /\ (k \in 1 .. n => k = 1 \/ s[k].low <= low)
      /\ (k \notin 1 .. n => k = 1 /\ n = 0)
  BY <1>1, <1>3
<1>5. \A i \in 1 .. n : i > k => ~(s[i].low <= low)
  BY <1>1, <1>3, <1>4
<1> HIDE DEF n, S
<1>6. CASE Addr(s, k) > low
  <2>1. x.low = low /\ x.idx = k
    BY <1>2, <1>6 DEF SkipFirst
  <2>2. k \in 1 .. n => s[k].low > low /\ k = 1
    BY <1>1, <1>4, <1>6 DEF Addr, n
  <2>3. k = 1 /\ \A i \in 1 .. n : low <= s[i].low
    BY <1>1, <1>4, <1>5, <2>2
  <2>4. Divides(low, k, s)
    BY <1>1, <2>3 DEF Divides, n
  <2> QED
    BY <1>4, <2>1, <2>4
<1>7. CASE ~(Addr(s, k) > low)
  <2>1. k \in 1 .. n
    <3>1. SUFFICES ASSUME k \notin 1 .. n PROVE FALSE
      OBVIOUS
    <3>2. ~(k <= Len(s))
      BY <1>1, <1>4, <3>1 DEF n
    <3>3. Addr(s, k) = NWords + 1
      BY <3>2 DEF Addr, Top
    <3> QED
      BY <1>1, <1>7, <3>3
  <2>2. Addr(s, k) = s[k].low /\ s[k].low <= low
    BY <1>1, <1>7, <2>1 DEF Addr, n
  <2>3. PICK h \in Nat : h = s[k].high
    BY <1>1, <2>1
  <2>4. x.low = (IF h > low THEN h ELSE low) /\ x.idx = k + 1
    BY <1>2, <1>7, <2>3 DEF SkipFirst
  <2>5. \A p \in low .. (x.low - 1) : s[k].low <= p /\ p < s[k].high
    BY <1>1, <2>1, <2>2, <2>3, <2>4
  <2>6. \A p \in low .. (x.low - 1) : InNode(p, s)
    BY <2>1, <2>5 DEF InNode, n
  <2>7. ASSUME NEW i \in 1 .. n, i < k + 1 PROVE s[i].high <= x.low
    <3>1. i = k \/ s[i].high <= s[k].low
      BY <1>1, <2>1, <2>7
    <3> QED
      BY <1>1, <2>1, <2>3, <2>4, <3>1
  <2>8. ASSUME NEW i \in 1 .. n, i >= k + 1 PROVE x.low <= s[i].low
    <3>1. s[k].high <= s[i].low /\ ~(s[i].low <= low)
      BY <1>1, <1>5, <2>1, <2>8
    <3> QED
      BY <1>1, <2>3, <2>4, <3>1
  <2>9. Divides(x.low, x.idx, s)
    BY <2>4, <2>7, <2>8 DEF Divides, n
  <2>10. x.low \in Nat /\ x.idx \in Nat \ {0} /\ low <= x.low /\ x.low <= NWords
    BY <1>1, <1>4, <2>1, <2>3, <2>4
  <2> QED
    BY <2>1, <2>2, <2>3, <2>4, <2>6, <2>9, <2>10 DEF n
<1> QED
  BY <1>6, <1>7

\* The words outside all nodes.
FreeWords(low, high, pool, dead) ==
    {p \in low .. (high - 1) : ~InNode(p, pool) /\ ~InNode(p, dead)}

\* No node of one kind overlaps one of the other.
Separate(pool, dead) ==
    \A i \in 1 .. Len(pool), j \in 1 .. Len(dead) : Apart(pool[i], dead[j])

Placed(at, pool, dead) ==
    at \in Cursors /\ Divides(at.low, at.pool, pool) /\ Divides(at.low, at.dead, dead)

\* The node that find_roots skips is the next one of its kind, here s; the ones of
\* the other kind, t, stay ahead.
LEMMA NodeSkipped ==
    ASSUME NEW s, NEW t, Ascend(s), Ascend(t), Separate(s, t) \/ Separate(t, s),
           NEW low \in Nat, NEW k \in 1 .. Len(s), NEW l \in Nat \ {0},
           Divides(low, k, s), Divides(low, l, t),
           l <= Len(t) => s[k].low <= t[l].low
    PROVE  /\ Divides(s[k].high, k + 1, s) /\ Divides(s[k].high, l, t)
           /\ \A p \in low .. (s[k].low - 1) : ~InNode(p, s) /\ ~InNode(p, t)
           /\ \A p \in s[k].low .. (s[k].high - 1) : InNode(p, s)
<1>1. /\ Len(s) \in Nat
      /\ \A i \in 1 .. Len(s) : s[i].low \in Nat /\ s[i].high \in Nat /\ s[i].low < s[i].high
      /\ \A i, j \in 1 .. Len(s) : i < j => s[i].high <= s[j].low
  BY AscendNumbers
<1>2. /\ Len(t) \in Nat
      /\ \A i \in 1 .. Len(t) : t[i].low \in Nat /\ t[i].high \in Nat /\ t[i].low < t[i].high
      /\ \A i, j \in 1 .. Len(t) : i < j => t[i].high <= t[j].low
  BY AscendNumbers
<1>3. PICK a \in Nat, b \in Nat : a = s[k].low /\ b = s[k].high /\ a < b /\ low <= a
  BY <1>1 DEF Divides
<1>4. ASSUME NEW i \in 1 .. Len(s), i < k PROVE s[i].high <= low /\ s[i].high <= b
  BY <1>1, <1>3, <1>4 DEF Divides
<1>5. ASSUME NEW i \in 1 .. Len(s), i >= k + 1 PROVE b <= s[i].low
  BY <1>1, <1>3, <1>5
<1>6. Divides(b, k + 1, s)
  <2>1. \A i \in 1 .. Len(s) : i < k + 1 => i = k \/ i < k
    OBVIOUS
  <2> QED
    BY <1>3, <1>4, <1>5, <2>1 DEF Divides
<1>7. ASSUME NEW i \in 1 .. Len(t), i < l PROVE t[i].high <= low /\ t[i].high <= b
  BY <1>2, <1>3, <1>7 DEF Divides
<1>8. ASSUME NEW i \in 1 .. Len(t), i >= l PROVE b <= t[i].low /\ a <= t[i].low
  <2>1. l \in 1 .. Len(t) /\ a <= t[l].low
    BY <1>2, <1>3, <1>8
  <2>2. i = l \/ t[l].high <= t[i].low
    BY <1>2, <1>8, <2>1
  <2>3. a <= t[i].low
    BY <1>2, <2>1, <2>2
  <2>4. Apart(s[k], t[i])
    BY DEF Separate, Apart
  <2>5. b <= t[i].low \/ t[i].high <= a
    BY <1>3, <2>4 DEF Apart
  <2> QED
    BY <1>2, <2>3, <2>5
<1>9. Divides(b, l, t)
  BY <1>7, <1>8 DEF Divides
<1>10. ASSUME NEW p \in low .. (a - 1), NEW i \in 1 .. Len(s)
      PROVE  ~(s[i].low <= p /\ p < s[i].high)
  <2>1. CASE i < k
    BY <1>1, <1>4, <2>1
  <2>2. CASE i = k
    BY <1>3, <2>2
  <2>3. CASE i >= k + 1
    BY <1>1, <1>3, <1>5, <2>3
  <2> QED
    BY <2>1, <2>2, <2>3
<1>11. ASSUME NEW p \in low .. (a - 1), NEW i \in 1 .. Len(t)
      PROVE  ~(t[i].low <= p /\ p < t[i].high)
  <2>1. CASE i < l
    BY <1>2, <1>7, <2>1
  <2>2. CASE i >= l
    BY <1>2, <1>3, <1>8, <2>2
  <2> QED
    BY <2>1, <2>2
<1>12. \A p \in a .. (b - 1) : s[k].low <= p /\ p < s[k].high
  BY <1>3
<1>13. /\ \A p \in low .. (a - 1) : ~InNode(p, s) /\ ~InNode(p, t)
       /\ \A p \in a .. (b - 1) : InNode(p, s)
  BY <1>10, <1>11, <1>12 DEF InNode
<1> QED
  BY <1>3, <1>6, <1>9, <1>13

\* Where no node begins before stop, nothing is skipped.
LEMMA NoNodeBefore ==
    ASSUME NEW s, Ascend(s), NEW low \in Nat, NEW stop \in Nat, NEW k \in Nat \ {0},
           Divides(low, k, s), k <= Len(s) => stop <= s[k].low
    PROVE  (\A p \in low .. (stop - 1) : ~InNode(p, s)) /\ (low <= stop => Divides(stop, k, s))
<1>1. /\ Len(s) \in Nat
      /\ \A i \in 1 .. Len(s) : s[i].low \in Nat /\ s[i].high \in Nat /\ s[i].low < s[i].high
      /\ \A i, j \in 1 .. Len(s) : i < j => s[i].high <= s[j].low
  BY AscendNumbers
<1>2. ASSUME NEW i \in 1 .. Len(s), i < k PROVE s[i].high <= low
  BY <1>2 DEF Divides
<1>3. ASSUME NEW i \in 1 .. Len(s), i >= k PROVE stop <= s[i].low
  <2>1. k \in 1 .. Len(s) /\ stop <= s[k].low
    BY <1>1, <1>3
  <2>2. i = k \/ s[k].high <= s[i].low
    BY <1>1, <1>3, <2>1
  <2> QED
    BY <1>1, <2>1, <2>2
<1>4. ASSUME NEW p \in low .. (stop - 1), NEW i \in 1 .. Len(s)
      PROVE  ~(s[i].low <= p /\ p < s[i].high)
  <2>1. CASE i < k
    BY <1>1, <1>2, <2>1
  <2>2. CASE i >= k
    BY <1>1, <1>3, <2>2
  <2> QED
    BY <2>1, <2>2
<1>5. low <= stop => Divides(stop, k, s)
  BY <1>1, <1>2, <1>3 DEF Divides
<1> QED
  BY <1>4, <1>5 DEF InNode

\* How many turns of the loop are left, at most.
NodesLeft(k, s) == IF k <= Len(s) THEN Len(s) + 1 - k ELSE 0

\* A turn that skips a node has one node less before it.
LEMMA NodesLeftLess ==
    ASSUME NEW s, Ascend(s), NEW k \in Nat \ {0}
    PROVE  /\ NodesLeft(k, s) \in Nat
           /\ k <= Len(s) => NodesLeft(k + 1, s) + 1 = NodesLeft(k, s)
BY AscendNumbers DEF NodesLeft

\* The next node to avoid, or none.
LEMMA AddrIs ==
    ASSUME NEW s, Ascend(s), NEW k \in Nat \ {0}
    PROVE  /\ Addr(s, k) \in Nat
           /\ k <= Len(s) => /\ k \in 1 .. Len(s) /\ Addr(s, k) = s[k].low
                             /\ s[k].low \in Nat /\ s[k].high \in Nat /\ s[k].low < s[k].high
           /\ Addr(s, k) <= NWords => k <= Len(s)
<1>1. /\ Len(s) \in Nat /\ NWords \in Nat
      /\ \A i \in 1 .. Len(s) : s[i].low \in Nat /\ s[i].high \in Nat /\ s[i].low < s[i].high
  BY AscendNumbers
<1>2. k <= Len(s) => k \in 1 .. Len(s)
  BY <1>1
<1> QED
  BY <1>1, <1>2 DEF Addr, Top

\* find_roots reads every word of the range that is in no node, and no other.
LEMMA FindRootsIs ==
    ASSUME NEW pool, NEW dead, Ascend(pool), Ascend(dead), Separate(pool, dead),
           NEW range \in Bounds, range.low < range.high, range.high <= NWords
    PROVE  InOrder(FindRoots(range, pool, dead),
                   FreeWords(range.low, range.high, pool, dead))
<1> DEFINE guarded(at) == LeastOf(Addr(pool, at.pool), Addr(dead, at.dead))
           stop(at) == LeastOf(guarded(at), range.high)
           words(at) == [k \in 1 .. (stop(at) - at.low) |-> at.low + k - 1]
           past(at) == IF at.low < stop(at) THEN stop(at) ELSE at.low
           next(at) ==
               IF stop(at) # guarded(at) THEN [at EXCEPT !.low = past(at)]
               ELSE IF guarded(at) = Addr(pool, at.pool)
               THEN [low |-> past(at) + (pool[at.pool].high - pool[at.pool].low),
                     pool |-> at.pool + 1, dead |-> at.dead]
               ELSE [low |-> past(at) + (dead[at.dead].high - dead[at.dead].low),
                     pool |-> at.pool, dead |-> at.dead + 1]
           body(f, at) == IF at.low >= range.high THEN <<>> ELSE words(at) \o f[next(at)]
           IsScan(f) == f = [at \in Cursors |-> body(f, at)]
           left(at) == NodesLeft(at.pool, pool) + NodesLeft(at.dead, dead)
           turns(at) == left(at) + left(at) + (IF at.low >= range.high THEN 0 ELSE 1)
           rank == [at \in Cursors |-> turns(at)]
           V == Seq(Nat)
<1>1. range.low \in Nat /\ range.high \in Nat /\ NWords \in Nat
  BY ScanAssumption DEF Bounds
<1>2. ASSUME NEW at \in Cursors
      PROVE  /\ at.low \in Nat /\ at.pool \in Nat \ {0} /\ at.dead \in Nat \ {0}
             /\ guarded(at) \in Nat /\ stop(at) \in Nat /\ past(at) \in Nat
             /\ stop(at) <= range.high /\ stop(at) <= guarded(at)
             /\ stop(at) # guarded(at) => stop(at) = range.high
             /\ guarded(at) <= Addr(pool, at.pool) /\ guarded(at) <= Addr(dead, at.dead)
             /\ guarded(at) = Addr(pool, at.pool) \/ guarded(at) = Addr(dead, at.dead)
             /\ InOrder(words(at), at.low .. (stop(at) - 1))
             /\ left(at) \in Nat
  <2>1. at.low \in Nat /\ at.pool \in Nat \ {0} /\ at.dead \in Nat \ {0}
    BY DEF Cursors
  <2>2. Addr(pool, at.pool) \in Nat /\ Addr(dead, at.dead) \in Nat
    BY <2>1, AddrIs
  <2>3. /\ guarded(at) \in Nat /\ guarded(at) <= Addr(pool, at.pool)
        /\ guarded(at) <= Addr(dead, at.dead)
        /\ guarded(at) = Addr(pool, at.pool) \/ guarded(at) = Addr(dead, at.dead)
    BY <2>2 DEF LeastOf
  <2> HIDE DEF guarded
  <2>4. /\ stop(at) \in Nat /\ stop(at) <= range.high /\ stop(at) <= guarded(at)
        /\ stop(at) # guarded(at) => stop(at) = range.high
    BY <1>1, <2>3 DEF LeastOf
  <2> HIDE DEF stop
  <2>5. past(at) \in Nat
    BY <2>1, <2>4
  <2>6. InOrder(words(at), at.low .. (stop(at) - 1))
    BY <2>1, <2>4, InOrderRun
  <2>7. left(at) \in Nat
    BY <2>1, NodesLeftLess
  <2> HIDE DEF words, past, left
  <2> QED
    BY <2>1, <2>3, <2>4, <2>5, <2>6, <2>7
\* The three ways in which a turn of the loop ends.
<1>3. ASSUME NEW at \in Cursors, at.low < range.high, stop(at) # guarded(at)
      PROVE  /\ next(at) \in Cursors /\ next(at).low = range.high
             /\ next(at).pool = at.pool /\ next(at).dead = at.dead
             /\ stop(at) = range.high
  <2>1. past(at) = range.high /\ stop(at) = range.high /\ at.low \in Nat
    BY <1>1, <1>2, <1>3
  <2>2. next(at) = [at EXCEPT !.low = range.high]
    BY <1>3, <2>1
  <2> HIDE DEF next, stop
  <2> QED
    BY <1>1, <2>1, <2>2 DEF Cursors
<1>4. ASSUME NEW at \in Cursors, at.low < range.high, stop(at) = guarded(at),
             guarded(at) = Addr(pool, at.pool)
      PROVE  /\ next(at) \in Cursors /\ at.pool \in 1 .. Len(pool) /\ stop(at) = pool[at.pool].low
             /\ next(at).low = past(at) + (pool[at.pool].high - pool[at.pool].low)
             /\ next(at).pool = at.pool + 1 /\ next(at).dead = at.dead
  <2>1. /\ at.pool \in 1 .. Len(pool) /\ stop(at) = pool[at.pool].low
        /\ pool[at.pool].high - pool[at.pool].low \in Nat
    <3> HIDE DEF stop, guarded, past, words, left
    <3>1. Addr(pool, at.pool) <= NWords
      <4>1. stop(at) <= range.high /\ stop(at) \in Nat /\ stop(at) = Addr(pool, at.pool)
        BY <1>2, <1>4
      <4> QED
        BY <1>1, <4>1
    <3>2. at.pool \in Nat \ {0}
      BY <1>2
    <3> QED
      BY <1>4, <3>1, <3>2, AddrIs
  <2> DEFINE v == past(at) + (pool[at.pool].high - pool[at.pool].low)
  <2>2. v \in Nat
    <3>1. past(at) \in Nat
      BY <1>2
    <3> HIDE DEF past
    <3> QED
      BY <2>1, <3>1
  <2>3. next(at) = [low |-> v, pool |-> at.pool + 1, dead |-> at.dead]
    BY <1>4
  <2> HIDE DEF next, stop, past, v
  <2>4. next(at) \in Cursors /\ next(at).low = v
        /\ next(at).pool = at.pool + 1 /\ next(at).dead = at.dead
    BY <2>2, <2>3 DEF Cursors
  <2> QED
    BY <2>1, <2>4 DEF v
<1>5. ASSUME NEW at \in Cursors, at.low < range.high, stop(at) = guarded(at),
             guarded(at) # Addr(pool, at.pool)
      PROVE  /\ next(at) \in Cursors /\ at.dead \in 1 .. Len(dead) /\ stop(at) = dead[at.dead].low
             /\ next(at).low = past(at) + (dead[at.dead].high - dead[at.dead].low)
             /\ next(at).dead = at.dead + 1 /\ next(at).pool = at.pool
  <2>0. guarded(at) = Addr(dead, at.dead)
    BY <1>2, <1>5
  <2>1. /\ at.dead \in 1 .. Len(dead) /\ stop(at) = dead[at.dead].low
        /\ dead[at.dead].high - dead[at.dead].low \in Nat
    <3> HIDE DEF stop, guarded, past, words, left
    <3>1. Addr(dead, at.dead) <= NWords
      <4>1. stop(at) <= range.high /\ stop(at) \in Nat /\ stop(at) = Addr(dead, at.dead)
        BY <1>2, <1>5, <2>0
      <4> QED
        BY <1>1, <4>1
    <3>2. at.dead \in Nat \ {0}
      BY <1>2
    <3> QED
      BY <1>5, <2>0, <3>1, <3>2, AddrIs
  <2> DEFINE v == past(at) + (dead[at.dead].high - dead[at.dead].low)
  <2>2. v \in Nat
    <3>1. past(at) \in Nat
      BY <1>2
    <3> HIDE DEF past
    <3> QED
      BY <2>1, <3>1
  <2>3. next(at) = [low |-> v, pool |-> at.pool, dead |-> at.dead + 1]
    BY <1>5
  <2> HIDE DEF next, stop, past, v
  <2>4. next(at) \in Cursors /\ next(at).low = v
        /\ next(at).dead = at.dead + 1 /\ next(at).pool = at.pool
    BY <2>2, <2>3 DEF Cursors
  <2> QED
    BY <2>1, <2>4 DEF v
<1> HIDE DEF next
<1>6. ASSUME NEW at \in Cursors, at.low < range.high
      PROVE  next(at) \in Cursors /\ turns(next(at)) < turns(at)
  <2> HIDE DEF stop, guarded, past
  <2>1. next(at) \in Cursors
    BY <1>3, <1>4, <1>5, <1>6
  <2>2. /\ turns(at) = left(at) + left(at) + 1
        /\ turns(next(at)) =
               left(next(at)) + left(next(at)) + (IF next(at).low >= range.high THEN 0 ELSE 1)
    <3> HIDE DEF left
    <3>1. ~(at.low >= range.high)
      <4>1. at.low \in Nat
        BY DEF Cursors
      <4> QED
        BY <1>1, <1>6, <4>1
    <3> QED
      BY <2>1, <3>1
  <2>3. left(at) \in Nat /\ left(next(at)) \in Nat
    BY <1>2, <2>1
  <2>4. CASE stop(at) # guarded(at)
    <3>1. left(next(at)) = left(at) /\ next(at).low >= range.high
      BY <1>1, <1>3, <1>6, <2>4
    <3>2. PICK a \in Nat : a = left(at)
      BY <2>3
    <3>3. turns(at) = a + a + 1 /\ turns(next(at)) = a + a + 0
      BY <2>2, <3>1, <3>2
    <3>4. a + a + 0 < a + a + 1
      BY <3>2
    <3> HIDE DEF left, turns
    <3> QED
      BY <2>1, <3>3, <3>4
  <2>5. CASE stop(at) = guarded(at)
    <3>1. left(next(at)) + 1 = left(at)
      <4>1. /\ at.pool \in Nat \ {0} /\ at.dead \in Nat \ {0}
            /\ NodesLeft(at.pool, pool) \in Nat /\ NodesLeft(at.dead, dead) \in Nat
        BY <1>2, NodesLeftLess
      <4>2. CASE guarded(at) = Addr(pool, at.pool)
        <5>1. /\ at.pool <= Len(pool) /\ next(at).pool = at.pool + 1 /\ next(at).dead = at.dead
          BY <1>4, <1>6, <2>5, <4>2, AscendNumbers
        <5>2. NodesLeft(at.pool + 1, pool) + 1 = NodesLeft(at.pool, pool)
              /\ NodesLeft(at.pool + 1, pool) \in Nat
          BY <4>1, <5>1, NodesLeftLess
        <5> QED
          BY <4>1, <5>1, <5>2
      <4>3. CASE guarded(at) # Addr(pool, at.pool)
        <5>1. /\ at.dead <= Len(dead) /\ next(at).dead = at.dead + 1 /\ next(at).pool = at.pool
          BY <1>5, <1>6, <2>5, <4>3, AscendNumbers
        <5>2. NodesLeft(at.dead + 1, dead) + 1 = NodesLeft(at.dead, dead)
              /\ NodesLeft(at.dead + 1, dead) \in Nat
          BY <4>1, <5>1, NodesLeftLess
        <5> QED
          BY <4>1, <5>1, <5>2
      <4> QED
        BY <4>2, <4>3
    <3>2. PICK a \in Nat : a = left(next(at)) /\ a + 1 = left(at)
      BY <2>3, <3>1
    <3>3. PICK b \in 0 .. 1 : turns(at) = (a + 1) + (a + 1) + 1 /\ turns(next(at)) = a + a + b
      BY <2>2, <3>2
    <3>4. a + a + b < (a + 1) + (a + 1) + 1
      BY <3>2
    <3> HIDE DEF left, turns
    <3> QED
      BY <2>1, <3>3, <3>4
  <2> QED
    BY <2>1, <2>4, <2>5
<1>7. \A at \in Cursors : turns(at) \in Nat
  <2>1. ASSUME NEW at \in Cursors PROVE left(at) \in Nat
    BY <1>2
  <2> HIDE DEF left
  <2> QED
    BY <2>1
<1> HIDE DEF turns, left
<1>8. rank \in [Cursors -> Nat] /\ \A at \in Cursors : rank[at] = turns(at)
  BY <1>7
<1> HIDE DEF rank
<1>9. \A at \in Cursors : words(at) \in V
  <2> HIDE DEF words
  <2> QED
    BY <1>2 DEF InOrder
<1> DEFINE step == [a \in [Cursors -> V] \X Cursors |-> body(a[1], a[2])]
<1>10. Rec!Recursive(Cursors, V, rank, step)
  <2> HIDE DEF words
  <2>1. V # {}
    <3>1. <<>> \in V
      OBVIOUS
    <3> HIDE DEF V
    <3> QED
      BY <3>1
  <2>2. ASSUME NEW f \in [Cursors -> V], NEW at \in Cursors PROVE body(f, at) \in V
    <3>1. CASE at.low >= range.high
      BY <3>1, EmptySeq
    <3>2. CASE ~(at.low >= range.high)
      <4>1. at.low < range.high
        BY <1>1, <1>2, <3>2
      <4>2. words(at) \in V /\ f[next(at)] \in V
        BY <1>6, <1>9, <4>1
      <4> QED
        BY <3>2, <4>2, ConcatProperties
    <3> QED
      BY <3>1, <3>2
  <2>3. step \in [[Cursors -> V] \X Cursors -> V]
    <3> HIDE DEF body, V
    <3>1. \A a \in [Cursors -> V] \X Cursors : a[1] \in [Cursors -> V] /\ a[2] \in Cursors
      OBVIOUS
    <3> QED
      BY <2>2, <3>1
  <2>4. ASSUME NEW g \in [Cursors -> V], NEW h \in [Cursors -> V], NEW x \in Cursors,
               \A y \in Cursors : rank[y] < rank[x] => g[y] = h[y]
        PROVE  step[<<g, x>>] = step[<<h, x>>]
    <3>1. step[<<g, x>>] = body(g, x) /\ step[<<h, x>>] = body(h, x)
      <4> HIDE DEF body, V
      <4> QED
        OBVIOUS
    <3>2. ~(x.low >= range.high) => g[next(x)] = h[next(x)]
      <4> SUFFICES ASSUME ~(x.low >= range.high) PROVE g[next(x)] = h[next(x)]
        OBVIOUS
      <4>1. x.low < range.high
        BY <1>1, <1>2
      <4>2. next(x) \in Cursors /\ rank[next(x)] < rank[x]
        BY <1>6, <1>8, <4>1
      <4> QED
        BY <2>4, <4>2
    <3> QED
      BY <3>1, <3>2
  <2> HIDE DEF step, V
  <2> QED
    BY <1>8, <2>1, <2>3, <2>4 DEF Rec!Recursive
<1>11. \E f : IsScan(f)
  <2>1. PICK f \in [Cursors -> V] : \A x \in Cursors : f[x] = step[<<f, x>>]
    <3> HIDE DEF step, V
    <3> QED
      BY <1>10, Rec!RecursiveFunction
  <2> HIDE DEF body
  <2>2. \A x \in Cursors : f[x] = body(f, x)
    BY <2>1
  <2>3. f = [x \in Cursors |-> f[x]]
    BY <2>1
  <2> QED
    BY <2>2, <2>3
<1>12. PICK a, d : a = SkipFirst(range.low, pool) /\ d = SkipFirst(a.low, dead)
  OBVIOUS
<1>13. PICK start : start = [low |-> d.low, pool |-> a.idx, dead |-> d.idx]
  OBVIOUS
<1>14. FindRoots(range, pool, dead) = (CHOOSE f : IsScan(f))[start]
  BY <1>12, <1>13 DEF FindRoots, next
<1>15. PICK f : IsScan(f) /\ FindRoots(range, pool, dead) = f[start]
  <2> HIDE DEF IsScan
  <2> QED
    BY <1>11, <1>14, Zenon
<1>16. \A at \in Cursors : f[at] = body(f, at)
  BY <1>15
\* One turn of the loop compares the free words up to the next node, and skips the node.
<1>17. ASSUME NEW at \in Cursors, at.low < range.high, Placed(at, pool, dead)
       PROVE  /\ Placed(next(at), pool, dead) /\ at.low <= stop(at) /\ stop(at) <= next(at).low
              /\ \A p \in at.low .. (stop(at) - 1) : ~InNode(p, pool) /\ ~InNode(p, dead)
              /\ \A p \in stop(at) .. (next(at).low - 1) : InNode(p, pool) \/ InNode(p, dead)
  <2>1. /\ at.low \in Nat /\ at.pool \in Nat \ {0} /\ at.dead \in Nat \ {0}
        /\ Divides(at.low, at.pool, pool) /\ Divides(at.low, at.dead, dead)
    BY <1>2, <1>17 DEF Placed
  <2>2. PICK e \in Nat, g \in Nat :
           /\ e = stop(at) /\ g = guarded(at) /\ e <= g /\ e <= range.high
           /\ g <= Addr(pool, at.pool) /\ g <= Addr(dead, at.dead)
    BY <1>2
  <2>3. /\ at.pool <= Len(pool) => g <= pool[at.pool].low /\ pool[at.pool].low \in Nat
        /\ at.dead <= Len(dead) => g <= dead[at.dead].low /\ dead[at.dead].low \in Nat
    BY <2>1, <2>2, AddrIs
  <2>4. CASE e # g
    <3>1. /\ next(at) \in Cursors /\ next(at).low = range.high /\ e = range.high
          /\ next(at).pool = at.pool /\ next(at).dead = at.dead
      BY <1>3, <1>17, <2>2, <2>4
    <3>2. /\ at.pool <= Len(pool) => e <= pool[at.pool].low
          /\ at.dead <= Len(dead) => e <= dead[at.dead].low
      BY <2>2, <2>3
    <3>3. at.low <= e
      BY <1>17, <2>1, <3>1
    <3>4. /\ \A p \in at.low .. (e - 1) : ~InNode(p, pool) /\ ~InNode(p, dead)
          /\ Divides(e, at.pool, pool) /\ Divides(e, at.dead, dead)
      BY <2>1, <3>2, <3>3, NoNodeBefore
    <3>5. Placed(next(at), pool, dead)
      BY <3>1, <3>4 DEF Placed
    <3>6. e .. (next(at).low - 1) = {} /\ e <= next(at).low
      BY <3>1
    <3> HIDE DEF stop
    <3> QED
      BY <2>2, <3>3, <3>4, <3>5, <3>6
  <2>5. CASE e = g /\ g = Addr(pool, at.pool)
    <3>1. /\ next(at) \in Cursors /\ at.pool \in 1 .. Len(pool) /\ e = pool[at.pool].low
          /\ next(at).low = past(at) + (pool[at.pool].high - pool[at.pool].low)
          /\ next(at).pool = at.pool + 1 /\ next(at).dead = at.dead
      BY <1>4, <1>17, <2>2, <2>5
    <3>2. at.low <= e
      BY <3>1, <2>1 DEF Divides
    <3>3. past(at) = e
      BY <2>1, <2>2, <3>2
    <3>4. PICK h \in Nat : h = pool[at.pool].high /\ e < h
      BY <3>1, AscendNumbers
    <3>5. next(at).low = h
      BY <3>1, <3>3, <3>4
    <3>6. at.dead <= Len(dead) => pool[at.pool].low <= dead[at.dead].low
      BY <2>3, <2>5, <3>1
    <3>7. /\ Divides(h, at.pool + 1, pool) /\ Divides(h, at.dead, dead)
          /\ \A p \in at.low .. (e - 1) : ~InNode(p, pool) /\ ~InNode(p, dead)
          /\ \A p \in e .. (h - 1) : InNode(p, pool)
      BY <2>1, <3>1, <3>4, <3>6, NodeSkipped
    <3>8. Placed(next(at), pool, dead)
      BY <3>1, <3>5, <3>7 DEF Placed
    <3> HIDE DEF stop
    <3> QED
      BY <2>2, <3>2, <3>4, <3>5, <3>7, <3>8
  <2>6. CASE e = g /\ g # Addr(pool, at.pool)
    <3>1. /\ next(at) \in Cursors /\ at.dead \in 1 .. Len(dead) /\ e = dead[at.dead].low
          /\ next(at).low = past(at) + (dead[at.dead].high - dead[at.dead].low)
          /\ next(at).dead = at.dead + 1 /\ next(at).pool = at.pool
      BY <1>5, <1>17, <2>2, <2>6
    <3>2. at.low <= e
      BY <3>1, <2>1 DEF Divides
    <3>3. past(at) = e
      BY <2>1, <2>2, <3>2
    <3>4. PICK h \in Nat : h = dead[at.dead].high /\ e < h
      BY <3>1, AscendNumbers
    <3>5. next(at).low = h
      BY <3>1, <3>3, <3>4
    <3>6. at.pool <= Len(pool) => dead[at.dead].low <= pool[at.pool].low
      BY <2>3, <2>6, <3>1
    <3>7. /\ Divides(h, at.dead + 1, dead) /\ Divides(h, at.pool, pool)
          /\ \A p \in at.low .. (e - 1) : ~InNode(p, dead) /\ ~InNode(p, pool)
          /\ \A p \in e .. (h - 1) : InNode(p, dead)
      BY <2>1, <3>1, <3>4, <3>6, NodeSkipped
    <3>8. Placed(next(at), pool, dead)
      BY <3>1, <3>5, <3>7 DEF Placed
    <3> HIDE DEF stop
    <3> QED
      BY <2>2, <3>2, <3>4, <3>5, <3>7, <3>8
  <2> QED
    BY <2>4, <2>5, <2>6
<1> DEFINE Good == {at \in Cursors : Placed(at, pool, dead) =>
                       InOrder(f[at], FreeWords(at.low, range.high, pool, dead))}
<1>18. ASSUME NEW at \in Cursors, \A y \in Cursors : rank[y] < rank[at] => y \in Good
       PROVE  at \in Good
  <2> SUFFICES ASSUME Placed(at, pool, dead)
               PROVE  InOrder(f[at], FreeWords(at.low, range.high, pool, dead))
    OBVIOUS
  <2>0. at.low \in Nat
    BY DEF Cursors
  <2>1. CASE at.low >= range.high
    <3>1. f[at] = <<>>
      BY <1>16, <2>1
    <3>2. at.low .. (range.high - 1) = {}
      BY <1>1, <2>0, <2>1
    <3>3. FreeWords(at.low, range.high, pool, dead) = {}
      BY <3>2 DEF FreeWords
    <3> QED
      BY <3>1, <3>3, InOrderNone
  <2>2. CASE ~(at.low >= range.high)
    <3>0. at.low < range.high
      BY <1>1, <2>0, <2>2
    <3>1. next(at) \in Cursors /\ rank[next(at)] < rank[at]
      BY <1>6, <1>8, <3>0
    <3>2. PICK q, t, e, n : q = words(at) /\ t = f[next(at)] /\ e = stop(at) /\ n = next(at).low
      OBVIOUS
    <3>3. f[at] = q \o t
      BY <1>16, <2>2, <3>2
    <3>4. e \in Nat /\ n \in Nat /\ at.low \in Nat /\ e <= range.high
      BY <1>2, <3>1, <3>2 DEF Cursors
    <3> DEFINE T == FreeWords(n, range.high, pool, dead)
    <3>5. InOrder(q, at.low .. (e - 1))
      <4> HIDE DEF words, stop
      <4> QED
        BY <1>2, <3>2
    <3>6. /\ Placed(next(at), pool, dead) /\ at.low <= e /\ e <= n
          /\ \A p \in at.low .. (e - 1) : ~InNode(p, pool) /\ ~InNode(p, dead)
          /\ \A p \in e .. (n - 1) : InNode(p, pool) \/ InNode(p, dead)
      <4> HIDE DEF words, stop
      <4> QED
        BY <1>17, <3>0, <3>2
    <3>7. InOrder(t, T)
      BY <1>18, <3>1, <3>2, <3>6
    <3>8. \A x \in at.low .. (e - 1), y \in T : x < y
      BY <1>1, <3>4, <3>6 DEF FreeWords
    <3>9. (at.low .. (e - 1)) \cup T = FreeWords(at.low, range.high, pool, dead)
      <4>1. ASSUME NEW x \in (at.low .. (e - 1)) \cup T
            PROVE  x \in FreeWords(at.low, range.high, pool, dead)
        BY <1>1, <3>4, <3>6 DEF FreeWords
      <4>2. ASSUME NEW x \in FreeWords(at.low, range.high, pool, dead)
            PROVE  x \in (at.low .. (e - 1)) \cup T
        <5>1. x \in Int /\ at.low <= x /\ x < range.high /\ ~InNode(x, pool) /\ ~InNode(x, dead)
          BY <1>1, <3>4 DEF FreeWords
        <5>2. ~(e <= x /\ x < n)
          BY <3>4, <3>6, <5>1
        <5> QED
          BY <1>1, <3>4, <5>1, <5>2 DEF FreeWords
      <4> QED
        BY <4>1, <4>2
    <3> HIDE DEF T
    <3>10. InOrder(q \o t, (at.low .. (e - 1)) \cup T)
      BY <3>5, <3>7, <3>8, InOrderBoth
    <3> QED
      BY <3>3, <3>9, <3>10
  <2> QED
    BY <2>1, <2>2
<1>19. Cursors \subseteq Good
  <2> HIDE DEF Good
  <2> QED
    BY <1>8, <1>18, Rec!RankInduction
\* The nodes in which the range begins are left, first those of the pool.
<1>20. /\ a.low \in Nat /\ a.idx \in Nat \ {0} /\ range.low <= a.low /\ a.low <= NWords
       /\ Divides(a.low, a.idx, pool)
       /\ \A p \in range.low .. (a.low - 1) : InNode(p, pool)
  BY <1>1, <1>12, SkipFirstIs
<1>21. /\ d.low \in Nat /\ d.idx \in Nat \ {0} /\ a.low <= d.low
       /\ Divides(d.low, d.idx, dead)
       /\ \A p \in a.low .. (d.low - 1) : InNode(p, dead)
       /\ d.low = a.low \/ \E i \in 1 .. Len(dead) : d.low = dead[i].high /\ dead[i].low <= a.low
  BY <1>12, <1>20, SkipFirstIs
<1>22. Divides(d.low, a.idx, pool)
  <2>1. /\ Len(pool) \in Nat
        /\ \A i \in 1 .. Len(pool) : pool[i].low \in Nat /\ pool[i].high \in Nat
                                     /\ pool[i].low < pool[i].high
    BY AscendNumbers
  <2>2. ASSUME NEW i \in 1 .. Len(pool), i < a.idx PROVE pool[i].high <= d.low
    <3>1. pool[i].high <= a.low
      BY <1>20, <2>2 DEF Divides
    <3> QED
      BY <1>20, <1>21, <2>1, <3>1
  <2>3. ASSUME NEW i \in 1 .. Len(pool), i >= a.idx PROVE d.low <= pool[i].low
    <3>1. a.low <= pool[i].low
      BY <1>20, <2>3 DEF Divides
    <3>2. CASE d.low = a.low
      BY <3>1, <3>2
    <3>3. CASE d.low # a.low
      <4>1. PICK j \in 1 .. Len(dead) : d.low = dead[j].high /\ dead[j].low <= a.low
        BY <1>21, <3>3
      <4>2. pool[i].high <= dead[j].low \/ dead[j].high <= pool[i].low
        BY DEF Separate, Apart
      <4>3. dead[j].low \in Nat
        BY AscendNumbers
      <4> QED
        BY <1>20, <2>1, <3>1, <4>1, <4>2, <4>3
    <3> QED
      BY <3>2, <3>3
  <2> QED
    BY <2>2, <2>3 DEF Divides
<1>23. start \in Cursors /\ Placed(start, pool, dead) /\ start.low = d.low
  BY <1>13, <1>20, <1>21, <1>22 DEF Placed, Cursors
<1>24. InOrder(f[start], FreeWords(d.low, range.high, pool, dead))
  BY <1>19, <1>23
<1>25. FreeWords(d.low, range.high, pool, dead) = FreeWords(range.low, range.high, pool, dead)
  <2>1. ASSUME NEW p \in range.low .. (range.high - 1), ~InNode(p, pool), ~InNode(p, dead)
        PROVE  d.low <= p
    BY <1>1, <1>20, <1>21, <2>1
  <2> QED
    BY <1>1, <1>20, <1>21, <2>1 DEF FreeWords
<1> QED
  BY <1>15, <1>24, <1>25

-----------------------------------------------------------------------------
(***************************************************************************)
(* The nodes of a placement.                                               *)
(***************************************************************************)
\* A node ends where the next one begins, or before.
LEMMA NodeAtIs ==
    ASSUME NEW w, NEW p \in 0 .. (NWords - 1), NEW e, e = NodeAt(w, p)
    PROVE  /\ e \in Bounds /\ e.low = p /\ p < e.high /\ e.high <= NWords
           /\ \A q \in (p + 1) .. (NWords - 1) : w[q] # "more" => e.high <= q
<1> DEFINE S == {q \in (p + 1) .. NWords : q = NWords \/ w[q] # "more"}
<1>1. NWords \in Nat /\ p \in Nat /\ p < NWords
  BY ScanAssumption
<1>2. e.low = p /\ e.high = (CHOOSE x \in S : \A y \in S : x <= y) /\ e = [low |-> p, high |-> e.high]
  BY DEF NodeAt, Min
<1>3. S \subseteq Nat /\ NWords \in S
  BY <1>1
<1>4. PICK h \in S : h = e.high /\ \A y \in S : h <= y
  <2> HIDE DEF S
  <2>1. \E x \in S : \A y \in S : x <= y
    BY <1>3, Rec!LeastNatural
  <2> QED
    BY <1>2, <2>1, Zenon
<1>5. h \in Nat /\ p < h /\ h <= NWords
  BY <1>1
<1>6. \A q \in (p + 1) .. (NWords - 1) : w[q] # "more" => q \in S
  BY <1>1
<1> HIDE DEF S
<1>7. e \in Bounds
  BY <1>1, <1>2, <1>4, <1>5 DEF Bounds
<1> QED
  BY <1>1, <1>2, <1>4, <1>5, <1>6, <1>7

\* Nodes of one kind that begin at p or above, in ascending order.
NodesFrom(q, w, kind, p) ==
    /\ q \in Seq(Bounds)
    /\ \A i \in 1 .. Len(q) : /\ q[i].low \in p .. (NWords - 1) /\ w[q[i].low] = kind
                              /\ q[i] = NodeAt(w, q[i].low)
    /\ \A i, j \in 1 .. Len(q) : i < j => q[i].low < q[j].low

\* One node more, below the others.
LEMMA NodeBefore ==
    ASSUME NEW w, NEW kind, NEW p \in 0 .. (NWords - 1), NEW t, NodesFrom(t, w, kind, p + 1)
    PROVE  /\ NodesFrom(t, w, kind, p)
           /\ w[p] = kind => NodesFrom(<<NodeAt(w, p)>> \o t, w, kind, p)
<1>1. NWords \in Nat /\ p \in Nat
  BY ScanAssumption
<1>2. PICK n \in Nat : n = Len(t) /\ t \in Seq(Bounds)
  BY LenProperties DEF NodesFrom
<1>3. \A x \in (p + 1) .. (NWords - 1) : x \in p .. (NWords - 1) /\ p < x
  BY <1>1
<1>4. NodesFrom(t, w, kind, p)
  BY <1>3 DEF NodesFrom
<1>5. ASSUME w[p] = kind PROVE NodesFrom(<<NodeAt(w, p)>> \o t, w, kind, p)
  <2>1. PICK e : e = NodeAt(w, p) /\ e \in Bounds /\ e.low = p
    BY NodeAtIs
  <2>2. PICK u : u = <<e>> \o t
    OBVIOUS
  <2>3. <<e>> \in Seq(Bounds) /\ Len(<<e>>) = 1 /\ <<e>>[1] = e
    BY <2>1
  <2>4. /\ u \in Seq(Bounds) /\ Len(u) = 1 + n
        /\ \A i \in 1 .. (1 + n) : u[i] = IF i <= 1 THEN <<e>>[i] ELSE t[i - 1]
    BY <1>2, <2>2, <2>3, ConcatProperties
  <2>5. u[1] = e /\ \A i \in 1 .. Len(u) : i # 1 => i - 1 \in 1 .. Len(t) /\ u[i] = t[i - 1]
    BY <1>2, <2>3, <2>4
  <2>6. p \in p .. (NWords - 1)
    BY <1>1
  <2>7. ASSUME NEW i \in 1 .. Len(u)
        PROVE  u[i].low \in p .. (NWords - 1) /\ w[u[i].low] = kind /\ u[i] = NodeAt(w, u[i].low)
    <3>1. CASE i = 1
      BY <1>5, <2>1, <2>5, <2>6, <3>1
    <3>2. CASE i # 1
      BY <1>4, <2>5, <3>2 DEF NodesFrom
    <3> QED
      BY <3>1, <3>2
  <2>8. ASSUME NEW i \in 1 .. Len(u), NEW j \in 1 .. Len(u), i < j PROVE u[i].low < u[j].low
    <3>1. i \in Nat /\ j \in Nat /\ j # 1 /\ j - 1 \in 1 .. Len(t) /\ u[j] = t[j - 1]
      BY <2>4, <2>5, <2>8
    <3>2. CASE i = 1
      <4>1. t[j - 1].low \in (p + 1) .. (NWords - 1)
        BY <3>1 DEF NodesFrom
      <4> QED
        BY <1>3, <2>1, <2>5, <3>1, <3>2, <4>1
    <3>3. CASE i # 1
      <4>1. i - 1 \in 1 .. Len(t) /\ u[i] = t[i - 1] /\ i - 1 < j - 1
        BY <2>5, <2>8, <3>1, <3>3
      <4> QED
        BY <3>1, <4>1 DEF NodesFrom
    <3> QED
      BY <3>2, <3>3
  <2>9. NodesFrom(u, w, kind, p)
    BY <2>4, <2>7, <2>8 DEF NodesFrom
  <2> QED
    BY <2>1, <2>2, <2>9
<1> QED
  BY <1>4, <1>5

\* NodesOf lists the nodes of one kind in ascending order.
LEMMA NodesOfIs ==
    ASSUME NEW w, NEW kind
    PROVE  NodesFrom(NodesOf(w, kind), w, kind, 0)
<1> DEFINE D == 0 .. NWords
           part(p) == IF w[p] = kind THEN <<NodeAt(w, p)>> ELSE <<>>
           body(f, p) == IF p = NWords THEN <<>> ELSE part(p) \o f[p + 1]
           IsFrom(f) == f = [p \in D |-> body(f, p)]
           V == Seq(Bounds)
           rank == [p \in D |-> NWords - p]
           step == [a \in [D -> V] \X D |-> body(a[1], a[2])]
<1>1. NWords \in Nat
  BY ScanAssumption
<1>2. ASSUME NEW p \in D, p # NWords
      PROVE  p \in 0 .. (NWords - 1) /\ p + 1 \in D /\ part(p) \in V
  <2>1. p \in 0 .. (NWords - 1) /\ p + 1 \in D
    BY <1>1, <1>2
  <2>2. PICK e \in Bounds : e = NodeAt(w, p)
    BY <2>1, NodeAtIs
  <2>3. <<e>> \in V /\ <<>> \in V
    BY <2>2
  <2> HIDE DEF V
  <2> QED
    BY <2>1, <2>2, <2>3
<1> HIDE DEF part
<1>3. rank \in [D -> Nat] /\ \A p \in D : p # NWords => rank[p + 1] < rank[p]
  BY <1>1
<1>4. Rec!Recursive(D, V, rank, step)
  <2>1. V # {}
    <3>1. <<>> \in V
      OBVIOUS
    <3> HIDE DEF V
    <3> QED
      BY <3>1
  <2>2. ASSUME NEW f \in [D -> V], NEW p \in D PROVE body(f, p) \in V
    <3>1. CASE p = NWords
      BY <3>1, EmptySeq
    <3>2. CASE p # NWords
      <4>1. part(p) \in V /\ f[p + 1] \in V
        BY <1>2, <3>2
      <4> QED
        BY <3>2, <4>1, ConcatProperties
    <3> QED
      BY <3>1, <3>2
  <2>3. step \in [[D -> V] \X D -> V]
    <3> HIDE DEF body, V, D
    <3>1. \A a \in [D -> V] \X D : a[1] \in [D -> V] /\ a[2] \in D
      OBVIOUS
    <3> QED
      BY <2>2, <3>1
  <2>4. ASSUME NEW g \in [D -> V], NEW h \in [D -> V], NEW x \in D,
               \A y \in D : rank[y] < rank[x] => g[y] = h[y]
        PROVE  step[<<g, x>>] = step[<<h, x>>]
    <3>1. step[<<g, x>>] = body(g, x) /\ step[<<h, x>>] = body(h, x)
      <4> HIDE DEF body, V, D
      <4> QED
        OBVIOUS
    <3> HIDE DEF rank
    <3>2. x # NWords => g[x + 1] = h[x + 1]
      BY <1>2, <1>3, <2>4
    <3> QED
      BY <3>1, <3>2
  <2> HIDE DEF step, rank, V, D
  <2> QED
    BY <1>3, <2>1, <2>3, <2>4 DEF Rec!Recursive
<1>5. \E f : IsFrom(f)
  <2>1. PICK f \in [D -> V] : \A x \in D : f[x] = step[<<f, x>>]
    <3> HIDE DEF step, rank, V, D
    <3> QED
      BY <1>4, Rec!RecursiveFunction
  <2> HIDE DEF body
  <2>2. \A x \in D : f[x] = body(f, x)
    BY <2>1
  <2>3. f = [x \in D |-> f[x]]
    BY <2>1
  <2> QED
    BY <2>2, <2>3
<1>6. NodesOf(w, kind) = (CHOOSE f : IsFrom(f))[0]
  BY DEF NodesOf, part
<1>7. PICK f : IsFrom(f) /\ NodesOf(w, kind) = f[0]
  <2> HIDE DEF IsFrom
  <2> QED
    BY <1>5, <1>6, Zenon
<1>8. \A p \in D : f[p] = body(f, p)
  BY <1>7
<1> DEFINE Good == {p \in D : NodesFrom(f[p], w, kind, p)}
<1>9. ASSUME NEW p \in D, \A y \in D : rank[y] < rank[p] => y \in Good PROVE p \in Good
  <2>1. CASE p = NWords
    <3>1. f[p] = <<>>
      BY <1>8, <2>1
    <3>2. NodesFrom(<<>>, w, kind, p)
      BY DEF NodesFrom
    <3> QED
      BY <3>1, <3>2
  <2>2. CASE p # NWords
    <3>1. p + 1 \in D /\ p + 1 \in Good /\ p \in 0 .. (NWords - 1)
      <4> HIDE DEF rank, Good
      <4> QED
        BY <1>2, <1>3, <1>9, <2>2
    <3>2. PICK t : t = f[p + 1] /\ NodesFrom(t, w, kind, p + 1)
      BY <3>1
    <3>3. f[p] = part(p) \o t
      BY <1>8, <2>2, <3>2
    <3>4. CASE w[p] = kind
      <4>1. f[p] = <<NodeAt(w, p)>> \o t
        BY <3>3, <3>4 DEF part
      <4>2. NodesFrom(<<NodeAt(w, p)>> \o t, w, kind, p)
        BY <3>1, <3>2, <3>4, NodeBefore
      <4> QED
        BY <4>1, <4>2
    <3>5. CASE w[p] # kind
      <4>1. t \in Seq(Bounds)
        BY <3>2 DEF NodesFrom
      <4>2. f[p] = t
        BY <3>3, <3>5, <4>1 DEF part
      <4> QED
        BY <3>1, <3>2, <4>2, NodeBefore
    <3> QED
      BY <3>4, <3>5
  <2> QED
    BY <2>1, <2>2
<1>10. D \subseteq Good
  <2> HIDE DEF Good, rank, D
  <2> QED
    BY <1>3, <1>9, Rec!RankInduction
<1> QED
  BY <1>1, <1>7, <1>10

\* Nodes of whatever kinds that are not the same begin at different words, and the
\* lower one ends before the other begins.
LEMMA NodesApart ==
    ASSUME NEW w, NEW a \in 0 .. (NWords - 1), NEW b \in 0 .. (NWords - 1), a < b,
           w[b] # "more"
    PROVE  NodeAt(w, a).high <= b
<1>1. b \in (a + 1) .. (NWords - 1)
  BY ScanAssumption
<1> QED
  BY <1>1, NodeAtIs

\* The nodes of a placement are what find_roots is given.
LEMMA NodesPlaced ==
    ASSUME NEW w, NEW pool, NEW dead, pool = NodesOf(w, "pool"), dead = NodesOf(w, "dead")
    PROVE  Ascend(pool) /\ Ascend(dead) /\ Separate(pool, dead)
<1>1. NodesFrom(pool, w, "pool", 0) /\ NodesFrom(dead, w, "dead", 0)
  BY NodesOfIs
<1>2. ASSUME NEW s, NEW kind, kind # "more", NodesFrom(s, w, kind, 0) PROVE Ascend(s)
  <2>1. ASSUME NEW i \in 1 .. Len(s)
        PROVE  /\ s[i].low \in 0 .. (NWords - 1) /\ s[i] = NodeAt(w, s[i].low)
               /\ w[s[i].low] = kind /\ s[i].low < s[i].high /\ s[i].high <= NWords
    <3>1. s[i].low \in 0 .. (NWords - 1) /\ s[i] = NodeAt(w, s[i].low) /\ w[s[i].low] = kind
      BY <1>2 DEF NodesFrom
    <3> QED
      BY <3>1, NodeAtIs
  <2>2. ASSUME NEW i \in 1 .. Len(s), NEW j \in 1 .. Len(s), i < j PROVE s[i].high <= s[j].low
    <3>1. s[i].low < s[j].low
      BY <1>2, <2>2 DEF NodesFrom
    <3> QED
      BY <1>2, <2>1, <3>1, NodesApart
  <2> QED
    BY <1>2, <2>1, <2>2 DEF Ascend, Sorted, NodesFrom
<1>3. ASSUME NEW i \in 1 .. Len(pool), NEW j \in 1 .. Len(dead) PROVE Apart(pool[i], dead[j])
  <2>1. PICK a \in 0 .. (NWords - 1) : a = pool[i].low /\ w[a] = "pool" /\ pool[i] = NodeAt(w, a)
    BY <1>1 DEF NodesFrom
  <2>2. PICK b \in 0 .. (NWords - 1) : b = dead[j].low /\ w[b] = "dead" /\ dead[j] = NodeAt(w, b)
    BY <1>1 DEF NodesFrom
  <2>3. a < b \/ b < a
    <3>1. a # b /\ a \in Int /\ b \in Int
      BY <2>1, <2>2
    <3> QED
      BY <3>1
  <2>4. a < b => pool[i].high <= b
    BY <2>1, <2>2, NodesApart
  <2>5. b < a => dead[j].high <= a
    BY <2>1, <2>2, NodesApart
  <2> QED
    BY <2>1, <2>2, <2>3, <2>4, <2>5 DEF Apart
<1> QED
  BY <1>1, <1>2, <1>3 DEF Separate

\* find_roots is exact on every placement and every range.
LEMMA FindRootsAlwaysExact == FindRootsExact
<1> SUFFICES ASSUME NEW w \in Placements, NEW low \in 0 .. (NWords - 1),
                    NEW high \in (low + 1) .. NWords
             PROVE  LET pool == NodesOf(w, "pool")
                        dead == NodesOf(w, "dead")
                        words == FindRoots([low |-> low, high |-> high], pool, dead)
                    IN /\ Range(words) = {p \in low .. (high - 1) :
                             \A node \in Range(pool) \cup Range(dead) : p \notin PagesOf(node)}
                       /\ \A i, j \in DOMAIN words : i < j => words[i] < words[j]
  BY DEF FindRootsExact
<1>1. PICK pool, dead : pool = NodesOf(w, "pool") /\ dead = NodesOf(w, "dead")
  OBVIOUS
<1>2. PICK range : range = [low |-> low, high |-> high]
  OBVIOUS
<1>3. /\ range \in Bounds /\ range.low = low /\ range.high = high
      /\ low < high /\ high <= NWords /\ low \in Nat /\ high \in Nat
  <2>1. NWords \in Nat /\ low \in Nat /\ high \in Nat /\ low < high /\ high <= NWords
    BY ScanAssumption
  <2> QED
    BY <1>2, <2>1 DEF Bounds
<1>4. Ascend(pool) /\ Ascend(dead) /\ Separate(pool, dead)
  BY <1>1, NodesPlaced
<1>5. PICK q : q = FindRoots(range, pool, dead)
  OBVIOUS
<1>6. InOrder(q, FreeWords(low, high, pool, dead))
  BY <1>3, <1>4, <1>5, FindRootsIs
<1>7. ASSUME NEW s, Ascend(s), NEW p \in low .. (high - 1)
      PROVE  InNode(p, s) <=> \E node \in Range(s) : p \in PagesOf(node)
  <2>1. p \in Int /\ DOMAIN s = 1 .. Len(s) /\ \A i \in 1 .. Len(s) : s[i].low \in Nat /\ s[i].high \in Nat
    BY <1>3, <1>7, AscendNumbers
  <2>2. \A i \in 1 .. Len(s) : p \in PagesOf(s[i]) <=> s[i].low <= p /\ p < s[i].high
    BY <2>1 DEF PagesOf
  <2> QED
    BY <2>1, <2>2 DEF InNode, Range
<1>8. FreeWords(low, high, pool, dead) = {p \in low .. (high - 1) :
         \A node \in Range(pool) \cup Range(dead) : p \notin PagesOf(node)}
  BY <1>4, <1>7 DEF FreeWords
<1> QED
  BY <1>1, <1>2, <1>5, <1>6, <1>8 DEF InOrder

\* find_roots reads every word of a range that lies in no node, in order, and no other
\* word: no root is missed and no node is taken for a root.  find_roots reads no state
\* that other threads change, so what holds of the function holds in every behaviour.
THEOREM RootsAreExact == Spec => []RootsExact
<1>1. RootsExact
  BY FindRootsAlwaysExact DEF RootsExact
<1> QED
  BY <1>1, PTL
=============================================================================
