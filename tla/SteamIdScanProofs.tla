-------------------------- MODULE SteamIdScanProofs --------------------------
(***************************************************************************)
(* Proofs about the scan for copies of a SteamID64, for memories and       *)
(* SteamIDs of every size: a scan leaves none behind, and closing the      *)
(* window puts back what the scans of its frames took.                     *)
(***************************************************************************)
EXTENDS SteamIdScan, Recursion

-----------------------------------------------------------------------------
(* Bytes                                                                   *)

\* The bytes that eight bytes at off are.
Block(off) == off .. off + Width - 1

\* At(m, r, off) = id, byte by byte.
Shows(m, r, off, id) == \A k \in Block(off) : m[r][k] = id[k - off + 1]

Value == [1 .. Width -> Bytes]

LEMMA Sizes ==
    ASSUME NEW r \in Regions
    PROVE  /\ Limit(r) \in Nat
           /\ Width \in Nat \ {0}
           /\ Offsets(r) \subseteq Nat
           /\ Starts(r) \subseteq Nat
           /\ \A off \in Starts(r) : Block(off) \subseteq Offsets(r)
  BY ScanAssumption DEF Limit, Offsets, Starts, Block

LEMMA Values ==
    Zeroes \in Value /\ SteamIds \subseteq Value
  BY ScanAssumption DEF Zeroes, Value

LEMMA MemoryType ==
    ASSUME NEW m \in Memory, NEW r \in Regions
    PROVE  m[r] \in [Offsets(r) -> Bytes]
  BY DEF Memory

LEMMA MemoryIntro ==
    ASSUME NEW m, m = [r \in Regions |-> m[r]],
           \A r \in Regions : m[r] \in [Offsets(r) -> Bytes]
    PROVE  m \in Memory
<1>1. \A r \in Regions : m[r] \in UNION {[Offsets(q) -> Bytes] : q \in Regions}
  OBVIOUS
<1>2. m \in [Regions -> UNION {[Offsets(q) -> Bytes] : q \in Regions}]
  BY <1>1
<1> QED BY <1>2 DEF Memory

LEMMA CopyParts ==
    ASSUME NEW s \in Seq(Copy), NEW k \in 1 .. Len(s)
    PROVE  s[k].region \in Regions /\ s[k].offset \in Nat
<1>1. s[k] \in Copy
  OBVIOUS
<1> QED BY <1>1 DEF Copy

LEMMA AtShows ==
    ASSUME NEW m \in Memory, NEW r \in Regions, NEW off \in Starts(r), NEW id \in Value
    PROVE  At(m, r, off) = id <=> Shows(m, r, off, id)
<1>1. \A k \in 1 .. Width : off + k - 1 \in Block(off) /\ (off + k - 1) - off + 1 = k
  BY Sizes DEF Block
<1>2. \A k \in Block(off) : k - off + 1 \in 1 .. Width /\ off + (k - off + 1) - 1 = k
  BY Sizes DEF Block
<1>3. ASSUME At(m, r, off) = id
      PROVE  Shows(m, r, off, id)
  <2>1. \A k \in Block(off) : id[k - off + 1] = m[r][off + (k - off + 1) - 1]
    BY <1>2, <1>3 DEF At
  <2> QED BY <1>2, <2>1 DEF Shows
<1>4. ASSUME Shows(m, r, off, id)
      PROVE  At(m, r, off) = id
  <2>1. \A k \in 1 .. Width : m[r][off + k - 1] = id[k]
    <3> TAKE k \in 1 .. Width
    <3>1. m[r][off + k - 1] = id[(off + k - 1) - off + 1]
      BY <1>1, <1>4 DEF Shows
    <3> QED BY <1>1, <3>1
  <2>2. At(m, r, off) = [k \in 1 .. Width |-> id[k]]
    BY <2>1 DEF At
  <2> QED BY <2>2 DEF Value
<1> QED BY <1>3, <1>4

LEMMA PutEffect ==
    ASSUME NEW m \in Memory, NEW r \in Regions, NEW off \in Starts(r), NEW v \in Value
    PROVE  /\ Put(m, r, off, v) \in Memory
           /\ \A q \in Regions \ {r} : Put(m, r, off, v)[q] = m[q]
           /\ \A k \in Block(off) : Put(m, r, off, v)[r][k] = v[k - off + 1]
           /\ \A k \in Offsets(r) \ Block(off) : Put(m, r, off, v)[r][k] = m[r][k]
<1> DEFINE b == [k \in Offsets(r) |-> IF k \in Block(off) THEN v[k - off + 1] ELSE m[r][k]]
           p == Put(m, r, off, v)
<1>1. p = [m EXCEPT ![r] = b]
  BY DEF Put, Block
<1>2. \A k \in Block(off) : v[k - off + 1] \in Bytes
  BY Sizes DEF Block, Value
<1>3. b \in [Offsets(r) -> Bytes]
  BY <1>2, MemoryType
<1>4. m = [q \in Regions |-> m[q]]
  BY DEF Memory
<1> HIDE DEF b
<1>5. p = [q \in Regions |-> p[q]] /\ p[r] = b /\ \A q \in Regions \ {r} : p[q] = m[q]
  BY <1>1, <1>4
<1>6. p \in Memory
  <2>1. \A q \in Regions : p[q] \in [Offsets(q) -> Bytes]
    BY <1>3, <1>5, MemoryType
  <2> HIDE DEF p
  <2> QED BY <1>5, <2>1, MemoryIntro
<1>7. Block(off) \subseteq Offsets(r)
  BY Sizes
<1> QED BY <1>5, <1>6, <1>7 DEF b

(***************************************************************************)
(* Zeroes make no copy: a SteamID64 neither starts nor ends with one.      *)
(***************************************************************************)
LEMMA ZeroesMakeNone ==
    ASSUME NEW m \in Memory, NEW r \in Regions, NEW off \in Starts(r), NEW o \in Starts(r),
           NEW id \in SteamIds, ~Shows(m, r, o, id) \/ Overlap(o, off)
    PROVE  ~Shows(Put(m, r, off, Zeroes), r, o, id)
<1> DEFINE p == Put(m, r, off, Zeroes)
<1>1. /\ \A k \in Block(off) : p[r][k] = Zeroes[k - off + 1]
      /\ \A k \in Offsets(r) \ Block(off) : p[r][k] = m[r][k]
  BY PutEffect, Values
<1> HIDE DEF p
<1>2. \A k \in Block(off) : p[r][k] = 0
  <2>1. \A k \in Block(off) : k - off + 1 \in 1 .. Width
    BY Sizes DEF Block
  <2>2. \A k \in 1 .. Width : Zeroes[k] = 0
    BY DEF Zeroes
  <2> QED BY <1>1, <2>1, <2>2
<1>3. id[1] # 0 /\ id[Width] # 0 /\ Width \in Nat \ {0} /\ o \in Nat /\ off \in Nat
  BY ScanAssumption, Sizes
<1>4. CASE o \in Block(off)
  <2>1. o \in Block(o) /\ o - o + 1 = 1
    BY <1>3 DEF Block
  <2>2. p[r][o] = 0
    BY <1>2, <1>4
  <2> QED BY <1>3, <2>1, <2>2 DEF Shows, p
<1>5. CASE o + Width - 1 \in Block(off)
  <2>1. o + Width - 1 \in Block(o) /\ (o + Width - 1) - o + 1 = Width
    BY <1>3 DEF Block
  <2>2. p[r][o + Width - 1] = 0
    BY <1>2, <1>5
  <2> QED BY <1>3, <2>1, <2>2 DEF Shows, p
<1>6. CASE o \notin Block(off) /\ o + Width - 1 \notin Block(off)
  <2>1. ~Overlap(o, off) /\ \A k \in Block(o) : k \notin Block(off)
    BY <1>3, <1>6 DEF Block, Overlap
  <2>2. \A k \in Block(o) : p[r][k] = m[r][k]
    BY <1>1, <2>1, Sizes DEF p
  <2> QED BY <2>1, <2>2 DEF Shows, p
<1> QED BY <1>4, <1>5, <1>6

-----------------------------------------------------------------------------
(* A scan of one region                                                    *)

ScanState == [mem : Memory, copies : Seq(Copy), at : Nat]

\* A copy that the scan of a region that was m zeroes with recorded known.
Recorded(s, r, h) == \E k \in DOMAIN s.copies : s.copies[k] = [region |-> r, offset |-> h]

Accounted(s, m, recorded, r, id, h) ==
    /\ Shows(m, r, h, id)
    /\ Recorded(s, r, h) \/ CopyOverlaps(recorded, r, h) \/ Len(s.copies) >= MaxSteamIdCopies

\* The records of s are those of before, and copies of m.
Records(s, m, recorded, r, id) ==
    /\ Len(recorded) <= Len(s.copies)
    /\ Len(s.copies) <= MaxSteamIdCopies
    /\ \A k \in 1 .. Len(recorded) : s.copies[k] = recorded[k]
    /\ \A k \in Len(recorded) + 1 .. Len(s.copies) :
          /\ s.copies[k].region = r
          /\ s.copies[k].offset \in Starts(r)
          /\ Shows(m, r, s.copies[k].offset, id)
          /\ ~CopyOverlaps(recorded, r, s.copies[k].offset)

\* What s differs from m by are copies that are accounted for.
Zeroed(s, m, recorded, r, id) ==
    /\ \A q \in Regions \ {r} : s.mem[q] = m[q]
    /\ \A k \in Offsets(r) : s.mem[r][k] # m[r][k] =>
          \E h \in Starts(r) : k \in Block(h) /\ Accounted(s, m, recorded, r, id, h)

\* The scan has passed the offsets below n, and stands at s.at.
Passed(s, n, m, recorded, r, id) ==
    /\ n \in Starts(r) => s.at >= n
    /\ \A k \in Offsets(r) : k >= s.at => s.mem[r][k] = m[r][k]
    /\ \A o \in Starts(r) : o < n \/ o < s.at => ~Shows(s.mem, r, o, id)
    /\ \A k \in Len(recorded) + 1 .. Len(s.copies) : s.copies[k].offset + Width <= s.at

ScanSoFar(s, n, m, recorded, r, id) ==
    /\ s \in ScanState
    /\ Records(s, m, recorded, r, id)
    /\ Zeroed(s, m, recorded, r, id)
    /\ Passed(s, n, m, recorded, r, id)

(***************************************************************************)
(* The scan's step stays within its states.                                *)
(***************************************************************************)
LEMMA ScanOffsetType ==
    ASSUME NEW t \in ScanState, NEW r \in Regions, NEW off \in Nat, NEW id
    PROVE  ScanOffset(t, r, off, id) \in ScanState
<1>1. t.mem \in Memory /\ t.copies \in Seq(Copy) /\ t.at \in Nat
  BY DEF ScanState
<1>2. off + 1 \in Nat /\ off + Width \in Nat
  BY Sizes
<1>3. CASE off # t.at \/ off \notin Starts(r)
  BY <1>3 DEF ScanOffset
<1>4. CASE ~(off # t.at \/ off \notin Starts(r)) /\ At(t.mem, r, off) # id
  BY <1>1, <1>2, <1>4 DEF ScanOffset, ScanStep, ScanState
<1>5. CASE ~(off # t.at \/ off \notin Starts(r)) /\ At(t.mem, r, off) = id
  <2>1. Put(t.mem, r, off, Zeroes) \in Memory
    BY <1>1, <1>5, PutEffect, Values
  <2>2. [region |-> r, offset |-> off] \in Copy
    BY DEF Copy
  <2>3. Append(t.copies, [region |-> r, offset |-> off]) \in Seq(Copy)
    BY <1>1, <2>2
  <2> QED BY <1>1, <1>2, <1>5, <2>1, <2>3 DEF ScanOffset, ScanStep, ScanState
<1> QED BY <1>3, <1>4, <1>5

(***************************************************************************)
(* A copy at which the scan stands is a copy of the memory it started on,  *)
(* behind every copy that it recorded itself.                              *)
(***************************************************************************)
LEMMA ScanStandsAt ==
    ASSUME NEW m \in Memory, NEW recorded \in Seq(Copy), NEW r \in Regions, NEW id,
           NEW n \in Starts(r), NEW t, ScanSoFar(t, n, m, recorded, r, id), t.at = n,
           Shows(t.mem, r, n, id)
    PROVE  /\ Shows(m, r, n, id)
           /\ CopyOverlaps(t.copies, r, n) => CopyOverlaps(recorded, r, n)
<1>1. \A k \in Block(n) : k \in Offsets(r) /\ k >= t.at
  BY Sizes DEF Block
<1>2. \A k \in Block(n) : t.mem[r][k] = m[r][k]
  BY <1>1 DEF ScanSoFar, Passed
<1>3. ASSUME CopyOverlaps(t.copies, r, n)
      PROVE  CopyOverlaps(recorded, r, n)
  <2>1. PICK j \in DOMAIN t.copies : t.copies[j].region = r /\ Overlap(t.copies[j].offset, n)
    BY <1>3 DEF CopyOverlaps
  <2>2. t.copies \in Seq(Copy) /\ j \in 1 .. Len(t.copies) /\ Len(recorded) \in Nat
    BY DEF ScanSoFar, ScanState
  <2>3. t.copies[j].offset \in Nat /\ n \in Nat /\ Width \in Nat
    BY <2>2, CopyParts, Sizes
  <2>4. ~(t.copies[j].offset + Width <= n)
    BY <2>1, <2>3 DEF Overlap
  <2>5. j \in 1 .. Len(recorded)
    BY <2>2, <2>4 DEF ScanSoFar, Passed
  <2>6. recorded[j] = t.copies[j]
    BY <2>5 DEF ScanSoFar, Records
  <2> QED BY <2>1, <2>5, <2>6 DEF CopyOverlaps
<1> QED BY <1>2, <1>3 DEF Shows

LEMMA ScanStepKeeps ==
    ASSUME NEW m \in Memory, NEW recorded \in Seq(Copy), NEW r \in Regions, NEW id \in SteamIds,
           NEW n \in Nat, NEW t, ScanSoFar(t, n, m, recorded, r, id)
    PROVE  ScanSoFar(ScanOffset(t, r, n, id), n + 1, m, recorded, r, id)
<1> DEFINE u == ScanOffset(t, r, n, id)
<1>0. /\ Width \in Nat \ {0}
      /\ Starts(r) \subseteq Nat /\ Offsets(r) \subseteq Nat
      /\ n + 1 \in Starts(r) => n \in Starts(r)
      /\ id \in Value
      /\ t.mem \in Memory /\ t.copies \in Seq(Copy) /\ t.at \in Nat
      /\ Len(recorded) \in Nat /\ Len(t.copies) \in Nat
  BY Sizes, Values DEF Starts, ScanSoFar, ScanState
<1>1. u \in ScanState
  BY ScanOffsetType DEF ScanSoFar
<1>2. CASE n # t.at \/ n \notin Starts(r)
  <2>1. u = t
    BY <1>2 DEF ScanOffset
  <2>2. n \in Starts(r) => t.at >= n + 1
    BY <1>0, <1>2 DEF ScanSoFar, Passed
  <2>3. \A o \in Starts(r) : o < n + 1 => o < n \/ o < t.at
    BY <1>0, <2>2
  <2>4. Passed(t, n + 1, m, recorded, r, id)
    BY <1>0, <2>2, <2>3 DEF ScanSoFar, Passed
  <2> QED BY <2>1, <2>4 DEF ScanSoFar
<1>3. CASE n = t.at /\ n \in Starts(r) /\ At(t.mem, r, n) # id
  <2>1. u = [t EXCEPT !.at = n + 1]
    BY <1>3 DEF ScanOffset, ScanStep
  <2>2. u.mem = t.mem /\ u.copies = t.copies /\ u.at = n + 1
    BY <2>1 DEF ScanSoFar, ScanState
  <2> HIDE DEF u
  <2>3. ~Shows(t.mem, r, n, id)
    BY <1>0, <1>3, AtShows
  <2>4. Passed(u, n + 1, m, recorded, r, id)
    <3>1. \A k \in Offsets(r) : k >= n + 1 => t.mem[r][k] = m[r][k]
      BY <1>0, <1>3 DEF ScanSoFar, Passed
    <3>2. \A o \in Starts(r) : o < n + 1 => ~Shows(t.mem, r, o, id)
      <4> TAKE o \in Starts(r)
      <4>1. CASE o = n
        BY <2>3, <4>1
      <4>2. CASE o < n
        BY <4>2 DEF ScanSoFar, Passed
      <4> QED BY <1>0, <4>1, <4>2
    <3>3. ASSUME NEW k \in Len(recorded) + 1 .. Len(t.copies)
          PROVE  t.copies[k].offset + Width <= n + 1
      <4>1. t.copies[k].offset + Width <= n /\ t.copies[k].offset \in Nat
        <5>1. k \in 1 .. Len(t.copies)
          BY <1>0
        <5> QED BY <1>0, <1>3, <5>1, CopyParts DEF ScanSoFar, Passed
      <4> QED BY <1>0, <4>1
    <3> QED BY <1>0, <2>2, <3>1, <3>2, <3>3 DEF Passed
  <2>5. Records(u, m, recorded, r, id)
    BY <2>2 DEF ScanSoFar, Records
  <2>6. Zeroed(u, m, recorded, r, id)
    BY <2>2 DEF ScanSoFar, Zeroed, Accounted, Recorded
  <2> QED BY <1>1, <2>4, <2>5, <2>6 DEF ScanSoFar, u
<1>4. CASE n = t.at /\ n \in Starts(r) /\ At(t.mem, r, n) = id
  <2> DEFINE c == [region |-> r, offset |-> n]
  <2>1. /\ u.mem = Put(t.mem, r, n, Zeroes)
        /\ u.copies = IF ~CopyOverlaps(t.copies, r, n) /\ HasRoom(t.copies)
                      THEN Append(t.copies, c) ELSE t.copies
        /\ u.at = n + Width
    BY <1>4 DEF ScanOffset, ScanStep
  <2> HIDE DEF u
  <2>2. /\ \A q \in Regions \ {r} : u.mem[q] = t.mem[q]
        /\ \A k \in Offsets(r) \ Block(n) : u.mem[r][k] = t.mem[r][k]
    BY <1>0, <1>4, <2>1, PutEffect, Values
  <2>3. Shows(t.mem, r, n, id)
    BY <1>0, <1>4, AtShows
  <2>4. Shows(m, r, n, id) /\ (CopyOverlaps(t.copies, r, n) => CopyOverlaps(recorded, r, n))
    BY <1>4, <2>3, ScanStandsAt
  <2>5. Passed(u, n + 1, m, recorded, r, id)
    <3>1. \A k \in Offsets(r) : k >= n + Width => k \notin Block(n) /\ k >= t.at
      BY <1>0, <1>4 DEF Block
    <3>2. \A k \in Offsets(r) : k >= n + Width => u.mem[r][k] = m[r][k]
      BY <2>2, <3>1 DEF ScanSoFar, Passed
    <3>3. \A o \in Starts(r) : o < n + Width => ~Shows(u.mem, r, o, id)
      <4> SUFFICES ASSUME NEW o \in Starts(r), o < n + Width
                   PROVE  ~Shows(u.mem, r, o, id)
        OBVIOUS
      <4>1. o < n \/ Overlap(o, n)
        BY <1>0 DEF Overlap
      <4>2. o < n => ~Shows(t.mem, r, o, id)
        BY DEF ScanSoFar, Passed
      <4> QED BY <1>0, <1>4, <2>1, <4>1, <4>2, ZeroesMakeNone
    <3>4. \A k \in Len(recorded) + 1 .. Len(u.copies) : u.copies[k].offset + Width <= n + Width
      <4> TAKE k \in Len(recorded) + 1 .. Len(u.copies)
      <4>1. CASE k \in Len(recorded) + 1 .. Len(t.copies)
        <5>1. u.copies[k] = t.copies[k]
          BY <1>0, <2>1, <4>1
        <5>2. k \in 1 .. Len(t.copies)
          BY <1>0, <4>1
        <5>3. t.copies[k].offset + Width <= n /\ t.copies[k].offset \in Nat
          BY <1>0, <1>4, <4>1, <5>2, CopyParts DEF ScanSoFar, Passed
        <5> QED BY <1>0, <5>1, <5>3
      <4>2. CASE k \notin Len(recorded) + 1 .. Len(t.copies)
        <5>1. u.copies[k] = c
          <6>1. k > Len(t.copies) /\ k <= Len(u.copies)
            BY <1>0, <4>2
          <6>2. u.copies = Append(t.copies, c)
            BY <1>0, <2>1, <6>1
          <6> HIDE DEF c
          <6> QED BY <1>0, <6>1, <6>2
        <5> QED BY <1>0, <5>1
      <4> QED BY <4>1, <4>2
    <3>5. n + Width >= n + 1 /\ \A o \in Starts(r) : o < n + 1 => o < n + Width
      BY <1>0
    <3> QED BY <2>1, <3>2, <3>3, <3>4, <3>5 DEF Passed
  <2>6. Records(u, m, recorded, r, id)
    <3>1. Len(recorded) <= Len(t.copies) /\ Len(t.copies) <= MaxSteamIdCopies
      BY DEF ScanSoFar, Records
    <3>2. CASE ~CopyOverlaps(t.copies, r, n) /\ HasRoom(t.copies)
      <4>1. /\ u.copies = Append(t.copies, c)
            /\ Len(u.copies) = Len(t.copies) + 1
            /\ u.copies[Len(t.copies) + 1] = c
            /\ \A k \in 1 .. Len(t.copies) : u.copies[k] = t.copies[k]
        BY <1>0, <2>1, <3>2
      <4>2. Len(u.copies) <= MaxSteamIdCopies /\ Len(recorded) <= Len(u.copies)
        BY <1>0, <3>1, <3>2, <4>1, ScanAssumption DEF HasRoom
      <4>3. ~CopyOverlaps(recorded, r, n)
        <5> SUFFICES ASSUME CopyOverlaps(recorded, r, n)
                     PROVE  CopyOverlaps(t.copies, r, n)
          BY <3>2
        <5>1. PICK j \in 1 .. Len(recorded) : recorded[j].region = r /\ Overlap(recorded[j].offset, n)
          BY DEF CopyOverlaps
        <5>2. j \in 1 .. Len(t.copies) /\ t.copies[j] = recorded[j]
          BY <1>0, <3>1 DEF ScanSoFar, Records
        <5>3. j \in DOMAIN t.copies
          BY <1>0, <5>2
        <5> QED BY <5>1, <5>2, <5>3 DEF CopyOverlaps
      <4>4. \A k \in 1 .. Len(recorded) : u.copies[k] = recorded[k]
        <5> TAKE k \in 1 .. Len(recorded)
        <5>1. k \in 1 .. Len(t.copies) /\ t.copies[k] = recorded[k]
          BY <1>0, <3>1 DEF ScanSoFar, Records
        <5> QED BY <4>1, <5>1
      <4>5. ASSUME NEW k \in Len(recorded) + 1 .. Len(u.copies)
            PROVE  /\ u.copies[k].region = r
                   /\ u.copies[k].offset \in Starts(r)
                   /\ Shows(m, r, u.copies[k].offset, id)
                   /\ ~CopyOverlaps(recorded, r, u.copies[k].offset)
        <5>1. CASE k = Len(t.copies) + 1
          BY <1>4, <2>4, <4>1, <4>3, <5>1
        <5>2. CASE k # Len(t.copies) + 1
          <6>1. k \in Len(recorded) + 1 .. Len(t.copies) /\ k \in 1 .. Len(t.copies)
            BY <1>0, <4>1, <5>2
          <6> QED BY <4>1, <6>1 DEF ScanSoFar, Records
        <5> QED BY <5>1, <5>2
      <4> QED BY <4>2, <4>4, <4>5 DEF Records
    <3>3. CASE ~(~CopyOverlaps(t.copies, r, n) /\ HasRoom(t.copies))
      <4>1. u.copies = t.copies
        BY <2>1, <3>3
      <4> QED BY <4>1 DEF ScanSoFar, Records
    <3> QED BY <3>2, <3>3
  <2>7. Zeroed(u, m, recorded, r, id)
    <3>1. \A h : Accounted(t, m, recorded, r, id, h) => Accounted(u, m, recorded, r, id, h)
      <4> TAKE h
      <4>1. CASE u.copies = t.copies
        BY <4>1 DEF Accounted, Recorded
      <4>2. CASE u.copies = Append(t.copies, c)
        <5>1. /\ Len(u.copies) >= Len(t.copies) /\ Len(u.copies) \in Nat
              /\ \A k \in DOMAIN t.copies : k \in DOMAIN u.copies /\ u.copies[k] = t.copies[k]
          BY <1>0, <4>2
        <5> HIDE DEF c
        <5> QED BY <1>0, <5>1, ScanAssumption DEF Accounted, Recorded
      <4> QED BY <2>1, <4>1, <4>2
    <3>2. Accounted(u, m, recorded, r, id, n)
      <4>1. CASE ~CopyOverlaps(t.copies, r, n) /\ HasRoom(t.copies)
        <5>1. Len(t.copies) + 1 \in DOMAIN u.copies /\ u.copies[Len(t.copies) + 1] = c
          BY <1>0, <2>1, <4>1
        <5> QED BY <2>4, <5>1 DEF Accounted, Recorded
      <4>2. CASE CopyOverlaps(t.copies, r, n)
        BY <2>4, <4>2 DEF Accounted
      <4>3. CASE ~HasRoom(t.copies)
        <5>1. u.copies = t.copies /\ Len(t.copies) >= MaxSteamIdCopies
          BY <1>0, <2>1, <4>3, ScanAssumption DEF HasRoom
        <5> QED BY <2>4, <5>1 DEF Accounted
      <4> QED BY <4>1, <4>2, <4>3
    <3>3. \A q \in Regions \ {r} : u.mem[q] = m[q]
      BY <2>2 DEF ScanSoFar, Zeroed
    <3>4. ASSUME NEW k \in Offsets(r), u.mem[r][k] # m[r][k]
          PROVE  \E h \in Starts(r) : k \in Block(h) /\ Accounted(u, m, recorded, r, id, h)
      <4>1. CASE k \in Block(n)
        BY <1>4, <3>2, <4>1
      <4>2. CASE k \notin Block(n)
        <5>1. t.mem[r][k] # m[r][k]
          BY <2>2, <3>4, <4>2
        <5>2. PICK h \in Starts(r) : k \in Block(h) /\ Accounted(t, m, recorded, r, id, h)
          BY <5>1 DEF ScanSoFar, Zeroed
        <5> QED BY <3>1, <5>2
      <4> QED BY <4>1, <4>2
    <3> QED BY <3>3, <3>4 DEF Zeroed
  <2> QED BY <1>1, <2>5, <2>6, <2>7 DEF ScanSoFar, u
<1> QED BY <1>2, <1>3, <1>4

\* What a whole scan of r makes of a memory m.
ScanDone(s, m, recorded, r, id) ==
    /\ s.mem \in Memory
    /\ s.copies \in Seq(Copy)
    /\ Records(s, m, recorded, r, id)
    /\ Zeroed(s, m, recorded, r, id)
    /\ \A o \in Starts(r) : ~Shows(s.mem, r, o, id)

LEMMA ScanRegionEffect ==
    ASSUME NEW s, s.mem \in Memory, s.copies \in Seq(Copy),
           Len(s.copies) <= MaxSteamIdCopies,
           NEW r \in Regions, NEW id \in SteamIds
    PROVE  ScanDone(ScanRegion(s, r, id), s.mem, s.copies, r, id)
<1> DEFINE a == [mem |-> s.mem, copies |-> s.copies, at |-> 0]
           step == [p \in ScanState \X (1 .. Limit(r)) |-> ScanOffset(p[1], r, p[2] - 1, id)]
           scanned[n \in 0 .. Limit(r)] ==
               IF n = 0 THEN a ELSE ScanOffset(scanned[n - 1], r, n - 1, id)
           T == {n \in 0 .. Limit(r) : ScanSoFar(scanned[n], n, s.mem, s.copies, r, id)}
<1>0. Limit(r) \in Nat /\ Width \in Nat \ {0} /\ Len(s.copies) \in Nat
  BY Sizes
<1>1. a \in ScanState
  BY DEF ScanState
<1>2. step \in [ScanState \X (1 .. Limit(r)) -> ScanState]
  <2>1. ASSUME NEW p \in ScanState \X (1 .. Limit(r))
        PROVE  ScanOffset(p[1], r, p[2] - 1, id) \in ScanState
    <3>1. p[1] \in ScanState /\ p[2] - 1 \in Nat
      BY <1>0
    <3> QED BY <3>1, ScanOffsetType
  <2> QED BY <2>1
<1>3. \A n \in 0 .. Limit(r) :
         scanned[n] = IF n = 0 THEN a ELSE ScanOffset(scanned[n - 1], r, n - 1, id)
  <2> HIDE DEF a, step
  <2>1. PICK g : GoesOn(g, Limit(r), ScanState, a, step)
    BY <1>0, <1>1, <1>2, IntervalRecursion
  <2>2. ASSUME NEW n \in 1 .. Limit(r)
        PROVE  step[<<g[n - 1], n>>] = ScanOffset(g[n - 1], r, n - 1, id)
    <3>1. g[n - 1] \in ScanState
      BY <1>0, <2>1 DEF GoesOn
    <3> QED BY <3>1 DEF step
  <2>3. \A n \in 0 .. Limit(r) :
           g[n] = IF n = 0 THEN a ELSE ScanOffset(g[n - 1], r, n - 1, id)
    <3> TAKE n \in 0 .. Limit(r)
    <3>1. n # 0 => n \in 1 .. Limit(r)
      BY <1>0
    <3> QED BY <2>1, <2>2, <3>1 DEF GoesOn
  <2>4. g = [n \in 0 .. Limit(r) |-> IF n = 0 THEN a ELSE ScanOffset(g[n - 1], r, n - 1, id)]
    <3>1. g = [n \in 0 .. Limit(r) |-> g[n]]
      BY <2>1 DEF GoesOn
    <3> QED BY <2>3, <3>1
  <2>5. scanned = [n \in 0 .. Limit(r) |->
                      IF n = 0 THEN a ELSE ScanOffset(scanned[n - 1], r, n - 1, id)]
    BY <2>4
  <2> HIDE DEF scanned
  <2> QED BY <2>5
<1>4. ScanRegion(s, r, id) = scanned[Limit(r)]
  BY DEF ScanRegion
<1> HIDE DEF scanned
<1>5. 0 \in T
  <2>1. scanned[0] = a
    BY <1>0, <1>3
  <2>2. \A o \in Starts(r) : ~(o < 0 \/ o < 0)
    BY Sizes
  <2>3. ScanSoFar(a, 0, s.mem, s.copies, r, id)
    BY <1>0, <1>1, <2>2 DEF ScanSoFar, Records, Zeroed, Passed
  <2> QED BY <1>0, <2>1, <2>3
<1>6. ASSUME NEW n \in 0 .. Limit(r) - 1, n \in T
      PROVE  n + 1 \in T
  <2>1. scanned[n + 1] = ScanOffset(scanned[n], r, n, id)
    <3>1. n + 1 \in 0 .. Limit(r) /\ n + 1 # 0 /\ (n + 1) - 1 = n
      BY <1>0
    <3> QED BY <1>3, <3>1
  <2>2. ScanSoFar(ScanOffset(scanned[n], r, n, id), n + 1, s.mem, s.copies, r, id)
    BY <1>0, <1>6, ScanStepKeeps
  <2> QED BY <1>0, <2>1, <2>2
<1>7. Limit(r) \in T
  <2> HIDE DEF T
  <2>1. \A n \in 0 .. Limit(r) : n \in T
    BY <1>0, <1>5, <1>6, IntervalInduction
  <2> QED BY <1>0, <2>1
<1>8. \A o \in Starts(r) : o < Limit(r)
  BY <1>0 DEF Starts
<1> QED BY <1>4, <1>7, <1>8 DEF ScanDone, ScanSoFar, ScanState, Passed

-----------------------------------------------------------------------------
(* ApplyNativeVoteMarkers: the scan of client and controller, and the      *)
(* zeroes of the two fields                                                *)

InScan(r, withController) == r = "client" \/ withController

\* The records of s are those of before, and copies of m in the regions scanned.
RecordsOf(s, m, recorded, withController, id) ==
    /\ Len(recorded) <= Len(s.copies)
    /\ Len(s.copies) <= MaxSteamIdCopies
    /\ \A k \in 1 .. Len(recorded) : s.copies[k] = recorded[k]
    /\ \A k \in Len(recorded) + 1 .. Len(s.copies) :
          LET c == s.copies[k]
          IN  /\ InScan(c.region, withController)
              /\ c.offset \in Starts(c.region)
              /\ Shows(m, c.region, c.offset, id)
              /\ ~CopyOverlaps(recorded, c.region, c.offset)

ChangesAccounted(s, m, recorded, r, id) ==
    \A k \in Offsets(r) : s.mem[r][k] # m[r][k] =>
        \E h \in Starts(r) : k \in Block(h) /\ Accounted(s, m, recorded, r, id, h)

LEMMA ScanBothEffect ==
    ASSUME NEW m \in Memory, NEW recorded \in Seq(Copy), Len(recorded) <= MaxSteamIdCopies,
           NEW withController \in BOOLEAN, NEW id \in SteamIds, NEW s,
           s = ScanAndZeroSteamIdCopies(m, recorded, withController, id)
    PROVE  /\ s.mem \in Memory
           /\ s.copies \in Seq(Copy)
           /\ RecordsOf(s, m, recorded, withController, id)
           /\ \A r \in Regions :
                 IF InScan(r, withController)
                 THEN /\ \A o \in Starts(r) : ~Shows(s.mem, r, o, id)
                      /\ ChangesAccounted(s, m, recorded, r, id)
                 ELSE s.mem[r] = m[r]
<1> DEFINE start == [mem |-> m, copies |-> recorded]
           u == ScanRegion(start, "client", id)
<1>0. "client" \in Regions /\ "controller" \in Regions /\ "client" # "controller"
  BY DEF Regions
<1>1. ScanDone(u, m, recorded, "client", id)
  <2>1. start.mem = m /\ start.copies = recorded
    OBVIOUS
  <2> HIDE DEF start
  <2> QED BY <1>0, <2>1, ScanRegionEffect
<1>2. s = IF withController THEN ScanRegion(u, "controller", id) ELSE u
  BY DEF ScanAndZeroSteamIdCopies
<1> HIDE DEF u
<1>3. Len(recorded) \in Nat /\ Len(u.copies) \in Nat
  BY <1>1 DEF ScanDone
<1>4. CASE ~withController
  <2>1. s = u
    BY <1>2, <1>4
  <2>2. RecordsOf(s, m, recorded, withController, id)
    BY <1>1, <2>1 DEF ScanDone, Records, RecordsOf, InScan
  <2>3. ASSUME NEW r \in Regions
        PROVE  IF InScan(r, withController)
               THEN /\ \A o \in Starts(r) : ~Shows(s.mem, r, o, id)
                    /\ ChangesAccounted(s, m, recorded, r, id)
               ELSE s.mem[r] = m[r]
    <3>1. CASE r = "client"
      BY <1>1, <2>1, <3>1 DEF ScanDone, Zeroed, ChangesAccounted, InScan
    <3>2. CASE r # "client"
      BY <1>1, <1>4, <2>1, <3>2 DEF ScanDone, Zeroed, InScan
    <3> QED BY <3>1, <3>2
  <2> QED BY <1>1, <2>1, <2>2, <2>3 DEF ScanDone
<1>5. CASE withController
  <2>1. ScanDone(s, u.mem, u.copies, "controller", id)
    <3>1. u.mem \in Memory /\ u.copies \in Seq(Copy) /\ Len(u.copies) <= MaxSteamIdCopies
      BY <1>1 DEF ScanDone, Records
    <3> QED BY <1>0, <1>2, <1>5, <3>1, ScanRegionEffect
  <2>2. Len(s.copies) \in Nat
    BY <2>1 DEF ScanDone
  <2>3. u.mem["controller"] = m["controller"] /\ s.mem["client"] = u.mem["client"]
    BY <1>0, <1>1, <2>1 DEF ScanDone, Zeroed
  <2>4. /\ Len(recorded) <= Len(u.copies) /\ Len(u.copies) <= Len(s.copies)
        /\ \A k \in 1 .. Len(u.copies) : s.copies[k] = u.copies[k]
        /\ \A k \in 1 .. Len(recorded) : u.copies[k] = recorded[k]
    BY <1>1, <2>1 DEF ScanDone, Records
  <2>5. \A h : Shows(u.mem, "controller", h, id) <=> Shows(m, "controller", h, id)
    BY <2>3 DEF Shows
  <2>6. \A h : CopyOverlaps(u.copies, "controller", h) <=> CopyOverlaps(recorded, "controller", h)
    <3> TAKE h
    <3>1. ASSUME CopyOverlaps(u.copies, "controller", h)
          PROVE  CopyOverlaps(recorded, "controller", h)
      <4>1. PICK j \in 1 .. Len(u.copies) :
                u.copies[j].region = "controller" /\ Overlap(u.copies[j].offset, h)
        BY <1>1, <3>1 DEF CopyOverlaps, ScanDone
      <4>2. j \in 1 .. Len(recorded)
        <5>1. j \notin Len(recorded) + 1 .. Len(u.copies)
          BY <1>0, <1>1, <4>1 DEF ScanDone, Records
        <5> QED BY <1>3, <5>1
      <4>3. j \in DOMAIN recorded /\ recorded[j] = u.copies[j]
        BY <2>4, <4>2
      <4> QED BY <4>1, <4>3 DEF CopyOverlaps
    <3>2. ASSUME CopyOverlaps(recorded, "controller", h)
          PROVE  CopyOverlaps(u.copies, "controller", h)
      <4>1. PICK j \in 1 .. Len(recorded) :
                recorded[j].region = "controller" /\ Overlap(recorded[j].offset, h)
        BY <3>2 DEF CopyOverlaps
      <4>2. j \in 1 .. Len(u.copies) /\ u.copies[j] = recorded[j]
        BY <1>3, <2>4
      <4>3. j \in DOMAIN u.copies
        BY <1>1, <4>2 DEF ScanDone
      <4> QED BY <4>1, <4>2, <4>3 DEF CopyOverlaps
    <3> QED BY <3>1, <3>2
  <2>7. RecordsOf(s, m, recorded, withController, id)
    <3>1. \A k \in 1 .. Len(recorded) : s.copies[k] = recorded[k]
      <4> TAKE k \in 1 .. Len(recorded)
      <4>1. k \in 1 .. Len(u.copies)
        BY <1>3, <2>4
      <4> QED BY <2>4, <4>1
    <3>2. ASSUME NEW k \in Len(recorded) + 1 .. Len(s.copies)
          PROVE  /\ InScan(s.copies[k].region, withController)
                 /\ s.copies[k].offset \in Starts(s.copies[k].region)
                 /\ Shows(m, s.copies[k].region, s.copies[k].offset, id)
                 /\ ~CopyOverlaps(recorded, s.copies[k].region, s.copies[k].offset)
      <4>1. CASE k <= Len(u.copies)
        <5>1. k \in Len(recorded) + 1 .. Len(u.copies) /\ k \in 1 .. Len(u.copies)
          BY <1>3, <4>1
        <5>2. s.copies[k] = u.copies[k] /\ u.copies[k].region = "client"
          BY <1>1, <2>4, <5>1 DEF ScanDone, Records
        <5> QED BY <1>1, <5>1, <5>2 DEF ScanDone, Records, InScan
      <4>2. CASE ~(k <= Len(u.copies))
        <5>1. k \in Len(u.copies) + 1 .. Len(s.copies)
          BY <1>3, <2>2, <4>2
        <5>2. /\ s.copies[k].region = "controller"
              /\ s.copies[k].offset \in Starts("controller")
              /\ Shows(u.mem, "controller", s.copies[k].offset, id)
              /\ ~CopyOverlaps(u.copies, "controller", s.copies[k].offset)
          BY <2>1, <5>1 DEF ScanDone, Records
        <5> QED BY <1>5, <2>5, <2>6, <5>2 DEF InScan
      <4> QED BY <4>1, <4>2
    <3>3. Len(recorded) <= Len(s.copies) /\ Len(s.copies) <= MaxSteamIdCopies
      BY <1>3, <2>1, <2>2, <2>4 DEF ScanDone, Records
    <3> QED BY <3>1, <3>2, <3>3 DEF RecordsOf
  <2>8. \A o \in Starts("client") : ~Shows(s.mem, "client", o, id)
    BY <1>1, <2>3 DEF ScanDone, Shows
  <2>9. ChangesAccounted(s, m, recorded, "client", id)
    <3> SUFFICES ASSUME NEW k \in Offsets("client"), s.mem["client"][k] # m["client"][k]
                 PROVE  \E h \in Starts("client") :
                            k \in Block(h) /\ Accounted(s, m, recorded, "client", id, h)
      BY DEF ChangesAccounted
    <3>1. PICK h \in Starts("client") :
              k \in Block(h) /\ Accounted(u, m, recorded, "client", id, h)
      BY <1>1, <2>3 DEF ScanDone, Zeroed
    <3>2. Recorded(u, "client", h) => Recorded(s, "client", h)
      <4>1. \A j \in DOMAIN u.copies : j \in DOMAIN s.copies /\ s.copies[j] = u.copies[j]
        <5>1. DOMAIN u.copies = 1 .. Len(u.copies) /\ DOMAIN s.copies = 1 .. Len(s.copies)
          BY <1>1, <2>1 DEF ScanDone
        <5> QED BY <1>3, <2>2, <2>4, <5>1
      <4> QED BY <4>1 DEF Recorded
    <3>3. Len(u.copies) >= MaxSteamIdCopies => Len(s.copies) >= MaxSteamIdCopies
      BY <1>3, <2>2, <2>4, ScanAssumption
    <3> QED BY <3>1, <3>2, <3>3 DEF Accounted
  <2>10. ChangesAccounted(s, m, recorded, "controller", id)
    <3> SUFFICES ASSUME NEW k \in Offsets("controller"), s.mem["controller"][k] # m["controller"][k]
                 PROVE  \E h \in Starts("controller") :
                            k \in Block(h) /\ Accounted(s, m, recorded, "controller", id, h)
      BY DEF ChangesAccounted
    <3>1. PICK h \in Starts("controller") :
              k \in Block(h) /\ Accounted(s, u.mem, u.copies, "controller", id, h)
      BY <2>1, <2>3 DEF ScanDone, Zeroed
    <3> QED BY <2>5, <2>6, <3>1 DEF Accounted
  <2>11. \A o \in Starts("controller") : ~Shows(s.mem, "controller", o, id)
    BY <2>1 DEF ScanDone
  <2> QED BY <1>5, <2>1, <2>7, <2>8, <2>9, <2>10, <2>11 DEF ScanDone, InScan, Regions
<1> QED BY <1>4, <1>5

FieldBytes == Block(SteamIdAt) \cup Block(MirrorAt)

LEMMA WriteSteamIdEffect ==
    ASSUME NEW m \in Memory, NEW v \in Value, NEW p, p = WriteSteamId(m, v)
    PROVE  /\ p \in Memory
           /\ p["controller"] = m["controller"]
           /\ Shows(p, "client", SteamIdAt, v)
           /\ Shows(p, "client", MirrorAt, v)
           /\ \A k \in Offsets("client") \ FieldBytes : p["client"][k] = m["client"][k]
<1> DEFINE u == Put(m, "client", SteamIdAt, v)
<1>1. /\ "client" \in Regions /\ "controller" \in Regions \ {"client"}
      /\ SteamIdAt \in Starts("client") /\ MirrorAt \in Starts("client")
  BY ScanAssumption DEF Regions, Starts, Limit
<1>2. /\ u \in Memory
      /\ u["controller"] = m["controller"]
      /\ \A k \in Block(SteamIdAt) : u["client"][k] = v[k - SteamIdAt + 1]
      /\ \A k \in Offsets("client") \ Block(SteamIdAt) : u["client"][k] = m["client"][k]
  BY <1>1, PutEffect
<1>3. p = Put(u, "client", MirrorAt, v)
  BY DEF WriteSteamId
<1> HIDE DEF u
<1>4. /\ p \in Memory
      /\ p["controller"] = u["controller"]
      /\ \A k \in Block(MirrorAt) : p["client"][k] = v[k - MirrorAt + 1]
      /\ \A k \in Offsets("client") \ Block(MirrorAt) : p["client"][k] = u["client"][k]
  BY <1>1, <1>2, <1>3, PutEffect
<1>5. \A k \in Block(SteamIdAt) : k \in Offsets("client") \ Block(MirrorAt)
  <2>1. \A k \in Block(SteamIdAt) : k \in Offsets("client")
    BY <1>1, Sizes
  <2>2. \A k \in Block(SteamIdAt) : k \notin Block(MirrorAt)
    BY <1>1, Sizes, ScanAssumption DEF Block
  <2> QED BY <2>1, <2>2
<1>6. Shows(p, "client", SteamIdAt, v)
  BY <1>2, <1>4, <1>5 DEF Shows
<1>7. Shows(p, "client", MirrorAt, v)
  BY <1>4 DEF Shows
<1> QED BY <1>2, <1>4, <1>6, <1>7 DEF FieldBytes

(***************************************************************************)
(* What hiding does to the memory: no SteamID is left where it scanned,    *)
(* what it did not scan is as before, and every byte it changed is one of  *)
(* the fields', or of a copy that is accounted for.                        *)
(***************************************************************************)
LEMMA HideEffect ==
    ASSUME mem \in Memory, live \in BOOLEAN, sid \in SteamIds,
           NEW recorded \in Seq(Copy), Len(recorded) <= MaxSteamIdCopies, Hide(recorded),
           NEW s, s = ScanAndZeroSteamIdCopies(mem, recorded, live, sid)
    PROVE  /\ copies' = s.copies
           /\ copies' \in Seq(Copy)
           /\ RecordsOf(s, mem, recorded, live, sid)
           /\ mem' \in Memory
           /\ \A r \in Regions :
                 IF Scanned(r)
                 THEN \A o \in Starts(r) : ~Shows(mem', r, o, sid)
                 ELSE mem'[r] = mem[r]
           /\ \A r \in Regions : \A k \in Offsets(r) :
                 mem'[r][k] # mem[r][k] =>
                     \/ r = "client" /\ k \in FieldBytes
                     \/ \E h \in Starts(r) : k \in Block(h) /\ Accounted(s, mem, recorded, r, sid, h)
<1>1. mem' = WriteSteamId(s.mem, Zeroes) /\ copies' = s.copies
  BY DEF Hide
<1>2. /\ s.mem \in Memory
      /\ s.copies \in Seq(Copy)
      /\ RecordsOf(s, mem, recorded, live, sid)
      /\ \A r \in Regions :
            IF InScan(r, live)
            THEN /\ \A o \in Starts(r) : ~Shows(s.mem, r, o, sid)
                 /\ ChangesAccounted(s, mem, recorded, r, sid)
            ELSE s.mem[r] = mem[r]
  BY ScanBothEffect
<1>3. /\ mem' \in Memory
      /\ mem'["controller"] = s.mem["controller"]
      /\ \A k \in Offsets("client") \ FieldBytes : mem'["client"][k] = s.mem["client"][k]
  BY <1>1, <1>2, Values, WriteSteamIdEffect
<1>4. ASSUME NEW o \in Starts("client")
      PROVE  ~Shows(mem', "client", o, sid)
  <2> DEFINE u == Put(s.mem, "client", SteamIdAt, Zeroes)
  <2>1. /\ "client" \in Regions /\ SteamIdAt \in Starts("client") /\ MirrorAt \in Starts("client")
        /\ InScan("client", live)
    BY ScanAssumption DEF Regions, Starts, Limit, InScan
  <2>2. u \in Memory /\ ~Shows(u, "client", o, sid)
    BY <1>2, <2>1, PutEffect, Values, ZeroesMakeNone
  <2>3. mem' = Put(u, "client", MirrorAt, Zeroes)
    BY <1>1 DEF WriteSteamId
  <2> HIDE DEF u
  <2> QED BY <2>1, <2>2, <2>3, ZeroesMakeNone
<1>5. ASSUME NEW r \in Regions
      PROVE  IF Scanned(r)
             THEN \A o \in Starts(r) : ~Shows(mem', r, o, sid)
             ELSE mem'[r] = mem[r]
  <2>1. CASE r = "client"
    BY <1>4, <2>1 DEF Scanned
  <2>2. CASE r = "controller"
    BY <1>2, <1>3, <2>2 DEF Scanned, InScan, Shows
  <2> QED BY <2>1, <2>2 DEF Regions
<1>6. ASSUME NEW r \in Regions, NEW k \in Offsets(r), mem'[r][k] # mem[r][k],
             ~(r = "client" /\ k \in FieldBytes)
      PROVE  \E h \in Starts(r) : k \in Block(h) /\ Accounted(s, mem, recorded, r, sid, h)
  <2>1. mem'[r][k] = s.mem[r][k]
    BY <1>3, <1>6 DEF Regions
  <2>2. s.mem[r][k] # mem[r][k]
    BY <1>6, <2>1
  <2>3. ChangesAccounted(s, mem, recorded, r, sid)
    BY <1>2, <2>2
  <2> QED BY <2>2, <2>3 DEF ChangesAccounted
<1> QED BY <1>1, <1>2, <1>3, <1>5, <1>6

-----------------------------------------------------------------------------
(* RestoreSteamIdCopies                                                    *)

\* Each byte of p is u's, or still m's and in none of the first n copies put back.
PutBack(p, n, m, withController, u) ==
    \A r \in Regions : \A b \in Offsets(r) :
        \/ p[r][b] = u[r][b]
        \/ /\ p[r][b] = m[r][b]
           /\ InScan(r, withController) =>
                  \A k \in 1 .. n : copies[k].region = r => b \notin Block(copies[k].offset)

LEMMA PutsEffect ==
    ASSUME copies \in Seq(Copy), sid \in SteamIds,
           \A k \in DOMAIN copies : copies[k].offset \in Starts(copies[k].region),
           NEW m \in Memory, NEW withController \in BOOLEAN, NEW u,
           NEW p, p = RestoreSteamIdCopies(m, withController)
    PROVE  /\ p \in Memory
           /\ (\A k \in DOMAIN copies : Shows(u, copies[k].region, copies[k].offset, sid))
                 => PutBack(p, Len(copies), m, withController, u)
<1> DEFINE N == Len(copies)
           step(t, k) == IF copies[k].region = "client" \/ withController
                         THEN Put(t, copies[k].region, copies[k].offset, sid)
                         ELSE t
           F == [x \in Memory \X (1 .. N) |-> step(x[1], x[2])]
           put[k \in 0 .. N] == IF k = 0 THEN m ELSE step(put[k - 1], k)
           Shown == \A k \in DOMAIN copies : Shows(u, copies[k].region, copies[k].offset, sid)
           T == {n \in 0 .. N : /\ put[n] \in Memory
                                /\ Shown => PutBack(put[n], n, m, withController, u)}
<1>0. N \in Nat /\ DOMAIN copies = 1 .. N /\ sid \in Value
  BY Values
<1>1. ASSUME NEW t \in Memory, NEW k \in 1 .. N
      PROVE  step(t, k) \in Memory
  <2>1. copies[k].region \in Regions /\ copies[k].offset \in Starts(copies[k].region)
    BY CopyParts
  <2>2. Put(t, copies[k].region, copies[k].offset, sid) \in Memory
    BY <1>0, <2>1, PutEffect
  <2> QED BY <2>2
<1>2. F \in [Memory \X (1 .. N) -> Memory]
  <2> HIDE DEF step, N
  <2> QED BY <1>1
<1>3. \A k \in 0 .. N : put[k] = IF k = 0 THEN m ELSE step(put[k - 1], k)
  <2> HIDE DEF F, step, N
  <2>1. PICK g : GoesOn(g, N, Memory, m, F)
    BY <1>0, <1>2, IntervalRecursion
  <2>2. ASSUME NEW k \in 1 .. N
        PROVE  F[<<g[k - 1], k>>] = step(g[k - 1], k)
    <3>1. g[k - 1] \in Memory
      BY <1>0, <2>1 DEF GoesOn
    <3> QED BY <3>1 DEF F
  <2>3. \A k \in 0 .. N : g[k] = IF k = 0 THEN m ELSE step(g[k - 1], k)
    <3> TAKE k \in 0 .. N
    <3>1. k # 0 => k \in 1 .. N
      BY <1>0
    <3> QED BY <2>1, <2>2, <3>1 DEF GoesOn
  <2>4. g = [k \in 0 .. N |-> IF k = 0 THEN m ELSE step(g[k - 1], k)]
    <3>1. g = [k \in 0 .. N |-> g[k]]
      BY <2>1 DEF GoesOn
    <3> QED BY <2>3, <3>1
  <2>5. put = [k \in 0 .. N |-> IF k = 0 THEN m ELSE step(put[k - 1], k)]
    BY <2>4
  <2> HIDE DEF put
  <2> QED BY <2>5
<1>4. p = put[N]
  BY DEF RestoreSteamIdCopies
<1> HIDE DEF put, N
<1>5. 0 \in T
  <2>1. put[0] = m
    BY <1>0, <1>3
  <2>2. PutBack(m, 0, m, withController, u)
    BY DEF PutBack
  <2> QED BY <1>0, <2>1, <2>2
<1>6. ASSUME NEW n \in 0 .. N - 1, n \in T
      PROVE  n + 1 \in T
  <2> DEFINE t == put[n]
             v == put[n + 1]
             r == copies[n + 1].region
             off == copies[n + 1].offset
  <2>1. n + 1 \in 1 .. N /\ n + 1 \in 0 .. N /\ n + 1 # 0 /\ (n + 1) - 1 = n
    BY <1>0
  <2>2. v = step(t, n + 1)
    BY <1>3, <2>1
  <2>3. v \in Memory
    <3> HIDE DEF step
    <3> QED BY <1>1, <1>6, <2>1, <2>2
  <2>4. ASSUME Shown
        PROVE  PutBack(v, n + 1, m, withController, u)
    <3>1. PutBack(t, n, m, withController, u)
      BY <1>6, <2>4
    <3>2. r \in Regions /\ off \in Starts(r) /\ Shows(u, r, off, sid)
      BY <1>0, <2>1, <2>4, CopyParts DEF N
    <3> SUFFICES ASSUME NEW q \in Regions, NEW b \in Offsets(q)
                 PROVE  \/ v[q][b] = u[q][b]
                        \/ /\ v[q][b] = m[q][b]
                           /\ InScan(q, withController) =>
                                \A k \in 1 .. n + 1 : copies[k].region = q => b \notin Block(copies[k].offset)
      BY DEF PutBack
    <3>3. \/ t[q][b] = u[q][b]
          \/ /\ t[q][b] = m[q][b]
             /\ InScan(q, withController) =>
                    \A k \in 1 .. n : copies[k].region = q => b \notin Block(copies[k].offset)
      BY <3>1 DEF PutBack
    <3>4. \A k \in 1 .. n + 1 : k # n + 1 => k \in 1 .. n
      BY <1>0
    <3>5. CASE ~InScan(r, withController)
      <4>1. v = t
        BY <2>2, <3>5 DEF InScan
      <4>2. InScan(q, withController) => r # q
        BY <3>5
      <4> HIDE DEF t, v
      <4> QED BY <3>3, <3>4, <4>1, <4>2
    <3>6. CASE InScan(r, withController)
      <4>1. v = Put(t, r, off, sid)
        BY <2>2, <3>6 DEF InScan
      <4>2. /\ \A x \in Regions \ {r} : v[x] = t[x]
            /\ \A k \in Block(off) : v[r][k] = sid[k - off + 1]
            /\ \A k \in Offsets(r) \ Block(off) : v[r][k] = t[r][k]
        BY <1>0, <1>6, <3>2, <4>1, PutEffect
      <4>3. CASE q = r /\ b \in Block(off)
        BY <3>2, <4>2, <4>3 DEF Shows
      <4>4. CASE ~(q = r /\ b \in Block(off))
        <5>1. v[q][b] = t[q][b]
          BY <4>2, <4>4
        <5>2. copies[n + 1].region = q => b \notin Block(copies[n + 1].offset)
          BY <4>4
        <5> HIDE DEF t, v
        <5> QED BY <3>3, <3>4, <5>1, <5>2
      <4> QED BY <4>3, <4>4
    <3> QED BY <3>5, <3>6
  <2> QED BY <2>1, <2>3, <2>4
<1>7. N \in T
  <2> HIDE DEF T
  <2>1. \A n \in 0 .. N : n \in T
    BY <1>0, <1>5, <1>6, IntervalInduction
  <2> QED BY <1>0, <2>1
<1> QED BY <1>4, <1>7 DEF N

-----------------------------------------------------------------------------
(* The invariant                                                           *)

FieldsShow(m) == Shows(m, "client", SteamIdAt, sid) /\ Shows(m, "client", MirrorAt, sid)

HiddenBytes(r) == UNION {Block(h) : h \in Hidden(r)}

\* Without the window, the SteamID would be wherever closing the window writes it.
Restorable == \A r \in Regions : \A h \in Hidden(r) : Shows(unhidden, r, h, sid)

\* The window has changed nothing else.
OthersKept == \A r \in Regions : \A k \in Offsets(r) \ HiddenBytes(r) : mem[r][k] = unhidden[r][k]

(***************************************************************************)
(* What closing an untorn window relies on.  A straddling copy would be    *)
(* zeroed by the next scan and not recorded.                               *)
(***************************************************************************)
ScanInv ==
    /\ TypeOK
    /\ writes = 0 => ~torn
    /\ ~open /\ writes = 0 => FieldsShow(mem)
    /\ open /\ ~torn => Restorable /\ ~Straddled(mem)
    /\ open /\ ~torn /\ Len(copies) < MaxSteamIdCopies => OthersKept
    /\ RestoreUndoes

\* Where closing the window would write, with other copies recorded.
HiddenIn(recorded, r) ==
    {recorded[k].offset : k \in {j \in DOMAIN recorded : recorded[j].region = r}}
        \cup (IF r = "client" THEN {SteamIdAt, MirrorAt} ELSE {})

LEMMA HiddenIsHiddenIn == \A r : Hidden(r) = HiddenIn(copies, r)
  BY DEF Hidden, HiddenIn

LEMMA HiddenInStarts ==
    ASSUME NEW recorded \in Seq(Copy), NEW r \in Regions,
           \A k \in DOMAIN recorded : recorded[k].offset \in Starts(recorded[k].region)
    PROVE  HiddenIn(recorded, r) \subseteq Starts(r)
<1>1. r = "client" => {SteamIdAt, MirrorAt} \subseteq Starts(r)
  BY ScanAssumption DEF Starts, Limit
<1> QED BY <1>1 DEF HiddenIn

LEMMA OverlapsHiddenIn ==
    ASSUME NEW recorded, NEW r, NEW o, CopyOverlaps(recorded, r, o)
    PROVE  \E h \in HiddenIn(recorded, r) : Overlap(h, o)
  BY DEF CopyOverlaps, HiddenIn

(***************************************************************************)
(* A scan keeps what the closing of the window relies on.  The premises    *)
(* are what must hold of the copies it starts with: none when the window   *)
(* opens, those of the frames before when it is held.                      *)
(***************************************************************************)
LEMMA HideKeeps ==
    ASSUME mem \in Memory, live \in BOOLEAN, sid \in SteamIds, sid' = sid,
           NEW recorded \in Seq(Copy), Len(recorded) <= MaxSteamIdCopies, Hide(recorded),
           \A r \in Regions : \A h \in HiddenIn(recorded, r) : Shows(unhidden', r, h, sid),
           \A r \in Regions : \A h \in Starts(r) : Shows(mem, r, h, sid) =>
               IF CopyOverlaps(recorded, r, h)
               THEN h \in HiddenIn(recorded, r)
               ELSE Len(recorded) < MaxSteamIdCopies => Shows(unhidden', r, h, sid),
           Len(recorded) < MaxSteamIdCopies =>
               \A r \in Regions : \A k \in Offsets(r) :
                   k \in UNION {Block(h) : h \in HiddenIn(recorded, r)}
                       \/ mem[r][k] = unhidden'[r][k],
           \A r \in Regions : \A o \in Starts(r) :
               ~Scanned(r) /\ Shows(mem, r, o, sid) /\ o \notin HiddenIn(recorded, r) =>
                   ~\E h \in HiddenIn(recorded, r) : Overlap(h, o)
    PROVE  /\ Restorable'
           /\ ~Straddled(mem)'
           /\ Len(copies') < MaxSteamIdCopies => OthersKept'
<1> DEFINE s == ScanAndZeroSteamIdCopies(mem, recorded, live, sid)
<1>1. /\ copies' = s.copies
      /\ copies' \in Seq(Copy)
      /\ RecordsOf(s, mem, recorded, live, sid)
      /\ mem' \in Memory
      /\ \A r \in Regions :
            IF Scanned(r)
            THEN \A o \in Starts(r) : ~Shows(mem', r, o, sid)
            ELSE mem'[r] = mem[r]
      /\ \A r \in Regions : \A k \in Offsets(r) :
            mem'[r][k] # mem[r][k] =>
                \/ r = "client" /\ k \in FieldBytes
                \/ \E h \in Starts(r) : k \in Block(h) /\ Accounted(s, mem, recorded, r, sid, h)
  BY HideEffect
<1> HIDE DEF s
<1>2. /\ DOMAIN recorded = 1 .. Len(recorded) /\ Len(recorded) \in Nat
      /\ DOMAIN copies' = 1 .. Len(copies') /\ Len(copies') \in Nat
  BY <1>1
<1>3. /\ Len(recorded) <= Len(copies')
      /\ Len(copies') <= MaxSteamIdCopies
      /\ \A k \in DOMAIN recorded : k \in DOMAIN copies' /\ copies'[k] = recorded[k]
  BY <1>1, <1>2 DEF RecordsOf
<1>4. ASSUME NEW k \in DOMAIN copies', k \notin DOMAIN recorded
      PROVE  /\ Len(recorded) < MaxSteamIdCopies
             /\ Scanned(copies'[k].region)
             /\ copies'[k].region \in Regions
             /\ copies'[k].offset \in Starts(copies'[k].region)
             /\ Shows(mem, copies'[k].region, copies'[k].offset, sid)
             /\ ~CopyOverlaps(recorded, copies'[k].region, copies'[k].offset)
  <2>1. k \in Len(recorded) + 1 .. Len(copies')
    BY <1>2, <1>4
  <2>2. Len(recorded) < MaxSteamIdCopies
    BY <1>2, <1>3, <2>1, ScanAssumption
  <2>3. copies'[k].region \in Regions
    BY <1>1, <1>2, CopyParts
  <2> QED BY <1>1, <2>1, <2>2, <2>3 DEF RecordsOf, InScan, Scanned
<1>5. \A r : Hidden(r)' = HiddenIn(copies', r)
  BY DEF Hidden, HiddenIn
<1>6. \A r : HiddenIn(recorded, r) \subseteq HiddenIn(copies', r)
  BY <1>3 DEF HiddenIn
<1>7. Restorable'
  <2> SUFFICES ASSUME NEW r \in Regions, NEW h \in HiddenIn(copies', r)
               PROVE  Shows(unhidden', r, h, sid)
    BY <1>5 DEF Restorable, Shows
  <2>1. CASE h \in HiddenIn(recorded, r)
    BY <2>1
  <2>2. CASE h \notin HiddenIn(recorded, r)
    <3>1. PICK k \in DOMAIN copies' : copies'[k].region = r /\ copies'[k].offset = h
      BY <2>2 DEF HiddenIn
    <3>2. k \notin DOMAIN recorded
      BY <1>3, <2>2, <3>1 DEF HiddenIn
    <3> QED BY <1>4, <3>1, <3>2
  <2> QED BY <2>1, <2>2
<1>8. ~Straddled(mem)'
  <2> SUFFICES ASSUME NEW r \in Regions, NEW o \in CopiesOf(mem', r, sid), o \notin HiddenIn(copies', r),
                      NEW h \in HiddenIn(copies', r), Overlap(h, o)
               PROVE  FALSE
    BY <1>5 DEF Straddled, OverlapsHidden, CopiesOf, At, Starts, Limit
  <2>1. o \in Starts(r) /\ Shows(mem', r, o, sid)
    BY <1>1, AtShows, Values DEF CopiesOf
  <2>2. ~Scanned(r) /\ mem'[r] = mem[r]
    BY <1>1, <2>1
  <2>3. Shows(mem, r, o, sid)
    BY <2>1, <2>2 DEF Shows
  <2>4. h \in HiddenIn(recorded, r)
    <3> SUFFICES ASSUME h \notin HiddenIn(recorded, r)
                 PROVE  FALSE
      OBVIOUS
    <3>1. PICK k \in DOMAIN copies' : copies'[k].region = r /\ copies'[k].offset = h
      BY DEF HiddenIn
    <3>2. k \notin DOMAIN recorded
      BY <1>3, <3>1 DEF HiddenIn
    <3> QED BY <1>4, <2>2, <3>1, <3>2
  <2> QED BY <1>6, <2>1, <2>2, <2>3, <2>4
<1>9. ASSUME Len(copies') < MaxSteamIdCopies
      PROVE  OthersKept'
  <2> DEFINE B(c, r) == UNION {Block(h) : h \in HiddenIn(c, r)}
  <2> SUFFICES ASSUME NEW r \in Regions, NEW k \in Offsets(r), k \notin B(copies', r)
               PROVE  mem'[r][k] = unhidden'[r][k]
    BY <1>5 DEF OthersKept, HiddenBytes
  <2>1. k \notin B(recorded, r) /\ Len(recorded) < MaxSteamIdCopies
    BY <1>2, <1>3, <1>6, <1>9, ScanAssumption
  <2>2. mem[r][k] = unhidden'[r][k]
    BY <2>1
  <2>3. ~(r = "client" /\ k \in FieldBytes)
    BY DEF HiddenIn, FieldBytes
  <2>4. ASSUME NEW h \in Starts(r), k \in Block(h), Accounted(s, mem, recorded, r, sid, h)
        PROVE  FALSE
    <3>1. h \notin HiddenIn(copies', r)
      BY <2>4
    <3>2. ~Recorded(s, r, h)
      BY <1>1, <3>1 DEF Recorded, HiddenIn
    <3>3. ~(Len(s.copies) >= MaxSteamIdCopies)
      BY <1>1, <1>2, <1>9, ScanAssumption
    <3>4. Shows(mem, r, h, sid) /\ CopyOverlaps(recorded, r, h)
      BY <2>4, <3>2, <3>3 DEF Accounted
    <3> QED BY <1>6, <3>1, <3>4
  <2>5. mem'[r][k] = mem[r][k]
    BY <1>1, <2>3, <2>4
  <2> QED BY <2>2, <2>5
<1> QED BY <1>7, <1>8, <1>9

LEMMA HideTypes ==
    ASSUME mem \in Memory, live \in BOOLEAN, sid \in SteamIds,
           NEW recorded \in Seq(Copy), Len(recorded) <= MaxSteamIdCopies, Hide(recorded),
           \A k \in DOMAIN recorded : recorded[k].offset \in Starts(recorded[k].region)
    PROVE  /\ mem' \in Memory
           /\ copies' \in Seq(Copy)
           /\ Len(copies') <= MaxSteamIdCopies
           /\ \A k \in DOMAIN copies' : copies'[k].offset \in Starts(copies'[k].region)
<1> DEFINE s == ScanAndZeroSteamIdCopies(mem, recorded, live, sid)
<1>1. /\ copies' = s.copies
      /\ copies' \in Seq(Copy)
      /\ RecordsOf(s, mem, recorded, live, sid)
      /\ mem' \in Memory
  BY HideEffect
<1> HIDE DEF s
<1>2. ASSUME NEW k \in DOMAIN copies'
      PROVE  copies'[k].offset \in Starts(copies'[k].region)
  <2>1. k \in 1 .. Len(recorded) \/ k \in Len(recorded) + 1 .. Len(copies')
    BY <1>1
  <2> QED BY <1>1, <2>1 DEF RecordsOf
<1> QED BY <1>1, <1>2 DEF RecordsOf

(***************************************************************************)
(* The invariant, action by action.                                        *)
(***************************************************************************)
LEMMA InitScan == Init => ScanInv
<1> SUFFICES ASSUME Init
             PROVE  ScanInv
  OBVIOUS
<1>1. PICK c \in [Free -> Bytes], d \in [Offsets("controller") -> Bytes] :
          mem = WriteSteamId([r \in Regions |-> IF r = "controller" THEN d
                                               ELSE [k \in Offsets(r) |-> IF k \in Free THEN c[k]
                                                                          ELSE 0]], sid)
  BY DEF Init
<1> DEFINE m == [r \in Regions |-> IF r = "controller" THEN d
                                   ELSE [k \in Offsets(r) |-> IF k \in Free THEN c[k] ELSE 0]]
<1>2. m \in Memory
  <2>1. \A r \in Regions : m[r] \in [Offsets(r) -> Bytes]
    BY ScanAssumption DEF Regions
  <2>2. m = [r \in Regions |-> m[r]]
    OBVIOUS
  <2> HIDE DEF m
  <2> QED BY <2>1, <2>2, MemoryIntro
<1> HIDE DEF m
<1>3. sid \in SteamIds /\ sid \in Value
  BY Values DEF Init
<1>4. mem \in Memory /\ FieldsShow(mem)
  <2>1. mem = WriteSteamId(m, sid)
    BY <1>1 DEF m
  <2> QED BY <1>2, <1>3, <2>1, WriteSteamIdEffect DEF FieldsShow
<1>5. /\ copies = <<>> /\ Len(copies) = 0 /\ copies \in Seq(Copy) /\ DOMAIN copies = {}
      /\ unhidden = mem /\ live \in BOOLEAN /\ open = FALSE /\ torn = FALSE /\ writes = 0
  BY DEF Init
<1>6. TypeOK
  <2>1. {mem, unhidden} \subseteq Memory /\ {live, open, torn} \subseteq BOOLEAN
    BY <1>4, <1>5
  <2>2. Len(copies) <= MaxSteamIdCopies /\ writes \in 0 .. MaxWrites
    BY <1>5, ScanAssumption
  <2>3. \A k \in DOMAIN copies : copies[k].offset \in Starts(copies[k].region)
    BY <1>5
  <2>4. copies \in Seq(Copy)
    BY <1>5
  <2> QED BY <1>3, <2>1, <2>2, <2>3, <2>4 DEF TypeOK
<1> QED BY <1>4, <1>5, <1>6 DEF ScanInv, RestoreUndoes

LEMMA CaptureKeeps == ScanInv /\ CaptureOneManagedSlot => ScanInv'
<1> SUFFICES ASSUME ScanInv, CaptureOneManagedSlot
             PROVE  ScanInv'
  OBVIOUS
<1>1. /\ mem \in Memory /\ live \in BOOLEAN /\ sid \in SteamIds /\ torn \in BOOLEAN
      /\ writes \in 0 .. MaxWrites
      /\ <<>> \in Seq(Copy) /\ Len(<<>>) = 0 /\ DOMAIN <<>> = {} /\ 0 <= MaxSteamIdCopies
  BY ScanAssumption DEF ScanInv, TypeOK
<1>2. /\ ~open /\ writes = 0 /\ open' /\ sid' = sid /\ Hide(<<>>) /\ unhidden' = mem
      /\ live' = live /\ torn' = torn /\ writes' = writes
  BY DEF CaptureOneManagedSlot
<1>3. /\ mem' \in Memory
      /\ copies' \in Seq(Copy)
      /\ Len(copies') <= MaxSteamIdCopies
      /\ \A k \in DOMAIN copies' : copies'[k].offset \in Starts(copies'[k].region)
  BY <1>1, <1>2, HideTypes
<1>4. \A r : HiddenIn(<<>>, r) = IF r = "client" THEN {SteamIdAt, MirrorAt} ELSE {}
  BY <1>1 DEF HiddenIn
<1>5. \A r \in Regions : \A h \in HiddenIn(<<>>, r) : Shows(unhidden', r, h, sid)
  BY <1>2, <1>4 DEF ScanInv, FieldsShow
<1>6. \A r, h : ~CopyOverlaps(<<>>, r, h)
  BY <1>1 DEF CopyOverlaps
<1>7. \A r \in Regions : ~Scanned(r) => HiddenIn(<<>>, r) = {}
  BY <1>4 DEF Scanned
<1>8. /\ Restorable'
      /\ ~Straddled(mem)'
      /\ Len(copies') < MaxSteamIdCopies => OthersKept'
  BY <1>1, <1>2, <1>5, <1>6, <1>7, HideKeeps
<1>9. TypeOK'
  BY <1>1, <1>2, <1>3 DEF TypeOK
<1> QED BY <1>2, <1>8, <1>9 DEF ScanInv, RestoreUndoes

LEMMA ReassertKeeps == ScanInv /\ ReassertNativeVoteMarkers => ScanInv'
<1> SUFFICES ASSUME ScanInv, ReassertNativeVoteMarkers
             PROVE  ScanInv'
  OBVIOUS
<1>1. /\ mem \in Memory /\ unhidden \in Memory /\ live \in BOOLEAN /\ sid \in SteamIds
      /\ torn \in BOOLEAN /\ writes \in 0 .. MaxWrites
      /\ copies \in Seq(Copy) /\ Len(copies) <= MaxSteamIdCopies
      /\ \A k \in DOMAIN copies : copies[k].offset \in Starts(copies[k].region)
  BY DEF ScanInv, TypeOK
<1>2. /\ open /\ open' /\ sid' = sid /\ Hide(copies) /\ unhidden' = unhidden
      /\ live' = live /\ torn' = torn /\ writes' = writes
  BY DEF ReassertNativeVoteMarkers
<1>3. /\ mem' \in Memory
      /\ copies' \in Seq(Copy)
      /\ Len(copies') <= MaxSteamIdCopies
      /\ \A k \in DOMAIN copies' : copies'[k].offset \in Starts(copies'[k].region)
  BY <1>1, <1>2, HideTypes
<1>4. TypeOK'
  BY <1>1, <1>2, <1>3 DEF TypeOK
<1>5. ASSUME ~torn
      PROVE  /\ Restorable'
             /\ ~Straddled(mem)'
             /\ Len(copies') < MaxSteamIdCopies => OthersKept'
  <2>1. /\ Restorable /\ ~Straddled(mem)
        /\ Len(copies) < MaxSteamIdCopies => OthersKept
    BY <1>2, <1>5 DEF ScanInv
  <2>2. \A r \in Regions : \A h \in HiddenIn(copies, r) : Shows(unhidden', r, h, sid)
    BY <1>2, <2>1, HiddenIsHiddenIn DEF Restorable
  <2>3. ASSUME NEW r \in Regions, NEW o \in Starts(r), Shows(mem, r, o, sid),
               o \notin HiddenIn(copies, r)
        PROVE  ~\E h \in HiddenIn(copies, r) : Overlap(h, o)
    <3>1. o \in CopiesOf(mem, r, sid)
      BY <1>1, <2>3, AtShows, Values DEF CopiesOf
    <3> QED BY <2>1, <2>3, <3>1, HiddenIsHiddenIn DEF Straddled, OverlapsHidden
  <2>4. ASSUME NEW r \in Regions, NEW h \in Starts(r), Shows(mem, r, h, sid)
        PROVE  IF CopyOverlaps(copies, r, h)
               THEN h \in HiddenIn(copies, r)
               ELSE Len(copies) < MaxSteamIdCopies => Shows(unhidden', r, h, sid)
    <3>1. CASE h \in HiddenIn(copies, r)
      BY <2>2, <3>1
    <3>2. CASE h \notin HiddenIn(copies, r)
      <4>1. ~\E g \in HiddenIn(copies, r) : Overlap(g, h)
        BY <2>3, <2>4, <3>2
      <4>2. ~CopyOverlaps(copies, r, h)
        BY <4>1, OverlapsHiddenIn
      <4>3. ASSUME Len(copies) < MaxSteamIdCopies, NEW k \in Block(h)
            PROVE  mem[r][k] = unhidden[r][k]
        <5>1. k \in Offsets(r)
          BY <4>3, Sizes
        <5>2. ASSUME NEW g \in HiddenIn(copies, r), k \in Block(g)
              PROVE  FALSE
          <6>1. g \in Nat /\ h \in Nat /\ Width \in Nat
            BY <1>1, HiddenInStarts, Sizes
          <6>2. Overlap(g, h)
            BY <4>3, <5>2, <6>1 DEF Block, Overlap
          <6> QED BY <4>1, <6>2
        <5> QED BY <2>1, <4>3, <5>1, <5>2, HiddenIsHiddenIn DEF OthersKept, HiddenBytes
      <4>4. Len(copies) < MaxSteamIdCopies => Shows(unhidden', r, h, sid)
        BY <1>2, <2>4, <4>3 DEF Shows
      <4> QED BY <4>2, <4>4
    <3> QED BY <3>1, <3>2
  <2>5. Len(copies) < MaxSteamIdCopies =>
            \A r \in Regions : \A k \in Offsets(r) :
                k \in UNION {Block(h) : h \in HiddenIn(copies, r)} \/ mem[r][k] = unhidden'[r][k]
    BY <1>2, <2>1, HiddenIsHiddenIn DEF OthersKept, HiddenBytes
  <2> QED BY <1>1, <1>2, <2>2, <2>3, <2>4, <2>5, HideKeeps
<1> QED BY <1>2, <1>4, <1>5 DEF ScanInv, RestoreUndoes

LEMMA RestoreKeeps == ScanInv /\ RestorePlayerIdentity => ScanInv'
<1> SUFFICES ASSUME ScanInv, RestorePlayerIdentity
             PROVE  ScanInv'
  OBVIOUS
<1> DEFINE w == WriteSteamId(mem, sid)
<1>1. /\ mem \in Memory /\ unhidden \in Memory /\ live \in BOOLEAN /\ sid \in SteamIds /\ sid \in Value
      /\ torn \in BOOLEAN /\ writes \in 0 .. MaxWrites
      /\ copies \in Seq(Copy) /\ Len(copies) <= MaxSteamIdCopies
      /\ \A k \in DOMAIN copies : copies[k].offset \in Starts(copies[k].region)
  BY Values DEF ScanInv, TypeOK
<1>2. /\ open /\ open' = FALSE /\ mem' = RestoreSteamIdCopies(w, live)
      /\ sid' = sid /\ copies' = copies /\ unhidden' = unhidden
      /\ live' = live /\ torn' = torn /\ writes' = writes
  BY DEF RestorePlayerIdentity
<1>3. /\ w \in Memory
      /\ w["controller"] = mem["controller"]
      /\ Shows(w, "client", SteamIdAt, sid)
      /\ Shows(w, "client", MirrorAt, sid)
      /\ \A k \in Offsets("client") \ FieldBytes : w["client"][k] = mem["client"][k]
  BY <1>1, WriteSteamIdEffect
<1> HIDE DEF w
<1>4. /\ mem' \in Memory
      /\ (\A k \in DOMAIN copies : Shows(unhidden, copies[k].region, copies[k].offset, sid))
            => PutBack(mem', Len(copies), w, live, unhidden)
  BY <1>1, <1>2, <1>3, PutsEffect
<1>5. TypeOK'
  BY <1>1, <1>2, <1>4 DEF TypeOK
<1>6. ASSUME ~torn
      PROVE  /\ Restorable
             /\ PutBack(mem', Len(copies), w, live, unhidden)
             /\ \A k \in FieldBytes : k \in Offsets("client") /\ w["client"][k] = unhidden["client"][k]
  <2>1. Restorable
    BY <1>2, <1>6 DEF ScanInv
  <2>2. ASSUME NEW k \in DOMAIN copies
        PROVE  Shows(unhidden, copies[k].region, copies[k].offset, sid)
    <3>1. copies[k].region \in Regions /\ copies[k].offset \in Hidden(copies[k].region)
      BY <1>1, CopyParts DEF Hidden
    <3> QED BY <2>1, <3>1 DEF Restorable
  <2>3. /\ "client" \in Regions /\ SteamIdAt \in Hidden("client") /\ MirrorAt \in Hidden("client")
        /\ SteamIdAt \in Starts("client") /\ MirrorAt \in Starts("client")
    BY ScanAssumption DEF Regions, Hidden, Starts, Limit
  <2>4. \A k \in FieldBytes : w["client"][k] = unhidden["client"][k]
    BY <1>3, <2>1, <2>3 DEF Restorable, Shows, FieldBytes
  <2>5. FieldBytes \subseteq Offsets("client")
    BY <2>3, Sizes DEF FieldBytes
  <2> QED BY <1>4, <2>1, <2>2, <2>4, <2>5
<1>7. ASSUME ~torn
      PROVE  FieldsShow(mem)'
  <2>1. \A k \in FieldBytes : mem'["client"][k] = unhidden["client"][k]
    BY <1>6, <1>7 DEF PutBack, Regions
  <2>2. \A k \in FieldBytes : mem'["client"][k] = w["client"][k]
    BY <1>6, <1>7, <2>1
  <2> QED BY <1>2, <1>3, <2>2 DEF FieldsShow, Shows, FieldBytes
<1>8. RestoreUndoes'
  <2> SUFFICES ASSUME ~torn, Len(copies) < MaxSteamIdCopies, NEW r \in Regions, Scanned(r)
               PROVE  mem'[r] = unhidden[r]
    BY <1>2 DEF RestoreUndoes, Scanned
  <2>1. OthersKept
    BY <1>2 DEF ScanInv
  <2>2. ASSUME NEW b \in Offsets(r)
        PROVE  mem'[r][b] = unhidden[r][b]
    <3> SUFFICES ASSUME mem'[r][b] # unhidden[r][b]
                 PROVE  FALSE
      OBVIOUS
    <3>1. /\ mem'[r][b] = w[r][b]
          /\ \A k \in 1 .. Len(copies) : copies[k].region = r => b \notin Block(copies[k].offset)
      BY <1>6 DEF PutBack, InScan, Scanned
    <3>2. ~(r = "client" /\ b \in FieldBytes)
      BY <1>6, <3>1
    <3>3. w[r][b] = mem[r][b]
      BY <1>3, <3>2 DEF Regions
    <3>4. DOMAIN copies = 1 .. Len(copies)
      BY <1>1
    <3>5. b \notin HiddenBytes(r)
      <4> SUFFICES ASSUME NEW h \in Hidden(r), b \in Block(h)
                   PROVE  FALSE
        BY DEF HiddenBytes
      <4>1. ~(r = "client" /\ h \in {SteamIdAt, MirrorAt})
        BY <3>2 DEF FieldBytes
      <4> QED BY <3>1, <3>4, <4>1 DEF Hidden
    <3> QED BY <2>1, <3>1, <3>3, <3>5 DEF OthersKept
  <2>3. mem'[r] \in [Offsets(r) -> Bytes] /\ unhidden[r] \in [Offsets(r) -> Bytes]
    BY <1>1, <1>4, MemoryType
  <2> QED BY <2>2, <2>3
<1>9. writes' = 0 => ~torn'
  BY <1>2 DEF ScanInv
<1> QED BY <1>2, <1>5, <1>7, <1>8, <1>9 DEF ScanInv

LEMMA ForeignWriteKeeps ==
    ASSUME ScanInv, NEW r \in Regions, NEW off \in Starts(r), NEW value \in {sid, Zeroes},
           ForeignWrite(r, off, value)
    PROVE  ScanInv'
<1>1. /\ mem \in Memory /\ unhidden \in Memory /\ live \in BOOLEAN /\ sid \in SteamIds /\ value \in Value
      /\ torn \in BOOLEAN /\ writes \in 0 .. MaxWrites
      /\ copies \in Seq(Copy) /\ Len(copies) <= MaxSteamIdCopies
      /\ \A k \in DOMAIN copies : copies[k].offset \in Starts(copies[k].region)
  BY Values DEF ScanInv, TypeOK
<1>2. /\ open /\ writes < MaxWrites /\ writes' = writes + 1
      /\ mem' = Put(mem, r, off, value) /\ unhidden' = Put(unhidden, r, off, value)
      /\ live' = live /\ open' = open /\ sid' = sid /\ copies' = copies
      /\ torn' = (torn \/ Overwrites(r, off, value) \/ Straddled(mem'))
  BY DEF ForeignWrite
<1>3. /\ mem' \in Memory
      /\ \A q \in Regions \ {r} : mem'[q] = mem[q]
      /\ \A k \in Block(off) : mem'[r][k] = value[k - off + 1]
      /\ \A k \in Offsets(r) \ Block(off) : mem'[r][k] = mem[r][k]
  BY <1>1, <1>2, PutEffect
<1>4. /\ unhidden' \in Memory
      /\ \A q \in Regions \ {r} : unhidden'[q] = unhidden[q]
      /\ \A k \in Block(off) : unhidden'[r][k] = value[k - off + 1]
      /\ \A k \in Offsets(r) \ Block(off) : unhidden'[r][k] = unhidden[r][k]
  BY <1>1, <1>2, PutEffect
<1>5. torn' \in BOOLEAN
  BY <1>1, <1>2 DEF Overwrites, OverlapsHidden, Straddled
<1>6. writes' \in 0 .. MaxWrites /\ writes' # 0
  BY <1>1, <1>2, ScanAssumption
<1>7. TypeOK'
  BY <1>1, <1>2, <1>3, <1>4, <1>5, <1>6 DEF ScanInv, TypeOK
<1>8. \A q : Hidden(q)' = Hidden(q)
  BY <1>2 DEF Hidden
<1>9. ASSUME ~torn'
      PROVE  /\ Restorable'
             /\ ~Straddled(mem)'
             /\ Len(copies') < MaxSteamIdCopies => OthersKept'
  <2>1. /\ ~torn /\ ~Overwrites(r, off, value) /\ ~Straddled(mem')
        /\ Restorable
        /\ Len(copies) < MaxSteamIdCopies => OthersKept
    BY <1>2, <1>9 DEF ScanInv
  <2>2. ~Straddled(mem)'
    BY <1>2, <1>8, <2>1 DEF Straddled, CopiesOf, OverlapsHidden
  <2>3. ASSUME NEW q \in Regions, NEW h \in Hidden(q), NEW k \in Block(h)
        PROVE  unhidden'[q][k] = unhidden[q][k]
    <3>1. HiddenIn(copies, q) \subseteq Starts(q)
      BY <1>1, HiddenInStarts
    <3>2. h \in Starts(q) /\ h \in Nat /\ off \in Nat /\ Width \in Nat /\ k \in Offsets(q)
      BY <3>1, HiddenIsHiddenIn, Sizes
    <3>3. CASE q # r
      BY <1>4, <3>3
    <3>4. CASE q = r /\ k \notin Block(off)
      BY <1>4, <3>2, <3>4
    <3>5. CASE q = r /\ k \in Block(off)
      <4>1. Overlap(h, off)
        BY <2>3, <3>2, <3>5 DEF Block, Overlap
      <4>2. value = sid /\ off \in Hidden(r)
        BY <2>1, <3>5, <4>1 DEF Overwrites, OverlapsHidden
      <4>3. unhidden[r][k] = sid[k - off + 1]
        BY <2>1, <3>5, <4>2 DEF Restorable, Shows
      <4> QED BY <1>4, <3>5, <4>2, <4>3
    <3> QED BY <3>3, <3>4, <3>5
  <2>4. Restorable'
    BY <1>2, <1>8, <2>1, <2>3 DEF Restorable, Shows
  <2>5. ASSUME Len(copies') < MaxSteamIdCopies
        PROVE  OthersKept'
    <3> SUFFICES ASSUME NEW q \in Regions, NEW k \in Offsets(q), k \notin HiddenBytes(q)
                 PROVE  mem'[q][k] = unhidden'[q][k]
      BY <1>8 DEF OthersKept, HiddenBytes
    <3>1. mem[q][k] = unhidden[q][k]
      BY <1>2, <2>1, <2>5 DEF OthersKept
    <3>2. CASE q = r /\ k \in Block(off)
      BY <1>3, <1>4, <3>2
    <3>3. CASE ~(q = r /\ k \in Block(off))
      BY <1>3, <1>4, <3>1, <3>3
    <3> QED BY <3>2, <3>3
  <2> QED BY <2>2, <2>4, <2>5
<1> QED BY <1>2, <1>6, <1>7, <1>9 DEF ScanInv, RestoreUndoes

LEMMA ReboundKeeps == ScanInv /\ ControllerRebound => ScanInv'
<1> SUFFICES ASSUME ScanInv, ControllerRebound
             PROVE  ScanInv'
  OBVIOUS
<1>1. /\ open /\ live' = FALSE /\ mem' = mem /\ open' = open /\ sid' = sid /\ copies' = copies
      /\ unhidden' = unhidden /\ torn' = torn /\ writes' = writes
  BY DEF ControllerRebound
<1>2. TypeOK'
  BY <1>1 DEF ScanInv, TypeOK
<1>3. /\ Restorable' <=> Restorable
      /\ Straddled(mem)' <=> Straddled(mem)
      /\ OthersKept' <=> OthersKept
  BY <1>1 DEF Restorable, Straddled, CopiesOf, OverlapsHidden, Hidden, OthersKept, HiddenBytes
<1>4. RestoreUndoes'
  BY <1>1 DEF RestoreUndoes
<1> QED BY <1>1, <1>2, <1>3, <1>4 DEF ScanInv

LEMMA ScanStutters == ScanInv /\ UNCHANGED vars => ScanInv'
  BY DEF ScanInv, vars, TypeOK, Restorable, Straddled, CopiesOf, OverlapsHidden,
         Hidden, OthersKept, HiddenBytes, FieldsShow, RestoreUndoes, Scanned

(***************************************************************************)
(* ScanInv holds of every memory, SteamID and number of writes.            *)
(***************************************************************************)
THEOREM ScanInvariant == Spec => []ScanInv
<1>1. ScanInv /\ [Next]_vars => ScanInv'
  <2> SUFFICES ASSUME ScanInv, [Next]_vars
               PROVE  ScanInv'
    OBVIOUS
  <2>1. CASE CaptureOneManagedSlot
    BY <2>1, CaptureKeeps
  <2>2. CASE ReassertNativeVoteMarkers
    BY <2>2, ReassertKeeps
  <2>3. CASE RestorePlayerIdentity
    BY <2>3, RestoreKeeps
  <2>4. ASSUME NEW r \in Regions, NEW off \in Starts(r), NEW value \in {sid, Zeroes},
               ForeignWrite(r, off, value)
        PROVE  ScanInv'
    BY <2>4, ForeignWriteKeeps
  <2>5. CASE ControllerRebound
    BY <2>5, ReboundKeeps
  <2>6. CASE UNCHANGED vars
    BY <2>6, ScanStutters
  <2> QED BY <2>1, <2>2, <2>3, <2>4, <2>5, <2>6 DEF Next
<1> QED BY <1>1, InitScan, PTL DEF Spec

(***************************************************************************)
(* No more copies are recorded than the array holds, each at an offset     *)
(* that eight bytes may start at (vote_transaction.cpp).                   *)
(***************************************************************************)
THEOREM ScanTypeCorrect == Spec => []TypeOK
<1>1. ScanInv => TypeOK
  BY DEF ScanInv
<1> QED BY <1>1, ScanInvariant, PTL

(***************************************************************************)
(* Closing the window undoes it, whatever the engine wrote meanwhile       *)
(* outside the hidden copies and their edges, as long as the array did not *)
(* fill up.                                                                *)
(***************************************************************************)
THEOREM RestoringUndoes == Spec => []RestoreUndoes
<1>1. ScanInv => RestoreUndoes
  BY DEF ScanInv
<1> QED BY <1>1, ScanInvariant, PTL

(***************************************************************************)
(* A scan leaves no copy in what it scans, wherever it comes from, even    *)
(* when it could not record what it zeroed.                                *)
(***************************************************************************)
THEOREM NothingIsLeft == Spec => NothingLeft
<1> DEFINE Left == \E r \in Regions : Scanned(r) /\ CopiesOf(mem', r, sid) # {}
           Clean == Left => ~(writes' = writes /\ open' /\ live' = live)
<1>1. ASSUME ScanInv, NEW recorded \in Seq(Copy), Len(recorded) <= MaxSteamIdCopies, Hide(recorded)
      PROVE  ~Left
  <2>1. mem \in Memory /\ live \in BOOLEAN /\ sid \in SteamIds
    BY <1>1 DEF ScanInv, TypeOK
  <2>2. /\ mem' \in Memory
        /\ \A r \in Regions : Scanned(r) => \A o \in Starts(r) : ~Shows(mem', r, o, sid)
    BY <1>1, <2>1, HideEffect
  <2> QED BY <2>1, <2>2, AtShows, Values DEF CopiesOf
<1>2. ASSUME ScanInv, [Next]_vars
      PROVE  [Clean]_vars
  <2> HIDE DEF Left
  <2>1. CASE CaptureOneManagedSlot
    <3>1. Hide(<<>>) /\ <<>> \in Seq(Copy) /\ Len(<<>>) <= MaxSteamIdCopies
      BY <2>1, ScanAssumption DEF CaptureOneManagedSlot
    <3> QED BY <1>1, <1>2, <3>1
  <2>2. CASE ReassertNativeVoteMarkers
    <3>1. Hide(copies) /\ copies \in Seq(Copy) /\ Len(copies) <= MaxSteamIdCopies
      BY <1>2, <2>2 DEF ReassertNativeVoteMarkers, ScanInv, TypeOK
    <3> QED BY <1>1, <1>2, <3>1
  <2>3. CASE RestorePlayerIdentity
    BY <2>3 DEF RestorePlayerIdentity
  <2>4. ASSUME NEW r \in Regions, NEW off \in Starts(r), NEW value \in {sid, Zeroes},
               ForeignWrite(r, off, value)
        PROVE  Clean
    <3>1. writes \in Nat /\ writes' = writes + 1
      BY <1>2, <2>4, ScanAssumption DEF ScanInv, TypeOK, ForeignWrite
    <3> QED BY <3>1
  <2>5. CASE ControllerRebound
    BY <2>5 DEF ControllerRebound
  <2> QED BY <1>2, <2>1, <2>2, <2>3, <2>4, <2>5 DEF Next
<1> QED BY <1>2, ScanInvariant, PTL DEF Spec, NothingLeft

=============================================================================
