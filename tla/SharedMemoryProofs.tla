------------------------- MODULE SharedMemoryProofs -------------------------
(***************************************************************************)
(* Proofs about SharedMemory: what the region says of the slots' holders,  *)
(* and what a reader that takes no lock may conclude from it, for every    *)
(* number of slots, identities and regions.                                *)
(***************************************************************************)
EXTENDS SharedMemory, TLAPS

\* What a slot's entry should name when no store is left to be made.
Expected(s) == IF s \in applied THEN holder[s] ELSE None

\* Nothing of a process is left when its plugin is not loaded.
UnloadedInv ==
    ~loaded => /\ view = 0 /\ job = Idle
               /\ applied = {} /\ gone = {} /\ abandoned = {}
               /\ \A s \in Slots : holder[s] = None

HolderInv == \A s \in applied : holder[s] # None /\ s \notin abandoned

\* Hooks are not interrupted by hooks: the job publishes what its slot holds now.
JobInv == job.slot \in Slots => job.bot = Expected(job.slot) /\ job.slot \notin abandoned

\* The n-th store for slot s is not one of those still to be made.
Settled(s, n) == job.slot # s \/ job.at > n

\* An abandoned entry is whole: no store to it was left to be made.
RegionInv ==
    view # 0 =>
        \A s \in Slots :
            LET e == mem[view][s]
            IN  IF s \in abandoned
                THEN (e.state <=> e.sid # None) /\ e.name = e.sid
                ELSE /\ Settled(s, 1) => (e.state <=> s \in applied)
                     /\ Settled(s, 2) => e.sid = Expected(s)
                     /\ Settled(s, 3) => e.name = Expected(s)

\* PickFakePing may find no ping for the identity b.
MayHaveNone(b) == \E q \in PickFakePing(b) : q <= 0

PingInv ==
    view # 0 =>
        /\ \A s \in Slots : mem[view][s].ping = 0 \/ \E b \in Bots : Chosen(mem[view][s].ping, b)
        /\ \A s \in applied : job.slot # s =>
              Chosen(mem[view][s].ping, holder[s]) \/ MayHaveNone(holder[s])

\* An adoption of slot s in region r has not bumped the incarnation yet.
Pending(r, s) == view = r /\ job.slot = s /\ job.bot # None /\ job.at <= 4

(***************************************************************************)
(* What was read since the incarnation was read is what is there, while    *)
(* the incarnation stays, the slot is managed and nobody is adopting it.   *)
(***************************************************************************)
ReaderInv ==
    reader.slot \in Slots /\ reader.at >= 2 =>
        LET e == mem[reader.region][reader.slot]
        IN  /\ reader.inc <= e.inc
            /\ e.state /\ e.inc = reader.inc /\ ~Pending(reader.region, reader.slot) =>
                  /\ reader.at >= 3 => reader.sid = e.sid
                  /\ reader.at >= 4 => reader.name = e.name

ShmInv ==
    /\ TypeOK
    /\ UnloadedInv
    /\ HolderInv
    /\ JobInv
    /\ RegionInv
    /\ PingInv
    /\ ReaderInv

-----------------------------------------------------------------------------
(* The stores                                                              *)

(***************************************************************************)
(* The numbers config.json and the list give are integers, of any sign.    *)
(***************************************************************************)
LEMMA FeaturesType ==
    ASSUME TypeOK
    PROVE  /\ features \in PluginFeatures
           /\ features.enableFakePing \in BOOLEAN
           /\ features.fakePingMin \in Int
           /\ features.fakePingMax \in Int
           /\ features.pingJitterPercent \in Int
           /\ \A b \in Bots : PingOf[b] \in Int
  <1>1. DefaultFeatures \in PluginFeatures
    BY DEF DefaultFeatures, PluginFeatures
  <1>2. features \in PluginFeatures
    BY <1>1, SharedMemoryAssumption DEF TypeOK
  <1> QED
    BY <1>2, SharedMemoryAssumption DEF PluginFeatures

(***************************************************************************)
(* What is chosen for an identity changes only with the features.          *)
(***************************************************************************)
LEMMA SameFeatures ==
    ASSUME features' = features
    PROVE  \A b : /\ \A p : Chosen(p, b)' = Chosen(p, b)
                  /\ MayHaveNone(b)' = MayHaveNone(b)
  BY DEF Chosen, MayHaveNone, PickFakePing, JitterRange

(***************************************************************************)
(* What a bot is adopted with is a ping chosen for it, or what was there,  *)
(* and that only if it may have none of its own.                           *)
(***************************************************************************)
LEMMA PublishedPing ==
    ASSUME TypeOK, NEW b \in Bots, NEW old \in Nat, NEW p \in PublishPing(b, old)
    PROVE  p \in Nat /\ (Chosen(p, b) \/ (p = old /\ MayHaveNone(b)))
  <1>1. PICK q \in PickFakePing(b) : p = IF q > 0 THEN q ELSE old
    BY DEF PublishPing
  <1>2. /\ PingOf[b] \in Int
        /\ features.enableFakePing \in BOOLEAN
        /\ features.fakePingMin \in Int
        /\ features.fakePingMax \in Int
    BY FeaturesType
  <1>3. q \in Int
    BY <1>2 DEF PickFakePing
  <1>4. CASE q <= 0
    BY <1>1, <1>3, <1>4 DEF MayHaveNone
  <1>5. CASE q > 0
    <2>1. p = q /\ p \in Nat
      BY <1>1, <1>3, <1>5
    <2>2. features.enableFakePing
      BY <1>5 DEF PickFakePing
    <2>3. \/ p = features.fakePingMin
          \/ p \in features.fakePingMin .. features.fakePingMax
          \/ p = PingOf[b]
      BY <1>2, <2>1, <2>2 DEF PickFakePing
    <2> QED
      BY <1>5, <2>1, <2>2, <2>3 DEF Chosen
  <1> QED
    BY <1>3, <1>4, <1>5

(***************************************************************************)
(* The jitter moves a ping by no more than its range, and clamps it.       *)
(***************************************************************************)
LEMMA JitteredPing ==
    ASSUME TypeOK, features.enableFakePing,
           NEW b \in Bots, PingOf[b] > 0, NEW p \in Jitter(b)
    PROVE  p \in Nat /\ Chosen(p, b)
  <1> DEFINE J == JitterRange(PingOf[b])
  <1>1. PingOf[b] \in Nat /\ features.pingJitterPercent \in Int
    BY FeaturesType
  <1>2. J \in Nat
    <2>1. (PingOf[b] * (IF features.pingJitterPercent > 0
                        THEN features.pingJitterPercent ELSE 30)) \div 100 \in Int
      BY <1>1
    <2> QED
      BY <2>1 DEF JitterRange
  <1>3. PICK d \in -J .. J : p = Clamp(PingOf[b] + d)
    BY DEF Jitter
  <1> HIDE DEF J
  <1>4. d \in Int /\ d <= J /\ -d <= J
    BY <1>2, <1>3
  <1>5. p \in 5 .. 250 /\ (p \in {5, 250} \/ p = PingOf[b] + d)
    BY <1>1, <1>3, <1>4 DEF Clamp
  <1>6. p \in {5, 250} \/ (p - PingOf[b] <= J /\ PingOf[b] - p <= J)
    BY <1>1, <1>2, <1>4, <1>5
  <1> QED
    BY <1>5, <1>6 DEF Chosen, J

(***************************************************************************)
(* What the n-th store of an adoption or a release does to an entry.       *)
(***************************************************************************)
LEMMA StoredEntry ==
    ASSUME TypeOK, NEW e \in Entry, NEW b \in Bots \cup {None}, NEW n \in 1 .. 5,
           b = None => n <= 3,
           NEW d \in Stored(e, Stores(b)[n], b)
    PROVE  /\ d \in Entry
           /\ IF n = 1 THEN d.state <=> b # None ELSE d.state = e.state
           /\ d.sid = IF n = 2 THEN b ELSE e.sid
           /\ d.name = IF n = 3 THEN b ELSE e.name
           /\ d.inc = IF n = 4 THEN e.inc + 1 ELSE e.inc
           /\ n = 5 => Chosen(d.ping, b) \/ (d.ping = e.ping /\ MayHaveNone(b))
           /\ n # 5 => d.ping = e.ping
  <1>1. Stores(b)[n] = AdoptStores[n]
    BY DEF Stores, AdoptStores, ReleaseStores
  <1>2. CASE n = 1
    <2>1. PICK v \in BOOLEAN : v = (b # None)
      OBVIOUS
    <2>2. d = [e EXCEPT !.state = v]
      BY <1>1, <1>2, <2>1 DEF Stored, AdoptStores
    <2>3. d.state = v
      BY <2>2 DEF Entry
    <2>4. d \in Entry /\ d.sid = e.sid /\ d.name = e.name /\ d.inc = e.inc /\ d.ping = e.ping
      BY <2>2 DEF Entry
    <2>5. d.state <=> b # None
      BY <2>1, <2>3
    <2> QED
      BY <1>2, <2>4, <2>5
  <1>3. CASE n = 2
    BY <1>1, <1>3 DEF Stored, AdoptStores, Entry
  <1>4. CASE n = 3
    BY <1>1, <1>4 DEF Stored, AdoptStores, Entry
  <1>5. CASE n = 4
    BY <1>1, <1>5 DEF Stored, AdoptStores, Entry
  <1>6. CASE n = 5
    <2>1. b \in Bots
      BY <1>6
    <2>2. PICK p \in PublishPing(b, e.ping) : d = [e EXCEPT !.ping = p]
      BY <1>1, <1>6 DEF Stored, AdoptStores
    <2>3. p \in Nat /\ (Chosen(p, b) \/ (p = e.ping /\ MayHaveNone(b)))
      BY <2>1, <2>2, PublishedPing DEF Entry
    <2> QED
      BY <1>6, <2>2, <2>3 DEF Entry
  <1> QED
    BY <1>2, <1>3, <1>4, <1>5, <1>6

(***************************************************************************)
(* A mapping is of a region that was created.                              *)
(***************************************************************************)
LEMMA ViewIsRegion == ASSUME TypeOK, view # 0 PROVE view \in 1 .. made /\ view \in Regions
  <1>1. made \in 0 .. MaxRegions /\ view \in 0 .. made
    BY DEF TypeOK
  <1> QED
    BY <1>1, SharedMemoryAssumption DEF Regions

(***************************************************************************)
(* A store touches one entry of one region, or none without a mapping.     *)
(***************************************************************************)
LEMMA StoreEffect ==
    ASSUME TypeOK, Store, view # 0
    PROVE  /\ view \in Regions
           /\ job.slot \in Slots
           /\ job.bot \in Bots \cup {None}
           /\ job.at \in 1 .. 5
           /\ job.bot = None => job.at <= 3
           /\ job' = IF job.at = (IF job.bot = None THEN 3 ELSE 5)
                     THEN Idle ELSE [job EXCEPT !.at = @ + 1]
           /\ \E d \in Stored(mem[view][job.slot], Stores(job.bot)[job.at], job.bot) :
                 /\ d \in Entry
                 /\ mem' \in [Regions -> [Slots -> Entry]]
                 /\ \A r \in Regions, s \in Slots :
                       mem'[r][s] = IF r = view /\ s = job.slot THEN d ELSE mem[r][s]
  <1>1. view \in Regions
    BY ViewIsRegion
  <1>2. /\ job.slot \in Slots
        /\ job.bot \in Bots \cup {None}
        /\ job.at \in 1 .. 5
        /\ job.bot = None => job.at <= 3
    BY SharedMemoryAssumption DEF TypeOK, Store, Idle
  <1>3. job' = IF job.at = (IF job.bot = None THEN 3 ELSE 5)
               THEN Idle ELSE [job EXCEPT !.at = @ + 1]
    BY DEF Store, Stores, AdoptStores, ReleaseStores
  <1>4. PICK d \in Stored(mem[view][job.slot], Stores(job.bot)[job.at], job.bot) :
           mem' = [mem EXCEPT ![view][job.slot] = d]
    BY DEF Store
  <1>5. mem \in [Regions -> [Slots -> Entry]]
    BY DEF TypeOK
  <1>6. d \in Entry
    BY <1>1, <1>2, <1>4, <1>5, StoredEntry
  <1>7. mem' \in [Regions -> [Slots -> Entry]]
    BY <1>4, <1>5, <1>6
  <1>8. \A r \in Regions, s \in Slots :
           mem'[r][s] = IF r = view /\ s = job.slot THEN d ELSE mem[r][s]
    BY <1>1, <1>2, <1>4, <1>5
  <1> QED
    BY <1>1, <1>2, <1>3, <1>4, <1>6, <1>7, <1>8

(***************************************************************************)
(* The jitter changes nothing but pings, each to one of its identity's.    *)
(***************************************************************************)
LEMMA JitterEffect ==
    ASSUME TypeOK, JitterPings
    PROVE  /\ view \in Regions
           /\ mem' \in [Regions -> [Slots -> Entry]]
           /\ \A r \in Regions, s \in Slots :
                 /\ mem'[r][s].state = mem[r][s].state
                 /\ mem'[r][s].sid = mem[r][s].sid
                 /\ mem'[r][s].name = mem[r][s].name
                 /\ mem'[r][s].inc = mem[r][s].inc
           /\ \A s \in Slots : IF s \in Jittered
                               THEN Chosen(mem'[view][s].ping, holder[s])
                               ELSE mem'[view][s].ping = mem[view][s].ping
  <1>1. view \in Regions
    BY ViewIsRegion DEF JitterPings
  <1>2. mem \in [Regions -> [Slots -> Entry]]
    BY DEF TypeOK
  <1>3. PICK p \in [Jittered -> UNION {Jitter(holder[s]) : s \in Jittered}] :
           /\ \A s \in Jittered : p[s] \in Jitter(holder[s])
           /\ mem' = [mem EXCEPT ![view] =
                         [s \in Slots |-> IF s \in Jittered
                                          THEN [@[s] EXCEPT !.ping = p[s]]
                                          ELSE @[s]]]
    BY DEF JitterPings
  <1>4. \A s \in Jittered : p[s] \in Nat /\ Chosen(p[s], holder[s])
    <2> SUFFICES ASSUME NEW s \in Jittered
                 PROVE  p[s] \in Nat /\ Chosen(p[s], holder[s])
      OBVIOUS
    <2>1. holder[s] \in Bots /\ PingOf[holder[s]] > 0
      BY DEF Jittered, TypeOK
    <2> QED
      BY <1>3, <2>1, JitteredPing DEF JitterPings
  <1>5. \A r \in Regions, s \in Slots :
           mem'[r][s] = IF r = view /\ s \in Jittered
                        THEN [mem[r][s] EXCEPT !.ping = p[s]] ELSE mem[r][s]
    BY <1>1, <1>2, <1>3
  <1>6. \A r \in Regions, s \in Slots : mem[r][s] \in Entry
    BY <1>2
  <1>7. \A r \in Regions, s \in Slots :
           /\ mem'[r][s] \in Entry
           /\ mem'[r][s].state = mem[r][s].state
           /\ mem'[r][s].sid = mem[r][s].sid
           /\ mem'[r][s].name = mem[r][s].name
           /\ mem'[r][s].inc = mem[r][s].inc
           /\ mem'[r][s].ping = IF r = view /\ s \in Jittered THEN p[s] ELSE mem[r][s].ping
    <2> SUFFICES ASSUME NEW r \in Regions, NEW s \in Slots
                 PROVE  /\ mem'[r][s] \in Entry
                        /\ mem'[r][s].state = mem[r][s].state
                        /\ mem'[r][s].sid = mem[r][s].sid
                        /\ mem'[r][s].name = mem[r][s].name
                        /\ mem'[r][s].inc = mem[r][s].inc
                        /\ mem'[r][s].ping = IF r = view /\ s \in Jittered
                                             THEN p[s] ELSE mem[r][s].ping
      OBVIOUS
    <2>1. CASE r = view /\ s \in Jittered
      <3>1. mem'[r][s] = [mem[r][s] EXCEPT !.ping = p[s]]
        BY <1>5, <2>1
      <3>2. p[s] \in Nat /\ mem[r][s] \in Entry
        BY <1>4, <1>6, <2>1
      <3> QED
        BY <2>1, <3>1, <3>2 DEF Entry
    <2>2. CASE ~(r = view /\ s \in Jittered)
      BY <1>5, <1>6, <2>2
    <2> QED
      BY <2>1, <2>2
  <1>8. mem' \in [Regions -> [Slots -> Entry]]
    <2>1. \A r \in Regions : mem'[r] \in [Slots -> Entry]
      BY <1>1, <1>2, <1>3, <1>7
    <2> QED
      BY <1>2, <1>3, <2>1
  <1> QED
    BY <1>1, <1>4, <1>7, <1>8

-----------------------------------------------------------------------------
(* Types                                                                   *)

(***************************************************************************)
(* Before the first load there is no region and nobody hosted.             *)
(***************************************************************************)
LEMMA InitTypeOK == ASSUME Init PROVE TypeOK
  <1>1. Zeroed \in [Slots -> Entry]
    BY DEF Zeroed, Entry
  <1>2. 0 \in 0 .. MaxRegions /\ 0 \in 0 .. 0
    BY SharedMemoryAssumption
  <1>3. mem \in [Regions -> [Slots -> Entry]] /\ holder \in [Slots -> Bots \cup {None}]
    BY <1>1 DEF Init
  <1>4. made \in 0 .. MaxRegions /\ {file, view, client} \subseteq 0 .. made
    BY <1>2 DEF Init
  <1>5. {applied, gone, abandoned} \subseteq SUBSET Slots
    BY DEF Init
  <1> QED
    BY <1>3, <1>4, <1>5 DEF Init, TypeOK

(***************************************************************************)
(* A store leaves entries, and a publication, of their types.              *)
(***************************************************************************)
LEMMA StoreKeepsType == ASSUME TypeOK, Store PROVE TypeOK'
  <1>1. mem' \in [Regions -> [Slots -> Entry]]
    <2>1. CASE view = 0
      BY <2>1 DEF TypeOK, Store
    <2>2. CASE view # 0
      BY <2>2, StoreEffect
    <2> QED
      BY <2>1, <2>2
  <1>2. \/ job' = Idle
        \/ job' \in [slot : Slots, bot : Bots, at : 1 .. 5]
        \/ job' \in [slot : Slots, bot : {None}, at : 1 .. 3]
    <2>1. CASE job \in [slot : Slots, bot : Bots, at : 1 .. 5]
      <3>1. job.bot # None
        BY <2>1, SharedMemoryAssumption
      <3> QED
        BY <2>1, <3>1 DEF Store, Stores, AdoptStores
    <2>2. CASE job \in [slot : Slots, bot : {None}, at : 1 .. 3]
      BY <2>2 DEF Store, Stores, ReleaseStores
    <2> QED
      BY <2>1, <2>2 DEF TypeOK, Store
  <1> QED
    BY <1>1, <1>2 DEF TypeOK, Store

(***************************************************************************)
(* Every entry of a new region is an entry.                                *)
(***************************************************************************)
LEMMA LoadKeepsType == ASSUME TypeOK, Load PROVE TypeOK'
  <1>1. made' = made + 1 /\ made + 1 \in Regions /\ made \in Nat /\ made' \in 0 .. MaxRegions
    BY SharedMemoryAssumption DEF TypeOK, Load, InitSharedMemory, RegionKept, Regions
  <1>2. Zeroed \in [Slots -> Entry]
    BY DEF Zeroed, Entry
  <1>3. mem' \in [Regions -> [Slots -> Entry]]
    BY <1>1, <1>2 DEF TypeOK, Load, InitSharedMemory, RegionKept
  <1>4. {file, view, client}' \subseteq 0 .. made'
    BY <1>1 DEF TypeOK, Load, InitSharedMemory, RegionKept
  <1>5. \/ reader' = NoSnapshot
        \/ reader' \in [slot : Slots, region : 1 .. made', at : 1 .. 4, inc : Nat,
                        sid : Bots \cup {None}, name : Bots \cup {None}]
    <2>1. 1 .. made \subseteq 1 .. made'
      BY <1>1
    <2> QED
      BY <2>1 DEF TypeOK, Load
  <1> QED
    BY <1>1, <1>3, <1>4, <1>5 DEF TypeOK, Load

(***************************************************************************)
(* A load leaves a snapshot of the fields read so far.                     *)
(***************************************************************************)
LEMMA SnapshotEffect ==
    ASSUME TypeOK, GetManagedBotSnapshots
    PROVE  LET e == mem[reader.region][reader.slot]
           IN  /\ reader.slot \in Slots /\ reader.region \in 1 .. made /\ reader.region \in Regions
               /\ e \in Entry
               /\ reader.at \in 1 .. 3
               /\ reader'.slot = reader.slot
               /\ reader'.region = reader.region
               /\ reader'.at = reader.at + 1
               /\ reader'.inc = IF reader.at = 1 THEN e.inc ELSE reader.inc
               /\ reader'.sid = IF reader.at = 2 THEN e.sid ELSE reader.sid
               /\ reader'.name = IF reader.at = 3 THEN e.name ELSE reader.name
               /\ reader' \in [slot : Slots, region : 1 .. made, at : 1 .. 4, inc : Nat,
                               sid : Bots \cup {None}, name : Bots \cup {None}]
  <1> DEFINE e == mem[reader.region][reader.slot]
  <1>1. reader \in [slot : Slots, region : 1 .. made, at : 1 .. 4, inc : Nat,
                    sid : Bots \cup {None}, name : Bots \cup {None}]
    BY DEF TypeOK, GetManagedBotSnapshots, NoSnapshot
  <1>2. reader.region \in Regions /\ reader.at \in 1 .. 3
    BY <1>1, SharedMemoryAssumption DEF TypeOK, GetManagedBotSnapshots, Regions
  <1>3. e \in Entry
    BY <1>1, <1>2 DEF TypeOK
  <1> HIDE DEF e
  <1>4. reader' = WithField(reader, SnapshotLoads[reader.at], e)
    BY DEF GetManagedBotSnapshots, e
  <1> DEFINE Effect ==
                /\ reader'.slot = reader.slot
                /\ reader'.region = reader.region
                /\ reader'.at = reader.at + 1
                /\ reader'.inc = IF reader.at = 1 THEN e.inc ELSE reader.inc
                /\ reader'.sid = IF reader.at = 2 THEN e.sid ELSE reader.sid
                /\ reader'.name = IF reader.at = 3 THEN e.name ELSE reader.name
                /\ reader' \in [slot : Slots, region : 1 .. made, at : 1 .. 4, inc : Nat,
                                sid : Bots \cup {None}, name : Bots \cup {None}]
  <1>5. ASSUME reader.at = 1 PROVE Effect
    <2>1. reader' = [reader EXCEPT !.inc = e.inc, !.at = reader.at + 1]
      BY <1>1, <1>4, <1>5 DEF WithField, SnapshotLoads
    <2>2. e.inc \in Nat /\ reader.at + 1 \in 1 .. 4
      BY <1>3, <1>5 DEF Entry
    <2>3. /\ reader'.slot = reader.slot
          /\ reader'.region = reader.region
          /\ reader'.at = reader.at + 1
          /\ reader'.inc = e.inc
          /\ reader'.sid = reader.sid
          /\ reader'.name = reader.name
      BY <1>1, <2>1
    <2>4. reader' \in [slot : Slots, region : 1 .. made, at : 1 .. 4, inc : Nat,
                             sid : Bots \cup {None}, name : Bots \cup {None}]
      BY <1>1, <2>1, <2>2
    <2> QED
      BY <1>5, <2>3, <2>4
  <1>6. ASSUME reader.at = 2 PROVE Effect
    <2>1. reader' = [reader EXCEPT !.sid = e.sid, !.at = reader.at + 1]
      BY <1>1, <1>4, <1>6 DEF WithField, SnapshotLoads
    <2>2. e.sid \in Bots \cup {None} /\ reader.at + 1 \in 1 .. 4
      BY <1>3, <1>6 DEF Entry
    <2>3. /\ reader'.slot = reader.slot
          /\ reader'.region = reader.region
          /\ reader'.at = reader.at + 1
          /\ reader'.inc = reader.inc
          /\ reader'.sid = e.sid
          /\ reader'.name = reader.name
      BY <1>1, <2>1
    <2>4. reader' \in [slot : Slots, region : 1 .. made, at : 1 .. 4, inc : Nat,
                             sid : Bots \cup {None}, name : Bots \cup {None}]
      BY <1>1, <2>1, <2>2
    <2> QED
      BY <1>6, <2>3, <2>4
  <1>7. ASSUME reader.at = 3 PROVE Effect
    <2>1. reader' = [reader EXCEPT !.name = e.name, !.at = reader.at + 1]
      BY <1>1, <1>4, <1>7 DEF WithField, SnapshotLoads
    <2>2. e.name \in Bots \cup {None} /\ reader.at + 1 \in 1 .. 4
      BY <1>3, <1>7 DEF Entry
    <2>3. /\ reader'.slot = reader.slot
          /\ reader'.region = reader.region
          /\ reader'.at = reader.at + 1
          /\ reader'.inc = reader.inc
          /\ reader'.sid = reader.sid
          /\ reader'.name = e.name
      BY <1>1, <2>1
    <2>4. reader' \in [slot : Slots, region : 1 .. made, at : 1 .. 4, inc : Nat,
                             sid : Bots \cup {None}, name : Bots \cup {None}]
      BY <1>1, <2>1, <2>2
    <2> QED
      BY <1>7, <2>3, <2>4
  <1>8. Effect
    BY <1>2, <1>5, <1>6, <1>7
  <1> QED
    BY <1>1, <1>2, <1>3, <1>8 DEF e

(***************************************************************************)
(* No step leaves the types.                                               *)
(***************************************************************************)
LEMMA NextKeepsType == ASSUME TypeOK, [Next]_vars PROVE TypeOK'
  <1>1. CASE LoadWithoutRegion
    BY <1>1 DEF TypeOK, LoadWithoutRegion
  <1>2. CASE Unload
    <2>1. /\ holder' \in [Slots -> Bots \cup {None}]
          /\ {applied, gone, abandoned}' \subseteq SUBSET Slots
      BY <1>2 DEF Unload, Forgotten
    <2>2. made \in Nat /\ {file, view, client}' \subseteq 0 .. made'
      BY <1>2, SharedMemoryAssumption DEF TypeOK, Unload, Forgotten
    <2> QED
      BY <1>2, <2>1, <2>2 DEF TypeOK, Unload, Forgotten
  <1>3. ASSUME NEW s \in Slots, NEW b \in Bots, Mark(s, b) PROVE TypeOK'
    BY <1>3 DEF TypeOK, Mark
  <1>4. ASSUME NEW s \in Slots, ApplyDisguise(s) PROVE TypeOK'
    <2>1. job' \in [slot : Slots, bot : Bots, at : 1 .. 5]
      BY <1>4 DEF TypeOK, ApplyDisguise
    <2> QED
      BY <1>4, <2>1 DEF TypeOK, ApplyDisguise
  <1>5. ASSUME NEW s \in Slots, RestoreIdentity(s) \/ Vacate(s) PROVE TypeOK'
    <2>1. \/ job' = Idle
          \/ job' \in [slot : Slots, bot : {None}, at : 1 .. 3]
      BY <1>5 DEF RestoreIdentity, Vacate, PublishRelease
    <2>2. {applied, gone, abandoned}' \subseteq SUBSET Slots
      BY <1>5 DEF TypeOK, RestoreIdentity, Vacate, Unmark, PublishRelease
    <2>3. holder' \in [Slots -> Bots \cup {None}]
      BY <1>5 DEF TypeOK, RestoreIdentity, Vacate, Unmark
    <2> QED
      BY <1>5, <2>1, <2>2, <2>3 DEF TypeOK, RestoreIdentity, Vacate
  <1>6. CASE JitterPings
    BY <1>6, JitterEffect DEF TypeOK, JitterPings
  <1>7. CASE TryConnect
    BY <1>7 DEF TypeOK, TryConnect
  <1>8. CASE Dispose
    BY <1>8 DEF TypeOK, Dispose
  <1>9. ASSUME NEW s \in Slots, GetManagedSlots(s) PROVE TypeOK'
    <2>1. client \in 1 .. made
      BY <1>9 DEF TypeOK, GetManagedSlots
    <2> QED
      BY <1>9, <2>1 DEF TypeOK, GetManagedSlots
  <1>10. CASE GetManagedBotSnapshots
    BY <1>10, SnapshotEffect DEF TypeOK, GetManagedBotSnapshots
  <1>11. CASE ProcessEnds
    <2>1. /\ holder' \in [Slots -> Bots \cup {None}]
          /\ {applied, gone, abandoned}' \subseteq SUBSET Slots
      BY <1>11 DEF ProcessEnds, Forgotten
    <2>2. made \in Nat /\ {file, view, client}' \subseteq 0 .. made'
      BY <1>11, SharedMemoryAssumption DEF TypeOK, ProcessEnds, Forgotten
    <2> QED
      BY <1>11, <2>1, <2>2 DEF TypeOK, ProcessEnds, Forgotten
  <1>12. CASE UNCHANGED vars
    BY <1>12 DEF TypeOK, vars
  <1>13. CASE ServerLost
    BY <1>13 DEF TypeOK, ServerLost
  <1>14. ASSUME NEW s \in Slots, HltvConnects(s) PROVE TypeOK'
    BY <1>14 DEF TypeOK, HltvConnects
  <1> QED
    BY <1>1, <1>2, <1>3, <1>4, <1>5, <1>6, <1>7, <1>8, <1>9, <1>10, <1>11, <1>12, <1>13, <1>14,
       StoreKeepsType, LoadKeepsType
    DEF Next, NativeStep, ReaderStep

(***************************************************************************)
(* Every state of every run has the types of TypeOK: among others, the     *)
(* publisher is at one of its stores and the regions' names lead to        *)
(* regions that were created.                                              *)
(***************************************************************************)
THEOREM ShmTypeCorrect == Spec => []TypeOK
  <1>1. Init => TypeOK
    BY InitTypeOK
  <1>2. TypeOK /\ [Next]_vars => TypeOK'
    BY NextKeepsType
  <1> QED
    BY <1>1, <1>2, PTL DEF Spec

-----------------------------------------------------------------------------
(* The inductive invariant                                                 *)

(***************************************************************************)
(* The mapping that Load makes is of a region nobody has read yet, and     *)
(* that says of every slot that it is empty, as it is.                     *)
(***************************************************************************)
LEMMA LoadKeeps == ASSUME ShmInv, Load, TypeOK' PROVE ShmInv'
  <1>1. /\ made \in Nat
        /\ view' = made + 1
        /\ made + 1 \in Regions
        /\ MaxRegions \in Nat /\ made <= MaxRegions
    BY SharedMemoryAssumption
    DEF ShmInv, TypeOK, Load, InitSharedMemory, RegionKept, Regions
  <1>2. \A r \in Regions, s \in Slots :
           mem'[r][s] = IF r = made + 1 THEN Zeroed[s] ELSE mem[r][s]
    BY <1>1 DEF ShmInv, TypeOK, Load, InitSharedMemory, RegionKept
  <1>3. /\ job = Idle /\ job' = Idle
        /\ applied' = {} /\ abandoned' = {}
        /\ reader' = reader
        /\ view = 0
    BY DEF ShmInv, UnloadedInv, Load
  <1>4. UnloadedInv'
    BY DEF Load, UnloadedInv
  <1>5. HolderInv' /\ JobInv'
    BY <1>3, SharedMemoryAssumption DEF HolderInv, JobInv, Idle
  <1>6. RegionInv'
    <2>1. \A s \in Slots :
             /\ mem'[made + 1][s].state = FALSE
             /\ mem'[made + 1][s].sid = None
             /\ mem'[made + 1][s].name = None
      BY <1>1, <1>2 DEF Zeroed
    <2> QED
      BY <1>1, <1>3, <2>1 DEF RegionInv, Expected
  <1>7. ReaderInv'
    <2> SUFFICES ASSUME reader.slot \in Slots, reader.at >= 2
                 PROVE  ReaderInv'
      BY <1>3 DEF ReaderInv
    <2>1. reader.region \in 1 .. made
      BY SharedMemoryAssumption DEF ShmInv, TypeOK, NoSnapshot
    <2>2. reader.region \in Regions /\ reader.region # made + 1
      BY <1>1, <2>1 DEF Regions
    <2>3. mem'[reader.region][reader.slot] = mem[reader.region][reader.slot]
      BY <1>2, <2>2
    <2>4. ~Pending(reader.region, reader.slot)
      BY <1>3, <2>1, <1>1 DEF Pending
    <2> QED
      BY <1>3, <2>3, <2>4 DEF ShmInv, ReaderInv
  <1>8. PingInv'
    BY <1>1, <1>2, <1>3 DEF PingInv, Zeroed
  <1> QED
    BY <1>4, <1>5, <1>6, <1>7, <1>8 DEF ShmInv

(***************************************************************************)
(* Unloading leaves no mapping to say anything of, and no snapshot more    *)
(* wrong than it was.                                                      *)
(***************************************************************************)
LEMMA UnloadKeeps == ASSUME ShmInv, Unload, TypeOK' PROVE ShmInv'
  <1>1. /\ view' = 0 /\ applied' = {} /\ job = Idle /\ job' = Idle
        /\ \A s \in Slots : holder'[s] = None
        /\ gone' = {} /\ abandoned' = {}
        /\ mem' = mem /\ reader' = reader
    BY DEF Unload, Forgotten
  <1>2. UnloadedInv' /\ HolderInv' /\ RegionInv' /\ PingInv'
    BY <1>1 DEF UnloadedInv, HolderInv, RegionInv, PingInv
  <1>3. JobInv'
    BY <1>1, SharedMemoryAssumption DEF JobInv, Idle
  <1>4. ReaderInv'
    <2>1. \A r, s : ~Pending(r, s)
      BY <1>1 DEF Pending, Idle
    <2> QED
      BY <1>1, <2>1 DEF ShmInv, ReaderInv
  <1> QED
    BY <1>2, <1>3, <1>4 DEF ShmInv

(***************************************************************************)
(* Nothing of a process outlives it but the regions.                       *)
(***************************************************************************)
LEMMA ProcessEndsKeeps == ASSUME ShmInv, ProcessEnds, TypeOK' PROVE ShmInv'
  <1>1. /\ view' = 0 /\ applied' = {} /\ job' = Idle
        /\ gone' = {} /\ abandoned' = {}
        /\ \A s \in Slots : holder'[s] = None
        /\ reader' = NoSnapshot
    BY DEF ProcessEnds, Forgotten
  <1>2. UnloadedInv' /\ HolderInv' /\ RegionInv' /\ PingInv'
    BY <1>1 DEF UnloadedInv, HolderInv, RegionInv, PingInv
  <1>3. JobInv' /\ ReaderInv'
    BY <1>1, SharedMemoryAssumption DEF JobInv, Idle, ReaderInv, NoSnapshot
  <1> QED
    BY <1>2, <1>3 DEF ShmInv

(***************************************************************************)
(* Only a slot that shows nothing yet is given an identity.                *)
(***************************************************************************)
LEMMA MarkKeeps ==
    ASSUME ShmInv, NEW s \in Slots, NEW b \in Bots, Mark(s, b), TypeOK'
    PROVE  ShmInv'
  <1>1. /\ loaded /\ loaded' = loaded /\ job = Idle /\ job' = Idle /\ s \notin applied
        /\ applied' = applied /\ abandoned' = abandoned /\ features' = features
        /\ view' = view /\ mem' = mem /\ reader' = reader
    BY DEF Mark, ShmInv, HolderInv
  <1>2. \A t \in applied : t \in Slots /\ holder'[t] = holder[t]
    BY <1>1 DEF ShmInv, TypeOK, Mark
  <1>3. UnloadedInv' /\ HolderInv'
    BY <1>1, <1>2 DEF ShmInv, UnloadedInv, HolderInv
  <1>4. \A t \in Slots : Expected(t)' = Expected(t)
    BY <1>1, <1>2 DEF Expected
  <1>5. JobInv' /\ PingInv'
    BY <1>1, <1>2, SameFeatures, SharedMemoryAssumption DEF ShmInv, JobInv, PingInv, Idle
  <1>6. RegionInv'
    BY <1>1, <1>4 DEF ShmInv, RegionInv, Settled
  <1>7. ReaderInv'
    BY <1>1 DEF ShmInv, ReaderInv, Pending
  <1> QED
    BY <1>3, <1>5, <1>6, <1>7 DEF ShmInv

(***************************************************************************)
(* An adoption that starts leaves its own slot's stores to be made.        *)
(***************************************************************************)
LEMMA ApplyKeeps ==
    ASSUME ShmInv, NEW s \in Slots, ApplyDisguise(s), TypeOK'
    PROVE  ShmInv'
  <1>1. /\ job = Idle /\ job'.slot = s /\ job'.bot = holder[s] /\ job'.at = 1
        /\ holder' = holder /\ holder[s] # None /\ s \notin applied
        /\ applied' = applied \cup {s} /\ abandoned' = abandoned \ {s}
        /\ features' = features /\ gone' = gone
        /\ view' = view /\ mem' = mem /\ reader' = reader /\ loaded' = loaded
    BY DEF ApplyDisguise
  <1>2. loaded
    BY <1>1 DEF ShmInv, UnloadedInv
  <1>3. UnloadedInv' /\ HolderInv' /\ JobInv'
    BY <1>1, <1>2 DEF ShmInv, UnloadedInv, HolderInv, JobInv, Expected
  <1>4. \A t \in Slots \ {s} : (t \in applied' <=> t \in applied) /\ Expected(t)' = Expected(t)
    BY <1>1 DEF Expected
  <1>5. \A t \in Slots \ {s}, n \in 1 .. 3 : Settled(t, n)
    BY <1>1, SharedMemoryAssumption DEF Settled, Idle
  <1>6. \A n \in 1 .. 3 : ~Settled(s, n)'
    BY <1>1 DEF Settled
  <1>7. RegionInv'
    BY <1>1, <1>4, <1>5, <1>6 DEF ShmInv, RegionInv
  <1>8. PingInv'
    BY <1>1, SameFeatures, SharedMemoryAssumption DEF ShmInv, TypeOK, PingInv, Idle
  <1>9. ReaderInv'
    <2>1. \A r, t : Pending(r, t) => Pending(r, t)'
      BY <1>1 DEF Pending, Idle
    <2> QED
      BY <1>1, <2>1 DEF ShmInv, ReaderInv
  <1> QED
    BY <1>3, <1>7, <1>8, <1>9 DEF ShmInv

(***************************************************************************)
(* A release that starts leaves its own slot's stores to be made.          *)
(***************************************************************************)
LEMMA ReleaseKeeps ==
    ASSUME ShmInv, NEW s \in Slots, TypeOK',
           job = Idle, Unmark(s), PublishRelease(s),
           UNCHANGED <<mem, made, file, view, loaded, features, client, reader>>
    PROVE  ShmInv'
  <1>1. /\ job = Idle /\ job'.slot = s /\ job'.bot = None /\ job'.at = 1
        /\ holder[s] # None
        /\ applied' = applied \ {s} /\ abandoned' = abandoned \ {s}
        /\ features' = features
        /\ view' = view /\ mem' = mem /\ reader' = reader /\ loaded' = loaded
    BY DEF Unmark, PublishRelease
  <1>2. \A t \in applied' : t \in Slots /\ t # s /\ holder'[t] = holder[t]
    BY <1>1 DEF ShmInv, TypeOK, Unmark
  <1>3. loaded
    BY <1>1 DEF ShmInv, UnloadedInv
  <1>4. UnloadedInv' /\ HolderInv' /\ JobInv'
    BY <1>1, <1>2, <1>3 DEF ShmInv, UnloadedInv, HolderInv, JobInv, Expected
  <1>5. \A t \in Slots \ {s} : (t \in applied' <=> t \in applied) /\ Expected(t)' = Expected(t)
    BY <1>1, <1>2 DEF Expected
  <1>6. \A t \in Slots \ {s}, n \in 1 .. 3 : Settled(t, n)
    BY <1>1, SharedMemoryAssumption DEF Settled, Idle
  <1>7. \A n \in 1 .. 3 : ~Settled(s, n)'
    BY <1>1 DEF Settled
  <1>8. RegionInv'
    BY <1>1, <1>5, <1>6, <1>7 DEF ShmInv, RegionInv
  <1>9. PingInv'
    <2>1. \A t \in applied' : t \in applied /\ job.slot # t /\ holder'[t] = holder[t]
      BY <1>1, <1>2, SharedMemoryAssumption DEF Idle
    <2> QED
      BY <1>1, <2>1, SameFeatures DEF ShmInv, PingInv
  <1>10. ReaderInv'
    <2>1. \A r, t : ~Pending(r, t)
      BY <1>1 DEF Pending, Idle
    <2> QED
      BY <1>1, <2>1 DEF ShmInv, ReaderInv
  <1> QED
    BY <1>4, <1>8, <1>9, <1>10 DEF ShmInv

(***************************************************************************)
(* A release that finds no client changes no entry: its slot's, if it was  *)
(* disguised, is whole and abandoned, and otherwise says what it did.      *)
(***************************************************************************)
LEMMA AbandonKeeps ==
    ASSUME ShmInv, NEW s \in Slots, RestoreIdentity(s), NoClient(s), TypeOK'
    PROVE  ShmInv'
  <1>1. /\ job = Idle /\ job' = Idle
        /\ holder[s] # None
        /\ applied' = applied \ {s}
        /\ abandoned' = abandoned \cup ({s} \cap applied)
        /\ features' = features
        /\ view' = view /\ mem' = mem /\ reader' = reader /\ loaded' = loaded
    BY DEF RestoreIdentity, Unmark
  <1>2. \A t \in Slots \ {s} : holder'[t] = holder[t]
    BY DEF ShmInv, TypeOK, RestoreIdentity, Unmark
  <1>3. loaded
    BY <1>1 DEF ShmInv, UnloadedInv
  <1>4. \A t \in applied' : t \in Slots /\ t # s /\ t \in applied
    BY <1>1 DEF ShmInv, TypeOK
  <1>5. UnloadedInv' /\ HolderInv'
    BY <1>1, <1>2, <1>3, <1>4 DEF ShmInv, UnloadedInv, HolderInv
  <1>6. JobInv'
    BY <1>1, SharedMemoryAssumption DEF JobInv, Idle
  <1>7. \A t \in Slots, n \in 1 .. 3 : Settled(t, n)
    BY <1>1, SharedMemoryAssumption DEF Settled, Idle
  <1>8. RegionInv'
    <2> SUFFICES ASSUME view # 0, NEW t \in Slots
                 PROVE  LET e == mem[view][t]
                        IN  IF t \in abandoned'
                            THEN (e.state <=> e.sid # None) /\ e.name = e.sid
                            ELSE /\ e.state <=> t \in applied'
                                 /\ e.sid = Expected(t)'
                                 /\ e.name = Expected(t)'
      BY <1>1 DEF RegionInv
    <2> DEFINE e == mem[view][t]
    <2>1. IF t \in abandoned
          THEN (e.state <=> e.sid # None) /\ e.name = e.sid
          ELSE (e.state <=> t \in applied) /\ e.sid = Expected(t) /\ e.name = Expected(t)
      BY <1>7 DEF ShmInv, RegionInv
    <2>2. t \in applied => Expected(t) # None
      BY DEF ShmInv, HolderInv, Expected
    <2>3. t \notin applied => Expected(t) = None
      BY DEF Expected
    <2> HIDE DEF e
    <2>4. CASE t \in abandoned'
      BY <1>1, <2>1, <2>2, <2>3, <2>4 DEF e
    <2>5. CASE t \notin abandoned'
      <3>1. t \notin abandoned /\ (t \in applied' <=> t \in applied)
        BY <1>1, <2>5
      <3>2. Expected(t)' = Expected(t)
        BY <1>1, <1>2, <1>4, <3>1 DEF Expected
      <3> QED
        BY <2>1, <2>5, <3>1, <3>2 DEF e
    <2> QED
      BY <2>4, <2>5
  <1>9. PingInv'
    <2>1. \A t \in applied' : job.slot # t /\ holder'[t] = holder[t]
      BY <1>1, <1>2, <1>4, SharedMemoryAssumption DEF Idle
    <2> QED
      BY <1>1, <1>4, <2>1, SameFeatures DEF ShmInv, PingInv
  <1>10. ReaderInv'
    <2>1. \A r, t : ~Pending(r, t)
      BY <1>1 DEF Pending, Idle
    <2> QED
      BY <1>1, <2>1 DEF ShmInv, ReaderInv
  <1> QED
    BY <1>5, <1>6, <1>8, <1>9, <1>10 DEF ShmInv

(***************************************************************************)
(* Whoever connects, and whatever ends a disguise, keeps the invariant.    *)
(***************************************************************************)
LEMMA RestoreKeeps ==
    ASSUME ShmInv, NEW s \in Slots, RestoreIdentity(s) \/ Vacate(s), TypeOK'
    PROVE  ShmInv'
  <1>1. CASE Vacate(s)
    BY <1>1, ReleaseKeeps DEF Vacate
  <1>2. CASE RestoreIdentity(s) /\ NoClient(s)
    BY <1>2, AbandonKeeps
  <1>3. CASE RestoreIdentity(s) /\ ~NoClient(s)
    BY <1>3, ReleaseKeeps DEF RestoreIdentity
  <1> QED
    BY <1>1, <1>2, <1>3

(***************************************************************************)
(* Clients that go or come without a hook's attention change nothing that  *)
(* is published, nor who holds what.                                       *)
(***************************************************************************)
LEMMA ClientsKeep ==
    ASSUME ShmInv, ServerLost \/ \E s \in Slots : HltvConnects(s), TypeOK'
    PROVE  ShmInv'
  <1>1. /\ mem' = mem /\ view' = view /\ holder' = holder /\ applied' = applied
        /\ abandoned' = abandoned /\ features' = features /\ loaded' = loaded
        /\ job' = job /\ reader' = reader
    BY DEF ServerLost, HltvConnects
  <1>2. loaded
    BY DEF ServerLost, HltvConnects, ShmInv, UnloadedInv
  <1>3. UnloadedInv' /\ HolderInv' /\ JobInv' /\ RegionInv' /\ ReaderInv'
    BY <1>1, <1>2 DEF ShmInv, UnloadedInv, HolderInv, JobInv, RegionInv, ReaderInv,
                      Pending, Settled, Expected
  <1>4. PingInv'
    BY <1>1, SameFeatures DEF ShmInv, PingInv
  <1> QED
    BY <1>3, <1>4 DEF ShmInv

(***************************************************************************)
(* Without a mapping the publisher only counts its stores.                 *)
(***************************************************************************)
LEMMA UnmappedStoreKeeps ==
    ASSUME ShmInv, Store, view = 0, TypeOK'
    PROVE  ShmInv'
  <1>1. /\ mem' = mem /\ view' = 0 /\ holder' = holder /\ applied' = applied
        /\ abandoned' = abandoned /\ loaded' = loaded /\ reader' = reader /\ job # Idle
        /\ job' = Idle \/ job' = [job EXCEPT !.at = @ + 1]
    BY DEF Store
  <1>2. loaded
    BY <1>1 DEF ShmInv, UnloadedInv
  <1>3. UnloadedInv' /\ HolderInv' /\ RegionInv' /\ PingInv'
    BY <1>1, <1>2 DEF ShmInv, UnloadedInv, HolderInv, RegionInv, PingInv
  <1>4. job'.slot \in Slots => job'.slot = job.slot /\ job'.bot = job.bot
    BY <1>1, SharedMemoryAssumption DEF ShmInv, TypeOK, Idle
  <1>5. JobInv'
    BY <1>1, <1>4 DEF ShmInv, JobInv, Expected
  <1>6. ReaderInv'
    <2> SUFFICES ASSUME reader.slot \in Slots, reader.at >= 2
                 PROVE  ReaderInv'
      BY <1>1 DEF ReaderInv
    <2>1. reader.region # 0
      BY SharedMemoryAssumption DEF ShmInv, TypeOK, NoSnapshot
    <2>2. ~Pending(reader.region, reader.slot)
      BY <2>1 DEF Pending
    <2> QED
      BY <1>1, <2>2 DEF ShmInv, ReaderInv
  <1> QED
    BY <1>3, <1>5, <1>6 DEF ShmInv

(***************************************************************************)
(* A store settles its own field.  What a reader has of the entry is then  *)
(* to be dropped, or was read before the adoption bumped the incarnation:  *)
(* the store of a release finds the slot marked empty already.             *)
(***************************************************************************)
LEMMA StoreKeeps ==
    ASSUME ShmInv, Store, view # 0, TypeOK'
    PROVE  ShmInv'
  <1>0. PICK s \in Slots, n \in 1 .. 5, b \in Bots \cup {None} :
           s = job.slot /\ n = job.at /\ b = job.bot
    BY StoreEffect DEF ShmInv
  <1>1. /\ TypeOK
        /\ view \in Regions
        /\ b = None => n <= 3
        /\ job' = IF n = (IF b = None THEN 3 ELSE 5) THEN Idle ELSE [job EXCEPT !.at = @ + 1]
    BY <1>0, StoreEffect DEF ShmInv
  <1>2. PICK d \in Stored(mem[view][s], Stores(b)[n], b) :
           /\ d \in Entry
           /\ \A r \in Regions, t \in Slots :
                 mem'[r][t] = IF r = view /\ t = s THEN d ELSE mem[r][t]
    BY <1>0, StoreEffect DEF ShmInv
  <1> DEFINE e == mem[view][s]
  <1>3. e \in Entry
    BY <1>1 DEF TypeOK
  <1>4. /\ IF n = 1 THEN d.state <=> b # None ELSE d.state = e.state
        /\ d.sid = IF n = 2 THEN b ELSE e.sid
        /\ d.name = IF n = 3 THEN b ELSE e.name
        /\ d.inc = IF n = 4 THEN e.inc + 1 ELSE e.inc
        /\ n = 5 => Chosen(d.ping, b) \/ (d.ping = e.ping /\ MayHaveNone(b))
        /\ n # 5 => d.ping = e.ping
    BY <1>1, <1>2, <1>3, StoredEntry
  <1>5. /\ view' = view /\ holder' = holder /\ applied' = applied
        /\ abandoned' = abandoned /\ features' = features /\ loaded' = loaded /\ reader' = reader /\ job # Idle
    BY DEF Store
  <1>6. b = Expected(s) /\ (b # None <=> s \in applied) /\ s \notin abandoned
    BY <1>0 DEF ShmInv, JobInv, HolderInv, Expected
  <1>7. \/ job' = Idle /\ (n = 5 \/ (n = 3 /\ b = None))
        \/ /\ job'.slot = s /\ job'.bot = b /\ job'.at = n + 1
           /\ n < 5
    <2>1. job \in [slot : Slots, bot : Bots \cup {None}, at : 1 .. 5]
      BY <1>0, <1>1, <1>5 DEF TypeOK
    <2> QED
      BY <1>0, <1>1, <2>1
  <1> HIDE DEF e
  <1>8. UnloadedInv' /\ HolderInv'
    BY <1>5 DEF ShmInv, UnloadedInv, HolderInv
  <1>9. JobInv'
    BY <1>5, <1>6, <1>7, SharedMemoryAssumption DEF JobInv, Expected, Idle
  <1>10. ASSUME NEW t \in Slots, t # s
         PROVE  /\ \A k : Settled(t, k) /\ Settled(t, k)'
                /\ mem'[view][t] = mem[view][t]
    BY <1>0, <1>1, <1>2, <1>7, <1>10, SharedMemoryAssumption DEF Settled, Idle
  <1>11. \A k \in 1 .. 3 : Settled(s, k)' => k <= n /\ (Settled(s, k) <=> k # n)
    BY <1>0, <1>1, <1>7 DEF Settled
  <1>12. RegionInv'
    <2> SUFFICES ASSUME NEW t \in Slots
                 PROVE  LET f == mem'[view][t]
                        IN  IF t \in abandoned
                            THEN (f.state <=> f.sid # None) /\ f.name = f.sid
                            ELSE /\ Settled(t, 1)' => (f.state <=> t \in applied)
                                 /\ Settled(t, 2)' => f.sid = Expected(t)
                                 /\ Settled(t, 3)' => f.name = Expected(t)
      BY <1>5 DEF RegionInv, Expected
    <2>1. CASE t # s
      BY <1>10, <2>1 DEF ShmInv, RegionInv
    <2>2. CASE t = s
      <3>1. mem'[view][t] = d
        BY <1>1, <1>2, <2>2
      <3>2. /\ Settled(s, 1) => (e.state <=> s \in applied)
            /\ Settled(s, 2) => e.sid = Expected(s)
            /\ Settled(s, 3) => e.name = Expected(s)
        BY <1>1, <1>6 DEF ShmInv, RegionInv, e
      <3>3. Settled(s, 1)' => (d.state <=> s \in applied)
        BY <1>1, <1>4, <1>6, <1>11, <3>2
      <3>4. Settled(s, 2)' => d.sid = Expected(s)
        BY <1>1, <1>4, <1>6, <1>11, <3>2
      <3>5. Settled(s, 3)' => d.name = Expected(s)
        BY <1>1, <1>4, <1>6, <1>11, <3>2
      <3> QED
        BY <1>6, <2>2, <3>1, <3>3, <3>4, <3>5
    <2> QED
      BY <2>1, <2>2
  <1>13. PingInv'
    <2>1. \A t \in Slots : mem[view][t].ping = 0 \/ \E c \in Bots : Chosen(mem[view][t].ping, c)
      BY <1>1, SharedMemoryAssumption DEF ShmInv, PingInv, TypeOK, Regions
    <2>2. \A t \in Slots : mem'[view][t].ping = 0 \/ \E c \in Bots : Chosen(mem'[view][t].ping, c)
      <3> SUFFICES ASSUME NEW t \in Slots
                   PROVE  mem'[view][t].ping = 0 \/ \E c \in Bots : Chosen(mem'[view][t].ping, c)
        OBVIOUS
      <3>1. CASE t # s
        BY <1>10, <2>1, <3>1
      <3>2. CASE t = s
        <4>1. mem'[view][t] = d
          BY <1>1, <1>2, <3>2
        <4>2. e.ping = 0 \/ \E c \in Bots : Chosen(e.ping, c)
          BY <2>1 DEF e
        <4>3. n = 5 => b \in Bots
          BY <1>1
        <4> QED
          BY <1>4, <4>1, <4>2, <4>3
      <3> QED
        BY <3>1, <3>2
    <2>3. ASSUME NEW t \in applied, job'.slot # t
          PROVE  Chosen(mem'[view][t].ping, holder[t]) \/ MayHaveNone(holder[t])
      <3>1. t \in Slots
        BY DEF ShmInv, TypeOK
      <3>2. CASE t # s
        <4>1. Chosen(mem[view][t].ping, holder[t]) \/ MayHaveNone(holder[t])
          BY <1>0, <1>1, <3>1, <3>2, SharedMemoryAssumption DEF ShmInv, PingInv, TypeOK, Regions
        <4> QED
          BY <1>10, <3>1, <3>2, <4>1
      <3>3. CASE t = s
        <4>1. n = 5 /\ b = holder[t]
          BY <1>6, <1>7, <2>3, <3>3 DEF Expected
        <4>2. mem'[view][t] = d
          BY <1>1, <1>2, <3>3
        <4> QED
          BY <1>4, <4>1, <4>2
      <3> QED
        BY <3>2, <3>3
    <2> QED
      BY <1>5, <2>2, <2>3, SameFeatures DEF PingInv
  <1>14. ReaderInv'
    <2> SUFFICES ASSUME reader.slot \in Slots, reader.at >= 2
                 PROVE  LET f == mem'[reader.region][reader.slot]
                        IN  /\ reader.inc <= f.inc
                            /\ f.state /\ f.inc = reader.inc
                                  /\ ~Pending(reader.region, reader.slot)' =>
                                  /\ reader.at >= 3 => reader.sid = f.sid
                                  /\ reader.at >= 4 => reader.name = f.name
      BY <1>5 DEF ReaderInv
    <2>1. reader.region \in Regions /\ reader.inc \in Nat
      <3>1. reader # NoSnapshot
        BY SharedMemoryAssumption DEF NoSnapshot
      <3>2. reader.region \in 1 .. made /\ reader.inc \in Nat
        BY <1>1, <3>1 DEF TypeOK
      <3> QED
        BY <1>1, <3>2, SharedMemoryAssumption DEF TypeOK, Regions
    <2>2. CASE ~(reader.region = view /\ reader.slot = s)
      <3>1. mem'[reader.region][reader.slot] = mem[reader.region][reader.slot]
        BY <1>2, <2>1, <2>2
      <3>2. ~Pending(reader.region, reader.slot)
        BY <1>0, <2>2 DEF Pending
      <3> QED
        BY <3>1, <3>2 DEF ShmInv, ReaderInv
    <2>3. CASE reader.region = view /\ reader.slot = s
      <3>1. mem'[reader.region][reader.slot] = d
        BY <1>1, <1>2, <2>3
      <3>2. /\ reader.inc <= e.inc
            /\ e.state /\ e.inc = reader.inc /\ ~Pending(view, s) =>
                  /\ reader.at >= 3 => reader.sid = e.sid
                  /\ reader.at >= 4 => reader.name = e.name
        BY <2>3 DEF ShmInv, ReaderInv, e
      <3>3. e.inc \in Nat /\ reader.inc <= d.inc
        BY <1>3, <1>4, <2>1, <3>2 DEF Entry
      <3>4. CASE b = None
        <4>1. ~d.state
          <5>1. n # 1 => Settled(s, 1)
            BY <1>0, <1>1 DEF Settled
          <5>2. Settled(s, 1) => ~e.state
            BY <1>1, <1>6, <3>4 DEF ShmInv, RegionInv, e
          <5> QED
            BY <1>4, <3>4, <5>1, <5>2
        <4> QED
          BY <3>1, <3>3, <4>1
      <3>5. CASE b # None /\ n <= 3
        <4>1. Pending(reader.region, reader.slot)'
          BY <1>1, <1>5, <1>7, <2>3, <3>5 DEF Pending
        <4> QED
          BY <3>1, <3>3, <4>1
      <3>6. CASE n = 4
        <4>1. d.inc # reader.inc
          BY <1>4, <2>1, <3>2, <3>3, <3>6
        <4> QED
          BY <3>1, <3>3, <4>1
      <3>7. CASE n = 5
        <4>1. ~Pending(view, s)
          BY <1>0, <3>7 DEF Pending
        <4> QED
          BY <1>4, <3>1, <3>2, <3>3, <3>7, <4>1
      <3> QED
        BY <1>1, <3>4, <3>5, <3>6, <3>7
    <2> QED
      BY <2>2, <2>3
  <1> QED
    BY <1>8, <1>9, <1>12, <1>13, <1>14 DEF ShmInv

(***************************************************************************)
(* The jitter says nothing of who holds a slot.                            *)
(***************************************************************************)
LEMMA JitterKeeps == ASSUME ShmInv, JitterPings, TypeOK' PROVE ShmInv'
  <1>1. /\ view # 0 /\ view' = view /\ holder' = holder /\ applied' = applied
        /\ abandoned' = abandoned /\ gone' = gone /\ features' = features
        /\ loaded' = loaded /\ reader' = reader /\ job = Idle /\ job' = job
    BY DEF JitterPings
  <1>2. /\ view \in Regions
        /\ \A r \in Regions, s \in Slots :
              /\ mem'[r][s].state = mem[r][s].state
              /\ mem'[r][s].sid = mem[r][s].sid
              /\ mem'[r][s].name = mem[r][s].name
              /\ mem'[r][s].inc = mem[r][s].inc
        /\ \A s \in Slots : IF s \in Jittered
                            THEN Chosen(mem'[view][s].ping, holder[s])
                            ELSE mem'[view][s].ping = mem[view][s].ping
    BY JitterEffect DEF ShmInv
  <1>3. UnloadedInv' /\ HolderInv' /\ JobInv'
    BY <1>1 DEF ShmInv, UnloadedInv, HolderInv, JobInv, Expected
  <1>4. RegionInv'
    <2>1. \A k : \A s \in Slots : Settled(s, k)' = Settled(s, k) /\ Expected(s)' = Expected(s)
      BY <1>1 DEF Settled, Expected
    <2> QED
      BY <1>1, <1>2, <2>1 DEF ShmInv, RegionInv
  <1>5. PingInv'
    <2>1. \A s \in Jittered : holder[s] \in Bots
      BY DEF ShmInv, TypeOK, Jittered
    <2>2. \A s \in applied : s \in Slots
      BY DEF ShmInv, TypeOK
    <2> QED
      BY <1>1, <1>2, <2>1, <2>2, SameFeatures DEF ShmInv, PingInv
  <1>6. ReaderInv'
    <2> SUFFICES ASSUME reader.slot \in Slots, reader.at >= 2
                 PROVE  ReaderInv'
      BY <1>1 DEF ReaderInv
    <2>1. reader.region \in Regions
      BY SharedMemoryAssumption DEF ShmInv, TypeOK, NoSnapshot, Regions
    <2>2. Pending(reader.region, reader.slot)' = Pending(reader.region, reader.slot)
      BY <1>1 DEF Pending
    <2> QED
      BY <1>1, <1>2, <2>1, <2>2 DEF ShmInv, ReaderInv
  <1> QED
    BY <1>3, <1>4, <1>5, <1>6 DEF ShmInv

(***************************************************************************)
(* A reader's step changes nothing but the reader.                         *)
(***************************************************************************)
LEMMA ReaderKeeps == ASSUME ShmInv, ReaderStep, TypeOK' PROVE ShmInv'
  <1>1. /\ mem' = mem /\ view' = view /\ holder' = holder /\ applied' = applied
        /\ abandoned' = abandoned /\ gone' = gone /\ features' = features
        /\ loaded' = loaded /\ job' = job
    BY DEF ReaderStep, TryConnect, Dispose, GetManagedSlots, GetManagedBotSnapshots
  <1>2. UnloadedInv' /\ HolderInv' /\ JobInv'
    BY <1>1 DEF ShmInv, UnloadedInv, HolderInv, JobInv, Expected
  <1>3. RegionInv' /\ PingInv'
    BY <1>1, SameFeatures DEF ShmInv, RegionInv, PingInv, Settled, Expected
  <1>4. ReaderInv'
    <2>1. \A r, s : Pending(r, s)' = Pending(r, s)
      BY <1>1 DEF Pending
    <2>2. CASE reader' = reader
      BY <1>1, <2>1, <2>2 DEF ShmInv, ReaderInv
    <2>3. CASE reader' = NoSnapshot
      BY <2>3, SharedMemoryAssumption DEF ReaderInv, NoSnapshot
    <2>4. ASSUME NEW s \in Slots, GetManagedSlots(s) PROVE ReaderInv'
      BY <2>4 DEF ReaderInv, GetManagedSlots
    <2>5. CASE GetManagedBotSnapshots
      <3> DEFINE e == mem[reader.region][reader.slot]
      <3>1. /\ reader.slot \in Slots
            /\ e \in Entry
            /\ reader.at \in 1 .. 3
            /\ reader'.slot = reader.slot
            /\ reader'.region = reader.region
            /\ reader'.at = reader.at + 1
            /\ reader'.inc = IF reader.at = 1 THEN e.inc ELSE reader.inc
            /\ reader'.sid = IF reader.at = 2 THEN e.sid ELSE reader.sid
            /\ reader'.name = IF reader.at = 3 THEN e.name ELSE reader.name
        BY <2>5, SnapshotEffect DEF ShmInv
      <3>2. e.inc \in Nat
        BY <3>1 DEF Entry
      <3>3. reader.at >= 2 =>
               /\ reader.inc <= e.inc
               /\ e.state /\ e.inc = reader.inc /\ ~Pending(reader.region, reader.slot) =>
                     /\ reader.at >= 3 => reader.sid = e.sid
                     /\ reader.at >= 4 => reader.name = e.name
        BY <3>1 DEF ShmInv, ReaderInv
      <3>4. mem'[reader'.region][reader'.slot] = e
        BY <1>1, <3>1
      <3> HIDE DEF e
      <3> QED
        BY <2>1, <3>1, <3>2, <3>3, <3>4 DEF ReaderInv
    <2> QED
      BY <2>2, <2>3, <2>4, <2>5 DEF ReaderStep, TryConnect, Dispose
  <1> QED
    BY <1>2, <1>3, <1>4 DEF ShmInv

-----------------------------------------------------------------------------
(* Theorems                                                                *)

(***************************************************************************)
(* ShmInv is inductive: it holds at the start, and no step of either side  *)
(* and no end of the process breaks it.                                    *)
(***************************************************************************)
THEOREM ShmInvariant == Spec => []ShmInv
  <1>1. Init => ShmInv
    <2> SUFFICES ASSUME Init PROVE ShmInv
      OBVIOUS
    <2>1. TypeOK
      BY InitTypeOK
    <2>2. UnloadedInv /\ HolderInv /\ RegionInv /\ PingInv
      BY DEF Init, UnloadedInv, HolderInv, RegionInv, PingInv
    <2>3. JobInv /\ ReaderInv
      BY SharedMemoryAssumption DEF Init, JobInv, ReaderInv, Idle, NoSnapshot
    <2> QED
      BY <2>1, <2>2, <2>3 DEF ShmInv
  <1>2. ShmInv /\ [Next]_vars => ShmInv'
    <2> SUFFICES ASSUME ShmInv, [Next]_vars PROVE ShmInv'
      OBVIOUS
    <2>1. TypeOK'
      BY NextKeepsType DEF ShmInv
    <2>2. CASE Load
      BY <2>1, <2>2, LoadKeeps
    <2>3. CASE LoadWithoutRegion
      <3>1. /\ mem' = mem /\ view' = view /\ holder' = holder /\ applied' = applied
            /\ abandoned' = abandoned /\ view = 0 /\ job' = job /\ reader' = reader
        BY <2>3 DEF LoadWithoutRegion, ShmInv, UnloadedInv
      <3>2. UnloadedInv'
        BY <2>3 DEF LoadWithoutRegion, UnloadedInv
      <3>3. HolderInv' /\ JobInv' /\ RegionInv' /\ PingInv' /\ ReaderInv'
        BY <3>1 DEF ShmInv, HolderInv, JobInv, RegionInv, PingInv, ReaderInv,
                    Pending, Settled, Expected
      <3> QED
        BY <2>1, <3>2, <3>3 DEF ShmInv
    <2>4. CASE Unload
      BY <2>1, <2>4, UnloadKeeps
    <2>5. CASE \E s \in Slots, b \in Bots : Mark(s, b)
      BY <2>1, <2>5, MarkKeeps
    <2>6. CASE \E s \in Slots : ApplyDisguise(s) \/ Vacate(s) \/ RestoreIdentity(s)
      BY <2>1, <2>6, ApplyKeeps, RestoreKeeps
    <2>7. CASE Store
      BY <2>1, <2>7, StoreKeeps, UnmappedStoreKeeps
    <2>8. CASE JitterPings
      BY <2>1, <2>8, JitterKeeps
    <2>9. CASE ReaderStep
      BY <2>1, <2>9, ReaderKeeps
    <2>10. CASE ProcessEnds
      BY <2>1, <2>10, ProcessEndsKeeps
    <2>11. CASE UNCHANGED vars
      BY <2>1, <2>11, SameFeatures
      DEF vars, ShmInv, UnloadedInv, HolderInv, JobInv, RegionInv,
          PingInv, ReaderInv, Pending, Settled, Expected
    <2>12. CASE ServerLost \/ \E s \in Slots : HltvConnects(s)
      BY <2>1, <2>12, ClientsKeep
    <2> QED
      BY <2>2, <2>3, <2>4, <2>5, <2>6, <2>7, <2>8, <2>9, <2>10, <2>11, <2>12
      DEF Next, NativeStep
  <1> QED
    BY <1>1, <1>2, PTL DEF Spec

(***************************************************************************)
(* Between hooks the region names the identity of every disguised slot and *)
(* of no other, whatever ended, was unloaded or was left over before, but  *)
(* for the entries of slots that were given up when they had no client     *)
(* (InitSharedMemory, PublishAdopt, PublishRelease, RestoreIdentity).      *)
(***************************************************************************)
THEOREM RegionIsRight == Spec => []RegionTellsHolders
  <1>1. ShmInv => RegionTellsHolders
    <2> SUFFICES ASSUME ShmInv, view # 0, job = Idle PROVE RegionTellsHolders
      BY DEF RegionTellsHolders
    <2>1. \A n : \A s \in Slots : Settled(s, n)
      BY SharedMemoryAssumption DEF Settled, Idle
    <2>2. \A s \in Slots : s \in applied => holder[s] # None /\ s \notin abandoned
      BY DEF ShmInv, HolderInv
    <2> QED
      BY <2>1, <2>2 DEF ShmInv, RegionInv, RegionTellsHolders, Expected
  <1> QED
    BY <1>1, ShmInvariant, PTL

(***************************************************************************)
(* The ping published for a disguised slot was chosen for its holder,      *)
(* unless none may have been (PublishPing, and the jitter of               *)
(* GameFrame_Post): then it is none, or was chosen for some bot.           *)
(***************************************************************************)
THEOREM PingsAreHolders == Spec => []PingIsHolders
  <1>1. ShmInv => PingIsHolders
    <2> SUFFICES ASSUME ShmInv, view # 0, job = Idle PROVE PingIsHolders
      BY DEF PingIsHolders
    <2>1. \A s \in applied : s \in Slots /\ job.slot # s
      BY SharedMemoryAssumption DEF ShmInv, TypeOK, Idle
    <2> QED
      BY <2>1 DEF ShmInv, PingInv, PingIsHolders, MayHaveNone
  <1> QED
    BY <1>1, ShmInvariant, PTL

(***************************************************************************)
(* A snapshot read without a lock, between any stores, is right if its     *)
(* incarnation is confirmed between hooks (GetManagedBotSnapshots,         *)
(* IsManagedBotIncarnation).                                               *)
(***************************************************************************)
THEOREM ConfirmedSnapshotsAreRight == Spec => []ConfirmedSnapshotIsRight
  <1>1. ShmInv => ConfirmedSnapshotIsRight
    <2> SUFFICES ASSUME ShmInv, reader.at = 4, job = Idle,
                        reader.region = client, reader.region = view,
                        IsManagedBotIncarnation(reader.slot, reader.inc)
                 PROVE  LET e == mem[client][reader.slot]
                        IN  reader.sid = e.sid /\ reader.name = e.name /\ e.sid # None
      BY DEF ConfirmedSnapshotIsRight
    <2>1. reader.slot \in Slots /\ view # 0
      BY SharedMemoryAssumption DEF ShmInv, TypeOK, NoSnapshot
    <2>2. ~Pending(reader.region, reader.slot)
      BY <2>1, SharedMemoryAssumption DEF Pending, Idle
    <2>3. \A n : Settled(reader.slot, n)
      BY <2>1, SharedMemoryAssumption DEF Settled, Idle
    <2>4. mem[view][reader.slot].sid # None
      BY <2>1, <2>3, SMTT(30) DEF ShmInv, RegionInv, HolderInv, Expected, IsManagedBotIncarnation
    <2> QED
      BY <2>1, <2>2, <2>4 DEF ShmInv, ReaderInv, IsManagedBotIncarnation
  <1> QED
    BY <1>1, ShmInvariant, PTL

=============================================================================
