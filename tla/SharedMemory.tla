---------------------------- MODULE SharedMemory ----------------------------
(***************************************************************************)
(* /dev/shm/CS2BotHider_Slots between its writer and its reader: the       *)
(* native plugin's publisher (src/src/shm_pub.cpp), which owns the region  *)
(* from InitSharedMemory to ShutdownSharedMemory, and the C# plugin's      *)
(* SharedMemoryClient, which maps whatever region the name leads to.       *)
(*                                                                         *)
(* Nothing locks the region.  A hook of the native plugin publishes with   *)
(* one store per field, and a consumer of botidentity:api that is not on   *)
(* the game's thread reads between any two of them, one load per field.    *)
(* Loading, unloading and the end of the process come between hooks; the   *)
(* last also in the middle of one.                                         *)
(*                                                                         *)
(* A SteamID64 and a persona name are represented by the identity they are *)
(* of.  BotIdentity says when the hooks adopt and release, and what comes  *)
(* of an identity that two slots hold; here a slot's disguise is its own.  *)
(* Of a lost server only what the hooks meet later is modelled: slots that *)
(* hold an identity and have no client.                                    *)
(***************************************************************************)
EXTENDS Integers, Sequences

CONSTANTS
    Slots,
    Bots,             \* identities
    None,             \* no identity, no slot
    PingOf,           \* the "ping" of an identity in the list, 0 for none
    FeatureSets,      \* the PluginFeatures config.json may hold at a load
    MayUnload,        \* is the native plugin ever unloaded and loaded again?
    MaxRegions,       \* bound: regions created
    MaxIncarnation    \* bound: adoptions of one slot in any two regions

\* What of them is about pings.  LoadFeatures clamps none of the numbers.
PluginFeatures == [ enableFakePing : BOOLEAN, fakePingMin : Int, fakePingMax : Int,
                    pingJitterPercent : Int ]

ASSUME SharedMemoryAssumption ==
    /\ None \notin Bots \cup Slots
    /\ PingOf \in [Bots -> Int]
    /\ FeatureSets \subseteq PluginFeatures
    /\ MayUnload \in BOOLEAN
    /\ MaxRegions \in Nat
    /\ MaxIncarnation \in Nat

VARIABLES
    mem,        \* the regions, the unlinked ones as well
    made,       \* how many were created
    file,       \* the region /dev/shm/CS2BotHider_Slots leads to, 0: none
    view,       \* s_ShmView, 0: nullptr
    loaded,     \* is the native plugin loaded?
    features,   \* BotInfoManager::m_Features
    holder,     \* IdentityManager: the identity a slot holds
    applied,    \* the slots whose identity is applied
    gone,       \* the slots that hold an identity and have no client
    abandoned,  \* history: the slots whose entry was not released when they were
    job,        \* the publication in progress: its next store
    client,     \* SharedMemoryClient._view, 0: null
    reader      \* a consumer's snapshot of one slot and its next load

vars == <<mem, made, file, view, loaded, features, holder, applied, gone, abandoned,
          job, client, reader>>

Regions == 1 .. MaxRegions

Entry == [ state : BOOLEAN, sid : Bots \cup {None}, name : Bots \cup {None},
           inc : Nat, ping : Nat ]

Zeroed == [s \in Slots |-> [state |-> FALSE, sid |-> None, name |-> None,
                            inc |-> 0, ping |-> 0]]

\* Mutant: the incarnation is bumped before the identity is published.
BumpFirst == <<"inc", "state", "sid", "name", "ping">>

\* The stores of PublishAdopt, BumpIncarnation and PublishPing, and of PublishRelease.
AdoptStores == <<"state", "sid", "name", "inc", "ping">>

ReleaseStores == <<"state", "sid", "name">>

\* The loads of GetManagedBotSnapshots for one slot, after GetManagedSlots.
SnapshotLoads == <<"inc", "sid", "name">>

Idle == [slot |-> None, bot |-> None, at |-> 0]

DefaultFeatures == [enableFakePing |-> TRUE, fakePingMin |-> 20, fakePingMax |-> 90,
                    pingJitterPercent |-> 30]

NoSnapshot == [slot |-> None, region |-> 0, at |-> 0, inc |-> 0,
               sid |-> None, name |-> None]

TypeOK ==
    /\ mem \in [Regions -> [Slots -> Entry]]
    /\ made \in 0 .. MaxRegions
    /\ {file, view, client} \subseteq 0 .. made
    /\ loaded \in BOOLEAN
    /\ holder \in [Slots -> Bots \cup {None}]
    /\ features \in FeatureSets \cup {DefaultFeatures}
    /\ {applied, gone, abandoned} \subseteq SUBSET Slots
    /\ \/ job = Idle
       \/ job \in [slot : Slots, bot : Bots, at : 1 .. 5]
       \/ job \in [slot : Slots, bot : {None}, at : 1 .. 3]
    /\ \/ reader = NoSnapshot
       \/ reader \in [slot : Slots, region : 1 .. made, at : 1 .. 4, inc : Nat,
                      sid : Bots \cup {None}, name : Bots \cup {None}]

Init ==
    /\ mem = [r \in Regions |-> Zeroed]
    /\ made = 0
    /\ file = 0
    /\ view = 0
    /\ loaded = FALSE
    /\ features = DefaultFeatures
    /\ holder = [s \in Slots |-> None]
    /\ applied = {}
    /\ gone = {}
    /\ abandoned = {}
    /\ job = Idle
    /\ client = 0
    /\ reader = NoSnapshot

-----------------------------------------------------------------------------
(* Pings                                                                   *)

\* PickFakePing: an identity's own ping counts at connect only below the range.
PickFakePing(b) ==
    LET low == features.fakePingMin
        high == features.fakePingMax
    IN  IF ~features.enableFakePing THEN {0}
        ELSE IF PingOf[b] > 0 /\ PingOf[b] < low THEN {PingOf[b]}
        ELSE IF high <= low THEN {low}
        ELSE low .. high

JitterRange(base) ==
    LET pct == IF features.pingJitterPercent > 0 THEN features.pingJitterPercent ELSE 30
        r == (base * pct) \div 100
    IN  IF r < 2 THEN 2 ELSE r

\* Mutant: the jitter is not clamped.
Unclamped(p) == p

Clamp(p) == IF p < 5 THEN 5 ELSE IF p > 250 THEN 250 ELSE p

Jitter(b) == {Clamp(PingOf[b] + d) : d \in -JitterRange(PingOf[b]) .. JitterRange(PingOf[b])}

-----------------------------------------------------------------------------
(* The native plugin                                                       *)

\* Mutant: a region that exists is mapped as it is.
RegionReused == file # 0

\* InitSharedMemory does not look into a region that exists: it unlinks it.
RegionKept == FALSE

InitSharedMemory ==
    IF RegionKept
    THEN view' = file /\ UNCHANGED <<mem, made, file>>
    ELSE /\ made < MaxRegions
         /\ made' = made + 1
         /\ file' = made + 1
         /\ view' = made + 1
         /\ mem' = [mem EXCEPT ![made + 1] = Zeroed]

Load ==
    /\ ~loaded
    /\ loaded' = TRUE
    /\ features' \in FeatureSets
    /\ InitSharedMemory
    /\ UNCHANGED <<holder, applied, gone, abandoned, job, client, reader>>

\* "shared memory init failed": after the old name was unlinked, or before.
LoadWithoutRegion ==
    /\ ~loaded
    /\ loaded' = TRUE
    /\ features' \in FeatureSets
    /\ file' \in {file, 0}
    /\ UNCHANGED <<mem, made, view, holder, applied, gone, abandoned, job, client, reader>>

\* What is left of the plugin's own memory when it is loaded no more.
Forgotten ==
    /\ loaded' = FALSE
    /\ view' = 0
    /\ features' = DefaultFeatures
    /\ holder' = [s \in Slots |-> None]
    /\ applied' = {}
    /\ gone' = {}
    /\ abandoned' = {}

\* Unload forgets who is hosted, and unmaps the region without a word in it.
Unload ==
    /\ MayUnload
    /\ loaded
    /\ job = Idle
    /\ Forgotten
    /\ UNCHANGED <<mem, made, file, job, client, reader>>

\* The server's process ends, at any point.  The name outlives it.
ProcessEnds ==
    /\ Forgotten
    /\ job' = Idle
    /\ client' = 0
    /\ reader' = NoSnapshot
    /\ UNCHANGED <<mem, made, file>>

\* The game server goes, with every client of it, and no hook is called.
ServerLost ==
    /\ loaded
    /\ job = Idle
    /\ gone' = {s \in Slots : holder[s] # None}
    /\ UNCHANGED <<mem, made, file, view, loaded, features, holder, applied, abandoned,
                   job, client, reader>>

\* An HLTV connects in such a slot: the hook passes it over, but it is a client.
HltvConnects(s) ==
    /\ s \in gone
    /\ job = Idle
    /\ gone' = gone \ {s}
    /\ UNCHANGED <<mem, made, file, view, loaded, features, holder, applied, abandoned,
                   job, client, reader>>

\* A free slot gets an identity; its disguise may have to wait for a window to close.
Mark(s, b) ==
    /\ loaded
    /\ job = Idle
    /\ holder[s] = None
    /\ holder' = [holder EXCEPT ![s] = b]
    /\ UNCHANGED <<mem, made, file, view, loaded, features, applied, gone, abandoned,
                   job, client, reader>>

\* ApplyDisguise, up to its first store.
ApplyDisguise(s) ==
    /\ job = Idle
    /\ holder[s] # None
    /\ s \notin applied \cup gone
    /\ view # 0 => \A r \in Regions :
          (IF r = view THEN 0 ELSE mem[r][s].inc) + mem[view][s].inc < MaxIncarnation
    /\ applied' = applied \cup {s}
    /\ abandoned' = abandoned \ {s}
    /\ job' = [slot |-> s, bot |-> holder[s], at |-> 1]
    /\ UNCHANGED <<mem, made, file, view, loaded, features, holder, gone, client, reader>>

\* IdentityManager::Unmark.
Unmark(s) ==
    /\ holder[s] # None
    /\ holder' = [holder EXCEPT ![s] = None]
    /\ applied' = applied \ {s}
    /\ gone' = gone \ {s}

\* PublishRelease, up to its first store.
PublishRelease(s) ==
    /\ job' = [slot |-> s, bot |-> None, at |-> 1]
    /\ abandoned' = abandoned \ {s}

\* Whoever connects in a slot that holds an identity ends that at once.
Vacate(s) ==
    /\ job = Idle
    /\ Unmark(s)
    /\ PublishRelease(s)
    /\ UNCHANGED <<mem, made, file, view, loaded, features, client, reader>>

\* ResolveClientBySlot finds nobody, and RestoreIdentity returns.
NoClient(s) == s \in gone

\* A disconnect, or the suspension of a map: RestoreIdentity and Unmark.
RestoreIdentity(s) ==
    /\ job = Idle
    /\ Unmark(s)
    /\ IF NoClient(s)
       THEN abandoned' = abandoned \cup ({s} \cap applied) /\ job' = Idle
       ELSE PublishRelease(s)
    /\ UNCHANGED <<mem, made, file, view, loaded, features, client, reader>>

Stores(b) == IF b = None THEN ReleaseStores ELSE AdoptStores

\* Mutant: an identity with a ping of its own is left to the jitter.
PublishOwnLater(b, old) == IF PingOf[b] > 0 THEN {old} ELSE PickFakePing(b)

\* ApplyDisguise publishes a ping only if it is positive: the last bot's may stay.
PublishPing(b, old) == {IF p > 0 THEN p ELSE old : p \in PickFakePing(b)}

\* What one store may leave of the entry e.
Stored(e, field, b) ==
    CASE field = "state" -> {[e EXCEPT !.state = (b # None)]}
      [] field = "sid"   -> {[e EXCEPT !.sid = b]}
      [] field = "name"  -> {[e EXCEPT !.name = b]}
      [] field = "inc"   -> {[e EXCEPT !.inc = @ + 1]}
      [] field = "ping"  -> {[e EXCEPT !.ping = p] : p \in PublishPing(b, e.ping)}

\* Without a mapping every publisher returns at once.
Store ==
    /\ job # Idle
    /\ IF view = 0
       THEN mem' = mem
       ELSE \E e \in Stored(mem[view][job.slot], Stores(job.bot)[job.at], job.bot) :
               mem' = [mem EXCEPT ![view][job.slot] = e]
    /\ job' = IF job.at = Len(Stores(job.bot)) THEN Idle ELSE [job EXCEPT !.at = @ + 1]
    /\ UNCHANGED <<made, file, view, loaded, features, holder, applied, gone, abandoned,
                   client, reader>>

\* The slots whose ping GameFrame_Post jitters every 30 s, disguised yet or not.
Jittered == {s \in Slots : holder[s] # None /\ PingOf[holder[s]] > 0}

JitterPings ==
    /\ job = Idle
    /\ view # 0
    /\ features.enableFakePing
    /\ Jittered # {}
    /\ \E p \in [Jittered -> UNION {Jitter(holder[s]) : s \in Jittered}] :
          /\ \A s \in Jittered : p[s] \in Jitter(holder[s])
          /\ mem' = [mem EXCEPT ![view] =
                        [s \in Slots |-> IF s \in Jittered
                                         THEN [@[s] EXCEPT !.ping = p[s]]
                                         ELSE @[s]]]
    /\ UNCHANGED <<made, file, view, loaded, features, holder, applied, gone, abandoned,
                   job, client, reader>>

-----------------------------------------------------------------------------
(* The C# plugin and a consumer of its API                                 *)

\* TryConnect: at load, and from any call as long as there is no view.
TryConnect ==
    /\ client = 0
    /\ file # 0
    /\ client' = file
    /\ UNCHANGED <<mem, made, file, view, loaded, features, holder, applied, gone, abandoned,
                   job, reader>>

\* Unload disposes of the view; a snapshot that was complete stays with its consumer.
Dispose ==
    /\ client # 0
    /\ client' = 0
    /\ reader' = IF reader.at = 4 THEN reader ELSE NoSnapshot
    /\ UNCHANGED <<mem, made, file, view, loaded, features, holder, applied, gone, abandoned,
                   job>>

GetManagedSlots(s) ==
    /\ client # 0
    /\ mem[client][s].state
    /\ reader' = [slot |-> s, region |-> client, at |-> 1, inc |-> 0,
                  sid |-> None, name |-> None]
    /\ UNCHANGED <<mem, made, file, view, loaded, features, holder, applied, gone, abandoned,
                   job, client>>

\* The snapshot r after the load of one field of the entry e.
WithField(r, field, e) ==
    CASE field = "inc"  -> [r EXCEPT !.inc = e.inc, !.at = @ + 1]
      [] field = "sid"  -> [r EXCEPT !.sid = e.sid, !.at = @ + 1]
      [] field = "name" -> [r EXCEPT !.name = e.name, !.at = @ + 1]

GetManagedBotSnapshots ==
    /\ reader.slot # None
    /\ reader.at <= 3
    /\ reader' = WithField(reader, SnapshotLoads[reader.at], mem[reader.region][reader.slot])
    /\ UNCHANGED <<mem, made, file, view, loaded, features, holder, applied, gone, abandoned,
                   job, client>>

IsManagedBotIncarnation(s, inc) == mem[client][s].state /\ mem[client][s].inc = inc

-----------------------------------------------------------------------------
NativeStep ==
    \/ Load
    \/ LoadWithoutRegion
    \/ Unload
    \/ ServerLost
    \/ \E s \in Slots : HltvConnects(s)
    \/ \E s \in Slots, b \in Bots : Mark(s, b)
    \/ \E s \in Slots : ApplyDisguise(s) \/ Vacate(s) \/ RestoreIdentity(s)
    \/ Store
    \/ JitterPings

ReaderStep ==
    \/ TryConnect
    \/ Dispose
    \/ \E s \in Slots : GetManagedSlots(s)
    \/ GetManagedBotSnapshots

Next == NativeStep \/ ReaderStep \/ ProcessEnds

Spec == Init /\ [][Next]_vars

-----------------------------------------------------------------------------
(* Properties                                                              *)

(***************************************************************************)
(* Between hooks the region names the identity of every disguised slot,    *)
(* SteamID and name both, and nothing in any other: nothing is left of the *)
(* slot's last bot, of a process that ended, or of a store not made.       *)
(* Except where RestoreIdentity found no client: a disguised slot whose    *)
(* bot went with a lost server gives up its identity, but its entry goes   *)
(* on naming one, until the slot is disguised or released the next time.   *)
(***************************************************************************)
RegionTellsHolders ==
    view # 0 /\ job = Idle =>
        \A s \in Slots :
            LET e == mem[view][s]
            IN  /\ e.state <=> e.sid # None
                /\ e.name = e.sid
                /\ \/ e.sid = (IF s \in applied THEN holder[s] ELSE None)
                   \/ s \in abandoned \ applied

(***************************************************************************)
(* A snapshot whose fields were read between stores, by a thread that      *)
(* waits for nobody, is right if IsManagedBotIncarnation confirms it       *)
(* between hooks: its SteamID and its name are the ones the slot's entry   *)
(* has now ("Consumers must re-validate slot+incarnation pairs").  It      *)
(* rests on the incarnation being the last of the identity's stores and    *)
(* the first of the loads.  What an entry says that RegionTellsHolders     *)
(* excepts, it confirms too.                                               *)
(* It holds of the region that is published to: another one's incarnations *)
(* start at 0 again and confirm nothing, and one that a process left in    *)
(* the middle of a store stays as it is.                                   *)
(***************************************************************************)
ConfirmedSnapshotIsRight ==
    reader.at = 4 /\ job = Idle /\ reader.region \in {client} \cap {view} =>
        LET e == mem[client][reader.slot]
        IN  IsManagedBotIncarnation(reader.slot, reader.inc) =>
                reader.sid = e.sid /\ reader.name = e.name /\ e.sid # None

\* A ping that was chosen for the identity b.
Chosen(p, b) ==
    /\ features.enableFakePing
    /\ p > 0
    /\ \/ p = features.fakePingMin
       \/ p \in features.fakePingMin .. features.fakePingMax
       \/ p = PingOf[b]
       \/ /\ PingOf[b] > 0
          /\ p \in 5 .. 250
          /\ \/ p \in {5, 250}
             \/ p - PingOf[b] <= JitterRange(PingOf[b])
                /\ PingOf[b] - p <= JitterRange(PingOf[b])

(***************************************************************************)
(* The ping published for a disguised slot was chosen for the bot that     *)
(* holds it, not for the slot's last one, though PublishRelease leaves the *)
(* last one's there: it is in the range, the bot's own, or within the      *)
(* jitter and 5 .. 250.  Except where ApplyDisguise may have had none to   *)
(* publish (fake pings disabled, or a range that reaches 0 or below): then *)
(* it is none, or one that was chosen for a bot that held the slot before. *)
(***************************************************************************)
PingIsHolders ==
    view # 0 /\ job = Idle =>
        \A s \in applied :
            LET p == mem[view][s].ping
            IN  \/ Chosen(p, holder[s])
                \/ /\ \E q \in PickFakePing(holder[s]) : q <= 0
                   /\ p = 0 \/ \E b \in Bots : Chosen(p, b)

=============================================================================
