------------------------- MODULE BotIdentityProofs --------------------------
(***************************************************************************)
(* Proofs about the hooks, for every list of identities and every number   *)
(* of slots.  First the type invariant, one lemma per operator and per     *)
(* handler; then that the slot table and the identities agree, no two      *)
(* leased identities clash, every SteamID64 on a client is its own, and so *)
(* no two clients carry one: on a server that is never lost, or with a     *)
(* list long enough that no identity is taken back from a marked slot.     *)
(* Last, what is left of the two tables' agreement where one is.           *)
(***************************************************************************)
EXTENDS BotIdentityProperties, TLAPS

-----------------------------------------------------------------------------
(* The registry                                                            *)

(***************************************************************************)
(* Releasing slots leaves a registry (IdentityManager::Unmark).            *)
(***************************************************************************)
LEMMA UnmarkType ==
    ASSUME NEW r \in Registry, NEW S \in SUBSET Slots
    PROVE  Unmark(r, S) \in Registry
  BY DEF Unmark, Registry

(***************************************************************************)
(* Marking a slot leaves a registry (IdentityManager::Mark).               *)
(***************************************************************************)
LEMMA MarkType ==
    ASSUME NEW r \in Registry, NEW s \in Slots, NEW b \in Bots
    PROVE  Mark(r, s, b) \in Registry
  BY DEF Mark, Registry

(***************************************************************************)
(* Handing out an identity again leaves a registry (ResetForReuse).        *)
(***************************************************************************)
LEMMA ResetForReuseType ==
    ASSUME NEW r \in Registry, NEW b \in Bots
    PROVE  ResetForReuse(r, b) \in Registry
  BY DEF ResetForReuse, Registry

(***************************************************************************)
(* Recording disguises of managed slots leaves a registry (ApplyDisguise). *)
(***************************************************************************)
LEMMA RecordDisguiseType ==
    ASSUME NEW r \in Registry, NEW called \in SUBSET Slots,
           NEW done \in SUBSET ManagedSlots(r)
    PROVE  RecordDisguise(r, called, done) \in Registry
  <1>1. \A b \in Bots : (IF \E s \in Slots : LastCall(r, called, b, s)
                         THEN CHOOSE s \in Slots : LastCall(r, called, b, s)
                         ELSE r.slot[b]) \in Slots \cup {None}
    BY DEF Registry
  <1>2. {r.m_Slots[s] : s \in done} \subseteq Bots
    BY DEF ManagedSlots, IsManaged, Registry
  <1> QED BY <1>1, <1>2 DEF RecordDisguise, Registry

(***************************************************************************)
(* What a connecting slot finds (Hook_OnClientConnected_Post).             *)
(***************************************************************************)
LEMMA VacatedType ==
    ASSUME TypeOK, NEW s \in Slots
    PROVE  /\ VacatedRegistry(s) \in Registry
           /\ VacatedShm(s) \in [Slots -> ShmEntry]
           /\ VacatedWindow(s) \in Window
  <1>1. VacatedRegistry(s) \in Registry
    BY UnmarkType DEF VacatedRegistry, TypeOK
  <1>2. VacatedShm(s) \in [Slots -> ShmEntry]
    BY DEF VacatedShm, PublishRelease, ShmEntry, TypeOK
  <1>3. NoSnapshot \in Snapshot
    BY DEF NoSnapshot, Snapshot, SteamIds
  <1>4. VacatedWindow(s) \in Window
    BY <1>3 DEF VacatedWindow, ResetSlot, Window, TypeOK
  <1> QED BY <1>1, <1>2, <1>4

(***************************************************************************)
(* GetFree returns identities.                                             *)
(***************************************************************************)
LEMMA GetFreeType ==
    ASSUME NEW r, NEW active
    PROVE  GetFree(r, active) \subseteq Bots
  BY DEF GetFree, FreeBots, StaleBots

-----------------------------------------------------------------------------
(* Clients and the window                                                  *)

(***************************************************************************)
(* Writing native or player markers leaves a client.                       *)
(***************************************************************************)
LEMMA MarkersType ==
    ASSUME NEW c \in Client, NEW sid \in SteamIds, NEW w \in BOOLEAN
    PROVE  /\ NativeMarkers(c, w) \in Client
           /\ PlayerMarkers(c, sid, w) \in Client
  <1>1. 0 \in SteamIds
    BY DEF SteamIds
  <1>2. NativeMarkers(c, w) \in Client
    BY <1>1 DEF NativeMarkers, SetCtrl, Client
  <1>3. PlayerMarkers(c, sid, w) \in Client
    BY DEF PlayerMarkers, SetCtrl, Client
  <1> QED BY <1>2, <1>3

(***************************************************************************)
(* A reset window is a window (ResetVoteTransaction).                      *)
(***************************************************************************)
LEMMA ClosedWindowType == ClosedWindow \in Window
  BY DEF ClosedWindow, NoSnapshot, Window, Snapshot, SteamIds

(***************************************************************************)
(* Ending a window leaves a window (TickVoteTransaction's end).            *)
(***************************************************************************)
LEMMA EndWindowType ==
    ASSUME NEW w \in Window
    PROVE  EndWindow(w) \in Window
  BY DEF EndWindow, NoSnapshot, Window, Snapshot, SteamIds

(***************************************************************************)
(* A scheduled hold is a positive number of frames, whatever was asked     *)
(* for (ScheduleVoteTransactionEnd's clamp).                               *)
(***************************************************************************)
LEMMA ScheduleEndType ==
    ASSUME NEW w \in Window, NEW frames \in Int
    PROVE  ScheduleEnd(w, frames) \in Window
  BY DEF ScheduleEnd, VoteTransactionActive, Window

(***************************************************************************)
(* Opening a window, or one inside another, leaves a window and clients    *)
(* (BeginVoteTransaction, BeginVoteTransactionForSlot).                    *)
(***************************************************************************)
LEMMA BeginType ==
    ASSUME NEW w \in Window, NEW S \in SUBSET Slots, NEW valid \in BOOLEAN,
           NEW c \in [Slots -> Client], NEW sv \in Nat
    PROVE  /\ BeginWindow(w, S, valid, c, sv) \in Window
           /\ BeginMarkers(w, S, c) \in [Slots -> Client]
  <1>1. \A s \in Slots : CaptureOne(c[s], sv) \in Snapshot
    BY DEF CaptureOne, Snapshot, Client
  <1>2. NoSnapshot \in Snapshot
    BY DEF NoSnapshot, Snapshot, SteamIds
  <1>3. BeginWindow(w, S, valid, c, sv) \in Window
    <2> DEFINE captured == [s \in Slots |-> IF s \in S THEN CaptureOne(c[s], sv) ELSE NoSnapshot]
    <2>1. captured \in [Slots -> Snapshot]
      BY <1>1, <1>2
    <2>2. CASE VoteTransactionActive(w)
      BY <2>2 DEF BeginWindow, Window
    <2>3. CASE ~VoteTransactionActive(w)
      <3>1. BeginWindow(w, S, valid, c, sv)
              = [w EXCEPT !.depth = 1, !.valid = valid, !.snap = captured]
        BY <2>3 DEF BeginWindow
      <3>2. BeginWindow(w, S, valid, c, sv)
              = [depth |-> 1, hold |-> w.hold, valid |-> valid, snap |-> captured]
        BY <3>1 DEF Window
      <3> HIDE DEF captured
      <3> QED BY <3>2, <2>1 DEF Window
    <2> QED BY <2>2, <2>3
  <1>4. \A s \in Slots : NativeMarkers(c[s], TRUE) \in Client
    BY MarkersType DEF SteamIds
  <1>5. BeginMarkers(w, S, c) \in [Slots -> Client]
    BY <1>4 DEF BeginMarkers
  <1> QED BY <1>3, <1>5

(***************************************************************************)
(* A hold tick's and a restore's writes leave clients                      *)
(* (ReassertNativeVoteMarkers, RestorePlayerIdentity).                     *)
(***************************************************************************)
LEMMA HoldMarkersType ==
    ASSUME NEW w \in Window, NEW S, NEW c \in [Slots -> Client]
    PROVE  /\ ReassertMarkers(w, S, c) \in [Slots -> Client]
           /\ RestoreMarkers(w, S, c) \in [Slots -> Client]
  <1>1. \A s \in Slots : w.snap[s].sscSteamId \in SteamIds /\ w.snap[s].hasController \in BOOLEAN
    BY DEF Window, Snapshot
  <1>2. \A s \in Slots :
           /\ NativeMarkers(c[s], w.snap[s].hasController) \in Client
           /\ PlayerMarkers(c[s], w.snap[s].sscSteamId, w.snap[s].hasController) \in Client
    BY <1>1, MarkersType
  <1> QED BY <1>2 DEF ReassertMarkers, RestoreMarkers

(***************************************************************************)
(* ApplyDisguise for managed slots keeps the registry, the clients and the *)
(* published entries what they are.                                        *)
(***************************************************************************)
LEMMA ApplyDisguiseType ==
    ASSUME NEW r \in Registry, NEW c \in [Slots -> Client],
           NEW e \in [Slots -> ShmEntry],
           NEW P \in SUBSET ManagedSlots(r), NEW deferred \in BOOLEAN,
           ApplyDisguise(P, r, c, e, deferred)
    PROVE  /\ reg' \in Registry
           /\ client' \in [Slots -> Client]
           /\ shm' \in [Slots -> ShmEntry]
  <1> DEFINE done == Disguised(P, r, c, deferred)
  <1>1. done \subseteq P /\ P \subseteq Slots
    BY DEF Disguised, ManagedSlots
  <1>2. \A s \in done : r.m_Slots[s] \in Bots
    BY <1>1 DEF ManagedSlots, IsManaged, Registry
  <1>3. reg' \in Registry
    <2>1. reg' = RecordDisguise(r, Called(P, r, done), done)
      BY DEF ApplyDisguise
    <2>2. Called(P, r, done) \subseteq Slots
      BY <1>1 DEF Called
    <2> QED BY <2>1, <2>2, <1>1, RecordDisguiseType
  <1>4. client' \in [Slots -> Client]
    <2>1. \A s \in done : PlayerMarkers(c[s], SteamIdOf[r.m_Slots[s]], TRUE) \in Client
      BY <1>1, <1>2, MarkersType DEF SteamIds
    <2>2. client' = [s \in Slots |->
                        IF s \in done
                        THEN PlayerMarkers(c[s], SteamIdOf[r.m_Slots[s]], TRUE)
                        ELSE c[s]]
      BY DEF ApplyDisguise
    <2> QED BY <2>1, <2>2
  <1>5. shm' \in [Slots -> ShmEntry]
    <2>1. \A s \in done : PublishAdopt(e[s], r.m_Slots[s]) \in ShmEntry
      BY <1>1, <1>2, PluginAssumption DEF PublishAdopt, ShmEntry
    <2>2. shm' = [s \in Slots |->
                     IF s \in done THEN PublishAdopt(e[s], r.m_Slots[s]) ELSE e[s]]
      BY DEF ApplyDisguise
    <2> QED BY <2>1, <2>2
  <1> QED BY <1>3, <1>4, <1>5

(***************************************************************************)
(* Only managed slots wait for a disguise (ApplyPendingDisguises).         *)
(***************************************************************************)
LEMMA PendingSlotsManaged ==
    ASSUME NEW r
    PROVE  PendingSlots(r) \subseteq ManagedSlots(r)
  BY DEF PendingSlots

(***************************************************************************)
(* The four variables a handler's body writes.                             *)
(***************************************************************************)
CoreTypeOK ==
    /\ reg \in Registry
    /\ client \in [Slots -> Client]
    /\ win \in Window
    /\ shm \in [Slots -> ShmEntry]

(***************************************************************************)
(* Closing the window: TickVoteTransaction's end, ForceEndVoteTransaction. *)
(***************************************************************************)
LEMMA CloseWindowType ==
    ASSUME TypeOK, CloseWindow
    PROVE  CoreTypeOK'
  <1> DEFINE restored == RestoreMarkers(win, Touchable(win, reg, server.id, Present(client)), client)
  <1>1. win' \in Window
    BY EndWindowType DEF CloseWindow, TypeOK
  <1>2. CASE win.valid
    <2>1. restored \in [Slots -> Client]
      BY HoldMarkersType DEF TypeOK
    <2>2. ApplyDisguise(PendingSlots(reg), reg, restored, shm, FALSE)
      BY <1>2 DEF CloseWindow, RestorePlayerIdentity
    <2> HIDE DEF restored
    <2> QED BY <1>1, <2>1, <2>2, ApplyDisguiseType, PendingSlotsManaged DEF TypeOK, CoreTypeOK
  <1>3. CASE ~win.valid
    BY <1>1, <1>3 DEF CloseWindow, RestorePlayerIdentity, TypeOK, CoreTypeOK
  <1> QED BY <1>2, <1>3

(***************************************************************************)
(* Releasing every managed slot keeps the types (ReleaseManagedSlots).     *)
(***************************************************************************)
LEMMA ReleaseManagedSlotsType ==
    ASSUME TypeOK, ReleaseManagedSlots
    PROVE  CoreTypeOK'
  <1>1. reg' \in Registry
    BY UnmarkType DEF ReleaseManagedSlots, ManagedSlots, TypeOK
  <1>2. client' \in [Slots -> Client]
    <2>1. \A s \in Slots : NativeMarkers(client[s], TRUE) \in Client
      BY MarkersType DEF TypeOK, SteamIds
    <2> QED BY <2>1 DEF ReleaseManagedSlots, TypeOK
  <1>3. shm' \in [Slots -> ShmEntry]
    BY DEF ReleaseManagedSlots, PublishRelease, ShmEntry, TypeOK
  <1> QED BY <1>1, <1>2, <1>3, ClosedWindowType DEF ReleaseManagedSlots, CoreTypeOK

GateNames == Maps \cup Addons \cup {NoMap}

GateState == [map : GateNames, suspended : BOOLEAN]

(***************************************************************************)
(* The gate's state after any map name (ApplyMapGate).                     *)
(***************************************************************************)
LEMMA ApplyMapGateType ==
    ASSUME NEW g \in GateState, NEW m \in GateNames
    PROVE  ApplyMapGate(g, m) \in GateState
  BY DEF ApplyMapGate, GateState

(***************************************************************************)
(* The live map's name is a map, an addon or empty (BuildMapIdentity).     *)
(***************************************************************************)
LEMMA BuildMapIdentityType ==
    ASSUME NEW sv \in [up : BOOLEAN, map : Maps \cup {NoMap}, addon : Addons \cup {NoMap}, id : Nat]
    PROVE  BuildMapIdentity(sv) \in GateNames
  BY DEF BuildMapIdentity, GateNames

(***************************************************************************)
(* A pass through the map gate, given that what runs when it releases      *)
(* nothing keeps the types.                                                *)
(***************************************************************************)
LEMMA PassGateType ==
    ASSUME TypeOK, NEW first \in GateNames, NEW second \in GateNames, NEW otherwise,
           PassGate(first, second, otherwise), otherwise => CoreTypeOK'
    PROVE  CoreTypeOK' /\ gate' \in GateState
  <1>1. gate \in GateState
    BY DEF TypeOK, GateState, GateNames
  <1>2. gate' \in GateState
    BY <1>1, ApplyMapGateType DEF PassGate
  <1>3. ReleaseManagedSlots => CoreTypeOK'
    BY ReleaseManagedSlotsType
  <1>4. CoreTypeOK'
    BY <1>3 DEF PassGate
  <1> QED BY <1>2, <1>4

-----------------------------------------------------------------------------
(* Each handler keeps the types                                            *)

(***************************************************************************)
(* Hook_OnClientConnected_Post, whichever way it returns.                  *)
(***************************************************************************)
LEMMA ConnectType ==
    ASSUME TypeOK, NEW s \in Slots,
           \/ HltvConnects(s)
           \/ \E who \in {"bot", "human"} : ClientIgnored(s, who)
           \/ BotConnects(s)
    PROVE  TypeOK'
  <1>1. ASSUME NEW who \in {"bot", "human", "hltv"}, NEW c \in Arrivals(s, who)
        PROVE  c \in [Slots -> Client]
    <2>1. PICK ctrl \in {EngineFlag(who), "none"} : c = [client EXCEPT ![s] = Arrival(who, ctrl)]
      BY DEF Arrivals
    <2>2. Arrival(who, ctrl) \in Client
      BY DEF Arrival, EngineFlag, Client, SteamIds
    <2> QED BY <2>1, <2>2 DEF TypeOK
  <1>2. CASE HltvConnects(s)
    BY <1>1, <1>2 DEF HltvConnects, TypeOK
  <1>3. ASSUME NEW who \in {"bot", "human"}, ClientIgnored(s, who)
        PROVE  TypeOK'
    BY <1>1, <1>3, VacatedType DEF ClientIgnored, TypeOK
  <1>4. CASE BotConnects(s)
    <2>1. PICK b \in Candidates(s), c \in Arrivals(s, "bot") :
             ApplyDisguise({s}, Mark(ResetForReuse(VacatedRegistry(s), b), s, b), c,
                           VacatedShm(s), Active)
      BY <1>4 DEF BotConnects
    <2> DEFINE r == Mark(ResetForReuse(VacatedRegistry(s), b), s, b)
    <2>2. b \in Bots
      BY <2>1, GetFreeType DEF Candidates
    <2>3. r \in Registry /\ r.m_Slots[s] = b
      <3>1. ResetForReuse(VacatedRegistry(s), b) \in Registry
        BY <2>2, VacatedType, ResetForReuseType
      <3> HIDE DEF VacatedRegistry
      <3>2. r \in Registry
        BY <2>2, <3>1, MarkType
      <3>3. r.m_Slots[s] = b
        BY <3>1 DEF Mark, Registry
      <3> QED BY <3>2, <3>3
    <2>4. {s} \in SUBSET ManagedSlots(r)
      BY <2>2, <2>3 DEF ManagedSlots, IsManaged, Bots, None
    <2>5. c \in [Slots -> Client]
      BY <1>1, <2>1
    <2>6. Active \in BOOLEAN
      BY DEF Active, VoteTransactionActive
    <2>7. ApplyDisguise({s}, r, c, VacatedShm(s), Active)
      BY <2>1
    <2>8. VacatedShm(s) \in [Slots -> ShmEntry]
      BY VacatedType
    <2> HIDE DEF r
    <2>9. reg' \in Registry /\ client' \in [Slots -> Client] /\ shm' \in [Slots -> ShmEntry]
      BY <2>3, <2>4, <2>5, <2>6, <2>7, <2>8, ApplyDisguiseType
    <2> QED BY <1>4, <2>9, VacatedType DEF BotConnects, TypeOK
  <1> QED BY <1>2, <1>3, <1>4

(***************************************************************************)
(* The other calls the engine makes about a client.                        *)
(***************************************************************************)
LEMMA ClientCallType ==
    ASSUME TypeOK, NEW s \in Slots, ClientCall(s)
    PROVE  TypeOK'
  <1>1. CASE ControllerSpawns(s)
    <2>1. [client[s] EXCEPT !.ctrl = EngineFlag(client[s].who)] \in Client
      BY DEF TypeOK, EngineFlag, Client
    <2> QED BY <1>1, <2>1 DEF ControllerSpawns, TypeOK
  <1>2. CASE ClientPutInServer(s)
    <2> DEFINE P == IF Suspended THEN {} ELSE PendingSlots(reg) \cap {s}
               c == [client EXCEPT ![s].inGame = TRUE]
    <2>1. P \in SUBSET ManagedSlots(reg)
      BY PendingSlotsManaged
    <2>2. c \in [Slots -> Client]
      <3>1. [client[s] EXCEPT !.inGame = TRUE] \in Client
        BY DEF TypeOK, Client
      <3> QED BY <3>1 DEF TypeOK
    <2>3. ApplyDisguise(P, reg, c, shm, Active)
      BY <1>2 DEF ClientPutInServer
    <2>4. Active \in BOOLEAN
      BY DEF Active, VoteTransactionActive
    <2>5. reg \in Registry /\ shm \in [Slots -> ShmEntry]
      BY DEF TypeOK
    <2> HIDE DEF P, c
    <2>6. reg' \in Registry /\ client' \in [Slots -> Client] /\ shm' \in [Slots -> ShmEntry]
      BY <2>1, <2>2, <2>3, <2>4, <2>5, ApplyDisguiseType
    <2> QED BY <1>2, <2>6 DEF ClientPutInServer, TypeOK
  <1>3. CASE ClientDisconnect(s)
    <2>1. NoClient \in Client
      BY DEF NoClient, Client, SteamIds
    <2> QED BY <1>3, <2>1, VacatedType DEF ClientDisconnect, TypeOK
  <1>4. CASE SteamIdReappears(s)
    <2>1. win.snap[s].sscSteamId \in SteamIds /\ client[s] \in Client
      BY DEF TypeOK, Window, Snapshot
    <2>2. [client[s] EXCEPT !.sid = win.snap[s].sscSteamId] \in Client
      BY <2>1 DEF Client
    <2> QED BY <1>4, <2>2 DEF SteamIdReappears, TypeOK
  <1> QED BY <1>1, <1>2, <1>3, <1>4, ConnectType DEF ClientCall

(***************************************************************************)
(* TickVoteTransaction, in each of its returns.                            *)
(***************************************************************************)
LEMMA TickType ==
    ASSUME TypeOK, TickVoteTransaction
    PROVE  CoreTypeOK'
  <1>1. CASE UNCHANGED <<reg, client, win, shm>>
    BY <1>1 DEF TypeOK, CoreTypeOK
  <1>2. CASE win' = ClosedWindow /\ UNCHANGED <<reg, client, shm>>
    BY <1>2, ClosedWindowType DEF TypeOK, CoreTypeOK
  <1>3. CASE win.hold > 1 /\ HoldTick
    <2>1. client' \in [Slots -> Client]
      BY <1>3, HoldMarkersType DEF HoldTick, TypeOK
    <2>2. win' \in Window
      BY <1>3 DEF HoldTick, TypeOK, Window
    <2> QED BY <1>3, <2>1, <2>2 DEF HoldTick, TypeOK, CoreTypeOK
  <1>4. CASE CloseWindow
    BY <1>4, CloseWindowType
  <1> QED BY <1>1, <1>2, <1>3, <1>4 DEF TickVoteTransaction

(***************************************************************************)
(* OnLevelInit, the map commands and the loss of the game server.          *)
(***************************************************************************)
LEMMA EngineEventType ==
    ASSUME TypeOK, EngineEvent
    PROVE  TypeOK'
  <1> USE DEF GateNames, GateState
  <1>1. ASSUME NEW m \in Maps, NEW addon \in Addons \cup {NoMap}, LevelInit(m, addon)
        PROVE  TypeOK'
    <2>1. server' \in [up : BOOLEAN, map : Maps \cup {NoMap}, addon : Addons \cup {NoMap}, id : Nat]
      BY <1>1 DEF LevelInit, TypeOK
    <2>2. BuildMapIdentity(server') \in GateNames
      BY <2>1, BuildMapIdentityType
    <2>3. PICK name \in {m, NoMap} :
             PassGate(name, BuildMapIdentity(server'), UNCHANGED <<reg, client, win, shm>>)
      BY <1>1 DEF LevelInit
    <2>4. name \in GateNames
      OBVIOUS
    <2>5. UNCHANGED <<reg, client, win, shm>> => CoreTypeOK'
      BY DEF TypeOK, CoreTypeOK
    <2>6. CoreTypeOK' /\ gate' \in GateState
      BY <2>2, <2>3, <2>4, <2>5, PassGateType
    <2> QED BY <1>1, <2>1, <2>6 DEF LevelInit, TypeOK, CoreTypeOK
  <1>2. ASSUME NEW m \in Maps, MapNameArrives(m)
        PROVE  TypeOK'
    BY <1>2 DEF MapNameArrives, TypeOK
  <1>3. ASSUME NEW arg \in Maps \cup Addons \cup {NoMap}, MapCommand(arg)
        PROVE  TypeOK'
    <2> DEFINE hint == IF arg \in Blacklisted THEN arg ELSE NoMap
    <2>1. hint \in GateNames
      OBVIOUS
    <2>2. BuildMapIdentity(server) \in GateNames
      BY BuildMapIdentityType DEF TypeOK
    <2>3. PassGate(hint, BuildMapIdentity(server), UNCHANGED <<reg, client, win, shm>>)
      BY <1>3 DEF MapCommand
    <2>4. UNCHANGED <<reg, client, win, shm>> => CoreTypeOK'
      BY DEF TypeOK, CoreTypeOK
    <2>5. CoreTypeOK' /\ gate' \in GateState
      BY <2>1, <2>2, <2>3, <2>4, PassGateType
    <2> QED BY <1>3, <2>5 DEF MapCommand, TypeOK, CoreTypeOK
  <1>4. CASE ServerGone
    <2>1. NoClient \in Client
      BY DEF NoClient, Client, SteamIds
    <2> QED BY <1>4, <2>1 DEF ServerGone, TypeOK
  <1>5. CASE ServerBack
    BY <1>5 DEF ServerBack, TypeOK
  <1> QED BY <1>1, <1>2, <1>3, <1>4, <1>5 DEF EngineEvent

(***************************************************************************)
(* Hook_GameFrame_Post.                                                    *)
(***************************************************************************)
LEMMA FrameType ==
    ASSUME TypeOK, GameFramePost
    PROVE  TypeOK'
  <1> DEFINE id == BuildMapIdentity(server)
             hosted == IF ApplyMapGate(gate, id).suspended
                       THEN UNCHANGED <<reg, client, win, shm>>
                       ELSE TickVoteTransaction
  <1>1. id \in GateNames /\ NoMap \in GateNames
    BY BuildMapIdentityType DEF TypeOK, GateNames
  <1>2. hosted => CoreTypeOK'
    BY TickType DEF TypeOK, CoreTypeOK
  <1>3. PassGate(NoMap, id, hosted)
    BY DEF GameFramePost
  <1> HIDE DEF id, hosted
  <1>4. CoreTypeOK' /\ gate' \in GateState
    BY <1>1, <1>2, <1>3, PassGateType
  <1> QED BY <1>4 DEF GameFramePost, GateState, GateNames, TypeOK, CoreTypeOK

-----------------------------------------------------------------------------
(* Console commands                                                        *)

Command == [name : CommandNames, slot : Slots \cup {None}]

(***************************************************************************)
(* A command's Pre hook pushes it on the stack of running commands.        *)
(***************************************************************************)
LEMMA DispatchType ==
    ASSUME TypeOK, NEW name \in CommandNames, NEW slot \in Slots \cup {None},
           Dispatch(name, slot)
    PROVE  cmds' \in Seq(Command)
  <1>1. [name |-> name, slot |-> slot] \in Command
    BY DEF Command
  <1>2. cmds \in Seq(Command)
    BY DEF TypeOK, Command
  <1> HIDE DEF Command
  <1> QED BY <1>1, <1>2 DEF Dispatch

(***************************************************************************)
(* A command's Post hook takes it off the stack.                           *)
(***************************************************************************)
LEMMA ReturnsType ==
    ASSUME TypeOK, NEW names, Returns(names)
    PROVE  cmds' \in Seq(Command)
  <1>1. cmds \in Seq(Command) /\ cmds # <<>>
    BY DEF TypeOK, Command, Returns
  <1>2. Len(cmds) - 1 \in 0 .. Len(cmds)
    BY <1>1
  <1>3. \A i \in 1 .. Len(cmds) - 1 : cmds[i] \in Command
    BY <1>1
  <1>4. SubSeq(cmds, 1, Len(cmds) - 1) \in Seq(Command)
    BY <1>1, <1>2, <1>3
  <1> QED BY <1>4 DEF Returns

(***************************************************************************)
(* BeginVoteTransaction and BeginVoteTransactionForSlot.                   *)
(***************************************************************************)
LEMMA BeginActionType ==
    ASSUME TypeOK, BeginAll \/ \E s \in Slots : BeginForSlot(s)
    PROVE  CoreTypeOK'
  <1>1. PICK S \in SUBSET Slots, valid \in BOOLEAN : Begin(S, valid)
    <2>1. ManagedSlots(reg) \cap Present(client) \in SUBSET Slots
      BY DEF Present
    <2>2. \A s \in Slots : /\ {s} \cap Present(client) \in SUBSET Slots
                          /\ (s \in Present(client)) \in BOOLEAN
      OBVIOUS
    <2> QED BY <2>1, <2>2 DEF BeginAll, BeginForSlot
  <1>2. server.id \in Nat
    BY DEF TypeOK
  <1>3. win' \in Window /\ client' \in [Slots -> Client]
    BY <1>1, <1>2, BeginType DEF Begin, TypeOK
  <1> QED BY <1>1, <1>3 DEF Begin, TypeOK, CoreTypeOK

(***************************************************************************)
(* Hook_DispatchConCommand_Pre.                                            *)
(***************************************************************************)
LEMMA CommandPreType ==
    ASSUME TypeOK, CommandPre
    PROVE  TypeOK'
  <1>1. ASSUME NEW begin, OpenForKick(begin), begin => CoreTypeOK'
        PROVE  CoreTypeOK' /\ popDepth' \in Nat
    BY <1>1 DEF OpenForKick, TypeOK, CoreTypeOK
  <1>2. \A name \in CommandNames, slot \in Slots \cup {None} :
           Dispatch(name, slot) /\ CoreTypeOK' /\ popDepth' \in Nat => TypeOK'
    BY DispatchType DEF Dispatch, TypeOK, CoreTypeOK, Command
  <1>3. CASE CallvotePre
    <2>1. Dispatch("callvote", None) /\ popDepth' \in Nat
      BY <1>3 DEF CallvotePre, TypeOK
    <2> QED BY <1>2, <1>3, <2>1, BeginActionType DEF CallvotePre, CommandNames
  <1>4. CASE KickPre
    <2>1. OpenForKick(BeginAll) /\ Dispatch("kick", None)
      BY <1>4 DEF KickPre
    <2>2. CoreTypeOK' /\ popDepth' \in Nat
      BY <1>1, <2>1, BeginActionType
    <2> QED BY <1>2, <2>1, <2>2 DEF CommandNames
  <1>5. ASSUME NEW s \in Slots, NamedKickPre(s)
        PROVE  TypeOK'
    <2>1. OpenForKick(BeginForSlot(s)) /\ Dispatch("bot_kick name", s)
      BY <1>5 DEF NamedKickPre
    <2>2. CoreTypeOK' /\ popDepth' \in Nat
      BY <1>1, <2>1, BeginActionType
    <2> QED BY <1>2, <2>1, <2>2 DEF CommandNames
  <1>6. CASE UnmatchedKickPre
    <2>1. CoreTypeOK' /\ popDepth' \in Nat
      BY <1>6 DEF UnmatchedKickPre, TypeOK, CoreTypeOK
    <2> QED BY <1>2, <1>6, <2>1 DEF UnmatchedKickPre, CommandNames
  <1>7. CASE BotAddPre
    <2>1. CoreTypeOK'
      BY <1>7, CloseWindowType DEF BotAddPre, TypeOK, CoreTypeOK
    <2>2. popDepth' \in Nat
      BY <1>7 DEF BotAddPre, TypeOK
    <2> QED BY <1>2, <1>7, <2>1, <2>2 DEF BotAddPre, CommandNames
  <1> QED BY <1>3, <1>4, <1>5, <1>6, <1>7 DEF CommandPre

(***************************************************************************)
(* Hook_DispatchConCommand_Post.                                           *)
(***************************************************************************)
LEMMA CommandPostType ==
    ASSUME TypeOK, CommandPost
    PROVE  TypeOK'
  <1> USE DEF Command
  <1>1. \A names : Returns(names) => cmds' \in Seq(Command) /\ UNCHANGED <<gate, server>>
    BY ReturnsType DEF Returns
  <1>2. ScheduleEnd(win, HoldFrames) \in Window
    BY ScheduleEndType, PluginAssumption DEF TypeOK
  <1>3. CASE CallvotePost
    BY <1>1, <1>2, <1>3 DEF CallvotePost, TypeOK
  <1>4. CASE KickPost
    <2>1. popDepth' \in Nat
      <3>1. popDepth \in Nat
        BY DEF TypeOK
      <3>2. DepthAfterKick \in Nat
        BY <3>1 DEF DepthAfterKick
      <3> QED BY <1>4, <3>2 DEF KickPost
    <2>2. win' \in Window
      BY <1>2, <1>4 DEF KickPost, WindowAfterKick, TypeOK
    <2> QED BY <1>1, <1>4, <2>1, <2>2 DEF KickPost, TypeOK
  <1>5. CASE BotAddPost
    <2>1. ApplyDisguise(PendingSlots(reg), reg, client, shm, Active)
      BY <1>5 DEF BotAddPost
    <2>2. PendingSlots(reg) \in SUBSET ManagedSlots(reg) /\ Active \in BOOLEAN
      BY PendingSlotsManaged DEF Active, VoteTransactionActive
    <2>3. reg \in Registry /\ client \in [Slots -> Client] /\ shm \in [Slots -> ShmEntry]
      BY DEF TypeOK
    <2>4. reg' \in Registry /\ client' \in [Slots -> Client] /\ shm' \in [Slots -> ShmEntry]
      BY <2>1, <2>2, <2>3, ApplyDisguiseType
    <2> QED BY <1>1, <1>5, <2>4 DEF BotAddPost, TypeOK
  <1> QED BY <1>3, <1>4, <1>5 DEF CommandPost

-----------------------------------------------------------------------------

(***************************************************************************)
(* The initial state has the declared types.                               *)
(***************************************************************************)
LEMMA InitType == Init => TypeOK
  <1> SUFFICES ASSUME Init
               PROVE  TypeOK
    OBVIOUS
  <1>1. reg \in Registry
    BY DEF Init, EmptyRegistry, Registry
  <1>2. client \in [Slots -> Client]
    BY DEF Init, NoClient, Client, SteamIds
  <1>3. shm \in [Slots -> ShmEntry]
    BY PluginAssumption DEF Init, ShmEntry
  <1> QED BY <1>1, <1>2, <1>3, ClosedWindowType DEF Init, TypeOK

(***************************************************************************)
(* Every handler keeps them.                                               *)
(***************************************************************************)
LEMMA StepType == TypeOK /\ [Next]_vars => TypeOK'
  <1> SUFFICES ASSUME TypeOK, [Next]_vars
               PROVE  TypeOK'
    OBVIOUS
  <1>1. CASE \E s \in Slots : ClientCall(s)
    BY <1>1, ClientCallType
  <1>2. CASE EngineEvent
    BY <1>2, EngineEventType
  <1>3. CASE CommandPre
    BY <1>3, CommandPreType
  <1>4. CASE CommandPost
    BY <1>4, CommandPostType
  <1>5. CASE GameFramePost
    BY <1>5, FrameType
  <1>6. CASE UNCHANGED vars
    BY <1>6 DEF vars, TypeOK
  <1> QED BY <1>1, <1>2, <1>3, <1>4, <1>5, <1>6 DEF Next

(***************************************************************************)
(* The state the hooks share has the type of its declarations in every     *)
(* reachable state; in particular the counters g_VoteDepth,                *)
(* g_HoldFramesRemaining and m_PopulationCommandDepth, unsigned in the     *)
(* code, never go below zero.                                              *)
(***************************************************************************)
THEOREM TypeCorrect == Spec => []TypeOK
  BY InitType, StepType, PTL DEF Spec

-----------------------------------------------------------------------------
(* Ownership                                                               *)

NoLoss == MaxLosses = 0

Consistent(r) == \A s \in Slots, b \in Bots : r.m_Slots[s] = b <=> r.slot[b] = s

Exclusive(r) ==
    \A s, t \in Slots :
        s # t /\ IsManaged(r, s) /\ IsManaged(r, t) =>
            r.m_Slots[s] # r.m_Slots[t] /\ ~Clash(r.m_Slots[s], r.m_Slots[t])

SameServer == server.up /\ server.id = 0

SuspendedUnmanaged == Suspended => ManagedSlots(reg) = {}

ManagedHaveBots == \A s \in Slots : IsManaged(reg, s) => client[s].who = "bot"

AbsentCarryNone == \A s \in Slots : client[s].sid # 0 => client[s].who # "none"

\* The inductive invariant of the pool, whether or not the game server is lost.
Leased ==
    /\ TypeOK
    /\ Consistent(reg)
    /\ Exclusive(reg)
    /\ SteamIdOwned
    /\ AbsentCarryNone
    /\ SuspendedUnmanaged

\* And on a server that is never lost.
Ownership ==
    /\ TypeOK
    /\ SameServer
    /\ Consistent(reg)
    /\ Exclusive(reg)
    /\ ManagedHaveBots
    /\ SteamIdOwned
    /\ SuspendedUnmanaged

\* What a step may do to the leases, and what it must leave true.
LeaseKept ==
    /\ Leased'
    /\ [Lease!Next]_(reg.m_Slots)
    /\ Ownership /\ SameServer' => ManagedHaveBots'

\* No connecting bot is handed the identity of a slot that is still marked.
NoReuse ==
    \A s \in Slots : MayConnect(s) => Candidates(s) \subseteq FreeBots(VacatedRegistry(s))

-----------------------------------------------------------------------------
(* The registry                                                            *)

(***************************************************************************)
(* The invariant's own form of LeasesExclusive (IsAssignable).             *)
(***************************************************************************)
LEMMA ExclusiveIsLeases == LeasesExclusive <=> Exclusive(reg)
  BY DEF LeasesExclusive, Lease!Exclusive, Exclusive, IsManaged

(***************************************************************************)
(* Identities clash in both directions (IsNameInUse, IsSteamIdInUse).      *)
(***************************************************************************)
LEMMA ClashSymmetric == \A b, c \in Bots : Clash(b, c) <=> Clash(c, b)
  BY DEF Clash

(***************************************************************************)
(* A slot is managed exactly if it holds an identity.                      *)
(***************************************************************************)
LEMMA ManagedHoldsBot ==
    ASSUME NEW r \in Registry, NEW s \in Slots
    PROVE  IsManaged(r, s) <=> r.m_Slots[s] \in Bots
  BY PoolAssumption DEF IsManaged, Registry, Bots, None

(***************************************************************************)
(* Unmark keeps the two tables in agreement, and leases exclusive.         *)
(***************************************************************************)
LEMMA UnmarkKeeps ==
    ASSUME NEW r \in Registry, NEW S \in SUBSET Slots, Consistent(r), Exclusive(r)
    PROVE  /\ Consistent(Unmark(r, S))
           /\ Exclusive(Unmark(r, S))
           /\ \A s \in Slots : Unmark(r, S).m_Slots[s] = IF s \in S THEN None ELSE r.m_Slots[s]
  <1> DEFINE q == Unmark(r, S)
  <1>1. \A s \in Slots : q.m_Slots[s] = IF s \in S THEN None ELSE r.m_Slots[s]
    BY DEF Unmark
  <1>2. \A b \in Bots : q.slot[b] = IF b \in {r.m_Slots[s] : s \in S} THEN None ELSE r.slot[b]
    BY DEF Unmark
  <1> HIDE DEF q
  <1>3. Consistent(q)
    <2> SUFFICES ASSUME NEW s \in Slots, NEW b \in Bots
                 PROVE  q.m_Slots[s] = b <=> q.slot[b] = s
      BY DEF Consistent
    <2>1. b # None /\ s # None
      BY PoolAssumption DEF Bots, Slots, None
    <2>2. CASE s \in S
      BY <1>1, <1>2, <2>1, <2>2 DEF Consistent
    <2>3. CASE s \notin S
      <3>1. r.m_Slots[s] = b => b \notin {r.m_Slots[t] : t \in S}
        BY <2>3 DEF Consistent
      <3> QED BY <1>1, <1>2, <2>1, <2>3, <3>1 DEF Consistent
    <2> QED BY <2>2, <2>3
  <1>4. Exclusive(q)
    BY <1>1 DEF Exclusive, IsManaged
  <1> QED BY <1>1, <1>3, <1>4 DEF q

(***************************************************************************)
(* Where the tables agree, ApplyDisguise records in an identity the slot   *)
(* that is recorded there already.                                         *)
(***************************************************************************)
LEMMA RecordKeeps ==
    ASSUME NEW r \in Registry, NEW called \in SUBSET Slots, NEW done, Consistent(r)
    PROVE  /\ RecordDisguise(r, called, done).slot = r.slot
           /\ RecordDisguise(r, called, done).m_Slots = r.m_Slots
  <1> DEFINE slot == [b \in Bots |->
                         IF \E s \in Slots : LastCall(r, called, b, s)
                         THEN CHOOSE s \in Slots : LastCall(r, called, b, s)
                         ELSE r.slot[b]]
  <1>1. RecordDisguise(r, called, done).m_Slots = r.m_Slots
    BY DEF RecordDisguise, Registry
  <1>2. RecordDisguise(r, called, done).slot = slot
    BY DEF RecordDisguise, Registry
  <1>3. \A b \in Bots, s \in Slots : LastCall(r, called, b, s) => s = r.slot[b]
    BY DEF LastCall, Consistent
  <1>4. \A b \in Bots : slot[b] = r.slot[b]
    BY <1>3
  <1>5. slot = r.slot
    BY <1>4 DEF Registry
  <1> QED BY <1>1, <1>2, <1>5

(***************************************************************************)
(* Handing a free identity to a slot without one, and disguising it.       *)
(***************************************************************************)
LEMMA GrantKeeps ==
    ASSUME NEW r \in Registry, NEW s \in Slots, NEW b \in FreeBots(r), NEW done,
           Consistent(r), Exclusive(r), ~IsManaged(r, s)
    PROVE  LET q == RecordDisguise(Mark(r, s, b), {s}, done)
           IN  /\ q.m_Slots = [r.m_Slots EXCEPT ![s] = b]
               /\ Consistent(q)
               /\ Exclusive(q)
               /\ \A t \in Slots \ {s} :
                     IsManaged(r, t) => r.m_Slots[t] # b /\ ~Clash(r.m_Slots[t], b)
  <1> DEFINE q == RecordDisguise(Mark(r, s, b), {s}, done)
  <1>1. b \in Bots /\ r.slot[b] = None /\ IsAssignable(r, b)
    BY DEF FreeBots
  <1>2. b # None /\ \A t \in Slots : t # None
    BY <1>1, PoolAssumption DEF Bots, Slots, None
  <1>3. q.m_Slots = [r.m_Slots EXCEPT ![s] = b]
    BY DEF RecordDisguise, Mark, Registry
  <1>4. \A c \in Bots : q.slot[c] = IF c = b THEN s ELSE r.slot[c]
    <2> DEFINE m == Mark(r, s, b)
    <2>1. m.slot = r.slot /\ m.m_Slots[s] = b
      BY DEF Mark, Registry
    <2>2. \A c \in Bots, t \in Slots : LastCall(m, {s}, c, t) <=> t = s /\ c = b
      <3>1. s <= s
        BY PoolAssumption DEF Slots
      <3> QED BY <2>1, <3>1 DEF LastCall
    <2> DEFINE slot == [c \in Bots |->
                           IF \E t \in Slots : LastCall(m, {s}, c, t)
                           THEN CHOOSE t \in Slots : LastCall(m, {s}, c, t)
                           ELSE m.slot[c]]
    <2>3. q.slot = slot
      BY DEF RecordDisguise, Mark, Registry
    <2> HIDE DEF m
    <2>4. \A c \in Bots : slot[c] = IF c = b THEN s ELSE r.slot[c]
      BY <2>1, <2>2
    <2> HIDE DEF slot
    <2> QED BY <2>3, <2>4
  <1> HIDE DEF q
  <1>5. \A t \in Slots : r.m_Slots[t] # b
    BY <1>1, <1>2 DEF Consistent
  <1>6. \A t \in Slots : q.m_Slots[t] = IF t = s THEN b ELSE r.m_Slots[t]
    BY <1>3 DEF Registry
  <1>7. Consistent(q)
    <2> SUFFICES ASSUME NEW t \in Slots, NEW c \in Bots
                 PROVE  q.m_Slots[t] = c <=> q.slot[c] = t
      BY DEF Consistent
    <2>1. r.m_Slots[t] = c <=> r.slot[c] = t
      BY DEF Consistent
    <2>2. c # None
      BY PoolAssumption DEF Bots, None
    <2>3. r.slot[c] # s
      BY <2>2 DEF Consistent, IsManaged
    <2> QED BY <1>1, <1>2, <1>4, <1>5, <1>6, <2>1, <2>3
  <1>8. \A t \in Slots \ {s} :
           IsManaged(r, t) => r.m_Slots[t] # b /\ ~Clash(r.m_Slots[t], b)
    <2> SUFFICES ASSUME NEW t \in Slots \ {s}, IsManaged(r, t)
                 PROVE  ~Clash(r.m_Slots[t], b)
      BY <1>5
    <2>1. r.m_Slots[t] \in Bots
      BY ManagedHoldsBot
    <2>2. r.slot[r.m_Slots[t]] # None
      BY <1>2, <2>1 DEF Consistent
    <2>3. ~Clash(b, r.m_Slots[t])
      BY <1>1, <1>5, <2>1, <2>2 DEF IsAssignable
    <2> QED BY <1>1, <2>1, <2>3, ClashSymmetric
  <1>9. Exclusive(q)
    <2> SUFFICES ASSUME NEW t \in Slots, NEW u \in Slots, t # u,
                        IsManaged(q, t), IsManaged(q, u)
                 PROVE  q.m_Slots[t] # q.m_Slots[u] /\ ~Clash(q.m_Slots[t], q.m_Slots[u])
      BY DEF Exclusive
    <2>1. CASE t # s /\ u # s
      BY <1>6, <2>1 DEF Exclusive, IsManaged
    <2>2. CASE u = s
      BY <1>6, <1>8, <2>2 DEF IsManaged
    <2>3. CASE t = s
      <3>1. q.m_Slots[t] = b /\ q.m_Slots[u] = r.m_Slots[u] /\ IsManaged(r, u)
        BY <1>6, <2>3 DEF IsManaged
      <3>2. r.m_Slots[u] # b /\ ~Clash(r.m_Slots[u], b) /\ r.m_Slots[u] \in Bots
        BY <1>8, <2>3, <3>1, ManagedHoldsBot
      <3> QED BY <1>1, <3>1, <3>2, ClashSymmetric
    <2> QED BY <2>1, <2>2, <2>3
  <1> QED BY <1>3, <1>7, <1>8, <1>9 DEF q

(***************************************************************************)
(* A slot that is vacated is unmanaged, and the others hold what they held *)
(* (OnClientConnected, the disconnect hook).                               *)
(***************************************************************************)
LEMMA VacatedIs ==
    ASSUME reg \in Registry, Consistent(reg), Exclusive(reg), NEW s \in Slots
    PROVE  /\ VacatedRegistry(s) \in Registry
           /\ Consistent(VacatedRegistry(s))
           /\ Exclusive(VacatedRegistry(s))
           /\ ~IsManaged(VacatedRegistry(s), s)
           /\ \A t \in Slots \ {s} : VacatedRegistry(s).m_Slots[t] = reg.m_Slots[t]
  <1>1. CASE IsManaged(reg, s)
    <2>1. VacatedRegistry(s) = Unmark(reg, {s})
      BY <1>1 DEF VacatedRegistry
    <2>2. Unmark(reg, {s}) \in Registry
      BY UnmarkType
    <2> QED BY <2>1, <2>2, UnmarkKeeps DEF IsManaged
  <1>2. CASE ~IsManaged(reg, s)
    BY <1>2 DEF VacatedRegistry
  <1> QED BY <1>1, <1>2

(***************************************************************************)
(* A list that is ample always has a free identity, so GetFree never takes *)
(* one back from a slot that is still marked with it.                      *)
(***************************************************************************)
LEMMA AmpleNeverReuses ==
    ASSUME AmplePool, reg \in Registry, Consistent(reg), Exclusive(reg)
    PROVE  NoReuse
  <1> SUFFICES ASSUME NEW s \in Slots
               PROVE  Candidates(s) \subseteq FreeBots(VacatedRegistry(s))
    BY DEF NoReuse
  <1> DEFINE r == VacatedRegistry(s)
             held == [t \in Slots \ {s} |-> r.m_Slots[t]]
  <1>1. r \in Registry /\ Consistent(r) /\ ~IsManaged(r, s)
    BY VacatedIs
  <1> HIDE DEF r
  <1>2. held \in [Slots \ {s} -> Bots \cup {None}]
    BY <1>1 DEF Registry
  <1>3. PICK b \in Bots : \A t \in Slots \ {s} : held[t] # None => b # held[t] /\ ~Clash(b, held[t])
    <2> HIDE DEF held
    <2> QED BY <1>2 DEF AmplePool
  <1>4. ASSUME NEW c \in Bots, r.slot[c] # None
        PROVE  r.slot[c] \in Slots \ {s} /\ held[r.slot[c]] = c /\ c # None
    <2>1. r.slot[c] \in Slots /\ c # None
      BY <1>1, <1>4, PoolAssumption DEF Registry, Bots, None
    <2>2. r.m_Slots[r.slot[c]] = c
      BY <1>1, <2>1 DEF Consistent
    <2> QED BY <1>1, <2>1, <2>2 DEF IsManaged
  <1>5. b \in FreeBots(r)
    <2>1. r.slot[b] = None
      BY <1>3, <1>4
    <2>2. IsAssignable(r, b)
      BY <1>3, <1>4 DEF IsAssignable
    <2> QED BY <2>1, <2>2 DEF FreeBots
  <1> QED BY <1>5 DEF Candidates, GetFree, r

(***************************************************************************)
(* Nor does it where every managed slot has a client: a recorded slot that *)
(* holds no client is no managed slot, and every recorded slot is.         *)
(***************************************************************************)
LEMMA PresentNeverReuses ==
    ASSUME Ownership
    PROVE  NoReuse
  <1> SUFFICES ASSUME NEW s \in Slots, MayConnect(s)
               PROVE  Candidates(s) \subseteq FreeBots(VacatedRegistry(s))
    BY DEF NoReuse
  <1>1. VacatedRegistry(s) = reg
    BY DEF VacatedRegistry, MayConnect, Ownership, ManagedHaveBots
  <1>2. StaleBots(reg, Present(client) \cup {s}) = {}
    <2> SUFFICES ASSUME NEW a \in Bots,
                        reg.slot[a] \in Slots \ (Present(client) \cup {s})
                 PROVE  FALSE
      BY DEF StaleBots
    <2>1. reg.m_Slots[reg.slot[a]] = a
      BY DEF Ownership, Consistent
    <2>2. IsManaged(reg, reg.slot[a])
      BY <2>1, ManagedHoldsBot DEF Ownership, TypeOK
    <2> QED BY <2>2 DEF Ownership, ManagedHaveBots, Present
  <1> QED BY <1>1, <1>2 DEF Candidates, GetFree

(***************************************************************************)
(* On a server that is never lost the invariant is the pool's, and that    *)
(* managed slots have their bot.                                           *)
(***************************************************************************)
LEMMA OwnershipIsLeased == Ownership <=> Leased /\ SameServer /\ ManagedHaveBots
  <1>1. SteamIdOwned /\ ManagedHaveBots => AbsentCarryNone
    BY DEF SteamIdOwned, ManagedHaveBots, AbsentCarryNone
  <1> QED BY <1>1 DEF Ownership, Leased

-----------------------------------------------------------------------------
(* The three kinds of step                                                 *)

(***************************************************************************)
(* A step that leaves every slot its identity, and gives a client no       *)
(* SteamID64 but the one of its slot's identity, keeps the invariant.      *)
(***************************************************************************)
LEMMA StableStep ==
    ASSUME Leased, TypeOK',
           reg'.m_Slots = reg.m_Slots, reg'.slot = reg.slot,
           Suspended' => Suspended,
           Ownership /\ SameServer' =>
              \A s \in Slots : IsManaged(reg, s) => client'[s].who = client[s].who,
           \A s \in Slots :
              client'[s].sid # 0 =>
                 /\ client'[s].who # "none"
                 /\ \/ client'[s].sid = client[s].sid
                    \/ IsManaged(reg, s) /\ client'[s].sid = SteamIdOf[reg.m_Slots[s]],
           \A s \in Slots : win'.snap[s].captured =>
              \/ win'.snap[s] = win.snap[s]
              \/ IsManaged(reg, s) /\ win'.snap[s].sscSteamId = client[s].sid
    PROVE  LeaseKept
  <1>1. \A s \in Slots : IsManaged(reg', s) <=> IsManaged(reg, s)
    BY DEF IsManaged
  <1>2. Consistent(reg') /\ Exclusive(reg')
    BY <1>1 DEF Leased, Consistent, Exclusive
  <1>3. Ownership /\ SameServer' => ManagedHaveBots'
    BY <1>1 DEF Ownership, ManagedHaveBots
  <1>4. SteamIdOwned' /\ AbsentCarryNone'
    BY <1>1 DEF Leased, SteamIdOwned, AbsentCarryNone
  <1>5. SuspendedUnmanaged'
    BY <1>1 DEF Leased, SuspendedUnmanaged, ManagedSlots
  <1> QED BY <1>2, <1>3, <1>4, <1>5 DEF LeaseKept, Leased

(***************************************************************************)
(* A step that releases the slots S, drops what the window captured of     *)
(* them and leaves their clients without a SteamID64 keeps the invariant.  *)
(***************************************************************************)
LEMMA ReleaseStep ==
    ASSUME Leased, TypeOK', NEW S \in SUBSET Slots,
           reg' = Unmark(reg, S),
           Suspended' => Suspended \/ S = ManagedSlots(reg),
           \A s \in Slots :
              IF IsManaged(reg, s) /\ s \notin S
              THEN client'[s] = client[s]
              ELSE client'[s].sid = 0,
           \A s \in Slots : win'.snap[s].captured => s \notin S /\ win'.snap[s] = win.snap[s]
    PROVE  LeaseKept
  <1>1. /\ Consistent(reg') /\ Exclusive(reg')
        /\ \A s \in Slots : reg'.m_Slots[s] = IF s \in S THEN None ELSE reg.m_Slots[s]
    BY UnmarkKeeps DEF Leased, TypeOK
  <1>2. \A s \in Slots : IsManaged(reg', s) <=> IsManaged(reg, s) /\ s \notin S
    BY <1>1 DEF IsManaged
  <1>3. Ownership => ManagedHaveBots'
    BY <1>2 DEF Ownership, ManagedHaveBots
  <1>4. SteamIdOwned' /\ AbsentCarryNone'
    BY <1>1, <1>2 DEF Leased, SteamIdOwned, AbsentCarryNone
  <1>5. SuspendedUnmanaged'
    BY <1>2 DEF Leased, SuspendedUnmanaged, ManagedSlots
  <1>6. Lease!Release(S)
    BY DEF Lease!Release, Unmark
  <1>7. [Lease!Next]_(reg.m_Slots)
    BY <1>6 DEF Lease!Next
  <1> QED BY <1>1, <1>3, <1>4, <1>5, <1>7 DEF LeaseKept, Leased

(***************************************************************************)
(* A step that vacates a slot, if it was still managed, and hands its bot  *)
(* an identity that is free then: to the slot table, one grant.            *)
(***************************************************************************)
LEMMA GrantStep ==
    ASSUME Leased, TypeOK', NEW s \in Slots, NEW r, r = VacatedRegistry(s),
           NEW b \in FreeBots(r), NEW done, ~Suspended',
           reg' = RecordDisguise(Mark(r, s, b), {s}, done),
           client'[s].who = "bot", client'[s].sid \in {0, SteamIdOf[b]},
           \A t \in Slots \ {s} : client'[t] = client[t],
           win' = VacatedWindow(s)
    PROVE  LeaseKept
  <1>1. /\ r \in Registry /\ Consistent(r) /\ Exclusive(r) /\ ~IsManaged(r, s)
        /\ \A t \in Slots \ {s} : r.m_Slots[t] = reg.m_Slots[t]
    BY VacatedIs DEF Leased, TypeOK
  <1>2. /\ reg'.m_Slots = [r.m_Slots EXCEPT ![s] = b]
        /\ Consistent(reg') /\ Exclusive(reg')
        /\ \A t \in Slots \ {s} :
              IsManaged(r, t) => r.m_Slots[t] # b /\ ~Clash(r.m_Slots[t], b)
    BY <1>1, GrantKeeps
  <1>3. \A t \in Slots : reg'.m_Slots[t] = IF t = s THEN b ELSE reg.m_Slots[t]
    BY <1>1, <1>2 DEF Registry
  <1>4. b \in Bots /\ b # None
    BY PoolAssumption DEF FreeBots, Bots, None
  <1>5. \A t \in Slots : IsManaged(reg', t) <=> t = s \/ IsManaged(reg, t)
    BY <1>3, <1>4 DEF IsManaged
  <1>6. Ownership => ManagedHaveBots'
    BY <1>5 DEF Ownership, ManagedHaveBots
  <1>7. \A t \in Slots : win'.snap[t].captured => t # s /\ win'.snap[t] = win.snap[t]
    <2>1. CASE IsManaged(reg, s)
      BY <2>1 DEF VacatedWindow, ResetSlot, NoSnapshot, Leased, TypeOK, Window
    <2>2. CASE ~IsManaged(reg, s)
      BY <2>2 DEF VacatedWindow, Leased, SteamIdOwned
    <2> QED BY <2>1, <2>2
  <1>8. SteamIdOwned' /\ AbsentCarryNone'
    <2> SUFFICES ASSUME NEW t \in Slots
                 PROVE  /\ client'[t].sid # 0 =>
                              /\ client'[t].who # "none"
                              /\ IsManaged(reg', t)
                              /\ client'[t].sid = SteamIdOf[reg'.m_Slots[t]]
                        /\ win'.snap[t].captured =>
                              /\ IsManaged(reg', t)
                              /\ win'.snap[t].sscSteamId \in {0, SteamIdOf[reg'.m_Slots[t]]}
      BY DEF SteamIdOwned, AbsentCarryNone
    <2>1. CASE t = s
      BY <1>3, <1>5, <1>7, <2>1
    <2>2. CASE t # s
      BY <1>3, <1>5, <1>7, <2>2 DEF Leased, SteamIdOwned, AbsentCarryNone
    <2> QED BY <2>1, <2>2
  <1>9. SuspendedUnmanaged'
    BY DEF SuspendedUnmanaged
  <1>10. Lease!Grant(s, b)
    <2>1. reg'.m_Slots = [reg.m_Slots EXCEPT ![s] = b]
      <3>1. reg'.m_Slots \in [Slots -> Bots \cup {None}] /\ reg.m_Slots \in [Slots -> Bots \cup {None}]
        BY DEF Leased, TypeOK, Registry
      <3> QED BY <1>3, <3>1
    <2>2. Lease!MayGrant(s, b)
      BY <1>1, <1>2 DEF Lease!MayGrant, IsManaged
    <2> QED BY <2>1, <2>2 DEF Lease!Grant
  <1>11. [Lease!Next]_(reg.m_Slots)
    BY <1>4, <1>10 DEF Lease!Next
  <1> QED BY <1>2, <1>6, <1>8, <1>9, <1>11 DEF LeaseKept, Leased

-----------------------------------------------------------------------------
(* What the handlers' common parts do                                      *)

(***************************************************************************)
(* ApplyDisguise gives the slots it is called for their own SteamID64.     *)
(***************************************************************************)
LEMMA ApplyDisguiseKeeps ==
    ASSUME Leased, NEW P \in SUBSET ManagedSlots(reg), NEW c \in [Slots -> Client],
           NEW deferred, ApplyDisguise(P, reg, c, shm, deferred)
    PROVE  /\ reg'.m_Slots = reg.m_Slots /\ reg'.slot = reg.slot
           /\ \A s \in Slots :
                 /\ client'[s].who = c[s].who
                 /\ \/ client'[s].sid = c[s].sid
                    \/ /\ IsManaged(reg, s)
                       /\ client'[s].sid = SteamIdOf[reg.m_Slots[s]]
                       /\ client'[s].who # "none"
  <1> DEFINE done == Disguised(P, reg, c, deferred)
  <1>1. done \subseteq P \cap Present(c) /\ Called(P, reg, done) \subseteq Slots
    BY DEF Disguised, Called, ManagedSlots
  <1>2. reg' = RecordDisguise(reg, Called(P, reg, done), done)
    BY DEF ApplyDisguise
  <1>3. client' = [s \in Slots |->
                      IF s \in done
                      THEN PlayerMarkers(c[s], SteamIdOf[reg.m_Slots[s]], TRUE)
                      ELSE c[s]]
    BY DEF ApplyDisguise
  <1> HIDE DEF done
  <1>4. reg'.m_Slots = reg.m_Slots /\ reg'.slot = reg.slot
    BY <1>1, <1>2, RecordKeeps DEF Leased, TypeOK
  <1>5. \A k \in Client, sid \in SteamIds :
           PlayerMarkers(k, sid, TRUE).who = k.who /\ PlayerMarkers(k, sid, TRUE).sid = sid
    BY DEF PlayerMarkers, SetCtrl, Client
  <1>6. \A s \in Slots : IsManaged(reg, s) => SteamIdOf[reg.m_Slots[s]] \in SteamIds
    BY ManagedHoldsBot DEF Leased, TypeOK, SteamIds
  <1>7. \A s \in Present(c) : c[s].who # "none"
    BY DEF Present
  <1>8. ASSUME NEW s \in Slots, s \in done
        PROVE  /\ IsManaged(reg, s)
               /\ client'[s].who = c[s].who /\ c[s].who # "none"
               /\ client'[s].sid = SteamIdOf[reg.m_Slots[s]]
    <2>1. IsManaged(reg, s) /\ s \in Present(c)
      BY <1>1, <1>8 DEF ManagedSlots
    <2>2. client'[s] = PlayerMarkers(c[s], SteamIdOf[reg.m_Slots[s]], TRUE)
      BY <1>3, <1>8
    <2>3. c[s] \in Client /\ SteamIdOf[reg.m_Slots[s]] \in SteamIds
      BY <1>6, <2>1
    <2> DEFINE p == PlayerMarkers(c[s], SteamIdOf[reg.m_Slots[s]], TRUE)
    <2>4. p.who = c[s].who /\ p.sid = SteamIdOf[reg.m_Slots[s]]
      BY <1>5, <2>3, Zenon
    <2> HIDE DEF p
    <2> QED BY <1>7, <2>1, <2>2, <2>4 DEF p
  <1>9. \A s \in Slots : s \notin done => client'[s] = c[s]
    BY <1>3
  <1> QED BY <1>4, <1>8, <1>9

(***************************************************************************)
(* Closing the window writes back, or disguises with, a slot's own         *)
(* SteamID64 (TickVoteTransaction's end, ForceEndVoteTransaction).         *)
(***************************************************************************)
LEMMA CloseWindowKeeps ==
    ASSUME Leased, TypeOK', Suspended' => Suspended, CloseWindow
    PROVE  LeaseKept
  <1> DEFINE touched == Touchable(win, reg, server.id, Present(client))
             restored == RestoreMarkers(win, touched, client)
  <1>1. \A s \in Slots : win'.snap[s].captured => win'.snap[s] = win.snap[s]
    BY DEF CloseWindow, EndWindow, Leased, TypeOK, Window, NoSnapshot
  <1>2. CASE win.valid
    <2>1. restored \in [Slots -> Client]
      BY HoldMarkersType DEF Leased, TypeOK
    <2>2. \A s \in Slots :
             /\ restored[s].who = client[s].who
             /\ \/ restored[s].sid \in {0, client[s].sid}
                \/ /\ IsManaged(reg, s)
                   /\ restored[s].sid = SteamIdOf[reg.m_Slots[s]]
                   /\ restored[s].who # "none"
      <3>1. ASSUME NEW s \in Slots
            PROVE  /\ client[s] \in Client
                   /\ win.snap[s].sscSteamId \in SteamIds
        BY DEF Leased, TypeOK, Window, Snapshot
      <3>2. \A k \in Client, sid \in SteamIds, w \in BOOLEAN :
               PlayerMarkers(k, sid, w).who = k.who /\ PlayerMarkers(k, sid, w).sid = sid
        BY DEF PlayerMarkers, SetCtrl, Client
      <3>3. \A s \in Slots : win.snap[s].hasController \in BOOLEAN
        BY DEF Leased, TypeOK, Window, Snapshot
      <3>4. \A s \in touched : win.snap[s].captured /\ client[s].who # "none"
        BY DEF Touchable, Present
      <3>5. \A s \in Slots : win.snap[s].captured =>
               /\ IsManaged(reg, s)
               /\ win.snap[s].sscSteamId \in {0, SteamIdOf[reg.m_Slots[s]]}
        BY DEF Leased, SteamIdOwned
      <3> HIDE DEF touched
      <3> QED BY <3>1, <3>2, <3>3, <3>4, <3>5 DEF RestoreMarkers
    <2>3. ApplyDisguise(PendingSlots(reg), reg, restored, shm, FALSE)
      BY <1>2 DEF CloseWindow, RestorePlayerIdentity
    <2> HIDE DEF restored
    <2>4. /\ reg'.m_Slots = reg.m_Slots /\ reg'.slot = reg.slot
          /\ \A s \in Slots :
                /\ client'[s].who = restored[s].who
                /\ \/ client'[s].sid = restored[s].sid
                   \/ /\ IsManaged(reg, s)
                      /\ client'[s].sid = SteamIdOf[reg.m_Slots[s]]
                      /\ client'[s].who # "none"
      BY <2>1, <2>3, ApplyDisguiseKeeps, PendingSlotsManaged
    <2>5. \A s \in Slots :
             client'[s].sid # 0 =>
                /\ client'[s].who # "none"
                /\ \/ client'[s].sid = client[s].sid
                   \/ IsManaged(reg, s) /\ client'[s].sid = SteamIdOf[reg.m_Slots[s]]
      BY <2>2, <2>4 DEF Leased, AbsentCarryNone
    <2>6. \A s \in Slots : client'[s].who = client[s].who
      BY <2>2, <2>4
    <2> QED BY <1>1, <2>4, <2>5, <2>6, StableStep
  <1>3. CASE ~win.valid
    <2>1. UNCHANGED <<reg, client, shm>>
      BY <1>3 DEF CloseWindow, RestorePlayerIdentity
    <2> QED BY <1>1, <2>1, StableStep DEF Leased, AbsentCarryNone
  <1> QED BY <1>2, <1>3

(***************************************************************************)
(* Opening a window captures a slot's own SteamID64, or none               *)
(* (CaptureAndRestoreNativeBotIdentity).                                   *)
(***************************************************************************)
LEMMA BeginKeeps ==
    ASSUME Leased, TypeOK', Suspended' => Suspended,
           BeginAll \/ \E s \in Slots : IsManaged(reg, s) /\ BeginForSlot(s)
    PROVE  LeaseKept
  <1>1. PICK S \in SUBSET ManagedSlots(reg), valid \in BOOLEAN : Begin(S, valid)
    <2>1. \A s \in Slots : IsManaged(reg, s) =>
             {s} \cap Present(client) \in SUBSET ManagedSlots(reg)
      BY DEF ManagedSlots
    <2>2. \A s \in Slots : (s \in Present(client)) \in BOOLEAN
      OBVIOUS
    <2>3. ManagedSlots(reg) \cap Present(client) \in SUBSET ManagedSlots(reg)
      OBVIOUS
    <2> QED BY <2>1, <2>2, <2>3 DEF BeginAll, BeginForSlot
  <1>2. UNCHANGED <<reg, shm>>
    BY <1>1 DEF Begin
  <1>3. \A s \in Slots :
           client'[s].who = client[s].who /\ client'[s].sid \in {0, client[s].sid}
    <2>1. \A k \in Client : NativeMarkers(k, TRUE).who = k.who /\ NativeMarkers(k, TRUE).sid = 0
      BY DEF NativeMarkers, SetCtrl, Client
    <2> QED BY <1>1, <2>1 DEF Begin, BeginMarkers, Leased, TypeOK
  <1>4. \A s \in Slots : win'.snap[s].captured =>
           \/ win'.snap[s] = win.snap[s]
           \/ IsManaged(reg, s) /\ win'.snap[s].sscSteamId = client[s].sid
    <2>1. win' = BeginWindow(win, S, valid, client, server.id)
      BY <1>1 DEF Begin
    <2>2. CASE VoteTransactionActive(win)
      BY <2>1, <2>2 DEF BeginWindow, Leased, TypeOK, Window
    <2>3. CASE ~VoteTransactionActive(win)
      <3>1. win'.snap = [s \in Slots |-> IF s \in S THEN CaptureOne(client[s], server.id) ELSE NoSnapshot]
        BY <2>1, <2>3 DEF BeginWindow, Leased, TypeOK, Window
      <3> QED BY <3>1 DEF CaptureOne, NoSnapshot, ManagedSlots
    <2> QED BY <2>2, <2>3
  <1> QED BY <1>2, <1>3, <1>4, StableStep DEF Leased, AbsentCarryNone

(***************************************************************************)
(* Releasing every managed slot (ReleaseManagedSlots).                     *)
(***************************************************************************)
LEMMA ReleaseManagedSlotsKeeps ==
    ASSUME Leased, TypeOK', ReleaseManagedSlots
    PROVE  LeaseKept
  <1>1. \A s \in Slots : client'[s].sid = 0
    <2>1. \A k \in Client : NativeMarkers(k, TRUE).sid = 0
      BY DEF NativeMarkers, SetCtrl, Client
    <2>2. \A s \in Slots : IsManaged(reg, s) =>
             s \in ManagedSlots(reg) \cap Present(client) \/ client[s].sid = 0
      BY DEF Leased, AbsentCarryNone, Present, ManagedSlots
    <2>3. \A s \in Slots : ~IsManaged(reg, s) => client[s].sid = 0
      BY DEF Leased, SteamIdOwned
    <2>4. \A s \in ManagedSlots(reg) : IsManaged(reg, s)
      BY DEF ManagedSlots
    <2> QED BY <2>1, <2>2, <2>3, <2>4 DEF ReleaseManagedSlots, Leased, TypeOK
  <1>2. \A s \in Slots : ~win'.snap[s].captured
    BY DEF ReleaseManagedSlots, ClosedWindow, NoSnapshot
  <1>3. \A s \in Slots : IsManaged(reg, s) => s \in ManagedSlots(reg)
    BY DEF ManagedSlots
  <1>4. reg' = Unmark(reg, ManagedSlots(reg)) /\ ManagedSlots(reg) \in SUBSET Slots
    BY DEF ReleaseManagedSlots, ManagedSlots
  <1> QED BY <1>1, <1>2, <1>3, <1>4, ReleaseStep

-----------------------------------------------------------------------------
(* Each handler keeps the invariant                                        *)

(***************************************************************************)
(* A pass through the map gate, given that what runs when it releases      *)
(* nothing keeps the invariant.                                            *)
(***************************************************************************)
LEMMA PassGateKeeps ==
    ASSUME Leased, TypeOK', NEW first, NEW second, NEW otherwise,
           PassGate(first, second, otherwise),
           (Suspended' => Suspended) /\ otherwise => LeaseKept
    PROVE  LeaseKept
  <1>1. ReleaseManagedSlots => LeaseKept
    BY ReleaseManagedSlotsKeeps
  <1>2. ASSUME ~ReleaseManagedSlots, Suspended'
        PROVE  Suspended
    BY <1>2 DEF PassGate, Suspended
  <1> QED BY <1>1, <1>2 DEF PassGate

(***************************************************************************)
(* A handler that only reaches the gate.                                   *)
(***************************************************************************)
LEMMA UnchangedKeeps ==
    ASSUME Leased, TypeOK', Suspended' => Suspended,
           UNCHANGED <<reg, client, win>>
    PROVE  LeaseKept
  BY StableStep DEF Leased, AbsentCarryNone

(***************************************************************************)
(* A connecting bot is handed an identity that is free once its slot is    *)
(* vacated, and is disguised at once unless the window is open.            *)
(***************************************************************************)
LEMMA ConnectGrants ==
    ASSUME Leased, NoReuse, NEW s \in Slots, BotConnects(s)
    PROVE  \E b \in FreeBots(VacatedRegistry(s)), done \in {{}, {s}} :
              /\ done = {} <=> Active
              /\ reg' = RecordDisguise(Mark(VacatedRegistry(s), s, b), {s}, done)
              /\ client'[s].who = "bot"
              /\ client'[s].mark = IF Active THEN "native" ELSE "player"
              /\ client'[s].sid = IF Active THEN 0 ELSE SteamIdOf[b]
              /\ Active => client'[s].ctrl # "player"
              /\ shm'[s].bot = IF Active THEN VacatedShm(s)[s].bot ELSE b
              /\ \A t \in Slots \ {s} : client'[t] = client[t] /\ shm'[t] = VacatedShm(s)[t]
  <1> DEFINE v == VacatedRegistry(s)
             e == VacatedShm(s)
  <1>1. v \in Registry
    BY VacatedIs DEF Leased, TypeOK
  <1>2. PICK b \in Candidates(s), c \in Arrivals(s, "bot") :
           ApplyDisguise({s}, Mark(ResetForReuse(v, b), s, b), c, e, Active)
    BY DEF BotConnects
  <1> HIDE DEF v, e
  <1>3. b \in FreeBots(v)
    BY <1>2 DEF NoReuse, BotConnects, v
  <1>4. ResetForReuse(v, b) = v
    BY <1>3 DEF FreeBots, ResetForReuse
  <1>5. /\ c[s] \in Client /\ c[s].who = "bot" /\ c[s].mark = "native" /\ c[s].sid = 0
        /\ c[s].ctrl # "player"
        /\ \A t \in Slots \ {s} : c[t] = client[t]
    <2>1. PICK ctrl \in {"native", "none"} : c = [client EXCEPT ![s] = Arrival("bot", ctrl)]
      BY <1>2 DEF Arrivals, EngineFlag
    <2>2. /\ Arrival("bot", ctrl) \in Client /\ Arrival("bot", ctrl).who = "bot"
          /\ Arrival("bot", ctrl).mark = "native" /\ Arrival("bot", ctrl).sid = 0
          /\ Arrival("bot", ctrl).ctrl # "player"
      BY DEF Arrival, EngineFlag, Client, SteamIds
    <2> QED BY <2>1, <2>2 DEF Leased, TypeOK
  <1> DEFINE r == Mark(v, s, b)
             done == Disguised({s}, r, c, Active)
  <1>6. b \in Bots /\ r.m_Slots[s] = b
    BY <1>1, <1>3 DEF FreeBots, Mark, Registry
  <1>7. done = (IF Active THEN {} ELSE {s}) /\ Called({s}, r, done) = {s}
    <2>1. s <= s
      BY PoolAssumption DEF Slots
    <2> HIDE DEF r
    <2>2. \A t : t \in done <=> t = s /\ ~Active
      BY <1>5, <2>1 DEF Disguised, Present
    <2> HIDE DEF done
    <2>3. done = IF Active THEN {} ELSE {s}
      BY <2>2
    <2> QED BY <2>1, <2>3 DEF Called
  <1>8. reg' = RecordDisguise(r, {s}, done)
    BY <1>2, <1>4, <1>7 DEF ApplyDisguise
  <1>9. client' = [t \in Slots |->
                      IF t \in done
                      THEN PlayerMarkers(c[t], SteamIdOf[r.m_Slots[t]], TRUE)
                      ELSE c[t]]
    BY <1>2, <1>4 DEF ApplyDisguise
  <1>10. shm' = [t \in Slots |->
                    IF t \in done THEN PublishAdopt(e[t], r.m_Slots[t]) ELSE e[t]]
    BY <1>2, <1>4 DEF ApplyDisguise
  <1> HIDE DEF done
  <1>11. \A t \in Slots \ {s} : client'[t] = client[t] /\ shm'[t] = e[t]
    BY <1>5, <1>7, <1>9, <1>10
  <1>12. /\ client'[s].who = "bot"
         /\ client'[s].mark = IF Active THEN "native" ELSE "player"
         /\ client'[s].sid = IF Active THEN 0 ELSE SteamIdOf[b]
         /\ Active => client'[s].ctrl # "player"
    <2>1. CASE Active
      BY <1>5, <1>7, <1>9, <2>1
    <2>2. CASE ~Active
      <3>1. \A k \in Client, sid \in SteamIds :
               /\ PlayerMarkers(k, sid, TRUE).who = k.who
               /\ PlayerMarkers(k, sid, TRUE).mark = "player"
               /\ PlayerMarkers(k, sid, TRUE).sid = sid
        BY DEF PlayerMarkers, SetCtrl, Client
      <3>2. SteamIdOf[b] \in SteamIds
        BY <1>6 DEF SteamIds
      <3> DEFINE p == PlayerMarkers(c[s], SteamIdOf[b], TRUE)
      <3>3. client'[s] = p
        <4> HIDE DEF r
        <4> QED BY <1>6, <1>7, <1>9, <2>2
      <3>4. p.who = c[s].who /\ p.mark = "player" /\ p.sid = SteamIdOf[b]
        BY <1>5, <3>1, <3>2, Zenon
      <3> HIDE DEF p
      <3> QED BY <1>5, <2>2, <3>3, <3>4
    <2> QED BY <2>1, <2>2
  <1>13. shm'[s].bot = IF Active THEN e[s].bot ELSE b
    <2> HIDE DEF r
    <2> QED BY <1>6, <1>7, <1>10 DEF PublishAdopt
  <1>14. done \in {{}, {s}} /\ (done = {} <=> Active)
    BY <1>7
  <1> QED BY <1>3, <1>8, <1>11, <1>12, <1>13, <1>14 DEF v, e

(***************************************************************************)
(* Hook_OnClientConnected_Post.  A slot that is still managed, since its   *)
(* client went with a server that was lost, is vacated first; an HLTV      *)
(* client leaves it managed and carries no SteamID64.                      *)
(***************************************************************************)
LEMMA ConnectKeeps ==
    ASSUME Leased, NoReuse, TypeOK', NEW s \in Slots,
           \/ HltvConnects(s)
           \/ \E who \in {"bot", "human"} : ClientIgnored(s, who)
           \/ BotConnects(s)
    PROVE  LeaseKept
  <1>1. MayConnect(s) /\ Suspended' = Suspended
    BY DEF HltvConnects, ClientIgnored, BotConnects, Suspended
  <1>2. client[s].who = "none"
    BY <1>1 DEF MayConnect
  <1>3. Ownership => ~IsManaged(reg, s)
    BY <1>2 DEF Ownership, ManagedHaveBots
  <1>4. ASSUME NEW who \in {"bot", "human", "hltv"}, client' \in Arrivals(s, who)
        PROVE  /\ client'[s].sid = 0
               /\ \A t \in Slots \ {s} : client'[t] = client[t]
    <2>1. PICK ctrl \in {EngineFlag(who), "none"} :
             client' = [client EXCEPT ![s] = Arrival(who, ctrl)]
      BY <1>4 DEF Arrivals
    <2>2. Arrival(who, ctrl).sid = 0
      BY DEF Arrival
    <2> QED BY <2>1, <2>2 DEF Leased, TypeOK
  <1>5. ASSUME UNCHANGED <<reg, win>>, NEW who \in {"bot", "human", "hltv"},
               client' \in Arrivals(s, who)
        PROVE  LeaseKept
    <2>1. \A t \in Slots :
             client'[t].sid # 0 => client'[t].who # "none" /\ client'[t].sid = client[t].sid
      BY <1>4, <1>5 DEF Leased, AbsentCarryNone
    <2>2. Ownership => \A t \in Slots : IsManaged(reg, t) => client'[t].who = client[t].who
      BY <1>3, <1>4, <1>5
    <2> QED BY <1>1, <1>5, <2>1, <2>2, StableStep
  <1>6. CASE HltvConnects(s)
    BY <1>5, <1>6 DEF HltvConnects
  <1>7. ASSUME NEW who \in {"bot", "human"}, ClientIgnored(s, who)
        PROVE  LeaseKept
    <2>1. client' \in Arrivals(s, who) /\ reg' = VacatedRegistry(s) /\ win' = VacatedWindow(s)
      BY <1>7 DEF ClientIgnored
    <2>2. CASE IsManaged(reg, s)
      <3>1. reg' = Unmark(reg, {s}) /\ win' = ResetSlot(win, s)
        BY <2>1, <2>2 DEF VacatedRegistry, VacatedWindow
      <3>2. \A t \in Slots : win'.snap[t].captured => t # s /\ win'.snap[t] = win.snap[t]
        BY <3>1 DEF ResetSlot, NoSnapshot, Leased, TypeOK, Window
      <3>3. \A t \in Slots : IF IsManaged(reg, t) /\ t \notin {s}
                             THEN client'[t] = client[t]
                             ELSE client'[t].sid = 0
        BY <1>4, <2>1 DEF Leased, SteamIdOwned
      <3> QED BY <1>1, <3>1, <3>2, <3>3, ReleaseStep
    <2>3. CASE ~IsManaged(reg, s)
      <3>1. UNCHANGED <<reg, win>>
        BY <2>1, <2>3 DEF VacatedRegistry, VacatedWindow
      <3> QED BY <1>5, <2>1, <3>1
    <2> QED BY <2>2, <2>3
  <1>8. CASE BotConnects(s)
    <2>1. ~Suspended' /\ win' = VacatedWindow(s)
      BY <1>8 DEF BotConnects, Suspended
    <2>2. PICK b \in FreeBots(VacatedRegistry(s)), done \in {{}, {s}} :
             /\ reg' = RecordDisguise(Mark(VacatedRegistry(s), s, b), {s}, done)
             /\ client'[s].who = "bot"
             /\ client'[s].sid = IF Active THEN 0 ELSE SteamIdOf[b]
             /\ \A t \in Slots \ {s} : client'[t] = client[t] /\ shm'[t] = VacatedShm(s)[t]
      BY <1>8, ConnectGrants
    <2>3. client'[s].sid \in {0, SteamIdOf[b]}
      BY <2>2
    <2> QED BY <2>1, <2>2, <2>3, GrantStep
  <1> QED BY <1>6, <1>7, <1>8

(***************************************************************************)
(* Hook_ClientDisconnect_Pre, and the engine's freeing of the client.      *)
(***************************************************************************)
LEMMA DisconnectKeeps ==
    ASSUME Leased, TypeOK', NEW s \in Slots, ClientDisconnect(s)
    PROVE  LeaseKept
  <1>1. Suspended' = Suspended
    BY DEF ClientDisconnect, Suspended
  <1>2. \A t \in Slots : client'[t] = IF t = s THEN NoClient ELSE client[t]
    BY DEF ClientDisconnect, Leased, TypeOK
  <1>3. CASE IsManaged(reg, s)
    <2>1. ~Suspended
      BY <1>3 DEF Leased, SuspendedUnmanaged, ManagedSlots
    <2>2. reg' = Unmark(reg, {s}) /\ win' = ResetSlot(win, s)
      BY <1>3, <2>1 DEF ClientDisconnect, VacatedRegistry, VacatedWindow
    <2>3. \A t \in Slots : win'.snap[t].captured => t # s /\ win'.snap[t] = win.snap[t]
      BY <2>2 DEF ResetSlot, NoSnapshot, Leased, TypeOK, Window
    <2>4. \A t \in Slots : IF IsManaged(reg, t) /\ t # s
                           THEN client'[t] = client[t]
                           ELSE client'[t].sid = 0
      BY <1>2 DEF NoClient, Leased, SteamIdOwned
    <2> QED BY <1>1, <2>1, <2>2, <2>3, <2>4, ReleaseStep
  <1>4. CASE ~IsManaged(reg, s)
    <2>1. UNCHANGED <<reg, win>>
      BY <1>4 DEF ClientDisconnect, VacatedRegistry, VacatedWindow
    <2>2. \A t \in Slots :
             client'[t].sid # 0 => client'[t].who # "none" /\ client'[t].sid = client[t].sid
      BY <1>2 DEF NoClient, Leased, AbsentCarryNone
    <2> QED BY <1>1, <1>2, <1>4, <2>1, <2>2, StableStep
  <1> QED BY <1>3, <1>4

(***************************************************************************)
(* Every call the engine makes about a client.                             *)
(***************************************************************************)
LEMMA ClientCallKeeps ==
    ASSUME Leased, NoReuse, TypeOK', NEW s \in Slots, ClientCall(s)
    PROVE  LeaseKept
  <1>1. CASE ControllerSpawns(s)
    <2>1. (Suspended' => Suspended) /\ UNCHANGED <<reg, win>>
      BY <1>1 DEF ControllerSpawns, Suspended
    <2>2. \A t \in Slots : client'[t].who = client[t].who /\ client'[t].sid = client[t].sid
      BY <1>1 DEF ControllerSpawns, Leased, TypeOK, Client
    <2> QED BY <2>1, <2>2, StableStep DEF Leased, AbsentCarryNone
  <1>2. CASE ClientPutInServer(s)
    <2> DEFINE P == IF Suspended THEN {} ELSE PendingSlots(reg) \cap {s}
               c == [client EXCEPT ![s].inGame = TRUE]
    <2>1. P \in SUBSET ManagedSlots(reg)
      BY PendingSlotsManaged
    <2>2. c \in [Slots -> Client]
      <3>1. client \in [Slots -> Client]
        BY DEF Leased, TypeOK
      <3>2. [client[s] EXCEPT !.inGame = TRUE] \in Client
        BY <3>1 DEF Client
      <3> QED BY <3>1, <3>2
    <2>3. \A t \in Slots : c[t].who = client[t].who /\ c[t].sid = client[t].sid
      BY DEF Leased, TypeOK, Client
    <2>4. ApplyDisguise(P, reg, c, shm, Active)
      BY <1>2 DEF ClientPutInServer
    <2> HIDE DEF P, c
    <2>5. /\ reg'.m_Slots = reg.m_Slots /\ reg'.slot = reg.slot
          /\ \A t \in Slots :
                /\ client'[t].who = c[t].who
                /\ \/ client'[t].sid = c[t].sid
                   \/ /\ IsManaged(reg, t)
                      /\ client'[t].sid = SteamIdOf[reg.m_Slots[t]]
                      /\ client'[t].who # "none"
      BY <2>1, <2>2, <2>4, ApplyDisguiseKeeps
    <2>6. (Suspended' => Suspended) /\ win' = win
      BY <1>2 DEF ClientPutInServer, Suspended
    <2>7. \A t \in Slots :
             client'[t].sid # 0 =>
                /\ client'[t].who # "none"
                /\ \/ client'[t].sid = client[t].sid
                   \/ IsManaged(reg, t) /\ client'[t].sid = SteamIdOf[reg.m_Slots[t]]
      BY <2>3, <2>5 DEF Leased, AbsentCarryNone
    <2> QED BY <2>3, <2>5, <2>6, <2>7, StableStep
  <1>3. CASE SteamIdReappears(s)
    <2>1. (Suspended' => Suspended) /\ UNCHANGED <<reg, win>>
      BY <1>3 DEF SteamIdReappears, Suspended
    <2>2. /\ client' = [client EXCEPT ![s].sid = win.snap[s].sscSteamId]
          /\ win.snap[s].captured /\ client[s].who # "none"
      BY <1>3 DEF SteamIdReappears, Touchable, Present
    <2>3. \A t \in Slots :
             /\ client'[t].who = client[t].who
             /\ client'[t].sid = IF t = s THEN win.snap[s].sscSteamId ELSE client[t].sid
      BY <2>2 DEF Leased, TypeOK, Client
    <2>4. IsManaged(reg, s) /\ win.snap[s].sscSteamId \in {0, SteamIdOf[reg.m_Slots[s]]}
      BY <2>2 DEF Leased, SteamIdOwned
    <2>5. \A t \in Slots :
             client'[t].sid # 0 =>
                /\ client'[t].who # "none"
                /\ \/ client'[t].sid = client[t].sid
                   \/ IsManaged(reg, t) /\ client'[t].sid = SteamIdOf[reg.m_Slots[t]]
      BY <2>2, <2>3, <2>4 DEF Leased, AbsentCarryNone
    <2> QED BY <2>1, <2>3, <2>5, StableStep
  <1> QED BY <1>1, <1>2, <1>3, ConnectKeeps, DisconnectKeeps DEF ClientCall

(***************************************************************************)
(* OnLevelInit, the map commands, and the game server's loss and return: a *)
(* lost server takes its clients along and leaves the registry behind.     *)
(***************************************************************************)
LEMMA EngineEventKeeps ==
    ASSUME Leased, TypeOK', EngineEvent
    PROVE  LeaseKept
  <1>1. ASSUME NEW m, NEW addon, LevelInit(m, addon)
        PROVE  LeaseKept
    <2>1. PICK name : PassGate(name, BuildMapIdentity(server'), UNCHANGED <<reg, client, win, shm>>)
      BY <1>1 DEF LevelInit
    <2> QED BY <2>1, PassGateKeeps, UnchangedKeeps
  <1>2. ASSUME NEW m, MapNameArrives(m)
        PROVE  LeaseKept
    <2>1. (Suspended' => Suspended) /\ UNCHANGED <<reg, client, win>>
      BY <1>2 DEF MapNameArrives, Suspended
    <2> QED BY <2>1, UnchangedKeeps
  <1>3. ASSUME NEW arg, MapCommand(arg)
        PROVE  LeaseKept
    <2>1. PICK hint : PassGate(hint, BuildMapIdentity(server), UNCHANGED <<reg, client, win, shm>>)
      BY <1>3 DEF MapCommand
    <2> QED BY <2>1, PassGateKeeps, UnchangedKeeps
  <1>4. CASE ServerGone
    <2>1. (Suspended' => Suspended) /\ UNCHANGED <<reg, win>> /\ ~SameServer'
      BY <1>4 DEF ServerGone, Suspended, SameServer
    <2>2. \A s \in Slots : client'[s].sid = 0
      BY <1>4 DEF ServerGone, NoClient
    <2> QED BY <2>1, <2>2, StableStep
  <1>5. CASE ServerBack
    <2>1. (Suspended' => Suspended) /\ UNCHANGED <<reg, client, win>>
      BY <1>5 DEF ServerBack, Suspended
    <2> QED BY <2>1, UnchangedKeeps
  <1> QED BY <1>1, <1>2, <1>3, <1>4, <1>5 DEF EngineEvent

(***************************************************************************)
(* Hook_GameFrame_Post.                                                    *)
(***************************************************************************)
LEMMA FrameKeeps ==
    ASSUME Leased, TypeOK', GameFramePost
    PROVE  LeaseKept
  <1>1. ASSUME HoldTick, Suspended' => Suspended
        PROVE  LeaseKept
    <2>1. UNCHANGED reg /\ win'.snap = win.snap
      BY <1>1 DEF HoldTick, Leased, TypeOK, Window
    <2>2. \A s \in Slots :
             client'[s].who = client[s].who /\ client'[s].sid \in {0, client[s].sid}
      <3>1. \A k \in Client, w \in BOOLEAN :
               NativeMarkers(k, w).who = k.who /\ NativeMarkers(k, w).sid = 0
        BY DEF NativeMarkers, SetCtrl, Client
      <3>2. \A s \in Slots : client[s] \in Client /\ win.snap[s].hasController \in BOOLEAN
        BY DEF Leased, TypeOK, Window, Snapshot
      <3> QED BY <1>1, <3>1, <3>2 DEF HoldTick, ReassertMarkers
    <2> QED BY <1>1, <2>1, <2>2, StableStep DEF Leased, AbsentCarryNone
  <1>2. ASSUME win' = ClosedWindow, UNCHANGED <<reg, client>>, Suspended' => Suspended
        PROVE  LeaseKept
    <2>1. \A s \in Slots : ~win'.snap[s].captured
      BY <1>2 DEF ClosedWindow, NoSnapshot
    <2> QED BY <1>2, <2>1, StableStep DEF Leased, AbsentCarryNone
  <1>3. ASSUME TickVoteTransaction, Suspended' => Suspended
        PROVE  LeaseKept
    BY <1>1, <1>2, <1>3, UnchangedKeeps, CloseWindowKeeps DEF TickVoteTransaction
  <1> DEFINE id == BuildMapIdentity(server)
             hosted == IF ApplyMapGate(gate, id).suspended
                       THEN UNCHANGED <<reg, client, win, shm>>
                       ELSE TickVoteTransaction
  <1>4. (Suspended' => Suspended) /\ hosted => LeaseKept
    BY <1>3, UnchangedKeeps
  <1>5. PassGate(NoMap, id, hosted)
    BY DEF GameFramePost
  <1> HIDE DEF id, hosted
  <1> QED BY <1>4, <1>5, PassGateKeeps

(***************************************************************************)
(* Hook_DispatchConCommand_Pre.                                            *)
(***************************************************************************)
LEMMA CommandPreKeeps ==
    ASSUME Leased, TypeOK', CommandPre
    PROVE  LeaseKept
  <1>1. \A name, slot : Dispatch(name, slot) => (Suspended' => Suspended)
    BY DEF Dispatch, Suspended
  <1>2. CASE CallvotePre
    BY <1>1, <1>2, BeginKeeps DEF CallvotePre
  <1>3. CASE KickPre
    BY <1>1, <1>3, BeginKeeps, UnchangedKeeps DEF KickPre, OpenForKick
  <1>4. ASSUME NEW s \in Slots, NamedKickPre(s)
        PROVE  LeaseKept
    BY <1>1, <1>4, BeginKeeps, UnchangedKeeps DEF NamedKickPre, SlotOfPersona, OpenForKick
  <1>5. CASE UnmatchedKickPre
    BY <1>1, <1>5, UnchangedKeeps DEF UnmatchedKickPre
  <1>6. CASE BotAddPre
    BY <1>1, <1>6, CloseWindowKeeps, UnchangedKeeps DEF BotAddPre
  <1> QED BY <1>2, <1>3, <1>4, <1>5, <1>6 DEF CommandPre

(***************************************************************************)
(* Hook_DispatchConCommand_Post.                                           *)
(***************************************************************************)
LEMMA CommandPostKeeps ==
    ASSUME Leased, TypeOK', CommandPost
    PROVE  LeaseKept
  <1>1. \A names : Returns(names) => (Suspended' => Suspended)
    BY DEF Returns, Suspended
  <1>2. ScheduleEnd(win, HoldFrames).snap = win.snap
    BY DEF ScheduleEnd, Leased, TypeOK, Window
  <1>3. CASE CallvotePost
    <2>1. win'.snap = win.snap /\ UNCHANGED <<reg, client>>
      BY <1>2, <1>3 DEF CallvotePost
    <2> QED BY <1>1, <1>3, <2>1, StableStep DEF CallvotePost, Leased, AbsentCarryNone
  <1>4. CASE KickPost
    <2>1. win'.snap = win.snap /\ UNCHANGED <<reg, client>>
      BY <1>2, <1>4 DEF KickPost, WindowAfterKick
    <2> QED BY <1>1, <1>4, <2>1, StableStep DEF KickPost, Leased, AbsentCarryNone
  <1>5. CASE BotAddPost
    <2>1. ApplyDisguise(PendingSlots(reg), reg, client, shm, Active) /\ win' = win
      BY <1>5 DEF BotAddPost
    <2>2. client \in [Slots -> Client]
      BY DEF Leased, TypeOK
    <2>3. /\ reg'.m_Slots = reg.m_Slots /\ reg'.slot = reg.slot
          /\ \A t \in Slots :
                /\ client'[t].who = client[t].who
                /\ \/ client'[t].sid = client[t].sid
                   \/ /\ IsManaged(reg, t)
                      /\ client'[t].sid = SteamIdOf[reg.m_Slots[t]]
                      /\ client'[t].who # "none"
      BY <2>1, <2>2, ApplyDisguiseKeeps, PendingSlotsManaged
    <2>4. \A t \in Slots :
             client'[t].sid # 0 =>
                /\ client'[t].who # "none"
                /\ \/ client'[t].sid = client[t].sid
                   \/ IsManaged(reg, t) /\ client'[t].sid = SteamIdOf[reg.m_Slots[t]]
      BY <2>3 DEF Leased, AbsentCarryNone
    <2> QED BY <1>1, <1>5, <2>1, <2>3, <2>4, StableStep DEF BotAddPost
  <1> QED BY <1>3, <1>4, <1>5 DEF CommandPost

-----------------------------------------------------------------------------
(* The theorems                                                            *)

(***************************************************************************)
(* The invariants hold at the start (BotIdentityPlugin::Load's state).     *)
(***************************************************************************)
LEMMA InitOwns == Init => Ownership /\ Leased /\ Lease!Init
  <1> SUFFICES ASSUME Init
               PROVE  Ownership /\ Lease!Init
    BY OwnershipIsLeased
  <1>1. TypeOK
    BY InitType
  <1>2. \A s \in Slots, b \in Bots : s # None /\ b # None
    BY PoolAssumption DEF Slots, Bots, None
  <1>3. \A s \in Slots : ~IsManaged(reg, s)
    BY DEF Init, EmptyRegistry, IsManaged
  <1>4. Consistent(reg)
    BY <1>2 DEF Init, EmptyRegistry, Consistent
  <1>5. Exclusive(reg)
    BY <1>3 DEF Exclusive
  <1>6. ManagedHaveBots /\ SuspendedUnmanaged
    BY <1>3 DEF ManagedHaveBots, SuspendedUnmanaged, ManagedSlots
  <1>7. SteamIdOwned
    BY DEF Init, NoClient, ClosedWindow, NoSnapshot, SteamIdOwned
  <1>8. SameServer /\ Lease!Init
    BY DEF Init, EmptyRegistry, SameServer, Lease!Init
  <1> QED BY <1>1, <1>4, <1>5, <1>6, <1>7, <1>8 DEF Ownership

(***************************************************************************)
(* A step that takes no identity back from a slot keeps the invariant, and *)
(* is a step of the abstract lease or leaves the slot table as it is.      *)
(***************************************************************************)
LEMMA StepLeases == Leased /\ NoReuse /\ [Next]_vars => LeaseKept
  <1> SUFFICES ASSUME Leased, NoReuse, [Next]_vars
               PROVE  LeaseKept
    OBVIOUS
  <1>1. TypeOK'
    BY StepType DEF Leased
  <1>2. CASE \E s \in Slots : ClientCall(s)
    BY <1>1, <1>2, ClientCallKeeps
  <1>3. CASE EngineEvent
    BY <1>1, <1>3, EngineEventKeeps
  <1>4. CASE CommandPre
    BY <1>1, <1>4, CommandPreKeeps
  <1>5. CASE CommandPost
    BY <1>1, <1>5, CommandPostKeeps
  <1>6. CASE GameFramePost
    BY <1>1, <1>6, FrameKeeps
  <1>7. CASE UNCHANGED vars
    <2>1. (Suspended' => Suspended) /\ UNCHANGED <<reg, client, win>>
      BY <1>7 DEF vars, Suspended
    <2> QED BY <1>1, <2>1, UnchangedKeeps
  <1> QED BY <1>2, <1>3, <1>4, <1>5, <1>6, <1>7 DEF Next

(***************************************************************************)
(* Only the game server's loss changes which server runs, and it can only  *)
(* come to another one.                                                    *)
(***************************************************************************)
LEMMA SameServerStays ==
    ASSUME TypeOK, [Next]_vars
    PROVE  /\ SameServer => SameServer' \/ ServerWasLost'
           /\ ServerWasLost => ServerWasLost'
           /\ ServerWasLost' => ServerWasLost \/ ~NoLoss
  <1> USE DEF SameServer, ServerWasLost
  <1>1. /\ server \in [ up : BOOLEAN, map : Maps \cup {NoMap},
                        addon : Addons \cup {NoMap}, id : Nat ]
        /\ MaxLosses \in Nat
    BY PluginAssumption DEF TypeOK
  <1>2. CASE \E s \in Slots : ClientCall(s)
    BY <1>1, <1>2 DEF ClientCall, HltvConnects, ClientIgnored, BotConnects,
                      ControllerSpawns, ClientPutInServer, ClientDisconnect, SteamIdReappears
  <1>3. CASE EngineEvent
    <2>1. CASE ServerGone
      BY <1>1, <2>1 DEF ServerGone, NoLoss
    <2>2. CASE ServerBack
      BY <1>1, <2>2 DEF ServerBack
    <2> QED BY <1>1, <1>3, <2>1, <2>2 DEF EngineEvent, LevelInit, MapNameArrives, MapCommand
  <1>4. CASE CommandPre
    BY <1>1, <1>4 DEF CommandPre, CallvotePre, KickPre, NamedKickPre,
                      UnmatchedKickPre, BotAddPre, Dispatch
  <1>5. CASE CommandPost
    BY <1>1, <1>5 DEF CommandPost, CallvotePost, KickPost, BotAddPost, Returns
  <1>6. CASE GameFramePost
    BY <1>1, <1>6 DEF GameFramePost
  <1>7. CASE UNCHANGED vars
    BY <1>1, <1>7 DEF vars
  <1> QED BY <1>2, <1>3, <1>4, <1>5, <1>6, <1>7 DEF Next

(***************************************************************************)
(* As long as the server has not been lost managed slots keep their bots   *)
(* as well.                                                                *)
(***************************************************************************)
LEMMA StepKeeps == Ownership /\ [Next]_vars => Ownership' \/ ServerWasLost'
  <1> SUFFICES ASSUME Ownership, [Next]_vars, ~ServerWasLost'
               PROVE  Ownership'
    OBVIOUS
  <1>1. Leased /\ NoReuse /\ SameServer
    BY OwnershipIsLeased, PresentNeverReuses
  <1>2. LeaseKept
    BY <1>1, StepLeases
  <1>3. SameServer'
    BY <1>1, SameServerStays DEF Leased
  <1>4. (Leased /\ SameServer /\ ManagedHaveBots => Ownership)'
    BY OwnershipIsLeased, PTL
  <1> QED BY <1>2, <1>3, <1>4 DEF LeaseKept

(***************************************************************************)
(* The inductive invariant of the pool, on any list, until the first loss  *)
(* of the server.                                                          *)
(***************************************************************************)
THEOREM OwnedUntilLoss == Spec => [](Ownership \/ ServerWasLost)
  <1> DEFINE Inv == TypeOK /\ (Ownership \/ ServerWasLost)
  <1>1. Init => Inv
    BY InitOwns DEF Ownership
  <1>2. Inv /\ [Next]_vars => Inv'
    <2> SUFFICES ASSUME Inv, [Next]_vars
                 PROVE  Inv'
      OBVIOUS
    <2>1. TypeOK'
      BY StepType
    <2>2. CASE Ownership
      BY <2>1, <2>2, StepKeeps
    <2>3. CASE ServerWasLost
      BY <2>1, <2>3, SameServerStays
    <2> QED BY <2>2, <2>3
  <1> QED BY <1>1, <1>2, PTL DEF Spec

(***************************************************************************)
(* The inductive invariant of the identity pool, the window and the        *)
(* clients, on a server that is never lost.                                *)
(***************************************************************************)
THEOREM OwnershipHolds ==
    ASSUME NoLoss
    PROVE  Spec => []Ownership
  <1>1. Init => Ownership /\ ~ServerWasLost
    BY InitOwns DEF Ownership, SameServer, ServerWasLost
  <1>2. Ownership /\ ~ServerWasLost /\ [Next]_vars => (Ownership /\ ~ServerWasLost)'
    BY StepKeeps, SameServerStays DEF Ownership
  <1> QED BY <1>1, <1>2, PTL DEF Spec

(***************************************************************************)
(* What the pool needs so as never to take an identity back from a slot    *)
(* that is marked with it (GetFree's second pass): a server that is never  *)
(* lost, so that every managed slot has its bot, or a list long enough.    *)
(***************************************************************************)
LEMMA LeasedAndFree ==
    ASSUME NoLoss \/ AmplePool
    PROVE  Spec => [](Leased /\ NoReuse)
  <1>1. CASE NoLoss
    <2>1. Ownership => Leased /\ NoReuse
      BY OwnershipIsLeased, PresentNeverReuses
    <2> QED BY <1>1, <2>1, OwnershipHolds, PTL
  <1>2. CASE AmplePool
    <2>1. Leased => NoReuse
      BY <1>2, AmpleNeverReuses DEF Leased, TypeOK
    <2>2. Leased /\ [Next]_vars => Leased'
      BY <2>1, StepLeases DEF LeaseKept
    <2> QED BY <2>1, <2>2, InitOwns, PTL DEF Spec
  <1> QED BY <1>1, <1>2

(***************************************************************************)
(* The inductive invariant of the pool, in particular.                     *)
(***************************************************************************)
THEOREM LeasesHold ==
    ASSUME NoLoss \/ AmplePool
    PROVE  Spec => []Leased
  BY LeasedAndFree, PTL

(***************************************************************************)
(* A SteamID64 on a client, or waiting in the window to be written back,   *)
(* is its slot's own, through every window, suspension, reconnect and loss *)
(* of the game server.                                                     *)
(***************************************************************************)
THEOREM SteamIdsOwned ==
    ASSUME NoLoss \/ AmplePool
    PROVE  Spec => []SteamIdOwned
  <1>1. Leased => SteamIdOwned
    BY DEF Leased
  <1> QED BY <1>1, LeasesHold, PTL

(***************************************************************************)
(* No two clients ever carry one SteamID64, even if the identity list      *)
(* names it twice.                                                         *)
(***************************************************************************)
THEOREM SteamIdsUnique ==
    ASSUME NoLoss \/ AmplePool
    PROVE  Spec => []UniqueSteamId
  <1>1. Leased => UniqueSteamId
    <2> SUFFICES ASSUME Leased, NEW s \in Slots, NEW t \in Slots, s # t,
                        client[s].sid # 0, client[s].sid = client[t].sid
                 PROVE  FALSE
      BY DEF UniqueSteamId
    <2>1. /\ IsManaged(reg, s) /\ client[s].sid = SteamIdOf[reg.m_Slots[s]]
          /\ IsManaged(reg, t) /\ client[t].sid = SteamIdOf[reg.m_Slots[t]]
      BY DEF Leased, SteamIdOwned
    <2>2. ~Clash(reg.m_Slots[s], reg.m_Slots[t])
      BY <2>1 DEF Leased, Exclusive
    <2> QED BY <2>1, <2>2 DEF Clash
  <1> QED BY <1>1, LeasesHold, PTL

(***************************************************************************)
(* No two slots hold identities that share a name or a SteamID64.          *)
(***************************************************************************)
THEOREM LeasesStayExclusive ==
    ASSUME NoLoss \/ AmplePool
    PROVE  Spec => []LeasesExclusive
  <1>1. Leased => LeasesExclusive
    BY ExclusiveIsLeases DEF Leased
  <1> QED BY <1>1, LeasesHold, PTL

(***************************************************************************)
(* The plugin implements the abstract identity lease: whatever the hooks   *)
(* do in one call, the slot table sees one grant, one release or nothing.  *)
(***************************************************************************)
THEOREM LeaseImplemented ==
    ASSUME NoLoss \/ AmplePool
    PROVE  Spec => ImplementsLease
  <1>1. Leased /\ NoReuse /\ [Next]_vars => [Lease!Next]_(reg.m_Slots)
    BY StepLeases DEF LeaseKept
  <1>2. Spec => [](Leased /\ NoReuse)
    BY LeasedAndFree
  <1> QED BY <1>1, <1>2, InitOwns, PTL DEF Spec, ImplementsLease, Lease!Spec

-----------------------------------------------------------------------------
(* A list that runs out                                                    *)

\* An identity is recorded in a slot that holds it.
Pointed(r) == \A s \in Slots, b \in Bots : r.slot[b] = s => r.m_Slots[s] = b

(***************************************************************************)
(* Releasing slots takes the record from every identity they held          *)
(* (IdentityManager::Unmark).                                              *)
(***************************************************************************)
LEMMA UnmarkPoints ==
    ASSUME NEW r \in Registry, NEW S \in SUBSET Slots, Pointed(r)
    PROVE  Pointed(Unmark(r, S))
  <1> DEFINE u == Unmark(r, S)
  <1> SUFFICES ASSUME NEW s \in Slots, NEW b \in Bots, u.slot[b] = s
               PROVE  u.m_Slots[s] = b
    BY DEF Pointed
  <1>1. s # None
    BY PoolAssumption DEF Slots, None
  <1>2. u.slot[b] = IF b \in {r.m_Slots[t] : t \in S} THEN None ELSE r.slot[b]
    BY DEF Unmark
  <1>3. r.slot[b] = s /\ b \notin {r.m_Slots[t] : t \in S}
    BY <1>1, <1>2
  <1>4. r.m_Slots[s] = b /\ s \notin S
    BY <1>3 DEF Pointed
  <1> QED BY <1>4 DEF Unmark

(***************************************************************************)
(* Handing an identity, a stale one too, to a slot that holds none         *)
(* (ResetForReuse, Mark).                                                  *)
(***************************************************************************)
LEMMA GrantPoints ==
    ASSUME NEW r \in Registry, NEW s \in Slots, NEW b \in Bots,
           Pointed(r), r.m_Slots[s] = None
    PROVE  Pointed(Mark(ResetForReuse(r, b), s, b))
  <1> DEFINE f == ResetForReuse(r, b)
  <1>1. /\ f \in Registry
        /\ f.m_Slots = r.m_Slots
        /\ \A c \in Bots : f.slot[c] = r.slot[c] \/ (c = b /\ f.slot[c] = None)
    <2>1. f \in Registry
      BY ResetForReuseType
    <2>2. CASE r.slot[b] = None
      BY <2>1, <2>2 DEF ResetForReuse
    <2>3. CASE r.slot[b] # None
      <3>1. f.m_Slots = r.m_Slots /\ f.slot = [r.slot EXCEPT ![b] = None]
        BY <2>3 DEF ResetForReuse, Registry
      <3> QED BY <2>1, <3>1 DEF Registry
    <2> QED BY <2>2, <2>3
  <1> HIDE DEF f
  <1> SUFFICES ASSUME NEW t \in Slots, NEW c \in Bots, Mark(f, s, b).slot[c] = t
               PROVE  Mark(f, s, b).m_Slots[t] = c
    BY DEF Pointed, f
  <1>2. t # None /\ c # None
    BY PoolAssumption DEF Slots, Bots, None
  <1>3. f.slot[c] = t
    BY <1>1 DEF Mark, Registry
  <1>4. r.m_Slots[t] = c
    BY <1>1, <1>2, <1>3 DEF Pointed
  <1>5. t # s
    BY <1>2, <1>4
  <1> QED BY <1>1, <1>4, <1>5 DEF Mark, Registry

(***************************************************************************)
(* ApplyDisguise records an identity in a slot that holds it.              *)
(***************************************************************************)
LEMMA RecordPoints ==
    ASSUME NEW r \in Registry, NEW called, NEW done, Pointed(r)
    PROVE  Pointed(RecordDisguise(r, called, done))
  <1> DEFINE d == RecordDisguise(r, called, done)
  <1> SUFFICES ASSUME NEW s \in Slots, NEW b \in Bots, d.slot[b] = s
               PROVE  d.m_Slots[s] = b
    BY DEF Pointed
  <1>1. d.m_Slots = r.m_Slots
    BY DEF RecordDisguise, Registry
  <1>2. d.slot[b] = IF \E t \in Slots : LastCall(r, called, b, t)
                    THEN CHOOSE t \in Slots : LastCall(r, called, b, t)
                    ELSE r.slot[b]
    BY DEF RecordDisguise, Registry
  <1>3. CASE \E t \in Slots : LastCall(r, called, b, t)
    <2>1. LastCall(r, called, b, s)
      BY <1>2, <1>3
    <2> QED BY <1>1, <2>1 DEF LastCall
  <1>4. CASE ~\E t \in Slots : LastCall(r, called, b, t)
    BY <1>1, <1>2, <1>4 DEF Pointed
  <1> QED BY <1>3, <1>4

(***************************************************************************)
(* What the registry is after any hook: as it was, with slots released, or *)
(* with disguises recorded in it or in what a connecting slot was granted. *)
(***************************************************************************)
RegistryStep ==
    \/ reg' = reg
    \/ \E S \in SUBSET Slots : reg' = Unmark(reg, S)
    \/ \E called, done : reg' = RecordDisguise(reg, called, done)
    \/ \E s \in Slots, b \in Bots : \E called, done :
          reg' = RecordDisguise(Mark(ResetForReuse(VacatedRegistry(s), b), s, b), called, done)

(***************************************************************************)
(* The gate releases every slot, or leaves the rest of its hook to run.    *)
(***************************************************************************)
LEMMA PassGateSteps ==
    ASSUME NEW first, NEW second, NEW otherwise,
           PassGate(first, second, otherwise), otherwise => RegistryStep
    PROVE  RegistryStep
  <1>1. ReleaseManagedSlots => RegistryStep
    BY DEF ReleaseManagedSlots, ManagedSlots, RegistryStep
  <1> QED BY <1>1 DEF PassGate

(***************************************************************************)
(* The window's end disguises those it deferred (RestorePlayerIdentity).   *)
(***************************************************************************)
LEMMA CloseWindowSteps == CloseWindow => RegistryStep
  BY DEF CloseWindow, RestorePlayerIdentity, ApplyDisguise, RegistryStep

(***************************************************************************)
(* Every hook writes the registry in one of these ways.                    *)
(***************************************************************************)
LEMMA RegistrySteps == [Next]_vars => RegistryStep
  <1> SUFFICES ASSUME [Next]_vars
               PROVE  RegistryStep
    OBVIOUS
  <1>1. UNCHANGED reg => RegistryStep
    BY DEF RegistryStep
  <1>2. ASSUME NEW s \in Slots, ClientCall(s)
        PROVE  RegistryStep
    <2>1. VacatedRegistry(s) = reg \/ VacatedRegistry(s) = Unmark(reg, {s})
      BY DEF VacatedRegistry
    <2>2. reg' = VacatedRegistry(s) => RegistryStep
      BY <2>1 DEF RegistryStep
    <2>3. CASE BotConnects(s)
      <3>1. PICK b \in Candidates(s), c \in Arrivals(s, "bot") :
               ApplyDisguise({s}, Mark(ResetForReuse(VacatedRegistry(s), b), s, b), c,
                             VacatedShm(s), Active)
        BY <2>3 DEF BotConnects
      <3>2. b \in Bots
        BY <3>1, GetFreeType DEF Candidates
      <3> DEFINE r == Mark(ResetForReuse(VacatedRegistry(s), b), s, b)
      <3>3. \E called, done : reg' = RecordDisguise(r, called, done)
        BY <3>1 DEF ApplyDisguise
      <3> QED BY <3>2, <3>3 DEF RegistryStep
    <2>4. CASE ClientPutInServer(s)
      BY <2>4 DEF ClientPutInServer, ApplyDisguise, RegistryStep
    <2> QED BY <1>1, <1>2, <2>2, <2>3, <2>4
            DEF ClientCall, HltvConnects, ClientIgnored, ControllerSpawns, ClientDisconnect,
                SteamIdReappears
  <1>3. CASE EngineEvent
    <2>1. UNCHANGED <<reg, client, win, shm>> => RegistryStep
      BY <1>1
    <2> QED BY <1>1, <1>3, <2>1, PassGateSteps
            DEF EngineEvent, LevelInit, MapNameArrives, MapCommand, ServerGone, ServerBack
  <1>4. CASE CommandPre
    BY <1>1, <1>4, CloseWindowSteps
    DEF CommandPre, CallvotePre, KickPre, NamedKickPre, UnmatchedKickPre, BotAddPre,
        OpenForKick, BeginAll, BeginForSlot, Begin
  <1>5. CASE CommandPost
    BY <1>1, <1>5
    DEF CommandPost, CallvotePost, KickPost, BotAddPost, ApplyDisguise, RegistryStep
  <1>6. CASE GameFramePost
    <2> DEFINE hosted == IF ApplyMapGate(gate, BuildMapIdentity(server)).suspended
                         THEN UNCHANGED <<reg, client, win, shm>>
                         ELSE TickVoteTransaction
    <2>1. hosted => RegistryStep
      BY <1>1, CloseWindowSteps DEF TickVoteTransaction, HoldTick
    <2>2. PassGate(NoMap, BuildMapIdentity(server), hosted)
      BY <1>6 DEF GameFramePost
    <2> HIDE DEF hosted
    <2> QED BY <2>1, <2>2, PassGateSteps
  <1>7. CASE UNCHANGED vars
    BY <1>1, <1>7 DEF vars
  <1> QED BY <1>2, <1>3, <1>4, <1>5, <1>6, <1>7 DEF Next

(***************************************************************************)
(* No hook leaves an identity recorded in a slot that does not hold it.    *)
(***************************************************************************)
LEMMA StepPoints == TypeOK /\ Pointed(reg) /\ [Next]_vars => Pointed(reg')
  <1> SUFFICES ASSUME TypeOK, Pointed(reg), RegistryStep
               PROVE  Pointed(reg')
    BY RegistrySteps
  <1>1. reg \in Registry
    BY DEF TypeOK
  <1>2. ASSUME NEW s \in Slots, NEW b \in Bots, NEW called, NEW done,
               reg' = RecordDisguise(Mark(ResetForReuse(VacatedRegistry(s), b), s, b),
                                     called, done)
        PROVE  Pointed(reg')
    <2> DEFINE v == VacatedRegistry(s)
               r == Mark(ResetForReuse(v, b), s, b)
    <2>1. v \in Registry
      BY VacatedType
    <2>2. Pointed(v)
      BY <1>1, UnmarkPoints DEF VacatedRegistry
    <2>3. v.m_Slots[s] = None
      BY <1>1 DEF VacatedRegistry, IsManaged, Unmark, Registry
    <2> HIDE DEF v
    <2>4. r \in Registry
      BY <2>1, ResetForReuseType, MarkType
    <2>5. Pointed(r)
      BY <2>1, <2>2, <2>3, GrantPoints
    <2>6. reg' = RecordDisguise(r, called, done)
      BY <1>2 DEF v
    <2> HIDE DEF r
    <2> QED BY <2>4, <2>5, <2>6, RecordPoints
  <1> QED BY <1>1, <1>2, UnmarkPoints, RecordPoints DEF RegistryStep

(***************************************************************************)
(* bot_info.cpp never records an identity in a slot that does not hold it, *)
(* on any list and through any loss of the server; and a slot holds an     *)
(* identity recorded elsewhere only after a loss, where the list ran out.  *)
(***************************************************************************)
THEOREM TablesAgree == Spec => []RegistryConsistent
  <1> DEFINE Inv == TypeOK /\ Pointed(reg)
  <1>1. Spec => []Inv
    <2>1. Init => Inv
      BY InitOwns DEF Ownership, Consistent, Pointed
    <2>2. Inv /\ [Next]_vars => Inv'
      <3>1. Pointed(reg') <=> Pointed(reg)'
        BY DEF Pointed
      <3> QED BY <3>1, StepType, StepPoints
    <2> QED BY <2>1, <2>2, PTL DEF Spec
  <1>2. CASE AmplePool
    <2>1. Leased => RegistryConsistent
      BY DEF Leased, Consistent, RegistryConsistent
    <2> QED BY <1>2, <2>1, LeasesHold, PTL
  <1>3. CASE ~AmplePool
    <2>1. Inv /\ (Ownership \/ ServerWasLost) => RegistryConsistent
      BY <1>3 DEF Ownership, Consistent, Pointed, PoolLasts, RegistryConsistent
    <2> QED BY <1>1, <2>1, OwnedUntilLoss, PTL
  <1> QED BY <1>2, <1>3

=============================================================================
