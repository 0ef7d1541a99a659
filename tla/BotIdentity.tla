---------------------------- MODULE BotIdentity -----------------------------
(***************************************************************************)
(* The plugin's hooks (src/src/plugin.cpp), composed from the identity     *)
(* pool, the native-identity window, the map gate and the shared-memory    *)
(* publisher.  Every hook runs on the game's main thread, so each is one   *)
(* action; what interleaves is the order in which the engine calls them,   *)
(* the commands that are dispatched inside one another, and the engine's   *)
(* own writes between them.                                                *)
(*                                                                         *)
(* ControllerReap's calls (MoveManagedBotToSpectator, Queue- and           *)
(* DrainPendingControllerRemovals, ReapOrphanControllers,                  *)
(* NeutralizeCollidingLeftoverUserIds) write controllers' teams, a removal *)
(* list and user ids; nothing here reads those.  They are modelled in      *)
(* ControllerReap.  Nor does anything read the pings the jitter publishes. *)
(***************************************************************************)
EXTENDS VoteWindow, Sequences

CONSTANTS
    HoldFrames,        \* features.voteTransactionHoldFrames, after its clamp
    CrosshairBots,     \* identities with a crosshair code
    Maps,              \* map names the server may load
    Addons,            \* workshop addon names it may report
    Blacklisted,       \* those MapMatchesBlacklist matches
    Commands,          \* console commands that are dispatched
    Visitors,          \* clients other than bots: "human", "hltv"
    LateControllers,   \* may a controller appear after OnClientConnected?
    ForeignWrites,     \* may the engine write a SteamID back during the window?
    MaxLosses,         \* bound: game servers lost
    MaxNesting,        \* bound: commands dispatched inside one another
    MaxDepth,          \* bound: g_VoteDepth, an unsigned int
    IncarnationLimit   \* bound: the incarnation, a uint64, is counted modulo this

ASSUME PluginAssumption ==
    /\ HoldFrames \in 1 .. 32
    /\ CrosshairBots \subseteq Bots
    /\ Visitors \subseteq {"human", "hltv"}
    /\ LateControllers \in BOOLEAN
    /\ ForeignWrites \in BOOLEAN
    /\ MaxLosses \in Nat
    /\ IncarnationLimit \in Nat \ {0, 1}

VARIABLES
    reg,        \* BotInfo and IdentityManager
    client,     \* the engine's CServerSideClient of every slot
    win,        \* the native-identity window
    shm,        \* a slot's entry in /dev/shm/CS2BotHider_Slots
    gate,       \* s_GateMap, s_MapSuspended
    server,     \* the engine's game server: alive, what it reports, which one
    cmds,       \* console commands between their Pre and their Post hook
    popDepth    \* m_PopulationCommandDepth

vars == <<reg, client, win, shm, gate, server, cmds, popDepth>>

NoMap == ""

CommandNames == {"callvote", "kick", "bot_kick name", "bot_kick unknown", "bot_add"}

\* bot is the identity that SlotState, SyntheticSid and PersonaName describe.
ShmEntry ==
    [ bot       : Bots \cup {None},
      crosshair : Bots \cup {None},
      inc       : 0 .. IncarnationLimit - 1 ]

TypeOK ==
    /\ reg \in Registry
    /\ client \in [Slots -> Client]
    /\ win \in Window
    /\ shm \in [Slots -> ShmEntry]
    /\ gate \in [map : Maps \cup Addons \cup {NoMap}, suspended : BOOLEAN]
    /\ server \in [ up : BOOLEAN, map : Maps \cup {NoMap},
                    addon : Addons \cup {NoMap}, id : Nat ]
    /\ cmds \in Seq([name : CommandNames, slot : Slots \cup {None}])
    /\ popDepth \in Nat

Init ==
    /\ reg = EmptyRegistry
    /\ client = [s \in Slots |-> NoClient]
    /\ win = ClosedWindow
    /\ shm = [s \in Slots |-> [bot |-> None, crosshair |-> None, inc |-> 0]]
    /\ gate = [map |-> NoMap, suspended |-> FALSE]
    /\ server = [up |-> TRUE, map |-> NoMap, addon |-> NoMap, id |-> 0]
    /\ cmds = <<>>
    /\ popDepth = 0

Suspended == gate.suspended
Active == VoteTransactionActive(win)

\* The slots for which ResolveClientBySlot finds a client.
Present(c) == {s \in Slots : c[s].who # "none"}

-----------------------------------------------------------------------------
(* Disguising: ApplyDisguise, for the slots of P in slot order.            *)

\* Mutant: bots are disguised while the window is open.
DisguisedInWindow(P, r, c, deferred) ==
    {s \in P \cap Present(c) :
        \A t \in P \cap Present(c) : r.m_Slots[t] = r.m_Slots[s] => s <= t}

(***************************************************************************)
(* It does nothing for an identity already applied, so where two slots     *)
(* name one identity only the first with a client is disguised.            *)
(***************************************************************************)
Disguised(P, r, c, deferred) ==
    {s \in P \cap Present(c) :
        ~deferred /\ \A t \in P \cap Present(c) : r.m_Slots[t] = r.m_Slots[s] => s <= t}

Called(P, r, done) ==
    {s \in P : \A t \in done : r.m_Slots[t] = r.m_Slots[s] => s <= t}

PublishAdopt(e, b) ==
    [ bot       |-> b,
      crosshair |-> IF b \in CrosshairBots THEN b ELSE e.crosshair,
      inc       |-> (e.inc + 1) % IncarnationLimit ]

\* Mutant: the slot stays published.
PublishNothing(e) == e

PublishRelease(e) == [e EXCEPT !.bot = None]

(***************************************************************************)
(* Starting from the registry r, the clients c and the shared memory e     *)
(* that the handler has reached; `deferred` when the window holds native   *)
(* markers.                                                                *)
(***************************************************************************)
ApplyDisguise(P, r, c, e, deferred) ==
    LET done == Disguised(P, r, c, deferred)
        bot(s) == r.m_Slots[s]
    IN  /\ reg' = RecordDisguise(r, Called(P, r, done), done)
        /\ client' = [s \in Slots |->
                         IF s \in done
                         THEN PlayerMarkers(c[s], SteamIdOf[bot(s)], TRUE)
                         ELSE c[s]]
        /\ shm' = [s \in Slots |->
                      IF s \in done THEN PublishAdopt(e[s], bot(s)) ELSE e[s]]

\* Mutant: deferred disguises are not applied when the window closes.
RestoreWithoutDeferred ==
    IF win.valid
    THEN ApplyDisguise(
            {}, reg,
            RestoreMarkers(win, Touchable(win, reg, server.id, Present(client)), client),
            shm, FALSE)
    ELSE UNCHANGED <<reg, client, shm>>

(***************************************************************************)
(* RestorePlayerIdentity: put the captured markers back, then disguise     *)
(* whoever was deferred.  Without a valid snapshot it returns at once.     *)
(***************************************************************************)
RestorePlayerIdentity ==
    IF win.valid
    THEN ApplyDisguise(
            PendingSlots(reg), reg,
            RestoreMarkers(win, Touchable(win, reg, server.id, Present(client)), client),
            shm, FALSE)
    ELSE UNCHANGED <<reg, client, shm>>

CloseWindow ==
    /\ win' = EndWindow(win)
    /\ RestorePlayerIdentity

-----------------------------------------------------------------------------
(* Clients                                                                 *)

(***************************************************************************)
(* The engine makes client calls between commands, and inside the commands *)
(* that add or remove clients.                                             *)
(***************************************************************************)
ClientCallsPossible ==
    /\ server.up
    /\ cmds # <<>> => cmds[Len(cmds)].name \notin {"callvote", "bot_kick unknown"}

EngineFlag(who) == IF who = "human" THEN "player" ELSE "native"

Arrival(who, ctrl) ==
    [ who |-> who, mark |-> EngineFlag(who), sid |-> 0, ctrl |-> ctrl, inGame |-> FALSE ]

MayConnect(s) == ClientCallsPossible /\ client[s].who = "none"

Arrivals(s, who) ==
    {[client EXCEPT ![s] = Arrival(who, ctrl)] :
        ctrl \in {EngineFlag(who)} \cup (IF LateControllers THEN {"none"} ELSE {})}

\* Mutant: a slot that is still managed is left marked.
KeepRegistry(s) == reg

\* What OnClientConnected does first about a slot that is still managed.
VacatedRegistry(s) == IF IsManaged(reg, s) THEN Unmark(reg, {s}) ELSE reg
VacatedShm(s) ==
    IF IsManaged(reg, s) THEN [shm EXCEPT ![s] = PublishRelease(@)] ELSE shm
VacatedWindow(s) == IF IsManaged(reg, s) THEN ResetSlot(win, s) ELSE win

\* The identities GetFree may hand to a bot connecting in slot s.
Candidates(s) == GetFree(VacatedRegistry(s), Present(client) \cup {s})

\* OnClientConnected returns on an HLTV name before it releases anything.
HltvConnects(s) ==
    /\ MayConnect(s)
    /\ "hltv" \in Visitors
    /\ client' \in Arrivals(s, "hltv")
    /\ UNCHANGED <<reg, win, shm, gate, server, cmds, popDepth>>

\* A human, or any client of a suspended map, or a bot no identity is left for.
ClientIgnored(s, who) ==
    /\ MayConnect(s)
    /\ \/ who = "human" /\ who \in Visitors
       \/ who = "bot" /\ (Suspended \/ Candidates(s) = {})
    /\ client' \in Arrivals(s, who)
    /\ reg' = VacatedRegistry(s)
    /\ shm' = VacatedShm(s)
    /\ win' = VacatedWindow(s)
    /\ UNCHANGED <<gate, server, cmds, popDepth>>

BotConnects(s) ==
    /\ MayConnect(s)
    /\ ~Suspended
    /\ \E b \in Candidates(s), c \in Arrivals(s, "bot") :
          ApplyDisguise({s}, Mark(ResetForReuse(VacatedRegistry(s), b), s, b), c,
                        VacatedShm(s), Active)
    /\ win' = VacatedWindow(s)
    /\ UNCHANGED <<gate, server, cmds, popDepth>>

\* The engine creates the client's controller after the client connected.
ControllerSpawns(s) ==
    /\ server.up
    /\ client[s].who # "none"
    /\ client[s].ctrl = "none"
    /\ client' = [client EXCEPT ![s].ctrl = EngineFlag(client[s].who)]
    /\ UNCHANGED <<reg, win, shm, gate, server, cmds, popDepth>>

ClientPutInServer(s) ==
    /\ ClientCallsPossible
    /\ client[s].who # "none"
    /\ client[s].ctrl # "none"
    /\ ~client[s].inGame
    /\ ApplyDisguise(IF Suspended THEN {} ELSE PendingSlots(reg) \cap {s}, reg,
                     [client EXCEPT ![s].inGame = TRUE], shm, Active)
    /\ UNCHANGED <<win, gate, server, cmds, popDepth>>

(***************************************************************************)
(* The Pre hook releases the slot; then the engine frees the client, and   *)
(* with it the native markers RestoreIdentity has just written.            *)
(***************************************************************************)
ClientDisconnect(s) ==
    /\ ClientCallsPossible
    /\ client[s].who # "none"
    /\ IF Suspended
       THEN UNCHANGED <<reg, win, shm>>
       ELSE /\ reg' = VacatedRegistry(s)
            /\ win' = VacatedWindow(s)
            /\ shm' = VacatedShm(s)
    /\ client' = [client EXCEPT ![s] = NoClient]
    /\ UNCHANGED <<gate, server, cmds, popDepth>>

\* "steamid reappeared": the engine writes the SteamID of a captured client again.
SteamIdReappears(s) ==
    /\ ForeignWrites
    /\ s \in Touchable(win, reg, server.id, Present(client))
    /\ client' = [client EXCEPT ![s].sid = win.snap[s].sscSteamId]
    /\ UNCHANGED <<reg, win, shm, gate, server, cmds, popDepth>>

-----------------------------------------------------------------------------
(* The map gate and the game server                                        *)

BuildMapIdentity(sv) ==
    IF ~sv.up THEN NoMap ELSE IF sv.map # NoMap THEN sv.map ELSE sv.addon

\* Mutant: hosting is never resumed.
ApplyMapGateLatched(g, m) ==
    IF m \in {NoMap, g.map}
    THEN g
    ELSE [map |-> m, suspended |-> g.suspended \/ m \in Blacklisted]

ApplyMapGate(g, m) ==
    IF m \in {NoMap, g.map}
    THEN g
    ELSE [map |-> m, suspended |-> m \in Blacklisted]

\* RestoreIdentity returns before PublishRelease where the slot has no client.
ReleaseManagedSlots ==
    LET restored == ManagedSlots(reg) \cap Present(client)
    IN  /\ win' = ClosedWindow
        /\ reg' = Unmark(reg, ManagedSlots(reg))
        /\ client' = [s \in Slots |-> IF s \in restored
                                      THEN NativeMarkers(client[s], TRUE)
                                      ELSE client[s]]
        /\ shm' = [s \in Slots |-> IF s \in restored
                                   THEN PublishRelease(shm[s])
                                   ELSE shm[s]]

(***************************************************************************)
(* Two calls of ApplyMapGate in a row, then `otherwise` unless one of them *)
(* released the slots.                                                     *)
(***************************************************************************)
PassGate(first, second, otherwise) ==
    LET g1 == ApplyMapGate(gate, first)
        g2 == ApplyMapGate(g1, second)
    IN  /\ gate' = g2
        /\ IF \/ ~gate.suspended /\ g1.suspended
              \/ ~g1.suspended /\ g2.suspended
           THEN ReleaseManagedSlots
           ELSE otherwise

(***************************************************************************)
(* OnLevelInit.  The name the engine reports may still be empty, and may   *)
(* also be missing from the call.                                          *)
(***************************************************************************)
LevelInit(m, addon) ==
    /\ cmds = <<>>
    /\ server' \in {[server EXCEPT !.map = live, !.addon = addon] : live \in {m, NoMap}}
    /\ \E pMapName \in {m, NoMap} :
          PassGate(pMapName, BuildMapIdentity(server'), UNCHANGED <<reg, client, win, shm>>)
    /\ UNCHANGED <<cmds, popDepth>>

MapNameArrives(m) ==
    /\ server.up
    /\ server.map = NoMap
    /\ server' = [server EXCEPT !.map = m]
    /\ UNCHANGED <<reg, client, win, shm, gate, cmds, popDepth>>

\* map, changelevel, host_workshop_map: Post only; the level changes later.
MapCommand(arg) ==
    /\ cmds = <<>>
    /\ PassGate(IF arg \in Blacklisted THEN arg ELSE NoMap, BuildMapIdentity(server),
                UNCHANGED <<reg, client, win, shm>>)
    /\ UNCHANGED <<server, cmds, popDepth>>

\* The game server goes away with its clients, and no disconnect hook runs.
ServerGone ==
    /\ cmds = <<>>
    /\ server.up
    /\ server.id < MaxLosses
    /\ server' = [up |-> FALSE, map |-> NoMap, addon |-> NoMap, id |-> server.id + 1]
    /\ client' = [s \in Slots |-> NoClient]
    /\ UNCHANGED <<reg, win, shm, gate, cmds, popDepth>>

ServerBack ==
    /\ ~server.up
    /\ server' = [server EXCEPT !.up = TRUE]
    /\ UNCHANGED <<reg, client, win, shm, gate, cmds, popDepth>>

-----------------------------------------------------------------------------
(* Frames                                                                  *)

HoldTick ==
    /\ client' = ReassertMarkers(
                    win, Touchable(win, reg, server.id, Present(client)), client)
    /\ win' = [win EXCEPT !.hold = @ - 1]
    /\ UNCHANGED <<reg, shm>>

TickVoteTransaction ==
    \/ /\ win.hold = 0
       /\ ~Active \/ server.up
       /\ UNCHANGED <<reg, client, win, shm>>
    \/ /\ Active \/ win.hold # 0
       /\ ~server.up
       /\ win' = ClosedWindow
       /\ UNCHANGED <<reg, client, shm>>
    \/ server.up /\ win.hold > 1 /\ HoldTick
    \/ server.up /\ win.hold = 1 /\ CloseWindow

\* The poll decides whether this frame is hosted at all.
GameFramePost ==
    /\ cmds = <<>>
    /\ LET id == BuildMapIdentity(server)
       IN  PassGate(NoMap, id,
                    IF ApplyMapGate(gate, id).suspended
                    THEN UNCHANGED <<reg, client, win, shm>>
                    ELSE TickVoteTransaction)
    /\ UNCHANGED <<server, cmds, popDepth>>

-----------------------------------------------------------------------------
(* Console commands: DispatchConCommand Pre, then Post.  Both return at    *)
(* once on a suspended map, so such a command is not modelled.             *)

Dispatch(name, slot) ==
    /\ name \in Commands
    /\ ~Suspended
    /\ server.up
    /\ Len(cmds) < MaxNesting
    /\ cmds' = Append(cmds, [name |-> name, slot |-> slot])
    /\ UNCHANGED <<gate, server>>

Begin(S, valid) ==
    /\ win.depth < MaxDepth
    /\ win' = BeginWindow(win, S, valid, client, server.id)
    /\ client' = BeginMarkers(win, S, client)
    /\ UNCHANGED <<reg, shm>>

BeginAll == Begin(ManagedSlots(reg) \cap Present(client), TRUE)

BeginForSlot(s) == Begin({s} \cap Present(client), s \in Present(client))

CallvotePre ==
    /\ Dispatch("callvote", None)
    /\ BeginAll
    /\ UNCHANGED popDepth

\* A kick opens a window of its own unless a vote's is open.
OpenForKick(begin) ==
    IF ~Active \/ popDepth # 0
    THEN begin /\ popDepth' = popDepth + 1
    ELSE UNCHANGED <<reg, client, win, shm, popDepth>>

\* bot_kick [all|t|ct], kick, kickid, banid.
KickPre ==
    /\ Dispatch("kick", None)
    /\ OpenForKick(BeginAll)

\* FindManagedSlotByPersonaName: the highest managed slot of that name.
SlotOfPersona(s) ==
    /\ IsManaged(reg, s)
    /\ \A t \in ManagedSlots(reg) :
          NameOf[reg.m_Slots[t]] = NameOf[reg.m_Slots[s]] => t <= s

NamedKickPre(s) ==
    /\ SlotOfPersona(s)
    /\ Dispatch("bot_kick name", s)
    /\ OpenForKick(BeginForSlot(s))

UnmatchedKickPre ==
    /\ Dispatch("bot_kick unknown", None)
    /\ UNCHANGED <<reg, client, win, shm, popDepth>>

BotAddPre ==
    /\ Dispatch("bot_add", None)
    /\ IF Active THEN CloseWindow ELSE UNCHANGED <<reg, client, win, shm>>
    /\ UNCHANGED popDepth

Returns(names) ==
    /\ cmds # <<>>
    /\ cmds[Len(cmds)].name \in names
    /\ cmds' = SubSeq(cmds, 1, Len(cmds) - 1)
    /\ UNCHANGED <<gate, server>>

CallvotePost ==
    /\ Returns({"callvote"})
    /\ win' = ScheduleEnd(win, HoldFrames)
    /\ UNCHANGED <<reg, client, shm, popDepth>>

\* Mutants: the count goes down untested, or only while the window is open.
DepthUntested == popDepth - 1
DepthIfActive == IF popDepth = 0 \/ ~Active THEN popDepth ELSE popDepth - 1

DepthAfterKick == IF popDepth = 0 THEN 0 ELSE popDepth - 1

\* Mutant: a kick that reused a window schedules its end afresh.
WindowRescheduled == IF popDepth <= 1 THEN ScheduleEnd(win, HoldFrames) ELSE win

WindowAfterKick == IF popDepth = 1 THEN ScheduleEnd(win, HoldFrames) ELSE win

\* Every kick's Post counts down, whether or not its Pre counted up.
KickPost ==
    /\ Returns({"kick", "bot_kick name", "bot_kick unknown"})
    /\ popDepth' = DepthAfterKick
    /\ win' = WindowAfterKick
    /\ UNCHANGED <<reg, client, shm>>

\* ApplyPendingDisguises.
BotAddPost ==
    /\ Returns({"bot_add"})
    /\ ApplyDisguise(PendingSlots(reg), reg, client, shm, Active)
    /\ UNCHANGED <<win, popDepth>>

-----------------------------------------------------------------------------
ClientCall(s) ==
    \/ HltvConnects(s)
    \/ \E who \in {"bot", "human"} : ClientIgnored(s, who)
    \/ BotConnects(s)
    \/ ControllerSpawns(s)
    \/ ClientPutInServer(s)
    \/ ClientDisconnect(s)
    \/ SteamIdReappears(s)

EngineEvent ==
    \/ \E m \in Maps, addon \in Addons \cup {NoMap} : LevelInit(m, addon)
    \/ \E m \in Maps : MapNameArrives(m)
    \/ "map" \in Commands /\ \E arg \in Maps \cup Addons \cup {NoMap} : MapCommand(arg)
    \/ ServerGone
    \/ ServerBack

CommandPre ==
    \/ CallvotePre
    \/ KickPre
    \/ \E s \in Slots : NamedKickPre(s)
    \/ UnmatchedKickPre
    \/ BotAddPre

CommandPost == CallvotePost \/ KickPost \/ BotAddPost

Next ==
    \/ \E s \in Slots : ClientCall(s)
    \/ EngineEvent
    \/ CommandPre
    \/ CommandPost
    \/ GameFramePost

(***************************************************************************)
(* The engine's loop: a dispatched command returns, and however many       *)
(* commands are run, GameFrame is called again (on a server that is not    *)
(* hibernating).  Commands keep disabling the frame, so weak fairness of   *)
(* it would allow a loop without frames.                                   *)
(***************************************************************************)
Fairness == SF_vars(GameFramePost) /\ WF_vars(CommandPost)

Spec == Init /\ [][Next]_vars

FairSpec == Spec /\ Fairness

=============================================================================
