--------------------------- MODULE ControllerReap ---------------------------
(***************************************************************************)
(* src/src/controller_reap.cpp: the removal of the controllers that kicked *)
(* bots leave behind, and what the hooks of plugin.cpp do to the state it  *)
(* works on.  That state (rows of m_Clients, controller entities, the      *)
(* removal queue) is disjoint from BotIdentity's, except for which slots   *)
(* are managed; each module has the hooks' effect on its own state.        *)
(*                                                                         *)
(* A controller's entity index is its slot + 1.  A queued item names its   *)
(* controller by address and by handle; a new entity may sit at an old     *)
(* address, never under an old handle, so the handle's serial number       *)
(* decides and the address is left out.                                    *)
(***************************************************************************)
EXTENDS Integers, FiniteSets

CONSTANTS
    NumSlots,     \* rows the engine may fill
    UserIds,      \* user ids the engine issues
    CanRemove,    \* UTIL_Remove was resolved at Load
    MaxSerial,    \* bound: serial numbers of one entity index in use at a time
    MaxPending    \* bound: items queued at a time

Slots == 0 .. NumSlots - 1
LeftoverId == 65535

ASSUME ReapAssumption ==
    /\ NumSlots \in Nat \ {0}
    /\ LeftoverId \notin UserIds
    /\ CanRemove \in BOOLEAN
    /\ MaxSerial \in Nat
    /\ MaxPending \in Nat

VARIABLES
    count,        \* m_Clients.Count()
    row,          \* the CServerSideClient in every row
    ctrl,         \* the cs_player_controller at every slot's entity index
    pending,      \* g_Pending; its order means nothing
    suspended,    \* s_MapSuspended
    up            \* the game server exists

vars == <<count, row, ctrl, pending, suspended, up>>

(***************************************************************************)
(* hosted: a managed bot.  ghost: what the engine may leave of a bot, with *)
(* no net channel and no SteamID.  spawned: its signon state is not 0.     *)
(***************************************************************************)
Row ==
    [ kind    : {"null", "human", "hosted", "bot", "ghost"},
      userId  : UserIds \cup {LeftoverId},
      spawned : BOOLEAN ]

NullRow == [kind |-> "null", userId |-> LeftoverId, spawned |-> FALSE]

IsLive(r) == r.kind \in {"human", "hosted", "bot"}

Controller ==
    [ state  : {"none", "alive", "deleting"},
      serial : 0 .. MaxSerial,
      onTeam : BOOLEAN ]             \* team 2 or 3

NoController == [state |-> "none", serial |-> 0, onTeam |-> FALSE]

PendingControllerRemoval ==
    [ slot : Slots, serial : 0 .. MaxSerial, userId : UserIds \cup {LeftoverId},
      waited : BOOLEAN ]             \* referencedFrames # 0

TypeOK ==
    /\ count \in 0 .. NumSlots
    /\ row \in [Slots -> Row]
    /\ ctrl \in [Slots -> Controller]
    /\ pending \subseteq PendingControllerRemoval
    /\ suspended \in BOOLEAN
    /\ up \in BOOLEAN

Init ==
    /\ count = 0
    /\ row = [s \in Slots |-> NullRow]
    /\ ctrl = [s \in Slots |-> NoController]
    /\ pending = {}
    /\ suspended = FALSE
    /\ up = TRUE

-----------------------------------------------------------------------------
(* The functions of controller_reap.cpp, on the state st they write.       *)

st == [count |-> count, row |-> row, ctrl |-> ctrl, pending |-> pending]

Becomes(new) ==
    /\ count' = new.count
    /\ row' = new.row
    /\ ctrl' = new.ctrl
    /\ pending' = new.pending

\* ResolveClientBySlot.
Resolves(x, s) == s < x.count /\ x.row[s].kind # "null"

\* Mutant: a leftover is told by its signon state alone.
LooksLeftoverUnnamed(r) == r.kind \notin {"hosted", "human"} /\ ~r.spawned

\* Unmanaged, no net channel, user id 65535, signon state 0.
LooksLeftover(r) ==
    /\ r.kind \notin {"hosted", "human"}
    /\ r.userId = LeftoverId
    /\ ~r.spawned

ClientLooksLeftoverOrEmpty(x, s) == Resolves(x, s) => LooksLeftover(x.row[s])

\* The rows up to the last one that is not a leftover.
KeptRows(x) ==
    {s \in 0 .. x.count - 1 :
        \E t \in s .. x.count - 1 : ~ClientLooksLeftoverOrEmpty(x, t)}

\* Mutant: the index of the last row kept, where its successor is due.
KeepIndex(x) == Cardinality(KeptRows(x)) - 1

Keep(x) == Cardinality(KeptRows(x))

ShrinkTrailingLeftoverClients(x) ==
    LET keep == Keep(x)
    IN  [x EXCEPT !.count = keep,
                  !.row   = [s \in Slots |-> IF s < keep THEN x.row[s] ELSE NullRow]]

\* DetachControllerFromTeam, then RemoveEntity.
Removed(c) == [c EXCEPT !.state = "deleting", !.onTeam = FALSE]

IsCurrent(x, p) ==
    x.ctrl[p.slot].state # "none" /\ x.ctrl[p.slot].serial = p.serial

\* Mutant: whoever is bound to the controller, it is removed.
IsReboundNever(x, p) == FALSE

\* Another client than the one that was kicked is bound to the controller.
IsRebound(x, p) ==
    Resolves(x, p.slot) /\ x.row[p.slot].userId \notin {LeftoverId, p.userId}

MustWait(x, p) ==
    Resolves(x, p.slot) /\ x.row[p.slot].userId = p.userId /\ ~p.waited

\* Mutant: waiting is not remembered.
WaitedForgotten(p) == p

Waited(p) == [p EXCEPT !.waited = TRUE]

(***************************************************************************)
(* One pass over the queue: a stale or rebound item is dropped, one whose  *)
(* client is still there waits for one pass, the others are carried out.   *)
(***************************************************************************)
DrainQueue(x) ==
    LET waiting == {p \in x.pending : IsCurrent(x, p) /\ MustWait(x, p)}
        due     == {p \in x.pending \ waiting : IsCurrent(x, p) /\ ~IsRebound(x, p)}
    IN  [x EXCEPT !.pending = {Waited(p) : p \in waiting},
                  !.ctrl    = [s \in Slots |-> IF \E p \in due : p.slot = s
                                               THEN Removed(x.ctrl[s])
                                               ELSE x.ctrl[s]]]

DrainPendingControllerRemovals(x) ==
    IF ~up THEN [x EXCEPT !.pending = {}]
    ELSE IF ~CanRemove THEN ShrinkTrailingLeftoverClients([x EXCEPT !.pending = {}])
    ELSE ShrinkTrailingLeftoverClients(DrainQueue(x))

\* Mutant: only slots without a client are looked at.
OrphansOfEmptySlots(x) == {s \in Slots : ~Resolves(x, s) /\ x.ctrl[s].onTeam}

Orphans(x) ==
    {s \in Slots : ClientLooksLeftoverOrEmpty(x, s) /\ x.ctrl[s].onTeam}

ReapOrphanControllers(x) ==
    IF up /\ CanRemove
    THEN [x EXCEPT !.ctrl = [s \in Slots |-> IF s \in Orphans(x)
                                             THEN Removed(x.ctrl[s])
                                             ELSE x.ctrl[s]]]
    ELSE x

\* Of a managed slot that has a client.
MoveManagedBotToSpectator(c) ==
    IF c.state = "alive" THEN [c EXCEPT !.onTeam = FALSE] ELSE c

IsQueued(s, n) == \E p \in pending : p.slot = s /\ p.serial = n

\* QueueControllerRemovalForClient: the items it adds.
QueueControllerRemoval(s) ==
    IF /\ CanRemove
       /\ ctrl[s].state = "alive"
       /\ ~IsQueued(s, ctrl[s].serial)
    THEN {[slot |-> s, serial |-> ctrl[s].serial, userId |-> row[s].userId, waited |-> FALSE]}
    ELSE {}

\* Mutant: only a leftover that never spawned is rewritten.
CollidesUnspawned(r, userId) == ~IsLive(r) /\ ~r.spawned /\ r.userId = userId

\* Unmanaged, no net channel, SteamID 0, that user id.
Collides(r, userId) == r.kind \in {"bot", "ghost"} /\ r.userId = userId

NeutralizeCollidingLeftoverUserIds(keepSlot, userId) ==
    [s \in Slots |->
        IF s # keepSlot /\ Resolves(st, s) /\ Collides(row[s], userId)
        THEN [row[s] EXCEPT !.userId = LeftoverId]
        ELSE row[s]]

-----------------------------------------------------------------------------
(* The engine                                                              *)

LiveIds == {row[s].userId : s \in {t \in Slots : IsLive(row[t])}}

(***************************************************************************)
(* A user id is nobody else's who is connected, though a ghost may have    *)
(* kept it; and a slot is not given the id of the client before it while   *)
(* that client's controller is still queued.                               *)
(***************************************************************************)
ClientConnects(s, kind, userId) ==
    /\ up
    /\ s <= count
    /\ ~IsLive(row[s])
    /\ kind = "hosted" => ~suspended
    /\ userId \notin LiveIds \cup {p.userId : p \in {q \in pending : q.slot = s}}
    /\ row' = [row EXCEPT ![s] = [kind |-> kind, userId |-> userId, spawned |-> FALSE]]
    /\ count' = IF s = count THEN s + 1 ELSE count
    /\ UNCHANGED <<ctrl, pending, suspended, up>>

ClientSpawns(s) ==
    /\ IsLive(row[s])
    /\ ~row[s].spawned
    /\ row' = [row EXCEPT ![s].spawned = TRUE]
    /\ UNCHANGED <<count, ctrl, pending, suspended, up>>

(***************************************************************************)
(* A controller that is still there is bound to the slot's next client.  A *)
(* new one's serial number is one that no queued handle has.               *)
(***************************************************************************)
ControllerSpawns(s) ==
    /\ IsLive(row[s])
    /\ ctrl[s].state = "none"
    /\ \E n \in 1 .. MaxSerial :
          /\ ~IsQueued(s, n)
          /\ \A m \in 1 .. n - 1 : IsQueued(s, m)
          /\ ctrl' = [ctrl EXCEPT ![s] = [state |-> "alive", serial |-> n, onTeam |-> FALSE]]
    /\ UNCHANGED <<count, row, pending, suspended, up>>

JoinsTeam(s) ==
    /\ IsLive(row[s])
    /\ ctrl[s].state = "alive"
    /\ ctrl' = [ctrl EXCEPT ![s].onTeam = TRUE]
    /\ UNCHANGED <<count, row, pending, suspended, up>>

ControllerFreed(s) ==
    /\ ctrl[s].state = "deleting"
    /\ ctrl' = [ctrl EXCEPT ![s] = NoController]
    /\ UNCHANGED <<count, row, pending, suspended, up>>

\* What may be in the row of a client that has left.
Remains(r) ==
    {NullRow} \cup
    (IF r.kind = "human" THEN {}
     ELSE [kind : {"ghost"}, userId : {r.userId, LeftoverId}, spawned : BOOLEAN])

(***************************************************************************)
(* A level change or the map gate: a suspended map releases its bots, and  *)
(* the queue stays as it is.                                               *)
(***************************************************************************)
MapChanges ==
    /\ suspended' \in BOOLEAN
    /\ row' = [s \in Slots |-> IF suspended' /\ row[s].kind = "hosted"
                               THEN [row[s] EXCEPT !.kind = "bot"]
                               ELSE row[s]]
    /\ ctrl' \in {ctrl, [s \in Slots |-> NoController]}
    /\ UNCHANGED <<count, pending, up>>

ServerGone ==
    /\ up
    /\ up' = FALSE
    /\ count' = 0
    /\ row' = [s \in Slots |-> NullRow]
    /\ ctrl' = [s \in Slots |-> NoController]
    /\ UNCHANGED <<pending, suspended>>

ServerBack ==
    /\ ~up
    /\ up' = TRUE
    /\ UNCHANGED <<count, row, ctrl, pending, suspended>>

-----------------------------------------------------------------------------
(* The plugin's hooks                                                      *)

(***************************************************************************)
(* The Pre hook for a kicked managed bot, then the engine's disconnect.    *)
(***************************************************************************)
ClientDisconnect(s, kicked) ==
    LET reap == kicked /\ row[s].kind = "hosted"
        left == IF reap THEN MoveManagedBotToSpectator(ctrl[s]) ELSE ctrl[s]
    IN  /\ up
        /\ IsLive(row[s])
        /\ pending' = IF reap THEN pending \cup QueueControllerRemoval(s) ELSE pending
        /\ Cardinality(pending') <= MaxPending
        /\ \E r \in Remains(row[s]) : row' = [row EXCEPT ![s] = r]
        /\ ctrl' \in {[ctrl EXCEPT ![s] = left]} \cup
                     (IF left.state = "alive"
                      THEN {[ctrl EXCEPT ![s] = [left EXCEPT !.state = "deleting"]]}
                      ELSE {})
        /\ UNCHANGED <<count, suspended, up>>

\* bot_kick <persona>: KickManagedBotByUserId for the slot it names.
NamedKickPre(s) ==
    /\ up
    /\ ~suspended
    /\ row[s].kind = "hosted"
    /\ ctrl' = [ctrl EXCEPT ![s] = MoveManagedBotToSpectator(@)]
    /\ row' = NeutralizeCollidingLeftoverUserIds(s, row[s].userId)
    /\ UNCHANGED <<count, pending, suspended, up>>

\* bot_kick, bot_kick all.
KickAllPre ==
    /\ up
    /\ ~suspended
    /\ ctrl' = [s \in Slots |-> IF row[s].kind = "hosted"
                                THEN MoveManagedBotToSpectator(ctrl[s])
                                ELSE ctrl[s]]
    /\ UNCHANGED <<count, row, pending, suspended, up>>

\* The end of every kick and bot_add.
PopulationPost ==
    /\ ~suspended
    /\ Becomes(ReapOrphanControllers(
                  DrainPendingControllerRemovals(DrainPendingControllerRemovals(st))))
    /\ UNCHANGED <<suspended, up>>

\* On a suspended map Hook_GameFrame_Post returns before it drains.
GameFramePost ==
    /\ ~suspended
    /\ Becomes(DrainPendingControllerRemovals(st))
    /\ UNCHANGED <<suspended, up>>

-----------------------------------------------------------------------------
EngineStep(s) ==
    \/ \E kind \in {"human", "hosted", "bot"}, userId \in UserIds :
          ClientConnects(s, kind, userId)
    \/ ClientSpawns(s)
    \/ ControllerSpawns(s)
    \/ JoinsTeam(s)
    \/ ControllerFreed(s)

Next ==
    \/ \E s \in Slots : EngineStep(s)
    \/ \E s \in Slots, kicked \in BOOLEAN : ClientDisconnect(s, kicked)
    \/ \E s \in Slots : NamedKickPre(s)
    \/ KickAllPre
    \/ PopulationPost
    \/ GameFramePost
    \/ MapChanges
    \/ ServerGone
    \/ ServerBack

Spec == Init /\ [][Next]_vars

-----------------------------------------------------------------------------
(* Properties                                                              *)

PluginStep == GameFramePost \/ PopulationPost \/ KickAllPre \/ \E s \in Slots : NamedKickPre(s)

(***************************************************************************)
(* No hook takes the row of m_Clients, or the user id, of a client that is *)
(* connected: shrinking and neutralising only ever touch what is left of   *)
(* one (ShrinkTrailingLeftoverClients, NeutralizeCollidingLeftoverUserIds).*)
(***************************************************************************)
RowsOfClientsKept ==
    [][ (\E s \in Slots : IsLive(row[s]) /\ (s >= count' \/ row'[s] # row[s]))
          => ~PluginStep ]_vars

(***************************************************************************)
(* No hook removes the controller of a client that is connected: a queued  *)
(* controller that was bound to somebody else meanwhile is abandoned       *)
(* (DrainPendingControllerRemovals, ReapOrphanControllers).                *)
(***************************************************************************)
ControllersOfClientsKept ==
    [][ (\E s \in Slots : IsLive(row[s]) /\ ctrl'[s].state # ctrl[s].state)
          => ~PluginStep ]_vars

(***************************************************************************)
(* Once a persona kick has neutralised the ghosts, no other row has its    *)
(* target's user id, so kickid hits the target and nobody else (README.md: *)
(* "Named kickid then hits that ghost").                                   *)
(***************************************************************************)
KickidHitsTarget ==
    [][ \A s \in Slots :
          NamedKickPre(s) => \A t \in Slots \ {s} : row'[t].userId # row[s].userId ]_vars

(***************************************************************************)
(* After a kick or a bot_add no controller without a client is on a        *)
(* playing team, the rows dropped during that command included.            *)
(***************************************************************************)
OrphansLeaveTeams ==
    [][ (\E s \in Slots : LooksLeftover(row'[s]) /\ ctrl'[s].onTeam)
          => ~(up /\ PopulationPost) ]_vars

(***************************************************************************)
(* A pass over the queue gets every item further: what it leaves queued is *)
(* waiting for the first time, so nothing waits for a second pass          *)
(* (DrainPendingControllerRemovals, referencedFrames).                     *)
(***************************************************************************)
WaitsForOnePass == [][ pending \cap pending' # {} => ~GameFramePost ]_vars

=============================================================================
