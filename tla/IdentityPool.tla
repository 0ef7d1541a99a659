---------------------------- MODULE IdentityPool ----------------------------
(***************************************************************************)
(* The identity list (BotInfo) and the slot table (IdentityManager) of     *)
(* src/src/bot_info.cpp, as operators on one value, the registry.  Two     *)
(* tables point at each other and are written by different functions:      *)
(* IdentityManager keeps slot -> identity, every BotIdentity keeps the     *)
(* slot it was last handed to and whether its disguise has been applied.   *)
(* The handlers that call these operators are in BotIdentity.tla.          *)
(*                                                                         *)
(* m_BotToSlot, m_ActiveCount and BotIdentity::reused are written and      *)
(* never read by the plugin's logic; they are left out.                    *)
(***************************************************************************)
EXTENDS Integers

CONSTANTS
    NumSlots,     \* kMaxSlots (64)
    NumBots,      \* BotInfo::Count(), at most kMaxBotIdentities (256)
    SteamIdOf,    \* BotIdentity::steamId of every identity, 0 when absent
    NameOf        \* BotIdentity::name of every identity

Slots == 0 .. NumSlots - 1
Bots  == 0 .. NumBots - 1
None  == -1

ASSUME PoolAssumption ==
    /\ NumSlots \in Nat \ {0}
    /\ NumBots \in Nat
    /\ SteamIdOf \in [Bots -> Nat]

SteamIds == {SteamIdOf[b] : b \in Bots} \cup {0}

Registry ==
    [ m_Slots : [Slots -> Bots \cup {None}],   \* IdentityManager::m_Slots
      slot    : [Bots -> Slots \cup {None}],   \* BotIdentity::slot
      applied : SUBSET Bots ]                  \* BotIdentity::applied

EmptyRegistry ==
    [ m_Slots |-> [s \in Slots |-> None],
      slot    |-> [b \in Bots |-> None],
      applied |-> {} ]

IsManaged(r, s) == r.m_Slots[s] # None
ManagedSlots(r) == {s \in Slots : IsManaged(r, s)}

\* Mutant: only the persona name is compared.
ClashByName(b, c) == NameOf[b] = NameOf[c]

(***************************************************************************)
(* Two identities a scoreboard could not tell apart.  IsSteamIdInUse never *)
(* reports the SteamID 0.                                                  *)
(***************************************************************************)
Clash(b, c) ==
    \/ NameOf[b] = NameOf[c]
    \/ SteamIdOf[b] # 0 /\ SteamIdOf[b] = SteamIdOf[c]

IsAssignable(r, b) ==
    \A c \in Bots \ {b} : r.slot[c] # None => ~Clash(b, c)

\* Mutant: any identity without a slot is free.
FreeBotsUnchecked(r) == {b \in Bots : r.slot[b] = None}

FreeBots(r) == {b \in Bots : r.slot[b] = None /\ IsAssignable(r, b)}

(***************************************************************************)
(* Identities whose recorded slot no longer holds a client: IsSlotActive   *)
(* is false for it.                                                        *)
(***************************************************************************)
StaleBots(r, active) ==
    {b \in Bots : r.slot[b] \in Slots \ active /\ IsAssignable(r, b)}

\* Mutant: stale identities are taken before free ones.
GetFreeStaleFirst(r, active) ==
    IF StaleBots(r, active) # {}
    THEN {b \in StaleBots(r, active) : \A c \in StaleBots(r, active) : b <= c}
    ELSE FreeBots(r)

(***************************************************************************)
(* The identities GetFree may return: any free one (rand()), or else the   *)
(* first stale one; the empty set is the nullptr of an exhausted pool.     *)
(***************************************************************************)
GetFree(r, active) ==
    IF FreeBots(r) # {}
    THEN FreeBots(r)
    ELSE {b \in StaleBots(r, active) : \A c \in StaleBots(r, active) : b <= c}

(***************************************************************************)
(* What handing out b does to the registry: a stale identity is reset, and *)
(* only its own fields are; the slot it is taken from stays marked.        *)
(***************************************************************************)
ResetForReuse(r, b) ==
    IF r.slot[b] = None
    THEN r
    ELSE [r EXCEPT !.slot[b] = None, !.applied = @ \ {b}]

Mark(r, s, b) == [r EXCEPT !.m_Slots[s] = b]

Unmark(r, S) ==
    LET released == {r.m_Slots[s] : s \in S}
    IN  [ m_Slots |-> [s \in Slots |-> IF s \in S THEN None ELSE r.m_Slots[s]],
          slot    |-> [b \in Bots |-> IF b \in released THEN None ELSE r.slot[b]],
          applied |-> r.applied \ released ]

(***************************************************************************)
(* ApplyDisguise, as far as it writes the registry, called in slot order   *)
(* for the slots of `called` and completing for those of `done`: every     *)
(* call records its slot in the identity, and a completed one sets applied.*)
(***************************************************************************)
LastCall(r, called, b, s) ==
    /\ s \in called
    /\ r.m_Slots[s] = b
    /\ \A t \in called : r.m_Slots[t] = b => t <= s

RecordDisguise(r, called, done) ==
    [r EXCEPT
        !.slot = [b \in Bots |->
                     IF \E s \in Slots : LastCall(r, called, b, s)
                     THEN CHOOSE s \in Slots : LastCall(r, called, b, s)
                     ELSE r.slot[b]],
        !.applied = @ \cup {r.m_Slots[s] : s \in done}]

\* Managed slots whose identity has not been applied yet.
PendingSlots(r) ==
    {s \in ManagedSlots(r) : r.m_Slots[s] \notin r.applied}

=============================================================================
