----------------------- MODULE BotIdentityProperties ------------------------
(***************************************************************************)
(* What the hooks guarantee: the properties TLC checks on BotIdentity, and *)
(* some of which BotIdentityProofs proves.                                 *)
(***************************************************************************)
EXTENDS BotIdentity

-----------------------------------------------------------------------------
(* Safety                                                                  *)

\* The game server has been lost; every later one has another id.
ServerWasLost == server.id > 0

(***************************************************************************)
(* The identity list is longer than what the other slots can hold or block *)
(* by a shared name or SteamID64: a slot's next bot finds one that is free, *)
(* and GetFree does not come to its second pass.                           *)
(***************************************************************************)
AmplePool ==
    \A s \in Slots : \A held \in [Slots \ {s} -> Bots \cup {None}] :
        \E b \in Bots : \A t \in Slots \ {s} :
            held[t] # None => b # held[t] /\ ~Clash(b, held[t])

(***************************************************************************)
(* The list has not run out: GetFree has taken no identity back from a     *)
(* slot that is still marked with it.  Only a slot that lost its bot with  *)
(* a server is marked and has no client.                                   *)
(***************************************************************************)
PoolLasts == ServerWasLost => AmplePool

(***************************************************************************)
(* The slot table and the identities point at each other.  An identity is  *)
(* never recorded in a slot that holds another one, or none.  A slot holds *)
(* an identity that is recorded elsewhere only where GetFree took it back: *)
(* ResetForReuse leaves the slot marked.                                   *)
(***************************************************************************)
RegistryConsistent ==
    \A s \in Slots, b \in Bots :
        /\ reg.slot[b] = s => reg.m_Slots[s] = b
        /\ reg.m_Slots[s] = b => reg.slot[b] = s \/ ~PoolLasts

(***************************************************************************)
(* Unless the list ran out, no two clients carry one SteamID64, whatever   *)
(* window was opened, closed or cut short in between (GetFree: "refuse     *)
(* rather than hand out a duplicate SteamID64").                           *)
(***************************************************************************)
UniqueSteamId ==
    PoolLasts =>
        \A s, t \in Slots :
            s # t /\ client[s].sid # 0 => client[s].sid # client[t].sid

(***************************************************************************)
(* A SteamID64 that a client carries, or that the window will write back   *)
(* to it, is the one of the identity its slot holds now, and not of one    *)
(* the slot held when the window opened.                                   *)
(***************************************************************************)
SteamIdOwned ==
    \A s \in Slots :
        /\ client[s].sid # 0 =>
              IsManaged(reg, s) /\ client[s].sid = SteamIdOf[reg.m_Slots[s]]
        /\ win.snap[s].captured =>
              /\ IsManaged(reg, s)
              /\ win.snap[s].sscSteamId \in {0, SteamIdOf[reg.m_Slots[s]]}

(***************************************************************************)
(* The shared memory names, for every slot, the disguised identity the     *)
(* slot holds now, and none when it holds none: the C# reader takes it for *)
(* the truth.  An entry is left behind only where a suspension released a  *)
(* slot whose client went with a lost server (RestoreIdentity), or where   *)
(* the list ran out and an identity was taken back (ResetForReuse).        *)
(***************************************************************************)
ShmMatchesRegistry ==
    PoolLasts =>
        \A s \in Slots :
            IF IsManaged(reg, s) /\ reg.m_Slots[s] \in reg.applied
            THEN shm[s].bot = reg.m_Slots[s]
            ELSE shm[s].bot # None => ServerWasLost /\ Blacklisted # {}

(***************************************************************************)
(* A human never holds an identity, and as long as the game server is not  *)
(* lost a managed slot has its bot.  One that lost its bot with the server *)
(* stays managed until a client other than an HLTV connects in it.         *)
(***************************************************************************)
ManagedAreBots ==
    \A s \in ManagedSlots(reg) :
        /\ client[s].who # "human"
        /\ client[s].who # "bot" => ServerWasLost

(***************************************************************************)
(* Whatever happened during a window, once it is closed every disguised    *)
(* bot has its own SteamID and player markers back, nobody is left waiting *)
(* for a disguise, and every bot that is not hosted is a native bot.       *)
(***************************************************************************)
DisguiseRestored ==
    ~Active =>
        \A s \in Slots : client[s].who = "bot" =>
            IF IsManaged(reg, s)
            THEN /\ reg.m_Slots[s] \in reg.applied
                 /\ client[s].mark = "player"
                 /\ client[s].sid = SteamIdOf[reg.m_Slots[s]]
            ELSE /\ client[s].mark = "native"
                 /\ client[s].sid = 0

(***************************************************************************)
(* A window that no command is in the middle of has its end scheduled.     *)
(* Otherwise no GameFrame would ever close it: the bots would stay native  *)
(* and no bot would be disguised again.                                    *)
(***************************************************************************)
WindowScheduled ==
    /\ Active /\ cmds = <<>> => win.hold > 0
    /\ ~Active => win.hold = 0 /\ ~win.valid

(***************************************************************************)
(* m_PopulationCommandDepth is back at zero when the outermost command     *)
(* returns.  A count that leaked would make every later kick open and      *)
(* never schedule its window.                                              *)
(***************************************************************************)
PopDepthReturns ==
    /\ cmds = <<>> => popDepth = 0
    /\ popDepth > 0 => \E i \in 1 .. Len(cmds) : cmds[i].name # "callvote"

(***************************************************************************)
(* While a window opened for a vote or an unnamed kick is open, every      *)
(* hosted bot is a native bot to the engine, the ones that connected or    *)
(* were put in the server meanwhile included (vote_transaction.h).         *)
(***************************************************************************)
VoteSeesNativeBots ==
    Active =>
        \A s \in ManagedSlots(reg) : client[s].who = "bot" =>
            /\ client[s].mark = "native"
            /\ client[s].sid = 0
            /\ client[s].ctrl # "player"

(***************************************************************************)
(* A suspended map hosts nothing: no slot is managed, no window is open,   *)
(* no client carries a borrowed SteamID, and no entry is published but one *)
(* left behind by a lost server's bot.                                     *)
(***************************************************************************)
SuspendedIdle ==
    Suspended =>
        /\ ManagedSlots(reg) = {}
        /\ ~Active
        /\ \A s \in Slots :
              client[s].sid = 0 /\ (shm[s].bot # None => ServerWasLost)

-----------------------------------------------------------------------------
(* Steps                                                                   *)

(***************************************************************************)
(* A vote's hold is neither cut short nor restarted shorter by a kick that *)
(* reuses its window: an open window loses its scheduled end only frame by *)
(* frame, and closes only at the last one, for a bot_add, or because the   *)
(* server went away or the gate released every slot.                       *)
(***************************************************************************)
HoldKept ==
    [][ Active /\ win.hold > 0 =>
          /\ win'.depth # 0 =>
                win'.hold >= win.hold \/ (GameFramePost /\ win'.hold = win.hold - 1)
          /\ win'.depth = 0 =>
                \/ GameFramePost /\ (win.hold = 1 \/ ~server.up)
                \/ BotAddPre
                \/ ReleaseManagedSlots ]_vars

(***************************************************************************)
(* A SteamID the engine wrote back during the hold does not outlive the    *)
(* next frame: after it, every captured bot is native again or restored.   *)
(***************************************************************************)
HoldTickReasserts ==
    [][ GameFramePost /\ win'.depth # 0 =>
          \A s \in Slots :
             client[s].who = "bot" /\ win.snap[s].captured =>
                client'[s].sid = 0 /\ client'[s].mark = "native" ]_vars

(***************************************************************************)
(* A frame on a known map hosts bots exactly if the map is not             *)
(* blacklisted, whatever hints and level changes came before it.           *)
(***************************************************************************)
FrameFollowsMap ==
    [][ GameFramePost /\ BuildMapIdentity(server) # NoMap =>
          (gate'.suspended <=> BuildMapIdentity(server) \in Blacklisted) ]_vars

-----------------------------------------------------------------------------
(* Refinement                                                              *)

Lease == INSTANCE IdentityLease WITH holder <- reg.m_Slots

(***************************************************************************)
(* The slot table is an identity lease: with a list that does not run out  *)
(* no handler grants an identity that clashes with another slot's          *)
(* (GetFree).                                                              *)
(***************************************************************************)
ImplementsLease == Lease!Spec

(***************************************************************************)
(* With such a list no two managed slots hold identities that share a      *)
(* SteamID or a name (IsAssignable: "Prevents two live bots from sharing   *)
(* ...").                                                                  *)
(***************************************************************************)
LeasesExclusive == Lease!Exclusive

-----------------------------------------------------------------------------
(* Liveness                                                                *)

(***************************************************************************)
(* Unless votes are called for ever, the engine is never left with native  *)
(* markers: every window closes.  A kick that reuses one does not          *)
(* prolong it.                                                             *)
(***************************************************************************)
VotesStop == <>[](\A i \in 1 .. Len(cmds) : cmds[i].name # "callvote")

WindowCloses == VotesStop => []<>(~Active)

(***************************************************************************)
(* A bot that connected during a window does not stay without its          *)
(* disguise: it is disguised, or it leaves, or the map is suspended.       *)
(***************************************************************************)
BotIsPending(s) == s \in PendingSlots(reg) /\ client[s].who = "bot"

PendingIsDisguised ==
    VotesStop => \A s \in Slots : BotIsPending(s) ~> ~BotIsPending(s)

=============================================================================
