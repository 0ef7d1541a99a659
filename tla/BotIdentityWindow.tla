------------------------- MODULE BotIdentityWindow --------------------------
(***************************************************************************)
(* Proofs about the native-identity window and the map gate.               *)
(*                                                                         *)
(* First that the two counters of one nesting never leave a window nobody  *)
(* will close, that a hold is kept, and that a frame makes the gate follow *)
(* the map: whether or not the server is ever lost.                        *)
(*                                                                         *)
(* Then the window's contract: every slot's client, snapshot and           *)
(* shared-memory entry always stand in one of few relations to the         *)
(* identity it holds, so that closing the window, at any time and however  *)
(* often commands were nested in it, leaves every bot with its own         *)
(* identity, and nobody with anybody else's.  The game server may be lost  *)
(* in the middle of anything, if the identity list is long enough never to *)
(* reuse an identity that is still marked (AmplePool); on a server that is *)
(* never lost the list may have any length.  And what the window is opened *)
(* for: a vote sees native bots, as long as the windows capture every      *)
(* hosted bot and the engine does not write SteamIDs back; one that does   *)
(* is undone by the next frame (HoldTicksReassert).                        *)
(***************************************************************************)
EXTENDS BotIdentityProofs, FiniteSetTheorems

KickNames == {"kick", "bot_kick name", "bot_kick unknown"}

\* The kicks, and the votes, between their Pre and their Post hook.
Kicks(c) == {i \in 1 .. Len(c) : c[i].name \in KickNames}
Votes(c) == {i \in 1 .. Len(c) : c[i].name = "callvote"}

(***************************************************************************)
(* The two counters against the stack of commands: a count of              *)
(* m_PopulationCommandDepth belongs to a kick that is still being          *)
(* dispatched, and a window without a scheduled end to such a kick or to a *)
(* vote, whose Post will schedule it.                                      *)
(***************************************************************************)
PopDepthCounted == popDepth <= Cardinality(Kicks(cmds))

EndOwed == Active /\ win.hold = 0 => popDepth > 0 \/ Votes(cmds) # {}

ClosedIsClear == ~Active => win.hold = 0 /\ ~win.valid

HoldBounded == win.hold <= HoldFrames

\* A map that hosts nothing never sees a window opened.
SuspendedInactive == Suspended => ~Active

\* s_MapSuspended is what the gate's map asks for.
GateFollows == gate.map # NoMap => (gate.suspended <=> gate.map \in Blacklisted)

CountersInv ==
    /\ TypeOK
    /\ PopDepthCounted
    /\ EndOwed
    /\ ClosedIsClear
    /\ HoldBounded
    /\ SuspendedInactive

-----------------------------------------------------------------------------
(* The stack of commands                                                   *)

(***************************************************************************)
(* There are finitely many kicks at a time.                                *)
(***************************************************************************)
LEMMA KicksFinite ==
    ASSUME NEW c \in Seq(Command)
    PROVE  IsFiniteSet(Kicks(c)) /\ Cardinality(Kicks(c)) \in Nat
  <1>1. IsFiniteSet(1 .. Len(c))
    BY FS_Interval
  <1>2. Kicks(c) \in SUBSET (1 .. Len(c))
    BY DEF Kicks
  <1>3. IsFiniteSet(Kicks(c))
    BY <1>1, <1>2, FS_Subset
  <1> QED BY <1>3, FS_CardinalityType

(***************************************************************************)
(* Dispatching a command (Dispatch's Append) adds it to the kicks, to the  *)
(* votes, or to neither.                                                   *)
(***************************************************************************)
LEMMA PushedCommand ==
    ASSUME NEW c \in Seq(Command), NEW k \in Command
    PROVE  /\ Cardinality(Kicks(Append(c, k))) =
                 IF k.name \in KickNames
                 THEN Cardinality(Kicks(c)) + 1
                 ELSE Cardinality(Kicks(c))
           /\ Votes(c) \subseteq Votes(Append(c, k))
           /\ k.name = "callvote" => Votes(Append(c, k)) # {}
  <1> DEFINE d == Append(c, k)
             n == Len(c) + 1
  <1>1. /\ Len(c) \in Nat /\ Len(d) = n
        /\ d[n] = k
        /\ \A i \in 1 .. Len(c) : d[i] = c[i]
    OBVIOUS
  <1> HIDE DEF d
  <1>2. n \notin Kicks(c)
    BY <1>1 DEF Kicks
  <1>3. Kicks(d) = IF k.name \in KickNames THEN Kicks(c) \cup {n} ELSE Kicks(c)
    <2>1. \A i : i \in 1 .. n <=> i \in 1 .. Len(c) \/ i = n
      BY <1>1
    <2>2. \A i : i \in Kicks(d) <=> i \in 1 .. n /\ d[i].name \in KickNames
      BY <1>1 DEF Kicks
    <2>3. \A i : i \in Kicks(d) <=> i \in Kicks(c) \/ (i = n /\ k.name \in KickNames)
      BY <1>1, <2>1, <2>2 DEF Kicks
    <2> QED BY <2>3
  <1>4. Cardinality(Kicks(c) \cup {n}) = Cardinality(Kicks(c)) + 1
    BY <1>2, KicksFinite, FS_AddElement
  <1>5. Votes(c) \subseteq Votes(d)
    BY <1>1 DEF Votes
  <1>6. k.name = "callvote" => n \in Votes(d)
    BY <1>1 DEF Votes
  <1> QED BY <1>3, <1>4, <1>5, <1>6 DEF d

(***************************************************************************)
(* A Post hook takes the innermost command off the stack (Returns).        *)
(***************************************************************************)
LEMMA PoppedCommand ==
    ASSUME NEW c \in Seq(Command), c # <<>>
    PROVE  LET d == SubSeq(c, 1, Len(c) - 1)
           IN  /\ Cardinality(Kicks(d)) =
                     IF c[Len(c)].name \in KickNames
                     THEN Cardinality(Kicks(c)) - 1
                     ELSE Cardinality(Kicks(c))
               /\ c[Len(c)].name # "callvote" => Votes(d) = Votes(c)
  <1> DEFINE n == Len(c)
             d == SubSeq(c, 1, n - 1)
  <1>1. n \in Nat /\ n >= 1 /\ n - 1 \in 0 .. n
    OBVIOUS
  <1>2. Len(d) = n - 1 /\ \A i \in 1 .. n - 1 : d[i] = c[i]
    <2> HIDE DEF n
    <2>1. Len(d) = n - 1
      BY <1>1
    <2>2. \A i \in 1 .. n - 1 : d[i] = c[i]
      BY <1>1
    <2> QED BY <2>1, <2>2
  <1> HIDE DEF d
  <1>3. \A i : i \in 1 .. n - 1 <=> i \in 1 .. n /\ i # n
    BY <1>1
  <1>4. Kicks(d) = Kicks(c) \ {n}
    <2>1. \A i : i \in Kicks(d) <=> i \in Kicks(c) /\ i # n
      BY <1>2, <1>3 DEF Kicks
    <2> QED BY <2>1
  <1>5. n \in Kicks(c) <=> c[n].name \in KickNames
    BY <1>1 DEF Kicks
  <1>6. Cardinality(Kicks(c) \ {n}) =
           IF n \in Kicks(c) THEN Cardinality(Kicks(c)) - 1 ELSE Cardinality(Kicks(c))
    BY KicksFinite, FS_RemoveElement
  <1>7. c[n].name # "callvote" => Votes(d) = Votes(c)
    <2>1. c[n].name # "callvote" => \A i : i \in Votes(d) <=> i \in Votes(c)
      BY <1>2, <1>3 DEF Votes
    <2> QED BY <2>1
  <1> QED BY <1>4, <1>5, <1>6, <1>7 DEF d

-----------------------------------------------------------------------------
(* The counters                                                            *)

(***************************************************************************)
(* What a step may do to the window's depth, hold and validity without     *)
(* touching the commands: nothing, close it, or count one frame of a hold. *)
(***************************************************************************)
WindowStep ==
    \/ win'.depth = win.depth /\ win'.hold = win.hold /\ win'.valid = win.valid
    \/ win'.depth = 0 /\ win'.hold = 0 /\ win'.valid = FALSE
    \/ /\ win.hold > 1 /\ win'.depth = win.depth /\ win'.valid = win.valid
       /\ win'.hold = win.hold - 1

(***************************************************************************)
(* Such a step keeps the counters right.                                   *)
(***************************************************************************)
LEMMA WindowStepKeeps ==
    ASSUME CountersInv, TypeOK', WindowStep, UNCHANGED <<cmds, popDepth>>,
           Suspended' => Suspended \/ win'.depth = 0
    PROVE  CountersInv'
  <1>1. win.hold \in Nat /\ HoldFrames \in Nat
    BY PluginAssumption DEF CountersInv, TypeOK, Window
  <1>2. PopDepthCounted' /\ EndOwed' /\ ClosedIsClear' /\ HoldBounded'
    BY <1>1 DEF CountersInv, WindowStep, PopDepthCounted, EndOwed, ClosedIsClear, HoldBounded,
                Active, VoteTransactionActive
  <1>3. SuspendedInactive'
    BY DEF CountersInv, WindowStep, SuspendedInactive, Active, VoteTransactionActive
  <1> QED BY <1>2, <1>3 DEF CountersInv

(***************************************************************************)
(* ResetSlot, EndWindow and ResetVoteTransaction as such steps.            *)
(***************************************************************************)
LEMMA WindowSteps ==
    ASSUME TypeOK
    PROVE  /\ UNCHANGED win => WindowStep
           /\ \A s \in Slots : win' = ResetSlot(win, s) => WindowStep
           /\ CloseWindow => WindowStep /\ win'.depth = 0
           /\ ReleaseManagedSlots => WindowStep /\ win'.depth = 0
           /\ win.hold > 1 /\ HoldTick => WindowStep
  <1>1. win \in Window
    BY DEF TypeOK
  <1>2. \A s \in Slots : win' = ResetSlot(win, s) => WindowStep
    BY <1>1 DEF ResetSlot, WindowStep, Window
  <1>3. CloseWindow => WindowStep /\ win'.depth = 0
    BY <1>1 DEF CloseWindow, EndWindow, WindowStep, Window
  <1>4. ReleaseManagedSlots => WindowStep /\ win'.depth = 0
    BY DEF ReleaseManagedSlots, ClosedWindow, WindowStep
  <1>5. win.hold > 1 /\ HoldTick => WindowStep
    BY <1>1 DEF HoldTick, WindowStep, Window
  <1> QED BY <1>2, <1>3, <1>4, <1>5 DEF WindowStep

(***************************************************************************)
(* A pass through the gate suspends only by dropping the window.           *)
(***************************************************************************)
LEMMA GateWindow ==
    ASSUME TypeOK, NEW first, NEW second, NEW otherwise,
           PassGate(first, second, otherwise),
           otherwise => WindowStep
    PROVE  WindowStep /\ (Suspended' => Suspended \/ win'.depth = 0)
  <1>1. CASE ReleaseManagedSlots
    BY <1>1, WindowSteps
  <1>2. CASE ~ReleaseManagedSlots
    <2>1. otherwise /\ (Suspended' => Suspended)
      BY <1>2 DEF PassGate, Suspended
    <2> QED BY <2>1
  <1> QED BY <1>1, <1>2

(***************************************************************************)
(* The engine's calls about clients leave the window's counters alone.     *)
(***************************************************************************)
LEMMA ClientCallCounts ==
    ASSUME CountersInv, TypeOK', NEW s \in Slots, ClientCall(s)
    PROVE  CountersInv'
  <1>1. UNCHANGED <<gate, cmds, popDepth>>
    BY DEF ClientCall, HltvConnects, ClientIgnored, BotConnects, ControllerSpawns,
           ClientPutInServer, ClientDisconnect, SteamIdReappears
  <1>2. win' = win \/ win' = ResetSlot(win, s)
    BY DEF ClientCall, HltvConnects, ClientIgnored, BotConnects, ControllerSpawns,
           ClientPutInServer, ClientDisconnect, SteamIdReappears, VacatedWindow
  <1>3. WindowStep
    BY <1>2, WindowSteps DEF CountersInv
  <1> QED BY <1>1, <1>3, WindowStepKeeps DEF Suspended

(***************************************************************************)
(* OnLevelInit, the map commands, and the server's going and coming.       *)
(***************************************************************************)
LEMMA EngineEventCounts ==
    ASSUME CountersInv, TypeOK', EngineEvent
    PROVE  CountersInv'
  <1>1. TypeOK /\ (UNCHANGED win => WindowStep)
    BY WindowSteps DEF CountersInv
  <1>2. UNCHANGED <<cmds, popDepth>>
    BY DEF EngineEvent, LevelInit, MapNameArrives, MapCommand, ServerGone, ServerBack
  <1>3. ASSUME NEW first, NEW second,
               PassGate(first, second, UNCHANGED <<reg, client, win, shm>>)
        PROVE  CountersInv'
    <2>1. WindowStep /\ (Suspended' => Suspended \/ win'.depth = 0)
      BY <1>1, <1>3, GateWindow
    <2> QED BY <1>2, <2>1, WindowStepKeeps
  <1>4. ASSUME NEW m, NEW addon, LevelInit(m, addon)
        PROVE  CountersInv'
    BY <1>3, <1>4 DEF LevelInit
  <1>5. ASSUME NEW arg, MapCommand(arg)
        PROVE  CountersInv'
    BY <1>3, <1>5 DEF MapCommand
  <1>6. ASSUME UNCHANGED <<win, gate>>
        PROVE  CountersInv'
    BY <1>1, <1>2, <1>6, WindowStepKeeps DEF Suspended
  <1>7. CASE \/ \E m \in Maps : MapNameArrives(m)
             \/ ServerGone
             \/ ServerBack
    BY <1>6, <1>7 DEF MapNameArrives, ServerGone, ServerBack
  <1> QED BY <1>4, <1>5, <1>7 DEF EngineEvent

(***************************************************************************)
(* What TickVoteTransaction does to the counters.                          *)
(***************************************************************************)
LEMMA TickWindow ==
    ASSUME TypeOK, TickVoteTransaction
    PROVE  WindowStep
  <1>1. CASE win' = ClosedWindow
    BY <1>1 DEF ClosedWindow, WindowStep
  <1> QED BY <1>1, WindowSteps DEF TickVoteTransaction

(***************************************************************************)
(* Hook_GameFrame_Post.                                                    *)
(***************************************************************************)
LEMMA FrameCounts ==
    ASSUME CountersInv, TypeOK', GameFramePost
    PROVE  CountersInv'
  <1> DEFINE id == BuildMapIdentity(server)
             hosted == IF ApplyMapGate(gate, id).suspended
                       THEN UNCHANGED <<reg, client, win, shm>>
                       ELSE TickVoteTransaction
  <1>1. TypeOK
    BY DEF CountersInv
  <1>2. hosted => WindowStep
    BY <1>1, WindowSteps, TickWindow
  <1>3. PassGate(NoMap, id, hosted) /\ UNCHANGED <<cmds, popDepth>>
    BY DEF GameFramePost
  <1> HIDE DEF id, hosted
  <1>4. WindowStep /\ (Suspended' => Suspended \/ win'.depth = 0)
    BY <1>1, <1>2, <1>3, GateWindow
  <1> QED BY <1>3, <1>4, WindowStepKeeps

(***************************************************************************)
(* What a begin does to the counters (BeginVoteTransaction).               *)
(***************************************************************************)
LEMMA BeginCounts ==
    ASSUME TypeOK, NEW S, NEW valid, Begin(S, valid)
    PROVE  /\ win'.depth # 0
           /\ win'.hold = win.hold
           /\ Active => win'.valid = win.valid
           /\ ~Active => win'.valid = valid
  <1>1. win \in Window
    BY DEF TypeOK
  <1>2. win' = BeginWindow(win, S, valid, client, server.id)
    BY DEF Begin
  <1>3. CASE Active
    BY <1>1, <1>2, <1>3 DEF BeginWindow, Active, VoteTransactionActive, Window
  <1>4. CASE ~Active
    BY <1>1, <1>2, <1>4 DEF BeginWindow, Active, VoteTransactionActive, Window
  <1> QED BY <1>3, <1>4

(***************************************************************************)
(* Hook_DispatchConCommand_Pre: whoever opens a window, or reuses one      *)
(* without an end, owes it one.                                            *)
(***************************************************************************)
LEMMA CommandPreCounts ==
    ASSUME CountersInv, TypeOK', CommandPre
    PROVE  CountersInv'
  <1>1. /\ TypeOK /\ cmds \in Seq(Command) /\ popDepth \in Nat
        /\ win.hold \in Nat /\ HoldFrames \in Nat
        /\ Cardinality(Kicks(cmds)) \in Nat
    <2>1. TypeOK /\ cmds \in Seq(Command)
      BY DEF CountersInv, TypeOK, Command
    <2> QED BY <2>1, KicksFinite, PluginAssumption DEF TypeOK, Window
  <1>2. ASSUME NEW name \in CommandNames, NEW slot \in Slots \cup {None}, Dispatch(name, slot)
        PROVE  /\ ~Suspended'
               /\ Votes(cmds) \subseteq Votes(cmds')
               /\ name = "callvote" => Votes(cmds') # {}
               /\ Cardinality(Kicks(cmds')) =
                     IF name \in KickNames
                     THEN Cardinality(Kicks(cmds)) + 1
                     ELSE Cardinality(Kicks(cmds))
    <2>1. [name |-> name, slot |-> slot] \in Command
      BY DEF Command
    <2> HIDE DEF Command
    <2>2. cmds' = Append(cmds, [name |-> name, slot |-> slot]) /\ ~Suspended'
      BY <1>2 DEF Dispatch, Suspended
    <2> QED BY <1>1, <2>1, <2>2, PushedCommand
  <1>3. CASE CallvotePre
    <2>1. Dispatch("callvote", None) /\ popDepth' = popDepth /\ BeginAll
      BY <1>3 DEF CallvotePre
    <2>2. win'.depth # 0 /\ win'.hold = win.hold
      BY <1>1, <2>1, BeginCounts DEF BeginAll
    <2>3. ~Suspended' /\ Votes(cmds') # {} /\ Cardinality(Kicks(cmds')) = Cardinality(Kicks(cmds))
      BY <1>2, <2>1 DEF CommandNames, KickNames
    <2> QED BY <2>1, <2>2, <2>3 DEF CountersInv, PopDepthCounted, EndOwed, ClosedIsClear,
            HoldBounded, SuspendedInactive, Active, VoteTransactionActive
  <1>4. ASSUME NEW S, NEW valid, OpenForKick(Begin(S, valid)),
               NEW name \in KickNames, NEW slot \in Slots \cup {None}, Dispatch(name, slot)
        PROVE  CountersInv'
    <2>1. /\ ~Suspended' /\ Votes(cmds) \subseteq Votes(cmds')
          /\ Cardinality(Kicks(cmds')) = Cardinality(Kicks(cmds)) + 1
      BY <1>2, <1>4 DEF CommandNames, KickNames
    <2>2. CASE ~Active \/ popDepth # 0
      <3>1. Begin(S, valid) /\ popDepth' = popDepth + 1
        BY <1>4, <2>2 DEF OpenForKick
      <3>2. win'.depth # 0 /\ win'.hold = win.hold
        BY <1>1, <3>1, BeginCounts
      <3> QED BY <1>1, <2>1, <3>1, <3>2 DEF CountersInv, PopDepthCounted, EndOwed,
              ClosedIsClear, HoldBounded, SuspendedInactive, Active, VoteTransactionActive
    <2>3. CASE Active /\ popDepth = 0
      <3>1. UNCHANGED <<win, popDepth>>
        BY <1>4, <2>3 DEF OpenForKick
      <3> QED BY <1>1, <2>1, <2>3, <3>1 DEF CountersInv, PopDepthCounted, EndOwed,
              ClosedIsClear, HoldBounded, SuspendedInactive, Active, VoteTransactionActive
    <2> QED BY <2>2, <2>3
  <1>5. CASE KickPre
    BY <1>4, <1>5 DEF KickPre, BeginAll, KickNames
  <1>6. ASSUME NEW s \in Slots, NamedKickPre(s)
        PROVE  CountersInv'
    BY <1>4, <1>6 DEF NamedKickPre, BeginForSlot, KickNames
  <1>7. CASE UnmatchedKickPre
    <2>1. Dispatch("bot_kick unknown", None) /\ UNCHANGED <<win, popDepth>>
      BY <1>7 DEF UnmatchedKickPre
    <2>2. /\ ~Suspended' /\ Votes(cmds) \subseteq Votes(cmds')
          /\ Cardinality(Kicks(cmds')) = Cardinality(Kicks(cmds)) + 1
      BY <1>2, <2>1 DEF CommandNames, KickNames
    <2>3. Cardinality(Kicks(cmds')) \in Nat
      BY KicksFinite DEF TypeOK, Command
    <2>4. Active' = Active /\ win' = win /\ popDepth' = popDepth
      BY <2>1 DEF Active, VoteTransactionActive
    <2>5. PopDepthCounted'
      BY <1>1, <2>2, <2>3, <2>4 DEF CountersInv, PopDepthCounted
    <2>6. EndOwed'
      BY <2>2, <2>4 DEF CountersInv, EndOwed
    <2> QED BY <2>2, <2>4, <2>5, <2>6 DEF CountersInv, ClosedIsClear,
            HoldBounded, SuspendedInactive
  <1>8. CASE BotAddPre
    <2>1. Dispatch("bot_add", None) /\ popDepth' = popDepth
      BY <1>8 DEF BotAddPre
    <2>2. ~Suspended' /\ Votes(cmds) \subseteq Votes(cmds')
          /\ Cardinality(Kicks(cmds')) = Cardinality(Kicks(cmds))
      BY <1>2, <2>1 DEF CommandNames, KickNames
    <2>3. \/ win'.depth = 0 /\ win'.hold = 0 /\ win'.valid = FALSE
          \/ win' = win
      BY <1>1, <1>8 DEF BotAddPre, CloseWindow, EndWindow, TypeOK, Window
    <2> QED BY <1>1, <2>1, <2>2, <2>3 DEF CountersInv, PopDepthCounted, EndOwed, ClosedIsClear,
            HoldBounded, SuspendedInactive, Active, VoteTransactionActive
  <1> QED BY <1>3, <1>5, <1>6, <1>7, <1>8 DEF CommandPre

(***************************************************************************)
(* What ScheduleVoteTransactionEnd leaves.                                 *)
(***************************************************************************)
LEMMA Scheduled ==
    ASSUME NEW w \in Window
    PROVE  LET q == ScheduleEnd(w, HoldFrames)
           IN  /\ q.depth = w.depth /\ q.valid = w.valid
               /\ w.depth # 0 => q.hold = HoldFrames
               /\ w.depth = 0 => q.hold = w.hold
  BY PluginAssumption DEF ScheduleEnd, VoteTransactionActive, Window

(***************************************************************************)
(* Hook_DispatchConCommand_Post: whoever owed the window an end has        *)
(* scheduled it.                                                           *)
(***************************************************************************)
LEMMA CommandPostCounts ==
    ASSUME CountersInv, TypeOK', CommandPost
    PROVE  CountersInv'
  <1>1. /\ TypeOK /\ cmds \in Seq(Command) /\ popDepth \in Nat
        /\ win \in Window /\ win.hold \in Nat /\ HoldFrames \in Nat /\ HoldFrames > 0
        /\ Cardinality(Kicks(cmds)) \in Nat
    <2>1. TypeOK /\ cmds \in Seq(Command)
      BY DEF CountersInv, TypeOK, Command
    <2> QED BY <2>1, KicksFinite, PluginAssumption DEF TypeOK, Window
  <1>2. ASSUME NEW names, Returns(names)
        PROVE  /\ Suspended' = Suspended
               /\ cmds[Len(cmds)].name \in names
               /\ Cardinality(Kicks(cmds')) =
                     IF cmds[Len(cmds)].name \in KickNames
                     THEN Cardinality(Kicks(cmds)) - 1
                     ELSE Cardinality(Kicks(cmds))
               /\ cmds[Len(cmds)].name # "callvote" => Votes(cmds') = Votes(cmds)
    <2>1. /\ cmds # <<>> /\ cmds' = SubSeq(cmds, 1, Len(cmds) - 1)
          /\ cmds[Len(cmds)].name \in names
      BY <1>2 DEF Returns
    <2>2. Suspended' = Suspended
      BY <1>2 DEF Returns, Suspended
    <2> QED BY <1>1, <2>1, <2>2, PoppedCommand
  <1>3. CASE CallvotePost
    <2>1. /\ Suspended' = Suspended
          /\ Cardinality(Kicks(cmds')) = Cardinality(Kicks(cmds))
          /\ popDepth' = popDepth /\ win' = ScheduleEnd(win, HoldFrames)
      <3>1. Returns({"callvote"}) /\ popDepth' = popDepth /\ win' = ScheduleEnd(win, HoldFrames)
        BY <1>3 DEF CallvotePost
      <3>2. cmds[Len(cmds)].name = "callvote"
        BY <1>2, <3>1
      <3> QED BY <1>2, <3>1, <3>2 DEF KickNames
    <2>2. /\ win'.depth = win.depth /\ win'.valid = win.valid
          /\ win.depth # 0 => win'.hold = HoldFrames
          /\ win.depth = 0 => win'.hold = win.hold
      BY <1>1, <2>1, Scheduled
    <2> QED BY <1>1, <2>1, <2>2 DEF CountersInv, PopDepthCounted, EndOwed, ClosedIsClear,
            HoldBounded, SuspendedInactive, Active, VoteTransactionActive
  <1>4. CASE KickPost
    <2>1. /\ Suspended' = Suspended
          /\ Cardinality(Kicks(cmds')) = Cardinality(Kicks(cmds)) - 1
          /\ Votes(cmds') = Votes(cmds)
      BY <1>2, <1>4 DEF KickPost, KickNames
    <2>2. popDepth' = (IF popDepth = 0 THEN 0 ELSE popDepth - 1)
      BY <1>4 DEF KickPost, DepthAfterKick
    <2>3. Cardinality(Kicks(cmds')) \in Nat
      BY KicksFinite DEF TypeOK, Command
    <2>4. CASE popDepth = 1
      <3>1. /\ win'.depth = win.depth /\ win'.valid = win.valid
            /\ win.depth # 0 => win'.hold = HoldFrames
            /\ win.depth = 0 => win'.hold = win.hold
        BY <1>1, <1>4, <2>4, Scheduled DEF KickPost, WindowAfterKick
      <3> QED BY <1>1, <2>1, <2>2, <2>3, <2>4, <3>1 DEF CountersInv, PopDepthCounted, EndOwed,
              ClosedIsClear, HoldBounded, SuspendedInactive, Active, VoteTransactionActive
    <2>5. CASE popDepth # 1
      <3>1. win' = win
        BY <1>4, <2>5 DEF KickPost, WindowAfterKick
      <3> QED BY <1>1, <2>1, <2>2, <2>3, <2>5, <3>1 DEF CountersInv, PopDepthCounted, EndOwed,
              ClosedIsClear, HoldBounded, SuspendedInactive, Active, VoteTransactionActive
    <2> QED BY <2>4, <2>5
  <1>5. CASE BotAddPost
    <2>1. /\ Suspended' = Suspended
          /\ Cardinality(Kicks(cmds')) = Cardinality(Kicks(cmds))
          /\ Votes(cmds') = Votes(cmds)
          /\ UNCHANGED <<win, popDepth>>
      <3>1. Returns({"bot_add"}) /\ UNCHANGED <<win, popDepth>>
        BY <1>5 DEF BotAddPost
      <3>2. cmds[Len(cmds)].name = "bot_add"
        BY <1>2, <3>1
      <3> QED BY <1>2, <3>1, <3>2 DEF KickNames
    <2> QED BY <2>1 DEF CountersInv, PopDepthCounted, EndOwed, ClosedIsClear, HoldBounded,
            SuspendedInactive, Active, VoteTransactionActive
  <1> QED BY <1>3, <1>4, <1>5 DEF CommandPost

(***************************************************************************)
(* The counters start right, and every hook keeps them so.                 *)
(***************************************************************************)
LEMMA CountersStep ==
    /\ Init => CountersInv
    /\ CountersInv /\ [Next]_vars => CountersInv'
  <1>1. ASSUME Init
        PROVE  CountersInv
    <2>1. TypeOK
      BY <1>1, InitType
    <2>2. cmds \in Seq(Command)
      BY <2>1 DEF TypeOK, Command
    <2>3. Cardinality(Kicks(cmds)) \in Nat
      BY <2>2, KicksFinite
    <2>4. HoldFrames \in Nat
      BY PluginAssumption
    <2> QED BY <1>1, <2>1, <2>3, <2>4 DEF Init, ClosedWindow, CountersInv, PopDepthCounted,
            EndOwed, ClosedIsClear, HoldBounded, SuspendedInactive, Active, VoteTransactionActive
  <1>2. ASSUME CountersInv, [Next]_vars
        PROVE  CountersInv'
    <2>1. TypeOK'
      BY <1>2, StepType DEF CountersInv
    <2>2. CASE UNCHANGED vars
      <3>1. WindowStep
        BY <2>2 DEF vars, WindowStep
      <3> QED BY <1>2, <2>1, <2>2, <3>1, WindowStepKeeps DEF vars, Suspended
    <2> QED BY <1>2, <2>1, <2>2, ClientCallCounts, EngineEventCounts, CommandPreCounts,
            CommandPostCounts, FrameCounts DEF Next
  <1> QED BY <1>1, <1>2

(***************************************************************************)
(* The counters are right in every reachable state, whatever commands are  *)
(* dispatched inside one another, and whatever the gate and bot_add cut    *)
(* short in the middle of them.                                            *)
(***************************************************************************)
THEOREM CountersHold == Spec => []CountersInv
  BY CountersStep, PTL DEF Spec

(***************************************************************************)
(* m_PopulationCommandDepth returns to zero with the outermost command.    *)
(***************************************************************************)
THEOREM PopDepthDoesReturn == Spec => []PopDepthReturns
  <1>1. CountersInv => PopDepthReturns
    <2> SUFFICES ASSUME CountersInv
                 PROVE  PopDepthReturns
      OBVIOUS
    <2>1. cmds \in Seq(Command) /\ popDepth \in Nat
      BY DEF CountersInv, TypeOK, Command
    <2>2. popDepth <= Cardinality(Kicks(cmds))
      BY DEF CountersInv, PopDepthCounted
    <2>3. Kicks(cmds) = {} => popDepth = 0
      BY <2>1, <2>2, FS_EmptySet
    <2>4. cmds = <<>> => Kicks(cmds) = {}
      BY DEF Kicks
    <2>5. popDepth > 0 => \E i \in 1 .. Len(cmds) : cmds[i].name # "callvote"
      <3>1. popDepth > 0 => \E i : i \in Kicks(cmds)
        BY <2>3
      <3>2. \A i \in Kicks(cmds) : i \in 1 .. Len(cmds) /\ cmds[i].name # "callvote"
        BY DEF Kicks, KickNames
      <3> QED BY <3>1, <3>2
    <2> QED BY <2>3, <2>4, <2>5 DEF PopDepthReturns
  <1> QED BY <1>1, CountersHold, PTL

(***************************************************************************)
(* No window is left open that GameFrame would not close.                  *)
(***************************************************************************)
THEOREM WindowIsScheduled == Spec => []WindowScheduled
  <1>1. CountersInv /\ PopDepthReturns => WindowScheduled
    <2> SUFFICES ASSUME CountersInv, PopDepthReturns
                 PROVE  WindowScheduled
      OBVIOUS
    <2>1. win.hold \in Nat
      BY DEF CountersInv, TypeOK, Window
    <2>2. cmds = <<>> => popDepth = 0 /\ Votes(cmds) = {}
      BY DEF PopDepthReturns, Votes
    <2> QED BY <2>1, <2>2 DEF CountersInv, EndOwed, ClosedIsClear, WindowScheduled
  <1> QED BY <1>1, CountersHold, PopDepthDoesReturn, PTL

-----------------------------------------------------------------------------
(* The hold                                                                *)

\* What HoldKept says of a step.
HoldStays ==
    Active /\ win.hold > 0 =>
        /\ win'.depth # 0 =>
              win'.hold >= win.hold \/ (GameFramePost /\ win'.hold = win.hold - 1)
        /\ win'.depth = 0 =>
              \/ GameFramePost /\ (win.hold = 1 \/ ~server.up)
              \/ BotAddPre
              \/ ReleaseManagedSlots

(***************************************************************************)
(* A step that leaves depth and hold alone keeps the hold.                 *)
(***************************************************************************)
LEMMA SameHoldStays ==
    ASSUME TypeOK, win'.depth = win.depth, win'.hold = win.hold
    PROVE  HoldStays
  <1>1. win.hold \in Nat
    BY DEF TypeOK, Window
  <1> QED BY <1>1 DEF HoldStays, Active, VoteTransactionActive

(***************************************************************************)
(* Opening one more level keeps the hold, and so does using the open one.  *)
(***************************************************************************)
LEMMA BeginHoldStays ==
    ASSUME TypeOK, NEW S, NEW valid,
           Begin(S, valid) \/ UNCHANGED <<reg, client, win, shm, popDepth>>
    PROVE  HoldStays
  <1>1. CASE Begin(S, valid)
    <2>1. win'.depth # 0 /\ win'.hold = win.hold /\ win.hold \in Nat
      BY <1>1, BeginCounts DEF TypeOK, Window
    <2> QED BY <2>1 DEF HoldStays
  <1> QED BY <1>1, SameHoldStays

(***************************************************************************)
(* Every hook keeps the hold (ScheduleVoteTransactionEnd is never given    *)
(* fewer frames than are left).                                            *)
(***************************************************************************)
LEMMA HoldStepStays ==
    ASSUME CountersInv, Next
    PROVE  HoldStays
  <1>1. TypeOK /\ win \in Window /\ win.hold \in Nat /\ HoldFrames \in Nat /\ win.hold <= HoldFrames
    BY PluginAssumption DEF CountersInv, TypeOK, Window, HoldBounded
  <1>2. ASSUME UNCHANGED win
        PROVE  HoldStays
    BY <1>1, <1>2, SameHoldStays
  <1>3. ReleaseManagedSlots => HoldStays
    BY DEF ReleaseManagedSlots, ClosedWindow, HoldStays
  <1>4. ASSUME NEW s \in Slots, ClientCall(s)
        PROVE  HoldStays
    <2>1. win' = win \/ win' = ResetSlot(win, s)
      BY <1>4 DEF ClientCall, HltvConnects, ClientIgnored, BotConnects, ControllerSpawns,
             ClientPutInServer, ClientDisconnect, SteamIdReappears, VacatedWindow
    <2>2. win'.depth = win.depth /\ win'.hold = win.hold
      BY <1>1, <2>1 DEF ResetSlot, Window
    <2> QED BY <1>1, <2>2, SameHoldStays
  <1>5. CASE EngineEvent
    <2>1. ASSUME NEW first, NEW second,
                 PassGate(first, second, UNCHANGED <<reg, client, win, shm>>)
          PROVE  HoldStays
      BY <1>2, <1>3, <2>1 DEF PassGate
    <2>2. ASSUME NEW m, NEW addon, LevelInit(m, addon)
          PROVE  HoldStays
      BY <2>1, <2>2 DEF LevelInit
    <2>3. ASSUME NEW arg, MapCommand(arg)
          PROVE  HoldStays
      BY <2>1, <2>3 DEF MapCommand
    <2> QED BY <1>2, <1>5, <2>2, <2>3 DEF EngineEvent, MapNameArrives, ServerGone, ServerBack
  <1>6. CASE CommandPre
    <2>1. CASE CallvotePre
      BY <1>1, <2>1, BeginHoldStays DEF CallvotePre, BeginAll
    <2>2. CASE KickPre
      BY <1>1, <2>2, BeginHoldStays DEF KickPre, OpenForKick, BeginAll
    <2>3. ASSUME NEW s \in Slots, NamedKickPre(s)
          PROVE  HoldStays
      BY <1>1, <2>3, BeginHoldStays DEF NamedKickPre, OpenForKick, BeginForSlot
    <2>4. CASE UnmatchedKickPre
      BY <1>2, <2>4 DEF UnmatchedKickPre
    <2>5. CASE BotAddPre
      <3>1. win'.depth = 0 \/ win' = win
        BY <1>1, <2>5 DEF BotAddPre, CloseWindow, EndWindow, Window
      <3> QED BY <1>2, <2>5, <3>1 DEF HoldStays
    <2> QED BY <1>6, <2>1, <2>2, <2>3, <2>4, <2>5 DEF CommandPre
  <1>7. CASE CommandPost
    <2>1. win' \in {win, ScheduleEnd(win, HoldFrames)}
      BY <1>7 DEF CommandPost, CallvotePost, KickPost, BotAddPost, WindowAfterKick
    <2>2. CASE win' = ScheduleEnd(win, HoldFrames)
      <3>1. win'.depth = win.depth /\ (win.depth # 0 => win'.hold = HoldFrames)
        BY <1>1, <2>2, Scheduled
      <3> QED BY <1>1, <3>1 DEF HoldStays, Active, VoteTransactionActive
    <2> QED BY <1>2, <2>1, <2>2
  <1>8. CASE GameFramePost
    <2>1. ASSUME TickVoteTransaction
          PROVE  HoldStays
      <3>1. CASE win' = ClosedWindow /\ ~server.up
        BY <1>8, <3>1 DEF ClosedWindow, HoldStays
      <3>2. CASE win.hold > 1 /\ HoldTick
        <4>1. win'.depth = win.depth /\ win'.hold = win.hold - 1
          BY <1>1, <3>2 DEF HoldTick, Window
        <4> QED BY <1>8, <4>1 DEF HoldStays, Active, VoteTransactionActive
      <3>3. CASE win.hold = 1 /\ CloseWindow
        <4>1. win'.depth = 0
          BY <1>1, <3>3 DEF CloseWindow, EndWindow, Window
        <4> QED BY <1>8, <3>3, <4>1 DEF HoldStays
      <3> QED BY <1>2, <2>1, <3>1, <3>2, <3>3 DEF TickVoteTransaction
    <2> QED BY <1>2, <1>3, <1>8, <2>1 DEF GameFramePost, PassGate
  <1> QED BY <1>4, <1>5, <1>6, <1>7, <1>8 DEF Next

(***************************************************************************)
(* No kick, no nested command and no vote takes frames from a hold; it     *)
(* ends with its last frame, with a bot_add, or with the gate or server.   *)
(***************************************************************************)
THEOREM HoldIsKept == Spec => HoldKept
  <1>1. CountersInv /\ [Next]_vars =>
           [ Active /\ win.hold > 0 =>
               /\ win'.depth # 0 =>
                     win'.hold >= win.hold \/ (GameFramePost /\ win'.hold = win.hold - 1)
               /\ win'.depth = 0 =>
                     \/ GameFramePost /\ (win.hold = 1 \/ ~server.up)
                     \/ BotAddPre
                     \/ ReleaseManagedSlots ]_vars
    BY HoldStepStays DEF HoldStays
  <1> QED BY <1>1, CountersHold, PTL DEF Spec, HoldKept

-----------------------------------------------------------------------------
(* The map gate                                                            *)

(***************************************************************************)
(* ApplyMapGate keeps the suspension true to the map it last saw, and has  *)
(* seen the map it was given.                                              *)
(***************************************************************************)
LEMMA GateApplied ==
    ASSUME NEW g, g.map # NoMap => (g.suspended <=> g.map \in Blacklisted), NEW m
    PROVE  LET h == ApplyMapGate(g, m)
           IN  /\ h.map # NoMap => (h.suspended <=> h.map \in Blacklisted)
               /\ m # NoMap => h.map = m
  <1>1. CASE m \in {NoMap, g.map}
    BY <1>1 DEF ApplyMapGate
  <1>2. CASE m \notin {NoMap, g.map}
    <2> DEFINE v == m \in Blacklisted
    <2>1. ApplyMapGate(g, m) = [map |-> m, suspended |-> v]
      BY <1>2 DEF ApplyMapGate
    <2> HIDE DEF v
    <2>2. ApplyMapGate(g, m).map = m /\ ApplyMapGate(g, m).suspended = v
      BY <2>1
    <2>3. v <=> m \in Blacklisted
      BY DEF v
    <2> QED BY <2>2, <2>3
  <1> QED BY <1>1, <1>2

(***************************************************************************)
(* A pass through the gate, likewise.                                      *)
(***************************************************************************)
LEMMA GatePassed ==
    ASSUME GateFollows, NEW first, NEW second, NEW otherwise,
           PassGate(first, second, otherwise)
    PROVE  GateFollows' /\ (second # NoMap => gate'.map = second)
  <1>1. PICK g1 : g1 = ApplyMapGate(gate, first) /\ gate' = ApplyMapGate(g1, second)
    BY DEF PassGate
  <1>2. g1.map # NoMap => (g1.suspended <=> g1.map \in Blacklisted)
    BY <1>1, GateApplied DEF GateFollows
  <1>3. /\ gate'.map # NoMap => (gate'.suspended <=> gate'.map \in Blacklisted)
        /\ second # NoMap => gate'.map = second
    BY <1>1, <1>2, GateApplied
  <1> QED BY <1>3 DEF GateFollows

(***************************************************************************)
(* s_MapSuspended is what the blacklist says of the last map the gate saw. *)
(***************************************************************************)
LEMMA GateStep ==
    /\ Init => GateFollows
    /\ GateFollows /\ [Next]_vars => GateFollows'
  <1>1. Init => GateFollows
    BY DEF Init, GateFollows
  <1>2. ASSUME GateFollows, [Next]_vars
        PROVE  GateFollows'
    <2>1. ASSUME UNCHANGED gate
          PROVE  GateFollows'
      BY <1>2, <2>1 DEF GateFollows
    <2>2. ASSUME NEW s \in Slots, ClientCall(s)
          PROVE  GateFollows'
      BY <2>1, <2>2 DEF ClientCall, HltvConnects, ClientIgnored, BotConnects, ControllerSpawns,
             ClientPutInServer, ClientDisconnect, SteamIdReappears
    <2>3. CASE EngineEvent
      BY <1>2, <2>1, <2>3, GatePassed DEF EngineEvent, LevelInit, MapNameArrives, MapCommand,
             ServerGone, ServerBack
    <2>4. CASE CommandPre
      BY <2>1, <2>4 DEF CommandPre, CallvotePre, KickPre, NamedKickPre, UnmatchedKickPre,
             BotAddPre, Dispatch
    <2>5. CASE CommandPost
      BY <2>1, <2>5 DEF CommandPost, CallvotePost, KickPost, BotAddPost, Returns
    <2>6. CASE GameFramePost
      BY <1>2, <2>6, GatePassed DEF GameFramePost
    <2> QED BY <1>2, <2>1, <2>2, <2>3, <2>4, <2>5, <2>6 DEF Next, vars
  <1> QED BY <1>1, <1>2

(***************************************************************************)
(* After a frame on a known map the plugin hosts bots exactly if that map  *)
(* is not blacklisted, however hints and level changes came before it.     *)
(***************************************************************************)
THEOREM FrameDoesFollowMap == Spec => FrameFollowsMap
  <1>1. Spec => []GateFollows
    BY GateStep, PTL DEF Spec
  <1>2. GateFollows =>
           [ GameFramePost /\ BuildMapIdentity(server) # NoMap =>
               (gate'.suspended <=> BuildMapIdentity(server) \in Blacklisted) ]_vars
    <2> SUFFICES ASSUME GateFollows, GameFramePost, BuildMapIdentity(server) # NoMap
                 PROVE  gate'.suspended <=> BuildMapIdentity(server) \in Blacklisted
      OBVIOUS
    <2> DEFINE id == BuildMapIdentity(server)
               hosted == IF ApplyMapGate(gate, id).suspended
                         THEN UNCHANGED <<reg, client, win, shm>>
                         ELSE TickVoteTransaction
    <2>0. PassGate(NoMap, id, hosted)
      BY DEF GameFramePost
    <2> HIDE DEF hosted
    <2>1. GateFollows' /\ gate'.map = BuildMapIdentity(server)
      BY <2>0, GatePassed
    <2> QED BY <2>1 DEF GateFollows
  <1> QED BY <1>1, <1>2, PTL DEF Spec, FrameFollowsMap

-----------------------------------------------------------------------------
(* The window's contract                                                   *)

IsApplied(s) == IsManaged(reg, s) /\ reg.m_Slots[s] \in reg.applied

AppliedHeld == \A b \in reg.applied : \E s \in Slots : reg.m_Slots[s] = b

LossesCounted == server.id <= MaxLosses

DownIsEmpty == server.up \/ (ServerWasLost /\ \A s \in Slots : client[s].who = "none")

(***************************************************************************)
(* A kick that names a persona whose bot went with a lost server opens a   *)
(* window without a snapshot (BeginVoteTransactionForSlot), which restores *)
(* nobody when it closes and disguises nobody either.                      *)
(***************************************************************************)
PersonaKicks == "bot_kick name" \in Commands

MayBeBlind == ServerWasLost /\ PersonaKicks

ValidUnlessBlind == Active => win.valid \/ MayBeBlind

\* What holds of one slot: of its shared-memory entry,
EntryRight(s) ==
    IF IsApplied(s)
    THEN shm[s].bot = reg.m_Slots[s]
    ELSE shm[s].bot # None => ServerWasLost /\ Blacklisted # {}

\* of the client that holds it,
HolderRight(s) ==
    IsManaged(reg, s) =>
        client[s].who # "human" /\ (client[s].who # "bot" => ServerWasLost)

\* of what the window captured of it, whatever the engine writes meanwhile,
CaptureRight(s) ==
    win.snap[s].captured =>
        /\ Active /\ win.valid
        /\ IsManaged(reg, s)
        /\ client[s].who = "bot" =>
              /\ win.snap[s].server = server.id
              /\ win.snap[s].sscSteamId = IF IsApplied(s) THEN SteamIdOf[reg.m_Slots[s]] ELSE 0

\* of the markers of a bot that is not captured,
MarkersRight(s) ==
    client[s].who = "bot" /\ ~win.snap[s].captured =>
        IF IsApplied(s)
        THEN client[s].mark = "player" /\ client[s].sid = SteamIdOf[reg.m_Slots[s]]
        ELSE client[s].mark = "native" /\ client[s].sid = 0

\* and of a bot that waits for its disguise.
WaitRight(s) ==
    client[s].who = "bot" /\ IsManaged(reg, s) /\ ~IsApplied(s) => Active \/ MayBeBlind

SlotServed(s) ==
    EntryRight(s) /\ HolderRight(s) /\ CaptureRight(s) /\ MarkersRight(s) /\ WaitRight(s)

\* The inductive invariant.
Served ==
    /\ CountersInv
    /\ Leased
    /\ AppliedHeld
    /\ LossesCounted
    /\ DownIsEmpty
    /\ ValidUnlessBlind
    /\ \A s \in Slots : SlotServed(s)

\* What is known of the next state from the proofs of the other invariants.
NextKnown == CountersInv' /\ Leased'

\* The game server stays what it is; its map may change.
SameGame == server'.id = server.id /\ server'.up = server.up

-----------------------------------------------------------------------------
(* What the parts of a handler do                                          *)

(***************************************************************************)
(* What writing markers makes of a client (ApplyNativeVoteMarkers,         *)
(* ApplyPlayerMarkers).                                                    *)
(***************************************************************************)
LEMMA MarkersEffect ==
    ASSUME NEW k \in Client, NEW sid \in SteamIds, NEW w \in BOOLEAN
    PROVE  /\ NativeMarkers(k, w).who = k.who
           /\ NativeMarkers(k, w).mark = "native"
           /\ NativeMarkers(k, w).sid = 0
           /\ k.ctrl # "player" => NativeMarkers(k, w).ctrl # "player"
           /\ PlayerMarkers(k, sid, w).who = k.who
           /\ PlayerMarkers(k, sid, w).mark = "player"
           /\ PlayerMarkers(k, sid, w).sid = sid
  <1>1. /\ NativeMarkers(k, w).who = k.who
        /\ NativeMarkers(k, w).mark = "native"
        /\ NativeMarkers(k, w).sid = 0
        /\ k.ctrl # "player" => NativeMarkers(k, w).ctrl # "player"
    BY DEF NativeMarkers, SetCtrl, Client
  <1>2. /\ PlayerMarkers(k, sid, w).who = k.who
        /\ PlayerMarkers(k, sid, w).mark = "player"
        /\ PlayerMarkers(k, sid, w).sid = sid
    BY DEF PlayerMarkers, SetCtrl, Client
  <1> QED BY <1>1, <1>2

\* The slots ApplyDisguise completes for, leases being exclusive.
Done(P, c, deferred) == IF deferred THEN {} ELSE P \cap Present(c)

\* The disguises of D are applied to the clients c, and nothing else happens.
Disguises(D, c) ==
    /\ reg'.m_Slots = reg.m_Slots
    /\ reg'.applied = reg.applied \cup {reg.m_Slots[s] : s \in D}
    /\ \A s \in D :
          /\ client'[s].who = c[s].who
          /\ client'[s].mark = "player"
          /\ client'[s].sid = SteamIdOf[reg.m_Slots[s]]
          /\ shm'[s].bot = reg.m_Slots[s]
    /\ \A s \in Slots \ D : client'[s] = c[s] /\ shm'[s] = shm[s]

(***************************************************************************)
(* ApplyDisguise completes for every slot that has a client, unless the    *)
(* window is open.                                                         *)
(***************************************************************************)
LEMMA DisguiseEffect ==
    ASSUME Leased, NEW P \in SUBSET ManagedSlots(reg), NEW c \in [Slots -> Client],
           NEW deferred, ApplyDisguise(P, reg, c, shm, deferred)
    PROVE  Disguises(Done(P, c, deferred), c)
  <1> DEFINE done == Disguised(P, reg, c, deferred)
             D == Done(P, c, deferred)
  <1>1. \A s, t \in P : reg.m_Slots[t] = reg.m_Slots[s] => s = t
    BY DEF ManagedSlots, Leased, Exclusive
  <1>2. \A s \in P : s \in Slots /\ s <= s /\ IsManaged(reg, s)
    BY PoolAssumption DEF ManagedSlots, Slots
  <1>3. done = D
    <2>1. \A s : s \in done <=> s \in D
      BY <1>1, <1>2 DEF Disguised, Done
    <2> HIDE DEF done, D
    <2> QED BY <2>1 DEF D, Done
  <1>4. reg' = RecordDisguise(reg, Called(P, reg, done), done)
    BY DEF ApplyDisguise
  <1>5. client' = [s \in Slots |->
                      IF s \in done
                      THEN PlayerMarkers(c[s], SteamIdOf[reg.m_Slots[s]], TRUE)
                      ELSE c[s]]
    BY DEF ApplyDisguise
  <1>6. shm' = [s \in Slots |->
                   IF s \in done THEN PublishAdopt(shm[s], reg.m_Slots[s]) ELSE shm[s]]
    BY DEF ApplyDisguise
  <1>9. \A s \in D : s \in P
    BY DEF Done
  <1> HIDE DEF done, D
  <1>7. reg'.m_Slots = reg.m_Slots
    <2>1. Called(P, reg, done) \in SUBSET Slots
      BY <1>2 DEF Called
    <2> QED BY <1>4, <2>1, RecordKeeps DEF Leased, TypeOK
  <1>8. reg'.applied = reg.applied \cup {reg.m_Slots[s] : s \in done}
    BY <1>4 DEF RecordDisguise, Leased, TypeOK, Registry
  <1>10. ASSUME NEW s \in D
         PROVE  /\ client'[s].who = c[s].who
                /\ client'[s].mark = "player" /\ client'[s].sid = SteamIdOf[reg.m_Slots[s]]
    <2>1. reg.m_Slots[s] \in Bots
      BY <1>2, <1>9, ManagedHoldsBot DEF Leased, TypeOK
    <2>2. SteamIdOf[reg.m_Slots[s]] \in SteamIds
      BY <2>1 DEF SteamIds
    <2> DEFINE p == PlayerMarkers(c[s], SteamIdOf[reg.m_Slots[s]], TRUE)
    <2>3. client'[s] = p
      BY <1>2, <1>3, <1>5, <1>9
    <2>4. p.who = c[s].who /\ p.mark = "player" /\ p.sid = SteamIdOf[reg.m_Slots[s]]
      <3>1. c[s] \in Client /\ TRUE \in BOOLEAN
        BY <1>2, <1>9
      <3> QED BY <2>2, <3>1, MarkersEffect, Zenon
    <2> HIDE DEF p
    <2> QED BY <2>3, <2>4
  <1>11. \A s \in D : shm'[s].bot = reg.m_Slots[s]
    BY <1>2, <1>3, <1>6, <1>9 DEF PublishAdopt
  <1>12. \A s \in Slots \ D : client'[s] = c[s] /\ shm'[s] = shm[s]
    BY <1>3, <1>5, <1>6
  <1> QED BY <1>3, <1>7, <1>8, <1>10, <1>11, <1>12 DEF Disguises, D

(***************************************************************************)
(* The bots Reassert and Restore touch are the captured ones: none of      *)
(* their slots was vacated, and they are of this game server.              *)
(***************************************************************************)
LEMMA CapturedTouchable ==
    ASSUME Served, NEW s \in Slots, client[s].who = "bot"
    PROVE  s \in Touchable(win, reg, server.id, Present(client)) <=> win.snap[s].captured
  <1>1. CaptureRight(s)
    BY DEF Served, SlotServed
  <1> QED BY <1>1 DEF CaptureRight, Touchable, ManagedSlots, Present

(***************************************************************************)
(* Slots without a client stay so on a server that is down, unless a       *)
(* client arrives.                                                         *)
(***************************************************************************)
LEMMA StaysEmpty ==
    ASSUME DownIsEmpty, LossesCounted, SameGame,
           server.up \/ \A s \in Slots : client'[s].who = client[s].who
    PROVE  DownIsEmpty' /\ LossesCounted'
  BY DEF DownIsEmpty, LossesCounted, SameGame, ServerWasLost

-----------------------------------------------------------------------------
(* Kinds of steps                                                          *)

\* What a step may do to the markers of a bot that is there after it.
MarkersKept(s) ==
    \/ ~IsManaged(reg, s) /\ client'[s].mark = "native" /\ client'[s].sid = 0
    \/ /\ client[s].who = "bot"
       /\ server'.id = server.id
       /\ \/ win'.snap[s].captured
          \/ /\ ~win.snap[s].captured
             /\ client'[s].mark = client[s].mark /\ client'[s].sid = client[s].sid
          \/ /\ IsApplied(s)
             /\ client'[s].mark = "player" /\ client'[s].sid = SteamIdOf[reg.m_Slots[s]]

\* What a step may do to a managed slot's client, short of vacating the slot.
HolderKept(s) ==
    \/ client'[s].who = client[s].who
    \/ ServerWasLost' /\ client'[s].who \notin {"human", "bot"}

(***************************************************************************)
(* A step that leaves every slot its identity, and disguises the waiting   *)
(* bots of D.                                                              *)
(***************************************************************************)
LEMMA KeepingStep ==
    ASSUME Served, NextKnown, LossesCounted', DownIsEmpty', ValidUnlessBlind',
           ServerWasLost => ServerWasLost',
           NEW D \in SUBSET PendingSlots(reg),
           reg'.m_Slots = reg.m_Slots,
           reg'.applied = reg.applied \cup {reg.m_Slots[s] : s \in D},
           \A s \in D :
              /\ shm'[s].bot = reg.m_Slots[s]
              /\ ~win'.snap[s].captured
              /\ client'[s].who = client[s].who
              /\ client'[s].mark = "player" /\ client'[s].sid = SteamIdOf[reg.m_Slots[s]],
           \A s \in Slots \ D :
              /\ shm'[s].bot = shm[s].bot
              /\ IsManaged(reg, s) => HolderKept(s)
              /\ win'.snap[s].captured => win'.snap[s] = win.snap[s] /\ Active' /\ win'.valid
              /\ client'[s].who = "bot" => MarkersKept(s)
              /\ client'[s].who = "bot" /\ IsManaged(reg, s) /\ ~IsApplied(s) =>
                    Active' \/ MayBeBlind'
    PROVE  Served'
  <1>1. \A s \in D : s \in Slots /\ IsManaged(reg, s) /\ ~IsApplied(s)
    BY DEF PendingSlots, ManagedSlots, IsApplied
  <1>2. AppliedHeld'
    BY <1>1 DEF Served, AppliedHeld
  <1>3. ASSUME NEW s \in Slots
        PROVE  SlotServed(s)'
    <2>1. /\ EntryRight(s) /\ HolderRight(s) /\ CaptureRight(s)
          /\ MarkersRight(s) /\ WaitRight(s)
      BY DEF Served, SlotServed
    <2>2. IsManaged(reg', s) <=> IsManaged(reg, s)
      BY DEF IsManaged
    <2>3. CASE s \in D
      <3>1. IsManaged(reg', s) /\ IsApplied(s)' /\ reg'.m_Slots[s] = reg.m_Slots[s]
        BY <1>1, <2>2, <2>3 DEF IsApplied
      <3>2. EntryRight(s)' /\ CaptureRight(s)' /\ MarkersRight(s)' /\ WaitRight(s)'
        BY <2>3, <3>1 DEF EntryRight, CaptureRight, MarkersRight, WaitRight
      <3>3. HolderRight(s)'
        BY <1>1, <2>1, <2>3 DEF HolderRight
      <3> QED BY <3>2, <3>3 DEF SlotServed
    <2>4. CASE s \notin D
      <3>1. IsApplied(s)' <=> IsApplied(s)
        <4>1. \A t \in D : IsManaged(reg, s) => reg.m_Slots[t] # reg.m_Slots[s]
          BY <1>1, <2>4 DEF Served, Leased, Exclusive
        <4> QED BY <2>2, <4>1 DEF IsApplied
      <3>2. EntryRight(s)'
        BY <2>1, <2>4, <3>1 DEF EntryRight
      <3>3. HolderRight(s)'
        BY <2>1, <2>2, <2>4 DEF HolderRight, HolderKept
      <3>4. CaptureRight(s)'
        BY <2>1, <2>2, <2>4, <3>1 DEF CaptureRight, MarkersKept
      <3>5. MarkersRight(s)'
        BY <2>1, <2>4, <3>1 DEF MarkersRight, MarkersKept, IsApplied
      <3>6. WaitRight(s)'
        BY <2>2, <2>4, <3>1 DEF WaitRight
      <3> QED BY <3>2, <3>3, <3>4, <3>5, <3>6 DEF SlotServed
    <2> QED BY <2>3, <2>4
  <1> QED BY <1>2, <1>3 DEF Served, NextKnown

(***************************************************************************)
(* One that leaves the registry and the captures alone, and touches only   *)
(* captured clients, or things of a client nobody looks at here.           *)
(***************************************************************************)
LEMMA QuietStep ==
    ASSUME Served, NextKnown, LossesCounted', DownIsEmpty', server'.id = server.id,
           reg'.m_Slots = reg.m_Slots, reg'.applied = reg.applied,
           Active' <=> Active, win'.valid = win.valid,
           \A s \in Slots :
              /\ win'.snap[s] = win.snap[s]
              /\ shm'[s].bot = shm[s].bot
              /\ IsManaged(reg, s) =>
                    \/ client'[s].who = client[s].who
                    \/ client[s].who = "none" /\ client'[s].who = "hltv"
              /\ client'[s].who = "bot" =>
                    \/ ~IsManaged(reg, s) /\ client'[s].mark = "native" /\ client'[s].sid = 0
                    \/ client[s].who = "bot" /\ win.snap[s].captured
                    \/ /\ client[s].who = "bot"
                       /\ client'[s].mark = client[s].mark /\ client'[s].sid = client[s].sid
    PROVE  Served'
  <1>1. (ServerWasLost' <=> ServerWasLost) /\ (MayBeBlind' <=> MayBeBlind)
    BY DEF ServerWasLost, MayBeBlind
  <1>2. ValidUnlessBlind'
    BY <1>1 DEF Served, ValidUnlessBlind
  <1>3. {} \in SUBSET PendingSlots(reg)
        /\ reg'.applied = reg.applied \cup {reg.m_Slots[s] : s \in {}}
    OBVIOUS
  <1>4. ASSUME NEW s \in Slots
        PROVE  /\ shm'[s].bot = shm[s].bot
               /\ IsManaged(reg, s) => HolderKept(s)
               /\ win'.snap[s].captured => win'.snap[s] = win.snap[s] /\ Active' /\ win'.valid
               /\ client'[s].who = "bot" => MarkersKept(s)
               /\ client'[s].who = "bot" /\ IsManaged(reg, s) /\ ~IsApplied(s) =>
                     Active' \/ MayBeBlind'
    <2>1. HolderRight(s) /\ CaptureRight(s) /\ WaitRight(s)
      BY DEF Served, SlotServed
    <2>2. IsManaged(reg, s) => HolderKept(s)
      BY <1>1, <2>1 DEF HolderRight, HolderKept
    <2>3. win'.snap[s].captured => Active' /\ win'.valid
      BY <2>1 DEF CaptureRight
    <2>4. client'[s].who = "bot" => MarkersKept(s)
      BY DEF MarkersKept
    <2>5. client'[s].who = "bot" /\ IsManaged(reg, s) /\ ~IsApplied(s) => Active' \/ MayBeBlind'
      BY <1>1, <2>1 DEF WaitRight
    <2> QED BY <2>2, <2>3, <2>4, <2>5
  <1> DEFINE D == {}
  <1>5. /\ D \in SUBSET PendingSlots(reg)
        /\ reg'.applied = reg.applied \cup {reg.m_Slots[s] : s \in D}
        /\ \A s \in D : FALSE
    BY <1>3
  <1> HIDE DEF D
  <1> QED BY <1>1, <1>2, <1>4, <1>5, KeepingStep

(***************************************************************************)
(* A step that releases the slots S, with their captures; an entry of one  *)
(* may be left behind.                                                     *)
(***************************************************************************)
LEMMA VacatingStep ==
    ASSUME Served, NextKnown, LossesCounted', DownIsEmpty', server'.id = server.id,
           NEW S \in SUBSET ManagedSlots(reg),
           reg' = Unmark(reg, S),
           \/ Active' = Active /\ win'.valid = win.valid
           \/ ~Active' /\ S = ManagedSlots(reg),
           \A s \in S :
              /\ ~win'.snap[s].captured
              /\ shm'[s].bot # None => ServerWasLost /\ Blacklisted # {}
              /\ client'[s].who = "bot" => client'[s].mark = "native" /\ client'[s].sid = 0,
           \A s \in Slots \ S :
              /\ win'.snap[s] = win.snap[s] \/ (~IsManaged(reg, s) /\ ~win'.snap[s].captured)
              /\ shm'[s].bot = shm[s].bot
              /\ client'[s] = client[s]
    PROVE  Served'
  <1>1. /\ \A s \in Slots : reg'.m_Slots[s] = IF s \in S THEN None ELSE reg.m_Slots[s]
        /\ reg'.applied = reg.applied \ {reg.m_Slots[s] : s \in S}
    BY DEF Unmark
  <1>2. \A s \in S : s \in Slots /\ IsManaged(reg, s)
    BY DEF ManagedSlots
  <1>3. AppliedHeld'
    BY <1>1 DEF Served, AppliedHeld
  <1>4. (ServerWasLost' <=> ServerWasLost) /\ (MayBeBlind' <=> MayBeBlind)
    BY DEF ServerWasLost, MayBeBlind
  <1>5. ValidUnlessBlind'
    BY <1>4 DEF Served, ValidUnlessBlind
  <1>6. ASSUME NEW s \in Slots
        PROVE  SlotServed(s)'
    <2>1. /\ EntryRight(s) /\ HolderRight(s) /\ CaptureRight(s)
          /\ MarkersRight(s) /\ WaitRight(s)
      BY DEF Served, SlotServed
    <2>2. CASE s \in S
      <3>1. ~IsManaged(reg', s) /\ ~IsApplied(s)'
        BY <1>1, <2>2 DEF IsManaged, IsApplied
      <3> QED BY <1>4, <2>2, <3>1
          DEF SlotServed, EntryRight, HolderRight, CaptureRight, MarkersRight, WaitRight
    <2>3. CASE s \notin S
      <3>1. IsManaged(reg', s) <=> IsManaged(reg, s)
        BY <1>1, <2>3 DEF IsManaged
      <3>2. IsApplied(s)' <=> IsApplied(s)
        <4>1. \A t \in S : IsManaged(reg, s) => reg.m_Slots[t] # reg.m_Slots[s]
          BY <1>2, <2>3 DEF Served, Leased, Exclusive
        <4> QED BY <1>1, <2>3, <3>1, <4>1 DEF IsApplied, IsManaged
      <3>3. reg'.m_Slots[s] = reg.m_Slots[s]
        BY <1>1, <2>3
      <3>4. IsManaged(reg, s) => Active' = Active /\ win'.valid = win.valid
        BY <2>3 DEF ManagedSlots
      <3>5. EntryRight(s)' /\ HolderRight(s)'
        BY <1>4, <2>1, <2>3, <3>1, <3>2, <3>3 DEF EntryRight, HolderRight
      <3>6. CaptureRight(s)'
        BY <2>1, <2>3, <3>1, <3>2, <3>3, <3>4 DEF CaptureRight
      <3>7. MarkersRight(s)' /\ WaitRight(s)'
        BY <1>4, <2>1, <2>3, <3>1, <3>2, <3>3, <3>4
        DEF MarkersRight, WaitRight, CaptureRight
      <3> QED BY <3>5, <3>6, <3>7 DEF SlotServed
    <2> QED BY <2>2, <2>3
  <1> QED BY <1>3, <1>5, <1>6 DEF Served, NextKnown

(***************************************************************************)
(* A step of the hooks that looks like none.                               *)
(***************************************************************************)
LEMMA UnchangedServes ==
    ASSUME Served, NextKnown, SameGame, UNCHANGED <<reg, client, win, shm>>
    PROVE  Served'
  <1>1. DownIsEmpty' /\ LossesCounted' /\ server'.id = server.id
    BY StaysEmpty DEF Served, SameGame
  <1>2. Active' <=> Active
    BY DEF Active
  <1> QED BY <1>1, <1>2, QuietStep

(***************************************************************************)
(* ApplyDisguise for waiting slots, with the clients as they are but for   *)
(* what nobody looks at here.                                              *)
(***************************************************************************)
LEMMA DisguisingServes ==
    ASSUME Served, NextKnown, SameGame, UNCHANGED win,
           NEW P \in SUBSET PendingSlots(reg), NEW c \in [Slots -> Client],
           \A s \in Slots :
              c[s].who = client[s].who /\ c[s].mark = client[s].mark /\ c[s].sid = client[s].sid,
           ApplyDisguise(P, reg, c, shm, Active)
    PROVE  Served'
  <1> DEFINE D == Done(P, c, Active)
  <1>1. Leased /\ P \in SUBSET ManagedSlots(reg) /\ Active \in BOOLEAN
    <2>1. P \in SUBSET ManagedSlots(reg)
      BY PendingSlotsManaged
    <2> QED BY <2>1 DEF Served, Active, VoteTransactionActive
  <1>2. /\ D \in SUBSET PendingSlots(reg)
        /\ Active => D = {}
        /\ \A s \in D : s \in Slots
    BY <1>1 DEF Done, ManagedSlots
  <1> HIDE DEF D
  <1>3. Disguises(D, c)
    BY <1>1, DisguiseEffect DEF D
  <1> USE DEF Disguises
  <1>4. \A s \in Slots : client'[s].who = client[s].who
    BY <1>2, <1>3
  <1>5. DownIsEmpty' /\ LossesCounted' /\ server'.id = server.id
    BY <1>4, StaysEmpty DEF Served, SameGame
  <1>6. (Active' <=> Active) /\ (ServerWasLost' <=> ServerWasLost) /\ (MayBeBlind' <=> MayBeBlind)
    BY <1>5 DEF Active, ServerWasLost, MayBeBlind
  <1>7. ValidUnlessBlind'
    BY <1>6 DEF Served, ValidUnlessBlind
  <1>8. ASSUME NEW s \in Slots
        PROVE  /\ win.snap[s].captured => Active /\ win.valid
               /\ WaitRight(s)
    BY DEF Served, SlotServed, CaptureRight
  <1>9. \A s \in D : ~win'.snap[s].captured
    BY <1>2, <1>8
  <1>10. ASSUME NEW s \in Slots \ D
         PROVE  /\ shm'[s].bot = shm[s].bot
                /\ IsManaged(reg, s) => HolderKept(s)
                /\ win'.snap[s].captured => win'.snap[s] = win.snap[s] /\ Active' /\ win'.valid
                /\ client'[s].who = "bot" => MarkersKept(s)
                /\ client'[s].who = "bot" /\ IsManaged(reg, s) /\ ~IsApplied(s) =>
                      Active' \/ MayBeBlind'
    <2>1. HolderKept(s)
      BY <1>4 DEF HolderKept
    <2>2. client'[s].who = "bot" => MarkersKept(s)
      BY <1>3, <1>4, <1>5 DEF MarkersKept
    <2>3. client'[s].who = "bot" /\ IsManaged(reg, s) /\ ~IsApplied(s) => Active' \/ MayBeBlind'
      BY <1>4, <1>6, <1>8 DEF WaitRight
    <2> QED BY <1>3, <1>6, <1>8, <2>1, <2>2, <2>3
  <1> QED BY <1>2, <1>3, <1>4, <1>5, <1>6, <1>7, <1>9, <1>10, KeepingStep

(***************************************************************************)
(* Closing the window restores the captured slots and disguises the        *)
(* deferred ones that have a client; without a snapshot it does neither.   *)
(***************************************************************************)
LEMMA CloseWindowServes ==
    ASSUME Served, NextKnown, Active, CloseWindow, SameGame
    PROVE  Served'
  <1>1. /\ Leased /\ win \in Window
        /\ client \in [Slots -> Client] /\ shm \in [Slots -> ShmEntry]
        /\ server'.id = server.id
        /\ ServerWasLost' <=> ServerWasLost
    BY DEF Served, Leased, TypeOK, SameGame, ServerWasLost
  <1>2. ~Active' /\ \A s \in Slots : win'.snap[s].captured => ~win.valid /\ win.snap[s].captured
    BY <1>1 DEF CloseWindow, EndWindow, NoSnapshot, Window, Active, VoteTransactionActive
  <1>3. \A s \in Slots : ~win'.snap[s].captured
    BY <1>2 DEF Served, SlotServed, CaptureRight
  <1>4. ValidUnlessBlind'
    BY <1>2 DEF ValidUnlessBlind
  <1>5. CASE ~win.valid
    <2>1. UNCHANGED <<reg, client, shm>>
      BY <1>5 DEF CloseWindow, RestorePlayerIdentity
    <2>2. MayBeBlind'
      BY <1>1, <1>5 DEF Served, ValidUnlessBlind, MayBeBlind
    <2>3. DownIsEmpty' /\ LossesCounted'
      BY <2>1, StaysEmpty DEF Served
    <2>4. \A s \in Slots : ~win.snap[s].captured
      BY <1>5 DEF Served, SlotServed, CaptureRight
    <2>5. \A s \in Slots : HolderKept(s) /\ (client'[s].who = "bot" => MarkersKept(s))
      BY <1>1, <2>1, <2>4 DEF HolderKept, MarkersKept
    <2> DEFINE D == {}
    <2>6. /\ D \in SUBSET PendingSlots(reg)
          /\ reg'.applied = reg.applied \cup {reg.m_Slots[s] : s \in D}
          /\ \A s \in D : FALSE
      BY <2>1
    <2> HIDE DEF D
    <2> QED BY <1>1, <1>3, <1>4, <2>1, <2>2, <2>3, <2>5, <2>6, KeepingStep
  <1>6. CASE win.valid
    <2> DEFINE touched == Touchable(win, reg, server.id, Present(client))
               restored == RestoreMarkers(win, touched, client)
               P == PendingSlots(reg)
               D == Done(P, restored, FALSE)
    <2>1. restored \in [Slots -> Client]
      BY <1>1, HoldMarkersType
    <2>2. \A s \in Slots :
             restored[s] = IF s \in touched
                           THEN PlayerMarkers(client[s], win.snap[s].sscSteamId,
                                              win.snap[s].hasController)
                           ELSE client[s]
      BY <1>6 DEF RestoreMarkers
    <2>3. ApplyDisguise(P, reg, restored, shm, FALSE)
      BY <1>6 DEF CloseWindow, RestorePlayerIdentity
    <2>4. P \in SUBSET ManagedSlots(reg)
      BY PendingSlotsManaged
    <2> HIDE DEF restored, touched
    <2>5. ASSUME NEW s \in Slots
          PROVE  /\ restored[s].who = client[s].who
                 /\ s \in touched =>
                       restored[s].mark = "player" /\ restored[s].sid = win.snap[s].sscSteamId
      <3>1. /\ client[s] \in Client
            /\ win.snap[s].sscSteamId \in SteamIds
            /\ win.snap[s].hasController \in BOOLEAN
        BY <1>1 DEF Window, Snapshot
      <3> QED BY <2>2, <3>1, MarkersEffect
    <2>6. D \in SUBSET P /\ \A s \in P : s \in Slots /\ (s \in D <=> restored[s].who # "none")
      BY <2>4 DEF Done, Present, ManagedSlots
    <2> HIDE DEF D, P
    <2>7. Disguises(D, restored)
      BY <1>1, <2>1, <2>3, <2>4, DisguiseEffect DEF D
    <2> USE DEF Disguises
    <2>8. \A s \in Slots : client'[s].who = client[s].who
      BY <2>5, <2>6, <2>7
    <2>9. DownIsEmpty' /\ LossesCounted'
      BY <2>8, StaysEmpty DEF Served
    <2>10. ASSUME NEW s \in Slots \ D
           PROVE  /\ HolderKept(s)
                  /\ client'[s].who = "bot" => MarkersKept(s) /\ (IsManaged(reg, s) => IsApplied(s))
      <3>1. HolderKept(s)
        BY <2>8 DEF HolderKept
      <3>2. ASSUME client'[s].who = "bot"
            PROVE  MarkersKept(s) /\ (IsManaged(reg, s) => IsApplied(s))
        <4>1. client[s].who = "bot" /\ client'[s] = restored[s] /\ CaptureRight(s)
          BY <2>7, <2>8, <3>2 DEF Served, SlotServed
        <4>2. s \notin P
          BY <2>5, <2>6, <4>1
        <4>3. IsManaged(reg, s) => IsApplied(s)
          BY <4>2 DEF P, PendingSlots, ManagedSlots, IsApplied
        <4>4. s \in touched <=> win.snap[s].captured
          BY <4>1, CapturedTouchable DEF touched
        <4>5. CASE win.snap[s].captured
          <5>1. IsApplied(s) /\ win.snap[s].sscSteamId = SteamIdOf[reg.m_Slots[s]]
            BY <4>1, <4>3, <4>5 DEF CaptureRight
          <5> QED BY <1>1, <2>5, <4>1, <4>3, <4>4, <4>5, <5>1 DEF MarkersKept
        <4>6. CASE ~win.snap[s].captured
          BY <1>1, <2>2, <4>1, <4>3, <4>4, <4>6 DEF MarkersKept
        <4> QED BY <4>5, <4>6
      <3> QED BY <3>1, <3>2
    <2>11. \A s \in D : s \in Slots /\ client'[s].who = client[s].who
      BY <2>6, <2>8
    <2>12. D \in SUBSET PendingSlots(reg)
      BY <2>6 DEF P
    <2> QED BY <1>1, <1>3, <1>4, <2>7, <2>9, <2>10, <2>11, <2>12, KeepingStep
  <1> QED BY <1>5, <1>6

(***************************************************************************)
(* Opening a window captures slots that have a client, as its bot is; one  *)
(* without a snapshot captures none.                                       *)
(***************************************************************************)
LEMMA BeginServes ==
    ASSUME Served, NextKnown, NEW S \in SUBSET (ManagedSlots(reg) \cap Present(client)),
           NEW valid \in BOOLEAN, valid \/ (S = {} /\ MayBeBlind),
           Begin(S, valid), SameGame
    PROVE  Served'
  <1>1. /\ win \in Window /\ client \in [Slots -> Client]
        /\ UNCHANGED <<reg, shm>>
        /\ win' = BeginWindow(win, S, valid, client, server.id)
        /\ client' = BeginMarkers(win, S, client)
        /\ server'.id = server.id
    BY DEF Served, Leased, TypeOK, Begin, SameGame
  <1>2. win'.depth # 0 /\ (Active => win'.valid = win.valid) /\ (~Active => win'.valid = valid)
    BY BeginCounts DEF Served, Leased
  <1>3. Active'
    BY <1>2 DEF Active, VoteTransactionActive
  <1>4. CASE Active
    <2>1. win'.snap = win.snap /\ client' = client
      BY <1>1, <1>4 DEF BeginWindow, BeginMarkers, Active, Window
    <2>2. DownIsEmpty' /\ LossesCounted'
      BY <2>1, StaysEmpty DEF Served
    <2> QED BY <1>1, <1>2, <1>3, <1>4, <2>1, <2>2, QuietStep
  <1>5. CASE ~Active
    <2>1. win'.snap = [s \in Slots |-> IF s \in S THEN CaptureOne(client[s], server.id)
                                       ELSE NoSnapshot]
      BY <1>1, <1>5 DEF BeginWindow, Active, Window
    <2>2. client' = [s \in Slots |-> IF s \in S THEN NativeMarkers(client[s], TRUE)
                                     ELSE client[s]]
      BY <1>1, <1>5 DEF BeginMarkers, Active
    <2>3. \A s \in Slots : client'[s].who = client[s].who
      <3>1. \A k \in Client : NativeMarkers(k, TRUE).who = k.who
        BY DEF NativeMarkers, SetCtrl, Client
      <3> QED BY <1>1, <2>2, <3>1
    <2>4. DownIsEmpty' /\ LossesCounted'
      BY <2>3, StaysEmpty DEF Served
    <2>5. ServerWasLost' <=> ServerWasLost
      BY <1>1 DEF ServerWasLost
    <2>6. AppliedHeld' /\ ValidUnlessBlind'
      BY <1>1, <1>2, <1>5, <2>5 DEF Served, AppliedHeld, ValidUnlessBlind, MayBeBlind
    <2>7. ASSUME NEW s \in Slots
          PROVE  SlotServed(s)'
      <3>1. /\ EntryRight(s) /\ HolderRight(s) /\ MarkersRight(s)
            /\ ~win.snap[s].captured
        BY <1>5 DEF Served, SlotServed, CaptureRight
      <3>2. /\ reg' = reg /\ shm'[s] = shm[s] /\ client'[s].who = client[s].who
            /\ IsManaged(reg', s) <=> IsManaged(reg, s)
            /\ IsApplied(s)' <=> IsApplied(s)
        BY <1>1, <2>3 DEF IsApplied
      <3>3. EntryRight(s)' /\ HolderRight(s)' /\ WaitRight(s)'
        BY <1>3, <2>5, <3>1, <3>2 DEF EntryRight, HolderRight, WaitRight
      <3>4. CASE s \in S
        <4>1. IsManaged(reg, s) /\ valid
          BY <3>4 DEF ManagedSlots
        <4>2. /\ win'.snap[s].captured
              /\ win'.snap[s].sscSteamId = client[s].sid
              /\ win'.snap[s].server = server.id
          BY <2>1, <3>4 DEF CaptureOne
        <4>3. CaptureRight(s)' /\ MarkersRight(s)'
          BY <1>1, <1>2, <1>3, <1>5, <3>1, <3>2, <4>1, <4>2 DEF CaptureRight, MarkersRight, IsApplied
        <4> QED BY <3>3, <4>3 DEF SlotServed
      <3>5. CASE s \notin S
        <4>1. ~win'.snap[s].captured /\ client'[s] = client[s]
          BY <2>1, <2>2, <3>5 DEF NoSnapshot
        <4>2. CaptureRight(s)' /\ MarkersRight(s)'
          BY <3>1, <3>2, <4>1 DEF CaptureRight, MarkersRight, IsApplied
        <4> QED BY <3>3, <4>2 DEF SlotServed
      <3> QED BY <3>4, <3>5
    <2> QED BY <2>4, <2>6, <2>7 DEF Served, NextKnown
  <1> QED BY <1>4, <1>5

(***************************************************************************)
(* Releasing every managed slot (ReleaseManagedSlots), on a map that is    *)
(* blacklisted: RestoreIdentity leaves behind the entries of those whose   *)
(* client went with a lost server.                                         *)
(***************************************************************************)
LEMMA ReleaseManagedSlotsServes ==
    ASSUME Served, NextKnown, ReleaseManagedSlots, Blacklisted # {}, SameGame
    PROVE  Served'
  <1>1. /\ Leased /\ server'.id = server.id
        /\ client \in [Slots -> Client] /\ shm \in [Slots -> ShmEntry]
    BY DEF Served, Leased, TypeOK, SameGame
  <1> DEFINE S == ManagedSlots(reg)
             restored == S \cap Present(client)
  <1>2. /\ reg' = Unmark(reg, S)
        /\ client' = [s \in Slots |-> IF s \in restored THEN NativeMarkers(client[s], TRUE)
                                      ELSE client[s]]
        /\ shm' = [s \in Slots |-> IF s \in restored THEN PublishRelease(shm[s]) ELSE shm[s]]
    BY DEF ReleaseManagedSlots
  <1>3. ~Active' /\ \A s \in Slots : ~win'.snap[s].captured
    BY DEF ReleaseManagedSlots, ClosedWindow, NoSnapshot, Active, VoteTransactionActive
  <1>4. \A s \in S : s \in Slots /\ (s \in restored <=> client[s].who # "none")
    BY DEF ManagedSlots, Present
  <1>5. \A s \in S : /\ client'[s].who = client[s].who
                     /\ s \in restored => client'[s].mark = "native" /\ client'[s].sid = 0
    <2>1. \A k \in Client : /\ NativeMarkers(k, TRUE).who = k.who
                            /\ NativeMarkers(k, TRUE).mark = "native"
                            /\ NativeMarkers(k, TRUE).sid = 0
      BY DEF NativeMarkers, SetCtrl, Client
    <2> HIDE DEF S, restored
    <2> QED BY <1>1, <1>2, <1>4, <2>1
  <1>6. \A s \in S : shm'[s].bot # None => ServerWasLost
    <2>1. \A s \in restored : shm'[s].bot = None
      BY <1>1, <1>2, <1>4 DEF PublishRelease, ShmEntry
    <2>2. \A s \in S : s \notin restored => ServerWasLost
      BY <1>4 DEF Served, SlotServed, HolderRight, ManagedSlots
    <2> QED BY <2>1, <2>2
  <1>7. \A s \in Slots \ S : ~IsManaged(reg, s) /\ shm'[s] = shm[s] /\ client'[s] = client[s]
    BY <1>2 DEF ManagedSlots
  <1>8. DownIsEmpty' /\ LossesCounted'
    <2>1. \A s \in Slots : client'[s].who = client[s].who
      BY <1>5, <1>7
    <2> QED BY <2>1, StaysEmpty DEF Served
  <1>9. S \in SUBSET ManagedSlots(reg) /\ S = ManagedSlots(reg)
    OBVIOUS
  <1>10. \A s \in S : client'[s].who = "bot" => client'[s].mark = "native" /\ client'[s].sid = 0
    BY <1>4, <1>5
  <1> HIDE DEF S, restored
  <1> QED BY <1>1, <1>2, <1>3, <1>4, <1>6, <1>7, <1>8, <1>9, <1>10, VacatingStep

-----------------------------------------------------------------------------
(* The steps                                                               *)

(***************************************************************************)
(* What OnClientConnected does first about a slot that is still managed.   *)
(***************************************************************************)
LEMMA VacatedEffect ==
    ASSUME Served, NEW s \in Slots
    PROVE  /\ \A t \in Slots \ {s} :
                 /\ VacatedRegistry(s).m_Slots[t] = reg.m_Slots[t]
                 /\ VacatedWindow(s).snap[t] = win.snap[t]
                 /\ VacatedShm(s)[t] = shm[t]
           /\ VacatedRegistry(s).applied =
                 IF IsManaged(reg, s) THEN reg.applied \ {reg.m_Slots[s]} ELSE reg.applied
           /\ ~VacatedWindow(s).snap[s].captured
           /\ VacatedWindow(s).depth = win.depth /\ VacatedWindow(s).valid = win.valid
           /\ VacatedShm(s)[s].bot # None => ServerWasLost /\ Blacklisted # {}
  <1>1. /\ reg \in Registry /\ win \in Window /\ shm \in [Slots -> ShmEntry]
        /\ EntryRight(s) /\ CaptureRight(s)
    BY DEF Served, SlotServed, Leased, TypeOK
  <1>2. CASE IsManaged(reg, s)
    <2>1. /\ VacatedRegistry(s) = Unmark(reg, {s})
          /\ VacatedWindow(s) = ResetSlot(win, s)
          /\ VacatedShm(s) = [shm EXCEPT ![s] = PublishRelease(@)]
      BY <1>2 DEF VacatedRegistry, VacatedWindow, VacatedShm
    <2>2. /\ Unmark(reg, {s}).applied = reg.applied \ {reg.m_Slots[s]}
          /\ \A t \in Slots \ {s} : Unmark(reg, {s}).m_Slots[t] = reg.m_Slots[t]
      BY DEF Unmark
    <2>3. /\ \A t \in Slots \ {s} : ResetSlot(win, s).snap[t] = win.snap[t]
          /\ ~ResetSlot(win, s).snap[s].captured
          /\ ResetSlot(win, s).depth = win.depth /\ ResetSlot(win, s).valid = win.valid
      BY <1>1 DEF ResetSlot, NoSnapshot, Window
    <2>4. /\ [shm EXCEPT ![s] = PublishRelease(@)][s].bot = None
          /\ \A t \in Slots \ {s} : [shm EXCEPT ![s] = PublishRelease(@)][t] = shm[t]
      BY <1>1 DEF PublishRelease, ShmEntry
    <2> QED BY <1>2, <2>1, <2>2, <2>3, <2>4
  <1>3. CASE ~IsManaged(reg, s)
    BY <1>1, <1>3 DEF VacatedRegistry, VacatedWindow, VacatedShm, EntryRight, CaptureRight, IsApplied
  <1> QED BY <1>2, <1>3

(***************************************************************************)
(* A bot that is given an identity has it already, or waits for the        *)
(* window.  Its identity was not applied: applied ones are leased.         *)
(***************************************************************************)
LEMMA BotConnectsServes ==
    ASSUME Served, NextKnown, NoReuse, NEW s \in Slots, BotConnects(s)
    PROVE  Served'
  <1> DEFINE v == VacatedRegistry(s)
  <1>1. /\ Leased /\ reg \in Registry /\ win' = VacatedWindow(s)
        /\ server' = server /\ server.up
    BY DEF Served, Leased, TypeOK, BotConnects, MayConnect, ClientCallsPossible
  <1>2. /\ v \in Registry /\ Consistent(v) /\ Exclusive(v) /\ ~IsManaged(v, s)
        /\ \A t \in Slots \ {s} : v.m_Slots[t] = reg.m_Slots[t]
        /\ v.applied = IF IsManaged(reg, s) THEN reg.applied \ {reg.m_Slots[s]} ELSE reg.applied
    <2>1. reg \in Registry /\ Consistent(reg) /\ Exclusive(reg)
      BY <1>1 DEF Leased
    <2> QED BY <2>1, VacatedIs, VacatedEffect
  <1>3. PICK b \in FreeBots(v), done \in {{}, {s}} :
           /\ done = {} <=> Active
           /\ reg' = RecordDisguise(Mark(v, s, b), {s}, done)
           /\ client'[s].who = "bot"
           /\ client'[s].mark = IF Active THEN "native" ELSE "player"
           /\ client'[s].sid = IF Active THEN 0 ELSE SteamIdOf[b]
           /\ shm'[s].bot = IF Active THEN VacatedShm(s)[s].bot ELSE b
           /\ \A t \in Slots \ {s} : client'[t] = client[t] /\ shm'[t] = VacatedShm(s)[t]
    BY <1>1, ConnectGrants
  <1> HIDE DEF v
  <1>4. /\ reg'.m_Slots = [v.m_Slots EXCEPT ![s] = b]
        /\ \A t \in Slots \ {s} : IsManaged(v, t) => v.m_Slots[t] # b
    <2>1. /\ v \in Registry /\ Consistent(v) /\ Exclusive(v) /\ ~IsManaged(v, s)
          /\ reg' = RecordDisguise(Mark(v, s, b), {s}, done)
      BY <1>2, <1>3
    <2> QED BY <2>1, GrantKeeps
  <1>5. b \in Bots /\ v.slot[b] = None /\ b # None
    BY PoolAssumption DEF FreeBots, Bots, None
  <1>6. reg'.applied = v.applied \cup (IF Active THEN {} ELSE {b})
    <2> DEFINE r == Mark(v, s, b)
    <2>1. r.applied = v.applied /\ r.m_Slots[s] = b
      BY <1>2, <1>5 DEF Mark, Registry
    <2>2. reg'.applied = r.applied \cup {r.m_Slots[t] : t \in done}
      BY <1>2, <1>3 DEF RecordDisguise, Mark, Registry
    <2> HIDE DEF r
    <2>3. done = IF Active THEN {} ELSE {s}
      BY <1>3
    <2>4. {r.m_Slots[t] : t \in done} = IF Active THEN {} ELSE {b}
      BY <2>1, <2>3
    <2> QED BY <2>1, <2>2, <2>4
  <1>7. /\ \A t \in Slots \ {s} : reg'.m_Slots[t] = reg.m_Slots[t]
        /\ reg'.m_Slots[s] = b
        /\ \A t \in Slots \ {s} : IsManaged(reg, t) => reg.m_Slots[t] # b
    <2>1. \A t \in Slots \ {s} : reg'.m_Slots[t] = v.m_Slots[t]
      BY <1>2, <1>4 DEF Registry
    <2>2. reg'.m_Slots[s] = b
      BY <1>2, <1>4 DEF Registry
    <2> QED BY <1>2, <1>4, <2>1, <2>2 DEF IsManaged
  <1>8. \A t \in Slots \ {s} : IsManaged(reg, s) /\ IsManaged(reg, t) => reg.m_Slots[t] # reg.m_Slots[s]
    BY <1>1 DEF Leased, Exclusive
  <1>9. b \notin v.applied
    <2> SUFFICES ASSUME b \in v.applied
                 PROVE  FALSE
      OBVIOUS
    <2>1. b \in reg.applied /\ (IsManaged(reg, s) => b # reg.m_Slots[s])
      BY <1>2
    <2>2. PICK t \in Slots : reg.m_Slots[t] = b
      BY <2>1 DEF Served, AppliedHeld
    <2>3. t # s
      BY <1>5, <2>1, <2>2 DEF IsManaged
    <2> QED BY <1>5, <1>7, <2>2, <2>3 DEF IsManaged
  <1>10. DownIsEmpty' /\ LossesCounted' /\ (Active' <=> Active) /\ win'.valid = win.valid
    BY <1>1, VacatedEffect
    DEF Served, DownIsEmpty, LossesCounted, Active, VoteTransactionActive
  <1>11. (ServerWasLost' <=> ServerWasLost) /\ (MayBeBlind' <=> MayBeBlind)
    BY <1>1 DEF ServerWasLost, MayBeBlind
  <1>12. ValidUnlessBlind'
    BY <1>10, <1>11 DEF Served, ValidUnlessBlind
  <1>13. AppliedHeld'
    <2> SUFFICES ASSUME NEW a \in reg'.applied
                 PROVE  \E t \in Slots : reg'.m_Slots[t] = a
      BY DEF AppliedHeld
    <2>1. CASE a = b
      BY <1>7, <2>1
    <2>2. CASE a # b
      <3>1. a \in reg.applied /\ (IsManaged(reg, s) => a # reg.m_Slots[s])
        BY <1>2, <1>6, <2>2
      <3>2. PICK t \in Slots : reg.m_Slots[t] = a
        BY <3>1 DEF Served, AppliedHeld
      <3>3. a # None
        <4>1. a \in Bots
          BY <1>1, <3>1 DEF Registry
        <4> QED BY <4>1, PoolAssumption DEF Bots, None
      <3>4. t # s
        BY <3>1, <3>2, <3>3 DEF IsManaged
      <3> QED BY <1>7, <3>2, <3>4
    <2> QED BY <2>1, <2>2
  <1>14. ASSUME NEW t \in Slots
         PROVE  SlotServed(t)'
    <2>1. /\ EntryRight(t) /\ HolderRight(t) /\ CaptureRight(t)
          /\ MarkersRight(t) /\ WaitRight(t)
      BY DEF Served, SlotServed
    <2>2. CASE t = s
      <3>1. IsManaged(reg', s) /\ (IsApplied(s)' <=> ~Active) /\ reg'.m_Slots[s] = b
        BY <1>5, <1>6, <1>7, <1>9 DEF IsManaged, IsApplied
      <3>2. ~win'.snap[s].captured /\ (VacatedShm(s)[s].bot # None => ServerWasLost /\ Blacklisted # {})
        BY <1>1, VacatedEffect
      <3>3. EntryRight(s)'
        BY <1>3, <1>11, <3>1, <3>2 DEF EntryRight
      <3>4. HolderRight(s)' /\ CaptureRight(s)'
        BY <1>3, <3>2 DEF HolderRight, CaptureRight
      <3>5. MarkersRight(s)' /\ WaitRight(s)'
        BY <1>3, <1>10, <3>1, <3>2 DEF MarkersRight, WaitRight
      <3> QED BY <2>2, <3>3, <3>4, <3>5 DEF SlotServed
    <2>3. CASE t # s
      <3>1. reg'.m_Slots[t] = reg.m_Slots[t] /\ (IsManaged(reg', t) <=> IsManaged(reg, t))
        BY <1>7, <2>3 DEF IsManaged
      <3>2. IsApplied(t)' <=> IsApplied(t)
        <4>1. IsManaged(reg, t) => (reg.m_Slots[t] \in v.applied <=> reg.m_Slots[t] \in reg.applied)
          BY <1>2, <1>8, <2>3
        <4>2. IsManaged(reg, t) => (reg.m_Slots[t] \in reg'.applied <=> reg.m_Slots[t] \in v.applied)
          BY <1>6, <1>7, <2>3
        <4> QED BY <3>1, <4>1, <4>2 DEF IsApplied
      <3>3. client'[t] = client[t] /\ shm'[t] = shm[t] /\ win'.snap[t] = win.snap[t]
        BY <1>1, <1>3, <2>3, VacatedEffect
      <3>4. EntryRight(t)' /\ HolderRight(t)' /\ CaptureRight(t)'
        BY <1>1, <1>10, <1>11, <2>1, <3>1, <3>2, <3>3 DEF EntryRight, HolderRight, CaptureRight
      <3>5. MarkersRight(t)' /\ WaitRight(t)'
        BY <1>10, <1>11, <2>1, <3>1, <3>2, <3>3 DEF MarkersRight, WaitRight
      <3> QED BY <3>4, <3>5 DEF SlotServed
    <2> QED BY <2>2, <2>3
  <1> QED BY <1>10, <1>12, <1>13, <1>14 DEF Served, NextKnown

(***************************************************************************)
(* What a client is when it arrives.                                       *)
(***************************************************************************)
LEMMA ArrivalEffect ==
    ASSUME TypeOK, NEW s \in Slots, NEW who \in {"bot", "human", "hltv"},
           client' \in Arrivals(s, who)
    PROVE  /\ client'[s].who = who
           /\ who # "human" => client'[s].mark = "native"
           /\ client'[s].sid = 0
           /\ \A t \in Slots \ {s} : client'[t] = client[t]
  <1>1. PICK ctrl \in {EngineFlag(who), "none"} : client' = [client EXCEPT ![s] = Arrival(who, ctrl)]
    BY DEF Arrivals
  <1>2. /\ Arrival(who, ctrl).who = who
        /\ who # "human" => Arrival(who, ctrl).mark = "native"
        /\ Arrival(who, ctrl).sid = 0
    BY DEF Arrival, EngineFlag
  <1> QED BY <1>1, <1>2 DEF TypeOK

(***************************************************************************)
(* The engine is running when it makes a call about a client.              *)
(***************************************************************************)
LEMMA RunningServes ==
    ASSUME Served, server.up, UNCHANGED server
    PROVE  DownIsEmpty' /\ LossesCounted'
  BY DEF Served, DownIsEmpty, LossesCounted

(***************************************************************************)
(* A step that vacates one slot, as OnClientConnected and                  *)
(* ClientDisconnect do.                                                    *)
(***************************************************************************)
LEMMA VacatedServes ==
    ASSUME Served, NextKnown, server.up, UNCHANGED server, NEW s \in Slots, IsManaged(reg, s),
           reg' = VacatedRegistry(s), win' = VacatedWindow(s), shm' = VacatedShm(s),
           client'[s].who = "bot" => client'[s].mark = "native" /\ client'[s].sid = 0,
           \A t \in Slots \ {s} : client'[t] = client[t]
    PROVE  Served'
  <1>1. {s} \in SUBSET ManagedSlots(reg) /\ reg' = Unmark(reg, {s})
    BY DEF ManagedSlots, VacatedRegistry
  <1>2. DownIsEmpty' /\ LossesCounted' /\ server'.id = server.id
    BY RunningServes
  <1>3. Active' = Active /\ win'.valid = win.valid
    BY VacatedEffect DEF Active, VoteTransactionActive
  <1>4. /\ ~win'.snap[s].captured
        /\ shm'[s].bot # None => ServerWasLost /\ Blacklisted # {}
        /\ \A t \in Slots \ {s} : win'.snap[t] = win.snap[t] /\ shm'[t] = shm[t]
    BY VacatedEffect
  <1> QED BY <1>1, <1>2, <1>3, <1>4, VacatingStep

(***************************************************************************)
(* Hook_OnClientConnected_Post for whoever gets no identity.               *)
(***************************************************************************)
LEMMA ArrivalServes ==
    ASSUME Served, NextKnown, NEW s \in Slots,
           HltvConnects(s) \/ \E who \in {"bot", "human"} : ClientIgnored(s, who)
    PROVE  Served'
  <1>1. /\ server.up /\ UNCHANGED server /\ client[s].who = "none" /\ TypeOK
        /\ DownIsEmpty' /\ LossesCounted' /\ server'.id = server.id
    <2>1. server.up /\ UNCHANGED server /\ client[s].who = "none"
      BY DEF HltvConnects, ClientIgnored, MayConnect, ClientCallsPossible
    <2> QED BY <2>1, RunningServes DEF Served, Leased
  <1>2. CASE HltvConnects(s)
    <2>1. /\ client'[s].who = "hltv" /\ \A t \in Slots \ {s} : client'[t] = client[t]
          /\ UNCHANGED <<reg, win, shm>>
      BY <1>1, <1>2, ArrivalEffect DEF HltvConnects
    <2>2. Active' <=> Active
      BY <2>1 DEF Active
    <2> QED BY <1>1, <2>1, <2>2, QuietStep
  <1>3. ASSUME NEW who \in {"bot", "human"}, ClientIgnored(s, who)
        PROVE  Served'
    <2>1. /\ client'[s].who = "bot" => client'[s].mark = "native" /\ client'[s].sid = 0
          /\ \A t \in Slots \ {s} : client'[t] = client[t]
          /\ reg' = VacatedRegistry(s) /\ win' = VacatedWindow(s) /\ shm' = VacatedShm(s)
      BY <1>1, <1>3, ArrivalEffect DEF ClientIgnored
    <2>2. CASE IsManaged(reg, s)
      BY <1>1, <2>1, <2>2, VacatedServes
    <2>3. CASE ~IsManaged(reg, s)
      <3>1. UNCHANGED <<reg, win, shm>>
        BY <2>1, <2>3 DEF VacatedRegistry, VacatedWindow, VacatedShm
      <3>2. Active' <=> Active
        BY <3>1 DEF Active
      <3> QED BY <1>1, <2>1, <2>3, <3>1, <3>2, QuietStep
    <2> QED BY <2>2, <2>3
  <1> QED BY <1>2, <1>3

(***************************************************************************)
(* Hook_ClientDisconnect_Pre, and the engine's freeing of the client.      *)
(***************************************************************************)
LEMMA DisconnectServes ==
    ASSUME Served, NextKnown, NEW s \in Slots, ClientDisconnect(s)
    PROVE  Served'
  <1>1. /\ server.up /\ UNCHANGED server
        /\ client'[s] = NoClient /\ NoClient.who # "bot"
        /\ \A t \in Slots \ {s} : client'[t] = client[t]
    BY DEF ClientDisconnect, ClientCallsPossible, NoClient, Served, Leased, TypeOK
  <1>2. CASE IsManaged(reg, s)
    <2>1. ~Suspended
      BY <1>2 DEF Served, Leased, SuspendedUnmanaged, ManagedSlots
    <2>2. reg' = VacatedRegistry(s) /\ win' = VacatedWindow(s) /\ shm' = VacatedShm(s)
      BY <2>1 DEF ClientDisconnect
    <2> QED BY <1>1, <1>2, <2>2, VacatedServes
  <1>3. CASE ~IsManaged(reg, s)
    <2>1. UNCHANGED <<reg, win, shm>>
      BY <1>3 DEF ClientDisconnect, VacatedRegistry, VacatedWindow, VacatedShm
    <2>2. Active' <=> Active
      BY <2>1 DEF Active
    <2>3. DownIsEmpty' /\ LossesCounted' /\ server'.id = server.id
      BY <1>1, RunningServes
    <2> QED BY <1>1, <1>3, <2>1, <2>2, <2>3, QuietStep
  <1> QED BY <1>2, <1>3

(***************************************************************************)
(* Every call the engine makes about a client.                             *)
(***************************************************************************)
LEMMA ClientCallServes ==
    ASSUME Served, NextKnown, NoReuse, NEW s \in Slots, ClientCall(s)
    PROVE  Served'
  <1>1. Leased /\ client \in [Slots -> Client]
    BY DEF Served, Leased, TypeOK
  <1>2. CASE ControllerSpawns(s)
    <2>1. UNCHANGED <<reg, win, shm>> /\ (Active' <=> Active)
      BY <1>2 DEF ControllerSpawns, Active
    <2>2. DownIsEmpty' /\ LossesCounted' /\ server'.id = server.id
      BY <1>2, RunningServes DEF ControllerSpawns
    <2>3. \A t \in Slots :
             /\ client'[t].who = client[t].who
             /\ client'[t].mark = client[t].mark /\ client'[t].sid = client[t].sid
      BY <1>1, <1>2 DEF ControllerSpawns, Client
    <2> QED BY <2>1, <2>2, <2>3, QuietStep
  <1>3. CASE ClientPutInServer(s)
    <2> DEFINE P == IF Suspended THEN {} ELSE PendingSlots(reg) \cap {s}
               c == [client EXCEPT ![s].inGame = TRUE]
    <2>1. P \in SUBSET PendingSlots(reg)
      OBVIOUS
    <2>2. c \in [Slots -> Client]
      <3>1. [client[s] EXCEPT !.inGame = TRUE] \in Client
        BY <1>1 DEF Client
      <3> QED BY <1>1, <3>1
    <2>3. \A t \in Slots :
             c[t].who = client[t].who /\ c[t].mark = client[t].mark /\ c[t].sid = client[t].sid
      BY <1>1 DEF Client
    <2>4. ApplyDisguise(P, reg, c, shm, Active) /\ UNCHANGED win /\ SameGame
      BY <1>3 DEF ClientPutInServer, SameGame
    <2> HIDE DEF P, c
    <2> QED BY <2>1, <2>2, <2>3, <2>4, DisguisingServes
  <1>4. CASE SteamIdReappears(s)
    <2>1. UNCHANGED <<reg, win, shm>> /\ (Active' <=> Active) /\ win.snap[s].captured
      BY <1>4 DEF SteamIdReappears, Touchable, Active
    <2>2. /\ \A t \in Slots \ {s} : client'[t] = client[t]
          /\ client'[s].who = client[s].who
      BY <1>1, <1>4 DEF SteamIdReappears, Client
    <2>3. DownIsEmpty' /\ LossesCounted' /\ server'.id = server.id
      <3>1. SameGame /\ \A t \in Slots : client'[t].who = client[t].who
        BY <1>4, <2>2 DEF SteamIdReappears, SameGame
      <3> QED BY <3>1, StaysEmpty DEF Served, SameGame
    <2> QED BY <2>1, <2>2, <2>3, QuietStep
  <1> QED BY <1>2, <1>3, <1>4, BotConnectsServes, ArrivalServes, DisconnectServes DEF ClientCall

(***************************************************************************)
(* A pass through the gate releases every slot, and then for a blacklisted *)
(* map, or does what the caller does.                                      *)
(***************************************************************************)
LEMMA PassGateServes ==
    ASSUME Served, NextKnown, SameGame, NEW first, NEW second, NEW otherwise,
           PassGate(first, second, otherwise), otherwise => Served'
    PROVE  Served'
  <1>1. (ReleaseManagedSlots /\ Blacklisted # {}) \/ otherwise
    BY DEF PassGate, ApplyMapGate
  <1> QED BY <1>1, ReleaseManagedSlotsServes

(***************************************************************************)
(* A step that leaves the registry and the entries alone, after which the  *)
(* server has no client.                                                   *)
(***************************************************************************)
LEMMA EmptyServerServes ==
    ASSUME Served, NextKnown, LossesCounted', ServerWasLost', UNCHANGED <<reg, shm>>,
           \A s \in Slots : client'[s].who = "none",
           win' = win \/ win' = ClosedWindow
    PROVE  Served'
  <1>1. DownIsEmpty'
    BY DEF DownIsEmpty
  <1>2. ValidUnlessBlind'
    BY DEF Served, ValidUnlessBlind, MayBeBlind, ClosedWindow, Active, VoteTransactionActive
  <1>3. ASSUME NEW s \in Slots
        PROVE  /\ HolderKept(s)
               /\ win'.snap[s].captured => win'.snap[s] = win.snap[s] /\ Active' /\ win'.valid
               /\ client'[s].who # "bot"
    <2>1. HolderKept(s) /\ client'[s].who # "bot"
      BY DEF HolderKept
    <2>2. CASE win' = win
      <3>1. win.snap[s].captured => Active /\ win.valid
        BY DEF Served, SlotServed, CaptureRight
      <3> QED BY <2>1, <2>2, <3>1 DEF Active
    <2>3. CASE win' = ClosedWindow
      BY <2>1, <2>3 DEF ClosedWindow, NoSnapshot
    <2> QED BY <2>2, <2>3
  <1> DEFINE D == {}
  <1>4. /\ D \in SUBSET PendingSlots(reg)
        /\ reg'.applied = reg.applied \cup {reg.m_Slots[s] : s \in D}
        /\ \A s \in D : FALSE
    OBVIOUS
  <1> HIDE DEF D
  <1> QED BY <1>1, <1>2, <1>3, <1>4, KeepingStep

(***************************************************************************)
(* OnLevelInit, the map commands, and the server's going and coming.       *)
(***************************************************************************)
LEMMA EngineEventServes ==
    ASSUME Served, NextKnown, EngineEvent
    PROVE  Served'
  <1>1. server.id \in Nat /\ MaxLosses \in Nat
    BY PluginAssumption DEF Served, Leased, TypeOK
  <1>2. ASSUME SameGame, NEW first, NEW second,
               PassGate(first, second, UNCHANGED <<reg, client, win, shm>>)
        PROVE  Served'
    BY <1>2, PassGateServes, UnchangedServes
  <1>3. ASSUME NEW m, NEW addon, LevelInit(m, addon)
        PROVE  Served'
    <2>1. SameGame
      BY <1>3 DEF LevelInit, SameGame, Served, Leased, TypeOK
    <2> QED BY <1>2, <1>3, <2>1 DEF LevelInit
  <1>4. ASSUME NEW m, MapNameArrives(m)
        PROVE  Served'
    <2>1. SameGame /\ UNCHANGED <<reg, client, win, shm>>
      BY <1>4 DEF MapNameArrives, SameGame, Served, Leased, TypeOK
    <2> QED BY <2>1, UnchangedServes
  <1>5. ASSUME NEW arg, MapCommand(arg)
        PROVE  Served'
    BY <1>2, <1>5 DEF MapCommand, SameGame
  <1>6. CASE ServerGone
    <2>1. /\ LossesCounted' /\ ServerWasLost' /\ UNCHANGED <<reg, shm, win>>
      BY <1>1, <1>6 DEF ServerGone, LossesCounted, ServerWasLost
    <2>2. \A s \in Slots : client'[s].who = "none"
      BY <1>6 DEF ServerGone, NoClient
    <2> QED BY <2>1, <2>2, EmptyServerServes
  <1>7. CASE ServerBack
    <2>1. /\ server'.up /\ server'.id = server.id /\ ~server.up
          /\ UNCHANGED <<reg, client, win, shm>>
      BY <1>7 DEF ServerBack, Served, Leased, TypeOK
    <2>2. DownIsEmpty' /\ LossesCounted' /\ (Active' <=> Active)
      BY <2>1 DEF Served, DownIsEmpty, LossesCounted, Active
    <2> QED BY <2>1, <2>2, QuietStep
  <1> QED BY <1>3, <1>4, <1>5, <1>6, <1>7 DEF EngineEvent

(***************************************************************************)
(* A tick that only reasserts.                                             *)
(***************************************************************************)
LEMMA HoldTickServes ==
    ASSUME Served, NextKnown, SameGame, HoldTick
    PROVE  Served'
  <1>1. win \in Window /\ client \in [Slots -> Client] /\ server'.id = server.id
    BY DEF Served, Leased, TypeOK, SameGame
  <1>2. /\ reg' = reg /\ shm' = shm /\ win'.snap = win.snap /\ win'.valid = win.valid
        /\ win'.depth = win.depth
    BY <1>1 DEF HoldTick, Window
  <1>3. Active' <=> Active
    BY <1>2 DEF Active, VoteTransactionActive
  <1>4. ASSUME NEW s \in Slots
        PROVE  /\ client'[s].who = client[s].who
               /\ win.snap[s].captured \/ client'[s] = client[s]
    <2>1. \/ client'[s] = client[s]
          \/ /\ client'[s] = NativeMarkers(client[s], win.snap[s].hasController)
             /\ win.snap[s].captured
      BY DEF HoldTick, ReassertMarkers, Touchable
    <2>2. client[s] \in Client /\ win.snap[s].hasController \in BOOLEAN
      BY <1>1 DEF Window, Snapshot
    <2>3. \A k \in Client, w \in BOOLEAN : NativeMarkers(k, w).who = k.who
      BY DEF NativeMarkers, SetCtrl, Client
    <2> QED BY <2>1, <2>2, <2>3
  <1>5. DownIsEmpty' /\ LossesCounted'
    BY <1>4, StaysEmpty DEF Served
  <1> QED BY <1>1, <1>2, <1>3, <1>4, <1>5, QuietStep

(***************************************************************************)
(* Hook_GameFrame_Post.  An end is scheduled only of an open window.       *)
(***************************************************************************)
LEMMA FrameServes ==
    ASSUME Served, NextKnown, GameFramePost
    PROVE  Served'
  <1>1. SameGame /\ UNCHANGED server
    BY DEF GameFramePost, SameGame
  <1>2. win.hold = 1 => Active
    BY DEF Served, CountersInv, ClosedIsClear
  <1>3. ASSUME ~server.up, win' = ClosedWindow, UNCHANGED <<reg, client, shm>>
        PROVE  Served'
    <2>1. LossesCounted' /\ ServerWasLost' /\ \A s \in Slots : client'[s].who = "none"
      BY <1>1, <1>3 DEF Served, LossesCounted, DownIsEmpty, ServerWasLost
    <2> QED BY <1>3, <2>1, EmptyServerServes
  <1>4. TickVoteTransaction => Served'
    BY <1>1, <1>2, <1>3, UnchangedServes, HoldTickServes, CloseWindowServes DEF TickVoteTransaction
  <1> DEFINE id == BuildMapIdentity(server)
             hosted == IF ApplyMapGate(gate, id).suspended
                       THEN UNCHANGED <<reg, client, win, shm>>
                       ELSE TickVoteTransaction
  <1>5. hosted => Served'
    BY <1>1, <1>4, UnchangedServes
  <1>6. PassGate(NoMap, id, hosted)
    BY DEF GameFramePost
  <1> HIDE DEF id, hosted
  <1> QED BY <1>1, <1>5, <1>6, PassGateServes

(***************************************************************************)
(* Hook_DispatchConCommand_Pre.  The persona of a slot whose client went   *)
(* with a lost server is still found.                                      *)
(***************************************************************************)
LEMMA CommandPreServes ==
    ASSUME Served, NextKnown, CommandPre
    PROVE  Served'
  <1>1. SameGame
    BY DEF CommandPre, CallvotePre, KickPre, NamedKickPre, UnmatchedKickPre, BotAddPre,
           Dispatch, SameGame
  <1>2. BeginAll => Served'
    BY <1>1, BeginServes DEF BeginAll
  <1>3. ASSUME NEW s \in Slots, IsManaged(reg, s), PersonaKicks, BeginForSlot(s)
        PROVE  Served'
    <2> DEFINE S == {s} \cap Present(client)
               valid == s \in Present(client)
    <2>1. S \in SUBSET (ManagedSlots(reg) \cap Present(client)) /\ valid \in BOOLEAN
      BY <1>3 DEF ManagedSlots
    <2>2. valid \/ (S = {} /\ MayBeBlind)
      <3>1. ~valid => client[s].who # "bot"
        BY DEF Present
      <3>2. client[s].who # "bot" => ServerWasLost
        BY <1>3 DEF Served, SlotServed, HolderRight
      <3> QED BY <1>3, <3>1, <3>2 DEF MayBeBlind
    <2>3. Begin(S, valid)
      BY <1>3 DEF BeginForSlot
    <2> HIDE DEF S, valid
    <2> QED BY <1>1, <2>1, <2>2, <2>3, BeginServes
  <1>4. CASE CallvotePre
    BY <1>2, <1>4 DEF CallvotePre
  <1>5. CASE KickPre
    BY <1>1, <1>2, <1>5, UnchangedServes DEF KickPre, OpenForKick
  <1>6. ASSUME NEW s \in Slots, NamedKickPre(s)
        PROVE  Served'
    <2>1. IsManaged(reg, s) /\ PersonaKicks
      BY <1>6 DEF NamedKickPre, SlotOfPersona, Dispatch, PersonaKicks
    <2>2. BeginForSlot(s) \/ UNCHANGED <<reg, client, win, shm>>
      BY <1>6 DEF NamedKickPre, OpenForKick
    <2> QED BY <1>1, <1>3, <2>1, <2>2, UnchangedServes
  <1>7. CASE UnmatchedKickPre
    BY <1>1, <1>7, UnchangedServes DEF UnmatchedKickPre
  <1>8. CASE BotAddPre
    BY <1>1, <1>8, UnchangedServes, CloseWindowServes DEF BotAddPre
  <1> QED BY <1>4, <1>5, <1>6, <1>7, <1>8 DEF CommandPre

(***************************************************************************)
(* Hook_DispatchConCommand_Post.                                           *)
(***************************************************************************)
LEMMA CommandPostServes ==
    ASSUME Served, NextKnown, CommandPost
    PROVE  Served'
  <1>1. /\ client \in [Slots -> Client] /\ win \in Window
        /\ SameGame /\ server'.id = server.id
    BY DEF Served, Leased, TypeOK, CommandPost, CallvotePost, KickPost, BotAddPost, Returns, SameGame
  <1>2. ASSUME win' = win \/ win' = ScheduleEnd(win, HoldFrames), UNCHANGED <<reg, client, shm>>
        PROVE  Served'
    <2>1. win'.snap = win.snap /\ win'.valid = win.valid /\ win'.depth = win.depth
      BY <1>1, <1>2 DEF ScheduleEnd, Window
    <2>2. Active' <=> Active
      BY <2>1 DEF Active, VoteTransactionActive
    <2>3. DownIsEmpty' /\ LossesCounted'
      BY <1>1, <1>2, StaysEmpty DEF Served
    <2> QED BY <1>1, <1>2, <2>1, <2>2, <2>3, QuietStep
  <1>3. CASE CallvotePost
    BY <1>2, <1>3 DEF CallvotePost
  <1>4. CASE KickPost
    BY <1>2, <1>4 DEF KickPost, WindowAfterKick
  <1>5. CASE BotAddPost
    <2>1. ApplyDisguise(PendingSlots(reg), reg, client, shm, Active) /\ win' = win
      BY <1>5 DEF BotAddPost
    <2>2. PendingSlots(reg) \in SUBSET PendingSlots(reg)
      OBVIOUS
    <2> QED BY <1>1, <2>1, <2>2, DisguisingServes
  <1> QED BY <1>3, <1>4, <1>5 DEF CommandPost

-----------------------------------------------------------------------------
(* The theorems                                                            *)

(***************************************************************************)
(* The invariant holds at the start (BotIdentityPlugin::Load's state).     *)
(***************************************************************************)
LEMMA InitServes == Init => Served
  <1> SUFFICES ASSUME Init
               PROVE  Served
    OBVIOUS
  <1>1. CountersInv /\ Leased
    BY CountersStep, InitOwns
  <1>2. \A s \in Slots : ~IsManaged(reg, s) /\ ~IsApplied(s)
    BY DEF Init, EmptyRegistry, IsManaged, IsApplied
  <1>3. reg.applied = {} /\ ~Active
    BY DEF Init, EmptyRegistry, ClosedWindow, Active, VoteTransactionActive
  <1>4. \A s \in Slots : shm[s].bot = None /\ ~win.snap[s].captured /\ client[s].who # "bot"
    BY DEF Init, ClosedWindow, NoSnapshot, NoClient
  <1>5. AppliedHeld /\ ValidUnlessBlind
    BY <1>3 DEF AppliedHeld, ValidUnlessBlind
  <1>6. LossesCounted /\ DownIsEmpty
    BY PluginAssumption DEF Init, LossesCounted, DownIsEmpty
  <1>7. \A s \in Slots : SlotServed(s)
    BY <1>2, <1>4
    DEF SlotServed, EntryRight, HolderRight, CaptureRight, MarkersRight, WaitRight
  <1> QED BY <1>1, <1>5, <1>6, <1>7 DEF Served

(***************************************************************************)
(* Every step of the hooks keeps it.                                       *)
(***************************************************************************)
LEMMA StepServes == Served /\ NoReuse /\ Leased' /\ [Next]_vars => Served'
  <1> SUFFICES ASSUME Served, NoReuse, Leased', [Next]_vars
               PROVE  Served'
    OBVIOUS
  <1>1. NextKnown
    BY CountersStep DEF Served, NextKnown
  <1>2. CASE \E s \in Slots : ClientCall(s)
    BY <1>1, <1>2, ClientCallServes
  <1>3. CASE EngineEvent
    BY <1>1, <1>3, EngineEventServes
  <1>4. CASE CommandPre
    BY <1>1, <1>4, CommandPreServes
  <1>5. CASE CommandPost
    BY <1>1, <1>5, CommandPostServes
  <1>6. CASE GameFramePost
    BY <1>1, <1>6, FrameServes
  <1>7. CASE UNCHANGED vars
    BY <1>1, <1>7, UnchangedServes DEF vars, SameGame
  <1> QED BY <1>2, <1>3, <1>4, <1>5, <1>6, <1>7 DEF Next

(***************************************************************************)
(* The inductive invariant of the whole plugin: registry, clients, window, *)
(* shared memory, gate and commands.  The server may be lost at any time   *)
(* if the identity list is long enough never to reuse the identity of a    *)
(* slot that is still marked.                                              *)
(***************************************************************************)
THEOREM ServedHolds ==
    ASSUME NoLoss \/ AmplePool
    PROVE  Spec => []Served
  BY LeasedAndFree, InitServes, StepServes, PTL DEF Spec

(***************************************************************************)
(* Where the server is never lost, no window is opened blind.              *)
(***************************************************************************)
LEMMA NeverLost ==
    ASSUME NoLoss, Served
    PROVE  ~ServerWasLost
  BY DEF NoLoss, Served, LossesCounted, ServerWasLost, Leased, TypeOK

(***************************************************************************)
(* No human ever holds an identity, and only a lost server takes the bot   *)
(* from one.                                                               *)
(***************************************************************************)
THEOREM ManagedSlotsAreBots ==
    ASSUME NoLoss \/ AmplePool
    PROVE  Spec => []ManagedAreBots
  <1>1. Served => ManagedAreBots
    BY DEF Served, SlotServed, HolderRight, ManagedAreBots, ManagedSlots
  <1> QED BY <1>1, ServedHolds, PTL

(***************************************************************************)
(* The shared memory tells the C# side of every slot what the registry     *)
(* holds, at all times: through windows, releases, reconnects and a lost   *)
(* server, but for the entries a suspension after a loss leaves behind.    *)
(***************************************************************************)
THEOREM ShmFollowsRegistry ==
    ASSUME NoLoss \/ AmplePool
    PROVE  Spec => []ShmMatchesRegistry
  <1>1. Served => ShmMatchesRegistry
    BY DEF Served, SlotServed, EntryRight, IsApplied, ShmMatchesRegistry
  <1> QED BY <1>1, ServedHolds, PTL

(***************************************************************************)
(* Whatever the commands and the engine did during a window, every bot     *)
(* has its identity back, and no bot any other's, once it is closed.       *)
(***************************************************************************)
THEOREM DisguisesRestored ==
    ASSUME NoLoss \/ (AmplePool /\ ~PersonaKicks)
    PROVE  Spec => []DisguiseRestored
  <1>1. Served => DisguiseRestored
    <2> SUFFICES ASSUME Served, ~Active, NEW s \in Slots, client[s].who = "bot"
                 PROVE  IF IsManaged(reg, s)
                        THEN /\ reg.m_Slots[s] \in reg.applied
                             /\ client[s].mark = "player"
                             /\ client[s].sid = SteamIdOf[reg.m_Slots[s]]
                        ELSE client[s].mark = "native" /\ client[s].sid = 0
      BY DEF DisguiseRestored
    <2>1. ~MayBeBlind
      BY NeverLost DEF MayBeBlind
    <2>2. CaptureRight(s) /\ MarkersRight(s) /\ WaitRight(s)
      BY DEF Served, SlotServed
    <2>3. ~win.snap[s].captured /\ (IsManaged(reg, s) => IsApplied(s))
      BY <2>1, <2>2 DEF CaptureRight, WaitRight
    <2> QED BY <2>2, <2>3 DEF MarkersRight, IsApplied
  <1> QED BY <1>1, ServedHolds, PTL

(***************************************************************************)
(* A disguise is whole or it is not there.                                 *)
(***************************************************************************)
DisguiseWhole ==
    ~Active =>
        \A s \in Slots : client[s].who = "bot" =>
            IF IsApplied(s)
            THEN /\ client[s].mark = "player"
                 /\ client[s].sid = SteamIdOf[reg.m_Slots[s]]
                 /\ shm[s].bot = reg.m_Slots[s]
            ELSE client[s].mark = "native" /\ client[s].sid = 0

(***************************************************************************)
(* Even when a lost server's persona is kicked, which opens a window       *)
(* without a snapshot: its end leaves bots waiting, and none in between.   *)
(***************************************************************************)
THEOREM DisguisesAreWhole ==
    ASSUME NoLoss \/ AmplePool
    PROVE  Spec => []DisguiseWhole
  <1>1. Served => DisguiseWhole
    BY DEF Served, SlotServed, EntryRight, CaptureRight, MarkersRight, DisguiseWhole
  <1> QED BY <1>1, ServedHolds, PTL

(***************************************************************************)
(* A suspended map has no trace of the plugin, but for the entries of bots *)
(* that went with a lost server.                                           *)
(***************************************************************************)
THEOREM SuspendedStaysIdle ==
    ASSUME NoLoss \/ AmplePool
    PROVE  Spec => []SuspendedIdle
  <1>1. Served => SuspendedIdle
    <2> SUFFICES ASSUME Served, Suspended
                 PROVE  /\ ManagedSlots(reg) = {} /\ ~Active
                        /\ \A s \in Slots :
                              client[s].sid = 0 /\ (shm[s].bot # None => ServerWasLost)
      BY DEF SuspendedIdle
    <2>1. ManagedSlots(reg) = {} /\ ~Active
      BY DEF Served, Leased, SuspendedUnmanaged, CountersInv, SuspendedInactive
    <2>2. \A s \in Slots : ~IsManaged(reg, s)
      BY <2>1 DEF ManagedSlots
    <2>3. \A s \in Slots : client[s].sid = 0
      BY <2>2 DEF Served, Leased, SteamIdOwned
    <2>4. \A s \in Slots : shm[s].bot # None => ServerWasLost
      BY <2>2 DEF Served, SlotServed, EntryRight, IsApplied
    <2> QED BY <2>1, <2>3, <2>4
  <1> QED BY <1>1, ServedHolds, PTL

\* What HoldTickReasserts says of a step.
TickReasserts ==
    GameFramePost /\ win'.depth # 0 =>
        \A s \in Slots :
            client[s].who = "bot" /\ win.snap[s].captured =>
                client'[s].sid = 0 /\ client'[s].mark = "native"

(***************************************************************************)
(* A frame that leaves the window open is a tick of its hold: a hosted     *)
(* frame, of a window whose snapshot is valid, that finds every captured   *)
(* client.                                                                 *)
(***************************************************************************)
LEMMA FrameReasserts == Served /\ WindowScheduled => TickReasserts
  <1> SUFFICES ASSUME Served, WindowScheduled, GameFramePost, win'.depth # 0,
                      NEW s \in Slots, client[s].who = "bot", win.snap[s].captured
               PROVE  client'[s].sid = 0 /\ client'[s].mark = "native"
    BY DEF TickReasserts
  <1>1. win \in Window /\ client \in [Slots -> Client] /\ server.up
    BY DEF Served, Leased, TypeOK, DownIsEmpty
  <1>2. Active /\ win.valid /\ win.hold > 0
    BY DEF Served, SlotServed, CaptureRight, WindowScheduled, GameFramePost
  <1>3. ~ReleaseManagedSlots /\ ~CloseWindow
    BY WindowSteps DEF Served, Leased
  <1>4. ~Suspended
    BY <1>2 DEF Served, CountersInv, SuspendedInactive
  <1>5. TickVoteTransaction
    BY <1>3, <1>4 DEF GameFramePost, PassGate, ApplyMapGate, Suspended
  <1>6. HoldTick
    BY <1>1, <1>2, <1>3, <1>5 DEF TickVoteTransaction, Window
  <1>7. client'[s] = NativeMarkers(client[s], win.snap[s].hasController)
    BY <1>2, <1>6, CapturedTouchable DEF HoldTick, ReassertMarkers
  <1>8. client[s] \in Client /\ win.snap[s].hasController \in BOOLEAN
    BY <1>1 DEF Window, Snapshot
  <1>9. \A k \in Client, w \in BOOLEAN :
           NativeMarkers(k, w).mark = "native" /\ NativeMarkers(k, w).sid = 0
    BY DEF NativeMarkers, SetCtrl, Client
  <1> QED BY <1>7, <1>8, <1>9

(***************************************************************************)
(* No SteamID the engine writes back outlives a frame of the hold.         *)
(***************************************************************************)
THEOREM HoldTicksReassert ==
    ASSUME NoLoss \/ AmplePool
    PROVE  Spec => HoldTickReasserts
  <1>1. Served /\ WindowScheduled /\ [Next]_vars =>
           [ GameFramePost /\ win'.depth # 0 =>
               \A s \in Slots :
                  client[s].who = "bot" /\ win.snap[s].captured =>
                     client'[s].sid = 0 /\ client'[s].mark = "native" ]_vars
    BY FrameReasserts DEF TickReasserts
  <1> QED BY <1>1, ServedHolds, WindowIsScheduled, PTL DEF Spec, HoldTickReasserts

-----------------------------------------------------------------------------
(* Votes                                                                   *)

WholeWindows == ~PersonaKicks /\ ~ForeignWrites

\* What the engine's bot checks read of a client.
Native(c) == c.mark = "native" /\ c.sid = 0 /\ c.ctrl # "player"

(***************************************************************************)
(* A step that does not open a window, and gives no hosted bot the markers *)
(* of a player.                                                            *)
(***************************************************************************)
LEMMA NativeStep ==
    ASSUME VoteSeesNativeBots, Active' => Active,
           \A s \in Slots :
              Active /\ IsManaged(reg', s) /\ client'[s].who = "bot" =>
                 \/ Native(client'[s])
                 \/ /\ IsManaged(reg, s)
                    /\ client'[s].who = client[s].who
                    /\ client'[s].mark = client[s].mark /\ client'[s].sid = client[s].sid
                    /\ client'[s].ctrl = client[s].ctrl
    PROVE  VoteSeesNativeBots'
  BY DEF VoteSeesNativeBots, ManagedSlots, Native

LEMMA UnchangedNative ==
    ASSUME VoteSeesNativeBots, Active' => Active, UNCHANGED <<reg, client>>
    PROVE  VoteSeesNativeBots'
  BY NativeStep

(***************************************************************************)
(* ApplyDisguise does nothing to the markers while the window is open.     *)
(***************************************************************************)
LEMMA DisguisingNative ==
    ASSUME Served, VoteSeesNativeBots, UNCHANGED win,
           NEW P \in SUBSET PendingSlots(reg), NEW c \in [Slots -> Client],
           \A s \in Slots :
              /\ c[s].who = client[s].who
              /\ c[s].mark = client[s].mark /\ c[s].sid = client[s].sid
              /\ c[s].ctrl = client[s].ctrl,
           ApplyDisguise(P, reg, c, shm, Active)
    PROVE  VoteSeesNativeBots'
  <1> DEFINE D == Done(P, c, Active)
  <1>1. Leased /\ P \in SUBSET ManagedSlots(reg) /\ Active \in BOOLEAN
    <2>1. P \in SUBSET ManagedSlots(reg)
      BY PendingSlotsManaged
    <2> QED BY <2>1 DEF Served, Active, VoteTransactionActive
  <1>2. Active => D = {}
    BY DEF Done
  <1> HIDE DEF D
  <1>3. Disguises(D, c)
    BY <1>1, DisguiseEffect DEF D
  <1>4. Active' <=> Active
    BY DEF Active
  <1>5. reg'.m_Slots = reg.m_Slots /\ (Active => \A s \in Slots : client'[s] = c[s])
    BY <1>2, <1>3 DEF Disguises
  <1> QED BY <1>4, <1>5, NativeStep DEF IsManaged

(***************************************************************************)
(* Every call the engine makes about a client.                             *)
(***************************************************************************)
LEMMA ClientCallNative ==
    ASSUME WholeWindows, Served, NoReuse, VoteSeesNativeBots, NEW s \in Slots, ClientCall(s)
    PROVE  VoteSeesNativeBots'
  <1>1. Leased /\ TypeOK /\ client \in [Slots -> Client] /\ reg \in Registry
    BY DEF Served, Leased, TypeOK
  <1>2. Active' <=> Active
    <2>1. win' = win \/ win' = VacatedWindow(s)
      BY DEF ClientCall, HltvConnects, ClientIgnored, BotConnects, ControllerSpawns,
             ClientPutInServer, ClientDisconnect, SteamIdReappears
    <2> QED BY <2>1, VacatedEffect DEF Active, VoteTransactionActive
  <1>3. reg' \in {reg, VacatedRegistry(s)} =>
           \A t \in Slots \ {s} : IsManaged(reg', t) <=> IsManaged(reg, t)
    <2>1. \A t \in Slots \ {s} : VacatedRegistry(s).m_Slots[t] = reg.m_Slots[t]
      BY VacatedEffect
    <2> QED BY <2>1 DEF IsManaged
  <1>4. CASE HltvConnects(s) \/ \E who \in {"bot", "human"} : ClientIgnored(s, who)
    <2>1. PICK who \in {"bot", "human", "hltv"} :
             client' \in Arrivals(s, who) /\ reg' \in {reg, VacatedRegistry(s)}
             /\ (who = "bot" => reg' = VacatedRegistry(s))
      BY <1>4 DEF HltvConnects, ClientIgnored
    <2>2. client'[s].who = who /\ \A t \in Slots \ {s} : client'[t] = client[t]
      BY <1>1, <2>1, ArrivalEffect
    <2>3. ~IsManaged(VacatedRegistry(s), s)
      BY <1>1, VacatedIs DEF Leased
    <2> QED BY <1>2, <1>3, <2>1, <2>2, <2>3, NativeStep
  <1>5. CASE BotConnects(s)
    <2>1. ~Active => VoteSeesNativeBots'
      BY <1>2 DEF VoteSeesNativeBots
    <2>2. CASE Active
      <3> DEFINE v == VacatedRegistry(s)
      <3>1. PICK b \in FreeBots(v), done \in {{}, {s}} :
               /\ reg' = RecordDisguise(Mark(v, s, b), {s}, done)
               /\ client'[s].mark = "native" /\ client'[s].sid = 0 /\ client'[s].ctrl # "player"
               /\ \A t \in Slots \ {s} : client'[t] = client[t]
        BY <1>1, <1>5, <2>2, ConnectGrants
      <3>2. v \in Registry /\ \A t \in Slots \ {s} : v.m_Slots[t] = reg.m_Slots[t]
        BY <1>1, VacatedIs DEF Leased
      <3> HIDE DEF v
      <3>3. reg'.m_Slots = [v.m_Slots EXCEPT ![s] = b]
        BY <3>1, <3>2 DEF RecordDisguise, Mark, Registry
      <3>4. \A t \in Slots \ {s} : IsManaged(reg', t) <=> IsManaged(reg, t)
        BY <3>2, <3>3 DEF IsManaged, Registry
      <3> QED BY <1>2, <3>1, <3>4, NativeStep DEF Native
    <2> QED BY <2>1, <2>2
  <1>6. CASE ControllerSpawns(s)
    <2>1. UNCHANGED reg /\ client' = [client EXCEPT ![s].ctrl = EngineFlag(client[s].who)]
      BY <1>6 DEF ControllerSpawns
    <2>2. /\ client'[s].mark = client[s].mark /\ client'[s].sid = client[s].sid
          /\ client'[s].who = client[s].who
          /\ client'[s].ctrl = EngineFlag(client[s].who)
          /\ \A t \in Slots \ {s} : client'[t] = client[t]
      BY <1>1, <2>1 DEF Client
    <2>3. Active /\ IsManaged(reg, s) /\ client[s].who = "bot" => Native(client'[s])
      BY <2>2 DEF VoteSeesNativeBots, ManagedSlots, Native, EngineFlag
    <2> QED BY <1>2, <2>1, <2>2, <2>3, NativeStep
  <1>7. CASE ClientPutInServer(s)
    <2> DEFINE P == IF Suspended THEN {} ELSE PendingSlots(reg) \cap {s}
               c == [client EXCEPT ![s].inGame = TRUE]
    <2>1. P \in SUBSET PendingSlots(reg)
      OBVIOUS
    <2>2. c \in [Slots -> Client]
      <3>1. [client[s] EXCEPT !.inGame = TRUE] \in Client
        BY <1>1 DEF Client
      <3> QED BY <1>1, <3>1
    <2>3. \A t \in Slots :
             /\ c[t].who = client[t].who
             /\ c[t].mark = client[t].mark /\ c[t].sid = client[t].sid
             /\ c[t].ctrl = client[t].ctrl
      BY <1>1 DEF Client
    <2>4. ApplyDisguise(P, reg, c, shm, Active) /\ UNCHANGED win
      BY <1>7 DEF ClientPutInServer
    <2> HIDE DEF P, c
    <2> QED BY <2>1, <2>2, <2>3, <2>4, DisguisingNative
  <1>8. CASE ClientDisconnect(s)
    <2>1. /\ client'[s].who = "none" /\ \A t \in Slots \ {s} : client'[t] = client[t]
          /\ reg' \in {reg, VacatedRegistry(s)}
      BY <1>1, <1>8 DEF ClientDisconnect, NoClient
    <2> QED BY <1>2, <1>3, <2>1, NativeStep
  <1>9. ~SteamIdReappears(s)
    BY DEF SteamIdReappears, WholeWindows
  <1> QED BY <1>4, <1>5, <1>6, <1>7, <1>8, <1>9 DEF ClientCall

(***************************************************************************)
(* The steps that release every slot, or that close the window.            *)
(***************************************************************************)
LEMMA ClosedNative ==
    ASSUME TypeOK, ReleaseManagedSlots \/ CloseWindow
    PROVE  VoteSeesNativeBots'
  <1>1. win'.depth = 0
    BY WindowSteps
  <1> QED BY <1>1 DEF VoteSeesNativeBots, Active, VoteTransactionActive

LEMMA PassGateNative ==
    ASSUME TypeOK, NEW first, NEW second, NEW otherwise,
           PassGate(first, second, otherwise), otherwise => VoteSeesNativeBots'
    PROVE  VoteSeesNativeBots'
  <1>1. ReleaseManagedSlots \/ otherwise
    BY DEF PassGate
  <1> QED BY <1>1, ClosedNative

(***************************************************************************)
(* OnLevelInit, the map commands, and the server's going and coming.       *)
(***************************************************************************)
LEMMA EngineEventNative ==
    ASSUME Served, VoteSeesNativeBots, EngineEvent
    PROVE  VoteSeesNativeBots'
  <1>1. TypeOK
    BY DEF Served, Leased
  <1>2. UNCHANGED <<reg, client, win, shm>> => VoteSeesNativeBots'
    BY UnchangedNative DEF Active
  <1>3. ASSUME NEW first, NEW second, PassGate(first, second, UNCHANGED <<reg, client, win, shm>>)
        PROVE  VoteSeesNativeBots'
    BY <1>1, <1>2, <1>3, PassGateNative
  <1>4. ASSUME NEW m, NEW addon, LevelInit(m, addon)
        PROVE  VoteSeesNativeBots'
    BY <1>3, <1>4 DEF LevelInit
  <1>5. ASSUME NEW m, MapNameArrives(m)
        PROVE  VoteSeesNativeBots'
    BY <1>2, <1>5 DEF MapNameArrives
  <1>6. ASSUME NEW arg, MapCommand(arg)
        PROVE  VoteSeesNativeBots'
    BY <1>3, <1>6 DEF MapCommand
  <1>7. CASE ServerGone
    BY <1>7 DEF ServerGone, NoClient, VoteSeesNativeBots, ManagedSlots
  <1>8. CASE ServerBack
    BY <1>2, <1>8 DEF ServerBack
  <1> QED BY <1>4, <1>5, <1>6, <1>7, <1>8 DEF EngineEvent

(***************************************************************************)
(* Hook_GameFrame_Post.                                                    *)
(***************************************************************************)
LEMMA FrameNative ==
    ASSUME Served, VoteSeesNativeBots, GameFramePost
    PROVE  VoteSeesNativeBots'
  <1>1. TypeOK /\ win \in Window /\ client \in [Slots -> Client]
    BY DEF Served, Leased, TypeOK
  <1>2. UNCHANGED <<reg, client, win, shm>> => VoteSeesNativeBots'
    BY UnchangedNative DEF Active
  <1>3. ASSUME HoldTick
        PROVE  VoteSeesNativeBots'
    <2>1. UNCHANGED reg /\ (Active' <=> Active)
      BY <1>1, <1>3 DEF HoldTick, Window, Active, VoteTransactionActive
    <2>2. ASSUME NEW s \in Slots
          PROVE  \/ /\ client'[s].mark = "native" /\ client'[s].sid = 0
                    /\ client'[s].who = client[s].who
                    /\ client[s].ctrl # "player" => client'[s].ctrl # "player"
                 \/ client'[s] = client[s]
      <3>1. \A k \in Client, w \in BOOLEAN :
               /\ NativeMarkers(k, w).mark = "native" /\ NativeMarkers(k, w).sid = 0
               /\ NativeMarkers(k, w).who = k.who
               /\ k.ctrl # "player" => NativeMarkers(k, w).ctrl # "player"
        BY DEF NativeMarkers, SetCtrl, Client
      <3>2. client[s] \in Client /\ win.snap[s].hasController \in BOOLEAN
        BY <1>1 DEF Window, Snapshot
      <3>3. \/ client'[s] = NativeMarkers(client[s], win.snap[s].hasController)
            \/ client'[s] = client[s]
        BY <1>3 DEF HoldTick, ReassertMarkers
      <3> QED BY <3>1, <3>2, <3>3
    <2>3. \A s \in Slots : Active /\ IsManaged(reg, s) /\ client[s].who = "bot" => Native(client[s])
      BY DEF VoteSeesNativeBots, ManagedSlots, Native
    <2>4. \A s \in Slots : Active /\ IsManaged(reg, s) /\ client'[s].who = "bot" => Native(client'[s])
      BY <2>2, <2>3 DEF Native
    <2> QED BY <2>1, <2>4, NativeStep
  <1>4. win' = ClosedWindow => VoteSeesNativeBots'
    BY DEF ClosedWindow, VoteSeesNativeBots, Active, VoteTransactionActive
  <1>5. TickVoteTransaction => VoteSeesNativeBots'
    BY <1>1, <1>2, <1>3, <1>4, ClosedNative DEF TickVoteTransaction
  <1> DEFINE id == BuildMapIdentity(server)
             hosted == IF ApplyMapGate(gate, id).suspended
                       THEN UNCHANGED <<reg, client, win, shm>>
                       ELSE TickVoteTransaction
  <1>6. hosted => VoteSeesNativeBots'
    BY <1>2, <1>5
  <1>7. PassGate(NoMap, id, hosted)
    BY DEF GameFramePost
  <1> HIDE DEF id, hosted
  <1> QED BY <1>1, <1>6, <1>7, PassGateNative

(***************************************************************************)
(* Hook_DispatchConCommand_Pre: a window that opens captures every hosted  *)
(* bot.                                                                    *)
(***************************************************************************)
LEMMA CommandPreNative ==
    ASSUME WholeWindows, Served, VoteSeesNativeBots, CommandPre
    PROVE  VoteSeesNativeBots'
  <1>1. TypeOK /\ win \in Window /\ client \in [Slots -> Client]
    BY DEF Served, Leased, TypeOK
  <1>2. UNCHANGED <<reg, client, win, shm>> => VoteSeesNativeBots'
    BY UnchangedNative DEF Active
  <1>3. ASSUME BeginAll
        PROVE  VoteSeesNativeBots'
    <2> DEFINE S == ManagedSlots(reg) \cap Present(client)
    <2>1. UNCHANGED reg /\ client' = BeginMarkers(win, S, client)
      BY <1>3 DEF BeginAll, Begin
    <2>2. CASE Active
      <3>1. client' = client
        BY <2>1, <2>2 DEF BeginMarkers, Active
      <3> QED BY <2>1, <2>2, <3>1, UnchangedNative
    <2>3. CASE ~Active
      <3> DEFINE n(s) == NativeMarkers(client[s], TRUE)
      <3>1. \A s \in ManagedSlots(reg) : client'[s] = IF s \in S THEN n(s) ELSE client[s]
        BY <2>1, <2>3 DEF BeginMarkers, Active, ManagedSlots
      <3>2. \A k \in Client : Native(NativeMarkers(k, TRUE))
        BY DEF NativeMarkers, SetCtrl, Client, Native
      <3>3. \A s \in ManagedSlots(reg) : Native(n(s))
        BY <1>1, <3>2 DEF ManagedSlots
      <3>4. \A s \in ManagedSlots(reg) : s \notin S => client[s].who # "bot"
        BY DEF Present, ManagedSlots
      <3> HIDE DEF n, S
      <3> QED BY <2>1, <3>1, <3>3, <3>4 DEF VoteSeesNativeBots, Native
    <2> QED BY <2>2, <2>3
  <1>4. CASE CallvotePre
    BY <1>3, <1>4 DEF CallvotePre
  <1>5. CASE KickPre
    BY <1>2, <1>3, <1>5 DEF KickPre, OpenForKick
  <1>6. \A s \in Slots : ~NamedKickPre(s)
    BY DEF NamedKickPre, Dispatch, WholeWindows, PersonaKicks
  <1>7. CASE UnmatchedKickPre
    BY <1>2, <1>7 DEF UnmatchedKickPre
  <1>8. CASE BotAddPre
    BY <1>1, <1>2, <1>8, ClosedNative DEF BotAddPre
  <1> QED BY <1>4, <1>5, <1>6, <1>7, <1>8 DEF CommandPre

(***************************************************************************)
(* Hook_DispatchConCommand_Post.                                           *)
(***************************************************************************)
LEMMA CommandPostNative ==
    ASSUME Served, VoteSeesNativeBots, CommandPost
    PROVE  VoteSeesNativeBots'
  <1>1. client \in [Slots -> Client] /\ win \in Window
    BY DEF Served, Leased, TypeOK
  <1>2. Active' <=> Active
    BY <1>1 DEF CommandPost, CallvotePost, KickPost, BotAddPost, WindowAfterKick,
                ScheduleEnd, Window, Active, VoteTransactionActive
  <1>3. CASE CallvotePost \/ KickPost
    BY <1>2, <1>3, UnchangedNative DEF CallvotePost, KickPost
  <1>4. CASE BotAddPost
    <2>1. ApplyDisguise(PendingSlots(reg), reg, client, shm, Active) /\ UNCHANGED win
      BY <1>4 DEF BotAddPost
    <2>2. PendingSlots(reg) \in SUBSET PendingSlots(reg)
      OBVIOUS
    <2> QED BY <1>1, <2>1, <2>2, DisguisingNative
  <1> QED BY <1>3, <1>4 DEF CommandPost

(***************************************************************************)
(* A vote's eligibility and its count see every hosted bot as a bot, the   *)
(* ones included that connected, got their controller or were put in the   *)
(* server after it was called.                                             *)
(***************************************************************************)
THEOREM VotesSeeNativeBots ==
    ASSUME NoLoss \/ AmplePool, WholeWindows
    PROVE  Spec => []VoteSeesNativeBots
  <1>1. Init => VoteSeesNativeBots
    BY DEF Init, ClosedWindow, VoteSeesNativeBots, Active, VoteTransactionActive
  <1>2. Served /\ NoReuse /\ VoteSeesNativeBots /\ [Next]_vars => VoteSeesNativeBots'
    <2> SUFFICES ASSUME Served, NoReuse, VoteSeesNativeBots, [Next]_vars
                 PROVE  VoteSeesNativeBots'
      OBVIOUS
    <2>1. CASE \E s \in Slots : ClientCall(s)
      BY <2>1, ClientCallNative
    <2>2. CASE EngineEvent
      BY <2>2, EngineEventNative
    <2>3. CASE CommandPre
      BY <2>3, CommandPreNative
    <2>4. CASE CommandPost
      BY <2>4, CommandPostNative
    <2>5. CASE GameFramePost
      BY <2>5, FrameNative
    <2>6. CASE UNCHANGED vars
      BY <2>6, UnchangedNative DEF vars, Active
    <2> QED BY <2>1, <2>2, <2>3, <2>4, <2>5, <2>6 DEF Next
  <1> QED BY <1>1, <1>2, LeasedAndFree, ServedHolds, PTL DEF Spec

=============================================================================
