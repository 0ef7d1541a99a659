--------------------------- MODULE TeammateColors ---------------------------
(***************************************************************************)
(* The teammate colours of csharp/BotIdentityImpl/BotIdentityImpl.Colors.cs *)
(* and the timers of BotIdentityImplPlugin.cs.  A managed bot leases a     *)
(* colour that no human of its team has; the lease is renewed by passes    *)
(* over the players, one in the next frame and two on timers after every   *)
(* event.  Players come, go and change teams between the passes, the game  *)
(* writes colours of its own, and a write may fail half way.               *)
(*                                                                         *)
(* Events, timers and passes run on the game's thread, so each is one      *)
(* action.  The shared memory says which slots hold managed bots, and of   *)
(* which incarnation (SharedMemory).  Bots that are not managed and HLTV   *)
(* are passed over by the code, and left out.                              *)
(***************************************************************************)
EXTENDS Integers, Sequences

CONSTANTS
    MaxSlots,
    BotSlots, HumanSlots,    \* the slots bots and humans may take
    PlayedTeams,             \* of terrorists (2) and counter-terrorists (3)
    ColorCount,
    MaxForceWrites,
    BadReads,                \* bots whose colours may not be readable in a pass
    BadWrites,               \* bots whose write may fail
    Repainted,               \* players whose colours the game writes
    Preferences,             \* colours the game may give whoever joins in a slot, -1 for none
    MaxFaults,               \* bound: passes in which something fails
    MaxJoins                 \* bound: incarnations of each slot

ASSUME ColorAssumption ==
    /\ MaxSlots \in Nat
    /\ BotSlots \cup HumanSlots \subseteq 0 .. MaxSlots - 1
    /\ BotSlots \cap HumanSlots = {}
    /\ ColorCount \in Nat
    /\ MaxForceWrites \in Nat \ {0}
    /\ PlayedTeams \subseteq {2, 3}
    /\ BadReads \cup BadWrites \subseteq BotSlots
    /\ Repainted \subseteq BotSlots \cup HumanSlots
    /\ Preferences \in [BotSlots \cup HumanSlots -> SUBSET (-1 .. ColorCount - 1)]
    /\ MaxFaults \in Nat
    /\ MaxJoins \in [BotSlots \cup HumanSlots -> Nat]

VARIABLES
    player,     \* team and colours of whoever is in a slot
    inc,        \* GetSlotIncarnation
    lease,      \* the five _assigned*, _color* arrays
    due,        \* how many passes are scheduled: they do not differ
    faults      \* how many passes may still fail

vars == <<player, inc, lease, due, faults>>

Slots == BotSlots \cup HumanSlots
Colors == 0 .. ColorCount - 1
Unset == -1

\* Spectators, terrorists and counter-terrorists: CsTeam.
Teams == {1} \cup PlayedTeams
Absent == 0

Nobody == [team |-> Absent, current |-> Unset, preferred |-> Unset]

NoLease == [color |-> Unset, inc |-> 0, team |-> Absent, writes |-> 0, gaveUp |-> FALSE]

Player == [team : Teams \cup {Absent}, current : Colors \cup {Unset},
           preferred : Colors \cup {Unset}]

Lease == [color : Colors \cup {Unset}, inc : Nat, team : Teams \cup {Absent},
          writes : 0 .. MaxForceWrites, gaveUp : BOOLEAN]

TypeOK ==
    /\ player \in [Slots -> Player]
    /\ inc \in [Slots -> Nat]
    /\ lease \in [BotSlots -> Lease]
    /\ due \in 0 .. 3
    /\ faults \in 0 .. MaxFaults

Init ==
    /\ player = [s \in Slots |-> Nobody]
    /\ inc = [s \in Slots |-> 0]
    /\ lease = [s \in BotSlots |-> NoLease]
    /\ due = 0
    /\ faults = MaxFaults

-----------------------------------------------------------------------------
(* One bot of a pass.  st holds what the pass has changed so far: the      *)
(* players, the leases, and the colours taken on the team.                 *)

\* Mutant: a slot's next bot inherits the lease.
RenewedByTeam(l, p, i) == IF l.team = p.team THEN [l EXCEPT !.inc = i]
                          ELSE [NoLease EXCEPT !.inc = i, !.team = p.team]

\* A new incarnation, or a bot that changed teams, starts from nothing.
Renewed(l, p, i) ==
    IF l.inc = i /\ l.team = p.team THEN l ELSE [NoLease EXCEPT !.inc = i, !.team = p.team]

\* IsFreeColor: the first of tried that is, or none.
FirstFree(tried, taken) ==
    LET free == {i \in DOMAIN tried : tried[i] \in Colors \ taken}
    IN  IF free = {} THEN Unset ELSE tried[CHOOSE i \in free : \A j \in free : i <= j]

Tried(p, l) == <<p.preferred, p.current, l.color>> \o [i \in 1 .. ColorCount |-> i - 1]

\* Mutant: slot%5 where no colour is free.
ChosenByModulo(p, l, taken) ==
    IF Colors \subseteq taken THEN 0 ELSE FirstFree(Tried(p, l), taken)

\* The game's preference, what is shown, the last lease, the first one left.
ChosenColor(p, l, taken) == FirstFree(Tried(p, l), taken)

\* ReserveObservedColor.
Reserved(p, l, taken) == taken \cup ({FirstFree(<<p.current, l.color>>, taken)} \ {Unset})

\* TryWriteTeammateColor, which a failure may stop before, between and after the fields.
Written(p, c, outcome) ==
    CASE outcome \in {"ok", "unsent"} -> [p EXCEPT !.current = c, !.preferred = c]
      [] outcome = "half" -> [p EXCEPT !.current = c]
      [] outcome = "none" -> p

\* Mutant: a bot whose colour held has its budget back.
LeaseShown(l, c) == [l EXCEPT !.color = c, !.writes = 0]

LeaseKept(l, c) == [l EXCEPT !.color = c]

\* Mutant: one write more.
OutOfWritesLate(l) == l.writes > MaxForceWrites

OutOfWrites(l) == l.writes >= MaxForceWrites

AssignColor(st, s, outcome) ==
    LET p == st.player[s]
        l == Renewed(st.lease[s], p, inc[s])
        c == ChosenColor(p, l, st.taken)
    IN  CASE l.gaveUp ->
               [st EXCEPT !.lease[s] = l, !.taken = Reserved(p, l, @)]
          [] ~l.gaveUp /\ c = Unset ->
               [st EXCEPT !.lease[s] = [l EXCEPT !.color = Unset]]
          [] ~l.gaveUp /\ c # Unset /\ p.current = c ->
               [st EXCEPT !.lease[s] = LeaseKept(l, c), !.taken = @ \cup {c}]
          [] ~l.gaveUp /\ c # Unset /\ p.current # c ->
               IF OutOfWrites(l)
               THEN [st EXCEPT !.lease[s] = [l EXCEPT !.color = c, !.gaveUp = TRUE],
                               !.taken = @ \cup {c}]
               ELSE [st EXCEPT !.player[s] = Written(p, c, outcome),
                               !.lease[s] = [l EXCEPT !.color = c,
                                   !.writes = IF outcome = "ok" THEN @ + 1 ELSE @],
                               !.taken = @ \cup {c}]

-----------------------------------------------------------------------------
(* A pass.                                                                 *)

TeamBots(team) == {s \in BotSlots : player[s].team = team}

HumanColors(team) ==
    UNION {{player[s].current, player[s].preferred} :
              s \in {h \in HumanSlots : player[h].team = team}}

\* A bot whose colours cannot be read ends the pass when its lease is renewed.
ServeSlot(st, s, served, outcome, broken) ==
    IF s \notin served THEN st
    ELSE IF s \in broken
    THEN [st EXCEPT !.lease[s] = Renewed(@, player[s], inc[s])]
    ELSE AssignColor(st, s, outcome[s])

(***************************************************************************)
(* ReconcileTeamColors: the team's bots in slot order, up to one whose     *)
(* colours cannot be read.  `after[n]` is the pass after the slots below n. *)
(***************************************************************************)
ReconcileTeamColors(team, st, outcome, broken) ==
    LET served == {s \in TeamBots(team) : \A b \in broken \cap TeamBots(team) : s <= b}
        after[n \in 0 .. MaxSlots] ==
            IF n = 0 THEN [st EXCEPT !.taken = HumanColors(team)]
            ELSE ServeSlot(after[n - 1], n - 1, served, outcome, broken)
    IN  after[MaxSlots]

\* An exception in the terrorists' half leaves the other team for the next pass.
ReconcileTeammateColors(outcome, broken) ==
    LET st == [player |-> player, lease |-> lease, taken |-> {}]
        t  == ReconcileTeamColors(2, st, outcome, broken)
        ct == IF broken \cap TeamBots(2) = {}
              THEN ReconcileTeamColors(3, t, outcome, broken)
              ELSE t
    IN  player' = ct.player /\ lease' = ct.lease

NoFault == [s \in BotSlots |-> "ok"]

Pass ==
    /\ due > 0
    /\ due' = due - 1
    /\ ReconcileTeammateColors(NoFault, {})
    /\ UNCHANGED <<inc, faults>>

\* A bot's colours cannot be read, or cannot be written.
FaultyPass ==
    /\ due > 0
    /\ due' = due - 1
    /\ faults > 0
    /\ faults' = faults - 1
    /\ \/ \E s \in BadReads : ReconcileTeammateColors(NoFault, {s})
       \/ \E s \in BadWrites, o \in {"none", "half", "unsent"} :
             ReconcileTeammateColors([NoFault EXCEPT ![s] = o], {})
    /\ UNCHANGED inc

-----------------------------------------------------------------------------
(* Events                                                                  *)

\* Mutant: the timers are killed after they were set, and no frame is waited for.
KilledTimers == 0

(***************************************************************************)
(* ScheduleTeammateColorReconcile: one pass in the next frame, and both    *)
(* timers afresh.  Two events in one frame queue two passes for the next,  *)
(* which are one here.                                                     *)
(***************************************************************************)
ScheduleTeammateColorReconcile == 3

\* A client takes the slot.  A bot is published under a new incarnation.
Connect(s) ==
    /\ player[s].team = Absent
    /\ inc[s] < MaxJoins[s]
    /\ inc' = [inc EXCEPT ![s] = @ + 1]
    /\ \E c \in Preferences[s] :
          player' = [player EXCEPT ![s].team = 1, ![s].preferred = c]
    /\ UNCHANGED <<lease, due, faults>>

ClearColorLease(s) == [lease EXCEPT ![s] = NoLease]

\* A client leaves, and the game server may take it away without a disconnect.
Disconnect(s) ==
    /\ player[s].team # Absent
    /\ player' = [player EXCEPT ![s] = Nobody]
    /\ lease' \in {lease} \cup {ClearColorLease(b) : b \in BotSlots \cap {s}}
    /\ UNCHANGED <<inc, due, faults>>

\* EventPlayerTeam.  The game gives whoever joins a team a colour, or none.
PlayerTeam(s, team) ==
    /\ player[s].team \notin {Absent, team}
    /\ \E c \in Preferences[s] :
          player' = [player EXCEPT ![s].team = team, ![s].current = c]
    /\ due' = ScheduleTeammateColorReconcile
    /\ UNCHANGED <<inc, lease, faults>>

\* EventPlayerSpawn and EventRoundStart.
RoundStart ==
    /\ due' = ScheduleTeammateColorReconcile
    /\ UNCHANGED <<player, inc, lease, faults>>

\* The game gives a player another colour ("Valve color claims").
GameWrites(s) ==
    /\ s \in Repainted
    /\ player[s].team \in {2, 3}
    /\ \E c \in Colors : player' = [player EXCEPT ![s].current = c]
    /\ UNCHANGED <<inc, lease, due, faults>>

Next ==
    \/ \E s \in Slots :
          \/ Connect(s)
          \/ Disconnect(s)
          \/ \E team \in Teams : PlayerTeam(s, team)
          \/ GameWrites(s)
    \/ RoundStart
    \/ Pass
    \/ FaultyPass

(***************************************************************************)
(* The server runs its frames and its timers, so a scheduled pass is made, *)
(* and its rounds, so one is scheduled.  Only passes lower `due`.          *)
(***************************************************************************)
Fairness == WF_due(due > 0 /\ due' = due - 1) /\ WF_due(due' = ScheduleTeammateColorReconcile)

Spec == Init /\ [][Next]_vars

FairSpec == Spec /\ Fairness

-----------------------------------------------------------------------------
(* Properties                                                              *)

\* The lease is the bot's own, and of the team it is in.
Renews(s) == lease[s].inc = inc[s] /\ lease[s].team = player[s].team

\* A bot that has a colour, and whose lease is of this incarnation and team.
Leased(s) ==
    /\ player[s].team \in {2, 3}
    /\ Renews(s)
    /\ lease[s].color # Unset
    /\ ~lease[s].gaveUp

Separate ==
    \A s \in BotSlots : Leased(s) =>
        /\ player[s].current = lease[s].color
        /\ \A h \in HumanSlots :
              player[h].team = player[s].team =>
                  lease[s].color \notin {player[h].current, player[h].preferred}
        /\ \A t \in TeamBots(player[s].team) \ {s} :
              Leased(t) => lease[t].color # lease[s].color

\* A step of a pass in which nothing failed.
WholePass ==
    /\ due' < due
    /\ faults' = faults

(***************************************************************************)
(* After a pass in which nothing failed, every bot that has not given up   *)
(* shows the colour it leased, no human of its team has or prefers it, and *)
(* no other bot of the team leased it (src/README.md: "assigns teammate    *)
(* colors so managed bots do not collide with humans").                    *)
(***************************************************************************)
PassSeparates == [][ ~Separate' => ~WholePass ]_vars

(***************************************************************************)
(* Such a pass serves every bot of the two teams: its lease is for this    *)
(* incarnation and team, and is without a colour only if each of the five  *)
(* is a human's or another bot's, or if the bot was given up on after      *)
(* MaxForceWrites.  The slot's last bot, or the bot's last team, leaves it *)
(* neither a lease nor a spent budget.                                     *)
(***************************************************************************)
ColorsUsed(s) ==
    HumanColors(player[s].team)
        \cup UNION {{player[t].current, lease[t].color} :
                       t \in TeamBots(player[s].team) \ {s}}

Served(s) ==
    player[s].team \in {2, 3} =>
        /\ Renews(s)
        /\ lease[s].gaveUp \/ lease[s].color # Unset \/ Colors \subseteq ColorsUsed(s)

PassServes ==
    [][ (\E s \in BotSlots :
            \/ ~Served(s)'
            \/ lease'[s].gaveUp /\ player[s].team \in {2, 3} /\ ~Renews(s))
        => ~WholePass ]_vars

SamePlayers == \A s \in Slots : player'[s].team = player[s].team

(***************************************************************************)
(* The plugin does not fight the game for ever: unless players keep        *)
(* joining, leaving or changing teams, the forced writes end, however the  *)
(* game goes on writing colours (MaxForceWrites, _colorGaveUp).            *)
(***************************************************************************)
WritesEnd ==
    <>[][SamePlayers]_vars
        => <>[][\A s \in BotSlots : lease'[s].writes <= lease[s].writes]_vars

(***************************************************************************)
(* Once players stay and the game leaves colours alone, the bots' colours  *)
(* become and stay separate, and every bot is served: nobody who joined,   *)
(* left or was repainted between two passes is missed by those that follow. *)
(***************************************************************************)
Quiet == SamePlayers /\ (due' >= due => player' = player)

ColorsSettle == <>[][Quiet]_vars => <>[](Separate /\ \A s \in BotSlots : Served(s))

=============================================================================
