------------------------ MODULE TeammateColorsProofs ------------------------
(***************************************************************************)
(* Proofs about the teammate colours, for any number of bots, humans,      *)
(* colours and forced writes: a pass in which nothing fails separates the  *)
(* colours of a team and serves each of its bots.                          *)
(***************************************************************************)
EXTENDS TeammateColors, Recursion, SequenceTheorems

-----------------------------------------------------------------------------
(* Choosing a colour                                                       *)

LEMMA Sizes ==
    /\ ColorCount \in Nat
    /\ MaxSlots \in Nat
    /\ MaxForceWrites \in Nat \ {0}
    /\ BotSlots \subseteq Slots
    /\ Slots \subseteq 0 .. MaxSlots - 1
    /\ BotSlots \cap HumanSlots = {}
    /\ Unset \notin Colors
    /\ Colors \cup {Unset} \subseteq Int
  BY ColorAssumption DEF Slots, Unset, Colors

LEMMA FirstFreeIs ==
    ASSUME NEW tried, DOMAIN tried \subseteq Nat, NEW taken, NEW c, c = FirstFree(tried, taken)
    PROVE  \/ c = Unset /\ \A i \in DOMAIN tried : tried[i] \notin Colors \ taken
           \/ c \in Colors \ taken /\ \E i \in DOMAIN tried : tried[i] = c
<1> DEFINE free == {i \in DOMAIN tried : tried[i] \in Colors \ taken}
<1>1. CASE free = {}
  BY <1>1 DEF FirstFree
<1>2. CASE free # {}
  <2>1. free \in SUBSET Nat
    OBVIOUS
  <2> DEFINE least == CHOOSE i \in free : \A j \in free : i <= j
  <2>2. least \in free
    <3> HIDE DEF free
    <3>1. \E i \in free : \A j \in free : i <= j
      BY <1>2, <2>1, LeastNatural
    <3> QED BY <3>1
  <2>3. c = tried[least]
    BY <1>2 DEF FirstFree
  <2> HIDE DEF least
  <2> QED BY <2>2, <2>3
<1> QED BY <1>1, <1>2

LEMMA ChosenIs ==
    ASSUME NEW p \in Player, NEW l \in Lease, NEW taken, NEW c, c = ChosenColor(p, l, taken)
    PROVE  \/ c = Unset /\ Colors \subseteq taken
           \/ c \in Colors \ taken
<1> DEFINE first == <<p.preferred, p.current, l.color>>
           all == [i \in 1 .. ColorCount |-> i - 1]
<1>1. first \in Seq(Int) /\ Len(first) = 3
  BY Sizes DEF Player, Lease
<1>2. all \in Seq(Int) /\ Len(all) = ColorCount
  BY Sizes
<1>3. \A d \in Colors : d + 1 \in 1 .. ColorCount /\ all[d + 1] = d
  BY Sizes DEF Colors
<1>4. Tried(p, l) = first \o all
  BY DEF Tried
<1> HIDE DEF first, all
<1>5. /\ DOMAIN (first \o all) = 1 .. 3 + ColorCount
      /\ \A i \in 1 .. ColorCount : (first \o all)[3 + i] = all[i]
  <2>1. /\ first \o all \in Seq(Int)
        /\ Len(first \o all) = Len(first) + Len(all)
        /\ \A i \in 1 .. Len(first) + Len(all) :
              (first \o all)[i] = IF i <= Len(first) THEN first[i] ELSE all[i - Len(first)]
    BY <1>1, <1>2, ConcatProperties
  <2>2. \A i \in 1 .. ColorCount :
           3 + i \in 1 .. 3 + ColorCount /\ ~(3 + i <= 3) /\ (3 + i) - 3 = i
    BY Sizes
  <2> QED BY <1>1, <1>2, <2>1, <2>2
<1>6. \A d \in Colors : \E i \in DOMAIN Tried(p, l) : Tried(p, l)[i] = d
  <2> TAKE d \in Colors
  <2>1. 3 + (d + 1) \in DOMAIN (first \o all) /\ (first \o all)[3 + (d + 1)] = d
    BY <1>3, <1>5, Sizes
  <2> QED BY <1>4, <2>1
<1>7. DOMAIN Tried(p, l) \subseteq Nat
  BY <1>4, <1>5
<1>8. \/ c = Unset /\ \A i \in DOMAIN Tried(p, l) : Tried(p, l)[i] \notin Colors \ taken
      \/ c \in Colors \ taken
  BY <1>7, FirstFreeIs DEF ChosenColor
<1> QED BY <1>6, <1>8

LEMMA ReservedIs ==
    ASSUME NEW p \in Player, NEW l \in Lease, NEW taken
    PROVE  /\ taken \subseteq Reserved(p, l, taken)
           /\ Reserved(p, l, taken) \subseteq taken \cup {p.current, l.color}
<1> DEFINE tried == <<p.current, l.color>>
           c == FirstFree(tried, taken)
<1>1. DOMAIN tried = {1, 2} /\ tried[1] = p.current /\ tried[2] = l.color
  OBVIOUS
<1>2. c = Unset \/ \E i \in DOMAIN tried : tried[i] = c
  <2>1. DOMAIN tried \subseteq Nat
    BY <1>1
  <2> HIDE DEF tried
  <2> QED BY <2>1, FirstFreeIs
<1>3. Reserved(p, l, taken) = taken \cup ({c} \ {Unset})
  BY DEF Reserved
<1> HIDE DEF tried, c
<1> QED BY <1>1, <1>2, <1>3

(***************************************************************************)
(* A renewed lease is of the bot and team, and given up on only if it was  *)
(* already theirs.                                                         *)
(***************************************************************************)
LEMMA RenewedIs ==
    ASSUME NEW l \in Lease, NEW p \in Player, NEW i \in Nat, NEW r, r = Renewed(l, p, i)
    PROVE  /\ r \in Lease
           /\ r.inc = i /\ r.team = p.team
           /\ r.gaveUp => l.inc = i /\ l.team = p.team
<1>1. CASE l.inc = i /\ l.team = p.team
  BY <1>1 DEF Renewed
<1>2. CASE ~(l.inc = i /\ l.team = p.team)
  <2>1. r = [color |-> Unset, inc |-> i, team |-> p.team, writes |-> 0, gaveUp |-> FALSE]
    BY <1>2 DEF Renewed, NoLease
  <2>2. p.team \in Teams \cup {Absent} /\ 0 \in 0 .. MaxForceWrites
    BY Sizes DEF Player
  <2> QED BY <2>1, <2>2 DEF Lease
<1> QED BY <1>1, <1>2

-----------------------------------------------------------------------------
(* One bot of a pass                                                       *)

PassState == [player : [Slots -> Player], lease : [BotSlots -> Lease],
              taken : SUBSET (Colors \cup {Unset})]

Outcomes == {"ok", "unsent", "half", "none"}

\* Beside its own player and lease, a bot's turn changes only what is taken.
OthersLeft(st, u, s) ==
    /\ \A t \in Slots \ {s} : u.player[t] = st.player[t]
    /\ \A t \in BotSlots \ {s} : u.lease[t] = st.lease[t]

LEMMA StateParts ==
    ASSUME NEW st \in PassState
    PROVE  /\ st.player \in [Slots -> Player]
           /\ st.lease \in [BotSlots -> Lease]
           /\ st.taken \subseteq Colors \cup {Unset}
  BY DEF PassState

\* u is st with another player and lease of bot s.
Turned(st, u, s, q, l, taken) ==
    /\ u = [player |-> u.player, lease |-> u.lease, taken |-> u.taken]
    /\ u.player = [st.player EXCEPT ![s] = q]
    /\ u.lease = [st.lease EXCEPT ![s] = l]
    /\ u.taken = taken

LEMMA TurnedIs ==
    ASSUME NEW st \in PassState, NEW s \in BotSlots, NEW q \in Player, NEW l \in Lease,
           NEW taken \in SUBSET (Colors \cup {Unset}), NEW u, Turned(st, u, s, q, l, taken)
    PROVE  /\ u \in PassState
           /\ u.player[s] = q /\ u.lease[s] = l /\ u.taken = taken
           /\ OthersLeft(st, u, s)
<1>1. s \in Slots
  BY Sizes
<1>2. u.player \in [Slots -> Player] /\ u.lease \in [BotSlots -> Lease]
  BY <1>1, StateParts DEF Turned
<1>3. u \in PassState
  BY <1>2 DEF PassState, Turned
<1> QED BY <1>1, <1>3, StateParts DEF OthersLeft, Turned

(***************************************************************************)
(* What a bot's turn leaves of it.                                         *)
(***************************************************************************)
LEMMA AssignEffect ==
    ASSUME inc \in [Slots -> Nat], NEW st \in PassState, NEW s \in BotSlots,
           NEW outcome \in Outcomes, NEW u, u = AssignColor(st, s, outcome)
    PROVE  /\ u \in PassState
           /\ OthersLeft(st, u, s)
           /\ u.player[s].team = st.player[s].team
           /\ u.lease[s].inc = inc[s] /\ u.lease[s].team = st.player[s].team
           /\ u.lease[s].gaveUp =>
                 st.lease[s].inc = inc[s] /\ st.lease[s].team = st.player[s].team
           /\ st.taken \subseteq u.taken
           /\ u.taken \subseteq st.taken \cup {u.player[s].current, u.lease[s].color}
           /\ outcome = "ok" /\ ~u.lease[s].gaveUp =>
                 IF u.lease[s].color = Unset
                 THEN Colors \subseteq st.taken
                 ELSE /\ u.lease[s].color \in u.taken \ st.taken
                      /\ u.player[s].current = u.lease[s].color
<1> DEFINE p == st.player[s]
           l == Renewed(st.lease[s], p, inc[s])
           c == ChosenColor(p, l, st.taken)
<1>1. p \in Player /\ st.lease[s] \in Lease /\ inc[s] \in Nat /\ s \in Slots
  BY Sizes, StateParts
<1>2. /\ l \in Lease
      /\ l.inc = inc[s] /\ l.team = p.team
      /\ l.gaveUp => st.lease[s].inc = inc[s] /\ st.lease[s].team = p.team
  BY <1>1, RenewedIs
<1>3. /\ c = Unset \/ c \in Colors \ st.taken
      /\ c = Unset => Colors \subseteq st.taken
      /\ Unset \notin Colors
  BY <1>1, <1>2, ChosenIs, Sizes
<1>4. [st.player EXCEPT ![s] = p] = st.player
  BY <1>1, StateParts
<1>5. u = CASE l.gaveUp ->
                [st EXCEPT !.lease[s] = l, !.taken = Reserved(p, l, st.taken)]
           [] ~l.gaveUp /\ c = Unset ->
                [st EXCEPT !.lease[s] = [l EXCEPT !.color = Unset]]
           [] ~l.gaveUp /\ c # Unset /\ p.current = c ->
                [st EXCEPT !.lease[s] = LeaseKept(l, c), !.taken = st.taken \cup {c}]
           [] ~l.gaveUp /\ c # Unset /\ p.current # c ->
                IF OutOfWrites(l)
                THEN [st EXCEPT !.lease[s] = [l EXCEPT !.color = c, !.gaveUp = TRUE],
                                !.taken = st.taken \cup {c}]
                ELSE [st EXCEPT !.player[s] = Written(p, c, outcome),
                                !.lease[s] = [l EXCEPT !.color = c,
                                    !.writes = IF outcome = "ok" THEN @ + 1 ELSE @],
                                !.taken = st.taken \cup {c}]
  BY DEF AssignColor
<1> HIDE DEF c, l, p
<1>6. \A d \in Colors \cup {Unset} : [l EXCEPT !.color = d] \in Lease
  BY <1>2 DEF Lease
<1>7. CASE l.gaveUp
  <2> DEFINE k == Reserved(p, l, st.taken)
  <2>1. Turned(st, u, s, p, l, k)
    <3>1. u = [st EXCEPT !.lease[s] = l, !.taken = k]
      BY <1>5, <1>7
    <3> HIDE DEF k
    <3> QED BY <1>1, <1>4, <3>1, StateParts DEF Turned, PassState
  <2>2. st.taken \subseteq k /\ k \subseteq st.taken \cup {p.current, l.color}
    BY <1>1, <1>2, ReservedIs
  <2>3. k \in SUBSET (Colors \cup {Unset})
    BY <1>1, <1>2, <2>2, StateParts DEF Player, Lease
  <2> HIDE DEF k
  <2>4. /\ u \in PassState /\ OthersLeft(st, u, s)
        /\ u.player[s] = p /\ u.lease[s] = l /\ u.taken = k
    BY <1>1, <1>2, <2>1, <2>3, TurnedIs
  <2> QED BY <1>2, <1>7, <2>2, <2>4 DEF p
<1>8. CASE ~l.gaveUp /\ c = Unset
  <2> DEFINE m == [l EXCEPT !.color = Unset]
  <2>1. Turned(st, u, s, p, m, st.taken)
    <3>1. u = [st EXCEPT !.lease[s] = m]
      BY <1>5, <1>8
    <3> HIDE DEF m
    <3> QED BY <1>1, <1>4, <3>1, StateParts DEF Turned, PassState
  <2>2. m \in Lease /\ m.color = Unset /\ m.inc = l.inc /\ m.team = l.team /\ m.gaveUp = l.gaveUp
    BY <1>2, <1>6 DEF Lease
  <2> HIDE DEF m
  <2>3. /\ u \in PassState /\ OthersLeft(st, u, s)
        /\ u.player[s] = p /\ u.lease[s] = m /\ u.taken = st.taken
    BY <1>1, <2>1, <2>2, StateParts, TurnedIs
  <2> QED BY <1>2, <1>3, <1>8, <2>2, <2>3 DEF p
<1>9. CASE ~l.gaveUp /\ c # Unset /\ p.current = c
  <2> DEFINE m == LeaseKept(l, c)
             k == st.taken \cup {c}
  <2>1. Turned(st, u, s, p, m, k)
    <3>1. u = [st EXCEPT !.lease[s] = m, !.taken = k]
      BY <1>5, <1>9
    <3> HIDE DEF m, k
    <3> QED BY <1>1, <1>4, <3>1, StateParts DEF Turned, PassState
  <2>2. m \in Lease /\ m.color = c /\ m.inc = l.inc /\ m.team = l.team /\ m.gaveUp = l.gaveUp
    BY <1>2, <1>3, <1>6 DEF Lease, LeaseKept
  <2>3. k \in SUBSET (Colors \cup {Unset})
    BY <1>3, StateParts
  <2> HIDE DEF m
  <2>4. /\ u \in PassState /\ OthersLeft(st, u, s)
        /\ u.player[s] = p /\ u.lease[s] = m /\ u.taken = k
    BY <1>1, <2>1, <2>2, <2>3, TurnedIs
  <2> QED BY <1>2, <1>3, <1>9, <2>2, <2>4 DEF p
<1>10. CASE ~l.gaveUp /\ c # Unset /\ p.current # c /\ OutOfWrites(l)
  <2> DEFINE m == [l EXCEPT !.color = c, !.gaveUp = TRUE]
             k == st.taken \cup {c}
  <2>1. Turned(st, u, s, p, m, k)
    <3>1. u = [st EXCEPT !.lease[s] = m, !.taken = k]
      BY <1>5, <1>10
    <3> HIDE DEF m, k
    <3> QED BY <1>1, <1>4, <3>1, StateParts DEF Turned, PassState
  <2>2. m \in Lease /\ m.color = c /\ m.inc = l.inc /\ m.team = l.team /\ m.gaveUp
    BY <1>2, <1>3 DEF Lease
  <2>3. k \in SUBSET (Colors \cup {Unset})
    BY <1>3, StateParts
  <2>4. st.lease[s].inc = inc[s] /\ st.lease[s].team = p.team
    <3>1. l.writes # 0
      BY <1>2, <1>10, Sizes DEF OutOfWrites, Lease
    <3> QED BY <1>2, <3>1 DEF l, Renewed, NoLease
  <2> HIDE DEF m
  <2>5. /\ u \in PassState /\ OthersLeft(st, u, s)
        /\ u.player[s] = p /\ u.lease[s] = m /\ u.taken = k
    BY <1>1, <2>1, <2>2, <2>3, TurnedIs
  <2> QED BY <1>2, <1>3, <1>10, <2>2, <2>4, <2>5 DEF p
<1>11. CASE ~l.gaveUp /\ c # Unset /\ p.current # c /\ ~OutOfWrites(l)
  <2> DEFINE m == [l EXCEPT !.color = c, !.writes = IF outcome = "ok" THEN @ + 1 ELSE @]
             q == Written(p, c, outcome)
             k == st.taken \cup {c}
  <2>1. Turned(st, u, s, q, m, k)
    <3>1. u = [st EXCEPT !.player[s] = q, !.lease[s] = m, !.taken = k]
      BY <1>5, <1>11
    <3> HIDE DEF m, k, q
    <3> QED BY <1>1, <1>4, <3>1, StateParts DEF Turned, PassState
  <2>2. m \in Lease /\ m.color = c /\ m.inc = l.inc /\ m.team = l.team /\ m.gaveUp = l.gaveUp
    <3>1. l.writes + 1 \in 0 .. MaxForceWrites
      BY <1>2, <1>11, Sizes DEF OutOfWrites, Lease
    <3> QED BY <1>2, <1>3, <3>1 DEF Lease
  <2>3. q \in Player /\ q.team = p.team /\ (outcome = "ok" => q.current = c)
    BY <1>1, <1>3 DEF Written, Player, Outcomes
  <2>4. k \in SUBSET (Colors \cup {Unset})
    BY <1>3, StateParts
  <2> HIDE DEF m, q
  <2>5. /\ u \in PassState /\ OthersLeft(st, u, s)
        /\ u.player[s] = q /\ u.lease[s] = m /\ u.taken = k
    BY <1>1, <2>1, <2>2, <2>3, <2>4, TurnedIs
  <2> QED BY <1>2, <1>3, <1>11, <2>2, <2>3, <2>5 DEF p
<1> QED BY <1>7, <1>8, <1>9, <1>10, <1>11

LEMMA ServeSlotType ==
    ASSUME player \in [Slots -> Player], inc \in [Slots -> Nat], NEW st \in PassState, NEW s,
           NEW served \in SUBSET BotSlots, NEW outcome \in [BotSlots -> Outcomes], NEW broken
    PROVE  ServeSlot(st, s, served, outcome, broken) \in PassState
<1> DEFINE u == ServeSlot(st, s, served, outcome, broken)
<1>1. CASE s \notin served
  BY <1>1 DEF ServeSlot
<1>2. CASE s \in served /\ s \in broken
  <2> DEFINE l == Renewed(st.lease[s], player[s], inc[s])
  <2>1. u = [st EXCEPT !.lease[s] = Renewed(@, player[s], inc[s])]
    BY <1>2 DEF ServeSlot
  <2>2. s \in BotSlots /\ s \in Slots /\ st.lease[s] \in Lease /\ l \in Lease
    BY <1>2, Sizes, StateParts, RenewedIs
  <2>3. Turned(st, u, s, st.player[s], l, st.taken)
    <3> HIDE DEF u
    <3> QED BY <2>1, <2>2, StateParts DEF Turned, PassState
  <2> HIDE DEF u, l
  <2> QED BY <2>2, <2>3, StateParts, TurnedIs DEF u
<1>3. CASE s \in served /\ s \notin broken
  <2>1. u = AssignColor(st, s, outcome[s]) /\ s \in BotSlots /\ outcome[s] \in Outcomes
    BY <1>3 DEF ServeSlot
  <2> HIDE DEF u
  <2> QED BY <2>1, AssignEffect DEF u
<1> QED BY <1>1, <1>2, <1>3

-----------------------------------------------------------------------------
(* A pass over one team                                                    *)

ServedBots(team, broken) == {s \in TeamBots(team) : \A b \in broken \cap TeamBots(team) : s <= b}

\* after is the pass slot by slot, and u what it ends with.
Reconciles(after, team, st, outcome, broken, u) ==
    /\ after \in [0 .. MaxSlots -> PassState]
    /\ after[0] = [st EXCEPT !.taken = HumanColors(team)]
    /\ \A n \in 0 .. MaxSlots - 1 :
          after[n + 1] = ServeSlot(after[n], n, ServedBots(team, broken), outcome, broken)
    /\ u = after[MaxSlots]

LEMMA HumanColorsType ==
    ASSUME player \in [Slots -> Player], NEW team
    PROVE  HumanColors(team) \in SUBSET (Colors \cup {Unset})
  BY DEF HumanColors, Player, Slots

LEMMA ReconcileIs ==
    ASSUME player \in [Slots -> Player], inc \in [Slots -> Nat], NEW team, NEW st \in PassState,
           NEW outcome \in [BotSlots -> Outcomes], NEW broken
    PROVE  \E after : Reconciles(after, team, st, outcome, broken,
                                 ReconcileTeamColors(team, st, outcome, broken))
<1> DEFINE served == ServedBots(team, broken)
           a == [st EXCEPT !.taken = HumanColors(team)]
           step(x, n) == ServeSlot(x, n - 1, served, outcome, broken)
           F == [p \in PassState \X (1 .. MaxSlots) |-> step(p[1], p[2])]
           after[n \in 0 .. MaxSlots] == IF n = 0 THEN a ELSE step(after[n - 1], n)
<1>0. MaxSlots \in Nat
  BY Sizes
<1>1. served \in SUBSET BotSlots
  BY DEF ServedBots, TeamBots
<1>2. a \in PassState
  BY HumanColorsType DEF PassState
<1>3. ASSUME NEW x \in PassState, NEW n \in 1 .. MaxSlots
      PROVE  step(x, n) \in PassState
  <2> HIDE DEF served
  <2> QED BY <1>1, ServeSlotType
<1>4. ReconcileTeamColors(team, st, outcome, broken) = after[MaxSlots]
  BY DEF ReconcileTeamColors, ServedBots
<1> HIDE DEF a, served
<1>5. /\ after \in [0 .. MaxSlots -> PassState]
      /\ \A n \in 0 .. MaxSlots : after[n] = IF n = 0 THEN a ELSE step(after[n - 1], n)
  <2>1. F \in [PassState \X (1 .. MaxSlots) -> PassState]
    <3>1. ASSUME NEW p \in PassState \X (1 .. MaxSlots)
          PROVE  step(p[1], p[2]) \in PassState
      <4>1. p[1] \in PassState /\ p[2] \in 1 .. MaxSlots
        OBVIOUS
      <4> HIDE DEF step
      <4> QED BY <1>3, <4>1
    <3> HIDE DEF step
    <3> QED BY <3>1
  <2> HIDE DEF F, step
  <2>2. PICK g : GoesOn(g, MaxSlots, PassState, a, F)
    BY <1>0, <1>2, <2>1, IntervalRecursion
  <2>3. ASSUME NEW n \in 1 .. MaxSlots
        PROVE  F[<<g[n - 1], n>>] = step(g[n - 1], n)
    <3>1. n - 1 \in 0 .. MaxSlots
      BY <1>0
    <3>2. g[n - 1] \in PassState
      BY <2>2, <3>1 DEF GoesOn
    <3> QED BY <3>2 DEF F
  <2>4. \A n \in 0 .. MaxSlots : g[n] = IF n = 0 THEN a ELSE step(g[n - 1], n)
    <3> TAKE n \in 0 .. MaxSlots
    <3>1. n # 0 => n \in 1 .. MaxSlots
      BY <1>0
    <3> QED BY <2>2, <2>3, <3>1 DEF GoesOn
  <2>5. g = [n \in 0 .. MaxSlots |-> IF n = 0 THEN a ELSE step(g[n - 1], n)]
    <3>1. g = [n \in 0 .. MaxSlots |-> g[n]]
      BY <2>2 DEF GoesOn
    <3> QED BY <2>4, <3>1
  <2>6. after = [n \in 0 .. MaxSlots |-> IF n = 0 THEN a ELSE step(after[n - 1], n)]
    BY <2>5
  <2> HIDE DEF after
  <2>7. \A n \in 0 .. MaxSlots : after[n] = IF n = 0 THEN a ELSE step(after[n - 1], n)
    BY <2>6
  <2> DEFINE T == {n \in 0 .. MaxSlots : after[n] \in PassState}
  <2>8. 0 \in T
    BY <1>0, <1>2, <2>7
  <2>9. ASSUME NEW n \in 0 .. MaxSlots - 1, n \in T
        PROVE  n + 1 \in T
    <3>1. n + 1 \in 1 .. MaxSlots /\ n + 1 \in 0 .. MaxSlots /\ n + 1 # 0 /\ (n + 1) - 1 = n
      BY <1>0
    <3>2. after[n + 1] = step(after[n], n + 1)
      BY <2>7, <3>1
    <3>3. step(after[n], n + 1) \in PassState
      BY <1>3, <2>9, <3>1
    <3> QED BY <3>1, <3>2, <3>3
  <2>10. \A n \in 0 .. MaxSlots : n \in T
    <3> HIDE DEF T
    <3> QED BY <1>0, <2>8, <2>9, IntervalInduction
  <2>11. \A n \in 0 .. MaxSlots : after[n] \in PassState
    BY <2>10
  <2> QED BY <2>6, <2>7, <2>11
<1> HIDE DEF after
<1>6. after[0] = a
  BY <1>0, <1>5
<1>7. ASSUME NEW n \in 0 .. MaxSlots - 1
      PROVE  after[n + 1] = ServeSlot(after[n], n, served, outcome, broken)
  <2>1. n + 1 \in 0 .. MaxSlots /\ n + 1 # 0 /\ (n + 1) - 1 = n
    BY <1>0
  <2> QED BY <1>5, <2>1
<1>8. Reconciles(after, team, st, outcome, broken, after[MaxSlots])
  BY <1>5, <1>6, <1>7 DEF Reconciles, a, served
<1> QED BY <1>4, <1>8

-----------------------------------------------------------------------------
(* A pass in which nothing fails                                           *)

ColorsOf(st, bots) == UNION {{st.player[t].current, st.lease[t].color} : t \in bots}

Before(team, n) == {s \in TeamBots(team) : s < n}

(***************************************************************************)
(* How the pass leaves a bot of the team, of which it has served `bots`.   *)
(***************************************************************************)
BotServed(st, st0, s, team, bots) ==
    /\ st.lease[s].inc = inc[s] /\ st.lease[s].team = team
    /\ st.lease[s].gaveUp => st0.lease[s].inc = inc[s] /\ st0.lease[s].team = team
    /\ ~st.lease[s].gaveUp =>
          IF st.lease[s].color = Unset
          THEN Colors \subseteq HumanColors(team) \cup ColorsOf(st, bots \ {s})
          ELSE /\ st.lease[s].color \in st.taken \ HumanColors(team)
               /\ st.player[s].current = st.lease[s].color
               /\ \A t \in bots \ {s} :
                     ~st.lease[t].gaveUp => st.lease[t].color # st.lease[s].color

\* Only the bots of the team have changed, of those below n.
OnlyChanged(st, st0, bots) ==
    /\ \A s \in Slots : st.player[s].team = player[s].team
    /\ \A s \in Slots \ bots : st.player[s] = st0.player[s]
    /\ \A s \in BotSlots \ bots : st.lease[s] = st0.lease[s]

TeamServed(st, st0, n, team) ==
    /\ st \in PassState
    /\ OnlyChanged(st, st0, Before(team, n))
    /\ HumanColors(team) \subseteq st.taken
    /\ st.taken \subseteq HumanColors(team) \cup ColorsOf(st, Before(team, n))
    /\ \A s \in Before(team, n) : BotServed(st, st0, s, team, Before(team, n))

LEMMA ServeSlotServes ==
    ASSUME inc \in [Slots -> Nat], NEW team, NEW st0, NEW n \in 0 .. MaxSlots - 1,
           NEW st, TeamServed(st, st0, n, team),
           NEW u, u = ServeSlot(st, n, ServedBots(team, {}), NoFault, {})
    PROVE  TeamServed(u, st0, n + 1, team)
<1> DEFINE B == Before(team, n)
           C == Before(team, n + 1)
<1>0. /\ BotSlots \subseteq Slots /\ Slots \subseteq Nat /\ n \in Nat /\ Unset \notin Colors
      /\ TeamBots(team) \subseteq BotSlots
      /\ ServedBots(team, {}) = TeamBots(team)
  BY Sizes DEF TeamBots, ServedBots
<1>1. CASE n \notin TeamBots(team)
  <2>1. u = st
    BY <1>0, <1>1 DEF ServeSlot
  <2>2. B = C
    <3>1. \A s \in TeamBots(team) : s \in Nat /\ s # n
      BY <1>0, <1>1
    <3>2. \A s \in TeamBots(team) : s < n <=> s < n + 1
      BY <1>0, <3>1
    <3> QED BY <3>2 DEF Before
  <2> QED BY <2>1, <2>2 DEF TeamServed
<1>2. CASE n \in TeamBots(team)
  <2>1. /\ n \notin B /\ C = B \cup {n} /\ C \ {n} = B
        /\ B \subseteq BotSlots /\ n \in BotSlots /\ n \in Slots
    <3>1. \A s \in TeamBots(team) : s \in Nat
      BY <1>0
    <3>2. \A s \in TeamBots(team) : s < n + 1 <=> s < n \/ s = n
      BY <1>0, <3>1
    <3>3. C = B \cup {n}
      BY <1>2, <3>2 DEF Before
    <3>4. n \notin B /\ B \subseteq TeamBots(team)
      BY <1>0 DEF Before
    <3> HIDE DEF B, C
    <3> QED BY <1>0, <1>2, <3>3, <3>4
  <2>2. u = AssignColor(st, n, "ok")
    BY <1>0, <1>2, <2>1 DEF ServeSlot, NoFault
  <2>3. /\ st \in PassState
        /\ OnlyChanged(st, st0, B)
        /\ HumanColors(team) \subseteq st.taken
        /\ st.taken \subseteq HumanColors(team) \cup ColorsOf(st, B)
        /\ \A s \in B : BotServed(st, st0, s, team, B)
    BY DEF TeamServed
  <2>4. st.player[n].team = team /\ st.lease[n] = st0.lease[n]
    BY <1>2, <2>1, <2>3 DEF TeamBots, OnlyChanged
  <2>5. /\ u \in PassState
        /\ OthersLeft(st, u, n)
        /\ u.player[n].team = team
        /\ u.lease[n].inc = inc[n] /\ u.lease[n].team = team
        /\ u.lease[n].gaveUp => st0.lease[n].inc = inc[n] /\ st0.lease[n].team = team
        /\ st.taken \subseteq u.taken
        /\ u.taken \subseteq st.taken \cup {u.player[n].current, u.lease[n].color}
        /\ ~u.lease[n].gaveUp =>
              IF u.lease[n].color = Unset
              THEN Colors \subseteq st.taken
              ELSE /\ u.lease[n].color \in u.taken \ st.taken
                   /\ u.player[n].current = u.lease[n].color
    <3>1. "ok" \in Outcomes
      BY DEF Outcomes
    <3> QED BY <2>1, <2>2, <2>3, <2>4, <3>1, AssignEffect
  <2> HIDE DEF B, C
  <2>6. \A t \in B : u.player[t] = st.player[t] /\ u.lease[t] = st.lease[t]
    BY <1>0, <2>1, <2>5 DEF OthersLeft
  <2>7. /\ ColorsOf(u, B) = ColorsOf(st, B)
        /\ \A s : ColorsOf(st, B \ {s}) \subseteq ColorsOf(u, C \ {s})
        /\ ColorsOf(u, B) \cup {u.player[n].current, u.lease[n].color} \subseteq ColorsOf(u, C)
    <3>1. ColorsOf(u, B) = ColorsOf(st, B)
      BY <2>6 DEF ColorsOf
    <3>2. ASSUME NEW s
          PROVE  ColorsOf(st, B \ {s}) \subseteq ColorsOf(u, C \ {s})
      BY <2>1, <2>6 DEF ColorsOf
    <3>3. ColorsOf(u, B) \cup {u.player[n].current, u.lease[n].color} \subseteq ColorsOf(u, C)
      BY <2>1 DEF ColorsOf
    <3> QED BY <3>1, <3>2, <3>3
  <2>8. OnlyChanged(u, st0, C)
    <3>1. \A s \in Slots : s # n => u.player[s] = st.player[s]
      BY <2>5 DEF OthersLeft
    <3>2. \A s \in Slots : u.player[s].team = player[s].team
      BY <1>2, <2>3, <2>5, <3>1 DEF OnlyChanged, TeamBots
    <3> QED BY <2>1, <2>3, <2>5, <3>2 DEF OnlyChanged, OthersLeft
  <2>9. ASSUME NEW s \in B
        PROVE  BotServed(u, st0, s, team, C)
    <3>1. BotServed(st, st0, s, team, B)
      BY <2>3
    <3>2. u.lease[s] = st.lease[s] /\ u.player[s] = st.player[s]
      BY <2>6
    <3>3. CASE st.lease[s].gaveUp
      BY <3>1, <3>2, <3>3 DEF BotServed
    <3>4. CASE ~st.lease[s].gaveUp /\ st.lease[s].color = Unset
      <4>1. Colors \subseteq HumanColors(team) \cup ColorsOf(u, C \ {s})
        BY <2>7, <3>1, <3>4 DEF BotServed
      <4> QED BY <3>1, <3>2, <3>4, <4>1 DEF BotServed
    <3>5. CASE ~st.lease[s].gaveUp /\ st.lease[s].color # Unset
      <4>1. /\ st.lease[s].color \in st.taken \ HumanColors(team)
            /\ st.player[s].current = st.lease[s].color
            /\ \A t \in B \ {s} : ~st.lease[t].gaveUp => st.lease[t].color # st.lease[s].color
        BY <3>1, <3>5 DEF BotServed
      <4>2. ~u.lease[n].gaveUp => u.lease[n].color # st.lease[s].color
        BY <2>5, <3>5, <4>1
      <4>3. \A t \in C \ {s} : ~u.lease[t].gaveUp => u.lease[t].color # u.lease[s].color
        BY <2>1, <2>6, <3>2, <4>1, <4>2
      <4> QED BY <2>5, <3>1, <3>2, <3>5, <4>1, <4>3 DEF BotServed
    <3> QED BY <3>3, <3>4, <3>5
  <2>10. BotServed(u, st0, n, team, C)
    <3>1. CASE u.lease[n].gaveUp
      BY <2>5, <3>1 DEF BotServed
    <3>2. CASE ~u.lease[n].gaveUp /\ u.lease[n].color = Unset
      <4>1. Colors \subseteq HumanColors(team) \cup ColorsOf(u, C \ {n})
        BY <2>1, <2>3, <2>5, <2>7, <3>2
      <4> QED BY <2>5, <3>2, <4>1 DEF BotServed
    <3>3. CASE ~u.lease[n].gaveUp /\ u.lease[n].color # Unset
      <4>1. u.lease[n].color \in u.taken \ st.taken /\ u.player[n].current = u.lease[n].color
        BY <2>5, <3>3
      <4>2. ASSUME NEW t \in B, ~st.lease[t].gaveUp
            PROVE  st.lease[t].color # u.lease[n].color
        <5>1. st.lease[t].color = Unset \/ st.lease[t].color \in st.taken
          BY <2>3, <4>2 DEF BotServed
        <5> QED BY <3>3, <4>1, <5>1
      <4>3. \A t \in C \ {n} : ~u.lease[t].gaveUp => u.lease[t].color # u.lease[n].color
        BY <2>1, <2>6, <4>2
      <4> QED BY <2>3, <2>5, <3>3, <4>1, <4>3 DEF BotServed
    <3> QED BY <3>1, <3>2, <3>3
  <2>11. HumanColors(team) \subseteq u.taken /\ u.taken \subseteq HumanColors(team) \cup ColorsOf(u, C)
    BY <2>3, <2>5, <2>7
  <2>12. \A s \in C : BotServed(u, st0, s, team, C)
    BY <2>1, <2>9, <2>10
  <2> QED BY <2>5, <2>8, <2>11, <2>12 DEF TeamServed, C
<1> QED BY <1>1, <1>2

LEMMA BeforeIs ==
    ASSUME NEW team
    PROVE  Before(team, 0) = {} /\ Before(team, MaxSlots) = TeamBots(team)
<1>1. ASSUME NEW s \in TeamBots(team)
      PROVE  ~(s < 0) /\ s < MaxSlots
  <2>1. s \in 0 .. MaxSlots - 1 /\ MaxSlots \in Nat
    BY Sizes DEF TeamBots
  <2> QED BY <2>1
<1> QED BY <1>1 DEF Before

LEMMA NoFaultType == NoFault \in [BotSlots -> Outcomes]
  BY DEF NoFault, Outcomes

LEMMA TeamPassServes ==
    ASSUME player \in [Slots -> Player], inc \in [Slots -> Nat], NEW team, NEW st0 \in PassState,
           \A s \in Slots : st0.player[s].team = player[s].team,
           NEW u, u = ReconcileTeamColors(team, st0, NoFault, {})
    PROVE  TeamServed(u, st0, MaxSlots, team)
<1>1. PICK after : Reconciles(after, team, st0, NoFault, {}, u)
  BY ReconcileIs, NoFaultType
<1>2. /\ MaxSlots \in Nat
      /\ after[0] = [st0 EXCEPT !.taken = HumanColors(team)]
      /\ \A n \in 0 .. MaxSlots - 1 :
            after[n + 1] = ServeSlot(after[n], n, ServedBots(team, {}), NoFault, {})
      /\ u = after[MaxSlots]
      /\ after[0] \in PassState
  <2>1. MaxSlots \in Nat /\ 0 \in 0 .. MaxSlots
    BY Sizes
  <2> QED BY <1>1, <2>1 DEF Reconciles
<1> DEFINE T == {n \in 0 .. MaxSlots : TeamServed(after[n], st0, n, team)}
<1>3. 0 \in T
  <2>1. Before(team, 0) = {}
    BY BeforeIs
  <2>2. /\ after[0].player = st0.player /\ after[0].lease = st0.lease
        /\ after[0].taken = HumanColors(team)
    BY <1>2 DEF PassState
  <2>3. OnlyChanged(after[0], st0, {})
    BY <2>2 DEF OnlyChanged
  <2>4. TeamServed(after[0], st0, 0, team)
    BY <1>2, <2>1, <2>2, <2>3 DEF TeamServed
  <2> QED BY <1>2, <2>4
<1>4. ASSUME NEW n \in 0 .. MaxSlots - 1, n \in T
      PROVE  n + 1 \in T
  <2>1. n + 1 \in 0 .. MaxSlots
    BY <1>2
  <2>2. TeamServed(after[n + 1], st0, n + 1, team)
    BY <1>2, <1>4, ServeSlotServes
  <2> QED BY <2>1, <2>2
<1>5. MaxSlots \in T
  <2> HIDE DEF T
  <2>1. \A n \in 0 .. MaxSlots : n \in T
    BY <1>2, <1>3, <1>4, IntervalInduction
  <2> QED BY <1>2, <2>1
<1> QED BY <1>2, <1>5

\* How the pass leaves bot s.
BotDone(s, team) ==
    /\ lease'[s].inc = inc[s] /\ lease'[s].team = team
    /\ lease'[s].gaveUp => lease[s].inc = inc[s] /\ lease[s].team = team
    /\ ~lease'[s].gaveUp =>
          IF lease'[s].color = Unset
          THEN Colors \subseteq HumanColors(team)
                   \cup UNION {{player'[t].current, lease'[t].color} : t \in TeamBots(team) \ {s}}
          ELSE /\ lease'[s].color \notin HumanColors(team)
               /\ player'[s].current = lease'[s].color
               /\ \A t \in TeamBots(team) \ {s} :
                     ~lease'[t].gaveUp => lease'[t].color # lease'[s].color

LEMMA ServedIsDone ==
    ASSUME NEW st, NEW st0, NEW team, NEW s \in TeamBots(team),
           TeamServed(st, st0, MaxSlots, team),
           st0.lease[s] = lease[s],
           \A t \in TeamBots(team) : player'[t] = st.player[t] /\ lease'[t] = st.lease[t]
    PROVE  BotDone(s, team)
<1>1. Before(team, MaxSlots) = TeamBots(team)
  BY BeforeIs
<1>2. BotServed(st, st0, s, team, TeamBots(team))
  BY <1>1 DEF TeamServed
<1>3. ColorsOf(st, TeamBots(team) \ {s})
          = UNION {{player'[t].current, lease'[t].color} : t \in TeamBots(team) \ {s}}
  BY DEF ColorsOf
<1> QED BY <1>2, <1>3 DEF BotServed, BotDone

LEMMA WholePassServes ==
    ASSUME TypeOK, ReconcileTeammateColors(NoFault, {})
    PROVE  /\ \A s \in Slots : player'[s].team = player[s].team
           /\ \A h \in HumanSlots : player'[h] = player[h]
           /\ \A team \in {2, 3} : \A s \in TeamBots(team) : BotDone(s, team)
<1> DEFINE st == [player |-> player, lease |-> lease, taken |-> {}]
           a == ReconcileTeamColors(2, st, NoFault, {})
           b == ReconcileTeamColors(3, a, NoFault, {})
           B(team) == Before(team, MaxSlots)
<1>1. /\ player \in [Slots -> Player] /\ inc \in [Slots -> Nat] /\ lease \in [BotSlots -> Lease]
      /\ HumanSlots \subseteq Slots /\ BotSlots \subseteq Slots /\ BotSlots \cap HumanSlots = {}
  BY Sizes DEF TypeOK, Slots
<1>2. st \in PassState /\ st.player = player /\ st.lease = lease
  BY <1>1 DEF PassState
<1>3. player' = b.player /\ lease' = b.lease
  BY DEF ReconcileTeammateColors
<1> HIDE DEF st, a
<1>4. TeamServed(a, st, MaxSlots, 2)
  BY <1>1, <1>2, TeamPassServes DEF a
<1>5. a \in PassState /\ OnlyChanged(a, st, B(2))
  BY <1>4 DEF TeamServed
<1>6. TeamServed(b, a, MaxSlots, 3)
  BY <1>1, <1>5, TeamPassServes DEF OnlyChanged
<1> HIDE DEF b
<1>7. OnlyChanged(b, a, B(3))
  BY <1>6 DEF TeamServed
<1>8. B(2) = TeamBots(2) /\ B(3) = TeamBots(3)
  BY BeforeIs
<1> HIDE DEF B
<1>9. /\ TeamBots(2) \subseteq BotSlots /\ TeamBots(3) \subseteq BotSlots
      /\ TeamBots(2) \cap TeamBots(3) = {}
  BY DEF TeamBots
<1>10. \A s \in TeamBots(2) : player'[s] = a.player[s] /\ lease'[s] = a.lease[s]
  BY <1>1, <1>3, <1>7, <1>8, <1>9 DEF OnlyChanged
<1>11. \A s \in TeamBots(3) : a.lease[s] = lease[s]
  BY <1>2, <1>5, <1>8, <1>9 DEF OnlyChanged
<1>12. ASSUME NEW s \in TeamBots(2)
       PROVE  BotDone(s, 2)
  BY <1>2, <1>4, <1>10, ServedIsDone
<1>13. ASSUME NEW s \in TeamBots(3)
       PROVE  BotDone(s, 3)
  BY <1>3, <1>6, <1>11, ServedIsDone
<1>14. \A s \in Slots : player'[s].team = player[s].team
  BY <1>3, <1>7 DEF OnlyChanged
<1>15. \A h \in HumanSlots : player'[h] = player[h]
  BY <1>1, <1>2, <1>3, <1>5, <1>7, <1>8, <1>9 DEF OnlyChanged
<1> QED BY <1>12, <1>13, <1>14, <1>15

LEMMA PassTypes ==
    ASSUME TypeOK, NEW outcome \in [BotSlots -> Outcomes], NEW broken,
           ReconcileTeammateColors(outcome, broken)
    PROVE  player' \in [Slots -> Player] /\ lease' \in [BotSlots -> Lease]
<1> DEFINE st == [player |-> player, lease |-> lease, taken |-> {}]
<1>1. player \in [Slots -> Player] /\ inc \in [Slots -> Nat] /\ MaxSlots \in Nat
  BY Sizes DEF TypeOK
<1>2. st \in PassState
  BY DEF TypeOK, PassState
<1>3. ASSUME NEW team, NEW t \in PassState
      PROVE  ReconcileTeamColors(team, t, outcome, broken) \in PassState
  <2>1. PICK after : Reconciles(after, team, t, outcome, broken,
                                ReconcileTeamColors(team, t, outcome, broken))
    BY <1>1, ReconcileIs
  <2> QED BY <1>1, <2>1 DEF Reconciles
<1> DEFINE a == ReconcileTeamColors(2, st, outcome, broken)
           b == ReconcileTeamColors(3, a, outcome, broken)
           c == IF broken \cap TeamBots(2) = {} THEN b ELSE a
<1>4. player' = c.player /\ lease' = c.lease
  BY DEF ReconcileTeammateColors
<1> HIDE DEF st
<1>5. c \in PassState
  <2>1. a \in PassState
    BY <1>2, <1>3
  <2> HIDE DEF a
  <2> QED BY <1>3, <2>1
<1> HIDE DEF c
<1> QED BY <1>4, <1>5, StateParts

-----------------------------------------------------------------------------
(* The theorems                                                            *)

LEMMA PlayerType ==
    ASSUME NEW p \in Player, NEW team \in Teams \cup {Absent}, NEW c \in Colors \cup {Unset}
    PROVE  /\ [p EXCEPT !.team = team] \in Player
           /\ [p EXCEPT !.current = c] \in Player
           /\ [p EXCEPT !.preferred = c] \in Player
  BY DEF Player

LEMMA TypeStep == TypeOK /\ [Next]_vars => TypeOK'
<1> SUFFICES ASSUME TypeOK, [Next]_vars
             PROVE  TypeOK'
  OBVIOUS
<1>0. /\ player \in [Slots -> Player] /\ inc \in [Slots -> Nat] /\ lease \in [BotSlots -> Lease]
      /\ due \in 0 .. 3 /\ faults \in 0 .. MaxFaults
      /\ \A s \in Slots : Preferences[s] \subseteq Colors \cup {Unset}
      /\ MaxFaults \in Nat /\ Nobody \in Player /\ NoLease \in Lease
      /\ BotSlots \subseteq Slots
  BY ColorAssumption, Sizes
     DEF TypeOK, Slots, Colors, Unset, Nobody, NoLease, Player, Lease, Teams, Absent
<1>1. ASSUME NEW s \in Slots, Connect(s)
      PROVE  TypeOK'
  <2>1. PICK c \in Preferences[s] :
            player' = [player EXCEPT ![s].team = 1, ![s].preferred = c]
    BY <1>1 DEF Connect
  <2>2. [player[s] EXCEPT !.team = 1, !.preferred = c] \in Player
    BY <1>0, <2>1 DEF Player, Teams
  <2>3. player' = [player EXCEPT ![s] = [player[s] EXCEPT !.team = 1, !.preferred = c]]
    BY <2>1
  <2>4. player' \in [Slots -> Player]
    BY <1>0, <2>2, <2>3
  <2>5. inc' \in [Slots -> Nat]
    BY <1>0, <1>1 DEF Connect
  <2> QED BY <1>0, <1>1, <2>4, <2>5 DEF Connect, TypeOK
<1>2. ASSUME NEW s \in Slots, Disconnect(s)
      PROVE  TypeOK'
  <2>1. lease' \in [BotSlots -> Lease]
    BY <1>0, <1>2 DEF Disconnect, ClearColorLease
  <2> QED BY <1>0, <1>2, <2>1 DEF Disconnect, TypeOK
<1>3. ASSUME NEW s \in Slots, NEW team \in Teams, PlayerTeam(s, team)
      PROVE  TypeOK'
  <2>1. PICK c \in Preferences[s] :
            player' = [player EXCEPT ![s].team = team, ![s].current = c]
    BY <1>3 DEF PlayerTeam
  <2>2. [player[s] EXCEPT !.team = team, !.current = c] \in Player
    BY <1>0, <2>1 DEF Player
  <2>3. player' = [player EXCEPT ![s] = [player[s] EXCEPT !.team = team, !.current = c]]
    BY <2>1
  <2>4. player' \in [Slots -> Player]
    BY <1>0, <2>2, <2>3
  <2> QED BY <1>0, <1>3, <2>4 DEF PlayerTeam, ScheduleTeammateColorReconcile, TypeOK
<1>4. ASSUME NEW s \in Slots, GameWrites(s)
      PROVE  TypeOK'
  <2>1. PICK c \in Colors : player' = [player EXCEPT ![s].current = c]
    BY <1>4 DEF GameWrites
  <2>2. [player[s] EXCEPT !.current = c] \in Player
    BY <1>0, PlayerType
  <2>3. player' = [player EXCEPT ![s] = [player[s] EXCEPT !.current = c]]
    BY <2>1
  <2>4. player' \in [Slots -> Player]
    BY <1>0, <2>2, <2>3
  <2> QED BY <1>0, <1>4, <2>4 DEF GameWrites, TypeOK
<1>5. CASE RoundStart
  BY <1>0, <1>5 DEF RoundStart, ScheduleTeammateColorReconcile, TypeOK
<1>6. CASE Pass
  <2>1. player' \in [Slots -> Player] /\ lease' \in [BotSlots -> Lease]
    BY <1>6, PassTypes, NoFaultType DEF Pass
  <2>2. due' \in 0 .. 3
    BY <1>0, <1>6 DEF Pass
  <2> QED BY <1>0, <1>6, <2>1, <2>2 DEF Pass, TypeOK
<1>7. CASE FaultyPass
  <2>1. player' \in [Slots -> Player] /\ lease' \in [BotSlots -> Lease]
    <3>1. ASSUME NEW s \in BadReads, ReconcileTeammateColors(NoFault, {s})
          PROVE  player' \in [Slots -> Player] /\ lease' \in [BotSlots -> Lease]
      BY <3>1, PassTypes, NoFaultType
    <3>2. ASSUME NEW s \in BadWrites, NEW o \in {"none", "half", "unsent"},
                 ReconcileTeammateColors([NoFault EXCEPT ![s] = o], {})
          PROVE  player' \in [Slots -> Player] /\ lease' \in [BotSlots -> Lease]
      <4>1. [NoFault EXCEPT ![s] = o] \in [BotSlots -> Outcomes]
        BY NoFaultType DEF Outcomes
      <4> QED BY <3>2, <4>1, PassTypes
    <3> QED BY <1>7, <3>1, <3>2 DEF FaultyPass
  <2>2. due' \in 0 .. 3 /\ faults' \in 0 .. MaxFaults
    BY <1>0, <1>7 DEF FaultyPass
  <2> QED BY <1>0, <1>7, <2>1, <2>2 DEF FaultyPass, TypeOK
<1>8. CASE UNCHANGED vars
  BY <1>8 DEF vars, TypeOK
<1> QED BY <1>1, <1>2, <1>3, <1>4, <1>5, <1>6, <1>7, <1>8 DEF Next

(***************************************************************************)
(* No colour, team or number of forced writes out of its range, whatever   *)
(* fails in a pass (MaxForceWrites, IsFreeColor).                          *)
(***************************************************************************)
THEOREM ColorsTypeCorrect == Spec => []TypeOK
<1>1. Init => TypeOK
  BY ColorAssumption, Sizes
     DEF Init, TypeOK, Nobody, NoLease, Player, Lease, Teams, Absent
<1> QED BY <1>1, TypeStep, PTL DEF Spec

\* A step of a pass in which nothing failed is one of Pass.
LEMMA WholePassIsPass ==
    ASSUME TypeOK, [Next]_vars, WholePass
    PROVE  Pass
<1>0. due \in 0 .. 3 /\ due' \in 0 .. 3 /\ faults \in Nat
  BY ColorAssumption, TypeStep DEF TypeOK
<1>1. due' # due /\ due' # 3
  BY <1>0 DEF WholePass
<1>2. \A s \in Slots : ~Connect(s) /\ ~Disconnect(s) /\ ~GameWrites(s)
  BY <1>1 DEF Connect, Disconnect, GameWrites
<1>3. \A s \in Slots, team \in Teams : ~PlayerTeam(s, team)
  BY <1>1 DEF PlayerTeam, ScheduleTeammateColorReconcile
<1>4. ~RoundStart
  BY <1>1 DEF RoundStart, ScheduleTeammateColorReconcile
<1>5. ~FaultyPass
  BY <1>0 DEF FaultyPass, WholePass
<1>6. ~UNCHANGED vars
  BY <1>1 DEF vars
<1> QED BY <1>2, <1>3, <1>4, <1>5, <1>6 DEF Next

LEMMA SameColors ==
    ASSUME TypeOK, \A s \in Slots : player'[s].team = player[s].team,
           \A h \in HumanSlots : player'[h] = player[h]
    PROVE  \A team : HumanColors(team)' = HumanColors(team) /\ TeamBots(team)' = TeamBots(team)
<1>1. HumanSlots \subseteq Slots /\ BotSlots \subseteq Slots
  BY DEF Slots
<1>2. ASSUME NEW team
      PROVE  HumanColors(team)' = HumanColors(team)
  BY DEF HumanColors
<1>3. ASSUME NEW team
      PROVE  TeamBots(team)' = TeamBots(team)
  BY <1>1 DEF TeamBots
<1> QED BY <1>2, <1>3

(***************************************************************************)
(* A pass in which nothing failed separates the colours: each bot that has *)
(* not given up shows the colour it leased, which no human of its team has *)
(* or prefers and no other such bot leased (src/README.md: "assigns        *)
(* teammate colors so managed bots do not collide with humans").           *)
(***************************************************************************)
THEOREM PassesSeparate == Spec => PassSeparates
<1>1. ASSUME TypeOK, [Next]_vars, WholePass
      PROVE  Separate'
  <2>1. ReconcileTeammateColors(NoFault, {}) /\ inc' = inc
    BY <1>1, WholePassIsPass DEF Pass
  <2>2. /\ \A s \in Slots : player'[s].team = player[s].team
        /\ \A h \in HumanSlots : player'[h] = player[h]
        /\ \A team \in {2, 3} : \A s \in TeamBots(team) : BotDone(s, team)
    BY <1>1, <2>1, WholePassServes
  <2>3. \A team : HumanColors(team)' = HumanColors(team) /\ TeamBots(team)' = TeamBots(team)
    BY <1>1, <2>2, SameColors
  <2>4. BotSlots \subseteq Slots
    BY Sizes
  <2> SUFFICES ASSUME NEW s \in BotSlots, Leased(s)'
               PROVE  /\ player'[s].current = lease'[s].color
                      /\ \A h \in HumanSlots :
                            player'[h].team = player'[s].team =>
                                lease'[s].color \notin {player'[h].current, player'[h].preferred}
                      /\ \A t \in TeamBots(player[s].team) \ {s} :
                            Leased(t)' => lease'[t].color # lease'[s].color
    BY <2>2, <2>3, <2>4 DEF Separate
  <2> DEFINE team == player[s].team
  <2>5. /\ player'[s].team = team /\ team \in {2, 3} /\ s \in TeamBots(team)
        /\ lease'[s].color # Unset /\ ~lease'[s].gaveUp
    BY <2>2, <2>4 DEF Leased, TeamBots
  <2>6. BotDone(s, team)
    BY <2>2, <2>5
  <2> HIDE DEF team
  <2>7. /\ lease'[s].color \notin HumanColors(team)
        /\ player'[s].current = lease'[s].color
        /\ \A t \in TeamBots(team) \ {s} : ~lease'[t].gaveUp => lease'[t].color # lease'[s].color
    BY <2>5, <2>6 DEF BotDone
  <2>8. ASSUME NEW h \in HumanSlots, player'[h].team = player'[s].team
        PROVE  lease'[s].color \notin {player'[h].current, player'[h].preferred}
    <3>1. {player[h].current, player[h].preferred} \subseteq HumanColors(team)
      BY <2>2, <2>5, <2>8 DEF HumanColors
    <3> QED BY <2>2, <2>7, <3>1
  <2>9. \A t \in TeamBots(team) \ {s} : Leased(t)' => lease'[t].color # lease'[s].color
    BY <2>7 DEF Leased
  <2> QED BY <2>7, <2>8, <2>9 DEF team
<1>2. TypeOK /\ [Next]_vars => [~Separate' => ~WholePass]_vars
  BY <1>1
<1> QED BY <1>2, ColorsTypeCorrect, PTL DEF Spec, PassSeparates

(***************************************************************************)
(* Such a pass serves every bot of the two teams, and no bot inherits the  *)
(* lease or the spent budget of the slot's last bot, or of its last team.  *)
(***************************************************************************)
THEOREM PassesServe == Spec => PassServes
<1>1. ASSUME TypeOK, [Next]_vars, WholePass, NEW s \in BotSlots
      PROVE  /\ Served(s)'
             /\ ~(lease'[s].gaveUp /\ player[s].team \in {2, 3} /\ ~Renews(s))
  <2>1. ReconcileTeammateColors(NoFault, {}) /\ inc' = inc
    BY <1>1, WholePassIsPass DEF Pass
  <2>2. /\ \A t \in Slots : player'[t].team = player[t].team
        /\ \A h \in HumanSlots : player'[h] = player[h]
        /\ \A team \in {2, 3} : \A t \in TeamBots(team) : BotDone(t, team)
    BY <1>1, <2>1, WholePassServes
  <2>3. \A team : HumanColors(team)' = HumanColors(team) /\ TeamBots(team)' = TeamBots(team)
    BY <1>1, <2>2, SameColors
  <2> DEFINE team == player[s].team
  <2>4. player'[s].team = team
    BY <1>1, <2>2, Sizes
  <2>5. CASE team \notin {2, 3}
    BY <2>4, <2>5 DEF Served
  <2>6. CASE team \in {2, 3}
    <3>1. BotDone(s, team)
      BY <1>1, <2>2, <2>6 DEF TeamBots
    <3> DEFINE used == HumanColors(team)
                           \cup UNION {{player'[t].current, lease'[t].color} :
                                          t \in TeamBots(team) \ {s}}
    <3>2. ColorsUsed(s)' = used
      BY <2>3, <2>4 DEF ColorsUsed
    <3> HIDE DEF used, team
    <3>3. lease'[s].gaveUp \/ lease'[s].color # Unset \/ Colors \subseteq used
      BY <3>1 DEF BotDone, used
    <3>4. lease'[s].inc = inc'[s] /\ lease'[s].team = player'[s].team
      BY <2>1, <2>4, <3>1 DEF BotDone
    <3>5. Served(s)'
      BY <3>2, <3>3, <3>4 DEF Served, Renews
    <3>6. lease'[s].gaveUp => Renews(s)
      BY <3>1 DEF BotDone, Renews, team
    <3> QED BY <3>5, <3>6
  <2> QED BY <2>5, <2>6
<1> DEFINE Missed == \E s \in BotSlots :
                         \/ ~Served(s)'
                         \/ lease'[s].gaveUp /\ player[s].team \in {2, 3} /\ ~Renews(s)
<1>2. TypeOK /\ [Next]_vars => [Missed => ~WholePass]_vars
  BY <1>1
<1> QED BY <1>2, ColorsTypeCorrect, PTL DEF Spec, PassServes

=============================================================================
