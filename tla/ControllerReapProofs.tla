------------------------ MODULE ControllerReapProofs ------------------------
(***************************************************************************)
(* controller_reap.cpp leaves connected clients their rows, their user ids *)
(* and their controllers: for every number of slots, user ids and queued   *)
(* items.  The functions of controller_reap.cpp are applied one after      *)
(* another, so what they keep is stated of the value each one works on.    *)
(***************************************************************************)
EXTENDS ControllerReap, FiniteSetTheorems, TLAPS

ReapState ==
    [ count   : 0 .. NumSlots,
      row     : [Slots -> Row],
      ctrl    : [Slots -> Controller],
      pending : SUBSET PendingControllerRemoval ]

\* Rows above the count hold nothing.
RowsWithinCount(x) == \A s \in Slots : x.row[s].kind # "null" => s < x.count

\* Connected clients have user ids, each its own.
LiveIdsOwn(x) ==
    \A s \in Slots : IsLive(x.row[s]) =>
        /\ x.row[s].userId # LeftoverId
        /\ \A t \in Slots :
              IsLive(x.row[t]) /\ x.row[t].userId = x.row[s].userId => t = s

\* Nobody connected has the user id of the client its slot's item was queued for.
QueuedAreGone(x) ==
    \A p \in x.pending : IsLive(x.row[p.slot]) => x.row[p.slot].userId # p.userId

(***************************************************************************)
(* What the tests of controller_reap.cpp rely on.                          *)
(***************************************************************************)
Sound(x) ==
    /\ x \in ReapState
    /\ RowsWithinCount(x)
    /\ LiveIdsOwn(x)
    /\ QueuedAreGone(x)

\* The inductive invariant.
ReapInv == Sound(st) /\ suspended \in BOOLEAN /\ up \in BOOLEAN

(***************************************************************************)
(* From x to y no connected client loses its row or its controller, and    *)
(* nobody connects.                                                        *)
(***************************************************************************)
SparesClients(x, y) ==
    \A s \in Slots :
        /\ IsLive(x.row[s]) => /\ s < y.count
                               /\ y.row[s] = x.row[s]
                               /\ y.ctrl[s].state = x.ctrl[s].state
        /\ IsLive(y.row[s]) => IsLive(x.row[s])

\* Sparing clients is transitive: the functions are applied in a row.
LEMMA SparesTransitive ==
    ASSUME NEW x, NEW y, NEW z, SparesClients(x, y), SparesClients(y, z)
    PROVE  SparesClients(x, z)
<1>1. ASSUME NEW s \in Slots, IsLive(x.row[s])
      PROVE  s < z.count /\ z.row[s] = x.row[s] /\ z.ctrl[s].state = x.ctrl[s].state
  <2>1. y.row[s] = x.row[s] /\ y.ctrl[s].state = x.ctrl[s].state
    BY <1>1 DEF SparesClients
  <2>2. IsLive(y.row[s])
    BY <1>1, <2>1
  <2> QED BY <2>1, <2>2 DEF SparesClients
<1> QED BY <1>1 DEF SparesClients

-----------------------------------------------------------------------------
\* The first n rows are n rows.
LEMMA InitialSegment ==
    ASSUME NEW n \in Nat
    PROVE  IsFiniteSet(0 .. n - 1) /\ Cardinality(0 .. n - 1) = n
<1>1. IsFiniteSet(0 .. n - 1)
  BY FS_Interval
<1>2. Cardinality(0 .. n - 1) = IF 0 > n - 1 THEN 0 ELSE n - 1 - 0 + 1
  <2>1. n - 1 \in Int
    OBVIOUS
  <2> QED BY <2>1, FS_Interval
<1> QED BY <1>1, <1>2

\* The rows kept are an initial segment of m_Clients, and Keep is its length.
LEMMA KeepBounds ==
    ASSUME NEW x, x.count \in 0 .. NumSlots
    PROVE  /\ Keep(x) \in 0 .. x.count
           /\ \A s \in KeptRows(x) : s < Keep(x)
<1> USE ReapAssumption
<1>1. x.count \in Nat
  OBVIOUS
<1>2. /\ IsFiniteSet(0 .. x.count - 1)
      /\ Cardinality(0 .. x.count - 1) = x.count
  BY <1>1, InitialSegment
<1>3. KeptRows(x) \subseteq 0 .. x.count - 1
  BY DEF KeptRows
<1>4. IsFiniteSet(KeptRows(x)) /\ Keep(x) \in Nat /\ Keep(x) <= x.count
  BY <1>2, <1>3, FS_Subset, FS_CardinalityType DEF Keep
<1>5. ASSUME NEW s \in KeptRows(x)
      PROVE  s < Keep(x)
  <2>1. s \in Nat
    BY <1>1, <1>3
  <2>2. 0 .. s \subseteq KeptRows(x)
    BY <1>1, <1>5, <2>1 DEF KeptRows
  <2>3. Cardinality(0 .. s) = s + 1
    BY <2>1, FS_Interval
  <2>4. Cardinality(0 .. s) <= Keep(x)
    BY <1>4, <2>2, FS_Subset DEF Keep
  <2> QED BY <1>4, <2>1, <2>3, <2>4
<1> QED BY <1>1, <1>4, <1>5

\* Shrinking m_Clients keeps the state sound and spares connected clients.
LEMMA ShrinkSpares ==
    ASSUME NEW x, Sound(x)
    PROVE  /\ Sound(ShrinkTrailingLeftoverClients(x))
           /\ SparesClients(x, ShrinkTrailingLeftoverClients(x))
<1> DEFINE y == ShrinkTrailingLeftoverClients(x)
<1>1. x \in ReapState
  BY DEF Sound
<1>2. /\ Keep(x) \in 0 .. x.count
      /\ \A s \in KeptRows(x) : s < Keep(x)
  BY <1>1, KeepBounds DEF ReapState
<1>3. /\ y = [x EXCEPT !.count = Keep(x),
                       !.row = [s \in Slots |-> IF s < Keep(x) THEN x.row[s] ELSE NullRow]]
      /\ y.count = Keep(x)
      /\ y.row = [s \in Slots |-> IF s < Keep(x) THEN x.row[s] ELSE NullRow]
      /\ y.ctrl = x.ctrl
      /\ y.pending = x.pending
  BY <1>1 DEF ShrinkTrailingLeftoverClients, ReapState
<1>4. NullRow \in Row /\ ~IsLive(NullRow) /\ NullRow.kind = "null"
  BY DEF NullRow, Row, IsLive
<1>5. y \in ReapState
  <2>1. Keep(x) \in 0 .. NumSlots
    BY <1>1, <1>2, ReapAssumption DEF ReapState
  <2>2. y.row \in [Slots -> Row]
    BY <1>1, <1>3, <1>4 DEF ReapState
  <2> QED BY <1>1, <1>3, <2>1, <2>2 DEF ReapState
<1>6. ASSUME NEW s \in Slots, IsLive(x.row[s])
      PROVE  s < Keep(x)
  <2>1. s \in 0 .. x.count - 1 /\ x.count \in Nat
    BY <1>1, <1>6, ReapAssumption DEF Sound, RowsWithinCount, ReapState, Slots, IsLive
  <2>2. ~ClientLooksLeftoverOrEmpty(x, s)
    BY <1>6, <2>1 DEF ClientLooksLeftoverOrEmpty, Resolves, LooksLeftover, IsLive,
                      Sound, LiveIdsOwn
  <2>3. s \in KeptRows(x)
    BY <2>1, <2>2 DEF KeptRows
  <2> QED BY <1>2, <2>3
<1>7. SparesClients(x, y)
  BY <1>3, <1>4, <1>6 DEF SparesClients
<1>8. RowsWithinCount(y)
  BY <1>3, <1>4 DEF RowsWithinCount
<1>9. \A s \in Slots : IsLive(y.row[s]) => y.row[s] = x.row[s]
  BY <1>3, <1>4
<1>10. LiveIdsOwn(y)
  BY <1>9 DEF Sound, LiveIdsOwn
<1>11. QueuedAreGone(y)
  BY <1>1, <1>3, <1>9 DEF Sound, QueuedAreGone, ReapState, PendingControllerRemoval
<1> HIDE DEF y
<1>12. Sound(y)
  BY <1>5, <1>8, <1>10, <1>11 DEF Sound
<1> QED BY <1>7, <1>12 DEF y

\* Removing a controller leaves a controller.
LEMMA RemovedType ==
    ASSUME NEW c \in Controller
    PROVE  Removed(c) \in Controller
BY DEF Removed, Controller

\* A pass over the queue removes no controller that a connected client has.
LEMMA DrainQueueSpares ==
    ASSUME NEW x, Sound(x)
    PROVE  Sound(DrainQueue(x)) /\ SparesClients(x, DrainQueue(x))
<1> DEFINE waiting == {p \in x.pending : IsCurrent(x, p) /\ MustWait(x, p)}
           due == {p \in x.pending \ waiting : IsCurrent(x, p) /\ ~IsRebound(x, p)}
           left == {Waited(p) : p \in waiting}
           freed == [s \in Slots |-> IF \E p \in due : p.slot = s
                                     THEN Removed(x.ctrl[s]) ELSE x.ctrl[s]]
           y == DrainQueue(x)
<1>1. x \in ReapState
  BY DEF Sound
<1>2. y.count = x.count /\ y.row = x.row /\ y.ctrl = freed /\ y.pending = left
      /\ y = [x EXCEPT !.pending = left, !.ctrl = freed]
  BY <1>1 DEF DrainQueue, ReapState
<1>3. ASSUME NEW q \in left
      PROVE  /\ q \in PendingControllerRemoval
             /\ \E p \in x.pending : q.slot = p.slot /\ q.userId = p.userId
  <2>1. PICK p \in waiting : q = Waited(p)
    OBVIOUS
  <2>2. p \in x.pending /\ p \in PendingControllerRemoval
    BY <1>1 DEF ReapState
  <2> QED BY <2>1, <2>2 DEF Waited, PendingControllerRemoval
<1>4. ASSUME NEW p \in due
      PROVE  p.slot \in Slots /\ ~IsLive(x.row[p.slot])
  <2>1. p \in x.pending /\ ~IsRebound(x, p)
    OBVIOUS
  <2>2. p.slot \in Slots
    BY <1>1, <2>1 DEF ReapState, PendingControllerRemoval
  <2>3. SUFFICES ASSUME IsLive(x.row[p.slot]) PROVE FALSE
    BY <2>2
  <2>4. Resolves(x, p.slot)
    BY <2>2, <2>3 DEF Resolves, IsLive, Sound, RowsWithinCount
  <2>5. x.row[p.slot].userId # LeftoverId /\ x.row[p.slot].userId # p.userId
    BY <2>1, <2>2, <2>3 DEF Sound, LiveIdsOwn, QueuedAreGone
  <2> QED BY <2>1, <2>4, <2>5 DEF IsRebound
<1>5. freed \in [Slots -> Controller]
  BY <1>1, RemovedType DEF ReapState
<1> HIDE DEF waiting, due, left, y
<1>6. y \in ReapState
  BY <1>1, <1>2, <1>3, <1>5 DEF ReapState
<1>7. SparesClients(x, y)
  <2> SUFFICES ASSUME NEW s \in Slots, IsLive(x.row[s])
               PROVE  s < y.count /\ y.ctrl[s].state = x.ctrl[s].state
    BY <1>2 DEF SparesClients
  <2>1. s < x.count
    BY DEF Sound, RowsWithinCount, IsLive
  <2>2. ~\E p \in due : p.slot = s
    BY <1>4
  <2> QED BY <1>2, <2>1, <2>2
<1>8. RowsWithinCount(y) /\ LiveIdsOwn(y)
  BY <1>2 DEF Sound, RowsWithinCount, LiveIdsOwn
<1>9. QueuedAreGone(y)
  BY <1>2, <1>3 DEF Sound, QueuedAreGone
<1>10. Sound(y)
  BY <1>6, <1>8, <1>9 DEF Sound
<1> QED BY <1>7, <1>10 DEF y

\* Emptying the queue changes nothing that the invariant is about.
LEMMA ClearedSound ==
    ASSUME NEW x, Sound(x)
    PROVE  Sound([x EXCEPT !.pending = {}]) /\ SparesClients(x, [x EXCEPT !.pending = {}])
<1> DEFINE y == [x EXCEPT !.pending = {}]
<1>1. x \in ReapState
  BY DEF Sound
<1>2. y.count = x.count /\ y.row = x.row /\ y.ctrl = x.ctrl /\ y.pending = {}
  BY <1>1 DEF ReapState
<1>3. y \in ReapState
  BY <1>1 DEF ReapState
<1> HIDE DEF y
<1>4. Sound(y)
  BY <1>2, <1>3 DEF Sound, RowsWithinCount, LiveIdsOwn, QueuedAreGone
<1>5. SparesClients(x, y)
  BY <1>2 DEF SparesClients, Sound, RowsWithinCount, IsLive
<1> QED BY <1>4, <1>5 DEF y

\* DrainPendingControllerRemovals, whatever the server and UTIL_Remove.
LEMMA DrainSpares ==
    ASSUME NEW x, Sound(x)
    PROVE  /\ Sound(DrainPendingControllerRemovals(x))
           /\ SparesClients(x, DrainPendingControllerRemovals(x))
<1>1. CASE ~up
  BY <1>1, ClearedSound DEF DrainPendingControllerRemovals
<1>2. CASE up /\ ~CanRemove
  <2> DEFINE y == [x EXCEPT !.pending = {}]
  <2>1. Sound(y) /\ SparesClients(x, y)
    BY ClearedSound
  <2>2. DrainPendingControllerRemovals(x) = ShrinkTrailingLeftoverClients(y)
    BY <1>2 DEF DrainPendingControllerRemovals
  <2> HIDE DEF y
  <2> QED BY <2>1, <2>2, ShrinkSpares, SparesTransitive
<1>3. CASE up /\ CanRemove
  <2> DEFINE y == DrainQueue(x)
  <2>1. Sound(y) /\ SparesClients(x, y)
    BY DrainQueueSpares
  <2>2. DrainPendingControllerRemovals(x) = ShrinkTrailingLeftoverClients(y)
    BY <1>3 DEF DrainPendingControllerRemovals
  <2> HIDE DEF y
  <2> QED BY <2>1, <2>2, ShrinkSpares, SparesTransitive
<1> QED BY <1>1, <1>2, <1>3

\* The orphan pass removes no controller that a connected client has.
LEMMA OrphansSpare ==
    ASSUME NEW x, Sound(x)
    PROVE  Sound(ReapOrphanControllers(x)) /\ SparesClients(x, ReapOrphanControllers(x))
<1> DEFINE freed == [s \in Slots |-> IF s \in Orphans(x) THEN Removed(x.ctrl[s])
                                     ELSE x.ctrl[s]]
           y == [x EXCEPT !.ctrl = freed]
<1>1. x \in ReapState
  BY DEF Sound
<1>2. y.count = x.count /\ y.row = x.row /\ y.ctrl = freed /\ y.pending = x.pending
  BY <1>1 DEF ReapState
<1>3. y \in ReapState
  BY <1>1, RemovedType DEF ReapState
<1>4. ASSUME NEW s \in Slots, IsLive(x.row[s])
      PROVE  s \notin Orphans(x) /\ s < x.count
  BY <1>4 DEF Orphans, ClientLooksLeftoverOrEmpty, Resolves, LooksLeftover, IsLive,
              Sound, LiveIdsOwn, RowsWithinCount
<1>5. SparesClients(x, y)
  BY <1>2, <1>4 DEF SparesClients
<1>6. SparesClients(x, x)
  BY <1>4 DEF SparesClients
<1> HIDE DEF y
<1>7. Sound(y)
  BY <1>2, <1>3 DEF Sound, RowsWithinCount, LiveIdsOwn, QueuedAreGone
<1>8. ReapOrphanControllers(x) = IF up /\ CanRemove THEN y ELSE x
  BY DEF ReapOrphanControllers, y
<1> QED BY <1>5, <1>6, <1>7, <1>8

-----------------------------------------------------------------------------
\* The fields of the state and the variables are the same thing.
LEMMA SoundFields ==
    ReapInv <=> /\ TypeOK
                /\ RowsWithinCount(st)
                /\ LiveIdsOwn(st)
                /\ QueuedAreGone(st)
BY DEF ReapInv, Sound, TypeOK, ReapState, st

\* A hook that writes what the functions return leaves their result.
LEMMA BecomesState ==
    ASSUME NEW y, y \in ReapState, Becomes(y)
    PROVE  st' = y
BY DEF Becomes, st, ReapState

\* GameFramePost and PopulationPost: the passes over the queue.
LEMMA PassesSpare ==
    ASSUME ReapInv, GameFramePost \/ PopulationPost
    PROVE  ReapInv' /\ SparesClients(st, st')
<1>1. Sound(st)
  BY DEF ReapInv
<1> DEFINE a == DrainPendingControllerRemovals(st)
           b == DrainPendingControllerRemovals(a)
           c == ReapOrphanControllers(b)
<1>2. Sound(a) /\ SparesClients(st, a)
  BY <1>1, DrainSpares
<1>3. Sound(b) /\ SparesClients(st, b)
  <2> HIDE DEF a
  <2>1. Sound(b) /\ SparesClients(a, b)
    BY <1>2, DrainSpares
  <2> QED BY <1>2, <2>1, SparesTransitive
<1>4. Sound(c) /\ SparesClients(st, c)
  <2> HIDE DEF b
  <2>1. Sound(c) /\ SparesClients(b, c)
    BY <1>3, OrphansSpare
  <2> QED BY <1>3, <2>1, SparesTransitive
<1>5. CASE GameFramePost
  <2>1. Becomes(a) /\ suspended' = suspended /\ up' = up
    BY <1>5 DEF GameFramePost
  <2> HIDE DEF a
  <2>2. st' = a
    BY <1>2, <2>1, BecomesState DEF Sound
  <2> QED BY <1>2, <2>1, <2>2 DEF ReapInv
<1>6. CASE PopulationPost
  <2>1. Becomes(c) /\ suspended' = suspended /\ up' = up
    BY <1>6 DEF PopulationPost
  <2> HIDE DEF c
  <2>2. st' = c
    BY <1>4, <2>1, BecomesState DEF Sound
  <2> QED BY <1>4, <2>1, <2>2 DEF ReapInv
<1> QED BY <1>5, <1>6

\* ChangeTeam takes no controller away.
LEMMA SpectatorType ==
    ASSUME NEW c \in Controller
    PROVE  /\ MoveManagedBotToSpectator(c) \in Controller
           /\ MoveManagedBotToSpectator(c).state = c.state
BY DEF MoveManagedBotToSpectator, Controller

\* The Pre hooks of the kicks.
LEMMA KicksSpare ==
    ASSUME ReapInv, KickAllPre \/ \E s \in Slots : NamedKickPre(s)
    PROVE  ReapInv' /\ SparesClients(st, st')
<1>1. /\ TypeOK
      /\ RowsWithinCount(st)
      /\ LiveIdsOwn(st)
      /\ QueuedAreGone(st)
  BY SoundFields
<1>2. \A s \in Slots : IsLive(row[s]) => s < count
  BY <1>1 DEF RowsWithinCount, IsLive, st
<1>3. CASE KickAllPre
  <2>1. /\ ctrl' \in [Slots -> Controller]
        /\ \A s \in Slots : ctrl'[s].state = ctrl[s].state
    BY <1>1, <1>3, SpectatorType DEF KickAllPre, TypeOK
  <2>2. UNCHANGED <<count, row, pending, suspended, up>>
    BY <1>3 DEF KickAllPre
  <2>3. TypeOK'
    BY <1>1, <2>1, <2>2 DEF TypeOK
  <2>4. RowsWithinCount(st)' /\ LiveIdsOwn(st)' /\ QueuedAreGone(st)'
    BY <1>1, <2>2 DEF RowsWithinCount, LiveIdsOwn, QueuedAreGone, st
  <2>5. SparesClients(st, st')
    BY <1>2, <2>1, <2>2 DEF SparesClients, st
  <2> QED BY <2>3, <2>4, <2>5, SoundFields, PTL
<1>4. ASSUME NEW s \in Slots, NamedKickPre(s)
      PROVE  ReapInv' /\ SparesClients(st, st')
  <2>1. /\ ctrl' \in [Slots -> Controller]
        /\ \A t \in Slots : ctrl'[t].state = ctrl[t].state
    BY <1>1, <1>4, SpectatorType DEF NamedKickPre, TypeOK
  <2>2. UNCHANGED <<count, pending, suspended, up>>
    BY <1>4 DEF NamedKickPre
  <2>3. IsLive(row[s])
    BY <1>4 DEF NamedKickPre, IsLive
  <2>4. row' = [t \in Slots |-> IF t # s /\ Resolves(st, t) /\ Collides(row[t], row[s].userId)
                                THEN [row[t] EXCEPT !.userId = LeftoverId]
                                ELSE row[t]]
    BY <1>4 DEF NamedKickPre, NeutralizeCollidingLeftoverUserIds
  <2>5. row' \in [Slots -> Row]
    BY <1>1, <2>4 DEF TypeOK, Row
  <2>6. ASSUME NEW t \in Slots
        PROVE  /\ row'[t].kind = row[t].kind
               /\ IsLive(row[t]) => row'[t] = row[t]
    <3>1. row[t] \in Row
      BY <1>1 DEF TypeOK
    <3>2. row'[t].kind = row[t].kind
      BY <2>4, <3>1 DEF Row
    <3>3. ASSUME IsLive(row[t])
          PROVE  row'[t] = row[t]
      <4>1. row[t].userId = row[s].userId => t = s
        BY <1>1, <2>3, <3>3 DEF LiveIdsOwn, st
      <4> QED BY <2>4, <4>1 DEF Collides
    <3> QED BY <3>2, <3>3
  <2>7. TypeOK'
    BY <1>1, <2>1, <2>2, <2>5 DEF TypeOK
  <2>8. \A t \in Slots : IsLive(row'[t]) <=> IsLive(row[t])
    BY <2>6 DEF IsLive
  <2>9. RowsWithinCount(st)'
    BY <1>1, <2>2, <2>6 DEF RowsWithinCount, st
  <2>10. LiveIdsOwn(st)'
    BY <1>1, <2>6, <2>8 DEF LiveIdsOwn, st
  <2>11. QueuedAreGone(st)'
    BY <1>1, <2>2, <2>6, <2>8 DEF QueuedAreGone, st, TypeOK, PendingControllerRemoval
  <2>12. SparesClients(st, st')
    BY <1>2, <2>1, <2>2, <2>6, <2>8 DEF SparesClients, st
  <2> QED BY <2>7, <2>9, <2>10, <2>11, <2>12, SoundFields, PTL
<1> QED BY <1>3, <1>4

-----------------------------------------------------------------------------
\* Where nobody connects and nothing is queued, user ids stay settled.
LEMMA NoNewcomer ==
    ASSUME ReapInv, pending' = pending,
           \A s \in Slots : IsLive(row'[s]) => /\ IsLive(row[s])
                                             /\ row'[s].userId = row[s].userId
    PROVE  LiveIdsOwn(st)' /\ QueuedAreGone(st)'
<1>1. LiveIdsOwn(st) /\ QueuedAreGone(st) /\ TypeOK
  BY SoundFields
<1>2. LiveIdsOwn(st)'
  BY <1>1 DEF LiveIdsOwn, st
<1>3. QueuedAreGone(st)'
  BY <1>1 DEF QueuedAreGone, st, TypeOK, PendingControllerRemoval
<1> QED BY <1>2, <1>3

\* A client that connects has a user id of its own, which its slot's item has not.
LEMMA ConnectSound ==
    ASSUME ReapInv, NEW s \in Slots, NEW kind \in {"human", "hosted", "bot"},
           NEW userId \in UserIds, ClientConnects(s, kind, userId)
    PROVE  ReapInv'
<1>1. /\ TypeOK
      /\ RowsWithinCount(st)
      /\ LiveIdsOwn(st)
      /\ QueuedAreGone(st)
  BY SoundFields
<1> DEFINE r == [kind |-> kind, userId |-> userId, spawned |-> FALSE]
<1>2. r \in Row /\ r.userId = userId /\ r.kind = kind
  BY DEF Row
<1>3. /\ row' = [row EXCEPT ![s] = r]
      /\ s <= count
      /\ count' = IF s = count THEN s + 1 ELSE count
      /\ userId \notin LiveIds
      /\ userId \notin {p.userId : p \in {q \in pending : q.slot = s}}
      /\ UNCHANGED <<ctrl, pending, suspended, up>>
  BY DEF ClientConnects
<1> HIDE DEF r
<1>4. /\ row' \in [Slots -> Row]
      /\ row'[s] = r
      /\ \A t \in Slots \ {s} : row'[t] = row[t]
  BY <1>1, <1>2, <1>3 DEF TypeOK
<1>5. count' \in 0 .. NumSlots /\ s < count' /\ count <= count'
  BY <1>1, <1>3, ReapAssumption DEF TypeOK, Slots
<1>6. TypeOK'
  BY <1>1, <1>3, <1>4, <1>5 DEF TypeOK
<1>7. RowsWithinCount(st)'
  <2> SUFFICES ASSUME NEW t \in Slots, row'[t].kind # "null"
               PROVE  t < count'
    BY DEF RowsWithinCount, st
  <2>1. CASE t = s
    BY <1>5, <2>1
  <2>2. CASE t # s
    <3>1. t < count
      BY <1>1, <1>4, <2>2 DEF RowsWithinCount, st
    <3> QED BY <1>1, <1>5, <3>1, ReapAssumption DEF TypeOK, Slots
  <2> QED BY <2>1, <2>2
<1>8. \A t \in Slots \ {s} : IsLive(row[t]) => row[t].userId # userId
  BY <1>3 DEF LiveIds
<1>9. LiveIdsOwn(st)'
  <2> SUFFICES ASSUME NEW t \in Slots, IsLive(row'[t])
               PROVE  /\ row'[t].userId # LeftoverId
                      /\ \A u \in Slots : IsLive(row'[u]) /\ row'[u].userId = row'[t].userId
                                            => u = t
    BY DEF LiveIdsOwn, st
  <2>1. CASE t = s
    BY <1>2, <1>4, <1>8, <2>1, ReapAssumption
  <2>2. CASE t # s
    BY <1>1, <1>2, <1>4, <1>8, <2>2 DEF LiveIdsOwn, st
  <2> QED BY <2>1, <2>2
<1>10. QueuedAreGone(st)'
  <2> SUFFICES ASSUME NEW p \in pending, IsLive(row'[p.slot])
               PROVE  row'[p.slot].userId # p.userId
    BY <1>3 DEF QueuedAreGone, st
  <2>1. p.slot \in Slots
    BY <1>1 DEF TypeOK, PendingControllerRemoval
  <2>2. CASE p.slot = s
    BY <1>2, <1>3, <1>4, <2>2
  <2>3. CASE p.slot # s
    BY <1>1, <1>4, <2>1, <2>3 DEF QueuedAreGone, st
  <2> QED BY <2>2, <2>3
<1> QED BY <1>6, <1>7, <1>9, <1>10, SoundFields, PTL

\* What is left of a client is nobody connected.
LEMMA RemainsType ==
    ASSUME NEW r \in Row, IsLive(r), NEW left \in Remains(r)
    PROVE  left \in Row /\ ~IsLive(left)
<1>1. CASE left = NullRow
  BY <1>1 DEF Row, NullRow, IsLive
<1>2. CASE left \in [kind : {"ghost"}, userId : {r.userId, LeftoverId}, spawned : BOOLEAN]
  <2>1. r.userId \in UserIds \cup {LeftoverId}
    BY DEF Row
  <2>2. /\ left = [kind |-> left.kind, userId |-> left.userId, spawned |-> left.spawned]
        /\ left.kind = "ghost"
        /\ left.userId \in UserIds \cup {LeftoverId}
        /\ left.spawned \in BOOLEAN
    BY <1>2, <2>1
  <2> QED BY <2>2 DEF Row, IsLive
<1> QED BY <1>1, <1>2 DEF Remains

\* A client that leaves is queued under its own user id.
LEMMA DisconnectSound ==
    ASSUME ReapInv, NEW s \in Slots, NEW kicked \in BOOLEAN, ClientDisconnect(s, kicked)
    PROVE  ReapInv'
<1>1. /\ TypeOK
      /\ RowsWithinCount(st)
      /\ LiveIdsOwn(st)
      /\ QueuedAreGone(st)
  BY SoundFields
<1>2. IsLive(row[s]) /\ row[s] \in Row /\ ctrl[s] \in Controller
  BY <1>1 DEF ClientDisconnect, TypeOK
<1>3. PICK r \in Remains(row[s]) : row' = [row EXCEPT ![s] = r]
  BY DEF ClientDisconnect
<1>4. /\ row' \in [Slots -> Row]
      /\ ~IsLive(row'[s])
      /\ \A t \in Slots \ {s} : row'[t] = row[t]
  BY <1>1, <1>2, <1>3, RemainsType DEF TypeOK
<1>5. UNCHANGED <<count, suspended, up>>
  BY DEF ClientDisconnect
<1>6. ctrl' \in [Slots -> Controller]
  <2> DEFINE left == IF kicked /\ row[s].kind = "hosted"
                     THEN MoveManagedBotToSpectator(ctrl[s]) ELSE ctrl[s]
             gone == [left EXCEPT !.state = "deleting"]
  <2>1. left \in Controller
    BY <1>2, SpectatorType
  <2>2. ctrl' = [ctrl EXCEPT ![s] = left] \/ ctrl' = [ctrl EXCEPT ![s] = gone]
    BY DEF ClientDisconnect
  <2> HIDE DEF left
  <2>3. gone \in Controller
    BY <2>1 DEF Controller
  <2> HIDE DEF gone
  <2> QED BY <1>1, <2>1, <2>2, <2>3 DEF TypeOK
<1>7. /\ QueueControllerRemoval(s) \subseteq PendingControllerRemoval
      /\ \A p \in QueueControllerRemoval(s) : p.slot = s
  <2> DEFINE item == [slot |-> s, serial |-> ctrl[s].serial, userId |-> row[s].userId,
                      waited |-> FALSE]
  <2>1. ctrl[s].serial \in 0 .. MaxSerial /\ row[s].userId \in UserIds \cup {LeftoverId}
    BY <1>2 DEF Controller, Row
  <2>2. item \in PendingControllerRemoval /\ item.slot = s
    BY <2>1 DEF PendingControllerRemoval
  <2>3. QueueControllerRemoval(s) \subseteq {item}
    BY DEF QueueControllerRemoval
  <2> HIDE DEF item
  <2> QED BY <2>2, <2>3
<1>8. pending' \subseteq pending \cup QueueControllerRemoval(s)
  BY DEF ClientDisconnect
<1>9. TypeOK'
  <2>1. pending' \subseteq PendingControllerRemoval
    BY <1>1, <1>7, <1>8 DEF TypeOK
  <2> QED BY <1>1, <1>4, <1>5, <1>6, <2>1 DEF TypeOK
<1>10. RowsWithinCount(st)'
  BY <1>1, <1>2, <1>4, <1>5 DEF RowsWithinCount, st, IsLive
<1>11. LiveIdsOwn(st)'
  BY <1>1, <1>4 DEF LiveIdsOwn, st
<1>12. QueuedAreGone(st)'
  <2> SUFFICES ASSUME NEW p \in pending', IsLive(row'[p.slot])
               PROVE  row'[p.slot].userId # p.userId
    BY DEF QueuedAreGone, st
  <2>1. p.slot \in Slots
    BY <1>9 DEF TypeOK, PendingControllerRemoval
  <2>2. p.slot # s
    BY <1>4
  <2>3. p \in pending
    BY <1>7, <1>8, <2>2
  <2> QED BY <1>1, <1>4, <2>1, <2>2, <2>3 DEF QueuedAreGone, st
<1> QED BY <1>9, <1>10, <1>11, <1>12, SoundFields, PTL

\* A step that leaves the rows alone need only leave controllers behind.
LEMMA RowsAlone ==
    ASSUME ReapInv, ctrl' \in [Slots -> Controller],
           UNCHANGED <<count, row, pending>>, suspended' \in BOOLEAN, up' \in BOOLEAN
    PROVE  ReapInv'
<1>1. TypeOK /\ RowsWithinCount(st)
  BY SoundFields
<1>2. TypeOK'
  BY <1>1 DEF TypeOK
<1>3. RowsWithinCount(st)'
  BY <1>1 DEF RowsWithinCount, st
<1>4. LiveIdsOwn(st)' /\ QueuedAreGone(st)'
  BY NoNewcomer
<1> QED BY <1>2, <1>3, <1>4, SoundFields, PTL

\* The engine's steps on a slot.
LEMMA EngineStepSound ==
    ASSUME ReapInv, NEW s \in Slots, EngineStep(s)
    PROVE  ReapInv'
<1>1. TypeOK /\ RowsWithinCount(st)
  BY SoundFields
<1>2. ctrl[s] \in Controller /\ row[s] \in Row
  BY <1>1 DEF TypeOK
<1>3. ASSUME NEW kind \in {"human", "hosted", "bot"}, NEW userId \in UserIds,
             ClientConnects(s, kind, userId)
      PROVE  ReapInv'
  BY <1>3, ConnectSound
<1>4. CASE ClientSpawns(s)
  <2>1. row' = [row EXCEPT ![s].spawned = TRUE] /\ UNCHANGED <<count, ctrl, pending, suspended, up>>
    BY <1>4 DEF ClientSpawns
  <2>2. row' \in [Slots -> Row]
    BY <1>1, <1>2, <2>1 DEF TypeOK, Row
  <2>3. \A t \in Slots : row'[t].kind = row[t].kind /\ row'[t].userId = row[t].userId
    <3> SUFFICES ASSUME NEW t \in Slots
                 PROVE  row'[t].kind = row[t].kind /\ row'[t].userId = row[t].userId
      OBVIOUS
    <3>1. row[t] \in Row
      BY <1>1 DEF TypeOK
    <3> QED BY <1>1, <2>1, <3>1 DEF TypeOK, Row
  <2>4. TypeOK' /\ RowsWithinCount(st)'
    BY <1>1, <2>1, <2>2, <2>3 DEF TypeOK, RowsWithinCount, st
  <2>5. LiveIdsOwn(st)' /\ QueuedAreGone(st)'
    BY <2>1, <2>3, NoNewcomer DEF IsLive
  <2> QED BY <2>4, <2>5, SoundFields, PTL
<1>5. CASE ControllerSpawns(s)
  <2>1. PICK n \in 1 .. MaxSerial :
           ctrl' = [ctrl EXCEPT ![s] = [state |-> "alive", serial |-> n, onTeam |-> FALSE]]
    BY <1>5 DEF ControllerSpawns
  <2>2. n \in 0 .. MaxSerial
    BY ReapAssumption
  <2>3. [state |-> "alive", serial |-> n, onTeam |-> FALSE] \in Controller
    BY <2>2 DEF Controller
  <2>4. ctrl' \in [Slots -> Controller]
    BY <1>1, <2>1, <2>3 DEF TypeOK
  <2> QED BY <1>1, <1>5, <2>4, RowsAlone DEF ControllerSpawns, TypeOK
<1>6. CASE JoinsTeam(s)
  <2>1. ctrl' \in [Slots -> Controller]
    BY <1>1, <1>2, <1>6 DEF JoinsTeam, TypeOK, Controller
  <2> QED BY <1>1, <1>6, <2>1, RowsAlone DEF JoinsTeam, TypeOK
<1>7. CASE ControllerFreed(s)
  <2>1. NoController \in Controller
    BY ReapAssumption DEF NoController, Controller
  <2>2. ctrl' \in [Slots -> Controller]
    BY <1>1, <1>7, <2>1 DEF ControllerFreed, TypeOK
  <2> QED BY <1>1, <1>7, <2>2, RowsAlone DEF ControllerFreed, TypeOK
<1> QED BY <1>3, <1>4, <1>5, <1>6, <1>7 DEF EngineStep

\* A map change turns hosted bots into native ones, whose user ids they keep.
LEMMA MapChangesSound ==
    ASSUME ReapInv, MapChanges
    PROVE  ReapInv'
<1>1. TypeOK /\ RowsWithinCount(st)
  BY SoundFields
<1>2. /\ suspended' \in BOOLEAN
      /\ row' = [s \in Slots |-> IF suspended' /\ row[s].kind = "hosted"
                                 THEN [row[s] EXCEPT !.kind = "bot"] ELSE row[s]]
      /\ UNCHANGED <<count, pending, up>>
  BY DEF MapChanges
<1>3. NoController \in Controller
  BY ReapAssumption DEF NoController, Controller
<1>4. ctrl' \in [Slots -> Controller]
  BY <1>1, <1>3 DEF MapChanges, TypeOK
<1>5. ASSUME NEW s \in Slots
      PROVE  /\ row'[s] \in Row
             /\ row'[s].userId = row[s].userId
             /\ IsLive(row'[s]) => IsLive(row[s])
             /\ row'[s].kind # "null" => row[s].kind # "null"
  <2>1. row[s] \in Row
    BY <1>1 DEF TypeOK
  <2>2. CASE suspended' /\ row[s].kind = "hosted"
    <3>1. row'[s] = [row[s] EXCEPT !.kind = "bot"]
      BY <1>2, <2>2
    <3> QED BY <2>1, <2>2, <3>1 DEF Row, IsLive
  <2>3. CASE ~(suspended' /\ row[s].kind = "hosted")
    BY <1>2, <2>1, <2>3
  <2> QED BY <2>2, <2>3
<1>6. TypeOK'
  <2>1. row' \in [Slots -> Row]
    BY <1>2, <1>5
  <2> QED BY <1>1, <1>2, <1>4, <2>1 DEF TypeOK
<1>7. RowsWithinCount(st)'
  BY <1>1, <1>2, <1>5 DEF RowsWithinCount, st
<1>8. LiveIdsOwn(st)' /\ QueuedAreGone(st)'
  BY <1>2, <1>5, NoNewcomer
<1> QED BY <1>6, <1>7, <1>8, SoundFields, PTL

\* With the server every client goes.
LEMMA ServerGoneSound ==
    ASSUME ReapInv, ServerGone
    PROVE  ReapInv'
<1>1. TypeOK
  BY SoundFields
<1>2. /\ count' = 0
      /\ row' = [s \in Slots |-> NullRow]
      /\ ctrl' = [s \in Slots |-> NoController]
      /\ up' = FALSE
      /\ UNCHANGED <<pending, suspended>>
  BY DEF ServerGone
<1>3. /\ NoController \in Controller
      /\ NullRow \in Row
      /\ NullRow.kind = "null"
      /\ ~IsLive(NullRow)
  BY ReapAssumption DEF NoController, Controller, NullRow, Row, IsLive
<1>4. TypeOK'
  <2>1. count' \in 0 .. NumSlots
    BY <1>2, ReapAssumption
  <2>2. row' \in [Slots -> Row] /\ ctrl' \in [Slots -> Controller]
    BY <1>2, <1>3
  <2>3. pending' \subseteq PendingControllerRemoval /\ suspended' \in BOOLEAN /\ up' \in BOOLEAN
    BY <1>1, <1>2 DEF TypeOK
  <2> QED BY <2>1, <2>2, <2>3 DEF TypeOK
<1>5. RowsWithinCount(st)'
  BY <1>2, <1>3 DEF RowsWithinCount, st
<1>6. LiveIdsOwn(st)' /\ QueuedAreGone(st)'
  BY <1>2, <1>3, NoNewcomer
<1> QED BY <1>4, <1>5, <1>6, SoundFields, PTL

\* The invariant holds when the plugin has been loaded.
LEMMA ReapInit == Init => ReapInv
<1> SUFFICES ASSUME Init PROVE ReapInv
  OBVIOUS
<1>1. /\ NoController \in Controller
      /\ NullRow \in Row
      /\ NullRow.kind = "null"
      /\ ~IsLive(NullRow)
  BY ReapAssumption DEF NoController, Controller, NullRow, Row, IsLive
<1>2. TypeOK
  <2>1. count \in 0 .. NumSlots
    BY ReapAssumption DEF Init
  <2>2. row \in [Slots -> Row] /\ ctrl \in [Slots -> Controller]
    BY <1>1 DEF Init
  <2>3. pending \subseteq PendingControllerRemoval /\ suspended \in BOOLEAN /\ up \in BOOLEAN
    BY DEF Init
  <2> QED BY <2>1, <2>2, <2>3 DEF TypeOK
<1>3. RowsWithinCount(st) /\ LiveIdsOwn(st) /\ QueuedAreGone(st)
  BY <1>1 DEF Init, RowsWithinCount, LiveIdsOwn, QueuedAreGone, st
<1> QED BY <1>2, <1>3, SoundFields

\* Every step keeps the invariant.
LEMMA ReapNext == ReapInv /\ [Next]_vars => ReapInv'
<1> SUFFICES ASSUME ReapInv, [Next]_vars PROVE ReapInv'
  OBVIOUS
<1>1. TypeOK
  BY SoundFields
<1>2. ASSUME NEW s \in Slots, EngineStep(s) PROVE ReapInv'
  BY <1>2, EngineStepSound
<1>3. ASSUME NEW s \in Slots, NEW kicked \in BOOLEAN, ClientDisconnect(s, kicked)
      PROVE  ReapInv'
  BY <1>3, DisconnectSound
<1>4. CASE KickAllPre \/ \E s \in Slots : NamedKickPre(s)
  BY <1>4, KicksSpare
<1>5. CASE GameFramePost \/ PopulationPost
  BY <1>5, PassesSpare
<1>6. CASE MapChanges
  BY <1>6, MapChangesSound
<1>7. CASE ServerGone
  BY <1>7, ServerGoneSound
<1>8. CASE ServerBack
  BY <1>1, <1>8, RowsAlone DEF ServerBack, TypeOK
<1>9. CASE UNCHANGED vars
  BY <1>1, <1>9, RowsAlone DEF vars, TypeOK
<1> QED BY <1>2, <1>3, <1>4, <1>5, <1>6, <1>7, <1>8, <1>9 DEF Next

(***************************************************************************)
(* Rows stay within m_Clients, connected clients have user ids of their    *)
(* own, and nobody connected has the user id of what its slot has queued.  *)
(***************************************************************************)
THEOREM ReapSound == Spec => []ReapInv
BY ReapInit, ReapNext, PTL DEF Spec

\* The types of the rows, the controllers and the queue are right.
THEOREM ReapTypeCorrect == Spec => []TypeOK
<1>1. ReapInv => TypeOK
  BY SoundFields
<1> QED BY <1>1, ReapSound, PTL

\* A plugin's step spares connected clients.
LEMMA PluginSpares ==
    ASSUME ReapInv, PluginStep
    PROVE  SparesClients(st, st')
BY PassesSpare, KicksSpare DEF PluginStep

(***************************************************************************)
(* No hook takes the row of m_Clients, or the user id, of a client that is *)
(* connected.                                                              *)
(***************************************************************************)
THEOREM RowsAreKept == Spec => RowsOfClientsKept
<1>1. ASSUME ReapInv, ReapInv', NEW s \in Slots, IsLive(row[s]),
             s >= count' \/ row'[s] # row[s]
      PROVE  ~PluginStep
  <2>1. PluginStep => s < count' /\ row'[s] = row[s]
    BY <1>1, PluginSpares DEF SparesClients, st
  <2>2. s \in Int /\ count' \in Int
    <3>1. TypeOK'
      BY <1>1, SoundFields, PTL
    <3> QED BY <3>1, ReapAssumption DEF TypeOK, Slots
  <2> QED BY <1>1, <2>1, <2>2
<1>2. ReapInv /\ ReapInv' =>
         [ (\E s \in Slots : IsLive(row[s]) /\ (s >= count' \/ row'[s] # row[s]))
             => ~PluginStep ]_vars
  BY <1>1
<1> QED BY <1>2, ReapSound, PTL DEF RowsOfClientsKept

(***************************************************************************)
(* No hook removes the controller of a client that is connected.           *)
(***************************************************************************)
THEOREM ControllersAreKept == Spec => ControllersOfClientsKept
<1>1. ReapInv =>
         [ (\E s \in Slots : IsLive(row[s]) /\ ctrl'[s].state # ctrl[s].state)
             => ~PluginStep ]_vars
  BY PluginSpares DEF SparesClients, st
<1> QED BY <1>1, ReapSound, PTL DEF ControllersOfClientsKept

-----------------------------------------------------------------------------
(* Ghosts, orphans and the queue                                           *)

\* An empty row has no user id.
EmptyRows == \A s \in Slots : row[s].kind = "null" => row[s].userId = LeftoverId

\* A controller is queued once.
QueuedOnce == \A p, q \in pending : p.slot = q.slot /\ p.serial = q.serial => p = q

\* With ReapInv, the inductive invariant of what follows.
TidyInv == EmptyRows /\ QueuedOnce

\* What a pass over the queue does to rows and queue.
Emptied(x, y) == \A s \in Slots : y.row[s] = x.row[s] \/ y.row[s] = NullRow
Advances(x, y) == \A p \in y.pending : \E q \in x.pending : ~q.waited /\ p = Waited(q)

\* What waits after a pass waited for the first time in it.
LEMMA DrainEffect ==
    ASSUME NEW x, Sound(x)
    PROVE  LET y == DrainPendingControllerRemovals(x)
           IN  Emptied(x, y) /\ Advances(x, y)
<1> DEFINE cleared == [x EXCEPT !.pending = {}]
           drained == DrainQueue(x)
           y == DrainPendingControllerRemovals(x)
<1>1. x \in ReapState
  BY DEF Sound
<1>2. cleared.row = x.row /\ cleared.pending = {}
  BY <1>1 DEF ReapState
<1>3. /\ drained.row = x.row
      /\ \A p \in drained.pending : \E q \in x.pending : ~q.waited /\ p = Waited(q)
  <2> DEFINE waiting == {p \in x.pending : IsCurrent(x, p) /\ MustWait(x, p)}
  <2>1. drained.row = x.row /\ drained.pending = {Waited(p) : p \in waiting}
    BY <1>1 DEF DrainQueue, ReapState
  <2>2. \A p \in waiting : p \in x.pending /\ ~p.waited
    BY DEF MustWait
  <2> HIDE DEF waiting, drained
  <2> QED BY <2>1, <2>2
<1>4. ASSUME NEW z, z \in ReapState
      PROVE  LET w == ShrinkTrailingLeftoverClients(z)
             IN  w.pending = z.pending /\ \A s \in Slots : w.row[s] = z.row[s] \/ w.row[s] = NullRow
  BY <1>4 DEF ShrinkTrailingLeftoverClients, ReapState
<1>5. cleared \in ReapState /\ drained \in ReapState
  BY ClearedSound, DrainQueueSpares DEF Sound
<1>6. \/ y = cleared
      \/ y = ShrinkTrailingLeftoverClients(cleared)
      \/ y = ShrinkTrailingLeftoverClients(drained)
  BY DEF DrainPendingControllerRemovals
<1> HIDE DEF cleared, drained, y
<1>7. Emptied(x, y)
  BY <1>2, <1>3, <1>4, <1>5, <1>6 DEF Emptied
<1>8. Advances(x, y)
  BY <1>2, <1>3, <1>4, <1>5, <1>6 DEF Advances
<1> QED BY <1>7, <1>8 DEF y

\* The item Waited leaves.
LEMMA WaitedItem ==
    ASSUME NEW q \in PendingControllerRemoval
    PROVE  Waited(q).slot = q.slot /\ Waited(q).serial = q.serial /\ Waited(q).waited
BY DEF Waited, PendingControllerRemoval

(***************************************************************************)
(* A frame's pass; the two passes of a population command leave nothing in *)
(* the queue.                                                              *)
(***************************************************************************)
LEMMA PassesTidy ==
    ASSUME ReapInv, TidyInv, GameFramePost \/ PopulationPost
    PROVE  /\ TidyInv'
           /\ GameFramePost => Advances(st, st')
<1> DEFINE a == DrainPendingControllerRemovals(st)
           b == DrainPendingControllerRemovals(a)
           c == ReapOrphanControllers(b)
<1>1. Sound(st) /\ st.pending = pending /\ pending \subseteq PendingControllerRemoval
  BY DEF ReapInv, Sound, ReapState, st
<1>2. Sound(a) /\ Emptied(st, a) /\ Advances(st, a)
  BY <1>1, DrainSpares, DrainEffect
<1>3. Sound(b) /\ Emptied(a, b) /\ Advances(a, b)
  <2> HIDE DEF a
  <2> QED BY <1>2, DrainSpares, DrainEffect
<1>4. Sound(c) /\ c.row = b.row /\ c.pending = b.pending
  <2> HIDE DEF b
  <2>1. b \in ReapState
    BY <1>3 DEF Sound
  <2> QED BY <1>3, <2>1, OrphansSpare DEF ReapOrphanControllers, ReapState
<1>5. \A s \in Slots : st.row[s] = row[s]
  BY DEF st
<1>6. ASSUME NEW y, Becomes(y), \A s \in Slots : y.row[s] = row[s] \/ y.row[s] = NullRow
      PROVE  EmptyRows'
  BY <1>6 DEF TidyInv, EmptyRows, Becomes, NullRow
<1>7. CASE GameFramePost
  <2>1. Becomes(a)
    BY <1>7 DEF GameFramePost
  <2> HIDE DEF a
  <2>2. st' = a
    BY <1>2, <2>1, BecomesState DEF Sound
  <2>3. EmptyRows'
    BY <1>2, <1>5, <1>6, <2>1 DEF Emptied
  <2>4. \A p \in pending' : \E q \in pending : ~q.waited /\ p = Waited(q)
    BY <1>1, <1>2, <2>1 DEF Advances, Becomes
  <2>5. QueuedOnce'
    BY <1>1, <2>4, WaitedItem DEF TidyInv, QueuedOnce
  <2> QED BY <1>2, <2>2, <2>3, <2>5 DEF TidyInv
<1>8. CASE PopulationPost
  <2>1. Becomes(c)
    BY <1>8 DEF PopulationPost
  <2>2. b.pending = {}
    <3> HIDE DEF a, b
    <3>1. \A p \in a.pending : p.waited
      BY <1>1, <1>2, WaitedItem DEF Advances
    <3> QED BY <1>3, <3>1 DEF Advances
  <2> HIDE DEF a, b, c
  <2>3. EmptyRows'
    BY <1>2, <1>3, <1>4, <1>5, <1>6, <2>1 DEF Emptied
  <2>4. pending' = {}
    BY <1>4, <2>1, <2>2 DEF Becomes
  <2>5. QueuedOnce'
    BY <2>4 DEF QueuedOnce
  <2>6. GameFramePost => Advances(st, st')
    BY <1>7
  <2> QED BY <2>3, <2>5, <2>6 DEF TidyInv
<1> QED BY <1>7, <1>8

\* The kicks' Pre hooks.
LEMMA KicksTidy ==
    ASSUME ReapInv, TidyInv, KickAllPre \/ \E s \in Slots : NamedKickPre(s)
    PROVE  TidyInv'
<1>1. pending' = pending /\ row \in [Slots -> Row]
  BY SoundFields DEF KickAllPre, NamedKickPre, TypeOK
<1>2. \A s \in Slots : row'[s] = row[s] \/ row'[s] = [row[s] EXCEPT !.userId = LeftoverId]
  BY DEF KickAllPre, NamedKickPre, NeutralizeCollidingLeftoverUserIds
<1>3. \A r \in Row : [r EXCEPT !.userId = LeftoverId].userId = LeftoverId
  BY DEF Row
<1>4. EmptyRows'
  BY <1>1, <1>2, <1>3 DEF TidyInv, EmptyRows
<1>5. QueuedOnce'
  BY <1>1 DEF TidyInv, QueuedOnce
<1> QED BY <1>4, <1>5 DEF TidyInv

\* A client that leaves is queued only if its controller was not.
LEMMA DisconnectTidy ==
    ASSUME ReapInv, TidyInv, NEW s \in Slots, NEW kicked \in BOOLEAN, ClientDisconnect(s, kicked)
    PROVE  TidyInv'
<1>1. row \in [Slots -> Row]
  BY SoundFields DEF TypeOK
<1>2. PICK r \in Remains(row[s]) : row' = [row EXCEPT ![s] = r]
  BY DEF ClientDisconnect
<1>3. r.kind = "null" => r.userId = LeftoverId
  BY DEF Remains, NullRow
<1>4. EmptyRows'
  BY <1>1, <1>2, <1>3 DEF TidyInv, EmptyRows
<1>5. pending' \in {pending, pending \cup QueueControllerRemoval(s)}
  BY DEF ClientDisconnect
<1>6. ASSUME NEW p \in QueueControllerRemoval(s)
      PROVE  /\ p = [slot |-> s, serial |-> ctrl[s].serial, userId |-> row[s].userId,
                     waited |-> FALSE]
             /\ \A q \in pending : ~(q.slot = s /\ q.serial = ctrl[s].serial)
  BY <1>6 DEF QueueControllerRemoval, IsQueued
<1>7. \A p \in QueueControllerRemoval(s) :
         /\ p.slot = s /\ p.serial = ctrl[s].serial
         /\ \A q \in QueueControllerRemoval(s) : q = p
  <2> DEFINE item == [slot |-> s, serial |-> ctrl[s].serial, userId |-> row[s].userId,
                      waited |-> FALSE]
  <2>1. item.slot = s /\ item.serial = ctrl[s].serial
    OBVIOUS
  <2>2. \A p \in QueueControllerRemoval(s) : p = item
    BY <1>6
  <2> HIDE DEF item
  <2> QED BY <2>1, <2>2
<1>8. QueuedOnce'
  <2>1. CASE pending' = pending
    BY <2>1 DEF TidyInv, QueuedOnce
  <2>2. CASE pending' = pending \cup QueueControllerRemoval(s)
    BY <1>6, <1>7, <2>2 DEF TidyInv, QueuedOnce
  <2> QED BY <1>5, <2>1, <2>2
<1> QED BY <1>4, <1>8 DEF TidyInv

\* The engine leaves the queue alone, and connects clients of some kind.
LEMMA EngineTidy ==
    ASSUME ReapInv, TidyInv,
           \/ \E s \in Slots : EngineStep(s)
           \/ MapChanges
           \/ ServerGone
           \/ ServerBack
           \/ UNCHANGED vars
    PROVE  TidyInv'
<1>1. row \in [Slots -> Row] /\ pending' = pending
  BY SoundFields DEF TypeOK, EngineStep, ClientConnects, ClientSpawns, ControllerSpawns,
     JoinsTeam, ControllerFreed, MapChanges, ServerGone, ServerBack, vars
<1>2. QueuedOnce'
  BY <1>1 DEF TidyInv, QueuedOnce
<1>3. ASSUME \A s \in Slots :
                \/ row'[s].kind = row[s].kind /\ row'[s].userId = row[s].userId
                \/ row'[s].kind # "null"
                \/ row'[s].userId = LeftoverId
      PROVE  EmptyRows'
  BY <1>3 DEF TidyInv, EmptyRows
<1>4. ASSUME NEW s \in Slots, EngineStep(s)
      PROVE  EmptyRows'
  <2>1. ASSUME NEW kind \in {"human", "hosted", "bot"}, NEW userId, ClientConnects(s, kind, userId)
        PROVE  EmptyRows'
    BY <1>1, <1>3, <2>1 DEF ClientConnects
  <2>2. CASE ClientSpawns(s)
    <3>1. /\ row'[s].kind = row[s].kind /\ row'[s].userId = row[s].userId
          /\ \A t \in Slots \ {s} : row'[t] = row[t]
      BY <1>1, <2>2 DEF ClientSpawns, Row
    <3> QED BY <1>3, <3>1
  <2>3. CASE ControllerSpawns(s) \/ JoinsTeam(s) \/ ControllerFreed(s)
    BY <1>3, <2>3 DEF ControllerSpawns, JoinsTeam, ControllerFreed
  <2> QED BY <1>4, <2>1, <2>2, <2>3 DEF EngineStep
<1>5. ASSUME MapChanges
      PROVE  EmptyRows'
  <2>1. \A r \in Row : [r EXCEPT !.kind = "bot"].kind = "bot"
    BY DEF Row
  <2>2. \A s \in Slots : row'[s] = row[s] \/ row'[s] = [row[s] EXCEPT !.kind = "bot"]
    BY <1>5 DEF MapChanges
  <2> QED BY <1>1, <1>3, <2>1, <2>2
<1>6. ASSUME ServerGone
      PROVE  EmptyRows'
  BY <1>3, <1>6 DEF ServerGone, NullRow
<1>7. ASSUME ServerBack \/ UNCHANGED vars
      PROVE  EmptyRows'
  BY <1>3, <1>7 DEF ServerBack, vars
<1> QED BY <1>2, <1>4, <1>5, <1>6, <1>7 DEF TidyInv

(***************************************************************************)
(* Empty rows have no user id, and no controller is queued twice, however  *)
(* often its bot is kicked (QueueControllerRemovalForClient).              *)
(***************************************************************************)
THEOREM ReapTidy == Spec => []TidyInv
<1>1. Init => TidyInv
  BY DEF Init, NullRow, TidyInv, EmptyRows, QueuedOnce
<1>2. ReapInv /\ TidyInv /\ [Next]_vars => TidyInv'
  <2> SUFFICES ASSUME ReapInv, TidyInv, [Next]_vars
               PROVE  TidyInv'
    OBVIOUS
  <2>1. ASSUME NEW s \in Slots, NEW kicked \in BOOLEAN, ClientDisconnect(s, kicked)
        PROVE  TidyInv'
    BY <2>1, DisconnectTidy
  <2> QED BY <2>1, PassesTidy, KicksTidy, EngineTidy DEF Next
<1> QED BY <1>1, <1>2, ReapSound, PTL DEF Spec

(***************************************************************************)
(* Nothing waits in the queue for a second pass.                           *)
(***************************************************************************)
THEOREM WaitsOnce == Spec => WaitsForOnePass
<1>1. ReapInv /\ TidyInv => [ pending \cap pending' # {} => ~GameFramePost ]_vars
  <2> SUFFICES ASSUME ReapInv, TidyInv, GameFramePost, NEW p \in pending \cap pending'
               PROVE  FALSE
    OBVIOUS
  <2>1. st.pending = pending /\ st'.pending = pending' /\ pending \subseteq PendingControllerRemoval
    BY SoundFields DEF st, TypeOK
  <2>2. PICK q \in pending : ~q.waited /\ p = Waited(q)
    BY <2>1, PassesTidy DEF Advances
  <2>3. p.slot = q.slot /\ p.serial = q.serial /\ p.waited
    BY <2>1, <2>2, WaitedItem
  <2> QED BY <2>2, <2>3 DEF TidyInv, QueuedOnce
<1> QED BY <1>1, ReapSound, ReapTidy, PTL DEF WaitsForOnePass

(***************************************************************************)
(* kickid hits the bot that was named, whatever ghosts there are.          *)
(***************************************************************************)
THEOREM KickidHits == Spec => KickidHitsTarget
<1>1. ASSUME ReapInv, TidyInv, NEW s \in Slots, NEW t \in Slots \ {s}, NamedKickPre(s)
      PROVE  row'[t].userId # row[s].userId
  <2>1. /\ TypeOK /\ RowsWithinCount(st) /\ LiveIdsOwn(st)
    BY <1>1, SoundFields
  <2>2. IsLive(row[s]) /\ row[s].userId # LeftoverId
    BY <1>1, <2>1 DEF NamedKickPre, IsLive, LiveIdsOwn, st
  <2>3. row[t] \in Row
    BY <2>1 DEF TypeOK
  <2>4. row'[t] = IF Resolves(st, t) /\ Collides(row[t], row[s].userId)
                  THEN [row[t] EXCEPT !.userId = LeftoverId]
                  ELSE row[t]
    BY <1>1 DEF NamedKickPre, NeutralizeCollidingLeftoverUserIds
  <2>5. CASE Resolves(st, t) /\ Collides(row[t], row[s].userId)
    <3>1. row'[t].userId = LeftoverId
      BY <2>3, <2>4, <2>5 DEF Row
    <3> QED BY <2>2, <3>1
  <2>6. CASE row[t].kind = "null"
    <3>1. row'[t].userId = LeftoverId
      BY <1>1, <2>4, <2>6 DEF Collides, TidyInv, EmptyRows
    <3> QED BY <1>1, <2>2, <3>1
  <2>7. CASE IsLive(row[t])
    <3>1. row[t].userId # row[s].userId
      BY <1>1, <2>1, <2>2, <2>7 DEF LiveIdsOwn, st
    <3>2. row'[t].userId \in {row[t].userId, LeftoverId}
      BY <2>3, <2>4 DEF Row
    <3> QED BY <2>2, <3>1, <3>2
  <2>8. CASE row[t].kind = "ghost"
    <3>1. Resolves(st, t)
      BY <2>1, <2>8 DEF RowsWithinCount, Resolves, st
    <3>2. CASE row[t].userId = row[s].userId
      BY <2>5, <2>8, <3>1, <3>2 DEF Collides
    <3>3. CASE row[t].userId # row[s].userId
      BY <2>2, <2>3, <2>4, <3>3 DEF Row
    <3> QED BY <3>2, <3>3
  <2> QED BY <2>3, <2>6, <2>7, <2>8 DEF Row, IsLive
<1>2. ReapInv /\ TidyInv =>
         [ \A s \in Slots :
             NamedKickPre(s) => \A t \in Slots \ {s} : row'[t].userId # row[s].userId ]_vars
  BY <1>1
<1> QED BY <1>2, ReapSound, ReapTidy, PTL DEF KickidHitsTarget

(***************************************************************************)
(* Where UTIL_Remove was resolved, no controller of a leftover is on a     *)
(* playing team after a kick or a bot_add.                                 *)
(***************************************************************************)
THEOREM OrphansHaveLeft ==
    ASSUME CanRemove
    PROVE  Spec => OrphansLeaveTeams
<1>1. ASSUME ReapInv, up, PopulationPost, NEW s \in Slots, LooksLeftover(row'[s])
      PROVE  ~ctrl'[s].onTeam
  <2> DEFINE a == DrainPendingControllerRemovals(st)
             b == DrainPendingControllerRemovals(a)
             c == ReapOrphanControllers(b)
  <2>1. Sound(b)
    <3>1. Sound(a)
      BY <1>1, DrainSpares DEF ReapInv
    <3> HIDE DEF a
    <3> QED BY <3>1, DrainSpares
  <2>2. row' = c.row /\ ctrl' = c.ctrl
    BY <1>1 DEF PopulationPost, Becomes
  <2> HIDE DEF a, b
  <2>3. b \in ReapState /\ b.ctrl[s] \in Controller
    BY <2>1 DEF Sound, ReapState
  <2>4. /\ c.row = b.row
        /\ c.ctrl[s] = IF s \in Orphans(b) THEN Removed(b.ctrl[s]) ELSE b.ctrl[s]
    BY <1>1, <2>3 DEF ReapOrphanControllers, ReapState
  <2> HIDE DEF c
  <2>5. ClientLooksLeftoverOrEmpty(b, s)
    BY <1>1, <2>2, <2>4 DEF ClientLooksLeftoverOrEmpty
  <2>6. CASE s \in Orphans(b)
    BY <2>2, <2>3, <2>4, <2>6 DEF Removed, Controller
  <2>7. CASE s \notin Orphans(b)
    BY <2>2, <2>4, <2>5, <2>7 DEF Orphans
  <2> QED BY <2>6, <2>7
<1>2. ReapInv =>
         [ (\E s \in Slots : LooksLeftover(row'[s]) /\ ctrl'[s].onTeam)
             => ~(up /\ PopulationPost) ]_vars
  BY <1>1
<1> QED BY <1>2, ReapSound, PTL DEF OrphansLeaveTeams

=============================================================================
