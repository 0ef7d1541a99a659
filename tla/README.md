# CS2-Bot-Identity in TLA+

TLA+ modules, TLC runs and TLAPS proofs for the native plugin under
`src/src/`, which makes the bots of a Counter-Strike 2 server look like
players: it gives every bot an identity (name, SteamID64, crosshair, ping,
flair), takes it away again for a few frames whenever a vote or a kick needs
Valve's own bot markers, publishes it to a C# plugin over shared memory, and
does none of it on blacklisted maps.

1. [Inventory](#inventory)
2. [What is hard](#what-is-hard)
3. [Modules](#modules)
4. [How the model maps to the code](#how-the-model-maps-to-the-code)
5. [Runs](#runs)
6. [Divergences between the code and its documents](#divergences-between-the-code-and-its-documents)
7. [Fairness](#fairness)
8. [Proofs](#proofs)
9. [What is not modelled](#what-is-not-modelled)
10. [Plan](#plan)

## Inventory

| Component | State | Operations | What makes it correct |
|---|---|---|---|
| **Identity pool**, `bot_info.cpp` | the list `BotIdentity[256]` (`slot`, `applied`), `IdentityManager::m_Slots[64]` | `GetFree` (a free identity at random, else the first one whose slot has no client), `ResetForReuse`, `Mark`, `Unmark` | the tables point at each other, also where the list runs out as far as the fallback leaves them; no two slots hold identities that share a SteamID64 or a name; a live slot's identity is not taken |
| **Native-identity window**, `vote_transaction.cpp` | `g_VoteDepth`, `g_VoteSnapshots`, `g_VoteSnapshotValid`, `g_EndScheduled`/`g_HoldFramesRemaining` | begin (all slots, one slot), schedule the end, tick, reassert, restore, force-end, reset, reset one slot | inside it every hosted bot is native; it always ends; ending it gives everyone exactly their own identity back |
| **Plugin hooks and map gate**, `plugin.cpp` | `s_GateMap`, `s_MapSuspended`, `m_PopulationCommandDepth` | hooks on client connect, put-in-server and disconnect, command Pre and Post, game frame, level init; `ApplyDisguise`, `RestoreIdentity`, `ApplyPendingDisguises`, `ApplyMapGate` | a blacklisted map hosts nothing; commands nest and unnest without leaking a count; a deferred disguise is applied |
| **Shared-memory publisher**, `shm_pub.cpp` | a mapped region with one entry per slot: state, SteamID, name, ping, flair, crosshair, incarnation | create or replace the region, adopt, release, bump the incarnation, publish single fields, unmap | an entry names the disguised identity of the slot and nobody else's, whatever a former process left |
| **Controller reap**, `controller_reap.cpp` | a queue of controllers waiting to be removed, user ids of leftover clients, `m_Clients.m_Size` | move to spectator, queue, drain, reap orphans, neutralise colliding user ids, shrink | only controllers nobody uses any more are removed; no live client's user id or row is touched |
| **Ping and flair policy**, `plugin.cpp` | a base ping per slot | `PickFakePing`, `PickScoreboardFlair`, jitter every 30 s | a bot shows the range's ping, its own or one jittered from it, not its slot's last bot's |
| **Configuration and list selection**, `bot_info.cpp` | `BotFeatures`, the blacklist, the chosen list | JSON reader, clamps, language normalisation, list selection and fallback, `MapMatchesBlacklist` | what is loaded is what was written, and from the list the documents promise |
| **C# reader and API**, `csharp/BotIdentityImpl` | a mapping of the shared memory | connect, snapshots of a slot, incarnation check, dispose | a snapshot that was confirmed by its incarnation is of one bot, the slot's |
| **Teammate colours**, `BotIdentityImpl.Colors.cs` | a colour lease per slot: colour, incarnation, team, forced writes, given up | reconcile, three delayed passes after every event, bounded forced writes | bots do not share a colour with a human or each other, every bot is served, it settles, and it does not fight the game for ever |
| **Engine access**, `entity_access.cpp`, `ssc_ops.h` | offsets | resolve a client or controller by slot, write its markers and SteamID | it returns the slot's own client, or nothing |

**How they interact.** All of the C++ runs on the game's main thread, inside
Metamod hooks: the engine calls a hook, the hook calls into the pool, the
window and the publisher, and returns. Nothing in the plugin runs in
parallel with it, except a reader of the shared memory: the C# plugin's
`SharedMemoryClient`, which serves consumers on any thread, or any other
process. The pool is
written by the hooks through `Mark`/`Unmark` and directly by `ApplyDisguise`
(`identity->slot`, `identity->applied`); the window reads it to know which
slots are managed and calls back into `ApplyPendingDisguises` when it closes;
the gate resets the window and releases the pool; the publisher is only
written. The C# plugin's colour passes run on the game's thread again, on its
own timers, and learn from the region which slots hold which bots. `Load` reads
the files before any hook is installed.

## What is hard

There are no locks to get wrong, and none that would help. What is hard is that
one logical operation is spread over several hook calls which the engine
interleaves with others, or over several stores which a reader interleaves
with its loads:

* **a window over several commands.** A vote opens a window in its Pre hook,
  schedules its end in its Post hook, and `GameFrame` closes it some frames
  later. Meanwhile clients connect, disconnect, are put in the server; kicks
  reuse the window or open it one level deeper; `bot_add` tears it down in the
  middle of another command; a map change drops it; the engine writes SteamIDs
  back into the very fields that were cleared.
* **two counters for one nesting.** `g_VoteDepth` counts begins,
  `m_PopulationCommandDepth` counts kicks that opened a level of their own.
  They are raised under one condition and lowered under another.
* **two tables for one fact.** Which identity a slot has is in
  `IdentityManager`; which slot an identity has, and whether it was applied,
  is in the identity. They are written by different functions, and the
  fallback of `GetFree` writes only one of them.
* **a queue of controllers that outlives their clients.** A kicked bot's
  controller is removed some frames later; by then its slot may be taken by
  somebody to whom the engine bound the same controller, its row may hold a
  ghost with the old user id, or the level may be gone.
* **snapshots that outlive what they captured.** A slot can be vacated and
  taken again while the window still holds the SteamID of its previous client.
* **the map's name arrives late,** from three sources that may disagree.
* **partial failures that are not retried**: a controller that does not exist
  yet, a client that is gone when its slot is released.
* **a region that outlives its writer.** An unload or a crash leaves it as it
  is, in the middle of a publication if need be, and the next process starts
  from its name.
* **a reader between two stores.** Six fields, no lock, and an incarnation that
  is bumped by adoptions only.
* **colours written by two parties.** Passes are delayed, bots and humans come
  and go between them, the game writes the same fields, a write may fail half
  way.
* **a scan over raw memory** that zeroes whatever looks like the SteamID64, may
  meet copies that overlap, and must be able to undo it.
* **a reader that knows only its position** in the text of a configuration
  file, and only in some of its loops whether that is inside a string.

`PROJECT.json` lists each of these at the line where it bites, with the
properties that would catch it.

## Modules

| Module | Models | Kind |
|---|---|---|
| `IdentityLease` | what the pool promises: exclusive leases of identities to slots | abstract specification |
| `IdentityPool` | `bot_info.cpp`: registry, `GetFree`, `ResetForReuse`, `Mark`, `Unmark`; the registry writes of `ApplyDisguise` | operators on a registry |
| `VoteWindow` | `vote_transaction.cpp`, and the marker writes of `ssc_ops.h` | operators on a window and on clients |
| `BotIdentity` | `plugin.cpp`: every hook as an action, composed from the two modules above, the gate and the publisher | the system specification |
| `BotIdentityProperties` | the safety, action and liveness properties, and the refinement of `IdentityLease` | properties |
| `BotIdentityClaims` | what the repository's documents and comments say that the code does not do | properties, each refuted by a run |
| `MCBotIdentity` | values of the constants | for TLC |
| `ControllerReap` | `controller_reap.cpp`, and what the hooks of `plugin.cpp` do to the state it works on, with its properties | a specification of its own |
| `MCControllerReap` | the symmetry of its user ids | for TLC |
| `SharedMemory` | the region between publisher and reader: `shm_pub.cpp` store by store, `SharedMemoryClient.cs` load by load, load, unload and the end of the process, and the pings of `plugin.cpp` | a specification of its own |
| `TeammateColors` | `BotIdentityImpl.Colors.cs` and the timers of `BotIdentityImplPlugin.cs` | a specification of its own |
| `ConfigReader` | `bot_info.cpp`'s reader, `Load`, `LoadBots`, the language and the list selection, and `plugin.cpp`'s fallback | a specification of its own |
| `SteamIdScan` | the scan and the restore of `vote_transaction.cpp`, byte by byte | a specification of its own; what `VoteWindow` abstracts |
| `MCSharedMemory`, `MCTeammateColors`, `MCConfigReader`, `MCSteamIdScan` | values of their constants: pings, joins, files in their layouts, SteamIDs | for TLC |
| `BotIdentityProofs` | type correctness; the ownership invariant, its corollaries and the refinement | TLAPS |
| `BotIdentityWindow` | the counters, the hold and the gate; the window's contract: who gets which identity back; that a vote sees native bots | TLAPS, on `BotIdentityProofs` |
| `ControllerReapProofs` | the reap's invariants, and its properties | TLAPS |
| `SharedMemoryProofs` | the region's invariant, and what a confirmed snapshot says | TLAPS |
| `Recursion` | lemmas: induction and recursion over an interval of numbers, upwards and downwards | TLAPS |
| `TeammateColorsProofs` | types, and what a whole pass does for every bot | TLAPS, on `Recursion` |
| `SteamIdScanProofs` | the scan's invariant: what it leaves, and what closing the window undoes | TLAPS, on `Recursion` |
| `ConfigReaderProofs` | types, and that every iteration of the reader advances | TLAPS, on `Recursion` |

`IdentityPool` and `VoteWindow` have no variables of their own: every hook
changes several components in one uninterruptible call, so a component is a
value (a registry, a window) and its operations are functions of it
(`ControllerReap` treats the functions of `controller_reap.cpp` alike). A hook's
action then reads like the hook: it says in which order the operations are
applied, on the value the previous one left. No module uses a `RECURSIVE`
operator, so all of them can be proved about.

## How the model maps to the code

`BotIdentity`'s variables:

| Variable | In the code |
|---|---|
| `reg` | `IdentityManager::m_Slots`, `BotIdentity::slot` and `::applied` |
| `client` | the engine's `CServerSideClient` of every slot: who it is, its bot markers (`m_bFakePlayer` and the connection flags, always written together), its SteamID, `FL_FAKECLIENT` of its controller if that exists, whether it was put in the server |
| `win` | the window's globals; a snapshot's client pointer is the number of the game server it was taken on |
| `shm` | what a slot's shared-memory entry says: whose state, SteamID and name, whose crosshair, and the incarnation |
| `gate` | `s_GateMap`, `s_MapSuspended` |
| `server` | the engine's game server: whether it exists, the map and addon names it reports, which one it is |
| `cmds` | console commands between their Pre and their Post hook, innermost last |
| `popDepth` | `m_PopulationCommandDepth` |

Actions, by hook:

| Hook | Actions |
|---|---|
| `Hook_OnClientConnected_Post` | `HltvConnects` (the early return), `ClientIgnored` (the returns without an identity), `BotConnects` |
| `Hook_ClientPutInServer_Post` | `ClientPutInServer` |
| `Hook_ClientDisconnect_Pre`, then the engine's freeing of the client | `ClientDisconnect` |
| `OnLevelInit` | `LevelInit` |
| `Hook_DispatchConCommand_Pre` | `CallvotePre`, `KickPre`, `NamedKickPre`, `UnmatchedKickPre`, `BotAddPre` |
| `Hook_DispatchConCommand_Post` | `CallvotePost`, `KickPost`, `BotAddPost`, `MapCommand` |
| `Hook_GameFrame_Post` | `GameFramePost` (the gate's poll, then `TickVoteTransaction`) |
| no hook: the engine itself | `ControllerSpawns`, `SteamIdReappears`, `MapNameArrives`, `ServerGone`, `ServerBack` |

Decisions about the abstraction worth knowing:

* **`ApplyDisguise` is called for a set of slots at once.** The code loops in
  slot order and skips an identity already applied; `Disguised` and `Called`
  say which calls complete, and `RecordDisguise` what they leave in the
  registry, also where two slots name one identity.
* **`g_EndScheduled` is `hold > 0`**: the two are set and cleared together, and
  a scheduled hold is at least 1.
* **The SteamID pair and the copies the scan finds** are one value.
  `SteamIdScan` says when they may be taken for one: as long as fewer copies
  are found than can be recorded, and nothing else is written over them.
* **A slot's client is replaced only through a disconnect**, or because the
  whole game server was. The C++ objects are pooled per slot; that two
  successive clients of one slot may be one object makes no difference, since
  the connect and disconnect hooks drop the slot's snapshot.
* **SteamIDs of humans** are 0 in the model: the plugin never reads them
  except to compare with its own list, which holds none of theirs.
* **Commands nest** (`bot_kick` issues `kickid`, which runs the same hooks:
  `src/README.md:317`). While a `callvote` or a kick that matched nobody is
  being dispatched the engine neither adds nor removes clients. Maps and
  frames change only between commands.
* **On a suspended map both command hooks return at once**, so commands
  dispatched there are not actions. The gate never changes inside a command,
  so no command has a Pre hook on one side of a suspension and a Post hook on
  the other.
* **Calls into the controller reap** are left out of `BotIdentity`: they write
  controllers' teams, a queue of their own and user ids, none of which these
  hooks read. They are in `ControllerReap`, which knows of the rest only which
  slots are managed (`hosted`) and whether the map is suspended.

`ControllerReap`'s variables:

| Variable | In the code |
|---|---|
| `count`, `row` | the engine's `m_Clients`: its size, and of each client whether it is managed, a person, a native bot or the ghost of one, its user id, and whether its signon state is 0 |
| `ctrl` | the `cs_player_controller` at entity index slot + 1: whether it exists or is being deleted, its handle's serial number, whether it is on team 2 or 3 |
| `pending` | `g_Pending`, a set: no item's treatment depends on another's |
| `suspended`, `up` | `s_MapSuspended`, `GameServerAlive()` |

`ClientDisconnect` is the Pre hook with the engine's disconnect;
`NamedKickPre`, `KickAllPre` and `PopulationPost` are the branches of the
command hooks that call the reap, `GameFramePost` the frame's call. Every
other action is the engine's. What is assumed of it:

* a client's controller has entity index slot + 1, which `ReapOrphanControllers`
  takes for granted as well. A controller that was not freed yet is bound to
  the slot's next client;
* a handle names one entity for ever, so the comparison of addresses adds
  nothing to the comparison of handles. A serial number is used again once no
  queued item has it;
* no two connected clients have one user id, and a slot does not get its last
  client's user id again while that client's controller is still queued. User
  ids are handed out in turn;
* what stays of a bot in `m_Clients` has no net channel and no SteamID, any
  signon state, and its old user id or 65535;
* `ChangeTeam` succeeds. `DetachControllerFromTeam` writes the team itself
  when it does not.

`SharedMemory`'s variables:

| Variable | In the code |
|---|---|
| `mem`, `made`, `file` | the regions ever created, and the one `/dev/shm/CS2BotHider_Slots` leads to. A region that was unlinked stays for whoever has it mapped |
| `view`, `client` | `s_ShmView`; `SharedMemoryClient._view` |
| `loaded`, `features` | whether the native plugin is loaded, and with which settings of its pings: the numbers are as they were cast, so they may be 0 or negative |
| `holder`, `applied` | the identity of each slot, and whether it was applied. When they change is `BotIdentity`'s business, here any slot may be marked, disguised and released at any time between hooks |
| `gone` | the slots that hold an identity whose client went with a lost game server: there `RestoreIdentity` returns before it publishes anything, and the slot is unmarked all the same |
| `abandoned` | not in the code: the slots whose entry was left behind like that |
| `job` | the publication in progress and its next store: `PublishAdopt`, `BumpIncarnation` and `PublishPing` of one `ApplyDisguise`, or a `PublishRelease` |
| `reader` | one consumer's snapshot of one slot, and its next load |

A store of a field is one step. The name is several bytes, the SteamID may be
written before or after the state as the compiler likes: neither matters, since
a snapshot is only confirmed if the incarnation did not change, and whatever was
stored in between is followed by the bump. A release does not bump it, but it
clears the state, which the confirmation reads. A slot that is adopted again
before the confirmation has another incarnation. `ProcessEnds` may come between
any two stores; `Unload` only between hooks.

`TeammateColors`' variables: `player`, who is in a slot, on which team and
with which colours; `inc`, the slot's incarnation in the shared memory;
`lease`, the five arrays of the plugin; `due`, how many passes are scheduled
(one for the next frame, two on timers: they run the same function, so only
their number counts); `faults`, how many passes may still fail. An event is an
action, a pass is an action, and inside a pass the bots of a team are served in
slot order (`ReconcileTeamColors`, a recursive function over the slots below
`MaxSlots`). A colour is the first free one of those tried (`FirstFree`,
`Tried`), which is the code's chain of `IsFreeColor` and its loop.

`ConfigReader` has one action per iteration of each reading loop; `at` says
which loop runs next. The reader's helpers take the position they start from
and return where they stop, whitespace handling included, since several mistakes
of such a reader are about exactly that. A text is a sequence of tokens:
punctuation, quotes, white space, words, numbers and Booleans. A string is the
tokens between two quotes. `ReadString` and `SkipJsonValue` know that; the loops
with which `ReadBlock` and `Load` skip a value do not (`SkipNested` takes the
quotes it heeds as a parameter), so the commas and braces of a name are where
they would be in the file. A number wraps at `UInt64Range` and is cast to a
signed integer of `IntRange` values. Behind a disk's texts is what their author
meant by them, which the properties compare with what was loaded, and what may
be said of them: `whole`, `unknown`, `cut` or `other`. `fellBack` says which of
the two calls of `LoadBots` in the plugin's `Load` is running: the fallback is
one `if`, and no loop.

`SteamIdScan`'s `mem` is the memory of one client and its controller as bytes;
`unhidden` is what that memory would be if no window had been opened, and is
what closing must give back; `torn` notes that something was written over a
hidden copy. The widths are constants: `scan` has a SteamID64 of two bytes and a
client of six, which is enough for copies that overlap, touch and lie apart, and
the proofs have any.

## Runs

| Run | Instance | Properties | Shows |
|---|---|---|---|
| `vote` | 2 slots, 2 identities, humans, late controllers, SteamIDs written back, hold 2, all commands, nesting 2 | `TypeOK`, `DisguiseRestored`, `WindowScheduled`, `PopDepthReturns`, `HoldKept` | windows, kicks and clients in every order |
| `gate` | 2 slots, 2 identities, 2 maps of which one is blacklisted, a blacklisted addon, votes, unnamed kicks, `bot_add`, `map` | `SuspendedIdle`, `VoteSeesNativeBots`, `FrameFollowsMap`, `WindowCloses`, `PendingIsDisguised` | the gate, and liveness |
| `pool` | 2 slots, 4 identities, two sharing a SteamID64 and two a name, humans, HLTV, votes, unnamed kicks, `bot_add`, SteamIDs written back, one lost game server | `RegistryConsistent`, `UniqueSteamId`, `SteamIdOwned`, `ShmMatchesRegistry`, `ManagedAreBots`, `ImplementsLease`, `HoldTickReasserts` | the pool, the window and the region under duplicates and loss |
| `reap` | 2 slots, 2 user ids, 1 queued controller, 2 serial numbers | `TypeOK`, `RowsOfClientsKept`, `ControllersOfClientsKept`, `KickidHitsTarget`, `OrphansLeaveTeams`, `WaitsForOnePass` | the removal of controllers against everything that can happen to a slot meanwhile |
| `shm` | 1 slot, 2 identities, 3 settings of the pings, 2 regions, 2 incarnations, game servers lost at any time | `TypeOK`, `RegionTellsHolders`, `ConfirmedSnapshotIsRight`, `PingIsHolders` | the region between writer and reader, with unloads, crashes and slots that lost their client |
| `colors` | 2 bot slots (one holds two bots in turn), 1 human, 2 teams, 2 colours, 1 forced write, 1 failing pass | `TypeOK`, `PassSeparates`, `PassServes`, `WritesEnd`, `ColorsSettle` | passes against joins, leaves, failures and the game's writes |
| `scan` | a 2-byte SteamID, a 6-byte client, a 5-byte controller, 4 copies, 3 writes of the engine | `TypeOK`, `RestoreUndoes`, `NothingLeft` | the byte-wise scan, and that it is undone |
| `config` | files in every order and two layouts, names with commas, braces and brackets, files that are missing, cut after every token, or something else | `TypeOK`, `ConfigIsRead`, `BotsAreRead`, `CutLosesTheEnd`, `ReadingEnds` | what is loaded is what was written, and reading ends |
| `claim_*` | one each | one of `BotIdentityClaims`, or `UnknownKeysAreSkipped` | the divergences below |

What the less obvious properties are for:

* `DisguiseRestored` is the window's contract. It is what a nested begin that
  captured again, a restore of a vacated slot, or a bot deferred and forgotten
  would break, several hooks after the mistake.
* `RegistryConsistent` has two halves. That an identity is recorded nowhere but in
  the slot that holds it has no exception. That a slot's identity is recorded in
  it has one: where the list ran out after a loss, `ResetForReuse` takes the
  identity back and leaves the slot marked (`PoolLasts` says when that cannot
  be).
* `SteamIdOwned` is the same contract *during* the window: what will be
  written back already belongs to whoever sits in the slot.
* `ShmMatchesRegistry` and `ManagedAreBots` say, besides what holds on one
  server, exactly what a lost one may leave: an entry whose bot went with it, if
  a suspension released the slot afterwards, and a managed slot without its bot,
  until somebody connects there. No entry ever names another bot's identity, and
  no human holds one.
* `WindowScheduled` and `PopDepthReturns` say that the two counters never
  leave a window that no frame will close.
* `HoldKept` says which events may shorten a hold, and that a kick which
  reused the window is not one of them.
* `ImplementsLease` has `IdentityLease` say, without slots, stale entries or
  random choice, what `GetFree` is for.
* `ControllersOfClientsKept` and `RowsOfClientsKept` are what the reap must not
  do: every row and every controller a hook takes belongs to nobody connected.
* `KickidHitsTarget` relates the kicked slot to every other: after the ghosts
  were neutralised its user id is its own, so the `kickid` that follows cannot
  hit one of them.
* `WaitsForOnePass` is the reap's progress, stated of each pass: whatever it
  leaves queued has used up its one wait. A run with fairness would say the
  same at many times the cost.
* `ConfirmedSnapshotIsRight` is what the API promises its consumers. It relates
  the order of six stores to the order of three loads, over any number of
  adoptions in between.
* `RegionTellsHolders` is the crash property: whatever was in the region when
  its writer ended, between hooks of the next one it names nobody else. Its
  exception is the code's: the entry of a slot that was released when its client
  was gone, until that slot's next adoption or release.
* `PingIsHolders` is about what `PublishRelease` leaves: the next bot's ping is
  chosen for it before its hook returns. Where the settings may give it none
  (`p > 0` at `plugin.cpp:112`), and only there, the last bot's stays.
* `PassServes` and `PassSeparates` are about one pass, after any history of
  leases; `ColorsSettle` about what remains once nobody moves; `WritesEnd` about
  the budget, while the game goes on writing.
* `RestoreUndoes` compares the memory with one in which no window was opened;
  `NothingLeft` looks at every byte offset, also where the zeroes written over
  one copy end inside another.
* `ConfigIsRead` and `BotsAreRead` have a document's meaning for reference, and
  `CutLosesTheEnd` a document that stops anywhere. `ConfigIsRead` holds of files
  whose keys are all known, or unknown with a scalar that has no comma and no
  closing brace in it, and whose numbers fit; for other unknown values
  `claim_unknown_key` refutes the same property.
* `ReadingEnds` is about all of them, and about texts that are no JSON: at every
  separator that is missing some loop must end.

### Bounds, and why they are enough

* **2 slots.** Every property relates one slot with one other, and no handler
  looks at three: `FindManagedSlotByPersonaName` picks the last of several
  slots of a name, and two show it.
* **2 identities** for 2 slots: the last free one is what the other slot has just
  given up. **4 identities** in `pool` leave both a clash by SteamID64 and one by
  name, and a choice; one is always free, so `GetFree` does not come to its second
  pass there. It does in `claim_distinct`, with one identity for two slots, and in
  the theorem `TablesAgree`, with any list.
* **`HoldFrames` = 2**: one hold tick that reasserts and one that closes. A
  longer hold repeats the first.
* **`MaxNesting` = 2**: every command inside every other, Post hooks in reverse
  order. Deeper nesting repeats the pattern: the code keeps only counts.
* **`MaxDepth`** bounds `g_VoteDepth`, an `unsigned int`: a begin past the
  bound is not taken. With nesting 2 the depth reaches 2 by nesting, and more
  by kicks that each leave their level for the frame to close.
* **`MaxLosses` = 1** in `pool`: the second loss meets the same states as the
  first. There commands do not nest (`MaxNesting` = 1), since `vote` nests them,
  and no persona is kicked. The proofs have both, with any number of losses.
* **`IncarnationLimit` = 2**: nothing in `BotIdentity` reads the incarnation.
  Its reader is in `SharedMemory`.
* **`MaxPending` = 1, `MaxSerial` = 2** in `reap`: a queued item meets its own
  controller, that controller bound to somebody else, none, and another one
  under the same index. Items are treated independently of each other, and a
  slot's controller is queued once. With two items and one serial number the
  same properties hold. `CanRemove = FALSE` only
  empties the queue.
* **1 slot in `shm`**: publisher and reader treat slots independently, and a job
  is of one slot; the proofs are for any number. Two identities, of which one
  has no ping of its own and the other one below the range that the jitter takes
  below its lower clamp; settings with which everybody gets a ping, with which
  only the second does (a range from -1 to 0), and with which nobody does; two
  regions, so the reader may hold the one the writer has left;
  two adoptions in each.
* **`colors`**: two bots compete with one human for two colours, so a colour may
  be free, taken by a bot, or not be left at all. One forced write, one fault
  and one rejoin are each the first of their kind; the second meets the same
  branches. The game writes over one bot's colours at any time, and gives a
  human, who prefers it, the first colour.
* **`scan`**: the SteamID64 `1 1` may overlap itself by a byte. Four of the
  client's six bytes are the pair, at offsets 1 and 4; the other two and the
  controller's five are arbitrary. Three writes of the engine put a copy at any
  offset, also across the edge of a hidden one, and take it back. Four recorded
  copies stand for eight: the instance reaches the limit.
* **`config`**: three settings stand for nine, one of each kind (a Boolean, a
  number, the clamped number), on both sides of the clamp; lists of up to four
  bots for a pool of two, so that some are dropped. Every permutation of members
  the reader can tell apart, the layout without white space and the one with it
  after `{`, `,` and `:`. 2^64 is 4096 and 2^32 is 256: numbers wrap, and are cast
  to a negative one, at both widths. The texts that are something else have
  values of another kind, none, brackets of another kind, signs, and numbers that
  are too wide.
* `CHECK_DEADLOCK FALSE` in `config` and `claim_unknown_key`, since loading ends,
  and in `scan`, which follows one window from its capture to its restore and a
  bounded number of writes between them.
* In `gate` a bot's controller exists when it connects
  (`LateControllers = FALSE`): `vote` has the late ones.

## Divergences between the code and its documents

Each is a run whose property states a document or a comment, and which TLC
refutes. `PROJECT.json` quotes both sides.

| Run | The documents say | The code does |
|---|---|---|
| `claim_controller` | put-in-server retries the disguise, now that the controller exists | the first call set `applied` without a controller; the retry returns at once and `FL_FAKECLIENT` stays |
| `claim_hint` | a blacklisted `map` argument suspends early | the same Post hook polls the live map, still the previous one, and resumes; the released bots stay native |
| `claim_distinct` | two live slots never share one ID | after a lost game server *and* an exhausted list, the reuse of a stale identity leaves its old slot marked, and the identity is freed under its new owner |
| `claim_unknown_key` | an unknown top-level key is skipped; nested values are skipped | behind an unknown object or array the comma, or the brace around it, is skipped as well, and a string with a comma or a closing brace ends there; the settings that follow are lost |

Others that were met while modelling. They are in the model, but no run of
their own shows them:

* `vote_transaction.h:5` says that while a transaction is active *every*
  managed slot is native. A persona kick captures one slot, and a vote or
  another persona kick during its hold reuses that window and captures nobody
  else.
* `README.md:171` says that markers are kept for the configured frames after a
  kick. A kick that reuses an open window gets what is left of it.
* `plugin.cpp:385` says that a slot's entry is always released before it is
  reused. `RestoreIdentity` returns before `PublishRelease` when the slot's
  client is gone, and the slot is unmarked all the same. After a lost game server
  a suspension therefore leaves entries of bots that do not exist, until their
  slots are adopted again: nobody is managed there any more, so a client that
  connects in one is not released either (`RegionTellsHolders`,
  `ShmMatchesRegistry`).
* `vote_transaction.h:20` has the end of a window re-apply the disguise to every
  slot that is still managed and kept its client. A persona kick whose target went with a lost
  server finds no client to capture, so its window opens without a valid
  snapshot, and `RestorePlayerIdentity` returns before it disguises anybody:
  bots that connected during that window stay native until they are put in the
  server, or another window closes. `DisguisesAreWhole` is what still holds.
* An HLTV client is passed over before the slot is looked at (`plugin.cpp:374`).
  In a slot that is still marked after a lost server the window captures it, and
  gives it a player's markers when it closes.
* `plugin.cpp:386` says that a release prevents stale entries from surviving.
  Crosshair, flair and ping do: `PublishRelease` leaves them, and the next
  `ApplyDisguise` writes each only if it has one. A ping it has unless
  `PickFakePing` comes out at 0 or below, which `fakePingMin` and `fakePingMax`
  allow: then a bot without a ping shows its predecessor's, which was jittered
  for somebody else (`PingIsHolders`).
* `README.md:164` calls `fakePingMin` an int, and `README.md:171` clamps the hold to
  1 .. 32. Both are read as 64 bits and cast (`bot_info.cpp:185`, `:203`): 4294967295
  is -1, and as a hold becomes 1, not 32. `ConfigIsRead` speaks of numbers that
  fit.
* `bot_info.cpp:435` does not steal an identity from a live slot, but from a slot
  that is still marked: `ResetForReuse` leaves the slot table as it is. The exception
  of `RegistryConsistent` is that, and `claim_distinct` what comes of it.
* `README.md:176` says of a per-bot ping within the range that the range is used
  instead. That is so when the bot connects; 30 seconds later the jitter takes
  the identity's own ping as its base, whatever it is (`plugin.cpp:740`).
* A `SharedMemoryClient` that is connected to a region its writer has replaced
  never connects to the new one. Incarnations start at 0 in each region, so one
  of the old region confirms nothing of the new one.
* A snapshot is not atomic, and is right only once confirmed. Unload publishes
  nothing, so the last region names bots of a plugin that is gone.
* A bot's entry with a field `LoadBots` does not know makes it lose its place in
  that entry: the field's value is not skipped.
* More than eight copies of a SteamID64 are zeroed and not restored.
* Neither is a copy that overlaps a recorded one, which only a SteamID64 that
  overlaps itself can do: `CopyOverlaps` keeps it from being recorded, and it is
  zeroed all the same. `RestoreUndoes` excludes it by `torn`.
* A colour that was written, but whose `SetStateChanged` failed, is not counted
  against `MaxForceWrites`.

## Fairness

`FairSpec` assumes of the engine's loop:

* weak fairness of `CommandPost`: a command that was dispatched returns;
* strong fairness of `GameFramePost`: `GameFrame` is called again and again.
  A frame is disabled while a command runs, and commands can be dispatched
  without end, so weak fairness would be satisfied by a server that runs
  commands and no frame. The engine runs the command buffer once per
  iteration of a loop that also runs the frame.

A hibernating server calls no frames. Nothing the plugin does can close a
window there, and the liveness properties say nothing about it.

`TeammateColors` assumes weak fairness of passes that are due, and of some
event that schedules them: the server runs its frames and timers, and rounds
start. Both are stated of `due`, which only passes lower and only events
raise. `ConfigReader` assumes that `Load` runs to its end: nothing else runs on
the thread meanwhile.

`WindowCloses` and `PendingIsDisguised` hold under the premise `VotesStop`:
every `callvote` schedules the hold afresh, so votes called without end keep a
window open for ever. Kicks do not: they may be dispatched for ever and the
window still closes, which is what the mutant `WindowRescheduled` loses.

## Proofs

Proved by TLAPS for **every** number of slots and identities, every list of
SteamIDs and names (duplicates and zeros included), every set of maps,
addons and blacklist entries, every hold, every ping list and jitter, and
every bound of the models; for every number of bots, humans, colours and forced
writes; for every width, size and content of the scanned memory; and for every
text of every configuration file:

| Module | Theorem | States | Assumes also |
|---|---|---|---|
| `BotIdentityProofs` | `TypeCorrect` | `Spec => []TypeOK` | |
| | `OwnedUntilLoss` | `Spec => [](Ownership \/ ServerWasLost)` | |
| | `OwnershipHolds` | `Spec => []Ownership`, inductive | `NoLoss` |
| | `LeasesHold` | `Spec => []Leased`, inductive under `AmplePool` | `NoLoss` or `AmplePool` |
| | `TablesAgree` | `Spec => []RegistryConsistent` | |
| | `SteamIdsOwned` | `Spec => []SteamIdOwned` | `NoLoss` or `AmplePool` |
| | `SteamIdsUnique` | `Spec => []UniqueSteamId` | `NoLoss` or `AmplePool` |
| | `LeasesStayExclusive` | `Spec => []LeasesExclusive` | `NoLoss` or `AmplePool` |
| | `LeaseImplemented` | `Spec => ImplementsLease`: `BotIdentity` implements `IdentityLease` | `NoLoss` or `AmplePool` |
| `BotIdentityWindow` | `CountersHold` | `Spec => []CountersInv`, inductive | |
| | `PopDepthDoesReturn` | `Spec => []PopDepthReturns` | |
| | `WindowIsScheduled` | `Spec => []WindowScheduled` | |
| | `HoldIsKept` | `Spec => HoldKept` | |
| | `FrameDoesFollowMap` | `Spec => FrameFollowsMap` | |
| | `ServedHolds` | `Spec => []Served`, inductive | `NoLoss` or `AmplePool` |
| | `ManagedSlotsAreBots` | `Spec => []ManagedAreBots` | `NoLoss` or `AmplePool` |
| | `ShmFollowsRegistry` | `Spec => []ShmMatchesRegistry` | `NoLoss` or `AmplePool` |
| | `DisguisesRestored` | `Spec => []DisguiseRestored` | `NoLoss`, or `AmplePool` without `PersonaKicks` |
| | `DisguisesAreWhole` | `Spec => []DisguiseWhole` | `NoLoss` or `AmplePool` |
| | `SuspendedStaysIdle` | `Spec => []SuspendedIdle` | `NoLoss` or `AmplePool` |
| | `HoldTicksReassert` | `Spec => HoldTickReasserts` | `NoLoss` or `AmplePool` |
| | `VotesSeeNativeBots` | `Spec => []VoteSeesNativeBots` | `NoLoss` or `AmplePool`; `WholeWindows` |
| `ControllerReapProofs` | `ReapSound`, `ReapTidy` | `Spec => []ReapInv`, `Spec => []TidyInv`, inductive together | |
| | `ReapTypeCorrect` | `Spec => []TypeOK` | |
| | `RowsAreKept` | `Spec => RowsOfClientsKept` | |
| | `ControllersAreKept` | `Spec => ControllersOfClientsKept` | |
| | `WaitsOnce` | `Spec => WaitsForOnePass` | |
| | `KickidHits` | `Spec => KickidHitsTarget` | |
| | `OrphansHaveLeft` | `Spec => OrphansLeaveTeams` | `CanRemove` |
| `SharedMemoryProofs` | `ShmInvariant` | `Spec => []ShmInv`, inductive | |
| | `ShmTypeCorrect` | `Spec => []TypeOK` | |
| | `RegionIsRight` | `Spec => []RegionTellsHolders` | |
| | `PingsAreHolders` | `Spec => []PingIsHolders` | |
| | `ConfirmedSnapshotsAreRight` | `Spec => []ConfirmedSnapshotIsRight` | |
| `TeammateColorsProofs` | `ColorsTypeCorrect` | `Spec => []TypeOK` | |
| | `PassesSeparate` | `Spec => PassSeparates` | |
| | `PassesServe` | `Spec => PassServes` | |
| `SteamIdScanProofs` | `ScanInvariant` | `Spec => []ScanInv`, inductive | |
| | `ScanTypeCorrect` | `Spec => []TypeOK` | |
| | `RestoringUndoes` | `Spec => []RestoreUndoes` | |
| | `NothingIsLeft` | `Spec => NothingLeft` | |
| `ConfigReaderProofs` | `ReaderTypeCorrect` | `Spec => []TypeOK` | |
| | `EveryIterationAdvances` | `Spec => ReadingAdvances` | |

All of them rest on the `ASSUME`s of the modules they are about:
`PoolAssumption` and `PluginAssumption`, `ReapAssumption`,
`SharedMemoryAssumption` (pings are numbers, of any sign), `ColorAssumption`, `ScanAssumption` (no SteamID64 begins
or ends with a zero byte: see below) or `ReaderAssumption` (files are texts).
Beyond those:

* `NoLoss` (`MaxLosses = 0`): the game server is not replaced behind the
  plugin's back. With a lost server the registry names slots without clients,
  `GetFree`'s second phase takes their identities back while those slots stay
  marked, and `claim_distinct` shows two live slots wear one SteamID64 once the
  list is exhausted. So one of `NoLoss` and `AmplePool` is needed; only `Ownership`,
  which says that every managed slot has its bot, needs this one. Until the first
  loss it holds without either (`OwnedUntilLoss`).
* `AmplePool`: whatever identities the other slots hold, one is left that clashes
  with none of them. Then the second phase is never reached, and what is said of
  the pool holds however often the server is lost. src/lang/zh-CN.json satisfies it:
  75 identities of as many names and SteamID64s, for the 63 other slots.
  src/bots.json does while at most 48 other slots are in use: it has 50, two of
  them of one name. So does the instance of `pool`, and not that of
  `claim_distinct`.
* `PersonaKicks`: the commands include `bot_kick` with a persona's name. Where a
  server was lost, one may name a bot that went with it, and opens a window
  without a snapshot (see the divergences).
* `WholeWindows`: no persona kicks, and nobody writes SteamIDs back. A persona
  kick opens a window for one slot, which the next vote reuses (see the
  divergences), and a SteamID that is written back is there until the next frame
  (`HoldTicksReassert`).
* `CanRemove`: the signature of `UTIL_Remove` was found. Without it the orphan
  pass does nothing.

**The pool.** `UniqueSteamId` is not inductive: it says nothing of the
SteamIDs that wait in the window, nor of identities that no client carries
yet. `Leased` adds, besides the types,

* `Consistent(reg)`: the two tables agree. So an identity recorded in some
  slot is the one that slot holds;
* `Exclusive(reg)`: `IsAssignable` keeps leases from clashing, given that every
  lease is recorded;
* `SteamIdOwned`: markers are written from the slot's identity, or from a
  snapshot of the slot, and both are the slot's own;
* `AbsentCarryNone`: a slot without a client carries no SteamID, so that
  `ReleaseManagedSlots`, which skips such slots, leaves none behind;
* `SuspendedUnmanaged`: the disconnect hook does nothing while suspended, so
  nothing may be managed then.

A step keeps `Leased` provided that `NoReuse` holds where it starts: what
`GetFree` may return to a connecting bot is free. There are two reasons for it.
With an ample list some identity is always free (`AmpleNeverReuses`). Otherwise
`Ownership` gives it, which says in addition that the server is the first one
and that managed slots have bots: then every recorded slot has a client, and
`StaleBots` is empty (`PresentNeverReuses`).

Every step is one of three kinds, each with its lemma: it leaves every slot
its identity (`StableStep`), releases some slots (`ReleaseStep`), or vacates one
slot and hands it a free identity (`GrantStep`). The same case distinction is the
refinement: a stutter, a `Release` or a `Grant` of `IdentityLease`.

Where the server was lost and the list ran out, `GetFree` hands out what another
slot is still marked with. What is left then is half of the tables' agreement:
an identity is recorded only in a slot that holds it (`Pointed`). `Mark`, `Unmark`,
`ResetForReuse` and `ApplyDisguise` each keep that without any assumption, so
`TablesAgree` needs none: the other half is `RegistryConsistent`'s only where
`PoolLasts`, and there `Leased` gives it.

**The counters.** `popDepth` and the hold are related to the stack of commands:
`popDepth` is at most the number of kicks on it (`PopDepthCounted`), and a window
without a scheduled end is owed one by a counted kick or by a vote that is still
on the stack (`EndOwed`). With an empty stack nothing owes anything, so an open
window is scheduled. `HoldIsKept` needs that no hold is longer than
`HoldFrames` (`HoldBounded`): then a schedule never shortens one. It is also
what showed that a hint may end a hold without the gate being suspended
afterwards: the same Post hook resumes (`claim_hint`), so `HoldKept` names the
release of all slots and not the suspension.

**The disguise.** `Served` says of each slot how its client, its snapshot, its
shared-memory entry and its identity are related (`SlotServed`): the entry names
the applied identity (`EntryRight`); whoever holds an identity is its bot, or lost
it with the server (`HolderRight`); a bot that is captured was captured on the
server of now, with its identity's SteamID or, when it waits for its disguise,
none (`CaptureRight`); one that is not captured wears the markers exactly if its
identity is applied (`MarkersRight`); and only an open window keeps a bot waiting
(`WaitRight`). With a closed window this is `DisguiseRestored`.

A lost server empties every slot at once and leaves registry, snapshots and
entries as they are, so three of these speak of slots whose client is a bot: what
a snapshot holds of a client that is gone does not matter, because the server's
next bot in that slot unmarks it and drops the snapshot first
(`VacatedEffect`), and an HLTV, which does not, is not a bot. While the server is
down there is no client at all (`DownIsEmpty`). The one way in which a loss does
matter is a window that opens without a snapshot (`MayBeBlind`,
`ValidUnlessBlind`): what it leaves waiting, `WaitRight` allows.

A step keeps what a slot has (`KeepingStep`), in particular when it changes no
client's markers (`QuietStep`); or it vacates a slot (`VacatingStep`), closes the
window (`CloseWindowServes`: restore what was captured, then disguise what was
deferred), opens it (`BeginServes`), or is the server's end (`EmptyServerServes`).

**The reap.** The two properties about connected clients do not follow from the
types: a queued controller is removed unless the client bound to it *has another
user id*, and a trailing row is dropped unless *its user id is not 65535*. So
`ReapInv` says that connected clients have user ids other than 65535, each its
own (which also keeps the neutralising away from them), that none of them has
the user id of an item queued for its slot, and that their rows lie below
`m_Clients`' size. Each function of `controller_reap.cpp` keeps this and spares
connected clients (`SparesClients`); sparing is transitive, which covers the
hooks that call several functions in a row. `Keep`, the number of rows that
stay, is the length of an initial segment (`KeepBounds`). `TidyInv` adds that an
empty row has no user id, without which a `kickid` might find one, and that a
controller is queued once: an item that waits cannot be hidden by a newer copy
of itself.

**The shared memory.** `RegionInv` says of every field of an entry when it may be
relied on: `Settled(s, n)`, when no publication of the slot is under way that has
not made its n-th store yet. Between hooks every field is settled, which is
`RegionTellsHolders`, whatever the last process left. Of a slot in `abandoned` it
says only that SteamID, name and state still belong together: the entry was
settled when `RestoreIdentity` found no client, and nothing is stored in it until
the slot is adopted or released. `PingInv` allows a ping that was chosen for an
earlier bot where `PickFakePing` may come out at 0 or below (`MayHaveNone`).
`ReaderInv` says of a
snapshot after each of its loads that what was loaded is what the slot's entry
says now, provided that the entry has the incarnation the snapshot began with,
that the slot is managed, and that no adoption of it still has its bump ahead.

**Recursion.** A pass over the slots, a scan over the offsets and the reader's
search for a token are recursive functions. That such a function exists, and so
is what its equation says, is induction over numbers, for which the library's
theorems need an operator as a parameter. The lemmas of `Recursion` derive it from
well-foundedness instead: a set of numbers that is not empty has a least member
(`LeastNatural`), hence a set that holds 0 and is closed under the next number
holds an interval (`IntervalInduction`), hence a function given by its first
value and a step exists (`IntervalRecursion`). What the functions compute is then
shown by the same induction, over the set of numbers up to which it holds.

**The colours.** `PassSeparates` and `PassServes` are about one pass, from any
state of the right types. What holds after the slots below n
(`TeamServed`): those served have renewed leases, what they leased is taken, no
two leased one colour and none a human's. Serving the next bot (`ServeSlotServes`) takes its colour
from what is left, so it disturbs none of the earlier ones. That a bot without a
colour found all of them used (`Served`) needs that whatever is taken is some
human's or was leased or is shown by some bot of the team; a bot that was given
up on reserves what it shows (`ReservedIs`).

**The scan.** `RestoreUndoes` says nothing of an open window. `ScanInv` adds what
closing one relies on: without the window, the SteamID would be at every offset
where closing it writes (`Restorable`), and the window changed nothing else
(`OthersKept`, while there is room for another copy); no SteamID lies across the
edge of a hidden one (`~Straddled`). One pass of the scan
(`ScanRegionEffect`) leaves no offset behind it that shows the SteamID: the zeroes
it writes cannot complete another one, as no SteamID begins or ends with zero
(`ZeroesMakeNone`), and whatever it zeroed it recorded, unless it overlaps a
recorded one or there is no room. Putting the records back gives every byte what
it had, or what it has in `unhidden` (`PutsEffect`).

**The reader.** `ReaderInv` adds to the types that the text is one, that the
position is a number, and that the hold is in range once config.json was read.
Every helper either stays or goes forward, and a loop that goes on
has consumed a token (`Forward`, `Consumes`: one lemma for each helper, among them
`SkipNestedForward`, by downward induction from the end of the text, for every
depth and on either side of a quote).
`EveryIterationAdvances` is the variant of `ReadingEnds`: an iteration consumes a
token that exists, or the stages left (`StagesLeft`) get fewer, where falling
back to the default list repeats the last stages once. That an unknown nested
value, or a comma in a string, makes the reader lose its place
(`claim_unknown_key`) does not disturb it:
it loses settings, but not progress.

**Model-checked only:** liveness (`WindowCloses`, `PendingIsDisguised`,
`WritesEnd`, `ColorsSettle`, `ReadingEnds`: TLAPS has no ENABLED, hence no
fairness; of the last its variant is proved); `ConfigIsRead`, `BotsAreRead` and
`CutLosesTheEnd`, which compare what was read with what the author of a file
meant, an instance's data rather than a grammar, and of strings and searches that would
take induction over a document. Where the server is lost and the list is not
ample nothing about the pool is claimed but `TypeCorrect` and `TablesAgree`: the
run `claim_distinct` refutes the rest.

## What is not modelled

* **`Unload` inside `BotIdentity`.** It empties the plugin's variables while the
  engine keeps its disguised clients. `SharedMemory` has it, and the end of the
  process, for what they do to the region.
* **The stores of crosshair and flair** in `SharedMemory`: single fields that no
  consumer confirms. The crosshair an entry ends up with is in `BotIdentity`.
  **`PickScoreboardFlair`** is one random draw.
* **A region without a header**: creating it and writing its header is one step
  in `SharedMemory`, also where the initialisation fails. A reader refuses a
  region whose header it does not find.
* **`MapMatchesBlacklist`**, the comparison of names: the blacklist is a set of
  maps and addons in `BotIdentity`.
* **Inside tokens**: the digits of a number and the letters of a word are one
  token each in `ConfigReader`, so a file is never cut inside one. A string may
  hold any tokens but a quote: the reader has no escapes, so `\"` ends a string in
  the code as well, and what that does to a file is not in the runs. A value
  that is a bare word is `true`, `false` or none, where the code asks for a `t`.
  `TruncateUtf8` and `NormalizeLanguageTag` are tables of the run's strings.
* **SteamIDs that begin with a zero byte** in `SteamIdScan`. The plugin's begin
  with the lowest byte of the account number, which is zero for one account in
  256; for those `scan` says nothing.
* **Memory layout**: offsets from gamedata, signature scanning, the walk of
  the entity list. The models take from `entity_access.cpp` only whether a
  client and a controller resolve.
* **I/O, logging, formatting**, `memory_ops.h` and `EndVoteTransaction` (no
  caller), `m_BotToSlot`, `m_ActiveCount` and `reused` (never read), the
  build, the Python tool.

## Plan

Done, in this order: `IdentityPool`, `VoteWindow`, `BotIdentity` with its
properties and claims, and `IdentityLease`; `ControllerReap`; `SharedMemory`
with pings, loads and unloads; `TeammateColors`; `ConfigReader`; `SteamIdScan`;
and proofs of every safety and action property of `vote`, `gate`, `pool`, `reap`,
`shm`, `colors` and `scan`, those of `vote`, `gate` and `pool` also for game servers
that are lost in the middle of anything, and of `config`'s types and progress.

Left, most important first:

1. **`ControllerReap` with the window**: their composition, for the order of the
   team move and the begin in one hook, and what the engine does with
   `ChangeTeam` of a bot that is native at that moment.
2. **What is read**: a grammar of the files, so that `ConfigIsRead` can be stated
   of every file of known keys, and proved.
3. **A second reader** of the shared memory, of crosshair and flair, with what
   they may say of a slot's previous bot.
