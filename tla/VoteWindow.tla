----------------------------- MODULE VoteWindow -----------------------------
(***************************************************************************)
(* The native-identity window of src/src/vote_transaction.cpp, as          *)
(* operators on the window's globals and on the engine clients whose       *)
(* markers it writes.  While the window is open the clients it captured    *)
(* carry Valve's bot markers; closing it writes the captured player        *)
(* markers back.  When it opens and closes is in BotIdentity.tla.          *)
(*                                                                         *)
(* A client's m_bFakePlayer and connection flags are written together and  *)
(* are one value, mark.  The SteamID pair and its extra copies             *)
(* (ScanAndZeroSteamIdCopies) are zeroed and restored together and are one *)
(* value, sid.  The SteamID of a human is not tracked.                     *)
(***************************************************************************)
EXTENDS IdentityPool

Client ==
    [ who    : {"none", "bot", "human", "hltv"},
      mark   : {"native", "player"},             \* m_bFakePlayer, flags
      sid    : SteamIds,                         \* m_SteamID, m_SteamIDMirror
      ctrl   : {"none", "native", "player"},     \* FL_FAKECLIENT, if it exists
      inGame : BOOLEAN ]                         \* ClientPutInServer was called

NoClient ==
    [who |-> "none", mark |-> "player", sid |-> 0, ctrl |-> "none", inGame |-> FALSE]

(***************************************************************************)
(* A slot's VoteSlotSnapshot.  server identifies the client the snapshot's *)
(* pointer was taken from: a slot's client outlives a snapshot of it only  *)
(* if the whole game server is replaced.                                   *)
(***************************************************************************)
NoSnapshot ==
    [captured |-> FALSE, sscSteamId |-> 0, hasController |-> FALSE, server |-> 0]

Snapshot ==
    [ captured : BOOLEAN, sscSteamId : SteamIds, hasController : BOOLEAN, server : Nat ]

Window ==
    [ depth : Nat,                     \* g_VoteDepth
      hold  : Nat,                     \* g_HoldFramesRemaining, 0: no end scheduled
      valid : BOOLEAN,                 \* g_VoteSnapshotValid
      snap  : [Slots -> Snapshot] ]    \* g_VoteSnapshots

ClosedWindow ==
    [depth |-> 0, hold |-> 0, valid |-> FALSE, snap |-> [s \in Slots |-> NoSnapshot]]

VoteTransactionActive(w) == w.depth # 0

SetCtrl(c, flag) == IF c.ctrl = "none" THEN c ELSE [c EXCEPT !.ctrl = flag]

\* Mutant: the SteamID is left in place.
NativeMarkersKeepSid(c, withController) ==
    LET n == [c EXCEPT !.mark = "native"]
    IN  IF withController THEN SetCtrl(n, "native") ELSE n

\* ApplyNativeVoteMarkers; also what RestoreIdentity writes to the engine.
NativeMarkers(c, withController) ==
    LET n == [c EXCEPT !.mark = "native", !.sid = 0]
    IN  IF withController THEN SetCtrl(n, "native") ELSE n

(***************************************************************************)
(* BeginVoteTransaction captures every slot of S and writes it native; a   *)
(* nested one only counts.  `valid` is what the caller sets                *)
(* g_VoteSnapshotValid to.                                                 *)
(***************************************************************************)
CaptureOne(c, server) ==
    [captured |-> TRUE, sscSteamId |-> c.sid, hasController |-> c.ctrl # "none",
     server |-> server]

\* Mutant: a nested begin captures again.
BeginWindowRecaptures(w, S, valid, clients, server) ==
    [w EXCEPT
        !.depth = @ + 1,
        !.valid = valid,
        !.snap  = [s \in Slots |-> IF s \in S
                                   THEN CaptureOne(clients[s], server)
                                   ELSE NoSnapshot]]

BeginWindow(w, S, valid, clients, server) ==
    IF VoteTransactionActive(w)
    THEN [w EXCEPT !.depth = @ + 1]
    ELSE [w EXCEPT
            !.depth = 1,
            !.valid = valid,
            !.snap  = [s \in Slots |-> IF s \in S
                                       THEN CaptureOne(clients[s], server)
                                       ELSE NoSnapshot]]

BeginMarkers(w, S, clients) ==
    IF VoteTransactionActive(w)
    THEN clients
    ELSE [s \in Slots |-> IF s \in S THEN NativeMarkers(clients[s], TRUE) ELSE clients[s]]

\* ScheduleVoteTransactionEnd, with the clamp of its argument.
ScheduleEnd(w, frames) ==
    IF ~VoteTransactionActive(w)
    THEN w
    ELSE [w EXCEPT !.hold = IF frames < 1 THEN 1 ELSE IF frames > 32 THEN 32 ELSE frames]

(***************************************************************************)
(* The captured slots that Reassert and Restore still touch: managed, and  *)
(* the client is the one that was captured.                                *)
(***************************************************************************)
Touchable(w, r, server, present) ==
    {s \in ManagedSlots(r) \cap present :
        w.snap[s].captured /\ w.snap[s].server = server}

\* Mutant: a hold tick only counts.
ReassertNothing(w, touchable, clients) == clients

ReassertMarkers(w, touchable, clients) ==
    [s \in Slots |->
        IF w.valid /\ s \in touchable
        THEN NativeMarkers(clients[s], w.snap[s].hasController)
        ELSE clients[s]]

\* The first loop of RestorePlayerIdentity.
PlayerMarkers(c, sid, withController) ==
    LET p == [c EXCEPT !.mark = "player", !.sid = sid]
    IN  IF withController THEN SetCtrl(p, "player") ELSE p

RestoreMarkers(w, touchable, clients) ==
    [s \in Slots |->
        IF w.valid /\ s \in touchable
        THEN PlayerMarkers(clients[s], w.snap[s].sscSteamId, w.snap[s].hasController)
        ELSE clients[s]]

\* Mutant: one nesting level is closed, as EndVoteTransaction does.
EndWindowByOne(w) ==
    [w EXCEPT
        !.depth = IF @ = 0 THEN 0 ELSE @ - 1,
        !.hold  = 0,
        !.valid = FALSE,
        !.snap  = IF w.valid THEN [s \in Slots |-> NoSnapshot] ELSE @]

\* What TickVoteTransaction and ForceEndVoteTransaction leave of the window.
EndWindow(w) ==
    [w EXCEPT
        !.depth = 0,
        !.hold  = 0,
        !.valid = FALSE,
        !.snap  = IF w.valid THEN [s \in Slots |-> NoSnapshot] ELSE @]

\* Mutant: one client's disconnect drops the whole window.
ResetSlotDropsAll(w, s) == ClosedWindow

\* Mutant: what was captured of a client outlives it.
ResetSlotNothing(w, s) == w

ResetSlot(w, s) == [w EXCEPT !.snap[s] = NoSnapshot]

=============================================================================
