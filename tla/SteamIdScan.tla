----------------------------- MODULE SteamIdScan -----------------------------
(***************************************************************************)
(* The copies of a bot's SteamID64 that the native-identity window hides:  *)
(* ScanAndZeroSteamIdCopies and RestoreSteamIdCopies of                    *)
(* src/src/vote_transaction.cpp on the memory of one captured client and   *)
(* its controller.  VoteWindow takes the SteamID and its copies for one    *)
(* value that is zeroed and put back together; this module says when that  *)
(* is so.  The scan looks at every byte, not at fields; the engine writes  *)
(* while the window is open, and the scan runs again on every frame, but   *)
(* it records no more than MaxSteamIdCopies of what it zeroes.             *)
(***************************************************************************)
EXTENDS Integers, Sequences, FiniteSets

CONSTANTS
    SteamIds,            \* each a sequence of Width bytes
    Width,               \* sizeof(uint64_t)
    Bytes,               \* values of a byte, 0 among them
    ClientBytes, ControllerBytes,    \* kSscScanBytes, kControllerScanBytes
    SteamIdAt, MirrorAt, \* offsets of m_SteamID and m_SteamIDMirror
    MaxSteamIdCopies,    \* kMaxSteamIdCopies
    MaxWrites            \* bound: writes of the engine while a window is open

(***************************************************************************)
(* No SteamID64 of a person ends in a zero byte (its universe).  One that  *)
(* starts with one could be completed by the zeroes a scan leaves, if the  *)
(* rest of it followed in memory: such accounts are left out.              *)
(***************************************************************************)
ASSUME ScanAssumption ==
    /\ Width \in Nat \ {0}
    /\ Bytes \subseteq Nat /\ 0 \in Bytes
    /\ SteamIds \subseteq [1 .. Width -> Bytes]
    /\ \A sid \in SteamIds : sid[1] # 0 /\ sid[Width] # 0
    /\ ClientBytes \in Nat /\ ControllerBytes \in Nat
    /\ MaxSteamIdCopies \in Nat
    /\ MaxWrites \in Nat
    /\ {SteamIdAt, MirrorAt} \subseteq 0 .. ClientBytes - Width
    /\ SteamIdAt + Width <= MirrorAt \/ MirrorAt + Width <= SteamIdAt

VARIABLES
    mem,       \* client and controller
    live,      \* SnapshotControllerLive
    open,      \* is the client captured?
    sid,       \* snapshot.sscSteamId
    copies,    \* snapshot.copies
    unhidden,  \* what the memory would be if no window had been opened
    torn,      \* has a hidden copy been written over since?
    writes

vars == <<mem, live, open, sid, copies, unhidden, torn, writes>>

Regions == {"client", "controller"}
Limit(r) == IF r = "client" THEN ClientBytes ELSE ControllerBytes
Offsets(r) == 0 .. Limit(r) - 1
Memory == {m \in [Regions -> UNION {[Offsets(r) -> Bytes] : r \in Regions}] :
              \A r \in Regions : m[r] \in [Offsets(r) -> Bytes]}
Copy == [region : Regions, offset : Nat]

\* The offsets that eight bytes may start at.
Starts(r) == 0 .. Limit(r) - Width

TypeOK ==
    /\ {mem, unhidden} \subseteq Memory
    /\ {live, open, torn} \subseteq BOOLEAN
    /\ sid \in SteamIds
    /\ copies \in Seq(Copy)
    /\ Len(copies) <= MaxSteamIdCopies
    /\ \A k \in DOMAIN copies : copies[k].offset \in Starts(copies[k].region)
    /\ writes \in 0 .. MaxWrites

-----------------------------------------------------------------------------
At(m, r, off) == [k \in 1 .. Width |-> m[r][off + k - 1]]

Zeroes == [k \in 1 .. Width |-> 0]

\* memcpy of eight bytes.
Put(m, r, off, value) ==
    [m EXCEPT ![r] = [k \in Offsets(r) |->
        IF k \in off .. off + Width - 1 THEN value[k - off + 1] ELSE @[k]]]

WriteSteamId(m, value) == Put(Put(m, "client", SteamIdAt, value), "client", MirrorAt, value)

CopiesOf(m, r, id) == {off \in Starts(r) : At(m, r, off) = id}

Overlap(off1, off2) == off1 - off2 \in -(Width - 1) .. Width - 1

\* Mutant: the controller's offsets are taken for the client's.
OverlapsAnywhere(recorded, r, off) ==
    \E k \in DOMAIN recorded : Overlap(recorded[k].offset, off)

CopyOverlaps(recorded, r, off) ==
    \E k \in DOMAIN recorded : recorded[k].region = r /\ Overlap(recorded[k].offset, off)

\* Mutant: the scan looks at aligned fields only.
StepByField(off, hit) == off + Width

\* Behind a copy, or at the next byte.
ScanStep(off, hit) == IF hit THEN off + Width ELSE off + 1

\* Mutant: one copy more than the array holds.
HasRoomForOneMore(recorded) == Len(recorded) <= MaxSteamIdCopies

HasRoom(recorded) == Len(recorded) < MaxSteamIdCopies

(***************************************************************************)
(* One iteration of scanRegion; t.at is where its loop goes on, so offsets *)
(* below it are passed over.                                               *)
(***************************************************************************)
ScanOffset(t, r, off, id) ==
    IF off # t.at \/ off \notin Starts(r) THEN t
    ELSE IF At(t.mem, r, off) # id THEN [t EXCEPT !.at = ScanStep(off, FALSE)]
    ELSE [mem    |-> Put(t.mem, r, off, Zeroes),
          copies |-> IF ~CopyOverlaps(t.copies, r, off) /\ HasRoom(t.copies)
                     THEN Append(t.copies, [region |-> r, offset |-> off])
                     ELSE t.copies,
          at     |-> ScanStep(off, TRUE)]

ScanRegion(s, r, id) ==
    LET scanned[n \in 0 .. Limit(r)] ==
            IF n = 0 THEN [mem |-> s.mem, copies |-> s.copies, at |-> 0]
            ELSE ScanOffset(scanned[n - 1], r, n - 1, id)
    IN  scanned[Limit(r)]

ScanAndZeroSteamIdCopies(m, recorded, withController, id) ==
    LET client == ScanRegion([mem |-> m, copies |-> recorded], "client", id)
    IN  IF withController THEN ScanRegion(client, "controller", id) ELSE client

RestoreSteamIdCopies(m, withController) ==
    LET put[k \in 0 .. Len(copies)] ==
            IF k = 0 THEN m
            ELSE IF copies[k].region = "client" \/ withController
                 THEN Put(put[k - 1], copies[k].region, copies[k].offset, sid)
                 ELSE put[k - 1]
    IN  put[Len(copies)]

-----------------------------------------------------------------------------
Free == Offsets("client")
            \ (SteamIdAt .. SteamIdAt + Width - 1 \cup MirrorAt .. MirrorAt + Width - 1)

\* A disguised client; its other bytes, and the controller's, are anything.
Init ==
    /\ sid \in SteamIds
    /\ \E c \in [Free -> Bytes], d \in [Offsets("controller") -> Bytes] :
          mem = WriteSteamId([r \in Regions |-> IF r = "controller" THEN d
                                               ELSE [k \in Offsets(r) |-> IF k \in Free THEN c[k]
                                                                          ELSE 0]], sid)
    /\ live \in BOOLEAN
    /\ open = FALSE
    /\ copies = <<>>
    /\ unhidden = mem
    /\ torn = FALSE
    /\ writes = 0

\* ApplyNativeVoteMarkers.
Hide(recorded) ==
    LET s == ScanAndZeroSteamIdCopies(mem, recorded, live, sid)
    IN  mem' = WriteSteamId(s.mem, Zeroes) /\ copies' = s.copies

CaptureOneManagedSlot ==
    /\ ~open
    /\ writes = 0
    /\ open' = TRUE
    /\ sid' = sid
    /\ Hide(<<>>)
    /\ unhidden' = mem
    /\ UNCHANGED <<live, torn, writes>>

ReassertNativeVoteMarkers ==
    /\ open
    /\ Hide(copies)
    /\ UNCHANGED <<live, open, sid, unhidden, torn, writes>>

RestorePlayerIdentity ==
    /\ open
    /\ open' = FALSE
    /\ mem' = RestoreSteamIdCopies(WriteSteamId(mem, sid), live)
    /\ UNCHANGED <<live, sid, copies, unhidden, torn, writes>>

\* Where closing the window writes the SteamID.
Hidden(r) ==
    {copies[k].offset : k \in {j \in DOMAIN copies : copies[j].region = r}}
        \cup (IF r = "client" THEN {SteamIdAt, MirrorAt} ELSE {})

OverlapsHidden(r, off) == \E h \in Hidden(r) : Overlap(h, off)

\* All but the SteamID where it was.
Overwrites(r, off, value) ==
    /\ OverlapsHidden(r, off)
    /\ ~(value = sid /\ off \in Hidden(r))

(***************************************************************************)
(* A SteamID across the edge of a hidden one.  CopyOverlaps keeps it from  *)
(* being recorded, and it is zeroed all the same.                          *)
(***************************************************************************)
Straddled(m) ==
    \E r \in Regions : \E off \in CopiesOf(m, r, sid) \ Hidden(r) : OverlapsHidden(r, off)

\* The engine, or another plugin, writes eight bytes.
ForeignWrite(r, off, value) ==
    /\ open
    /\ r = "controller" => live
    /\ writes < MaxWrites
    /\ writes' = writes + 1
    /\ mem' = Put(mem, r, off, value)
    /\ unhidden' = Put(unhidden, r, off, value)
    /\ torn' = (torn \/ Overwrites(r, off, value) \/ Straddled(mem'))
    /\ UNCHANGED <<live, open, sid, copies>>

\* The controller's entity is gone, or another's.
ControllerRebound ==
    /\ open
    /\ live
    /\ live' = FALSE
    /\ UNCHANGED <<mem, open, sid, copies, unhidden, torn, writes>>

Next ==
    \/ CaptureOneManagedSlot
    \/ ReassertNativeVoteMarkers
    \/ RestorePlayerIdentity
    \/ \E r \in Regions : \E off \in Starts(r), value \in {sid, Zeroes} : ForeignWrite(r, off, value)
    \/ ControllerRebound

Spec == Init /\ [][Next]_vars

-----------------------------------------------------------------------------
(* Properties                                                              *)

Scanned(r) == r = "client" \/ live

(***************************************************************************)
(* After the window opened, and after every frame of its hold, no eight    *)
(* bytes of the client or of its live controller are the SteamID64: not at *)
(* the offsets the engine wrote it to since, nor where the zeroes put over *)
(* one copy end in the middle of another.                                  *)
(***************************************************************************)
NothingLeft ==
    [][ (\E r \in Regions : Scanned(r) /\ CopiesOf(mem', r, sid) # {})
        => ~(writes' = writes /\ open' /\ live' = live) ]_vars

(***************************************************************************)
(* Closing the window undoes it: the memory is what it would be had no     *)
(* window been opened, with what the engine wrote meanwhile, SteamIDs it   *)
(* wrote among it, as long as its writes neither changed a hidden copy nor *)
(* made one across the edge of a hidden copy, and the copies are fewer     *)
(* than can be recorded ("then put back the SteamID copies this window     *)
(* zeroed": vote_transaction.cpp).                                         *)
(***************************************************************************)
RestoreUndoes ==
    ~open /\ ~torn /\ Len(copies) < MaxSteamIdCopies =>
        \A r \in Regions : Scanned(r) => mem[r] = unhidden[r]

=============================================================================
