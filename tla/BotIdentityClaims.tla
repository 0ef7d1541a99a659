------------------------- MODULE BotIdentityClaims --------------------------
(***************************************************************************)
(* What the repository's own documents and comments say of the hooks, and  *)
(* the code does not do.  Each is refuted by a run of its own.             *)
(***************************************************************************)
EXTENDS BotIdentityProperties

(***************************************************************************)
(* plugin.cpp:429, in ClientPutInServer: "Retry disguise - entity          *)
(* controller should exist now".  Once a hosted bot is in the server, its  *)
(* controller has lost FL_FAKECLIENT as well.  The retry never happens:    *)
(* the first call set applied without a controller.                        *)
(***************************************************************************)
ControllerDisguised ==
    ~Active =>
        \A s \in ManagedSlots(reg) : client[s].inGame => client[s].ctrl = "player"

(***************************************************************************)
(* README.md:244 and plugin.cpp:214: the argument of a map command is an   *)
(* early suspend hint, and a match suspends now.  The same Post hook then  *)
(* polls the live map, which is still the previous one, and resumes.       *)
(***************************************************************************)
HintSuspends ==
    [][ \A arg \in Blacklisted : MapCommand(arg) => gate'.suspended ]_vars

(***************************************************************************)
(* README.md:34: "two live slots never share one ID"; bot_info.cpp:435:    *)
(* "Do not steal an identity from a live slot".  Reuse of a stale identity *)
(* leaves its old slot marked; when that slot is vacated, the identity is  *)
(* freed under the slot that now wears it.                                 *)
(***************************************************************************)
LiveSlotsDistinct ==
    \A s, t \in Slots :
        s # t /\ client[s].sid # 0 => client[s].sid # client[t].sid

=============================================================================
