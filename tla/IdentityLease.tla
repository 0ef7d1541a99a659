--------------------------- MODULE IdentityLease ----------------------------
(***************************************************************************)
(* What the identity list promises, with nothing of how: identities are    *)
(* leased to slots, a slot's new lease ends its old one, and none is       *)
(* granted while another slot holds the identity itself or one that could  *)
(* be taken for it.  src/README.md's "two live slots never share one ID"   *)
(* is this module; BotIdentity implements it.                              *)
(***************************************************************************)
CONSTANTS Slots, Bots, None, Clash(_, _)

VARIABLE holder      \* the identity leased to each slot, or None

TypeOK == holder \in [Slots -> Bots \cup {None}]

Init == holder = [s \in Slots |-> None]

MayGrant(s, b) ==
    \A t \in Slots \ {s} :
        holder[t] # None => holder[t] # b /\ ~Clash(holder[t], b)

Grant(s, b) ==
    /\ MayGrant(s, b)
    /\ holder' = [holder EXCEPT ![s] = b]

Release(S) == holder' = [s \in Slots |-> IF s \in S THEN None ELSE holder[s]]

Next ==
    \/ \E s \in Slots, b \in Bots : Grant(s, b)
    \/ \E S \in SUBSET Slots : Release(S)

Spec == Init /\ [][Next]_holder

(***************************************************************************)
(* Two leases never clash: the property every consumer of a scoreboard     *)
(* relies on.                                                              *)
(***************************************************************************)
Exclusive ==
    \A s, t \in Slots :
        s # t /\ holder[s] # None /\ holder[t] # None =>
            holder[s] # holder[t] /\ ~Clash(holder[s], holder[t])

=============================================================================
