--------------------------- MODULE MCBotIdentity ----------------------------
(* Values of the constants for TLC. *)
EXTENDS BotIdentityClaims, TLC

\* b + 100 is b's SteamID64, and every identity has a name of its own.
DistinctIds   == [b \in 0 .. NumBots - 1 |-> b + 100]
DistinctNames == [b \in 0 .. NumBots - 1 |-> b]

\* Identities 0 and 1 share a SteamID64, 1 and 2 a name.
SharedIds   == [b \in 0 .. NumBots - 1 |-> IF b \in {0, 1} THEN 100 ELSE b + 100]
SharedNames == [b \in 0 .. NumBots - 1 |-> IF b \in {1, 2} THEN "henry" ELSE ToString(b)]

=============================================================================
