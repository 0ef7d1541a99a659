---------------------------- MODULE MCSteamIdScan ----------------------------
(* Values of the constants for TLC. *)
EXTENDS SteamIdScan

\* It may overlap itself by a byte, as a SteamID64 may.
MCSteamIds == {<<1, 1>>}

=============================================================================
