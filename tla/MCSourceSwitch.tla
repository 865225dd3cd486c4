--------------------------- MODULE MCSourceSwitch ---------------------------
(* Instances of SourceSwitch: boards with Ethernet, Wi-Fi or both. *)
EXTENDS SourceSwitch

Wired == {"eth"}
Wireless == {"wifi"}
Both == {"eth", "wifi"}
=============================================================================
