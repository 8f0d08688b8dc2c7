--------------------------- MODULE MCOfflineReplay ---------------------------
(* Instances of OfflineReplay for TLC.                                      *)
EXTENDS OfflineReplay

MCCapture == <<"profile", "rx", "setup", "legacy", "tx", "profile">>
MCShort == <<"rx", "setup", "rx">>

MCNoRisk == {}
MCPause == {"pause in preparation"}
MCFailed == {"resume failed"}
MCCancelled == {"resume cancelled"}
MCAhead == {"step ahead"}
=============================================================================
