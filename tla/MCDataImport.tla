----------------------------- MODULE MCDataImport -----------------------------
(* Instances of DataImport for TLC.                                         *)
EXTENDS DataImport

MCNoRisk == {}
MCSlowRound == {"slow round"}
=============================================================================
