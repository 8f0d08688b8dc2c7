--------------------------- MODULE MCTxScheduler ---------------------------
(* Small instances of TxScheduler.                                          *)
EXTENDS TxScheduler
=============================================================================
