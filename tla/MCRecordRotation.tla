-------------------------- MODULE MCRecordRotation --------------------------
(* Small instances of RecordRotation.                                       *)
EXTENDS RecordRotation
=============================================================================
