----------------------------- MODULE MCScanWait -----------------------------
(* Instances of ScanWait for TLC.                                          *)
EXTENDS ScanWait

MCResults ==
    {[rows |-> [assets |-> 2, relationships |-> 1, attack_paths |-> 1],
      error |-> ""],
     [rows |-> [assets |-> 1, relationships |-> 0, attack_paths |-> 0],
      error |-> "partial"]}
=============================================================================
