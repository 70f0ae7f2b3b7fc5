----------------------------- MODULE MCSyncApi -----------------------------
(* Instances of SyncApi for TLC.                                           *)
EXTENDS SyncApi, TLC

Symmetry == Permutations(Scans) \cup Permutations(Clients)
=============================================================================
