---------------------------- MODULE MCSyncClient ----------------------------
(* SyncClient with symmetry, for the runs that check safety only. *)
EXTENDS SyncClient, TLC

Symmetry ==
    Permutations(Devices) \cup Permutations(Notes) \cup Permutations(Payloads)
=============================================================================
