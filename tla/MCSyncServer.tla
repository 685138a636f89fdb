---------------------------- MODULE MCSyncServer ----------------------------
(* SyncServer with symmetry, for the runs that check safety only. *)
EXTENDS SyncServer, TLC

Symmetry ==
    Permutations(Users) \cup Permutations(Devices)
      \cup Permutations(Notes) \cup Permutations(Payloads)
=============================================================================
