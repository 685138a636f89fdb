----------------------------- MODULE MCRustSync -----------------------------
(* Two devices share one block; two replicas share a text of one letter. *)
EXTENDS RustSync

CONSTANTS b1, b2, a

OneSharedBlock == <<b1>>
OneLetter == <<a>>
=============================================================================
