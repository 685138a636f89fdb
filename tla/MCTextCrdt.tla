----------------------------- MODULE MCTextCrdt -----------------------------
(* Two replicas of a text that begins with one letter. *)
EXTENDS TextCrdt

CONSTANT a

OneLetter == <<a>>
=============================================================================
