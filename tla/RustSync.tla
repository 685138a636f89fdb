------------------------------ MODULE RustSync ------------------------------
(***************************************************************************)
(* The libraries of rust-core that synchronise documents, checked in one   *)
(* run: the block documents with the client engine over them, the text of  *)
(* one block, and the operation keys.  They share no state, so a behaviour *)
(* is one of a single part and the others stay where they begin.           *)
(***************************************************************************)
EXTENDS SyncEngine, TextCrdt, OperationKeys

VARIABLE part

syncPartVars == <<engineVars, textVars, keyVars, part>>

SyncPartsInit ==
    /\ EngineInit /\ TextInit /\ KeysInit
    /\ part \in {"engine", "text", "keys"}

SyncPartsNext ==
    /\ UNCHANGED part
    /\ \/ part = "engine" /\ EngineNext /\ UNCHANGED <<textVars, keyVars>>
       \/ part = "text" /\ TextNext /\ UNCHANGED <<engineVars, keyVars>>
       \/ part = "keys" /\ KeysNext /\ UNCHANGED <<engineVars, textVars>>

SyncPartsSpec == SyncPartsInit /\ [][SyncPartsNext]_syncPartVars

-----------------------------------------------------------------------------
(* Properties *)

\* Documents, engines, texts and the key cache have their types.
SyncPartsTypeOK == CrdtTypeOK /\ EngineTypeOK /\ TextTypeOK /\ KeysTypeOK

\* In whichever order things arrive, an id names one operation on all copies, the
\* shown blocks of a copy have positions of their own, and the characters of a
\* text stand once and to the right of where they were typed.
CopiesSound == IdsUnique /\ PositionsDistinct /\ CharsOnce /\ RightOfLeft

\* Nothing that arrives late undoes what was done: the entries of deleted blocks
\* stay and only an insertion shows such an id again, erased characters stay
\* erased, characters keep their order, and an edit stays pending until a merge
\* that went through brought it back.
NothingUndone ==
    [][/\ part = "engine" => DeletedStays /\ PendingKept
       /\ part = "text" => TextGrows]_syncPartVars
=============================================================================
