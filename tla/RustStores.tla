----------------------------- MODULE RustStores -----------------------------
(***************************************************************************)
(* The libraries of rust-core that keep the user's data, checked in one    *)
(* run: flashcards, databases, objects, notes, the audit log, the blocks   *)
(* of the editor, the canvas, the two search indexes and the encrypted     *)
(* notes.  Each has a store of its own, so a behaviour is one of a single  *)
(* store and the others stay as they begin.                                *)
(***************************************************************************)
EXTENDS Flashcards, TableStore, ObjectStore, NoteStore, AuditLog, BlockEditor,
        Canvas, TantivyIndex, Vault

VARIABLE part

storePartVars ==
    <<cardVars, tableVars, objectVars, storeVars,
      auditVars, editorVars, canvasVars, searchVars, tantivyVars, vaultVars, part>>

StorePartsInit ==
    /\ CardsInit /\ TablesInit /\ ObjectsInit /\ StoreInit
    /\ AuditInit /\ EditorInit /\ CanvasInit
    /\ SearchInit /\ TantivyInit
    /\ part \in {"cards", "tables", "objects", "notes", "audit", "editor", "canvas",
                "search", "tantivy", "vault"}
    \* Only a behaviour of the vault tells its initial tables apart.
    /\ VaultInit /\ (part # "vault" => sealed = NoRows)

StorePartsNext ==
    /\ UNCHANGED part
    /\ \/ /\ part = "cards" /\ CardsNext
          /\ UNCHANGED <<tableVars, objectVars, storeVars,
                         auditVars, editorVars, canvasVars,
                         searchVars, tantivyVars, vaultVars>>
       \/ /\ part = "tables" /\ TablesNext
          /\ UNCHANGED <<cardVars, objectVars, storeVars,
                         auditVars, editorVars, canvasVars,
                         searchVars, tantivyVars, vaultVars>>
       \/ /\ part = "objects" /\ ObjectsNext
          /\ UNCHANGED <<cardVars, tableVars, storeVars,
                         auditVars, editorVars, canvasVars,
                         searchVars, tantivyVars, vaultVars>>
       \/ /\ part = "notes" /\ StoreNext
          /\ UNCHANGED <<cardVars, tableVars, objectVars,
                         auditVars, editorVars, canvasVars,
                         searchVars, tantivyVars, vaultVars>>
       \/ /\ part = "audit" /\ AuditNext
          /\ UNCHANGED <<cardVars, tableVars, objectVars,
                         storeVars, editorVars, canvasVars,
                         searchVars, tantivyVars, vaultVars>>
       \/ /\ part = "editor" /\ EditorNext
          /\ UNCHANGED <<cardVars, tableVars, objectVars,
                         storeVars, auditVars, canvasVars,
                         searchVars, tantivyVars, vaultVars>>
       \/ /\ part = "canvas" /\ CanvasNext
          /\ UNCHANGED <<cardVars, tableVars, objectVars,
                         storeVars, auditVars, editorVars,
                         searchVars, tantivyVars, vaultVars>>
       \/ /\ part = "search" /\ SearchNext
          /\ UNCHANGED <<cardVars, tableVars, objectVars, storeVars,
                         auditVars, editorVars, canvasVars, tantivyVars, vaultVars>>
       \/ /\ part = "tantivy" /\ TantivyNext
          /\ UNCHANGED <<cardVars, tableVars, objectVars, storeVars,
                         auditVars, editorVars, canvasVars, searchVars, vaultVars>>
       \/ /\ part = "vault" /\ VaultNext
          /\ UNCHANGED <<cardVars, tableVars, objectVars, storeVars,
                         auditVars, editorVars, canvasVars, searchVars, tantivyVars>>

StorePartsSpec == StorePartsInit /\ [][StorePartsNext]_storePartVars

-----------------------------------------------------------------------------
(* Properties.  A part that does not move stays as it began, so what is costly to
   evaluate is asked of the part that moves. *)

\* The tables, indexes and threads of every store have their types.
StorePartsTypeOK ==
    /\ CardsTypeOK /\ TablesTypeOK /\ ObjectsTypeOK /\ StoreTypeOK /\ AuditTypeOK
    /\ EditorTypeOK /\ CanvasTypeOK /\ SearchTypeOK /\ TantivyTypeOK /\ VaultTypeOK

\* No row refers to a row that is gone, whichever calls failed or met: records
\* have their card, cells their row and field, fields, rows and views their
\* database, links both ends.  The settings of a view are not rows: its filters
\* and sorts may name a field that was deleted.
NothingLeftBehind == NoOrphans /\ NothingDangles /\ LinksWhole

\* What a call answers is what its tables hold: schedules stay in the bounds of
\* SM-2, statistics add up, pages miss no entry, and the vault answers texts,
\* read with the key that belongs to its salt.
AnswersHold ==
    ScheduleGrows /\ StatsAddUp /\ PagesMissNothing /\ AnswersAreText /\ KeyHasItsSalt

\* What an answered call indexed is found until a later call for its note, whatever
\* calls for other notes failed between them, and filters drop no row that fits
\* them.  A rebuild keeps this for the index of SQLite; that of tantivy it empties,
\* and promises end with it.
SearchesFind ==
    /\ part = "search" => FindsWhatWasIndexed /\ FilterMissesNothing
    /\ part = "tantivy" => AnsweredStaysFound
    /\ part = "tables" => EmptyOrNot

\* What is laid out or sorted keeps apart and in order: fields and blocks have
\* places of their own, a later sort keeps the order of an earlier one, and the
\* layouts of the canvas neither overlap nor turn nodes around.
OrdersHold ==
    /\ part = "tables" => FieldsInOrder /\ SortsNest
    /\ part = "editor" => PlacesDistinct
    /\ part = "canvas" => LayersDescend /\ GridDistinct /\ DistributeKeepsOrder

\* No call does half of its work or more than it: rows and notes come with the
\* cells and tags their own call gave them, a cleanup keeps schedules, a move keeps the order of the
\* others, and a read under a steady key opens every note.
CallsComplete ==
    [][/\ part = "cards" => CleanupKeepsSchedule
       /\ part = "tables" => RowsComeWhole
       /\ part = "notes" => NoteAppearsWhole
       /\ part = "editor" => OthersKeepOrder
       /\ part = "vault" => SteadyKeyReads]_storePartVars
=============================================================================
