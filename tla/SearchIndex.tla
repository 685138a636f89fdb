---------------------------- MODULE SearchIndex ----------------------------
(***************************************************************************)
(* The search engine of devnote-search over SQLite FTS5: a content table,  *)
(* and a full-text index that triggers keep in step with it.  The index    *)
(* knows rows by their rowid, and a rowid is used again once the newest    *)
(* row is gone.  A note's text is the set of its words; ranks, highlights  *)
(* and dates are left out.                                                 *)
(***************************************************************************)
EXTENDS SqlRows, Naturals, FiniteSets

CONSTANTS
    SearchNotes,
    Words,
    SearchFolders,
    NoSearchFolder,  \* what index_note without metadata stores
    SearchTags,
    TagWithin,       \* pairs of tags of which the first is a part of the second
    MaxIndexCalls    \* bound: calls that write

VARIABLES
    searchRows,   \* notes_search_content, by rowid
    postings,     \* notes_fts: pairs of a word and a rowid
    indexed,      \* what index_note last answered it stored for each note
    indexCalls

searchVars == <<searchRows, postings, indexed, indexCalls>>

NotIndexed == [none |-> TRUE]

SearchInit ==
    /\ searchRows = NoRows
    /\ postings = {}
    /\ indexed = [n \in SearchNotes |-> NotIndexed]
    /\ indexCalls = 0

IndexCall == indexCalls < MaxIndexCalls /\ indexCalls' = indexCalls + 1

NextRowId(rows) ==
    IF rows = NoRows THEN 1
    ELSE (CHOOSE i \in DOMAIN rows : \A j \in DOMAIN rows : j <= i) + 1

\* The triggers: what AFTER INSERT adds to the index and AFTER DELETE takes out.
PostingsOf(rows, i) == rows[i].words \X {i}

RowsOfNote(n) == {i \in DOMAIN searchRows : searchRows[i].note = n}

\* DELETE FROM notes_search_content WHERE note_id = ?
Without(n) == KeepRows(searchRows, DOMAIN searchRows \ RowsOfNote(n))

\* Variant: no AFTER DELETE trigger.
PostingsWithoutKept(n) == postings

PostingsWithout(n) ==
    postings \ UNION {PostingsOf(searchRows, i) : i \in RowsOfNote(n)}

IndexNote(n, words, folder, tags) ==
    LET row == [note |-> n, words |-> words, folder |-> folder, tags |-> tags]
        i == NextRowId(Without(n))
    IN  /\ IndexCall
        /\ searchRows' = InsertRow(Without(n), i, row)
        /\ postings' = PostingsWithout(n) \cup (words \X {i})
        /\ indexed' = [indexed EXCEPT ![n] = row]

\* Variant: the two statements run without a transaction.
IndexNoteFailsHalfway(n) ==
    /\ IndexCall
    /\ searchRows' = Without(n)
    /\ postings' = PostingsWithout(n)
    /\ UNCHANGED indexed

\* The INSERT or the COMMIT fails: the transaction is rolled back.
IndexNoteFails(n) ==
    /\ IndexCall
    /\ UNCHANGED <<searchRows, postings, indexed>>

RemoveNote(n) ==
    /\ IndexCall
    /\ searchRows' = Without(n)
    /\ postings' = PostingsWithout(n)
    /\ indexed' = [indexed EXCEPT ![n] = NotIndexed]

\* 'rebuild' fills the index again from the content table.
RebuildIndex ==
    /\ IndexCall
    /\ postings' = UNION {PostingsOf(searchRows, i) : i \in DOMAIN searchRows}
    /\ UNCHANGED <<searchRows, indexed>>

SearchNext ==
    \/ \E n \in SearchNotes, words \in SUBSET Words \ {{}},
          folder \in SearchFolders, tags \in SUBSET SearchTags :
            IndexNote(n, words, folder, tags)
    \/ \E n \in SearchNotes, words \in SUBSET Words \ {{}} :
            IndexNote(n, words, NoSearchFolder, {})
    \/ \E n \in SearchNotes : IndexNoteFails(n) \/ RemoveNote(n)
    \/ RebuildIndex

SearchSpec == SearchInit /\ [][SearchNext]_searchVars

(* Answers: the rows the index names, joined with the content table. *)

Search(word) ==
    {searchRows[i] : i \in {j \in DOMAIN searchRows : <<word, j>> \in postings}}

\* Variant: the tag must be the whole column.
HasTagEqual(row, tag) == row.tags = {tag}

\* tags LIKE '%tag%' over the tags joined by commas.
HasTag(row, tag) == \E t \in row.tags : tag = t \/ <<tag, t>> \in TagWithin

SearchWithFilter(word, folders, tags) ==
    {row \in Search(word) :
        /\ folders = {} \/ row.folder \in folders
        /\ \A tag \in tags : HasTag(row, tag)}

-----------------------------------------------------------------------------
\* At most one row of a note, and no posting of a rowid that is not in the table.
SearchTypeOK ==
    /\ \A i \in DOMAIN searchRows :
          /\ searchRows[i].note \in SearchNotes
          /\ RowsOfNote(searchRows[i].note) = {i}
    /\ postings \subseteq Words \X DOMAIN searchRows

\* "DELETE and INSERT in one transaction, so that a failing INSERT loses no index
\* data": a note is found by the words last stored for it and by no others, and
\* what is found is that version, whatever calls failed and rowids were reused.
FindsWhatWasIndexed ==
    \A word \in Words :
        Search(word) = {indexed[n] : n \in
            {m \in SearchNotes : indexed[m] # NotIndexed /\ word \in indexed[m].words}}

\* A search filtered by a folder and tags misses no note that has them all.
FilterMissesNothing ==
    \A word \in Words, tags \in SUBSET SearchTags, f \in SearchFolders :
        {row \in Search(word) : tags \subseteq row.tags /\ row.folder = f}
            \subseteq SearchWithFilter(word, {f}, tags)
=============================================================================
