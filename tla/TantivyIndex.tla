---------------------------- MODULE TantivyIndex ----------------------------
(***************************************************************************)
(* The other search engine of devnote-search, over a tantivy index.  The   *)
(* writer queues deletions and additions and a commit applies them in      *)
(* order; a call that ends with an error leaves what it queued, and no     *)
(* call rolls the writer back, so a later commit applies it.  Each search  *)
(* opens a reader of the last commit.  Calls hold the writer's lock; a     *)
(* rebuild, which swaps the index and the writer under two locks, is       *)
(* modelled as the &mut self of the SearchEngine trait runs it, alone.     *)
(***************************************************************************)
EXTENDS SearchIndex, SequencesExt, StableOrder

VARIABLES
    committed,     \* the documents of the last commit, in the order of addition
    queued,        \* the writer's operations since then
    promised,      \* what the answers to the calls for each note promise
    filesGone,     \* a rebuild that failed took the files the writer builds on
    tantivyCalls

tantivyVars == <<committed, queued, promised, filesGone, tantivyCalls>>

Unknown == [unknown |-> TRUE]

TantivyInit ==
    /\ committed = << >>
    /\ queued = << >>
    /\ promised = [n \in SearchNotes |-> NotIndexed]
    /\ filesGone = FALSE
    /\ tantivyCalls = 0

DeleteTerm(n) == [op |-> "delete", note |-> n]
AddDocument(doc) == [op |-> "add", doc |-> doc]

WithOperation(docs, o) ==
    IF o.op = "add" THEN Append(docs, o.doc)
                    ELSE Kept(docs, LAMBDA doc : doc.note # o.note)

\* The commit applies the deletions to the segments there were: it needs their files.
Commit(operations) ==
    /\ ~filesGone
    /\ UNCHANGED filesGone
    /\ committed' = FoldLeft(WithOperation, committed, queued \o operations)
    /\ queued' = << >>

\* What a failed commit leaves queued: everything, or only the deletions.
CommitFails(operations) ==
    /\ queued' \in {queued \o operations,
                    Kept(queued \o operations, LAMBDA o : o.op = "delete")}
    /\ UNCHANGED <<committed, filesGone>>

Promise(n, what) ==
    /\ tantivyCalls < MaxIndexCalls
    /\ tantivyCalls' = tantivyCalls + 1
    /\ promised' = [promised EXCEPT ![n] = what]

\* Variant: the old document is not deleted.
ReplacedByAddition(n, doc) == <<AddDocument(doc)>>

Replaced(n, doc) == <<DeleteTerm(n), AddDocument(doc)>>

\* Variant: the commit is left to a later call.
TantivyIndexNoteLater(n, doc) ==
    /\ Promise(n, doc)
    /\ queued' = queued \o Replaced(n, doc)
    /\ UNCHANGED <<committed, filesGone>>

TantivyIndexNote(n, doc) ==
    /\ Promise(n, doc)
    /\ Commit(Replaced(n, doc))

\* add_document fails after delete_term was queued, or the commit fails.
TantivyIndexNoteFails(n, doc) ==
    /\ Promise(n, Unknown)
    /\ \/ queued' = Append(queued, DeleteTerm(n)) /\ UNCHANGED <<committed, filesGone>>
       \/ CommitFails(Replaced(n, doc))

TantivyRemoveNote(n) ==
    /\ Promise(n, NotIndexed)
    /\ Commit(<<DeleteTerm(n)>>)

TantivyRemoveNoteFails(n) ==
    /\ Promise(n, Unknown)
    /\ CommitFails(<<DeleteTerm(n)>>)

\* The directory is emptied and gets a new index and writer; notes are not
\* indexed again, so what was promised of them ends here.
TantivyRebuildIndex ==
    /\ tantivyCalls < MaxIndexCalls
    /\ tantivyCalls' = tantivyCalls + 1
    /\ committed' = << >>
    /\ queued' = << >>
    /\ filesGone' = FALSE
    /\ promised' = [n \in SearchNotes |-> NotIndexed]

\* The old index and writer stay in place.  If the directory could not be removed
\* nothing has changed; a failure after that leaves them without their files:
\* searches find nothing, and the writer can commit only if there were none.
TantivyRebuildFails ==
    /\ tantivyCalls < MaxIndexCalls
    /\ tantivyCalls' = tantivyCalls + 1
    /\ promised' = [n \in SearchNotes |-> Unknown]
    /\ \/ UNCHANGED <<committed, filesGone>>
       \/ committed' = << >> /\ filesGone' \in {TRUE, filesGone \/ committed # << >>}
    /\ UNCHANGED queued

\* A note of one word.
Documents(n) ==
    {[note |-> n, words |-> {word}, folder |-> folder, tags |-> tags] :
        word \in Words,
        folder \in SearchFolders \cup {NoSearchFolder},
        tags \in SUBSET SearchTags}

TantivyNext ==
    \/ \E n \in SearchNotes : \E doc \in Documents(n) :
          TantivyIndexNote(n, doc) \/ TantivyIndexNoteFails(n, doc)
    \/ \E n \in SearchNotes : TantivyRemoveNote(n) \/ TantivyRemoveNoteFails(n)
    \/ TantivyRebuildIndex \/ TantivyRebuildFails

TantivySpec == TantivyInit /\ [][TantivyNext]_tantivyVars

\* Tags are matched whole; the answer is cut at the limit and no offset is taken.
TantivySearch(word, folders, tags) ==
    {i \in DOMAIN committed :
        /\ word \in committed[i].words
        /\ folders = {} \/ committed[i].folder \in folders
        /\ tags \subseteq committed[i].tags}

-----------------------------------------------------------------------------
\* An index holds one document of a note, and a queue only what failed calls left.
TantivyTypeOK ==
    /\ \A i, j \in DOMAIN committed :
          committed[i].note = committed[j].note => i = j
    /\ queued # << >> => \E n \in SearchNotes : promised[n] = Unknown

\* A call that answered Ok holds until the next call for its note or the next
\* rebuild of the index: the note is found by its last words, folder and tags, or
\* not at all after its removal, although commits of other notes apply what failed
\* calls left in the queue.  A rebuild loses every note, and one that fails leaves
\* an index of which nothing is promised until each note is indexed again.
AnsweredStaysFound ==
    \A n \in SearchNotes :
        promised[n] # Unknown =>
            \A word \in Words, folders \in {{}} \cup {{f} : f \in SearchFolders},
               tags \in SUBSET SearchTags :
                {committed[i] : i \in
                    {j \in TantivySearch(word, folders, tags) : committed[j].note = n}}
                = {doc \in {promised[n]} :
                      /\ doc # NotIndexed
                      /\ word \in doc.words
                      /\ folders = {} \/ doc.folder \in folders
                      /\ tags \subseteq doc.tags}
=============================================================================
