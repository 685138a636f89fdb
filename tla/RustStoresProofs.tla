-------------------------- MODULE RustStoresProofs --------------------------
(***************************************************************************)
(* What TLAPS proves of the stores of rust-core for any numbers of notes,  *)
(* cards, tables, objects, users and threads: one invariant per store, on  *)
(* which no other depends, and at the end what they say together.          *)
(***************************************************************************)
EXTENDS RustStores, FunctionTheorems, FiniteSetTheorems, SequenceTheorems, TLAPS

-----------------------------------------------------------------------------
(* Rows of tables *)

\* What a DELETE leaves of a table.
LEMMA KeptRows ==
    ASSUME NEW table, NEW ids
    PROVE  /\ DOMAIN KeepRows(table, ids) = ids
           /\ \A i \in ids : KeepRows(table, ids)[i] = table[i]
BY DEF KeepRows

\* A table starts without rows.
LEMMA EmptyTable == DOMAIN NoRows = {}
BY DEF NoRows

-----------------------------------------------------------------------------
(* Notes, folders and tags *)

NotesInv == StoreTypeOK /\ LinksWhole

\* An empty store is whole.
LEMMA NotesStart == StoreInit => NotesInv
BY EmptyTable DEF StoreInit, NotesInv, StoreTypeOK, LinksWhole, NoteIdsByTag

\* A note, alone of the rows that are inserted, is named by others.
LEMMA NoteStays ==
    ASSUME NotesInv,
           NEW n \in NoteIds, CreateNote(n) \/ DeleteNote(n)
    PROVE  NotesInv' /\ NoteAppearsWhole
<1>1. CASE CreateNote(n)
  <2>1. PICK f \in FolderIds, list \in TagLists :
            /\ n \notin DOMAIN noteRows /\ ListedTags(list) \subseteq tagRows
            /\ noteRows' = InsertRow(noteRows, n, f)
            /\ noteTags' = noteTags \cup ({n} \X ListedTags(list))
            /\ createdNote' = [note |-> n, tags |-> list]
            /\ UNCHANGED <<folderRows, tagRows, attachmentRows, workspaceRows, memberRows>>
    BY <1>1 DEF CreateNote
  <2>2. /\ DOMAIN noteRows' = DOMAIN noteRows \cup {n} /\ noteRows'[n] = f
        /\ \A m \in DOMAIN noteRows \ {n} : noteRows'[m] = noteRows[m]
    BY <2>1 DEF InsertRow
  <2>. DEFINE tags == ListedTags(list)
  <2>3. tags \subseteq tagRows /\ noteTags' = noteTags \cup ({n} \X tags)
    BY <2>1
  <2>. HIDE DEF tags
  <2>4. StoreTypeOK'
    BY <2>1, <2>2, <2>3 DEF NotesInv, StoreTypeOK
  <2>5. LinksWhole'
    BY <2>1, <2>2, <2>3 DEF NotesInv, StoreTypeOK, LinksWhole, NoteIdsByTag
  <2>6. \A t \in TagIds : <<n, t>> \in noteTags' <=> t \in tags
    BY <2>1, <2>3 DEF NotesInv, LinksWhole, NoteIdsByTag
  <2>7. NoteAppearsWhole
    <3>1. createdNote'.note = n /\ ListedTags(createdNote'.tags) = tags
      BY <2>1 DEF tags
    <3>. QED
      BY <2>1, <2>2, <2>6, <3>1 DEF NoteAppearsWhole
  <2>. QED
    BY <2>4, <2>5, <2>7 DEF NotesInv
<1>2. CASE DeleteNote(n)
  <2>. DEFINE left == {a \in DOMAIN attachmentRows : attachmentRows[a] # n}
  <2>1. /\ noteRows' = KeepRows(noteRows, DOMAIN noteRows \ {n})
        /\ noteTags' = {link \in noteTags : link[1] # n}
        /\ attachmentRows' = KeepRows(attachmentRows, left)
        /\ UNCHANGED <<folderRows, tagRows, workspaceRows, memberRows>>
    BY <1>2 DEF DeleteNote, DeleteRow
  <2>2. /\ DOMAIN noteRows' = DOMAIN noteRows \ {n}
        /\ \A m \in DOMAIN noteRows' : noteRows'[m] = noteRows[m]
        /\ DOMAIN attachmentRows' = left
        /\ \A a \in left : attachmentRows'[a] = attachmentRows[a]
    BY <2>1, KeptRows
  <2>3. StoreTypeOK' /\ LinksWhole'
    BY <2>1, <2>2 DEF NotesInv, StoreTypeOK, LinksWhole, NoteIdsByTag
  <2>. QED
    BY <2>1, <2>2, <2>3 DEF NotesInv, NoteAppearsWhole
<1>. QED
  BY <1>1, <1>2

\* Folders come, change and go; the notes in one keep naming it.
LEMMA FolderStays ==
    ASSUME NotesInv,
           NEW f \in FolderIds, CreateFolder(f) \/ UpdateFolder(f) \/ DeleteFolder(f)
    PROVE  NotesInv' /\ NoteAppearsWhole
<1>1. UNCHANGED <<noteRows, tagRows, noteTags, attachmentRows, workspaceRows, memberRows>>
  BY DEF CreateFolder, UpdateFolder, DeleteFolder, WriteFolder
<1>2. \A g \in DOMAIN folderRows' : folderRows'[g] \in FolderIds \cup {NoTopFolder}
  <2>1. ASSUME NEW p \in FolderIds \cup {NoTopFolder}, folderRows' = InsertRow(folderRows, f, p)
        PROVE  \A g \in DOMAIN folderRows' : folderRows'[g] \in FolderIds \cup {NoTopFolder}
    BY <2>1 DEF InsertRow, NotesInv, StoreTypeOK
  <2>2. ASSUME folderRows' = KeepRows(folderRows, DOMAIN folderRows \ {f})
        PROVE  \A g \in DOMAIN folderRows' : folderRows'[g] \in FolderIds \cup {NoTopFolder}
    BY <2>2, KeptRows DEF NotesInv, StoreTypeOK
  <2>. QED
    BY <2>1, <2>2 DEF CreateFolder, UpdateFolder, DeleteFolder, WriteFolder, DeleteRow
<1>. QED
  BY <1>1, <1>2 DEF NotesInv, StoreTypeOK, LinksWhole, NoteIdsByTag, NoteAppearsWhole

\* A tag comes, is given to notes, and goes with what it is given to.
LEMMA TagStays ==
    ASSUME NotesInv,
           \/ \E t \in TagIds : CreateTag(t) \/ DeleteTag(t)
           \/ \E n \in NoteIds, t \in TagIds : AddTagToNote(n, t) \/ RemoveTagFromNote(n, t)
    PROVE  NotesInv' /\ NoteAppearsWhole
<1>1. UNCHANGED <<noteRows, folderRows, attachmentRows, workspaceRows, memberRows>>
  BY DEF CreateTag, DeleteTag, AddTagToNote, RemoveTagFromNote
<1>2. /\ tagRows' \subseteq TagIds
      /\ \A l \in noteTags' : /\ l \in NoteIds \X TagIds
                              /\ l[1] \in DOMAIN noteRows /\ l[2] \in tagRows'
      /\ \A t \in tagRows' \ tagRows : noteTags' = noteTags /\ t \notin tagRows
  <2>1. \A l \in noteTags : /\ l \in NoteIds \X TagIds
                            /\ l[1] \in DOMAIN noteRows /\ l[2] \in tagRows
    BY DEF NotesInv, StoreTypeOK, LinksWhole, NoteIdsByTag
  <2>2. ASSUME NEW n \in NoteIds, NEW t \in TagIds, AddTagToNote(n, t)
        PROVE  /\ noteTags' = noteTags \cup {<<n, t>>} /\ n \in DOMAIN noteRows
               /\ t \in tagRows /\ tagRows' = tagRows
    BY <2>2 DEF AddTagToNote
  <2>. QED
    BY <2>1, <2>2 DEF CreateTag, DeleteTag, RemoveTagFromNote, NotesInv, StoreTypeOK
<1>3. StoreTypeOK' /\ LinksWhole'
  BY <1>1, <1>2 DEF NotesInv, StoreTypeOK, LinksWhole, NoteIdsByTag
<1>4. NoteAppearsWhole
  BY <1>1, <1>2 DEF NotesInv, LinksWhole, NoteIdsByTag, NoteAppearsWhole
<1>. QED
  BY <1>3, <1>4 DEF NotesInv

\* Attachments come for a note there is, and go.
LEMMA AttachmentStays ==
    ASSUME NotesInv,
           NEW a \in AttachmentIds,
           DeleteAttachment(a) \/ \E n \in NoteIds : CreateAttachment(a, n)
    PROVE  NotesInv' /\ NoteAppearsWhole
<1>1. UNCHANGED <<noteRows, folderRows, tagRows, noteTags, workspaceRows, memberRows>>
  BY DEF DeleteAttachment, CreateAttachment
<1>2. /\ DOMAIN attachmentRows' \subseteq AttachmentIds
      /\ \A b \in DOMAIN attachmentRows' : attachmentRows'[b] \in DOMAIN noteRows
  <2>1. ASSUME NEW n \in NoteIds, CreateAttachment(a, n)
        PROVE  n \in DOMAIN noteRows /\ attachmentRows' = InsertRow(attachmentRows, a, n)
    BY <2>1 DEF CreateAttachment
  <2>2. DeleteAttachment(a) =>
            attachmentRows' = KeepRows(attachmentRows, DOMAIN attachmentRows \ {a})
    BY DEF DeleteAttachment, DeleteRow
  <2>. QED
    BY <2>1, <2>2, KeptRows DEF InsertRow, NotesInv, StoreTypeOK, LinksWhole
<1>. QED
  BY <1>1, <1>2 DEF NotesInv, StoreTypeOK, LinksWhole, NoteIdsByTag, NoteAppearsWhole

\* Members come for a workspace there is, and go with it.
LEMMA WorkspaceStays ==
    ASSUME NotesInv,
           \/ \E w \in WorkspaceIds :
                 \/ CreateWorkspace(w) \/ DeleteWorkspace(w)
                 \/ \E m \in MemberIds : CreateWorkspaceMember(m, w)
           \/ \E m \in MemberIds : DeleteWorkspaceMember(m)
    PROVE  NotesInv' /\ NoteAppearsWhole
<1>1. UNCHANGED <<noteRows, folderRows, tagRows, noteTags, attachmentRows>>
  BY DEF CreateWorkspace, DeleteWorkspace, CreateWorkspaceMember, DeleteWorkspaceMember
<1>. DEFINE Fine == /\ workspaceRows' \subseteq WorkspaceIds
                    /\ DOMAIN memberRows' \subseteq MemberIds
                    /\ \A k \in DOMAIN memberRows' : memberRows'[k] \in workspaceRows'
<1>2. ASSUME NEW w \in WorkspaceIds, CreateWorkspace(w) PROVE Fine
  BY <1>2 DEF CreateWorkspace, NotesInv, StoreTypeOK, LinksWhole
<1>3. ASSUME NEW w \in WorkspaceIds, DeleteWorkspace(w) PROVE Fine
  <2>. DEFINE left == {m \in DOMAIN memberRows : memberRows[m] # w}
  <2>1. memberRows' = KeepRows(memberRows, left) /\ workspaceRows' = workspaceRows \ {w}
    BY <1>3 DEF DeleteWorkspace
  <2>2. DOMAIN memberRows' = left /\ \A m \in left : memberRows'[m] = memberRows[m]
    BY <2>1, KeptRows
  <2>. QED
    BY <2>1, <2>2 DEF NotesInv, StoreTypeOK, LinksWhole
<1>4. ASSUME NEW w \in WorkspaceIds, NEW m \in MemberIds, CreateWorkspaceMember(m, w)
      PROVE  Fine
  <2>1. /\ memberRows' = InsertRow(memberRows, m, w) /\ w \in workspaceRows
        /\ workspaceRows' = workspaceRows
    BY <1>4 DEF CreateWorkspaceMember
  <2>. QED
    BY <2>1 DEF InsertRow, NotesInv, StoreTypeOK, LinksWhole
<1>5. ASSUME NEW m \in MemberIds, DeleteWorkspaceMember(m) PROVE Fine
  <2>1. /\ memberRows' = KeepRows(memberRows, DOMAIN memberRows \ {m})
        /\ workspaceRows' = workspaceRows
    BY <1>5 DEF DeleteWorkspaceMember, DeleteRow
  <2>. QED
    BY <2>1, KeptRows DEF NotesInv, StoreTypeOK, LinksWhole
<1>6. Fine
  BY <1>2, <1>3, <1>4, <1>5
<1>. QED
  BY <1>1, <1>6 DEF NotesInv, StoreTypeOK, LinksWhole, NoteIdsByTag, NoteAppearsWhole

\* A note comes with all its tags or not at all, and takes its rows with it.
LEMMA NotesKeep ==
    ASSUME NotesInv, [StoreNext]_storeVars
    PROVE  NotesInv' /\ NoteAppearsWhole
<1>1. CASE UNCHANGED storeVars
  BY <1>1 DEF storeVars, NotesInv, StoreTypeOK, LinksWhole, NoteIdsByTag, NoteAppearsWhole
<1>2. CASE StoreNext
  BY <1>2, NoteStays, FolderStays, TagStays, AttachmentStays, WorkspaceStays
  DEF StoreNext
<1>. QED
  BY <1>1, <1>2

-----------------------------------------------------------------------------
(* The encrypted notes *)

KeySpace == Passwords \X Nat

SealedRows ==
    [content : [key : KeySpace, text : SealedTexts], encrypted : {TRUE}]
      \cup [content : SealedTexts, encrypted : {FALSE}]

VaultSound ==
    /\ salts \in Nat /\ vaultKey \in Keys /\ vaultSalt \in 0..salts
    /\ sealed = [n \in DOMAIN sealed |-> sealed[n]] /\ DOMAIN sealed \subseteq SealedNotes
    /\ \A n \in DOMAIN sealed :
          /\ sealed[n] \in SealedRows
          /\ sealed[n].encrypted => sealed[n].content.key \in Passwords \X (1..salts)

KeeperStarted(c) ==
    /\ c = [step |-> c.step, key |-> c.key, salt |-> c.salt]
    /\ c.step \in {"key", "salt"} /\ c.key \in Keys /\ c.salt \in 0..salts
    /\ IF c.key = NoKey THEN c.salt = NoSalt ELSE c.key[2] = c.salt

\* A key that is not stored yet is nobody's: neither in the vault, nor on its way
\* by another call, nor the one a read began under.
KeepersSound ==
    /\ keepers = [k \in VaultKeepers |-> keepers[k]]
    /\ \A k \in VaultKeepers : keepers[k] = NotKeeping \/ KeeperStarted(keepers[k])
    /\ \A k \in VaultKeepers : keepers[k].step = "key" /\ keepers[k].key # NoKey =>
          /\ keepers[k].key # vaultKey
          /\ \A l \in VaultKeepers \ {k} : keepers[l].step = "key" =>
                keepers[l].key # keepers[k].key
          /\ \A r \in VaultReaders : readers[r].step # "idle" =>
                readers[r].keyAtStart # keepers[k].key

\* The vault holds the key the read began under, and it opens all of its rows.
Steady(rd) ==
    /\ vaultKey # NoKey /\ rd.keyAtStart = vaultKey
    /\ \A i \in DOMAIN rd.rows : rd.rows[i].encrypted => rd.rows[i].content.key = vaultKey

\* A read that has begun has answered rows in their order, by text or blank.
ReadStarted(rd) ==
    /\ rd = [step |-> rd.step, rows |-> rd.rows, answer |-> rd.answer,
             keyAtStart |-> rd.keyAtStart]
    /\ rd.step \in {"check", "decrypt", "answered", "failed"} /\ rd.keyAtStart \in Keys
    /\ rd.rows \in Seq(SealedRows) /\ rd.answer \in Seq(SealedTexts \cup {Blank})
    /\ Len(rd.answer) <= Len(rd.rows)
    /\ rd.step \in {"check", "decrypt"} => Len(rd.answer) < Len(rd.rows)
    /\ rd.step = "answered" => Len(rd.answer) = Len(rd.rows)
    /\ rd.step = "decrypt" => rd.rows[Len(rd.answer) + 1].encrypted
    /\ \A i \in 1..Len(rd.answer) :
          IF rd.rows[i].encrypted THEN rd.answer[i] \in {rd.rows[i].content.text, Blank}
                                  ELSE rd.answer[i] \in SealedTexts
    /\ Steady(rd) => \A i \in 1..Len(rd.answer) : rd.answer[i] # Blank

ReadersSound ==
    /\ readers = [r \in VaultReaders |-> readers[r]]
    /\ \A r \in VaultReaders : readers[r] = NotReadingNotes \/ ReadStarted(readers[r])

VaultInv == VaultSound /\ KeepersSound /\ ReadersSound

\* The tables a vault may begin with are sound.
LEMMA VaultStart == VaultInit => VaultInv
<1>. SUFFICES ASSUME VaultInit PROVE VaultInv
  OBVIOUS
<1>1. VaultSound
  <2>1. PICK plain \in SUBSET SealedNotes, t \in SealedTexts :
           sealed = [n \in plain |-> [content |-> t, encrypted |-> FALSE]]
    BY DEF VaultInit
  <2>2. /\ DOMAIN sealed = plain /\ sealed = [n \in DOMAIN sealed |-> sealed[n]]
        /\ \A n \in plain : sealed[n] = [content |-> t, encrypted |-> FALSE]
    BY <2>1
  <2>3. /\ [content |-> t, encrypted |-> FALSE] \in SealedRows
        /\ ~[content |-> t, encrypted |-> FALSE].encrypted
    BY DEF SealedRows
  <2>4. salts = 0 /\ vaultKey \in Keys /\ vaultSalt = 0
    BY DEF VaultInit, Keys, NoSalt
  <2>5. \A n \in DOMAIN sealed : sealed[n] \in SealedRows /\ ~sealed[n].encrypted
    BY <2>2, <2>3
  <2>. QED
    BY <2>2, <2>4, <2>5 DEF VaultSound
<1>2. KeepersSound /\ ReadersSound
  BY DEF VaultInit, KeepersSound, ReadersSound, NotKeeping
<1>. QED
  BY <1>1, <1>2 DEF VaultInv

-----------------------------------------------------------------------------
(* The encrypted notes: the calls *)

\* With more salts there are more keys, and those there were stay keys.
LEMMA KeysGrow ==
    ASSUME VaultInv, salts' \in {salts, salts + 1}
    PROVE  /\ Keys \subseteq Keys' /\ 0..salts \subseteq 0..salts'
           /\ Passwords \X (1..salts) \subseteq Passwords \X (1..salts')
BY DEF VaultInv, VaultSound, Keys

\* Readers do not notice a step that keeps the key.
LEMMA ReadersStay ==
    ASSUME VaultInv, readers' = readers, vaultKey' = vaultKey, Keys \subseteq Keys'
    PROVE  ReadersSound'
<1>1. ASSUME NEW r \in VaultReaders, ReadStarted(readers[r]) PROVE ReadStarted(readers[r])'
  BY <1>1 DEF ReadStarted, Steady
<1>. QED
  BY <1>1 DEF VaultInv, ReadersSound

\* A new key has a salt of its own.
LEMMA DeriveKeeps ==
    ASSUME VaultInv, NEW k \in VaultKeepers, NEW p \in Passwords, DeriveNewKey(k, p)
    PROVE  VaultInv'
<1>. DEFINE key == <<p, salts + 1>>
            c == [step |-> "key", key |-> key, salt |-> salts + 1]
<1>1. /\ salts' = salts + 1 /\ keepers' = [keepers EXCEPT ![k] = c]
      /\ UNCHANGED <<vaultKey, vaultSalt, sealed, readers, seals>>
  BY DEF DeriveNewKey, DeriveKey
<1>2. salts \in Nat
  BY DEF VaultInv, VaultSound
<1>3. /\ Keys \subseteq Keys' /\ 0..salts \subseteq 0..salts'
      /\ Passwords \X (1..salts) \subseteq Passwords \X (1..salts')
  BY <1>1, KeysGrow
<1>4. VaultSound'
  BY <1>1, <1>2, <1>3 DEF VaultInv, VaultSound
<1>5. key \in Keys' /\ key # NoKey /\ key[2] = salts' /\ salts' \in 0..salts'
  BY <1>1, <1>2 DEF Keys, NoKey
<1>6. \A old \in Keys : old # key
  <2>1. \A old \in Passwords \X (1..salts) : old[2] # key[2]
    BY <1>2
  <2>. QED
    BY <1>5, <2>1 DEF Keys
<1>. HIDE DEF key
<1>7. KeepersSound'
  <2>1. /\ keepers' = [l \in VaultKeepers |-> keepers'[l]] /\ keepers'[k] = c
        /\ \A l \in VaultKeepers \ {k} : keepers'[l] = keepers[l]
    BY <1>1 DEF VaultInv, KeepersSound
  <2>2. KeeperStarted(keepers[k])'
    <3>1. keepers'[k] = [step |-> "key", key |-> key, salt |-> salts']
      BY <1>1, <2>1
    <3>2. keepers'[k] = [step |-> keepers'[k].step, key |-> keepers'[k].key, salt |-> keepers'[k].salt]
      BY <3>1
    <3>. QED
      BY <1>5, <3>1, <3>2 DEF KeeperStarted
  <2>3. \A l \in VaultKeepers : keepers'[l] = NotKeeping \/ KeeperStarted(keepers[l])'
    BY <1>3, <2>1, <2>2 DEF VaultInv, KeepersSound, KeeperStarted
  <2>4. \A l \in VaultKeepers : keepers[l].step = "key" => keepers[l].key \in Keys
    BY DEF VaultInv, KeepersSound, KeeperStarted, NotKeeping
  <2>5. vaultKey \in Keys
        /\ \A r \in VaultReaders : readers[r].step # "idle" => readers[r].keyAtStart \in Keys
    BY DEF VaultInv, VaultSound, ReadersSound, ReadStarted, NotReadingNotes
  <2>6. c.step = "key" /\ c.key = key
    OBVIOUS
  <2>. HIDE DEF c
  <2>. QED
    BY <1>1, <1>6, <2>1, <2>3, <2>4, <2>5, <2>6 DEF VaultInv, KeepersSound
<1>8. ReadersSound'
  BY <1>1, <1>3, ReadersStay
<1>. QED
  BY <1>4, <1>7, <1>8 DEF VaultInv

\* Clearing stores no key.
LEMMA ClearKeeps ==
    ASSUME VaultInv, NEW k \in VaultKeepers, ClearKey(k)
    PROVE  VaultInv'
<1>. DEFINE c == [step |-> "key", key |-> NoKey, salt |-> NoSalt]
<1>1. /\ keepers' = [keepers EXCEPT ![k] = c]
      /\ UNCHANGED <<vaultKey, vaultSalt, salts, sealed, readers, seals>>
  BY DEF ClearKey
<1>2. KeeperStarted(c)' /\ c.step = "key" /\ c.key = NoKey
  BY <1>1 DEF VaultInv, VaultSound, KeeperStarted, Keys, NoSalt
<1>. HIDE DEF c
<1>3. /\ keepers' = [l \in VaultKeepers |-> keepers'[l]] /\ keepers'[k] = c
      /\ \A l \in VaultKeepers \ {k} : keepers'[l] = keepers[l]
  BY <1>1 DEF VaultInv, KeepersSound
<1>4. Keys' = Keys
  BY <1>1 DEF Keys
<1>5. \A l \in VaultKeepers : keepers'[l] = NotKeeping \/ KeeperStarted(keepers[l])'
  <2>1. KeeperStarted(keepers[k])'
    BY <1>2, <1>3 DEF KeeperStarted
  <2>. QED
    BY <1>1, <1>3, <1>4, <2>1 DEF VaultInv, KeepersSound, KeeperStarted
<1>6. KeepersSound'
  BY <1>1, <1>2, <1>3, <1>5 DEF VaultInv, KeepersSound
<1>7. VaultSound' /\ ReadersSound'
  BY <1>1, <1>4, ReadersStay DEF VaultInv, VaultSound
<1>. QED
  BY <1>6, <1>7 DEF VaultInv

\* No read began under the key that is stored now.
LEMMA StoreKeyKeeps ==
    ASSUME VaultInv, NEW k \in VaultKeepers, StoreKey(k)
    PROVE  VaultInv'
<1>. DEFINE c == keepers[k]
            d == [step |-> "salt", key |-> c.key, salt |-> c.salt]
<1>1. /\ c.step = "key" /\ vaultKey' = c.key
      /\ UNCHANGED <<vaultSalt, salts, sealed, readers, seals>>
      /\ keepers' = [keepers EXCEPT ![k].step = "salt"]
  BY DEF StoreKey
<1>2. KeeperStarted(c)
  BY <1>1 DEF VaultInv, KeepersSound, NotKeeping
<1>3. Keys' = Keys
  BY <1>1 DEF Keys
<1>4. /\ keepers' = [l \in VaultKeepers |-> keepers'[l]]
      /\ \A l \in VaultKeepers \ {k} : keepers'[l] = keepers[l]
  BY <1>1 DEF VaultInv, KeepersSound
<1>5. keepers'[k] = d
  <2>1. keepers'[k] = [c EXCEPT !.step = "salt"]
    BY <1>1 DEF VaultInv, KeepersSound
  <2>. DEFINE s == c.step
              x == c.key
              y == c.salt
  <2>2. c = [step |-> s, key |-> x, salt |-> y]
    BY <1>2 DEF KeeperStarted
  <2>. HIDE DEF c, s, x, y
  <2>3. keepers'[k] = [step |-> "salt", key |-> x, salt |-> y]
    BY <2>1, <2>2
  <2>. QED
    BY <2>3 DEF x, y
<1>6. KeeperStarted(keepers[k])'
  <2>1. d.step = "salt" /\ d.key = c.key /\ d.salt = c.salt
    OBVIOUS
  <2>2. keepers'[k] = [step |-> keepers'[k].step, key |-> keepers'[k].key, salt |-> keepers'[k].salt]
    BY <1>5
  <2>. HIDE DEF c, d
  <2>. QED
    BY <1>1, <1>2, <1>3, <1>5, <2>1, <2>2 DEF KeeperStarted
<1>7. KeepersSound'
  <2>1. keepers'[k].step # "key"
    BY <1>5
  <2>2. \A l \in VaultKeepers : keepers'[l] = NotKeeping \/ KeeperStarted(keepers[l])'
    BY <1>1, <1>3, <1>4, <1>6 DEF VaultInv, KeepersSound, KeeperStarted
  <2>. QED
    BY <1>1, <1>4, <2>1, <2>2 DEF VaultInv, KeepersSound
<1>8. ReadersSound'
  <2>1. ASSUME NEW r \in VaultReaders, ReadStarted(readers[r]) PROVE ReadStarted(readers[r])'
    <3>1. readers[r].step # "idle"
      BY <2>1 DEF ReadStarted
    <3>2. c.key = NoKey \/ readers[r].keyAtStart # c.key
      BY <1>1, <3>1 DEF VaultInv, KeepersSound
    <3>3. ~Steady(readers[r])'
      BY <1>1, <3>2 DEF Steady
    <3>. QED
      BY <1>1, <1>3, <2>1, <3>3 DEF ReadStarted
  <2>. QED
    BY <1>1, <2>1 DEF VaultInv, ReadersSound
<1>9. VaultSound'
  BY <1>1, <1>2, <1>3 DEF VaultInv, VaultSound, KeeperStarted
<1>. QED
  BY <1>7, <1>8, <1>9 DEF VaultInv

\* The second half of a change of the password writes the salt.
LEMMA StoreSaltKeeps ==
    ASSUME VaultInv, NEW k \in VaultKeepers, StoreSalt(k)
    PROVE  VaultInv'
<1>1. /\ keepers[k].step = "salt" /\ vaultSalt' = keepers[k].salt
      /\ keepers' = [keepers EXCEPT ![k] = NotKeeping]
      /\ UNCHANGED <<vaultKey, salts, sealed, readers, seals>>
  BY DEF StoreSalt
<1>2. Keys' = Keys /\ vaultSalt' \in 0..salts
  BY <1>1 DEF VaultInv, KeepersSound, KeeperStarted, Keys, NotKeeping
<1>3. KeepersSound'
  <2>1. /\ keepers' = [l \in VaultKeepers |-> keepers'[l]] /\ keepers'[k] = NotKeeping
        /\ \A l \in VaultKeepers \ {k} : keepers'[l] = keepers[l]
    BY <1>1 DEF VaultInv, KeepersSound
  <2>2. NotKeeping.step # "key"
    BY DEF NotKeeping
  <2>3. \A l \in VaultKeepers : keepers'[l] = NotKeeping \/ KeeperStarted(keepers[l])'
    BY <1>1, <1>2, <2>1 DEF VaultInv, KeepersSound, KeeperStarted
  <2>. QED
    BY <1>1, <2>1, <2>2, <2>3 DEF VaultInv, KeepersSound
<1>4. VaultSound' /\ ReadersSound'
  BY <1>1, <1>2, ReadersStay DEF VaultInv, VaultSound
<1>. QED
  BY <1>3, <1>4 DEF VaultInv

\* A note is written under the key of the vault.
LEMMA SealKeeps ==
    ASSUME VaultInv, NEW n \in SealedNotes,
           \/ \E t \in SealedTexts : CreateSealedNote(n, t) \/ UpdateSealedNote(n, t)
           \/ DeleteSealedNote(n)
    PROVE  VaultInv'
<1>1. UNCHANGED <<vaultKey, vaultSalt, salts, keepers, readers>>
  BY DEF CreateSealedNote, UpdateSealedNote, DeleteSealedNote, Exclusive
<1>2. Keys' = Keys
  BY <1>1 DEF Keys
<1>3. VaultSound'
  <2>1. ASSUME NEW t \in SealedTexts, CreateSealedNote(n, t) \/ UpdateSealedNote(n, t)
        PROVE  VaultSound'
    <3>. DEFINE row == [content |-> Cipher(vaultKey, t), encrypted |-> TRUE]
    <3>1. vaultKey \in Passwords \X (1..salts) /\ salts \in Nat
      BY <2>1 DEF CreateSealedNote, UpdateSealedNote, IsUnlocked, VaultInv, VaultSound, Keys
    <3>2. row \in SealedRows /\ row.encrypted /\ row.content.key = vaultKey
      BY <3>1 DEF Cipher, SealedRows, KeySpace
    <3>3. /\ sealed' = [m \in DOMAIN sealed' |-> sealed'[m]]
          /\ DOMAIN sealed' = DOMAIN sealed \cup {n} /\ sealed'[n] = row
          /\ \A m \in DOMAIN sealed \ {n} : sealed'[m] = sealed[m]
      <4>1. sealed' = InsertRow(sealed, n, row)
              \/ (n \in DOMAIN sealed /\ sealed' = [sealed EXCEPT ![n] = row])
        BY <2>1 DEF CreateSealedNote, UpdateSealedNote
      <4>. HIDE DEF row
      <4>. QED
        BY <4>1 DEF InsertRow, VaultInv, VaultSound
    <3>. HIDE DEF row
    <3>. QED
      BY <1>1, <1>2, <3>1, <3>2, <3>3 DEF VaultInv, VaultSound
  <2>2. ASSUME DeleteSealedNote(n) PROVE VaultSound'
    <3>. DEFINE left == DOMAIN sealed \ {n}
    <3>1. sealed' = KeepRows(sealed, left)
      BY <2>2 DEF DeleteSealedNote, DeleteRow
    <3>2. /\ DOMAIN sealed' = left /\ sealed' = [m \in left |-> sealed'[m]]
          /\ \A m \in left : sealed'[m] = sealed[m]
      BY <3>1, KeptRows DEF KeepRows
    <3>. QED
      BY <1>1, <1>2, <3>2 DEF VaultInv, VaultSound
  <2>. QED
    BY <2>1, <2>2
<1>4. KeepersSound'
  BY <1>1, <1>2 DEF VaultInv, KeepersSound, KeeperStarted
<1>5. ReadersSound'
  BY <1>1, <1>2, ReadersStay
<1>. QED
  BY <1>3, <1>4, <1>5 DEF VaultInv

\* A read fetches rows of the table, under the key of that moment.
LEMMA FetchKeeps ==
    ASSUME VaultInv, NEW r \in VaultReaders, GetSealedNote(r) \/ ListSealedNotes(r)
    PROVE  VaultInv'
<1>1. PICK held \in Seq(SealedRows) : Fetch(r, held)
  <2>1. ASSUME NEW n \in DOMAIN sealed, Fetch(r, <<sealed[n]>>)
        PROVE  \E held \in Seq(SealedRows) : Fetch(r, held)
    <3>1. ASSUME NEW x \in SealedRows PROVE <<x>> \in Seq(SealedRows)
      OBVIOUS
    <3>2. sealed[n] \in SealedRows
      BY DEF VaultInv, VaultSound
    <3>. QED
      BY <2>1, <3>1, <3>2
  <2>2. ASSUME NEW order \in [1..Cardinality(DOMAIN sealed) -> DOMAIN sealed],
               Fetch(r, [i \in DOMAIN order |-> sealed[order[i]]])
        PROVE  \E held \in Seq(SealedRows) : Fetch(r, held)
    <3>. DEFINE n == Cardinality(DOMAIN sealed)
                list == [i \in DOMAIN order |-> sealed[order[i]]]
    <3>1. n \in Nat
      BY VaultAssumption, FS_Subset, FS_CardinalityType DEF VaultInv, VaultSound
    <3>. HIDE DEF n
    <3>2. list \in [1..n -> SealedRows]
      BY <2>2 DEF VaultInv, VaultSound, n
    <3>3. list \in Seq(SealedRows)
      <4>. HIDE DEF list
      <4>. QED
        BY <3>1, <3>2
    <3>. QED
      BY <2>2, <3>3
  <2>. QED
    BY <2>1, <2>2 DEF GetSealedNote, ListSealedNotes
<1>. DEFINE rd == [step |-> IF held = << >> THEN "answered" ELSE "check",
                   rows |-> held, answer |-> << >>, keyAtStart |-> vaultKey]
<1>2. /\ readers' = [readers EXCEPT ![r] = rd]
      /\ UNCHANGED <<vaultKey, vaultSalt, salts, sealed, keepers>>
  BY <1>1 DEF Fetch
<1>3. Keys' = Keys /\ vaultKey \in Keys
  BY <1>2 DEF Keys, VaultInv, VaultSound
<1>4. ReadStarted(rd) /\ rd.keyAtStart = vaultKey
  <2>1. << >> \in Seq(SealedTexts \cup {Blank}) /\ Len(<< >>) = 0
    OBVIOUS
  <2>2. Len(held) \in Nat /\ (held = << >> <=> Len(held) = 0)
    BY EmptySeq
  <2>. QED
    BY <1>3, <2>1, <2>2 DEF ReadStarted
<1>. HIDE DEF rd
<1>5. /\ readers' = [q \in VaultReaders |-> readers'[q]] /\ readers'[r] = rd
      /\ \A q \in VaultReaders \ {r} : readers'[q] = readers[q]
  BY <1>2 DEF VaultInv, ReadersSound
<1>6. ReadersSound'
  <2>1. ASSUME NEW q \in VaultReaders, NEW d, d = readers'[q], ReadStarted(d)
        PROVE  ReadStarted(readers[q])'
    BY <1>2, <1>3, <2>1 DEF ReadStarted, Steady
  <2>2. \A q \in VaultReaders : readers'[q] = NotReadingNotes \/ ReadStarted(readers'[q])
    BY <1>4, <1>5 DEF VaultInv, ReadersSound
  <2>. QED
    BY <1>5, <2>1, <2>2 DEF ReadersSound
<1>7. KeepersSound'
  BY <1>2, <1>3, <1>4, <1>5 DEF VaultInv, KeepersSound, KeeperStarted
<1>8. VaultSound'
  BY <1>2, <1>3 DEF VaultInv, VaultSound
<1>. QED
  BY <1>6, <1>7, <1>8 DEF VaultInv

\* One more row of a read is answered.
MayAnswer(rd, item) ==
    LET row == rd.rows[Len(rd.answer) + 1]
    IN  IF row.encrypted THEN /\ item \in {row.content.text, Blank}
                              /\ item = Blank => ~Steady(rd)
                         ELSE item = row.content

\* What a row holds, by its flag.
LEMMA RowTexts ==
    ASSUME NEW row \in SealedRows
    PROVE  IF row.encrypted THEN row.content.text \in SealedTexts /\ row.content.text # Blank
                            ELSE row.content \in SealedTexts /\ row.content # Blank
BY VaultAssumption DEF SealedRows

\* An answer that fits its row makes the answers one longer, the last one ends the read.
LEMMA AnswerSound ==
    ASSUME NEW rd, ReadStarted(rd), rd.step \in {"check", "decrypt"},
           NEW item, MayAnswer(rd, item), NEW last \in BOOLEAN,
           last = (Len(rd.answer) + 1 = Len(rd.rows)),
           NEW new, new = [step |-> IF last THEN "answered" ELSE "check",
                           rows |-> rd.rows, answer |-> Append(rd.answer, item),
                           keyAtStart |-> rd.keyAtStart]
    PROVE  ReadStarted(new)
<1>. DEFINE held == rd.rows
            n == Len(rd.answer)
            answer == Append(rd.answer, item)
<1>1. /\ held \in Seq(SealedRows) /\ rd.answer \in Seq(SealedTexts \cup {Blank})
      /\ n \in Nat /\ Len(held) \in Nat /\ n < Len(held)
  BY DEF ReadStarted
<1>2. held[n + 1] \in SealedRows
  BY <1>1
<1>3. item \in SealedTexts \cup {Blank}
  BY <1>2, RowTexts DEF MayAnswer
<1>4. /\ answer \in Seq(SealedTexts \cup {Blank}) /\ Len(answer) = n + 1
      /\ \A i \in 1..n : answer[i] = rd.answer[i]
      /\ answer[n + 1] = item
  BY <1>1, <1>3
<1>5. /\ new.step = (IF last THEN "answered" ELSE "check") /\ new.rows = held
      /\ new.answer = answer /\ new.keyAtStart = rd.keyAtStart
      /\ new = [step |-> new.step, rows |-> new.rows, answer |-> new.answer,
                keyAtStart |-> new.keyAtStart]
  OBVIOUS
<1>6. rd.keyAtStart \in Keys /\ (Steady(new) <=> Steady(rd))
  BY <1>5 DEF ReadStarted, Steady
<1>7. \A i \in 1..(n + 1) :
          IF held[i].encrypted THEN answer[i] \in {held[i].content.text, Blank}
                               ELSE answer[i] \in SealedTexts
  <2>1. \A i \in 1..n :
          IF held[i].encrypted THEN answer[i] \in {held[i].content.text, Blank}
                               ELSE answer[i] \in SealedTexts
    BY <1>4 DEF ReadStarted
  <2>2. IF held[n + 1].encrypted THEN item \in {held[n + 1].content.text, Blank}
                                 ELSE item \in SealedTexts
    BY <1>2, RowTexts DEF MayAnswer
  <2>. HIDE DEF n, answer, held
  <2>. QED
    BY <1>1, <1>4, <2>1, <2>2
<1>8. Steady(rd) => \A i \in 1..(n + 1) : answer[i] # Blank
  <2>1. Steady(rd) => \A i \in 1..n : answer[i] # Blank
    BY <1>4 DEF ReadStarted
  <2>2. Steady(rd) => item # Blank
    BY <1>2, RowTexts DEF MayAnswer
  <2>. HIDE DEF n, answer, held
  <2>. QED
    BY <1>1, <1>4, <2>1, <2>2
<1>9. last = (n + 1 = Len(held))
  OBVIOUS
<1>. HIDE DEF n, answer, held
<1>10. /\ new.step \in {"check", "answered"} /\ n + 1 <= Len(held)
       /\ new.step = "check" => n + 1 < Len(held)
       /\ new.step = "answered" => n + 1 = Len(held)
  <2>1. \/ new.step = "answered" /\ n + 1 = Len(held)
        \/ new.step = "check" /\ n + 1 # Len(held)
    BY <1>5, <1>9, Zenon
  <2>2. n + 1 <= Len(held) /\ (n + 1 # Len(held) => n + 1 < Len(held))
    BY <1>1
  <2>. QED
    BY <2>1, <2>2
<1>11. ASSUME NEW d, d.step = new.step, d.rows = held, d.answer = answer,
              d.keyAtStart = rd.keyAtStart, Steady(d) <=> Steady(rd),
              d = [step |-> d.step, rows |-> d.rows, answer |-> d.answer,
                   keyAtStart |-> d.keyAtStart]
       PROVE  ReadStarted(d)
  BY <1>1, <1>4, <1>6, <1>7, <1>8, <1>10, <1>11 DEF ReadStarted
<1>. QED
  BY <1>5, <1>6, <1>11

\* A row is answered, or the whole read is refused; not when the key is steady.
LEMMA ReadKeeps ==
    ASSUME VaultInv, NEW r \in VaultReaders, CheckUnlocked(r) \/ DecryptContent(r)
    PROVE  /\ VaultInv'
           /\ ReadStarted(readers'[r])
           /\ \A q \in VaultReaders \ {r} : readers'[q] = readers[q]
           /\ Steady(readers[r]) => readers'[r].step # "failed" /\ Steady(readers'[r])
<1>. DEFINE rd == readers[r]
            row == NextRow(r)
<1>1. /\ ReadStarted(rd) /\ rd.step \in {"check", "decrypt"}
      /\ UNCHANGED <<vaultKey, vaultSalt, salts, sealed, keepers, seals>>
  BY DEF VaultInv, ReadersSound, NotReadingNotes, CheckUnlocked, DecryptContent
<1>2. Keys' = Keys
  BY <1>1 DEF Keys
<1>3. /\ row = rd.rows[Len(rd.answer) + 1] /\ row \in SealedRows
      /\ Len(rd.answer) + 1 \in DOMAIN rd.rows
  BY <1>1 DEF ReadStarted, NextRow
<1>4. PICK new : /\ readers' = [readers EXCEPT ![r] = new] /\ ReadStarted(new)
                 /\ new.keyAtStart = rd.keyAtStart /\ new.rows = rd.rows
                 /\ Steady(rd) => new.step # "failed"
  <2>. DEFINE With(s) == [step |-> s, rows |-> rd.rows, answer |-> rd.answer,
                          keyAtStart |-> rd.keyAtStart]
  <2>1. \A s : [readers EXCEPT ![r].step = s] = [readers EXCEPT ![r] = With(s)]
    <3>. SUFFICES ASSUME NEW s
                  PROVE  [readers EXCEPT ![r].step = s] = [readers EXCEPT ![r] = With(s)]
      OBVIOUS
    <3>1. [readers EXCEPT ![r].step = s] = [readers EXCEPT ![r] = [rd EXCEPT !.step = s]]
      BY DEF VaultInv, ReadersSound
    <3>. DEFINE a == rd.step
                b == rd.rows
                c == rd.answer
                d == rd.keyAtStart
    <3>2. rd = [step |-> a, rows |-> b, answer |-> c, keyAtStart |-> d]
      BY <1>1 DEF ReadStarted
    <3>3. [rd EXCEPT !.step = s] = [step |-> s, rows |-> b, answer |-> c, keyAtStart |-> d]
      <4>. HIDE DEF rd, a, b, c, d
      <4>. QED
        BY <3>2
    <3>. QED
      BY <3>1, <3>3
  <2>2. ASSUME NEW item, MayAnswer(rd, item), readers' = Answered(r, item)
        PROVE  \E new : /\ readers' = [readers EXCEPT ![r] = new] /\ ReadStarted(new)
                        /\ new.keyAtStart = rd.keyAtStart /\ new.rows = rd.rows
                        /\ Steady(rd) => new.step # "failed"
    <3>. DEFINE last == Len(rd.answer) + 1 = Len(rd.rows)
                to == IF last THEN "answered" ELSE "check"
                new == [step |-> to, rows |-> rd.rows, answer |-> Append(rd.answer, item),
                        keyAtStart |-> rd.keyAtStart]
    <3>. DEFINE x == Append(rd.answer, item)
                a == rd.step
                b == rd.rows
                c == rd.answer
                d == rd.keyAtStart
    <3>1. readers' = [readers EXCEPT ![r].answer = x, ![r].step = to]
      BY <2>2 DEF Answered
    <3>2. readers' = [readers EXCEPT ![r] = new]
      <4>1. ASSUME NEW y, NEW z
            PROVE  [readers EXCEPT ![r].answer = y, ![r].step = z]
                     = [readers EXCEPT ![r] = [step |-> z, rows |-> b, answer |-> y,
                                               keyAtStart |-> d]]
        <5>1. rd = [step |-> a, rows |-> b, answer |-> c, keyAtStart |-> d]
          BY <1>1 DEF ReadStarted
        <5>2. [[readers EXCEPT ![r].answer = y] EXCEPT ![r].step = z]
                = [readers EXCEPT ![r] = [[rd EXCEPT !.answer = y] EXCEPT !.step = z]]
          BY DEF VaultInv, ReadersSound
        <5>3. [rd EXCEPT !.answer = y] = [step |-> a, rows |-> b, answer |-> y, keyAtStart |-> d]
          <6>. HIDE DEF rd, a, b, c, d
          <6>. QED
            BY <5>1
        <5>4. [[step |-> a, rows |-> b, answer |-> y, keyAtStart |-> d] EXCEPT !.step = z]
                = [step |-> z, rows |-> b, answer |-> y, keyAtStart |-> d]
          <6>. HIDE DEF rd, a, b, c, d
          <6>. QED
            OBVIOUS
        <5>. QED
          BY <5>2, <5>3, <5>4
      <4>2. [readers EXCEPT ![r].answer = x, ![r].step = to]
              = [readers EXCEPT ![r] = [step |-> to, rows |-> b, answer |-> x,
                                        keyAtStart |-> d]]
        <5>. HIDE DEF x, to
        <5>. QED
          BY <4>1
      <4>. QED
        BY <3>1, <4>2
    <3>3. ReadStarted(new)
      <4>. HIDE DEF rd
      <4>. QED
        BY <1>1, <2>2, AnswerSound
    <3>4. new.keyAtStart = rd.keyAtStart /\ new.rows = rd.rows /\ new.step # "failed"
      OBVIOUS
    <3>. QED
      BY <3>2, <3>3, <3>4
  <2>3. ASSUME NEW s \in {"decrypt", "failed"}, s = "decrypt" => row.encrypted,
               s = "failed" => ~Steady(rd), readers' = [readers EXCEPT ![r].step = s]
        PROVE  \E new : /\ readers' = [readers EXCEPT ![r] = new] /\ ReadStarted(new)
                        /\ new.keyAtStart = rd.keyAtStart /\ new.rows = rd.rows
                        /\ Steady(rd) => new.step # "failed"
    <3>. DEFINE new == With(s)
    <3>1. /\ new.step = s /\ new.rows = rd.rows /\ new.answer = rd.answer
          /\ new.keyAtStart = rd.keyAtStart
          /\ new = [step |-> new.step, rows |-> new.rows, answer |-> new.answer,
                    keyAtStart |-> new.keyAtStart]
      OBVIOUS
    <3>2. readers' = [readers EXCEPT ![r] = new]
      BY <2>1, <2>3
    <3>. HIDE DEF new, rd, row
    <3>3. Steady(new) <=> Steady(rd)
      BY <3>1 DEF Steady
    <3>4. ReadStarted(new)
      BY <1>1, <1>3, <2>3, <3>1, <3>3 DEF ReadStarted
    <3>. QED
      BY <2>3, <3>1, <3>2, <3>4
  <2>4. Steady(rd) /\ row.encrypted => row.content.key = vaultKey /\ IsUnlocked
    BY <1>3 DEF Steady, IsUnlocked
  <2>5. CASE CheckUnlocked(r)
    <3>1. CASE ~row.encrypted
      <4>1. MayAnswer(rd, row.content) /\ readers' = Answered(r, row.content)
        BY <1>3, <2>5, <3>1 DEF MayAnswer, CheckUnlocked
      <4>. QED
        BY <2>2, <4>1
    <3>2. CASE row.encrypted /\ ~IsUnlocked
      <4>1. MayAnswer(rd, Blank) /\ readers' = Answered(r, Blank)
        BY <1>3, <2>4, <2>5, <3>2 DEF MayAnswer, CheckUnlocked
      <4>. QED
        BY <2>2, <4>1
    <3>3. CASE row.encrypted /\ IsUnlocked
      BY <2>3, <2>5, <3>3 DEF CheckUnlocked
    <3>. QED
      BY <3>1, <3>2, <3>3
  <2>6. CASE DecryptContent(r)
    <3>1. row.encrypted
      BY <1>1, <1>3, <2>6 DEF DecryptContent, ReadStarted
    <3>2. CASE row.content.key = vaultKey
      <4>1. row.content.text # Blank
        BY <1>3, <3>1, RowTexts
      <4>2. MayAnswer(rd, row.content.text) /\ readers' = Answered(r, row.content.text)
        BY <1>3, <2>6, <3>1, <3>2, <4>1 DEF MayAnswer, DecryptContent
      <4>. QED
        BY <2>2, <4>2
    <3>3. CASE row.content.key # vaultKey
      BY <2>3, <2>4, <2>6, <3>1, <3>3 DEF DecryptContent
    <3>. QED
      BY <3>2, <3>3
  <2>. QED
    BY <2>5, <2>6
<1>5. /\ readers' = [q \in VaultReaders |-> readers'[q]] /\ readers'[r] = new
      /\ \A q \in VaultReaders \ {r} : readers'[q] = readers[q]
  BY <1>4 DEF VaultInv, ReadersSound
<1>6. ReadersSound'
  <2>1. ASSUME NEW q \in VaultReaders, ReadStarted(readers'[q])
        PROVE  ReadStarted(readers[q])'
    BY <1>1, <1>2, <2>1 DEF ReadStarted, Steady
  <2>2. \A q \in VaultReaders : readers'[q] = NotReadingNotes \/ ReadStarted(readers'[q])
    BY <1>4, <1>5 DEF VaultInv, ReadersSound
  <2>. QED
    BY <1>5, <2>1, <2>2 DEF ReadersSound
<1>7. KeepersSound'
  BY <1>1, <1>2, <1>4, <1>5 DEF VaultInv, KeepersSound, KeeperStarted, ReadStarted
<1>8. VaultSound'
  BY <1>1, <1>2 DEF VaultInv, VaultSound
<1>9. Steady(rd) => readers'[r].step # "failed" /\ Steady(readers'[r])
  BY <1>4, <1>5 DEF Steady
<1>. QED
  BY <1>4, <1>5, <1>6, <1>7, <1>8, <1>9 DEF VaultInv

\* Every call keeps the invariant, and a steady read is neither blank nor refused.
LEMMA VaultKeeps ==
    ASSUME VaultInv, [VaultNext]_vaultVars
    PROVE  VaultInv' /\ SteadyKeyReads
<1>1. ASSUME NEW r \in VaultReaders, CheckUnlocked(r) \/ DecryptContent(r)
      PROVE  VaultInv' /\ SteadyKeyReads
  <2>1. /\ VaultInv' /\ ReadStarted(readers'[r])
        /\ \A q \in VaultReaders \ {r} : readers'[q] = readers[q]
        /\ Steady(readers[r]) => readers'[r].step # "failed" /\ Steady(readers'[r])
    BY <1>1, ReadKeeps
  <2>2. ASSUME NEW q \in VaultReaders,
               readers[q].step \in {"check", "decrypt"},
               readers'[q].step \in {"answered", "failed"},
               vaultKey # NoKey, readers[q].keyAtStart = vaultKey,
               \A i \in DOMAIN readers[q].rows : readers[q].rows[i].encrypted =>
                   readers[q].rows[i].content.key = vaultKey
        PROVE  /\ readers'[q].step = "answered"
               /\ \A i \in DOMAIN readers'[q].answer : readers'[q].answer[i] # Blank
    <3>1. q = r /\ Steady(readers[r])
      BY <2>1, <2>2 DEF Steady
    <3>2. \A i \in DOMAIN readers'[r].answer : i \in 1..Len(readers'[r].answer)
      BY <2>1 DEF ReadStarted
    <3>. QED
      BY <2>1, <2>2, <3>1, <3>2 DEF ReadStarted
  <2>. QED
    BY <2>1, <2>2 DEF SteadyKeyReads
<1>2. ASSUME NEW k \in VaultKeepers,
             SetPassword(k) \/ ChangePassword(k) \/ ClearKey(k) \/ StoreKey(k) \/ StoreSalt(k)
      PROVE  VaultInv' /\ readers' = readers
  <2>1. SetPassword(k) \/ ChangePassword(k) => \E p \in Passwords : DeriveNewKey(k, p)
    BY DEF SetPassword, ChangePassword
  <2>2. readers' = readers
    BY <1>2, <2>1 DEF DeriveNewKey, ClearKey, StoreKey, StoreSalt
  <2>. QED
    BY <1>2, <2>1, <2>2, DeriveKeeps, ClearKeeps, StoreKeyKeeps, StoreSaltKeeps
<1>3. ASSUME NEW n \in SealedNotes,
             \/ \E t \in SealedTexts : CreateSealedNote(n, t) \/ UpdateSealedNote(n, t)
             \/ DeleteSealedNote(n)
      PROVE  VaultInv' /\ readers' = readers
  BY <1>3, SealKeeps DEF CreateSealedNote, UpdateSealedNote, DeleteSealedNote, Exclusive
<1>4. ASSUME UNCHANGED vaultVars PROVE VaultInv' /\ readers' = readers
  BY <1>4 DEF vaultVars, VaultInv, VaultSound, KeepersSound, ReadersSound, Keys,
              KeeperStarted, ReadStarted, Steady
<1>5. readers' = readers => SteadyKeyReads
  BY DEF SteadyKeyReads
<1>6. ASSUME NEW r \in VaultReaders, GetSealedNote(r) \/ ListSealedNotes(r)
      PROVE  VaultInv' /\ SteadyKeyReads
  <2>1. \A q \in VaultReaders : readers'[q] = readers[q]
           \/ readers[q].step \in {"idle", "answered", "failed"}
    <3>1. ASSUME NEW held, Fetch(r, held)
          PROVE  \A q \in VaultReaders : readers'[q] = readers[q]
                    \/ readers[q].step \in {"idle", "answered", "failed"}
      BY <3>1 DEF Fetch
    <3>. QED
      BY <1>6, <3>1 DEF GetSealedNote, ListSealedNotes
  <2>. QED
    BY <1>6, <2>1, FetchKeeps DEF SteadyKeyReads
<1>. QED
  BY <1>1, <1>2, <1>3, <1>4, <1>5, <1>6 DEF VaultNext

\* Answers are texts or blank, and keys and salts have their types.
LEMMA VaultAnswers ==
    ASSUME VaultInv
    PROVE  VaultTypeOK /\ AnswersAreText
<1>1. VaultTypeOK
  <2>1. \A n \in DOMAIN sealed :
           IF sealed[n].encrypted
             THEN /\ sealed[n].content.key \in Keys \ {NoKey}
                  /\ sealed[n].content.text \in SealedTexts
             ELSE sealed[n].content \in SealedTexts
    <3>1. \A key \in Passwords \X (1..salts) : key \in Keys \ {NoKey}
      BY DEF Keys, NoKey
    <3>. QED
      BY <3>1, RowTexts DEF VaultInv, VaultSound
  <2>. QED
    BY <2>1 DEF VaultTypeOK, VaultInv, VaultSound
<1>2. AnswersAreText
  <2>. SUFFICES ASSUME NEW r \in VaultReaders, readers[r].step = "answered"
                PROVE  /\ Len(readers[r].answer) = Len(readers[r].rows)
                       /\ \A i \in DOMAIN readers[r].answer :
                             readers[r].answer[i] \in
                               IF readers[r].rows[i].encrypted
                                 THEN {readers[r].rows[i].content.text, Blank}
                                 ELSE SealedTexts
    BY DEF AnswersAreText
  <2>1. ReadStarted(readers[r])
    BY DEF VaultInv, ReadersSound, NotReadingNotes
  <2>2. DOMAIN readers[r].answer = 1..Len(readers[r].answer)
    BY <2>1 DEF ReadStarted
  <2>. QED
    BY <2>1, <2>2 DEF ReadStarted
<1>. QED
  BY <1>1, <1>2

-----------------------------------------------------------------------------
(* One thread that sets the password *)

KeyFitsSalt == IF vaultKey = NoKey THEN vaultSalt = NoSalt ELSE vaultKey[2] = vaultSalt

\* The salt is the key's but while the one call is between its two steps.
OneKeeper ==
    \A k \in VaultKeepers :
        IF keepers[k].step = "salt" THEN vaultKey = keepers[k].key ELSE KeyFitsSalt

\* At the start no thread is between key and salt.
LEMMA OneKeeperStart == VaultInit => OneKeeper
BY DEF VaultInit, OneKeeper, NotKeeping, KeyFitsSalt

\* A single thread writes the salt of the key it wrote before any other key comes.
LEMMA OneKeeperKeeps ==
    ASSUME VaultInv, OneKeeper, \A k, l \in VaultKeepers : k = l, [VaultNext]_vaultVars
    PROVE  OneKeeper'
<1>. SUFFICES ASSUME NEW k \in VaultKeepers
              PROVE  IF keepers'[k].step = "salt" THEN vaultKey' = keepers'[k].key ELSE KeyFitsSalt'
  BY DEF OneKeeper
<1>1. /\ keepers = [l \in VaultKeepers |-> keepers[l]]
      /\ keepers[k] = NotKeeping \/ KeeperStarted(keepers[k])
      /\ IF keepers[k].step = "salt" THEN vaultKey = keepers[k].key ELSE KeyFitsSalt
  BY DEF VaultInv, KeepersSound, OneKeeper
<1>2. ASSUME UNCHANGED <<vaultKey, vaultSalt>>, keepers'[k] = keepers[k]
             \/ (keepers[k].step = "idle" /\ keepers'[k].step = "key")
      PROVE  IF keepers'[k].step = "salt" THEN vaultKey' = keepers'[k].key ELSE KeyFitsSalt'
  BY <1>1, <1>2 DEF KeyFitsSalt
<1>3. ASSUME StoreKey(k)
      PROVE  IF keepers'[k].step = "salt" THEN vaultKey' = keepers'[k].key ELSE KeyFitsSalt'
  <2>1. keepers[k].step = "key" /\ keepers'[k] = [keepers[k] EXCEPT !.step = "salt"]
        /\ vaultKey' = keepers[k].key /\ KeeperStarted(keepers[k])
    BY <1>1, <1>3 DEF StoreKey, NotKeeping
  <2>2. keepers'[k].step = "salt" /\ keepers'[k].key = keepers[k].key
    BY <2>1 DEF KeeperStarted
  <2>. QED
    BY <2>1, <2>2
<1>4. ASSUME StoreSalt(k)
      PROVE  IF keepers'[k].step = "salt" THEN vaultKey' = keepers'[k].key ELSE KeyFitsSalt'
  BY <1>1, <1>4 DEF StoreSalt, KeyFitsSalt, NotKeeping, KeeperStarted
<1>5. ASSUME SetPassword(k) \/ ChangePassword(k) \/ ClearKey(k)
      PROVE  UNCHANGED <<vaultKey, vaultSalt>>
             /\ keepers[k].step = "idle" /\ keepers'[k].step = "key"
  BY <1>1, <1>5 DEF SetPassword, ChangePassword, ClearKey, DeriveNewKey
<1>6. ASSUME \/ \E r \in VaultReaders :
                   GetSealedNote(r) \/ ListSealedNotes(r) \/ CheckUnlocked(r) \/ DecryptContent(r)
             \/ \E n \in SealedNotes :
                   \/ \E t \in SealedTexts : CreateSealedNote(n, t) \/ UpdateSealedNote(n, t)
                   \/ DeleteSealedNote(n)
             \/ UNCHANGED vaultVars
      PROVE  UNCHANGED <<vaultKey, vaultSalt, keepers>>
  BY <1>6 DEF GetSealedNote, ListSealedNotes, Fetch, CheckUnlocked, DecryptContent,
              CreateSealedNote, UpdateSealedNote, DeleteSealedNote, Exclusive, vaultVars
<1>. QED
  BY <1>2, <1>3, <1>4, <1>5, <1>6 DEF VaultNext

\* Outside of its change, the single thread leaves key and salt together.
LEMMA OneKeeperFits == OneKeeper /\ VaultKeepers # {} => KeyHasItsSalt
BY DEF OneKeeper, KeyHasItsSalt, KeyFitsSalt

-----------------------------------------------------------------------------
(* Objects *)

\* Each table names rows the others have, and every id in use was drawn.
ObjectTables ==
    /\ DOMAIN types \subseteq TypeIds /\ DOMAIN properties \subseteq PropertyIds
    /\ DOMAIN relations \subseteq RelationIds /\ DOMAIN objects \subseteq ObjectIds
    /\ DOMAIN objects \subseteq usedIds /\ DOMAIN types \subseteq usedIds
    /\ \A p \in DOMAIN properties : properties[p] \in DOMAIN types
    /\ \A o \in DOMAIN objects : objects[o].type \in DOMAIN types
    /\ \A l \in links :
          l[1] \in DOMAIN objects /\ l[2] \in DOMAIN objects /\ l[3] \in DOMAIN relations

ObjectRow(row) == row.write \in Nat /\ row = [type |-> row.type, write |-> row.write]

ObjectRows == \A o \in DOMAIN objects : ObjectRow(objects[o])

UpdatePhases == {"idle", "reload", "answered", "not_found"}

\* A thread's write is not ahead of the row; an object it could not read back
\* was there once, and is gone.
UpdateSound(up) ==
    /\ up = [phase |-> up.phase, object |-> up.object, wrote |-> up.wrote, read |-> up.read]
    /\ up.phase \in UpdatePhases /\ up.wrote \in Nat
    /\ up.phase \in {"reload", "not_found"} => up.object \in usedIds
    /\ up.phase = "reload" /\ up.object \in DOMAIN objects =>
          objects[up.object].write >= up.wrote
    /\ up.phase = "answered" => up.read >= up.wrote
    /\ up.phase = "not_found" => up.object \notin DOMAIN objects

ObjectThreads ==
    /\ updates = [u \in Updaters |-> updates[u]]
    /\ \A u \in Updaters : UpdateSound(updates[u])

ObjectsInv == ObjectTables /\ ObjectRows /\ ObjectThreads /\ TypesWhole

-----------------------------------------------------------------------------
(* Objects: where they start *)

\* The initial tables satisfy the invariant.
LEMMA ObjectsStart == ObjectsInit => ObjectsInv
<1>. SUFFICES ASSUME ObjectsInit PROVE ObjectsInv
  OBVIOUS
<1>1. DOMAIN NoRows = {}
  BY DEF NoRows
<1>2. ObjectTables /\ ObjectRows /\ TypesWhole
  BY <1>1 DEF ObjectsInit, ObjectTables, ObjectRows, TypesWhole
<1>3. UpdateSound(IdleUpdate)
  BY DEF IdleUpdate, UpdateSound, UpdatePhases
<1>4. ObjectThreads
  BY <1>3 DEF ObjectsInit, ObjectThreads
<1>. QED
  BY <1>2, <1>4 DEF ObjectsInv

\* Threads stay sound while objects come under new ids only and rows are
\* written forward.
LEMMA ObjectThreadsStay ==
    ASSUME ObjectsInv, updates' = updates, usedIds \subseteq usedIds',
           DOMAIN objects' \cap usedIds \subseteq DOMAIN objects,
           \A o \in DOMAIN objects' \cap DOMAIN objects :
               /\ objects[o].write \in Nat /\ objects'[o].write \in Nat
               /\ objects'[o].write >= objects[o].write
    PROVE  ObjectThreads'
<1>1. ASSUME NEW u \in Updaters PROVE UpdateSound(updates[u])'
  <2>. DEFINE up == updates[u]
  <2>1. UpdateSound(up) /\ up' = up
    BY DEF ObjectsInv, ObjectThreads
  <2>2. ASSUME up.phase = "reload", up.object \in DOMAIN objects'
        PROVE  objects'[up.object].write >= up.wrote
    <3>1. up.object \in DOMAIN objects /\ up.wrote \in Nat
      BY <2>1, <2>2 DEF UpdateSound
    <3>2. objects[up.object].write >= up.wrote
      BY <2>1, <2>2, <3>1 DEF UpdateSound
    <3>. HIDE DEF up
    <3>. QED
      BY <2>2, <3>1, <3>2
  <2>3. up.phase = "not_found" => up.object \notin DOMAIN objects'
    BY <2>1 DEF UpdateSound
  <2>. HIDE DEF up
  <2>4. UpdateSound(up)'
    BY <2>1, <2>2, <2>3 DEF UpdateSound
  <2>. QED
    BY <2>4 DEF up
<1>. QED
  BY <1>1 DEF ObjectsInv, ObjectThreads

-----------------------------------------------------------------------------
(* Objects: types *)

\* A type comes with all its properties, which no other type has.
LEMMA CreateTypeKeeps ==
    ASSUME ObjectsInv, NEW t \in TypeIds, NEW list \in PropertyLists, CreateObjectType(t, list)
    PROVE  ObjectsInv'
<1>. DEFINE held == PropertyRows(list)
<1>1. held \subseteq PropertyIds
  BY ObjectsAssumption DEF PropertyRows
<1>2. held \cap DOMAIN properties = {} /\ t \notin usedIds /\ usedIds' = usedIds \cup {t}
  BY DEF CreateObjectType, Insertable, PropertyRows
<1>3. UNCHANGED <<relations, objects, links, updates>>
  BY DEF CreateObjectType
<1>4. /\ DOMAIN types' = DOMAIN types \cup {t} /\ types'[t] = held
      /\ \A s \in DOMAIN types \ {t} : types'[s] = types[s]
  <2>1. types' = InsertRow(types, t, held)
    BY DEF CreateObjectType
  <2>. HIDE DEF held
  <2>. QED
    BY <2>1 DEF InsertRow
<1>5. properties' = [p \in DOMAIN properties \cup held |-> IF p \in held THEN t ELSE properties[p]]
  BY DEF CreateObjectType, InsertProperties
<1>. HIDE DEF held
<1>6. ObjectTables'
  BY <1>1, <1>2, <1>3, <1>4, <1>5 DEF ObjectsInv, ObjectTables
<1>7. t \notin DOMAIN types /\ \A p \in DOMAIN properties : properties[p] # t
  BY <1>2 DEF ObjectsInv, ObjectTables
<1>8. TypesWhole'
  <2>. SUFFICES ASSUME NEW s \in TypeIds
                PROVE  {p \in DOMAIN properties' : properties'[p] = s} =
                         IF s \in DOMAIN types' THEN types'[s] ELSE {}
    BY DEF TypesWhole
  <2>1. CASE s = t
    BY <1>4, <1>5, <1>7, <2>1
  <2>2. CASE s # t
    <3>1. {p \in DOMAIN properties' : properties'[p] = s} =
             {p \in DOMAIN properties : properties[p] = s}
      BY <1>2, <1>5, <2>2
    <3>. QED
      BY <1>4, <2>2, <3>1 DEF ObjectsInv, TypesWhole
  <2>. QED
    BY <2>1, <2>2
<1>9. ObjectThreads' /\ ObjectRows'
  BY <1>2, <1>3, ObjectThreadsStay DEF ObjectsInv, ObjectRows, ObjectRow, ObjectTables
<1>. QED
  BY <1>6, <1>8, <1>9 DEF ObjectsInv

\* A type takes its properties, objects and relations with it, and their links.
LEMMA DeleteTypeKeeps ==
    ASSUME ObjectsInv, NEW t \in TypeIds, DeleteObjectType(t)
    PROVE  ObjectsInv'
<1>. DEFINE ps == {p \in DOMAIN properties : properties[p] # t}
            rs == {r \in DOMAIN relations : relations[r] # t}
            os == {o \in DOMAIN objects : objects[o].type # t}
<1>1. /\ types' = KeepRows(types, DOMAIN types \ {t}) /\ properties' = KeepRows(properties, ps)
      /\ relations' = KeepRows(relations, rs) /\ objects' = KeepRows(objects, os)
      /\ links' = LinksAmong(os, rs) /\ UNCHANGED <<usedIds, updates>>
  BY DEF DeleteObjectType, DeleteRow
<1>2. /\ DOMAIN types' = DOMAIN types \ {t} /\ \A s \in DOMAIN types' : types'[s] = types[s]
      /\ DOMAIN properties' = ps /\ \A p \in ps : properties'[p] = properties[p]
      /\ DOMAIN relations' = rs
      /\ DOMAIN objects' = os /\ \A o \in os : objects'[o] = objects[o]
  BY <1>1, KeptRows
<1>3. \A l \in links' : l[1] \in os /\ l[2] \in os /\ l[3] \in rs
  BY <1>1 DEF LinksAmong
<1>4. ObjectTables'
  BY <1>1, <1>2, <1>3 DEF ObjectsInv, ObjectTables
<1>5. TypesWhole'
  <2>. SUFFICES ASSUME NEW s \in TypeIds
                PROVE  {p \in DOMAIN properties' : properties'[p] = s} =
                         IF s \in DOMAIN types' THEN types'[s] ELSE {}
    BY DEF TypesWhole
  <2>1. CASE s = t
    BY <1>2, <2>1
  <2>2. CASE s # t
    <3>1. {p \in DOMAIN properties' : properties'[p] = s} =
             {p \in DOMAIN properties : properties[p] = s}
      BY <1>2, <2>2
    <3>. QED
      BY <1>2, <2>2, <3>1 DEF ObjectsInv, TypesWhole
  <2>. QED
    BY <2>1, <2>2
<1>6. ObjectRows'
  BY <1>2 DEF ObjectsInv, ObjectRows
<1>7. ObjectThreads'
  <2>1. \A o \in DOMAIN objects' \cap DOMAIN objects :
            objects[o].write \in Nat /\ objects'[o].write = objects[o].write
    BY <1>2 DEF ObjectsInv, ObjectRows, ObjectRow
  <2>2. DOMAIN objects' \subseteq DOMAIN objects
    BY <1>2
  <2>. QED
    BY <1>1, <2>1, <2>2, ObjectThreadsStay
<1>. QED
  BY <1>4, <1>5, <1>6, <1>7 DEF ObjectsInv

-----------------------------------------------------------------------------
(* Objects: rows and links *)

\* An object comes with a type that is there.
LEMMA CreateObjectKeeps ==
    ASSUME ObjectsInv, NEW t \in TypeIds, NEW o \in ObjectIds, CreateObject(o, t)
    PROVE  ObjectsInv'
<1>1. /\ o \notin usedIds /\ t \in DOMAIN types /\ usedIds' = usedIds \cup {o}
      /\ UNCHANGED <<types, properties, relations, links, updates>>
  BY DEF CreateObject
<1>2. /\ DOMAIN objects' = DOMAIN objects \cup {o}
      /\ objects'[o] = [type |-> t, write |-> 0]
      /\ \A i \in DOMAIN objects \ {o} : objects'[i] = objects[i]
  <2>. DEFINE row == [type |-> t, write |-> 0]
  <2>1. objects' = InsertRow(objects, o, row)
    BY DEF CreateObject
  <2>2. /\ DOMAIN objects' = DOMAIN objects \cup {o} /\ objects'[o] = row
        /\ \A i \in DOMAIN objects \ {o} : objects'[i] = objects[i]
    <3>. HIDE DEF row
    <3>. QED
      BY <2>1 DEF InsertRow
  <2>. QED
    BY <2>2
<1>3. o \notin DOMAIN objects
  BY <1>1 DEF ObjectsInv, ObjectTables
<1>4. ObjectTables'
  BY <1>1, <1>2, <1>3 DEF ObjectsInv, ObjectTables
<1>5. ObjectRows'
  BY <1>2, <1>3 DEF ObjectsInv, ObjectRows, ObjectRow
<1>6. TypesWhole'
  BY <1>1 DEF ObjectsInv, TypesWhole
<1>7. ObjectThreads'
  <2>1. \A i \in DOMAIN objects' \cap DOMAIN objects :
            objects[i].write \in Nat /\ objects'[i].write = objects[i].write
    BY <1>2, <1>3 DEF ObjectsInv, ObjectRows, ObjectRow
  <2>2. DOMAIN objects' \cap usedIds \subseteq DOMAIN objects
    BY <1>1, <1>2
  <2>. QED
    BY <1>1, <2>1, <2>2, ObjectThreadsStay
<1>. QED
  BY <1>4, <1>5, <1>6, <1>7 DEF ObjectsInv

\* An object takes its links with it.
LEMMA DeleteObjectKeeps ==
    ASSUME ObjectsInv, NEW o \in ObjectIds, DeleteObject(o)
    PROVE  ObjectsInv'
<1>. DEFINE os == DOMAIN objects \ {o}
<1>1. /\ objects' = KeepRows(objects, os) /\ links' = LinksAmong(os, DOMAIN relations)
      /\ UNCHANGED <<types, properties, relations, usedIds, updates>>
  BY DEF DeleteObject, DeleteRow
<1>2. DOMAIN objects' = os /\ \A i \in os : objects'[i] = objects[i]
  BY <1>1, KeptRows
<1>3. \A l \in links' : l[1] \in os /\ l[2] \in os /\ l[3] \in DOMAIN relations
  BY <1>1 DEF LinksAmong
<1>4. ObjectTables' /\ TypesWhole'
  BY <1>1, <1>2, <1>3 DEF ObjectsInv, ObjectTables, TypesWhole
<1>5. ObjectRows'
  BY <1>2 DEF ObjectsInv, ObjectRows
<1>6. ObjectThreads'
  <2>1. \A i \in DOMAIN objects' \cap DOMAIN objects :
            objects[i].write \in Nat /\ objects'[i].write = objects[i].write
    BY <1>2 DEF ObjectsInv, ObjectRows, ObjectRow
  <2>2. /\ DOMAIN objects' \subseteq DOMAIN objects
        /\ updates' = updates /\ usedIds' = usedIds
    BY <1>1, <1>2
  <2>. QED
    BY <2>1, <2>2, ObjectThreadsStay
<1>. QED
  BY <1>4, <1>5, <1>6 DEF ObjectsInv

\* Links and definitions come with the rows they name.
LEMMA LinkKeeps ==
    ASSUME ObjectsInv,
           \/ \E r \in RelationIds, t \in TypeIds : DefineRelation(r, t)
           \/ \E s, o \in ObjectIds, r \in RelationIds : AddRelation(s, o, r)
           \/ \E l \in links : RemoveRelation(l)
    PROVE  ObjectsInv'
<1>1. UNCHANGED <<types, properties, objects, usedIds, updates>>
  BY DEF DefineRelation, AddRelation, RemoveRelation
<1>2. /\ DOMAIN relations \subseteq DOMAIN relations'
      /\ DOMAIN relations' \subseteq RelationIds
  <2>1. ASSUME NEW r \in RelationIds, NEW t \in TypeIds, DefineRelation(r, t)
        PROVE  DOMAIN relations' = DOMAIN relations \cup {r}
    BY <2>1 DEF DefineRelation, InsertRow
  <2>. QED
    BY <2>1 DEF AddRelation, RemoveRelation, ObjectsInv, ObjectTables
<1>3. \A l \in links' :
          l[1] \in DOMAIN objects /\ l[2] \in DOMAIN objects /\ l[3] \in DOMAIN relations'
  <2>1. \A l \in links :
            l[1] \in DOMAIN objects /\ l[2] \in DOMAIN objects /\ l[3] \in DOMAIN relations'
    BY <1>2 DEF ObjectsInv, ObjectTables
  <2>2. ASSUME NEW q \in ObjectIds, NEW o \in ObjectIds, NEW r \in RelationIds,
               AddRelation(q, o, r)
        PROVE  \A l \in links' :
                  /\ l[1] \in DOMAIN objects /\ l[2] \in DOMAIN objects
                  /\ l[3] \in DOMAIN relations'
    <3>1. /\ links' = links \cup {<<q, o, r>>} /\ q \in DOMAIN objects
          /\ o \in DOMAIN objects /\ r \in DOMAIN relations'
      BY <2>2 DEF AddRelation
    <3>. QED
      BY <2>1, <3>1
  <2>. QED
    BY <2>1, <2>2 DEF DefineRelation, RemoveRelation
<1>4. ObjectTables' /\ TypesWhole' /\ ObjectRows'
  BY <1>1, <1>2, <1>3 DEF ObjectsInv, ObjectTables, TypesWhole, ObjectRows
<1>5. ObjectThreads'
  BY <1>1 DEF ObjectsInv, ObjectThreads, UpdateSound
<1>. QED
  BY <1>4, <1>5 DEF ObjectsInv

-----------------------------------------------------------------------------
(* Objects: update_object *)

\* The write raises the row's number, and the thread remembers it.
LEMMA UpdateKeeps ==
    ASSUME ObjectsInv, NEW u \in Updaters, NEW o \in ObjectIds, UpdateObject(u, o)
    PROVE  ObjectsInv'
<1>. DEFINE w == objects[o].write + 1
            up == [phase |-> "reload", object |-> o, wrote |-> w, read |-> 0]
<1>1. /\ o \in DOMAIN objects /\ objects' = [objects EXCEPT ![o].write = w]
      /\ updates' = [updates EXCEPT ![u] = up]
      /\ UNCHANGED <<types, properties, relations, links, usedIds>>
  BY DEF UpdateObject
<1>2. objects[o].write \in Nat /\ w \in Nat
  BY <1>1 DEF ObjectsInv, ObjectRows, ObjectRow
<1>3. /\ DOMAIN objects' = DOMAIN objects
      /\ objects'[o] = [type |-> objects[o].type, write |-> w]
      /\ \A i \in DOMAIN objects \ {o} : objects'[i] = objects[i]
  BY <1>1 DEF ObjectsInv, ObjectRows, ObjectRow
<1>. HIDE DEF w
<1>4. ObjectTables' /\ TypesWhole'
  <2>1. \A i \in DOMAIN objects : objects'[i].type = objects[i].type
    BY <1>3
  <2>2. TypesWhole'
    BY <1>1 DEF ObjectsInv, TypesWhole
  <2>3. UNCHANGED <<types, properties, relations, links, usedIds>> /\ DOMAIN objects' = DOMAIN objects
    BY <1>1, <1>3
  <2>. QED
    BY <2>1, <2>2, <2>3 DEF ObjectsInv, ObjectTables
<1>5. ObjectRows'
  BY <1>2, <1>3 DEF ObjectsInv, ObjectRows, ObjectRow
<1>6. UpdateSound(updates[u])'
  <2>1. updates'[u] = [phase |-> "reload", object |-> o, wrote |-> w, read |-> 0]
    BY <1>1 DEF ObjectsInv, ObjectThreads
  <2>2. o \in usedIds' /\ objects'[o].write = w
    BY <1>1, <1>3 DEF ObjectsInv, ObjectTables
  <2>. QED
    BY <1>2, <2>1, <2>2 DEF UpdateSound, UpdatePhases
<1>7. ASSUME NEW v \in Updaters \ {u} PROVE UpdateSound(updates[v])'
  <2>1. UpdateSound(updates[v]) /\ updates'[v] = updates[v]
    BY <1>1 DEF ObjectsInv, ObjectThreads
  <2>2. objects'[o].write = w /\ w >= objects[o].write
    BY <1>2, <1>3 DEF w
  <2>3. updates[v].object = o /\ updates[v].phase = "reload" => w >= updates[v].wrote
    BY <1>1, <1>2, <2>1, <2>2 DEF UpdateSound
  <2>. QED
    BY <1>1, <1>3, <2>1, <2>2, <2>3 DEF UpdateSound
<1>8. ObjectThreads'
  <2>1. updates' = [v \in Updaters |-> updates'[v]]
    BY <1>1 DEF ObjectsInv, ObjectThreads
  <2>. QED
    BY <1>6, <1>7, <2>1 DEF ObjectThreads
<1>. QED
  BY <1>4, <1>5, <1>8 DEF ObjectsInv

\* Reading back finds that write or a later one, or that the object is gone.
LEMMA ReloadKeeps ==
    ASSUME ObjectsInv, NEW u \in Updaters, ReloadObject(u) \/ EndUpdate(u)
    PROVE  ObjectsInv'
<1>1. UNCHANGED <<types, properties, relations, objects, links, usedIds>>
  BY DEF ReloadObject, EndUpdate
<1>2. ObjectTables' /\ ObjectRows' /\ TypesWhole'
  BY <1>1 DEF ObjectsInv, ObjectTables, ObjectRows, TypesWhole
<1>3. UpdateSound(updates[u]) /\ updates = [v \in Updaters |-> updates[v]]
  BY DEF ObjectsInv, ObjectThreads
<1>4. ASSUME NEW up, updates' = [updates EXCEPT ![u] = up], UpdateSound(up)
      PROVE  ObjectsInv'
  <2>1. updates'[u] = up /\ \A v \in Updaters \ {u} : updates'[v] = updates[v]
    BY <1>3, <1>4
  <2>2. \A v \in Updaters : UpdateSound(updates'[v])
    BY <1>4, <2>1 DEF ObjectsInv, ObjectThreads
  <2>3. ObjectThreads'
    BY <1>1, <1>3, <1>4, <2>2 DEF ObjectThreads, UpdateSound
  <2>. QED
    BY <1>2, <2>3 DEF ObjectsInv
<1>5. CASE ReloadObject(u)
  <2>. DEFINE o == updates[u].object
              there == o \in DOMAIN objects
              up == [phase |-> IF there THEN "answered" ELSE "not_found",
                     object |-> o, wrote |-> updates[u].wrote,
                     read |-> IF there THEN objects[o].write ELSE 0]
  <2>1. updates[u].phase = "reload"
    BY <1>5 DEF ReloadObject
  <2>2. updates' = [updates EXCEPT ![u] = up]
    <3>1. ASSUME NEW p, NEW n
          PROVE  [updates EXCEPT ![u].phase = p, ![u].read = n] =
                 [updates EXCEPT ![u] = [phase |-> p, object |-> o,
                                         wrote |-> updates[u].wrote, read |-> n]]
      <4>1. updates[u] = [phase |-> updates[u].phase, object |-> o,
                          wrote |-> updates[u].wrote, read |-> updates[u].read]
        BY <1>3 DEF UpdateSound
      <4>2. [updates[u] EXCEPT !.phase = p] =
              [phase |-> p, object |-> o, wrote |-> updates[u].wrote, read |-> updates[u].read]
        BY <4>1
      <4>3. [[updates EXCEPT ![u].phase = p] EXCEPT ![u].read = n] =
              [updates EXCEPT ![u] = [[updates[u] EXCEPT !.phase = p] EXCEPT !.read = n]]
        BY <1>3
      <4>. QED
        BY <4>2, <4>3
    <3>2. updates' = [updates EXCEPT ![u].phase = IF there THEN "answered" ELSE "not_found",
                                     ![u].read = IF there THEN objects[o].write ELSE 0]
      BY <1>5 DEF ReloadObject
    <3>. DEFINE p == IF there THEN "answered" ELSE "not_found"
                n == IF there THEN objects[o].write ELSE 0
    <3>3. [updates EXCEPT ![u].phase = p, ![u].read = n] =
             [updates EXCEPT ![u] = [phase |-> p, object |-> o,
                                     wrote |-> updates[u].wrote, read |-> n]]
      <4>. HIDE DEF p, n
      <4>. QED
        BY <3>1
    <3>. QED
      BY <3>2, <3>3
  <2>3. UpdateSound(up)
    <3>1. CASE there
      BY <1>3, <2>1, <3>1 DEF UpdateSound, UpdatePhases
    <3>2. CASE ~there
      BY <1>3, <2>1, <3>2 DEF UpdateSound, UpdatePhases
    <3>. QED
      BY <3>1, <3>2
  <2>. HIDE DEF up
  <2>. QED
    BY <1>4, <2>2, <2>3
<1>6. CASE EndUpdate(u)
  <2>1. UpdateSound(IdleUpdate)
    BY DEF IdleUpdate, UpdateSound, UpdatePhases
  <2>. QED
    BY <1>4, <1>6, <2>1 DEF EndUpdate
<1>. QED
  BY <1>5, <1>6

-----------------------------------------------------------------------------
(* Objects: what the invariant gives *)

\* Every step keeps the invariant.
LEMMA ObjectsKeep == ObjectsInv /\ [ObjectsNext]_objectVars => ObjectsInv'
<1>1. ASSUME ObjectsInv, ObjectsNext PROVE ObjectsInv'
  BY <1>1, CreateTypeKeeps, DeleteTypeKeeps, CreateObjectKeeps, DeleteObjectKeeps,
     LinkKeeps, UpdateKeeps, ReloadKeeps DEF ObjectsNext, PromoteBlockToObject
<1>2. ASSUME ObjectsInv, UNCHANGED objectVars PROVE ObjectsInv'
  BY <1>2 DEF objectVars, ObjectsInv, ObjectTables, ObjectRows, ObjectThreads, UpdateSound, TypesWhole
<1>. QED
  BY <1>1, <1>2

\* The objects have their types; types are whole, what is related can be loaded,
\* and an answered update is no older than its write.
LEMMA ObjectsAnswer == ASSUME ObjectsInv PROVE ObjectsTypeOK /\ ObjectsHold
<1>1. ObjectsTypeOK
  BY DEF ObjectsInv, ObjectTables, ObjectThreads, UpdateSound, UpdatePhases, ObjectsTypeOK
<1>2. RelatedObjectsLoad
  BY DEF ObjectsInv, ObjectTables, RelatedObjectsLoad, GetRelatedObjects
<1>3. UpdateAnswersNewer
  BY DEF ObjectsInv, ObjectThreads, UpdateSound, UpdateAnswersNewer
<1>. QED
  BY <1>1, <1>2, <1>3 DEF ObjectsInv, ObjectsHold

-----------------------------------------------------------------------------
(* Sets of numbers *)

\* FoldInduction is taken for its facts on orders here, with no fold of its own.
Unmoved(p, e, w) == p
Anything(p, k, c) == TRUE
Orders == INSTANCE FoldInduction WITH Step <- Unmoved, Holds <- Anything

\* A bounded set of numbers has a greatest element.
LEMMA GreatestNumber ==
    ASSUME NEW m \in Nat, NEW s \in SUBSET (0..m), s # {}
    PROVE  \E x \in s : \A y \in s : y <= x
<1>. DEFINE T == {m - x : x \in s}
<1>1. T \subseteq Nat /\ T # {}
  <2>1. \A x \in s : m - x \in Nat /\ m - x \in T
    OBVIOUS
  <2>. QED
    BY <2>1
<1>2. PICK t \in T : \A u \in T : t <= u
  BY <1>1, Orders!LeastNumber
<1>3. PICK x \in s : t = m - x
  OBVIOUS
<1>4. \A y \in s : t <= m - y
  BY <1>2
<1>. QED
  BY <1>3, <1>4

-----------------------------------------------------------------------------
(* Filters and sorts *)

\* Finite sets and places, as the instance of FoldInduction names them.
LEMMA SameCounting ==
    /\ \A S : Orders!IsFiniteSet(S) = IsFiniteSet(S)
    /\ \A S : Orders!Cardinality(S) = Cardinality(S)
    /\ \A R, D, k : Orders!PlaceIn(R, D, k) = Cardinality({j \in D : <<j, k>> \in R})
BY DEF Orders!IsFiniteSet, IsFiniteSet, Orders!Cardinality, Cardinality,
       Orders!PlaceIn

\* A set of indices has a number of elements.
LEMMA CountIn ==
    ASSUME NEW n \in Nat, NEW T \in SUBSET (1..n)
    PROVE  IsFiniteSet(T) /\ Cardinality(T) \in Nat
<1>1. IsFiniteSet(1..n)
  BY FS_Interval
<1>2. IsFiniteSet(T)
  BY <1>1, FS_Subset
<1>. QED
  BY <1>2, FS_CardinalityType

\* t has the elements of s that at picks, in the order of their indices.
Picks(t, s, at, hits) ==
    /\ at \in [DOMAIN t -> hits]
    /\ \A m \in DOMAIN t : t[m] = s[at[m]]
    /\ \A i \in hits : \E m \in DOMAIN t : at[m] = i
    /\ \A m, l \in DOMAIN t : m < l => at[m] < at[l]

\* t is what Kept makes of s.
Filters(t, s, hits) ==
    t = [n \in 1..Cardinality(hits) |->
           s[CHOOSE i \in hits : Cardinality({j \in hits : j <= i}) = n]]

\* What a filter leaves: the hits of the sequence, in their order.
LEMMA FilterPicks ==
    ASSUME NEW S, NEW s \in Seq(S), NEW hits \in SUBSET DOMAIN s, NEW t,
           Filters(t, s, hits)
    PROVE  /\ t \in Seq(S) /\ DOMAIN t = 1..Len(t) /\ Len(t) = Cardinality(hits)
           /\ \E at : Picks(t, s, at, hits)
<1>. DEFINE R == {p \in hits \X hits : p[1] <= p[2]}
            n == Cardinality(hits)
            at == [m \in 1..n |-> CHOOSE i \in hits : Cardinality({j \in hits : j <= i}) = m]
            pick == [m \in 1..n |-> CHOOSE k \in hits : Orders!PlaceIn(R, hits, k) = m]
<1>1. /\ Len(s) \in Nat /\ DOMAIN s = 1..Len(s) /\ \A i \in DOMAIN s : s[i] \in S
      /\ hits \subseteq Nat
  OBVIOUS
<1>2. \A j, k \in hits : <<j, k>> \in R <=> j <= k
  OBVIOUS
<1>3. IsFiniteSet(hits) /\ n \in Nat
  BY <1>1, CountIn
<1>4. Orders!IsFiniteSet(hits) /\ n = Orders!Cardinality(hits)
  BY <1>3, SameCounting
<1>5. \A i \in hits : {j \in hits : <<j, i>> \in R} = {j \in hits : j <= i}
  BY <1>2
<1>. HIDE DEF R
<1>6. Orders!TotalOrder(R, hits)
  BY <1>1, <1>2 DEF Orders!TotalOrder
<1>7. \A i \in hits : Orders!PlaceIn(R, hits, i) = Cardinality({j \in hits : j <= i})
  BY <1>5, SameCounting
<1>8. at = pick
  BY <1>7
<1>9. t = [m \in 1..n |-> s[at[m]]]
  BY DEF Filters
<1>. HIDE DEF n
<1>10. /\ pick \in [1..n -> hits]
       /\ \A k \in hits : \E m \in 1..n : pick[m] = k
       /\ \A m, l \in 1..n : m < l => <<pick[m], pick[l]>> \in R /\ pick[m] # pick[l]
  <2>. HIDE DEF at
  <2>1. pick = [m \in 1..n |-> CHOOSE k \in hits : Orders!PlaceIn(R, hits, k) = m]
    OBVIOUS
  <2>. HIDE DEF pick
  <2>2. Orders!PicksByPlace(pick, n, R, hits)
    BY <1>4, <1>6, <2>1 DEF Orders!PicksByPlace
  <2>. QED
    BY <2>2, Orders!OrderedPick
<1>. HIDE DEF at, pick
<1>11. t \in [1..n -> S]
  BY <1>1, <1>8, <1>9, <1>10
<1>12. t \in Seq(S) /\ DOMAIN t = 1..n /\ Len(t) = n
  BY <1>3, <1>11
<1>13. \A m, l \in 1..n : m < l => at[m] < at[l]
  <2>. SUFFICES ASSUME NEW m \in 1..n, NEW l \in 1..n, m < l PROVE at[m] < at[l]
    OBVIOUS
  <2>1. at[m] \in hits /\ at[l] \in hits /\ <<at[m], at[l]>> \in R /\ at[m] # at[l]
    BY <1>8, <1>10
  <2>. QED
    BY <1>1, <1>2, <2>1
<1>14. Picks(t, s, at, hits)
  BY <1>8, <1>9, <1>10, <1>12, <1>13 DEF Picks
<1>. QED
  BY <1>12, <1>14 DEF n

\* t has the elements of s in the order of their keys, equal keys as they were.
SortsBy(t, s, at, key) ==
    /\ at \in [DOMAIN s -> DOMAIN s]
    /\ \A m \in DOMAIN s : t[m] = s[at[m]]
    /\ \A i \in DOMAIN s : \E m \in DOMAIN s : at[m] = i
    /\ \A m, l \in DOMAIN s :
          m < l => \/ key[at[m]] < key[at[l]]
                   \/ key[at[m]] = key[at[l]] /\ at[m] < at[l]

\* t is what StableSort makes of s, by the keys of its elements.
Sorts(t, s, key) ==
    t = [i \in DOMAIN s |-> s[CHOOSE k \in DOMAIN s :
           Cardinality({j \in DOMAIN s :
               key[j] < key[k] \/ (~(key[k] < key[j]) /\ j <= k)}) = i]]

\* What the stable sort makes of a sequence, by numbers as keys.
LEMMA SortPicks ==
    ASSUME NEW S, NEW s \in Seq(S), NEW key \in [DOMAIN s -> Int], NEW t,
           Sorts(t, s, key)
    PROVE  /\ t \in Seq(S) /\ DOMAIN t = DOMAIN s /\ Len(t) = Len(s)
           /\ \E at : SortsBy(t, s, at, key)
<1>. DEFINE n == Len(s)
            D == 1..n
            UpTo(j, k) == key[j] < key[k] \/ (~(key[k] < key[j]) /\ j <= k)
            R == {p \in D \X D : UpTo(p[1], p[2])}
            at == [m \in D |-> CHOOSE k \in D : Cardinality({j \in D : UpTo(j, k)}) = m]
            pick == [m \in 1..n |-> CHOOSE k \in D : Orders!PlaceIn(R, D, k) = m]
<1>1. n \in Nat /\ DOMAIN s = D /\ \A i \in D : s[i] \in S /\ key[i] \in Int
  OBVIOUS
<1>2. IsFiniteSet(D) /\ Cardinality(D) = n
  <2>. HIDE DEF n
  <2>. QED
    BY <1>1, FS_Interval
<1>3. \A j, k \in D : <<j, k>> \in R <=> UpTo(j, k)
  OBVIOUS
<1>4. Orders!IsFiniteSet(D) /\ n = Orders!Cardinality(D)
  BY <1>2, SameCounting
<1>5. \A k \in D : {j \in D : <<j, k>> \in R} = {j \in D : UpTo(j, k)}
  BY <1>3
<1>6. Orders!TotalOrder(R, D)
  <2>1. \A k \in D : UpTo(k, k)
    BY <1>1
  <2>2. \A j, k \in D : j # k => (UpTo(j, k) <=> ~UpTo(k, j))
    BY <1>1
  <2>3. \A i, j, k \in D : UpTo(i, j) /\ UpTo(j, k) => UpTo(i, k)
    BY <1>1
  <2>. HIDE DEF R, UpTo
  <2>. QED
    BY <1>3, <2>1, <2>2, <2>3 DEF Orders!TotalOrder
<1>7. t = [m \in D |-> s[at[m]]]
  BY <1>1 DEF Sorts
<1>. HIDE DEF R, UpTo
<1>8. \A k \in D : Orders!PlaceIn(R, D, k) = Cardinality({j \in D : UpTo(j, k)})
  BY <1>5, SameCounting
<1>9. at = pick
  BY <1>8
<1>. HIDE DEF n
<1>10. /\ pick \in [1..n -> D]
       /\ \A k \in D : \E m \in 1..n : pick[m] = k
       /\ \A m, l \in 1..n : m < l => <<pick[m], pick[l]>> \in R /\ pick[m] # pick[l]
  <2>. HIDE DEF at
  <2>1. pick = [m \in 1..n |-> CHOOSE k \in D : Orders!PlaceIn(R, D, k) = m]
    OBVIOUS
  <2>. HIDE DEF pick, D
  <2>2. Orders!PicksByPlace(pick, n, R, D)
    BY <1>4, <1>6, <2>1 DEF Orders!PicksByPlace
  <2>. QED
    BY <2>2, Orders!OrderedPick
<1>. HIDE DEF at, pick
<1>11. t \in [1..n -> S]
  BY <1>1, <1>7, <1>9, <1>10
<1>12. t \in Seq(S) /\ DOMAIN t = 1..n /\ Len(t) = n
  BY <1>1, <1>11
<1>13. ASSUME NEW m \in D, NEW l \in D, m < l
       PROVE  \/ key[at[m]] < key[at[l]]
              \/ key[at[m]] = key[at[l]] /\ at[m] < at[l]
  <2>1. at[m] \in D /\ at[l] \in D /\ <<at[m], at[l]>> \in R /\ at[m] # at[l]
    BY <1>9, <1>10, <1>13
  <2>2. UpTo(at[m], at[l])
    BY <1>3, <2>1
  <2>. QED
    BY <1>1, <2>1, <2>2 DEF UpTo
<1>14. SortsBy(t, s, at, key)
  BY <1>1, <1>7, <1>9, <1>10, <1>13 DEF SortsBy
<1>. QED
  BY <1>1, <1>12, <1>14 DEF n

-----------------------------------------------------------------------------
(* The full-text index *)

SearchRow(row) ==
    /\ row = [note |-> row.note, words |-> row.words, folder |-> row.folder, tags |-> row.tags]
    /\ row.note \in SearchNotes /\ row.words \in SUBSET Words

\* The content table: numbered rows, at most one of a note.
RowsSound(held) ==
    /\ held = [i \in DOMAIN held |-> held[i]]
    /\ \E b \in Nat : DOMAIN held \subseteq 1..b
    /\ \A i \in DOMAIN held : SearchRow(held[i])
    /\ \A i, j \in DOMAIN held : held[i].note = held[j].note => i = j

\* The triggers keep the postings of the rows there are.
Posted(pairs, held) == pairs = UNION {PostingsOf(held, i) : i \in DOMAIN held}

\* What was answered last is the row of the note.
Answers(told, held) ==
    /\ told = [n \in SearchNotes |-> told[n]]
    /\ \A n \in SearchNotes :
          \/ told[n] = NotIndexed /\ \A i \in DOMAIN held : held[i].note # n
          \/ \E i \in DOMAIN held : held[i].note = n /\ told[n] = held[i]

SearchInv ==
    RowsSound(searchRows) /\ Posted(postings, searchRows) /\ Answers(indexed, searchRows)

\* An empty index has told nothing.
LEMMA SearchStart == SearchInit => SearchInv
<1>. SUFFICES ASSUME SearchInit PROVE SearchInv
  OBVIOUS
<1>1. DOMAIN searchRows = {} /\ searchRows = [i \in DOMAIN searchRows |-> searchRows[i]]
  BY DEF SearchInit, NoRows
<1>2. RowsSound(searchRows)
  <2>1. DOMAIN searchRows \subseteq 1..0 /\ 0 \in Nat
    BY <1>1
  <2>. QED
    BY <1>1, <2>1 DEF RowsSound
<1>3. Posted(postings, searchRows)
  BY <1>1 DEF SearchInit, Posted
<1>4. Answers(indexed, searchRows)
  BY <1>1 DEF SearchInit, Answers
<1>. QED
  BY <1>2, <1>3, <1>4 DEF SearchInv

\* The rowid an insertion takes is not in the table.
LEMMA NewRowId ==
    ASSUME NEW held, NEW b \in Nat, DOMAIN held \subseteq 1..b,
           held = [i \in DOMAIN held |-> held[i]]
    PROVE  NextRowId(held) \in 1..(b + 1) /\ NextRowId(held) \notin DOMAIN held
<1>1. CASE held = NoRows
  BY <1>1, EmptyTable DEF NextRowId
<1>2. CASE held # NoRows
  <2>1. DOMAIN held # {}
    BY <1>2 DEF NoRows
  <2>2. PICK x \in DOMAIN held : \A y \in DOMAIN held : y <= x
    BY <2>1, GreatestNumber, DOMAIN held \in SUBSET (0..b)
  <2>. DEFINE top == CHOOSE i \in DOMAIN held : \A j \in DOMAIN held : j <= i
  <2>3. top \in DOMAIN held /\ \A j \in DOMAIN held : j <= top
    BY <2>2
  <2>4. NextRowId(held) = top + 1
    BY <1>2 DEF NextRowId
  <2>. HIDE DEF top
  <2>. QED
    BY <2>3, <2>4
<1>. QED
  BY <1>1, <1>2

\* What deleting a note leaves is sound and has no row of it.
LEMMA WithoutNote ==
    ASSUME SearchInv, NEW n \in SearchNotes
    PROVE  /\ RowsSound(Without(n)) /\ Posted(PostingsWithout(n), Without(n))
           /\ DOMAIN Without(n) = {i \in DOMAIN searchRows : searchRows[i].note # n}
           /\ \A i \in DOMAIN Without(n) : Without(n)[i] = searchRows[i]
<1>. DEFINE left == DOMAIN searchRows \ RowsOfNote(n)
            w == Without(n)
<1>1. /\ w = KeepRows(searchRows, left)
      /\ left = {i \in DOMAIN searchRows : searchRows[i].note # n}
  BY DEF Without, RowsOfNote
<1>2. /\ DOMAIN w = left /\ w = [i \in left |-> w[i]]
      /\ \A i \in left : w[i] = searchRows[i]
  BY <1>1, KeptRows DEF KeepRows
<1>. HIDE DEF w, left
<1>3. RowsSound(w)
  <2>1. PICK b \in Nat : DOMAIN searchRows \subseteq 1..b
    BY DEF SearchInv, RowsSound
  <2>2. DOMAIN w \subseteq 1..b
    BY <1>1, <1>2, <2>1
  <2>. QED
    <3>1. \A i \in DOMAIN w : SearchRow(w[i])
      BY <1>1, <1>2 DEF SearchInv, RowsSound
    <3>2. \A i, j \in DOMAIN w : w[i].note = w[j].note => i = j
      BY <1>1, <1>2 DEF SearchInv, RowsSound
    <3>. QED
      BY <1>2, <2>2, <3>1, <3>2 DEF RowsSound
<1>4. Posted(PostingsWithout(n), w)
  <2>1. PostingsWithout(n) =
           (UNION {PostingsOf(searchRows, i) : i \in DOMAIN searchRows})
             \ UNION {PostingsOf(searchRows, i) : i \in RowsOfNote(n)}
    BY DEF SearchInv, Posted, PostingsWithout
  <2>2. \A p : p \in PostingsWithout(n) <=>
           \E i \in left : p \in searchRows[i].words \X {i}
    BY <1>1, <2>1 DEF PostingsOf, RowsOfNote
  <2>3. \A i \in left : PostingsOf(w, i) = searchRows[i].words \X {i}
    BY <1>2 DEF PostingsOf
  <2>. QED
    BY <1>2, <2>2, <2>3 DEF Posted
<1>. QED
  BY <1>1, <1>2, <1>3, <1>4 DEF w

\* A stored note replaces its row and is what was answered.
LEMMA IndexKeeps ==
    ASSUME SearchInv, NEW n \in SearchNotes, NEW words \in SUBSET Words,
           NEW folder, NEW tags, IndexNote(n, words, folder, tags)
    PROVE  SearchInv'
<1>. DEFINE w == Without(n)
            k == NextRowId(w)
            row == [note |-> n, words |-> words, folder |-> folder, tags |-> tags]
<1>1. /\ searchRows' = InsertRow(w, k, row)
      /\ postings' = PostingsWithout(n) \cup (words \X {k})
      /\ indexed' = [indexed EXCEPT ![n] = row]
  BY DEF IndexNote
<1>2. /\ RowsSound(w) /\ Posted(PostingsWithout(n), w)
      /\ DOMAIN w = {i \in DOMAIN searchRows : searchRows[i].note # n}
      /\ \A i \in DOMAIN w : w[i] = searchRows[i]
  BY WithoutNote
<1>3. SearchRow(row) /\ row.note = n /\ row.words = words
  BY DEF SearchRow
<1>. HIDE DEF w, row
<1>4. PICK b \in Nat : DOMAIN w \subseteq 1..b
  BY <1>2 DEF RowsSound
<1>5. k \in 1..(b+1) /\ k \notin DOMAIN w
  BY <1>2, <1>4, NewRowId DEF RowsSound
<1>. HIDE DEF k
<1>6. /\ DOMAIN searchRows' = DOMAIN w \cup {k} /\ searchRows'[k] = row
      /\ searchRows' = [i \in DOMAIN searchRows' |-> searchRows'[i]]
      /\ \A i \in DOMAIN w : searchRows'[i] = w[i]
  BY <1>1, <1>5 DEF InsertRow
<1>7. RowsSound(searchRows')
  <2>1. b + 1 \in Nat /\ DOMAIN searchRows' \subseteq 1..(b + 1)
    BY <1>4, <1>5, <1>6
  <2>2. \A i \in DOMAIN w : w[i].note # n
    BY <1>2
  <2>. QED
    BY <1>2, <1>3, <1>6, <2>1, <2>2 DEF RowsSound
<1>8. Posted(postings', searchRows')
  <2>1. \A i \in DOMAIN w : PostingsOf(searchRows', i) = PostingsOf(w, i)
    BY <1>6 DEF PostingsOf
  <2>2. PostingsOf(searchRows', k) = words \X {k}
    BY <1>3, <1>6 DEF PostingsOf
  <2>. QED
    BY <1>1, <1>2, <1>6, <2>1, <2>2 DEF Posted
<1>9. Answers(indexed', searchRows')
  <2>1. indexed' = [m \in SearchNotes |-> IF m = n THEN row ELSE indexed[m]]
    BY <1>1 DEF SearchInv, Answers
  <2>2. ASSUME NEW m \in SearchNotes \ {n}
        PROVE  \/ indexed'[m] = NotIndexed /\ \A i \in DOMAIN searchRows' : searchRows'[i].note # m
               \/ \E i \in DOMAIN searchRows' :
                     searchRows'[i].note = m /\ indexed'[m] = searchRows'[i]
    <3>1. indexed'[m] = indexed[m]
      BY <2>1
    <3>2. \A i \in DOMAIN searchRows : searchRows[i].note = m => i \in DOMAIN w
      BY <1>2
    <3>3. CASE indexed[m] = NotIndexed /\ \A i \in DOMAIN searchRows : searchRows[i].note # m
      BY <1>2, <1>3, <1>6, <3>1, <3>3
    <3>4. CASE \E i \in DOMAIN searchRows : searchRows[i].note = m /\ indexed[m] = searchRows[i]
      BY <1>2, <1>6, <3>1, <3>2, <3>4
    <3>. QED
      BY <3>3, <3>4 DEF SearchInv, Answers
  <2>3. \E i \in DOMAIN searchRows' : searchRows'[i].note = n /\ indexed'[n] = searchRows'[i]
    BY <1>3, <1>6, <2>1
  <2>. QED
    BY <2>1, <2>2, <2>3 DEF Answers
<1>. QED
  BY <1>7, <1>8, <1>9 DEF SearchInv

\* remove takes the row and its postings, by the trigger.
LEMMA RemoveKeeps ==
    ASSUME SearchInv, NEW n \in SearchNotes, RemoveNote(n)
    PROVE  SearchInv'
<1>1. /\ searchRows' = Without(n) /\ postings' = PostingsWithout(n)
      /\ indexed' = [indexed EXCEPT ![n] = NotIndexed]
  BY DEF RemoveNote
<1>2. /\ RowsSound(searchRows') /\ Posted(postings', searchRows')
      /\ DOMAIN searchRows' = {i \in DOMAIN searchRows : searchRows[i].note # n}
      /\ \A i \in DOMAIN searchRows' : searchRows'[i] = searchRows[i]
  BY <1>1, WithoutNote
<1>3. indexed' = [m \in SearchNotes |-> IF m = n THEN NotIndexed ELSE indexed[m]]
  BY <1>1 DEF SearchInv, Answers
<1>4. Answers(indexed', searchRows')
  BY <1>2, <1>3 DEF SearchInv, Answers
<1>. QED
  BY <1>2, <1>4 DEF SearchInv

\* The index follows its table through every call, failed ones too.
LEMMA SearchKeeps ==
    ASSUME SearchInv, [SearchNext]_searchVars
    PROVE  SearchInv'
<1>1. CASE UNCHANGED searchVars
  BY <1>1 DEF searchVars, SearchInv
<1>2. ASSUME NEW n \in SearchNotes, IndexNoteFails(n) PROVE SearchInv'
  BY <1>2 DEF IndexNoteFails, SearchInv
<1>3. ASSUME RebuildIndex PROVE SearchInv'
  BY <1>3 DEF RebuildIndex, SearchInv, Posted
<1>4. ASSUME NEW n \in SearchNotes, NEW words \in SUBSET Words \ {{}}, NEW folder, NEW tags,
             IndexNote(n, words, folder, tags)
      PROVE  SearchInv'
  BY <1>4, IndexKeeps
<1>. QED
  BY <1>1, <1>2, <1>3, <1>4, RemoveKeeps DEF SearchNext

\* A search finds the rows whose words it asks for, and they are what was stored.
LEMMA SearchFinds ==
    ASSUME SearchInv
    PROVE  SearchTypeOK /\ FindsWhatWasIndexed /\ FilterMissesNothing
<1>1. \A w, i : <<w, i>> \in postings <=> i \in DOMAIN searchRows /\ w \in searchRows[i].words
  BY DEF SearchInv, Posted, PostingsOf
<1>2. SearchTypeOK
  <2>1. \A i \in DOMAIN searchRows :
           /\ searchRows[i].note \in SearchNotes /\ RowsOfNote(searchRows[i].note) = {i}
    BY DEF SearchInv, RowsSound, SearchRow, RowsOfNote
  <2>2. \A p \in postings : p \in Words \X DOMAIN searchRows
    BY DEF SearchInv, Posted, PostingsOf, RowsSound, SearchRow
  <2>. QED
    BY <2>1, <2>2 DEF SearchTypeOK
<1>3. \A i \in DOMAIN searchRows :
         /\ searchRows[i] # NotIndexed /\ searchRows[i].note \in SearchNotes
         /\ indexed[searchRows[i].note] = searchRows[i]
  <2>1. ASSUME NEW row, SearchRow(row) PROVE row # NotIndexed
    <3>1. DOMAIN row = {"note", "words", "folder", "tags"} /\ DOMAIN NotIndexed = {"none"}
      BY <2>1 DEF SearchRow, NotIndexed
    <3>. QED
      BY <3>1
  <2>. QED
    BY <2>1 DEF SearchInv, RowsSound, SearchRow, Answers
<1>4. FindsWhatWasIndexed
  <2>. SUFFICES ASSUME NEW word \in Words
                PROVE  Search(word) = {indexed[n] : n \in
                  {m \in SearchNotes : indexed[m] # NotIndexed /\ word \in indexed[m].words}}
    BY DEF FindsWhatWasIndexed
  <2>1. \A x : x \in Search(word) <=>
            \E i \in DOMAIN searchRows : word \in searchRows[i].words /\ x = searchRows[i]
    BY <1>1 DEF Search
  <2>2. \A m \in SearchNotes : indexed[m] # NotIndexed =>
            \E i \in DOMAIN searchRows : indexed[m] = searchRows[i]
    BY DEF SearchInv, Answers
  <2>. QED
    BY <1>3, <2>1, <2>2
<1>5. FilterMissesNothing
  BY DEF FilterMissesNothing, SearchWithFilter, HasTag
<1>. QED
  BY <1>2, <1>4, <1>5

-----------------------------------------------------------------------------
(* The audit log *)

\* j comes no later than i among the entries of their user.
NoLater(j, i) ==
    \/ audit[j].time > audit[i].time
    \/ audit[j].time = audit[i].time /\ j <= i

\* The place of entry i among the entries of its user, the newest first.
Rank(i) == Cardinality({j \in EntriesOf(audit[i].user) : NoLater(j, i)})

EntriesSound ==
    /\ written \in Nat /\ DOMAIN audit \subseteq 1..written
    /\ \A i \in DOMAIN audit : audit[i].user \in AuditUsers /\ audit[i].time \in AuditTimes

\* A reader has seen what lies before its offset of what it began with.
ReaderSound ==
    /\ reading = [user |-> reading.user, offset |-> reading.offset,
                  seen |-> reading.seen, from |-> reading.from]
    /\ reading.user \in AuditUsers /\ reading.offset \in Nat
    /\ reading.seen \in SUBSET (1..written) /\ reading.from \in SUBSET (1..written)
    /\ \A i \in EntriesOf(reading.user) :
          i \in reading.from \ reading.seen => Rank(i) > reading.offset

AuditInv == EntriesSound /\ (reading = NotReading \/ ReaderSound)

\* An empty log has no reader.
LEMMA AuditStart == AuditInit => AuditInv
BY EmptyTable DEF AuditInit, AuditInv, EntriesSound

\* The list that pages are cut from has each entry of the user at its rank.
LEMMA EntriesRanked ==
    ASSUME EntriesSound, NEW u
    PROVE  /\ NewestFirst(u) \in Seq(EntriesOf(u))
           /\ \A m \in 1..Len(NewestFirst(u)) : Rank(NewestFirst(u)[m]) = m
           /\ \A i \in EntriesOf(u) : \E m \in 1..Len(NewestFirst(u)) : NewestFirst(u)[m] = i
<1>. DEFINE E == EntriesOf(u)
            ids == [i \in 1..written |-> i]
            t == Kept(ids, LAMBDA i : i \in E)
            key == [m \in DOMAIN t |-> 0 - audit[t[m]].time]
            e == NewestFirst(u)
<1>1. /\ written \in Nat /\ E \in SUBSET (1..written)
      /\ \A i \in E : audit[i].time \in Nat /\ audit[i].user = u
  BY AuditAssumption DEF EntriesSound, EntriesOf
<1>. HIDE DEF E
<1>2. ids \in Seq(1..written) /\ E \in SUBSET DOMAIN ids /\ \A i \in E : ids[i] = i
  BY <1>1
<1>3. Filters(t, ids, E)
  <2>. DEFINE hits == {i \in DOMAIN ids : ids[i] \in E}
  <2>1. hits = E
    BY <1>1
  <2>2. t = [n \in 1..Cardinality(hits) |->
               ids[CHOOSE i \in hits : Cardinality({j \in hits : j <= i}) = n]]
    BY DEF Kept
  <2>. HIDE DEF ids, t, hits
  <2>3. Filters(t, ids, hits)
    BY <2>2 DEF Filters
  <2>. QED
    BY <2>1, <2>3
<1>. HIDE DEF ids, t
<1>4. /\ t \in Seq(1..written) /\ DOMAIN t = 1..Len(t)
      /\ \E at : Picks(t, ids, at, E)
  BY <1>2, <1>3, FilterPicks
<1>5. /\ t \in Seq(E)
      /\ \A i \in E : \E m \in DOMAIN t : t[m] = i
      /\ \A m, l \in DOMAIN t : m < l => t[m] < t[l]
  <2>1. PICK at : Picks(t, ids, at, E)
    BY <1>4
  <2>2. at \in [DOMAIN t -> E] /\ \A m \in DOMAIN t : t[m] = at[m]
    BY <1>2, <2>1 DEF Picks
  <2>3. t \in Seq(E)
    <3>1. Len(t) \in Nat /\ t = [m \in 1..Len(t) |-> t[m]] /\ \A m \in 1..Len(t) : t[m] \in E
      BY <1>4, <2>2
    <3>. QED
      BY <3>1
  <2>4. /\ \A i \in E : \E m \in DOMAIN t : at[m] = i
        /\ \A m, l \in DOMAIN t : m < l => at[m] < at[l]
    BY <2>1 DEF Picks
  <2>. QED
    BY <2>2, <2>3, <2>4
<1>6. key \in [DOMAIN t -> Int] /\ \A m \in DOMAIN t : t[m] \in E
  <2>1. \A m \in DOMAIN t : t[m] \in E
    BY <1>5
  <2>2. \A i \in E : 0 - audit[i].time \in Int
    BY <1>1
  <2>3. \A m \in DOMAIN t : 0 - audit[t[m]].time \in Int
    BY <2>1, <2>2
  <2>. QED
    BY <2>1, <2>3
<1>7. e = StableSort(t, LAMBDA i, j : audit[i].time > audit[j].time)
  BY DEF NewestFirst, E, t, ids
<1>8. Sorts(e, t, key)
  <2>. DEFINE Up(k) == {j \in DOMAIN t : \/ audit[t[j]].time > audit[t[k]].time
                                         \/ ~(audit[t[k]].time > audit[t[j]].time) /\ j <= k}
              Up2(k) == {j \in DOMAIN t : key[j] < key[k] \/ (~(key[k] < key[j]) /\ j <= k)}
  <2>1. e = [i \in DOMAIN t |-> t[CHOOSE k \in DOMAIN t : Cardinality(Up(k)) = i]]
    BY <1>7 DEF StableSort, Place
  <2>2. \A k \in DOMAIN t : Up(k) = Up2(k)
    <3>1. \A j, k \in DOMAIN t : audit[t[j]].time > audit[t[k]].time <=> key[j] < key[k]
      BY <1>1, <1>6
    <3>. HIDE DEF key
    <3>. QED
      BY <3>1
  <2>3. Sorts(e, t, key) <=>
           e = [i \in DOMAIN t |-> t[CHOOSE k \in DOMAIN t : Cardinality(Up2(k)) = i]]
    BY DEF Sorts
  <2>. HIDE DEF Up, Up2
  <2>. QED
    BY <2>1, <2>2, <2>3
<1>. HIDE DEF e
<1>9. /\ e \in Seq(E) /\ DOMAIN e = DOMAIN t /\ Len(e) = Len(t)
      /\ \E at : SortsBy(e, t, at, key)
  <2>. HIDE DEF key
  <2>. QED
    BY <1>5, <1>6, <1>8, SortPicks
<1>10. /\ \A i \in E : \E m \in DOMAIN e : e[m] = i
       /\ \A m, l \in DOMAIN e : m < l => NoLater(e[m], e[l]) /\ ~NoLater(e[l], e[m])
  <2>1. PICK at : SortsBy(e, t, at, key)
    BY <1>9
  <2>2. /\ at \in [DOMAIN t -> DOMAIN t] /\ \A m \in DOMAIN t : e[m] = t[at[m]]
        /\ \A i \in DOMAIN t : \E m \in DOMAIN t : at[m] = i
    BY <2>1 DEF SortsBy
  <2>3. ASSUME NEW m \in DOMAIN t, NEW l \in DOMAIN t, m < l
        PROVE  NoLater(e[m], e[l]) /\ ~NoLater(e[l], e[m])
    <3>1. \/ key[at[m]] < key[at[l]]
          \/ key[at[m]] = key[at[l]] /\ at[m] < at[l]
      BY <2>1, <2>3 DEF SortsBy
    <3>2. at[m] \in DOMAIN t /\ at[l] \in DOMAIN t
      BY <2>2
    <3>3. /\ e[m] \in E /\ e[l] \in E /\ e[m] = t[at[m]] /\ e[l] = t[at[l]]
          /\ key[at[m]] = 0 - audit[e[m]].time /\ key[at[l]] = 0 - audit[e[l]].time
      BY <1>6, <2>2, <3>2
    <3>4. at[m] < at[l] => e[m] < e[l]
      BY <1>5, <3>2, <3>3
    <3>5. \A i \in E : i \in Nat /\ audit[i].time \in Nat
      BY <1>1
    <3>. HIDE DEF key
    <3>. QED
      BY <3>1, <3>3, <3>4, <3>5 DEF NoLater
  <2>. QED
    BY <1>5, <1>9, <2>2, <2>3
<1>11. ASSUME NEW m \in 1..Len(e) PROVE Rank(e[m]) = m
  <2>. DEFINE first == {j \in E : NoLater(j, e[m])}
              f == [k \in 1..m |-> e[k]]
  <2>1. Len(e) \in Nat /\ DOMAIN e = 1..Len(e) /\ \A k \in DOMAIN e : e[k] \in E
    BY <1>9
  <2>2. \A k \in 1..m : e[k] \in first
    <3>1. NoLater(e[m], e[m])
      <4>1. e[m] \in E /\ E \subseteq 1..written
        BY <1>1, <2>1
      <4>2. e[m] \in Nat
        <5>1. e[m] \in 1..written
          BY <4>1
        <5>2. \A x \in 1..written : x \in Nat
          BY <1>1
        <5>. QED
          BY <5>1, <5>2
      <4>3. audit[e[m]].time = audit[e[m]].time /\ e[m] <= e[m]
        BY <4>2
      <4>. QED
        BY <4>3 DEF NoLater
    <3>. QED
      BY <1>10, <2>1, <3>1
  <2>3. \A j \in first : \E k \in 1..m : e[k] = j
    <3>. SUFFICES ASSUME NEW j \in first PROVE \E k \in 1..m : e[k] = j
      OBVIOUS
    <3>1. PICK k \in DOMAIN e : e[k] = j
      BY <1>10
    <3>2. ~(m < k)
      BY <1>10, <2>1, <3>1
    <3>. QED
      BY <2>1, <3>1, <3>2
  <2>4. \A k, l \in 1..m : e[k] = e[l] => k = l
    <3>. SUFFICES ASSUME NEW k \in 1..m, NEW l \in 1..m, e[k] = e[l], k < l PROVE FALSE
      BY <2>1
    <3>. QED
      BY <1>10, <2>1
  <2>. HIDE DEF first
  <2>5. f \in Bijection(1..m, first)
    BY <2>2, <2>3, <2>4 DEF Bijection, Injection, IsInjective, Surjection
  <2>6. IsFiniteSet(1..m) /\ Cardinality(1..m) = m
    BY <2>1, FS_Interval
  <2>7. Cardinality(first) = m
    BY <2>5, <2>6, FS_Bijection DEF ExistsBijection
  <2>8. Rank(e[m]) = Cardinality({j \in E : NoLater(j, e[m])})
    BY <1>1, <2>1 DEF Rank, E
  <2>. QED
    BY <2>7, <2>8 DEF first
<1>. QED
  BY <1>9, <1>10, <1>11 DEF E, e

\* A new entry is the newest number, and takes no place a reader has passed.
LEMMA LogKeeps ==
    ASSUME AuditInv, LogAudit
    PROVE  AuditInv'
<1>1. PICK u \in AuditUsers, t \in AuditTimes :
          /\ written' = written + 1
          /\ audit' = InsertRow(audit, written + 1, [user |-> u, time |-> t])
          /\ reading' = reading
  BY DEF LogAudit
<1>. DEFINE row == [user |-> u, time |-> t]
            new == written + 1
<1>2. row.user = u /\ row.time = t
  OBVIOUS
<1>. HIDE DEF row
<1>3. /\ written \in Nat /\ DOMAIN audit \subseteq 1..written
      /\ \A i \in DOMAIN audit : audit[i].user \in AuditUsers /\ audit[i].time \in AuditTimes
  BY DEF AuditInv, EntriesSound
<1>4. /\ DOMAIN audit' = DOMAIN audit \cup {new} /\ audit'[new] = row
      /\ \A i \in DOMAIN audit : audit'[i] = audit[i]
  <2>1. audit' = InsertRow(audit, new, row)
    BY <1>1 DEF row
  <2>. QED
    BY <1>3, <2>1 DEF InsertRow
<1>5. EntriesSound'
  <2>1. written' \in Nat /\ DOMAIN audit' \subseteq 1..written'
    BY <1>1, <1>3, <1>4
  <2>. QED
    BY <1>2, <1>3, <1>4, <2>1 DEF EntriesSound
<1>6. ASSUME ReaderSound PROVE ReaderSound'
  <2>1. ASSUME NEW i \in EntriesOf(reading.user)', i \in (reading.from \ reading.seen)'
        PROVE  Rank(i)' > reading'.offset
    <3>1. i \in EntriesOf(reading.user)
      <4>1. i # new
        BY <1>1, <1>3, <1>6, <2>1 DEF ReaderSound
      <4>. QED
        BY <1>1, <1>4, <2>1, <4>1 DEF EntriesOf
    <3>2. Rank(i) > reading.offset
      BY <1>1, <1>6, <2>1, <3>1 DEF ReaderSound
    <3>. DEFINE A == {j \in EntriesOf(audit[i].user) : NoLater(j, i)}
                B == {j \in EntriesOf(audit[i].user)' : NoLater(j, i)'}
    <3>3. i \in DOMAIN audit /\ audit'[i] = audit[i]
      BY <1>4, <3>1 DEF EntriesOf
    <3>4. A \subseteq B
      BY <1>4, <3>3 DEF EntriesOf, NoLater
    <3>5. IsFiniteSet(B) /\ Cardinality(B) \in Nat
      <4>1. B \in SUBSET (1..written')
        BY <1>5 DEF EntriesOf, EntriesSound
      <4>. HIDE DEF B
      <4>. QED
        BY <4>1, <1>5, CountIn DEF EntriesSound
    <3>6. Cardinality(A) <= Cardinality(B) /\ Cardinality(A) \in Nat
      <4>. HIDE DEF A, B
      <4>. QED
        BY <3>4, <3>5, FS_Subset, FS_CardinalityType
    <3>7. Rank(i) = Cardinality(A) /\ Rank(i)' = Cardinality(B)
      BY DEF Rank
    <3>8. reading'.offset = reading.offset /\ reading.offset \in Nat
      BY <1>1, <1>6 DEF ReaderSound
    <3>. HIDE DEF A, B
    <3>. QED
      BY <3>2, <3>5, <3>6, <3>7, <3>8
  <2>2. \A S \in SUBSET (1..written) : S \in SUBSET (1..written')
    BY <1>1, <1>3
  <2>. QED
    BY <1>1, <1>6, <2>1, <2>2 DEF ReaderSound
<1>. QED
  BY <1>1, <1>5, <1>6 DEF AuditInv

\* What a purge takes comes after all that it leaves.
LEMMA PurgeKeeps ==
    ASSUME AuditInv, PurgeAuditLog
    PROVE  AuditInv'
<1>1. PICK before \in AuditTimes :
          /\ audit' = KeepRows(audit, {i \in DOMAIN audit : audit[i].time >= before})
          /\ UNCHANGED <<written, reading>>
  BY DEF PurgeAuditLog
<1>2. /\ DOMAIN audit' = {i \in DOMAIN audit : audit[i].time >= before}
      /\ \A i \in DOMAIN audit' : audit'[i] = audit[i]
  <2>. DEFINE left == {i \in DOMAIN audit : audit[i].time >= before}
  <2>1. audit' = KeepRows(audit, left)
    BY <1>1
  <2>. HIDE DEF left
  <2>2. DOMAIN audit' = left /\ \A i \in left : audit'[i] = audit[i]
    BY <2>1, KeptRows
  <2>. QED
    BY <2>2 DEF left
<1>3. EntriesSound'
  BY <1>1, <1>2 DEF AuditInv, EntriesSound
<1>4. ASSUME NEW i \in DOMAIN audit' PROVE Rank(i)' = Rank(i)
  <2>1. before \in Nat /\ \A j \in DOMAIN audit : audit[j].time \in Nat
    BY AuditAssumption DEF AuditInv, EntriesSound
  <2>2. audit'[i] = audit[i] /\ i \in DOMAIN audit /\ audit[i].time >= before
    BY <1>2
  <2>3. \A j \in DOMAIN audit : NoLater(j, i) => j \in DOMAIN audit'
    BY <1>2, <2>1, <2>2 DEF NoLater
  <2>4. \A j \in DOMAIN audit' : NoLater(j, i)' <=> NoLater(j, i)
    BY <1>2, <2>2 DEF NoLater
  <2>5. {j \in EntriesOf(audit[i].user)' : NoLater(j, i)'}
           = {j \in EntriesOf(audit[i].user) : NoLater(j, i)}
    BY <1>2, <2>2, <2>3, <2>4 DEF EntriesOf
  <2>. QED
    BY <2>5 DEF Rank
<1>5. \A i \in EntriesOf(reading.user)' : i \in EntriesOf(reading.user) /\ i \in DOMAIN audit'
  BY <1>1, <1>2 DEF EntriesOf
<1>. QED
  BY <1>1, <1>3, <1>4, <1>5 DEF AuditInv, ReaderSound

\* A page has the entries of the ranks it covers.
LEMMA PageKeeps ==
    ASSUME AuditInv, GetAuditLog
    PROVE  AuditInv'
<1>. DEFINE At(u) == IF reading = NotReading
                       THEN [user |-> u, offset |-> 0, seen |-> {}, from |-> EntriesOf(u)]
                       ELSE reading
<1>1. PICK u \in AuditUsers :
          /\ At(u).user = u
          /\ reading' = [At(u) EXCEPT !.offset = @ + PageLimit,
                                      !.seen = @ \cup PageAt(u, At(u).offset)]
          /\ UNCHANGED <<audit, written>>
  BY DEF GetAuditLog
<1>. DEFINE at == At(u)
            o == at.offset
            page == PageAt(u, o)
            e == NewestFirst(u)
<1>2. EntriesSound /\ EntriesOf(u) \in SUBSET (1..written)
  BY DEF AuditInv, EntriesSound, EntriesOf
<1>3. /\ e \in Seq(EntriesOf(u))
      /\ \A m \in 1..Len(e) : Rank(e[m]) = m
      /\ \A i \in EntriesOf(u) : \E m \in 1..Len(e) : e[m] = i
  BY <1>2, EntriesRanked
<1>4. /\ at = [user |-> u, offset |-> at.offset, seen |-> at.seen, from |-> at.from]
      /\ o \in Nat /\ at.seen \in SUBSET (1..written) /\ at.from \in SUBSET (1..written)
      /\ \A i \in EntriesOf(u) : i \in at.from \ at.seen => Rank(i) > o
  <2>1. CASE reading = NotReading
    <3>1. at = [user |-> u, offset |-> 0, seen |-> {}, from |-> EntriesOf(u)]
      BY <2>1
    <3>2. \A i \in EntriesOf(u) : Rank(i) > 0
      <4>1. Len(e) \in Nat
        BY <1>3
      <4>. HIDE DEF e
      <4>. QED
        BY <1>3, <4>1
    <3>. QED
      BY <1>2, <3>1, <3>2
  <2>2. CASE reading # NotReading
    <3>1. at = reading /\ ReaderSound
      BY <2>2 DEF AuditInv
    <3>. QED
      BY <1>1, <3>1 DEF ReaderSound
  <2>. QED
    BY <2>1, <2>2
<1>5. /\ page \in SUBSET EntriesOf(u)
      /\ \A m \in 1..Len(e) : m > o /\ m <= o + PageLimit => e[m] \in page
  <2>. DEFINE last == IF o + PageLimit < Len(e) THEN o + PageLimit ELSE Len(e)
  <2>1. page = {e[i] : i \in (o + 1)..last}
    BY DEF PageAt
  <2>2. Len(e) \in Nat /\ PageLimit \in Nat /\ DOMAIN e = 1..Len(e)
        /\ \A m \in 1..Len(e) : e[m] \in EntriesOf(u)
    BY <1>3, AuditAssumption
  <2>3. \A i \in (o + 1)..last : i \in 1..Len(e)
    BY <1>4, <2>2
  <2>4. \A m \in 1..Len(e) : m > o /\ m <= o + PageLimit => m \in (o + 1)..last
    BY <1>4, <2>2
  <2>. HIDE DEF e, last, page, o
  <2>. QED
    BY <2>1, <2>2, <2>3, <2>4
<1>6. reading' = [user |-> u, offset |-> o + PageLimit, seen |-> at.seen \cup page, from |-> at.from]
  <2>. DEFINE s == at.seen
              k == at.from
  <2>1. at = [user |-> u, offset |-> o, seen |-> s, from |-> k]
    BY <1>4
  <2>2. reading' = [at EXCEPT !.offset = o + PageLimit, !.seen = s \cup page]
    BY <1>1
  <2>. HIDE DEF at, s, k, o, page
  <2>3. reading' = [user |-> u, offset |-> o + PageLimit, seen |-> s \cup page, from |-> k]
    BY <2>1, <2>2
  <2>. QED
    BY <2>3 DEF s, k
<1>7. ASSUME NEW i \in EntriesOf(u), i \in at.from, i \notin at.seen \cup page
      PROVE  Rank(i) > o + PageLimit
  <2>1. PICK m \in 1..Len(e) : e[m] = i
    BY <1>3
  <2>2. Rank(i) = m /\ m > o /\ ~(m > o /\ m <= o + PageLimit)
    BY <1>3, <1>4, <1>5, <1>7, <2>1
  <2>3. m \in Int /\ o \in Nat /\ PageLimit \in Nat
    BY <1>4, AuditAssumption
  <2>. HIDE DEF o
  <2>. QED
    BY <2>2, <2>3
<1>8. EntriesOf(u)' = EntriesOf(u) /\ \A i : Rank(i)' = Rank(i)
  BY <1>1 DEF EntriesOf, Rank, NoLater
<1>9. ReaderSound'
  <2>. HIDE DEF at, o, page
  <2>1. /\ reading'.user = u /\ reading'.offset = o + PageLimit
        /\ reading'.seen = at.seen \cup page /\ reading'.from = at.from
    BY <1>6
  <2>2. o + PageLimit \in Nat /\ at.seen \cup page \in SUBSET (1..written)
    BY <1>2, <1>4, <1>5, AuditAssumption
  <2>3. reading' = [user |-> reading'.user, offset |-> reading'.offset,
                    seen |-> reading'.seen, from |-> reading'.from]
    BY <1>6
  <2>4. /\ reading'.user \in AuditUsers /\ reading'.offset \in Nat /\ written' = written
        /\ reading'.seen \in SUBSET (1..written) /\ reading'.from \in SUBSET (1..written)
    BY <1>1, <1>4, <2>1, <2>2
  <2>5. \A i \in EntriesOf(u)' :
           i \in reading'.from \ reading'.seen => Rank(i)' > reading'.offset
    BY <1>7, <1>8, <2>1
  <2>. QED
    BY <2>1, <2>3, <2>4, <2>5 DEF ReaderSound, EntriesOf
<1>. QED
  BY <1>1, <1>9 DEF AuditInv, EntriesSound

\* Every step keeps the reader behind the entries it has still to see.
LEMMA AuditKeeps ==
    ASSUME AuditInv, [AuditNext]_auditVars
    PROVE  AuditInv'
<1>1. CASE UNCHANGED auditVars
  BY <1>1 DEF auditVars, AuditInv, EntriesSound, ReaderSound, EntriesOf, Rank, NoLater
<1>2. CASE StopReading
  BY <1>2 DEF StopReading, AuditInv, EntriesSound
<1>. QED
  BY <1>1, <1>2, LogKeeps, PurgeKeeps, PageKeeps DEF AuditNext

\* An entry not seen yet lies after the offset.
LEMMA PagesComplete ==
    ASSUME AuditInv
    PROVE  AuditTypeOK /\ PagesMissNothing
<1>1. AuditTypeOK
  BY DEF AuditInv, EntriesSound, ReaderSound, NotReading, AuditTypeOK
<1>2. ASSUME reading # NotReading, NEW i \in DOMAIN NewestFirst(reading.user),
             NewestFirst(reading.user)[i] \in reading.from \ reading.seen
      PROVE  i > reading.offset
  <2>. DEFINE e == NewestFirst(reading.user)
  <2>1. ReaderSound /\ EntriesSound
    BY <1>2 DEF AuditInv
  <2>2. e \in Seq(EntriesOf(reading.user)) /\ \A m \in 1..Len(e) : Rank(e[m]) = m
    BY <2>1, EntriesRanked
  <2>3. i \in 1..Len(e) /\ e[i] \in EntriesOf(reading.user)
    BY <1>2, <2>2
  <2>. QED
    BY <1>2, <2>1, <2>2, <2>3 DEF ReaderSound
<1>. QED
  BY <1>1, <1>2 DEF PagesMissNothing

-----------------------------------------------------------------------------
(* Blocks *)

BlockSpace(n) == [id : 1..n, note : Notes, position : Nat]

OncePerId(list) == \A i, j \in DOMAIN list : list[i].id = list[j].id => i = j

\* The blocks of each note have places of their own, but where parse_markdown wrote.
Apart(list, over) ==
    \A i, j \in DOMAIN list :
        i # j /\ list[i].note = list[j].note /\ list[i].note \notin over =>
            list[i].position # list[j].position

EditorInv ==
    /\ created \in Nat /\ blocks \in Seq(BlockSpace(created))
    /\ OncePerId(blocks) /\ Apart(blocks, parsedOver)

\* Without blocks there are no places.
LEMMA EditorStart == EditorInit => EditorInv
BY DEF EditorInit, EditorInv, OncePerId, Apart

\* What a block has.
LEMMA BlockFields ==
    ASSUME NEW n, NEW b \in BlockSpace(n)
    PROVE  /\ b.id \in 1..n /\ b.note \in Notes /\ b.position \in Nat
           /\ \A p \in Nat : /\ [b EXCEPT !.position = p] \in BlockSpace(n)
                             /\ [b EXCEPT !.position = p].id = b.id
                             /\ [b EXCEPT !.position = p].note = b.note
                             /\ [b EXCEPT !.position = p].position = p
BY DEF BlockSpace

\* Blocks stay blocks when ids are drawn.
LEMMA MoreIds ==
    ASSUME NEW n \in Nat, NEW m \in Nat, n <= m
    PROVE  BlockSpace(n) \subseteq BlockSpace(m)
<1>1. 1..n \subseteq 1..m
  OBVIOUS
<1>. QED
  BY <1>1 DEF BlockSpace

-----------------------------------------------------------------------------
(* Blocks: finding them *)

PlaceOfId(list, id) == FirstIndex(list, LAMBDA b : b.id = id)

\* An id that is in a list is found there.
LEMMA IdFound ==
    ASSUME NEW S, NEW list \in Seq(S), NEW i \in DOMAIN list
    PROVE  LET k == PlaceOfId(list, list[i].id)
           IN  k \in DOMAIN list /\ list[k].id = list[i].id
               /\ BlockOf(list, list[i].id) = list[k]
<1>. DEFINE id == list[i].id
            hits == {k \in DOMAIN list : list[k].id = id}
            place == PlaceOfId(list, id)
<1>1. hits \subseteq Nat /\ hits # {} /\ hits \subseteq DOMAIN list
  OBVIOUS
<1>2. place = IF hits = {} THEN 0 ELSE CHOOSE k \in hits : \A j \in hits : k <= j
  BY DEF PlaceOfId, FirstIndex
<1>3. BlockOf(list, id) = list[place]
  BY DEF BlockOf, PlaceOfId
<1>4. \A k \in hits : list[k].id = id
  OBVIOUS
<1>. HIDE DEF hits, id, place
<1>5. \E k \in hits : \A j \in hits : k <= j
  BY <1>1, Orders!LeastNumber
<1>6. place \in hits
  BY <1>1, <1>2, <1>5
<1>. QED
  BY <1>1, <1>3, <1>4, <1>6 DEF id, place

\* The blocks of a note, as a filter of the vector.
LEMMA NoteBlocks ==
    ASSUME NEW n, NEW list \in Seq(BlockSpace(n)), NEW note
    PROVE  LET hits == {i \in DOMAIN list : list[i].note = note}
           IN  /\ InNote(list, note) \in Seq(BlockSpace(n))
               /\ \E at : Picks(InNote(list, note), list, at, hits)
<1>. DEFINE hits == {i \in DOMAIN list : list[i].note = note}
            t == InNote(list, note)
<1>1. t = [m \in 1..Cardinality(hits) |->
             list[CHOOSE i \in hits : Cardinality({j \in hits : j <= i}) = m]]
  BY DEF InNote, Kept
<1>2. hits \in SUBSET DOMAIN list
  OBVIOUS
<1>. HIDE DEF t, hits
<1>3. Filters(t, list, hits)
  BY <1>1 DEF Filters
<1>4. t \in Seq(BlockSpace(n)) /\ \E at : Picks(t, list, at, hits)
  BY <1>2, <1>3, FilterPicks
<1>. QED
  BY <1>4 DEF t, hits

\* What picks elements of a list picks each once.
LEMMA PicksOnce ==
    ASSUME NEW S, NEW s \in Seq(S), NEW T, NEW t \in Seq(T), NEW at, NEW hits \in SUBSET DOMAIN s,
           Picks(t, s, at, hits)
    PROVE  \A m, l \in DOMAIN t : at[m] = at[l] => m = l
<1>. SUFFICES ASSUME NEW m \in DOMAIN t, NEW l \in DOMAIN t, at[m] = at[l]
              PROVE  m = l
  OBVIOUS
<1>1. m \in Nat /\ l \in Nat /\ at[m] \in Nat
  BY DEF Picks
<1>2. ~(m < l) /\ ~(l < m)
  BY <1>1 DEF Picks
<1>. QED
  BY <1>1, <1>2

\* In a note each block is found by its id.
LEMMA FoundInNote ==
    ASSUME NEW n, NEW list \in Seq(BlockSpace(n)), OncePerId(list), NEW note
    PROVE  /\ BlockIdsOf(InNote(list, note)) = {list[i].id : i \in {j \in DOMAIN list : list[j].note = note}}
           /\ \A i \in DOMAIN list : list[i].note = note =>
                 BlockOf(InNote(list, note), list[i].id) = list[i]
           /\ InNote(list, note) = << >> => \A i \in DOMAIN list : list[i].note # note
<1>. DEFINE hits == {i \in DOMAIN list : list[i].note = note}
            t == InNote(list, note)
<1>1. t \in Seq(BlockSpace(n)) /\ \E at : Picks(t, list, at, hits)
  BY NoteBlocks
<1>2. PICK at : Picks(t, list, at, hits)
  BY <1>1
<1>. HIDE DEF t, hits
<1>3. /\ \A m \in DOMAIN t : at[m] \in hits /\ t[m] = list[at[m]]
      /\ \A i \in hits : \E m \in DOMAIN t : t[m] = list[i]
  BY <1>2 DEF Picks
<1>4. BlockIdsOf(t) = {list[i].id : i \in hits}
  BY <1>3 DEF BlockIdsOf
<1>5. ASSUME NEW i \in DOMAIN list, list[i].note = note
      PROVE  BlockOf(t, list[i].id) = list[i]
  <2>1. i \in hits
    BY <1>5 DEF hits
  <2>2. PICK m \in DOMAIN t : t[m] = list[i]
    BY <1>3, <2>1
  <2>3. PICK k \in DOMAIN t : t[k].id = list[i].id /\ BlockOf(t, list[i].id) = t[k]
    BY <1>1, <2>2, IdFound
  <2>4. at[k] \in DOMAIN list /\ t[k] = list[at[k]]
    BY <1>3 DEF hits
  <2>5. at[k] = i
    BY <2>3, <2>4 DEF OncePerId
  <2>. QED
    BY <2>3, <2>4, <2>5
<1>6. ASSUME t = << >>, NEW i \in DOMAIN list PROVE list[i].note # note
  <2>1. DOMAIN t = {}
    BY <1>6
  <2>2. i \notin hits
    BY <1>3, <2>1
  <2>. QED
    BY <2>2 DEF hits
<1>. QED
  BY <1>4, <1>5, <1>6 DEF t, hits

\* The blocks of a note in the order of their places.
LEMMA NoteInOrder ==
    ASSUME NEW n, NEW list \in Seq(BlockSpace(n)), OncePerId(list), NEW note
    PROVE  LET o == InOrder(list, note)
           IN  /\ o \in Seq(BlockSpace(n)) /\ OncePerId(o)
               /\ \A q \in DOMAIN o : \E i \in DOMAIN list : list[i].note = note /\ o[q] = list[i]
               /\ \A i \in DOMAIN list : list[i].note = note => \E q \in DOMAIN o : o[q] = list[i]
               /\ \A q, r \in DOMAIN o : q < r => o[q].position <= o[r].position
<1>. DEFINE hits == {i \in DOMAIN list : list[i].note = note}
            t == InNote(list, note)
            o == InOrder(list, note)
            key == [i \in DOMAIN t |-> t[i].position]
<1>1. t \in Seq(BlockSpace(n)) /\ \E at : Picks(t, list, at, hits)
  BY NoteBlocks
<1>2. PICK at : Picks(t, list, at, hits)
  BY <1>1
<1>3. o = StableSort(t, LAMBDA a, b : a.position < b.position)
  BY DEF InOrder
<1>. HIDE DEF t, hits, o
<1>4. \A i \in DOMAIN t : t[i] \in BlockSpace(n)
  BY <1>1
<1>5. key \in [DOMAIN t -> Int]
  BY <1>4, BlockFields
<1>6. Sorts(o, t, key)
  <2>. DEFINE Up(k) == {j \in DOMAIN t : \/ t[j].position < t[k].position
                                         \/ ~(t[k].position < t[j].position) /\ j <= k}
              Up2(k) == {j \in DOMAIN t : key[j] < key[k] \/ (~(key[k] < key[j]) /\ j <= k)}
  <2>1. o = [i \in DOMAIN t |-> t[CHOOSE k \in DOMAIN t : Cardinality(Up(k)) = i]]
    BY <1>3 DEF StableSort, Place
  <2>2. \A k \in DOMAIN t : Up(k) = Up2(k)
    OBVIOUS
  <2>3. Sorts(o, t, key) <=>
           o = [i \in DOMAIN t |-> t[CHOOSE k \in DOMAIN t : Cardinality(Up2(k)) = i]]
    BY DEF Sorts
  <2>. HIDE DEF Up, Up2, key
  <2>4. o = [i \in DOMAIN t |-> t[CHOOSE k \in DOMAIN t : Cardinality(Up2(k)) = i]]
    <3>. DEFINE At(i) == CHOOSE k \in DOMAIN t : Cardinality(Up(k)) = i
                At2(i) == CHOOSE k \in DOMAIN t : Cardinality(Up2(k)) = i
    <3>1. ASSUME NEW i \in DOMAIN t PROVE At(i) = At2(i)
      BY <2>2
    <3>2. o = [i \in DOMAIN t |-> t[At(i)]]
      BY <2>1
    <3>3. o = [i \in DOMAIN t |-> t[At2(i)]]
      <4>. HIDE DEF At, At2
      <4>. QED
        BY <3>1, <3>2
    <3>. QED
      BY <3>3
  <2>. QED
    BY <2>3, <2>4
<1>7. \A k \in DOMAIN t : key[k] = t[k].position
  OBVIOUS
<1>. HIDE DEF key
<1>8. o \in Seq(BlockSpace(n)) /\ DOMAIN o = DOMAIN t /\ \E to : SortsBy(o, t, to, key)
  BY <1>1, <1>5, <1>6, SortPicks
<1>9. PICK to : SortsBy(o, t, to, key)
  BY <1>8
<1>10. /\ \A m \in DOMAIN t : to[m] \in DOMAIN t /\ o[m] = t[to[m]]
       /\ \A i \in DOMAIN t : \E m \in DOMAIN t : o[m] = t[i]
       /\ \A m, l \in DOMAIN t : m < l => \/ key[to[m]] < key[to[l]]
                                          \/ key[to[m]] = key[to[l]] /\ to[m] < to[l]
  BY <1>9 DEF SortsBy
<1>11. /\ \A m \in DOMAIN t : at[m] \in hits /\ t[m] = list[at[m]]
       /\ \A i \in hits : \E m \in DOMAIN t : t[m] = list[i]
  BY <1>2 DEF Picks
<1>12. \A q, r \in DOMAIN o : q < r => o[q].position <= o[r].position /\ to[q] # to[r]
  <2>. SUFFICES ASSUME NEW q \in DOMAIN o, NEW r \in DOMAIN o, q < r
                PROVE  o[q].position <= o[r].position /\ to[q] # to[r]
    OBVIOUS
  <2>1. /\ to[q] \in DOMAIN t /\ to[r] \in DOMAIN t
        /\ o[q].position = key[to[q]] /\ o[r].position = key[to[r]]
    <3>1. q \in DOMAIN t /\ r \in DOMAIN t
      BY <1>8
    <3>2. to[q] \in DOMAIN t /\ to[r] \in DOMAIN t /\ o[q] = t[to[q]] /\ o[r] = t[to[r]]
      BY <1>10, <3>1
    <3>. QED
      BY <1>7, <3>2
  <2>2. key[to[q]] \in Int /\ key[to[r]] \in Int /\ to[q] \in Nat /\ to[r] \in Nat
    BY <1>1, <1>5, <2>1
  <2>3. \/ key[to[q]] < key[to[r]]
        \/ key[to[q]] = key[to[r]] /\ to[q] < to[r]
    BY <1>8, <1>10
  <2>. QED
    BY <2>1, <2>2, <2>3
<1>13. OncePerId(o)
  <2>. SUFFICES ASSUME NEW q \in DOMAIN o, NEW r \in DOMAIN o, o[q].id = o[r].id
                PROVE  q = r
    BY DEF OncePerId
  <2>1. /\ to[q] \in DOMAIN t /\ to[r] \in DOMAIN t
        /\ at[to[q]] \in DOMAIN list /\ at[to[r]] \in DOMAIN list
        /\ o[q] = list[at[to[q]]] /\ o[r] = list[at[to[r]]]
    BY <1>8, <1>10, <1>11 DEF hits
  <2>2. at[to[q]] = at[to[r]]
    BY <2>1 DEF OncePerId
  <2>3. to[q] = to[r]
    <3>1. hits \in SUBSET DOMAIN list
      BY DEF hits
    <3>. QED
      BY <1>1, <1>2, <2>1, <2>2, <3>1, PicksOnce
  <2>4. q \in Nat /\ r \in Nat
    BY <1>8
  <2>5. ~(q < r) /\ ~(r < q)
    BY <1>12, <2>3
  <2>. QED
    BY <2>4, <2>5
<1>14. \A q \in DOMAIN o : \E i \in DOMAIN list : list[i].note = note /\ o[q] = list[i]
  <2>. SUFFICES ASSUME NEW q \in DOMAIN o
                PROVE  \E i \in DOMAIN list : list[i].note = note /\ o[q] = list[i]
    OBVIOUS
  <2>1. q \in DOMAIN t
    BY <1>8
  <2>2. to[q] \in DOMAIN t /\ o[q] = t[to[q]]
    BY <1>10, <2>1
  <2>3. at[to[q]] \in hits /\ o[q] = list[at[to[q]]]
    BY <1>11, <2>2
  <2>. QED
    BY <2>3 DEF hits
<1>15. \A i \in DOMAIN list : list[i].note = note => \E q \in DOMAIN o : o[q] = list[i]
  <2>. SUFFICES ASSUME NEW i \in DOMAIN list, list[i].note = note
                PROVE  \E q \in DOMAIN o : o[q] = list[i]
    OBVIOUS
  <2>1. PICK m \in DOMAIN t : t[m] = list[i]
    BY <1>11 DEF hits
  <2>. QED
    BY <1>8, <1>10, <2>1
<1>. QED
  BY <1>8, <1>12, <1>13, <1>14, <1>15 DEF o

-----------------------------------------------------------------------------
(* Blocks: reindexing *)

\* A note that is reindexed keeps its order and its blocks get places of their own.
Reindexed(t, s, note) ==
    /\ DOMAIN t = DOMAIN s
    /\ \A i \in DOMAIN s :
          /\ t[i].id = s[i].id /\ t[i].note = s[i].note /\ t[i].position \in Nat
          /\ s[i].note # note => t[i] = s[i]
    /\ \A i, j \in DOMAIN s : s[i].note = note /\ s[j].note = note =>
          /\ i # j => t[i].position # t[j].position
          /\ s[i].position < s[j].position => t[i].position < t[j].position

\* Reindexing changes the places of one note, into distinct ones in the same order.
LEMMA ReindexSound ==
    ASSUME NEW n, NEW list \in Seq(BlockSpace(n)), OncePerId(list), NEW note
    PROVE  /\ Reindex(list, note) \in Seq(BlockSpace(n)) /\ OncePerId(Reindex(list, note))
           /\ Reindexed(Reindex(list, note), list, note)
<1>. DEFINE o == InOrder(list, note)
            r == Reindex(list, note)
            place == [i \in DOMAIN list |-> PlaceOfId(o, list[i].id)]
<1>1. /\ o \in Seq(BlockSpace(n)) /\ OncePerId(o)
      /\ \A q \in DOMAIN o : \E i \in DOMAIN list : list[i].note = note /\ o[q] = list[i]
      /\ \A i \in DOMAIN list : list[i].note = note => \E q \in DOMAIN o : o[q] = list[i]
      /\ \A q, p \in DOMAIN o : q < p => o[q].position <= o[p].position
  BY NoteInOrder
<1>2. r = [i \in DOMAIN list |-> IF list[i].note = note
             THEN [list[i] EXCEPT !.position = PlaceOfId(o, list[i].id) - 1] ELSE list[i]]
  BY DEF Reindex, PlaceOfId
<1>. HIDE DEF o, r
<1>3. \A i \in DOMAIN list : place[i] = PlaceOfId(o, list[i].id)
  OBVIOUS
<1>. HIDE DEF place
<1>4. ASSUME NEW i \in DOMAIN list, list[i].note = note
      PROVE  place[i] \in DOMAIN o /\ o[place[i]] = list[i]
  <2>1. PICK q \in DOMAIN o : o[q] = list[i]
    BY <1>1, <1>4
  <2>2. place[i] \in DOMAIN o /\ o[place[i]].id = o[q].id
    <3>1. PlaceOfId(o, o[q].id) \in DOMAIN o /\ o[PlaceOfId(o, o[q].id)].id = o[q].id
      BY <1>1, IdFound
    <3>2. place[i] = PlaceOfId(o, o[q].id)
      BY <1>3, <2>1
    <3>. QED
      BY <3>1, <3>2
  <2>3. place[i] = q
    BY <1>1, <2>2 DEF OncePerId
  <2>. QED
    BY <2>1, <2>3
<1>5. DOMAIN o \subseteq Nat \ {0}
  BY <1>1
<1>6. \A i \in DOMAIN list : list[i] \in BlockSpace(n)
  OBVIOUS
<1>7. ASSUME NEW i \in DOMAIN list
      PROVE  /\ r[i] \in BlockSpace(n) /\ r[i].id = list[i].id /\ r[i].note = list[i].note
             /\ list[i].note = note => r[i].position = place[i] - 1
             /\ list[i].note # note => r[i] = list[i]
  <2>1. CASE list[i].note = note
    <3>1. place[i] - 1 \in Nat
      BY <1>4, <1>5, <2>1
    <3>2. r[i] = [list[i] EXCEPT !.position = place[i] - 1]
      BY <1>2, <1>3, <2>1
    <3>. QED
      BY <1>6, <2>1, <3>1, <3>2, BlockFields
  <2>2. CASE list[i].note # note
    BY <1>2, <1>6, <2>2
  <2>. QED
    BY <2>1, <2>2
<1>8. DOMAIN r = DOMAIN list /\ r \in Seq(BlockSpace(n))
  BY <1>2, <1>7
<1>9. OncePerId(r)
  BY <1>7, <1>8 DEF OncePerId
<1>10. ASSUME NEW i \in DOMAIN list, NEW j \in DOMAIN list, list[i].note = note, list[j].note = note
       PROVE  /\ i # j => r[i].position # r[j].position
              /\ list[i].position < list[j].position => r[i].position < r[j].position
  <2>1. /\ place[i] \in DOMAIN o /\ place[j] \in DOMAIN o
        /\ o[place[i]] = list[i] /\ o[place[j]] = list[j]
        /\ place[i] \in Nat /\ place[j] \in Nat
    BY <1>4, <1>5, <1>10
  <2>2. r[i].position = place[i] - 1 /\ r[j].position = place[j] - 1
    BY <1>7, <1>10
  <2>3. i # j => place[i] # place[j]
    BY <2>1 DEF OncePerId
  <2>4. list[i].position \in Nat /\ list[j].position \in Nat
    BY <1>6, BlockFields
  <2>5. ASSUME list[i].position < list[j].position PROVE place[i] < place[j]
    <3>1. ~(place[j] < place[i])
      <4>1. place[j] < place[i] => o[place[j]].position <= o[place[i]].position
        BY <1>1, <2>1
      <4>2. place[j] < place[i] => list[j].position <= list[i].position
        BY <2>1, <4>1
      <4>. QED
        BY <2>4, <2>5, <4>2
    <3>2. place[i] # place[j]
      BY <2>1, <2>4, <2>5
    <3>. QED
      BY <2>1, <3>1, <3>2
  <2>. QED
    BY <2>1, <2>2, <2>3, <2>5
<1>11. Reindexed(r, list, note)
  <2>1. \A i \in DOMAIN list : r[i].position \in Nat
    BY <1>7, BlockFields
  <2>. QED
    BY <1>7, <1>8, <1>10, <2>1 DEF Reindexed
<1>. QED
  BY <1>8, <1>9, <1>11 DEF r

-----------------------------------------------------------------------------
(* Blocks: order *)

\* Blocks of one note that the call is not about stay in order.
OrderKept(list, after, over, moved) ==
    \A i, j \in DOMAIN list, k, l \in DOMAIN after :
        /\ list[i].id = after[k].id /\ list[j].id = after[l].id
        /\ list[i].note = list[j].note
        /\ after[k].note = list[i].note /\ after[l].note = list[i].note
        /\ list[i].note \notin over /\ list[i].id \notin moved /\ list[j].id \notin moved
        /\ list[i].position < list[j].position
        => after[k].position < after[l].position

\* The ids found in the old and the new vector give the blocks back.
LEMMA OrderIsKept ==
    ASSUME EditorInv, EditorInv', OrderKept(blocks, blocks', parsedOver, named')
    PROVE  OthersKeepOrder
<1>. SUFFICES ASSUME NEW note \in Notes \ parsedOver,
                     NEW a \in (BlockIdsOf(InNote(blocks, note)) \cap
                                BlockIdsOf(InNote(blocks', note))) \ named',
                     NEW b \in (BlockIdsOf(InNote(blocks, note)) \cap
                                BlockIdsOf(InNote(blocks', note))) \ named',
                     BlockOf(InNote(blocks, note), a).position
                       < BlockOf(InNote(blocks, note), b).position
              PROVE  BlockOf(InNote(blocks', note), a).position
                       < BlockOf(InNote(blocks', note), b).position
  BY DEF OthersKeepOrder
<1>1. /\ blocks \in Seq(BlockSpace(created)) /\ OncePerId(blocks)
      /\ blocks' \in Seq(BlockSpace(created')) /\ OncePerId(blocks')
  BY DEF EditorInv
<1>2. PICK i \in DOMAIN blocks, j \in DOMAIN blocks :
         /\ blocks[i].note = note /\ blocks[i].id = a
         /\ blocks[j].note = note /\ blocks[j].id = b
  BY <1>1, FoundInNote
<1>3. PICK k \in DOMAIN blocks', l \in DOMAIN blocks' :
         /\ blocks'[k].note = note /\ blocks'[k].id = a
         /\ blocks'[l].note = note /\ blocks'[l].id = b
  BY <1>1, FoundInNote
<1>4. /\ BlockOf(InNote(blocks, note), a) = blocks[i] /\ BlockOf(InNote(blocks, note), b) = blocks[j]
      /\ BlockOf(InNote(blocks', note), a) = blocks'[k] /\ BlockOf(InNote(blocks', note), b) = blocks'[l]
  BY <1>1, <1>2, <1>3, FoundInNote
<1>5. blocks[i].position < blocks[j].position
  BY <1>4
<1>6. blocks'[k].position < blocks'[l].position
  BY <1>2, <1>3, <1>5 DEF OrderKept
<1>. QED
  BY <1>4, <1>6

-----------------------------------------------------------------------------
(* Blocks: the calls *)

\* What making room does to each block.
LEMMA Shifted ==
    ASSUME EditorInv, NEW note, NEW places, NEW by \in Int,
           \A i \in DOMAIN blocks :
               blocks[i].note = note /\ blocks[i].position \in places =>
                   blocks[i].position + by \in Nat
    PROVE  LET s == ShiftBlocks(note, places, by)
           IN  /\ s \in Seq(BlockSpace(created)) /\ DOMAIN s = DOMAIN blocks
               /\ \A i \in DOMAIN blocks :
                     /\ s[i].id = blocks[i].id /\ s[i].note = blocks[i].note
                     /\ blocks[i].note = note /\ blocks[i].position \in places =>
                           s[i].position = blocks[i].position + by
                     /\ ~(blocks[i].note = note /\ blocks[i].position \in places) =>
                           s[i].position = blocks[i].position
<1>. DEFINE s == ShiftBlocks(note, places, by)
            Hit(i) == blocks[i].note = note /\ blocks[i].position \in places
<1>1. s = [i \in DOMAIN blocks |->
             IF Hit(i) THEN [blocks[i] EXCEPT !.position = blocks[i].position + by] ELSE blocks[i]]
  BY DEF ShiftBlocks
<1>2. \A i \in DOMAIN blocks : blocks[i] \in BlockSpace(created) /\ (Hit(i) => blocks[i].position + by \in Nat)
  BY DEF EditorInv
<1>. HIDE DEF s, Hit
<1>3. ASSUME NEW i \in DOMAIN blocks
      PROVE  /\ s[i] \in BlockSpace(created)
             /\ s[i].id = blocks[i].id /\ s[i].note = blocks[i].note
             /\ Hit(i) => s[i].position = blocks[i].position + by
             /\ ~Hit(i) => s[i].position = blocks[i].position
  <2>1. CASE Hit(i)
    <3>. DEFINE p == blocks[i].position + by
    <3>1. p \in Nat /\ s[i] = [blocks[i] EXCEPT !.position = p]
      BY <1>1, <1>2, <2>1
    <3>. HIDE DEF p
    <3>2. /\ s[i] \in BlockSpace(created) /\ s[i].id = blocks[i].id
          /\ s[i].note = blocks[i].note /\ s[i].position = p
      BY <1>2, <3>1, BlockFields
    <3>. QED
      BY <2>1, <3>2 DEF p
  <2>2. CASE ~Hit(i)
    BY <1>1, <1>2, <2>2
  <2>. QED
    BY <2>1, <2>2
<1>4. DOMAIN s = DOMAIN blocks
  BY <1>1
<1>5. Len(blocks) \in Nat /\ DOMAIN blocks = 1..Len(blocks)
  BY DEF EditorInv
<1>6. s \in Seq(BlockSpace(created))
  <2>1. s \in [1..Len(blocks) -> BlockSpace(created)]
    BY <1>1, <1>3, <1>5
  <2>. QED
    BY <1>5, <2>1
<1>. QED
  BY <1>3, <1>4, <1>6 DEF s, Hit

\* A new block takes its place and the later ones move on.
LEMMA CreateBlockKeeps ==
    ASSUME EditorInv, NEW note \in Notes, NEW place \in Nat, CreateBlock(note, place)
    PROVE  EditorInv' /\ OrderKept(blocks, blocks', parsedOver, named')
<1>. DEFINE s == ShiftBlocks(note, {p \in Int : p >= place}, 1)
            new == NewBlock(created', note, place)
            m == Len(blocks)
<1>1. /\ created' = created + 1 /\ blocks' = Append(s, new) /\ named' = {created'}
      /\ parsedOver' = parsedOver /\ created \in Nat
      /\ blocks \in Seq(BlockSpace(created)) /\ OncePerId(blocks) /\ Apart(blocks, parsedOver)
  BY DEF CreateBlock, EditorInv
<1>2. \A i \in DOMAIN blocks : blocks[i] \in BlockSpace(created)
  BY <1>1
<1>3. \A i \in DOMAIN blocks :
         /\ blocks[i].id \in 1..created /\ blocks[i].note \in Notes /\ blocks[i].position \in Nat
  BY <1>2, BlockFields
<1>4. /\ s \in Seq(BlockSpace(created)) /\ DOMAIN s = DOMAIN blocks
      /\ \A i \in DOMAIN blocks :
            /\ s[i].id = blocks[i].id /\ s[i].note = blocks[i].note
            /\ blocks[i].note = note /\ blocks[i].position \in {p \in Int : p >= place} =>
                  s[i].position = blocks[i].position + 1
            /\ ~(blocks[i].note = note /\ blocks[i].position \in {p \in Int : p >= place}) =>
                  s[i].position = blocks[i].position
  <2>1. \A i \in DOMAIN blocks :
               blocks[i].note = note /\ blocks[i].position \in {p \in Int : p >= place} =>
                   blocks[i].position + 1 \in Nat
    BY <1>3
  <2>. HIDE DEF s
  <2>. QED
    BY <2>1, Shifted DEF s
<1>5. /\ new.id = created + 1 /\ new.note = note /\ new.position = place
      /\ new \in BlockSpace(created')
  BY <1>1 DEF NewBlock, BlockSpace
<1>6. s \in Seq(BlockSpace(created'))
  <2>1. BlockSpace(created) \subseteq BlockSpace(created')
    BY <1>1, MoreIds
  <2>. HIDE DEF s
  <2>. QED
    BY <1>4, <2>1
<1>. HIDE DEF s, new
<1>7. /\ m \in Nat /\ DOMAIN blocks = 1..m /\ Len(s) = m
      /\ blocks' \in Seq(BlockSpace(created')) /\ DOMAIN blocks' = 1..(m + 1)
      /\ blocks'[m + 1] = new /\ \A i \in 1..m : blocks'[i] = s[i]
  <2>1. m \in Nat /\ DOMAIN blocks = 1..m
    BY <1>1
  <2>2. Len(s) = m
    BY <1>4, <2>1
  <2>. HIDE DEF m
  <2>. QED
    BY <1>1, <1>5, <1>6, <2>1, <2>2
<1>8. 1..(m + 1) = 1..m \cup {m + 1}
  BY <1>7
<1>. HIDE DEF m
\* Every block but the new one is one that was there, at its place or the next.
<1>9. \A i \in 1..m :
         /\ blocks'[i].id = blocks[i].id /\ blocks'[i].note = blocks[i].note
         /\ blocks[i].note = note /\ blocks[i].position >= place =>
               blocks'[i].position = blocks[i].position + 1
         /\ ~(blocks[i].note = note /\ blocks[i].position >= place) =>
               blocks'[i].position = blocks[i].position
  <2>. SUFFICES ASSUME NEW i \in 1..m
                PROVE  /\ blocks'[i].id = blocks[i].id /\ blocks'[i].note = blocks[i].note
                       /\ blocks[i].note = note /\ blocks[i].position >= place =>
                             blocks'[i].position = blocks[i].position + 1
                       /\ ~(blocks[i].note = note /\ blocks[i].position >= place) =>
                             blocks'[i].position = blocks[i].position
    OBVIOUS
  <2>1. blocks'[i] = s[i] /\ i \in DOMAIN blocks
    BY <1>7
  <2>2. blocks[i].position \in {p \in Int : p >= place} <=> blocks[i].position >= place
    BY <1>3, <2>1
  <2>. QED
    BY <1>4, <2>1, <2>2
<1>10. \A i \in 1..m : blocks[i].id \in Nat /\ blocks[i].id # created + 1 /\ blocks[i].position \in Nat
  BY <1>1, <1>3, <1>7
<1>11. OncePerId(blocks')
  BY <1>1, <1>5, <1>7, <1>8, <1>9, <1>10 DEF OncePerId
<1>12. Apart(blocks', parsedOver')
  <2>. SUFFICES ASSUME NEW i \in 1..(m + 1), NEW j \in 1..(m + 1), i # j,
                       blocks'[i].note = blocks'[j].note, blocks'[i].note \notin parsedOver
                PROVE  blocks'[i].position # blocks'[j].position
    BY <1>1, <1>7 DEF Apart
  <2>1. CASE i \in 1..m /\ j \in 1..m
    <3>1. blocks[i].position # blocks[j].position
      BY <1>1, <1>7, <1>9, <2>1 DEF Apart
    <3>. QED
      BY <1>9, <1>10, <2>1, <3>1
  <2>2. CASE i \in 1..m /\ j = m + 1
    BY <1>5, <1>7, <1>9, <1>10, <2>2
  <2>3. CASE i = m + 1 /\ j \in 1..m
    BY <1>5, <1>7, <1>9, <1>10, <2>3
  <2>. QED
    BY <1>8, <2>1, <2>2, <2>3
<1>13. OrderKept(blocks, blocks', parsedOver, named')
  <2>. SUFFICES ASSUME NEW i \in DOMAIN blocks, NEW j \in DOMAIN blocks,
                       NEW k \in DOMAIN blocks', NEW l \in DOMAIN blocks',
                       blocks[i].id = blocks'[k].id, blocks[j].id = blocks'[l].id,
                       blocks[i].note = blocks[j].note, blocks[i].position < blocks[j].position
                PROVE  blocks'[k].position < blocks'[l].position
    BY DEF OrderKept
  <2>1. k \in 1..m /\ l \in 1..m
    BY <1>5, <1>7, <1>8, <1>10
  <2>2. k = i /\ l = j
    BY <1>1, <1>7, <1>9, <2>1 DEF OncePerId
  <2>. QED
    BY <1>9, <1>10, <2>1, <2>2
<1>. QED
  BY <1>1, <1>7, <1>11, <1>12, <1>13 DEF EditorInv

\* A block named by its id, and what DeleteBlock and MoveBlock see of it.
LEMMA NamedBlock ==
    ASSUME EditorInv, NEW id \in BlockIdsOf(blocks)
    PROVE  \E x \in DOMAIN blocks : blocks[x].id = id /\ BlockOf(blocks, id) = blocks[x]
<1>1. PICK i \in DOMAIN blocks : blocks[i].id = id
  BY DEF BlockIdsOf
<1>2. blocks \in Seq(BlockSpace(created))
  BY DEF EditorInv
<1>3. LET k == PlaceOfId(blocks, blocks[i].id)
      IN  k \in DOMAIN blocks /\ blocks[k].id = blocks[i].id
          /\ BlockOf(blocks, blocks[i].id) = blocks[k]
  BY <1>2, IdFound
<1>. QED
  BY <1>1, <1>3

\* The blocks after a deleted one move up.
LEMMA DeleteBlockKeeps ==
    ASSUME EditorInv, NEW id, DeleteBlock(id)
    PROVE  EditorInv' /\ OrderKept(blocks, blocks', parsedOver, named')
<1>1. /\ created \in Nat /\ blocks \in Seq(BlockSpace(created)) /\ OncePerId(blocks)
      /\ Apart(blocks, parsedOver)
      /\ created' = created /\ parsedOver' = parsedOver /\ named' = {id}
  BY DEF DeleteBlock, EditorInv
<1>2. PICK x \in DOMAIN blocks : blocks[x].id = id /\ BlockOf(blocks, id) = blocks[x]
  BY NamedBlock DEF DeleteBlock
<1>. DEFINE note == blocks[x].note
            old == blocks[x].position
            s == ShiftBlocks(note, {p \in Int : p > old}, -1)
            hits == {i \in DOMAIN s : s[i].id # id}
<1>3. \A i \in DOMAIN blocks :
         blocks[i].id \in 1..created /\ blocks[i].note \in Notes /\ blocks[i].position \in Nat
  <2>1. \A i \in DOMAIN blocks : blocks[i] \in BlockSpace(created)
    BY <1>1
  <2>. QED
    BY <2>1, BlockFields
<1>4. blocks' = Kept(s, LAMBDA b : b.id # id)
  BY <1>2 DEF DeleteBlock
<1>5. blocks' = [n \in 1..Cardinality(hits) |->
                   s[CHOOSE i \in hits : Cardinality({j \in hits : j <= i}) = n]]
  <2>. HIDE DEF s
  <2>. QED
    BY <1>4 DEF Kept
<1>. HIDE DEF note, old, s, hits
<1>6. note \in Notes /\ old \in Nat
  BY <1>2, <1>3 DEF note, old
<1>7. /\ s \in Seq(BlockSpace(created)) /\ DOMAIN s = DOMAIN blocks
      /\ \A i \in DOMAIN blocks :
            /\ s[i].id = blocks[i].id /\ s[i].note = blocks[i].note
            /\ blocks[i].note = note /\ blocks[i].position \in {p \in Int : p > old} =>
                  s[i].position = blocks[i].position + (-1)
            /\ ~(blocks[i].note = note /\ blocks[i].position \in {p \in Int : p > old}) =>
                  s[i].position = blocks[i].position
  <2>1. \A i \in DOMAIN blocks :
               blocks[i].note = note /\ blocks[i].position \in {p \in Int : p > old} =>
                   blocks[i].position + (-1) \in Nat
    BY <1>3, <1>6
  <2>2. -1 \in Int
    OBVIOUS
  <2>. QED
    BY <2>1, <2>2, Shifted DEF s
<1>8. hits \in SUBSET DOMAIN s /\ \A i : i \in hits <=> i \in DOMAIN blocks /\ blocks[i].id # id
  BY <1>7 DEF hits
<1>9. Filters(blocks', s, hits)
  BY <1>5 DEF Filters
<1>10. blocks' \in Seq(BlockSpace(created)) /\ \E at : Picks(blocks', s, at, hits)
  BY <1>7, <1>8, <1>9, FilterPicks
<1>11. PICK at : Picks(blocks', s, at, hits)
  BY <1>10
<1>12. \A k, l \in DOMAIN blocks' : at[k] = at[l] => k = l
  BY <1>7, <1>8, <1>10, <1>11, PicksOnce
<1>13. ASSUME NEW k \in DOMAIN blocks'
       PROVE  LET i == at[k]
              IN  /\ i \in DOMAIN blocks /\ i # x
                  /\ blocks'[k].id = blocks[i].id /\ blocks'[k].note = blocks[i].note
                  /\ blocks[i].position \in Nat
                  /\ blocks[i].note = note /\ blocks[i].position > old =>
                        blocks'[k].position = blocks[i].position - 1
                  /\ ~(blocks[i].note = note /\ blocks[i].position > old) =>
                        blocks'[k].position = blocks[i].position
  <2>. DEFINE i == at[k]
  <2>1. i \in hits /\ blocks'[k] = s[i]
    BY <1>11 DEF Picks
  <2>. HIDE DEF i
  <2>2. i \in DOMAIN blocks /\ i # x /\ blocks[i].position \in Nat
    BY <1>2, <1>3, <1>8, <2>1
  <2>3. blocks[i].position \in {p \in Int : p > old} <=> blocks[i].position > old
    BY <2>2
  <2>. QED
    BY <1>7, <2>1, <2>2, <2>3 DEF i
<1>14. OncePerId(blocks')
  BY <1>1, <1>12, <1>13 DEF OncePerId
<1>15. Apart(blocks', parsedOver')
  <2>. SUFFICES ASSUME NEW k \in DOMAIN blocks', NEW l \in DOMAIN blocks', k # l,
                       blocks'[k].note = blocks'[l].note, blocks'[k].note \notin parsedOver
                PROVE  blocks'[k].position # blocks'[l].position
    BY <1>1 DEF Apart
  <2>. DEFINE i == at[k]
              j == at[l]
  <2>1. /\ i \in DOMAIN blocks /\ j \in DOMAIN blocks /\ i # j /\ i # x /\ j # x
        /\ blocks[i].note = blocks[j].note /\ blocks[i].note \notin parsedOver
    BY <1>12, <1>13
  <2>2. /\ blocks[i].position # blocks[j].position
        /\ blocks[i].note = note => blocks[i].position # old /\ blocks[j].position # old
    BY <1>1, <1>2, <2>1 DEF Apart, note, old
  <2>. QED
    BY <1>6, <1>13, <2>1, <2>2
<1>16. OrderKept(blocks, blocks', parsedOver, named')
  <2>. SUFFICES ASSUME NEW i \in DOMAIN blocks, NEW j \in DOMAIN blocks,
                       NEW k \in DOMAIN blocks', NEW l \in DOMAIN blocks',
                       blocks[i].id = blocks'[k].id, blocks[j].id = blocks'[l].id,
                       blocks[i].note = blocks[j].note, blocks[i].note \notin parsedOver,
                       blocks[i].position < blocks[j].position
                PROVE  blocks'[k].position < blocks'[l].position
    BY DEF OrderKept
  <2>1. at[k] = i /\ at[l] = j
    BY <1>1, <1>13 DEF OncePerId
  <2>2. i # x /\ j # x
    BY <1>13, <2>1
  <2>3. blocks[i].note = note => blocks[i].position # old /\ blocks[j].position # old
    BY <1>1, <1>2, <2>2 DEF Apart, note, old
  <2>. QED
    BY <1>6, <1>13, <2>1, <2>3
<1>. QED
  BY <1>1, <1>10, <1>14, <1>15, <1>16 DEF EditorInv

\* A moved block changes places, the order of the others stays.
LEMMA MoveBlockKeeps ==
    ASSUME EditorInv, NEW id, NEW place \in Nat, MoveBlock(id, place)
    PROVE  EditorInv' /\ OrderKept(blocks, blocks', parsedOver, named')
<1>1. /\ created \in Nat /\ blocks \in Seq(BlockSpace(created)) /\ OncePerId(blocks)
      /\ Apart(blocks, parsedOver)
      /\ created' = created /\ parsedOver' = parsedOver /\ named' = {id}
  BY DEF MoveBlock, EditorInv
<1>2. PICK x \in DOMAIN blocks : blocks[x].id = id /\ BlockOf(blocks, id) = blocks[x]
  BY NamedBlock DEF MoveBlock
<1>. DEFINE note == blocks[x].note
            old == blocks[x].position
            places == IF place > old THEN (old + 1)..place ELSE place..(old - 1)
            by == IF place > old THEN -1 ELSE 1
            s == ShiftBlocks(note, places, by)
<1>3. \A i \in DOMAIN blocks :
         /\ blocks[i] \in BlockSpace(created)
         /\ blocks[i].id \in 1..created /\ blocks[i].note \in Notes /\ blocks[i].position \in Nat
  <2>1. \A i \in DOMAIN blocks : blocks[i] \in BlockSpace(created)
    BY <1>1
  <2>. QED
    BY <2>1, BlockFields
<1>4. blocks' = [i \in DOMAIN blocks |->
                   IF blocks[i].id = id THEN [blocks[i] EXCEPT !.position = place] ELSE s[i]]
  <2>1. CASE place > old
    BY <1>2, <2>1 DEF MoveBlock
  <2>2. CASE ~(place > old)
    BY <1>2, <2>2 DEF MoveBlock
  <2>. QED
    BY <2>1, <2>2
<1>5. note \in Notes /\ old \in Nat /\ by \in Int
  BY <1>2, <1>3
<1>. HIDE DEF s
<1>6. /\ s \in Seq(BlockSpace(created)) /\ DOMAIN s = DOMAIN blocks
      /\ \A i \in DOMAIN blocks :
            /\ s[i].id = blocks[i].id /\ s[i].note = blocks[i].note
            /\ blocks[i].note = note /\ blocks[i].position \in places =>
                  s[i].position = blocks[i].position + by
            /\ ~(blocks[i].note = note /\ blocks[i].position \in places) =>
                  s[i].position = blocks[i].position
  <2>. HIDE DEF note, old
  <2>1. \A i \in DOMAIN blocks :
               blocks[i].note = note /\ blocks[i].position \in places =>
                   blocks[i].position + by \in Nat
    BY <1>3, <1>5
  <2>. HIDE DEF places, by
  <2>. QED
    BY <1>5, <2>1, Shifted DEF s
<1>7. \A i \in DOMAIN blocks : blocks[i].id = id => i = x
  BY <1>1, <1>2 DEF OncePerId
<1>8. /\ blocks'[x] \in BlockSpace(created) /\ blocks'[x].id = id
      /\ blocks'[x].note = note /\ blocks'[x].position = place
  <2>1. blocks'[x] = [blocks[x] EXCEPT !.position = place]
    BY <1>2, <1>4
  <2>. QED
    BY <1>2, <1>3, <2>1, BlockFields
<1>. HIDE DEF note, old
<1>9. ASSUME NEW i \in DOMAIN blocks, i # x
      PROVE  /\ blocks'[i] \in BlockSpace(created)
             /\ blocks'[i].id = blocks[i].id /\ blocks'[i].note = blocks[i].note
             /\ blocks[i].note = note /\ place > old /\ old < blocks[i].position
                   /\ blocks[i].position <= place =>
                      blocks'[i].position = blocks[i].position - 1
             /\ blocks[i].note = note /\ ~(place > old) /\ place <= blocks[i].position
                   /\ blocks[i].position < old =>
                      blocks'[i].position = blocks[i].position + 1
             /\ ~(blocks[i].note = note
                    /\ \/ place > old /\ old < blocks[i].position /\ blocks[i].position <= place
                       \/ ~(place > old) /\ place <= blocks[i].position /\ blocks[i].position < old) =>
                      blocks'[i].position = blocks[i].position
  <2>1. blocks'[i] = s[i] /\ s[i] \in BlockSpace(created)
    BY <1>4, <1>6, <1>7, <1>9
  <2>2. blocks[i].position \in places <=>
           \/ place > old /\ old < blocks[i].position /\ blocks[i].position <= place
           \/ ~(place > old) /\ place <= blocks[i].position /\ blocks[i].position < old
    BY <1>3, <1>5
  <2>3. (place > old => by = -1) /\ (~(place > old) => by = 1)
    OBVIOUS
  <2>. HIDE DEF places, by
  <2>. QED
    BY <1>3, <1>5, <1>6, <2>1, <2>2, <2>3
<1>10. DOMAIN blocks' = DOMAIN blocks
  BY <1>4
<1>11. blocks' \in Seq(BlockSpace(created))
  <2>1. Len(blocks) \in Nat /\ DOMAIN blocks = 1..Len(blocks)
    BY <1>1
  <2>2. blocks' \in [1..Len(blocks) -> BlockSpace(created)]
    BY <1>4, <1>8, <1>9, <1>10, <2>1
  <2>. QED
    BY <2>1, <2>2
<1>12. OncePerId(blocks')
  BY <1>1, <1>2, <1>8, <1>9, <1>10 DEF OncePerId
<1>13. ASSUME NEW i \in DOMAIN blocks, i # x, blocks[i].note = note, note \notin parsedOver
       PROVE  blocks[i].position # old /\ blocks'[i].position # place
  <2>1. blocks[i].position # old
    BY <1>1, <1>13 DEF Apart, note, old
  <2>2. place # old
    BY <1>2 DEF MoveBlock, old
  <2>. HIDE DEF places, by
  <2>. QED
    BY <1>3, <1>5, <1>9, <1>13, <2>1, <2>2
<1>14. Apart(blocks', parsedOver')
  <2>. SUFFICES ASSUME NEW i \in DOMAIN blocks, NEW j \in DOMAIN blocks, i # j,
                       blocks'[i].note = blocks'[j].note, blocks'[i].note \notin parsedOver
                PROVE  blocks'[i].position # blocks'[j].position
    BY <1>1, <1>10 DEF Apart
  <2>. HIDE DEF places, by
  <2>1. CASE i = x
    BY <1>8, <1>9, <1>13, <2>1
  <2>2. CASE j = x
    BY <1>8, <1>9, <1>13, <2>2
  <2>3. CASE i # x /\ j # x
    <3>1. blocks[i].note = blocks[j].note /\ blocks[i].note \notin parsedOver
      BY <1>9, <2>3
    <3>2. blocks[i].position # blocks[j].position
      BY <1>1, <3>1 DEF Apart
    <3>3. blocks[i].note = note => blocks[i].position # old /\ blocks[j].position # old
      BY <1>13, <2>3, <3>1
    <3>. QED
      BY <1>3, <1>5, <1>9, <2>3, <3>1, <3>2, <3>3
  <2>. QED
    BY <2>1, <2>2, <2>3
<1>15. OrderKept(blocks, blocks', parsedOver, named')
  <2>. SUFFICES ASSUME NEW i \in DOMAIN blocks, NEW j \in DOMAIN blocks,
                       NEW k \in DOMAIN blocks', NEW l \in DOMAIN blocks',
                       blocks[i].id = blocks'[k].id, blocks[j].id = blocks'[l].id,
                       blocks[i].note = blocks[j].note, blocks[i].note \notin parsedOver,
                       blocks[i].id # id, blocks[j].id # id,
                       blocks[i].position < blocks[j].position
                PROVE  blocks'[k].position < blocks'[l].position
    BY <1>1 DEF OrderKept
  <2>. HIDE DEF places, by
  <2>1. i # x /\ j # x
    BY <1>2
  <2>2. k = i /\ l = j
    BY <1>9, <1>10, <1>12, <2>1 DEF OncePerId
  <2>3. blocks[i].note = note => blocks[i].position # old /\ blocks[j].position # old
    BY <1>13, <2>1
  <2>. QED
    BY <1>3, <1>5, <1>9, <2>1, <2>2, <2>3
<1>. QED
  BY <1>1, <1>11, <1>12, <1>14, <1>15 DEF EditorInv

-----------------------------------------------------------------------------
(* Blocks: listing, parsing and replacing a note *)

\* A note that is reindexed is apart again, others stay as they were.
LEMMA ReindexKeeps ==
    ASSUME NEW n, NEW list \in Seq(BlockSpace(n)), OncePerId(list), NEW note, NEW over,
           Apart(list, over \cup {note})
    PROVE  LET r == Reindex(list, note)
           IN  /\ r \in Seq(BlockSpace(n)) /\ OncePerId(r) /\ Apart(r, over \ {note})
               /\ Reindexed(r, list, note)
<1>. DEFINE r == Reindex(list, note)
<1>1. r \in Seq(BlockSpace(n)) /\ OncePerId(r) /\ Reindexed(r, list, note)
  BY ReindexSound
<1>. HIDE DEF r
<1>2. Apart(r, over \ {note})
  <2>. SUFFICES ASSUME NEW i \in DOMAIN list, NEW j \in DOMAIN list, i # j,
                       r[i].note = r[j].note, r[i].note \notin over \ {note}
                PROVE  r[i].position # r[j].position
    BY <1>1 DEF Apart, Reindexed
  <2>1. CASE list[i].note = note
    BY <1>1, <2>1 DEF Reindexed
  <2>2. CASE list[i].note # note
    BY <1>1, <2>2 DEF Reindexed, Apart
  <2>. QED
    BY <2>1, <2>2
<1>. QED
  BY <1>1, <1>2 DEF r

\* Listing reindexes the note first.
LEMMA ListBlocksKeeps ==
    ASSUME EditorInv, NEW note \in Notes, ListBlocks(note)
    PROVE  EditorInv' /\ OrderKept(blocks, blocks', parsedOver, named')
<1>1. /\ created \in Nat /\ blocks \in Seq(BlockSpace(created)) /\ OncePerId(blocks)
      /\ Apart(blocks, parsedOver)
      /\ blocks' = Reindex(blocks, note) /\ created' = created
      /\ parsedOver' = parsedOver \ {note}
  BY DEF ListBlocks, EditorInv
<1>2. Apart(blocks, parsedOver \cup {note})
  BY <1>1 DEF Apart
<1>3. /\ blocks' \in Seq(BlockSpace(created)) /\ OncePerId(blocks')
      /\ Apart(blocks', parsedOver') /\ Reindexed(blocks', blocks, note)
  BY <1>1, <1>2, ReindexKeeps
<1>4. OrderKept(blocks, blocks', parsedOver, named')
  <2>. SUFFICES ASSUME NEW i \in DOMAIN blocks, NEW j \in DOMAIN blocks,
                       NEW k \in DOMAIN blocks', NEW l \in DOMAIN blocks',
                       blocks[i].id = blocks'[k].id, blocks[j].id = blocks'[l].id,
                       blocks[i].note = blocks[j].note, blocks[i].position < blocks[j].position
                PROVE  blocks'[k].position < blocks'[l].position
    BY DEF OrderKept
  <2>1. k = i /\ l = j
    BY <1>1, <1>3 DEF OncePerId, Reindexed
  <2>2. CASE blocks[i].note = note
    BY <1>3, <2>1, <2>2 DEF Reindexed
  <2>3. CASE blocks[i].note # note
    BY <1>3, <2>1, <2>3 DEF Reindexed
  <2>. QED
    BY <2>2, <2>3
<1>. QED
  BY <1>1, <1>3, <1>4 DEF EditorInv

\* Parsed blocks have new ids, and places of their own in a note without blocks.
LEMMA ParseKeeps ==
    ASSUME EditorInv, NEW note \in Notes, NEW count \in Nat, ParseMarkdown(note, count)
    PROVE  EditorInv' /\ OrderKept(blocks, blocks', parsedOver, named')
<1>. DEFINE new == [i \in 1..count |-> NewBlock(created + i, note, i - 1)]
            m == Len(blocks)
<1>1. /\ created \in Nat /\ blocks \in Seq(BlockSpace(created)) /\ OncePerId(blocks)
      /\ Apart(blocks, parsedOver)
      /\ created' = created + count /\ blocks' = blocks \o new
      /\ parsedOver' = parsedOver \cup (IF InNote(blocks, note) = << >> THEN {} ELSE {note})
  BY DEF ParseMarkdown, EditorInv
<1>2. \A i \in DOMAIN blocks :
         /\ blocks[i] \in BlockSpace(created)
         /\ blocks[i].id \in 1..created /\ blocks[i].note \in Notes /\ blocks[i].position \in Nat
  <2>1. \A i \in DOMAIN blocks : blocks[i] \in BlockSpace(created)
    BY <1>1
  <2>. QED
    BY <2>1, BlockFields
<1>3. \A i \in 1..count :
         /\ new[i].id = created + i /\ new[i].note = note /\ new[i].position = i - 1
         /\ new[i] \in BlockSpace(created')
  BY <1>1 DEF NewBlock, BlockSpace
<1>4. new \in Seq(BlockSpace(created')) /\ Len(new) = count
  BY <1>3
<1>. HIDE DEF new
<1>5. blocks \in Seq(BlockSpace(created'))
  <2>1. BlockSpace(created) \subseteq BlockSpace(created')
    BY <1>1, MoreIds
  <2>. QED
    BY <1>1, <2>1
<1>6. /\ m \in Nat /\ DOMAIN blocks = 1..m /\ blocks' \in Seq(BlockSpace(created'))
      /\ DOMAIN blocks' = 1..(m + count)
      /\ \A i \in 1..m : blocks'[i] = blocks[i]
      /\ \A i \in (m + 1)..(m + count) : blocks'[i] = new[i - m] /\ i - m \in 1..count
  <2>1. m \in Nat /\ DOMAIN blocks = 1..m /\ m = Len(blocks)
    BY <1>1
  <2>. HIDE DEF m
  <2>2. /\ blocks \o new \in Seq(BlockSpace(created'))
        /\ DOMAIN (blocks \o new) = 1..(m + count)
        /\ \A i \in 1..m : (blocks \o new)[i] = blocks[i]
        /\ \A i \in (m + 1)..(m + count) : (blocks \o new)[i] = new[i - m] /\ i - m \in 1..count
    BY <1>4, <1>5, <2>1
  <2>. QED
    BY <1>1, <2>1, <2>2
<1>. HIDE DEF m
<1>7. \A i \in (m + 1)..(m + count) :
         /\ blocks'[i].id = created + (i - m) /\ blocks'[i].note = note
         /\ blocks'[i].position = (i - m) - 1
  <2>. SUFFICES ASSUME NEW i \in (m + 1)..(m + count)
                PROVE  /\ blocks'[i].id = created + (i - m) /\ blocks'[i].note = note
                       /\ blocks'[i].position = (i - m) - 1
    OBVIOUS
  <2>1. blocks'[i] = new[i - m] /\ i - m \in 1..count
    BY <1>6
  <2>. QED
    BY <1>3, <2>1
<1>8. 1..(m + count) = 1..m \cup (m + 1)..(m + count)
  BY <1>6
<1>9. OncePerId(blocks')
  <2>. SUFFICES ASSUME NEW i \in 1..(m + count), NEW j \in 1..(m + count),
                       blocks'[i].id = blocks'[j].id
                PROVE  i = j
    BY <1>6 DEF OncePerId
  <2>1. CASE i \in 1..m /\ j \in 1..m
    BY <1>1, <1>6, <2>1 DEF OncePerId
  <2>2. CASE i \in 1..m /\ j \in (m + 1)..(m + count)
    <3>1. blocks'[i].id \in 1..created
      BY <1>2, <1>6, <2>2
    <3>2. blocks'[j].id = created + (j - m) /\ j - m \in 1..count
      BY <1>6, <1>7, <2>2
    <3>. QED
      BY <1>1, <3>1, <3>2
  <2>3. CASE i \in (m + 1)..(m + count) /\ j \in 1..m
    <3>1. blocks'[j].id \in 1..created
      BY <1>2, <1>6, <2>3
    <3>2. blocks'[i].id = created + (i - m) /\ i - m \in 1..count
      BY <1>6, <1>7, <2>3
    <3>. QED
      BY <1>1, <1>6, <2>3, <3>1, <3>2
  <2>4. CASE i \in (m + 1)..(m + count) /\ j \in (m + 1)..(m + count)
    <3>1. blocks'[i].id = created + (i - m) /\ i - m \in 1..count
      BY <1>6, <1>7, <2>4
    <3>2. blocks'[j].id = created + (j - m) /\ j - m \in 1..count
      BY <1>6, <1>7, <2>4
    <3>3. i - m = j - m
      BY <1>1, <1>6, <2>4, <3>1, <3>2
    <3>. QED
      BY <1>6, <3>3
  <2>. QED
    BY <1>8, <2>1, <2>2, <2>3, <2>4
<1>10. Apart(blocks', parsedOver')
  <2>. SUFFICES ASSUME NEW i \in 1..(m + count), NEW j \in 1..(m + count), i # j,
                       blocks'[i].note = blocks'[j].note, blocks'[i].note \notin parsedOver'
                PROVE  blocks'[i].position # blocks'[j].position
    BY <1>6 DEF Apart
  <2>1. CASE i \in 1..m /\ j \in 1..m
    <3>1. /\ i \in DOMAIN blocks /\ blocks'[i] = blocks[i]
          /\ j \in DOMAIN blocks /\ blocks'[j] = blocks[j]
          /\ blocks[i].note \notin parsedOver
      BY <1>1, <1>6, <2>1
    <3>. QED
      BY <1>1, <3>1 DEF Apart
  <2>2. CASE i \in (m + 1)..(m + count) /\ j \in (m + 1)..(m + count)
    BY <1>6, <1>7, <2>2
  <2>3. CASE \E k \in 1..m : blocks'[k].note = note /\ note \notin parsedOver'
    <3>1. InNote(blocks, note) = << >>
      BY <1>1, <2>3
    <3>. QED
      BY <1>1, <1>6, <2>3, <3>1, FoundInNote
  <2>. QED
    BY <1>7, <1>8, <2>1, <2>2, <2>3
<1>11. OrderKept(blocks, blocks', parsedOver, named')
  <2>. SUFFICES ASSUME NEW i \in DOMAIN blocks, NEW j \in DOMAIN blocks,
                       NEW k \in DOMAIN blocks', NEW l \in DOMAIN blocks',
                       blocks[i].id = blocks'[k].id, blocks[j].id = blocks'[l].id,
                       blocks[i].position < blocks[j].position
                PROVE  blocks'[k].position < blocks'[l].position
    BY DEF OrderKept
  <2>1. /\ i \in DOMAIN blocks' /\ j \in DOMAIN blocks'
        /\ blocks'[i] = blocks[i] /\ blocks'[j] = blocks[j]
    BY <1>6, <1>8
  <2>2. k = i /\ l = j
    BY <1>9, <2>1 DEF OncePerId
  <2>. QED
    BY <2>1, <2>2
<1>. QED
  BY <1>1, <1>6, <1>9, <1>10, <1>11 DEF EditorInv

\* The caller's list is of blocks of the note, and all of them or none.
LEMMA ReplaceKeeps ==
    ASSUME EditorInv, NEW note \in Notes, NEW kept \in Seq(BlockSpace(created)), OncePerId(kept),
           \A i \in DOMAIN kept : \E j \in DOMAIN blocks :
               blocks[j].id = kept[i].id /\ blocks[j].note = note,
           \/ kept = << >>
           \/ \A j \in DOMAIN blocks : blocks[j].note = note => blocks[j].id \in BlockIdsOf(kept),
           ReplaceBlocks(note, kept)
    PROVE  EditorInv' /\ OrderKept(blocks, blocks', parsedOver, named')
<1>. DEFINE hits == {i \in DOMAIN blocks : blocks[i].note # note}
            others == Kept(blocks, LAMBDA b : b.note # note)
            new == [i \in DOMAIN kept |-> NewBlock(kept[i].id, note, i - 1)]
            list == others \o new
            m == Len(others)
            c == Len(kept)
<1>1. /\ created \in Nat /\ blocks \in Seq(BlockSpace(created)) /\ OncePerId(blocks)
      /\ Apart(blocks, parsedOver)
      /\ created' = created /\ blocks' = Reindex(list, note)
      /\ parsedOver' = parsedOver \ {note} /\ named' = BlockIdsOf(kept)
  BY DEF ReplaceBlocks, EditorInv
<1>2. others = [n \in 1..Cardinality(hits) |->
                   blocks[CHOOSE i \in hits : Cardinality({j \in hits : j <= i}) = n]]
  BY DEF Kept
<1>. HIDE DEF others
<1>3. hits \in SUBSET DOMAIN blocks /\ \A i : i \in hits <=> i \in DOMAIN blocks /\ blocks[i].note # note
  OBVIOUS
<1>. HIDE DEF hits
<1>4. Filters(others, blocks, hits)
  BY <1>2 DEF Filters
<1>5. others \in Seq(BlockSpace(created)) /\ \E at : Picks(others, blocks, at, hits)
  BY <1>1, <1>3, <1>4, FilterPicks
<1>6. PICK at : Picks(others, blocks, at, hits)
  BY <1>5
<1>7. /\ \A k \in DOMAIN others : at[k] \in DOMAIN blocks /\ others[k] = blocks[at[k]]
                                  /\ others[k].note # note
      /\ \A k, l \in DOMAIN others : at[k] = at[l] => k = l
  <2>1. \A k \in DOMAIN others : at[k] \in hits /\ others[k] = blocks[at[k]]
    BY <1>6 DEF Picks
  <2>2. \A k, l \in DOMAIN others : at[k] = at[l] => k = l
    BY <1>1, <1>3, <1>5, <1>6, PicksOnce
  <2>. QED
    BY <1>3, <2>1, <2>2
<1>8. /\ c \in Nat /\ DOMAIN kept = 1..c
      /\ \A i \in 1..c : /\ new[i].id = kept[i].id /\ new[i].note = note /\ new[i].position = i - 1
                         /\ new[i] \in BlockSpace(created)
      /\ new = [i \in 1..c |-> new[i]]
  <2>1. c \in Nat /\ DOMAIN kept = 1..c /\ \A i \in 1..c : kept[i] \in BlockSpace(created)
    OBVIOUS
  <2>2. \A i \in 1..c : kept[i].id \in 1..created /\ i - 1 \in Nat
    BY <2>1, BlockFields
  <2>. QED
    BY <2>1, <2>2 DEF NewBlock, BlockSpace
<1>. HIDE DEF new, c
<1>9. new \in Seq(BlockSpace(created)) /\ Len(new) = c
  <2>1. new \in [1..c -> BlockSpace(created)]
    BY <1>8
  <2>. QED
    BY <1>8, <2>1
<1>10. /\ m \in Nat /\ DOMAIN others = 1..m /\ list \in Seq(BlockSpace(created))
       /\ DOMAIN list = 1..(m + c)
       /\ \A i \in 1..m : list[i] = others[i]
       /\ \A i \in (m + 1)..(m + c) : list[i] = new[i - m] /\ i - m \in 1..c
  BY <1>5, <1>8, <1>9
<1>. HIDE DEF m, list
<1>11. 1..(m + c) = 1..m \cup (m + 1)..(m + c)
  BY <1>8, <1>10
<1>12. OncePerId(list)
  <2>. SUFFICES ASSUME NEW i \in 1..(m + c), NEW j \in 1..(m + c), list[i].id = list[j].id
                PROVE  i = j
    BY <1>10 DEF OncePerId
  <2>1. CASE i \in 1..m /\ j \in 1..m
    <3>1. at[i] = at[j]
      <4>1. /\ at[i] \in DOMAIN blocks /\ list[i] = blocks[at[i]]
            /\ at[j] \in DOMAIN blocks /\ list[j] = blocks[at[j]]
        BY <1>7, <1>10, <2>1
      <4>. QED
        BY <1>1, <4>1 DEF OncePerId
    <3>. QED
      BY <1>7, <1>10, <2>1, <3>1
  <2>2. ASSUME NEW k \in 1..m, NEW l \in (m + 1)..(m + c) PROVE list[k].id # list[l].id
    <3>1. /\ list[k] = blocks[at[k]] /\ at[k] \in DOMAIN blocks /\ list[k].note # note
      BY <1>7, <1>10
    <3>2. list[l].id = kept[l - m].id /\ l - m \in DOMAIN kept
      BY <1>8, <1>10
    <3>3. PICK x \in DOMAIN blocks : blocks[x].id = kept[l - m].id /\ blocks[x].note = note
      BY <3>2
    <3>. QED
      BY <1>1, <3>1, <3>2, <3>3 DEF OncePerId
  <2>3. CASE i \in (m + 1)..(m + c) /\ j \in (m + 1)..(m + c)
    <3>1. /\ list[i].id = kept[i - m].id /\ i - m \in DOMAIN kept
          /\ list[j].id = kept[j - m].id /\ j - m \in DOMAIN kept
      BY <1>8, <1>10, <2>3
    <3>2. i - m = j - m
      BY <3>1 DEF OncePerId
    <3>. QED
      BY <1>10, <3>2
  <2>. QED
    BY <1>11, <2>1, <2>2, <2>3
<1>20. \A i \in 1..(m + c) : list[i].note # note => i \in 1..m
  <2>. SUFFICES ASSUME NEW i \in (m + 1)..(m + c) PROVE list[i].note = note
    BY <1>11
  <2>1. list[i] = new[i - m] /\ i - m \in 1..c
    BY <1>10
  <2>. QED
    BY <1>8, <2>1
<1>13. Apart(list, parsedOver \cup {note})
  <2>. SUFFICES ASSUME NEW i \in 1..(m + c), NEW j \in 1..(m + c), i # j,
                       list[i].note = list[j].note, list[i].note \notin parsedOver,
                       list[i].note # note
                PROVE  list[i].position # list[j].position
    BY <1>10 DEF Apart
  <2>1. i \in 1..m /\ j \in 1..m
    BY <1>20
  <2>. QED
    <3>1. /\ at[i] \in DOMAIN blocks /\ list[i] = blocks[at[i]]
          /\ at[j] \in DOMAIN blocks /\ list[j] = blocks[at[j]] /\ at[i] # at[j]
      BY <1>7, <1>10, <2>1
    <3>. QED
      BY <1>1, <3>1 DEF Apart
<1>14. /\ blocks' \in Seq(BlockSpace(created)) /\ OncePerId(blocks')
       /\ Apart(blocks', parsedOver') /\ Reindexed(blocks', list, note)
  BY <1>1, <1>10, <1>12, <1>13, ReindexKeeps
<1>15. OrderKept(blocks, blocks', parsedOver, named')
  <2>. SUFFICES ASSUME NEW i \in DOMAIN blocks, NEW j \in DOMAIN blocks,
                       NEW k \in DOMAIN blocks', NEW l \in DOMAIN blocks',
                       blocks[i].id = blocks'[k].id, blocks[j].id = blocks'[l].id,
                       blocks'[k].note = blocks[i].note, blocks'[l].note = blocks[i].note,
                       blocks[i].id \notin named',
                       blocks[i].position < blocks[j].position
                PROVE  blocks'[k].position < blocks'[l].position
    BY DEF OrderKept
  <2>1. DOMAIN blocks' = 1..(m + c) /\ blocks'[k].id = list[k].id /\ blocks'[l].id = list[l].id
        /\ blocks'[k].note = list[k].note /\ blocks'[l].note = list[l].note
    BY <1>10, <1>14 DEF Reindexed
  <2>2. CASE blocks[i].note = note
    <3>1. list[k].note = note
      BY <2>1, <2>2
    <3>2. k \in (m + 1)..(m + c)
      BY <1>7, <1>10, <1>11, <2>1, <3>1
    <3>3. k - m \in DOMAIN kept /\ list[k].id = kept[k - m].id
      BY <1>8, <1>10, <3>2
    <3>4. blocks[i].id \in BlockIdsOf(kept)
      BY <2>1, <3>3 DEF BlockIdsOf
    <3>. QED
      BY <1>1, <3>4
  <2>3. CASE blocks[i].note # note
    <3>1. k \in 1..m /\ l \in 1..m
      BY <1>20, <2>1, <2>3
    <3>2. blocks'[k] = blocks[at[k]] /\ blocks'[l] = blocks[at[l]]
          /\ at[k] \in DOMAIN blocks /\ at[l] \in DOMAIN blocks
      BY <1>7, <1>10, <1>14, <2>1, <2>3, <3>1 DEF Reindexed
    <3>3. at[k] = i /\ at[l] = j
      BY <1>1, <3>2 DEF OncePerId
    <3>. QED
      BY <3>2, <3>3
  <2>. QED
    BY <2>2, <2>3
<1>. QED
  BY <1>1, <1>14, <1>15 DEF EditorInv

\* The list of a caller who turns the blocks of a note around.
LEMMA TurnedAround ==
    ASSUME EditorInv, NEW note \in Notes
    PROVE  LET kept == Reverse(InOrder(blocks, note))
           IN  /\ kept \in Seq(BlockSpace(created)) /\ OncePerId(kept)
               /\ \A i \in DOMAIN kept : \E j \in DOMAIN blocks :
                     blocks[j].id = kept[i].id /\ blocks[j].note = note
               /\ \A j \in DOMAIN blocks : blocks[j].note = note => blocks[j].id \in BlockIdsOf(kept)
<1>. DEFINE o == InOrder(blocks, note)
            kept == Reverse(o)
            c == Len(o)
<1>1. blocks \in Seq(BlockSpace(created)) /\ OncePerId(blocks)
  BY DEF EditorInv
<1>2. /\ o \in Seq(BlockSpace(created)) /\ OncePerId(o)
      /\ \A q \in DOMAIN o : \E i \in DOMAIN blocks : blocks[i].note = note /\ o[q] = blocks[i]
      /\ \A i \in DOMAIN blocks : blocks[i].note = note => \E q \in DOMAIN o : o[q] = blocks[i]
  BY <1>1, NoteInOrder
<1>. HIDE DEF o
<1>3. c \in Nat /\ DOMAIN o = 1..c /\ \A i \in 1..c : o[i] \in BlockSpace(created)
  BY <1>2
<1>4. kept = [i \in 1..c |-> o[(c - i) + 1]]
  BY DEF Reverse
<1>. HIDE DEF kept, c
<1>5. \A i \in 1..c : (c - i) + 1 \in 1..c /\ (c - ((c - i) + 1)) + 1 = i
  BY <1>3
<1>6. kept \in Seq(BlockSpace(created)) /\ DOMAIN kept = 1..c
  <2>1. kept \in [1..c -> BlockSpace(created)]
    BY <1>3, <1>4, <1>5
  <2>. QED
    BY <1>3, <2>1
<1>7. OncePerId(kept)
  <2>. SUFFICES ASSUME NEW i \in 1..c, NEW j \in 1..c, kept[i].id = kept[j].id PROVE i = j
    BY <1>6 DEF OncePerId
  <2>. DEFINE x == (c - i) + 1
              y == (c - j) + 1
  <2>1. x = y
    <3>1. kept[i] = o[x] /\ kept[j] = o[y] /\ x \in DOMAIN o /\ y \in DOMAIN o
      BY <1>3, <1>4, <1>5
    <3>. HIDE DEF x, y
    <3>. QED
      BY <1>2, <3>1 DEF OncePerId
  <2>. QED
    BY <1>3, <2>1
<1>8. \A i \in DOMAIN kept : \E j \in DOMAIN blocks : blocks[j].id = kept[i].id /\ blocks[j].note = note
  <2>. SUFFICES ASSUME NEW i \in 1..c
                PROVE  \E j \in DOMAIN blocks : blocks[j].id = kept[i].id /\ blocks[j].note = note
    BY <1>6
  <2>. DEFINE q == (c - i) + 1
  <2>1. q \in DOMAIN o /\ kept[i] = o[q]
    BY <1>3, <1>4, <1>5
  <2>. HIDE DEF q
  <2>. QED
    BY <1>2, <2>1
<1>9. ASSUME NEW j \in DOMAIN blocks, blocks[j].note = note PROVE blocks[j].id \in BlockIdsOf(kept)
  <2>1. PICK q \in 1..c : o[q] = blocks[j]
    BY <1>2, <1>3, <1>9
  <2>. DEFINE i == (c - q) + 1
  <2>2. i \in 1..c /\ (c - i) + 1 = q
    BY <1>5
  <2>. HIDE DEF i
  <2>3. kept[i] = blocks[j] /\ i \in DOMAIN kept
    BY <1>4, <1>6, <2>1, <2>2
  <2>. QED
    BY <2>3 DEF BlockIdsOf
<1>. QED
  BY <1>6, <1>7, <1>8, <1>9 DEF kept, o

\* Every call of the editor.
LEMMA EditorKeeps ==
    ASSUME EditorInv, [EditorNext]_editorVars
    PROVE  EditorInv' /\ OthersKeepOrder
<1>1. CASE UNCHANGED editorVars
  <2>1. blocks' = blocks /\ created' = created /\ parsedOver' = parsedOver
    BY <1>1 DEF editorVars
  <2>2. EditorInv'
    BY <2>1 DEF EditorInv
  <2>3. OrderKept(blocks, blocks', parsedOver, named')
    <3>1. \A i, k \in DOMAIN blocks : blocks[i].id = blocks[k].id => i = k
      BY DEF EditorInv, OncePerId
    <3>. QED
      BY <2>1, <3>1 DEF OrderKept
  <2>. QED
    BY <2>2, <2>3, OrderIsKept
<1>2. ASSUME NEW note \in Notes, NEW place \in 0..MaxPlace, CreateBlock(note, place)
      PROVE  EditorInv' /\ OthersKeepOrder
  BY <1>2, CreateBlockKeeps, OrderIsKept
<1>3. ASSUME NEW id \in 1..created, NEW place \in 0..MaxPlace, DeleteBlock(id) \/ MoveBlock(id, place)
      PROVE  EditorInv' /\ OthersKeepOrder
  BY <1>3, DeleteBlockKeeps, MoveBlockKeeps, OrderIsKept
<1>4. ASSUME NEW note \in Notes, NEW count \in 1..2, ListBlocks(note) \/ ParseMarkdown(note, count)
      PROVE  EditorInv' /\ OthersKeepOrder
  BY <1>4, ListBlocksKeeps, ParseKeeps, OrderIsKept
<1>5. ASSUME NEW note \in Notes, ReplaceBlocks(note, Reverse(InOrder(blocks, note)))
      PROVE  EditorInv' /\ OthersKeepOrder
  BY <1>5, TurnedAround, ReplaceKeeps, OrderIsKept
<1>6. ASSUME NEW note \in Notes, ReplaceBlocks(note, << >>)
      PROVE  EditorInv' /\ OthersKeepOrder
  <2>1. << >> \in Seq(BlockSpace(created)) /\ DOMAIN << >> = {}
    OBVIOUS
  <2>2. EditorInv' /\ OrderKept(blocks, blocks', parsedOver, named')
    BY <1>6, <2>1, ReplaceKeeps DEF OncePerId
  <2>. QED
    BY <2>2, OrderIsKept
<1>7. ASSUME NEW id \in 1..created, DeleteBlock(id) PROVE EditorInv' /\ OthersKeepOrder
  BY <1>7, DeleteBlockKeeps, OrderIsKept
<1>. QED
  BY <1>1, <1>2, <1>3, <1>4, <1>5, <1>6, <1>7 DEF EditorNext

\* Blocks have their types, and the places of their own.
LEMMA EditorSound ==
    ASSUME EditorInv
    PROVE  EditorTypeOK /\ PlacesDistinct
<1>1. blocks \in Seq(BlockSpace(created)) /\ OncePerId(blocks)
  BY DEF EditorInv
<1>2. \A i \in DOMAIN blocks :
         blocks[i].note \in Notes /\ blocks[i].id \in 1..created /\ blocks[i].position >= 0
  <2>1. \A i \in DOMAIN blocks : blocks[i] \in BlockSpace(created)
    BY <1>1
  <2>. QED
    BY <2>1, BlockFields
<1>3. Cardinality(BlockIdsOf(blocks)) = Len(blocks)
  <2>. DEFINE m == Len(blocks)
              ids == BlockIdsOf(blocks)
              f == [i \in 1..m |-> blocks[i].id]
  <2>1. m \in Nat /\ DOMAIN blocks = 1..m
    BY <1>1
  <2>2. \A i \in 1..m : f[i] = blocks[i].id
    OBVIOUS
  <2>3. f \in [1..m -> ids] /\ (\A i, j \in 1..m : f[i] = f[j] => i = j)
        /\ \A id \in ids : \E i \in 1..m : f[i] = id
    BY <1>1, <2>1 DEF BlockIdsOf, OncePerId
  <2>. HIDE DEF m, ids, f
  <2>4. f \in Bijection(1..m, ids)
    BY <2>3, Fun_IsBij
  <2>5. IsFiniteSet(1..m) /\ Cardinality(1..m) = m
    BY <2>1, FS_Interval
  <2>6. Cardinality(ids) = m
    BY <2>4, <2>5, FS_Bijection DEF ExistsBijection
  <2>. QED
    BY <2>6 DEF ids, m
<1>. QED
  BY <1>2, <1>3 DEF EditorInv, EditorTypeOK, PlacesDistinct, Apart

-----------------------------------------------------------------------------
(* Databases *)

\* The ids of fields drawn so far bound the positions ever given.
FieldsDrawn == FieldIds \cap drawn

FieldSound(f) ==
    /\ fields[f].database \in databases /\ fields[f].position \in Nat
    /\ fields[f].position < Cardinality(FieldsDrawn)

TablesInv ==
    /\ TablesTypeOK /\ NothingDangles /\ FieldsInOrder
    /\ DOMAIN fields \subseteq drawn /\ DOMAIN rows \subseteq drawn
    /\ \A f \in DOMAIN fields : FieldSound(f)

Pairs(C, A, B) == \A c \in C : c = <<c[1], c[2]>> /\ c[1] \in A /\ c[2] \in B

\* A subset of a product, by its pairs.
LEMMA PairsOf ==
    ASSUME NEW C, NEW A, NEW B
    PROVE  C \subseteq A \X B <=> Pairs(C, A, B)
<1>1. ASSUME C \subseteq A \X B, NEW c \in C PROVE c = <<c[1], c[2]>> /\ c[1] \in A /\ c[2] \in B
  <2>1. c \in A \X B
    BY <1>1
  <2>. QED
    BY <2>1
<1>2. ASSUME NEW c \in C, c = <<c[1], c[2]>>, c[1] \in A, c[2] \in B PROVE c \in A \X B
  BY <1>2
<1>. QED
  BY <1>1, <1>2 DEF Pairs

\* What the tables say of themselves, for use without the definitions.
LEMMA TablesSay ==
    ASSUME TablesInv
    PROVE  /\ databases \subseteq DatabaseIds
           /\ DOMAIN fields \subseteq FieldIds /\ DOMAIN rows \subseteq RowIds
           /\ DOMAIN fields \subseteq drawn /\ DOMAIN rows \subseteq drawn
           /\ Pairs(DOMAIN cells, DOMAIN rows, DOMAIN fields)
           /\ \A c \in DOMAIN cells : cells[c] \in Values
           /\ DOMAIN views \subseteq databases
           /\ \A d \in DOMAIN views : views[d] \in ViewSettings \cup {NoSettings}
           /\ \A f \in DOMAIN fields : FieldSound(f)
           /\ \A r \in DOMAIN rows : rows[r] \in databases
           /\ FieldsInOrder
<1>1. Pairs(DOMAIN cells, RowIds, FieldIds)
  BY PairsOf DEF TablesInv, TablesTypeOK
<1>2. Pairs(DOMAIN cells, DOMAIN rows, DOMAIN fields)
  BY <1>1 DEF Pairs, TablesInv, NothingDangles
<1>. QED
  BY <1>2 DEF TablesInv, TablesTypeOK, NothingDangles

\* And what is enough for them to be sound after a call.
LEMMA TablesSound ==
    ASSUME databases' \subseteq DatabaseIds,
           DOMAIN fields' \subseteq FieldIds, DOMAIN rows' \subseteq RowIds,
           DOMAIN fields' \subseteq drawn', DOMAIN rows' \subseteq drawn',
           Pairs(DOMAIN cells', DOMAIN rows', DOMAIN fields'),
           \A c \in DOMAIN cells' : cells'[c] \in Values,
           DOMAIN views' \subseteq databases',
           \A d \in DOMAIN views' : views'[d] \in ViewSettings \cup {NoSettings},
           \A f \in DOMAIN fields' : FieldSound(f)',
           \A r \in DOMAIN rows' : rows'[r] \in databases',
           FieldsInOrder'
    PROVE  TablesInv'
<1>1. TablesTypeOK'
  <2>1. Pairs(DOMAIN cells', RowIds, FieldIds)
    BY DEF Pairs
  <2>2. DOMAIN cells' \subseteq RowIds \X FieldIds
    BY <2>1, PairsOf
  <2>. QED
    BY <2>2 DEF TablesTypeOK
<1>2. NothingDangles'
  <2>1. \A c \in DOMAIN cells' : c[1] \in DOMAIN rows' /\ c[2] \in DOMAIN fields'
    BY DEF Pairs
  <2>. QED
    BY <2>1 DEF NothingDangles, FieldSound
<1>. QED
  BY <1>1, <1>2 DEF TablesInv

\* Without databases nothing dangles.
LEMMA TablesStart == TablesInit => TablesInv
<1>1. DOMAIN << >> = {}
  OBVIOUS
<1>. QED
  BY <1>1 DEF TablesInit, TablesInv, TablesTypeOK, NothingDangles, FieldsInOrder

\* Fields stay in order when some are deleted, or when others are drawn.
LEMMA FieldsStay ==
    ASSUME TablesInv, NEW left \in SUBSET DOMAIN fields,
           DOMAIN fields' = left, \A f \in left : fields'[f] = fields[f],
           drawn \subseteq drawn', \A f \in left : fields[f].database \in databases'
    PROVE  FieldsInOrder' /\ \A f \in DOMAIN fields' : FieldSound(f)'
<1>1. IsFiniteSet(FieldsDrawn') /\ FieldsDrawn \subseteq FieldsDrawn'
  BY TablesAssumption, FS_Subset DEF FieldsDrawn
<1>2. /\ Cardinality(FieldsDrawn) \in Nat /\ Cardinality(FieldsDrawn') \in Nat
      /\ Cardinality(FieldsDrawn) <= Cardinality(FieldsDrawn')
  BY <1>1, FS_Subset, FS_CardinalityType
<1>3. \A f \in left : FieldSound(f)'
  BY <1>2, TablesSay DEF FieldSound
<1>4. FieldsInOrder'
  BY TablesSay DEF FieldsInOrder
<1>. QED
  BY <1>3, <1>4

\* The next position is past all there are, and within the ids drawn.
LEMMA NextPositionFits ==
    ASSUME TablesInv, NEW d, NEW f \in FieldIds, f \notin drawn
    PROVE  /\ NextPosition(d) \in Nat /\ NextPosition(d) <= Cardinality(FieldsDrawn)
           /\ \A q \in PositionsOf(d) : q < NextPosition(d)
           /\ Cardinality(FieldsDrawn \cup {f}) = Cardinality(FieldsDrawn) + 1
<1>. DEFINE c == Cardinality(FieldsDrawn)
            m == Cardinality(FieldIds)
            P == PositionsOf(d)
<1>1. IsFiniteSet(FieldIds) /\ FieldsDrawn \cup {f} \subseteq FieldIds /\ f \notin FieldsDrawn
  BY TablesAssumption DEF FieldsDrawn
<1>2. IsFiniteSet(FieldsDrawn) /\ Cardinality(FieldsDrawn \cup {f}) = c + 1
  BY <1>1, FS_Subset, FS_AddElement
<1>3. c \in Nat /\ m \in Nat /\ c + 1 <= m
  BY <1>1, <1>2, FS_Subset, FS_CardinalityType
<1>4. \A q \in P : q \in Nat /\ q < c
  BY TablesSay DEF PositionsOf, FieldSound
<1>. HIDE DEF c, m, P
<1>5. \E p \in 0..m : (\A q \in P : q < p) /\ (p = 0 \/ p - 1 \in P)
  <2>1. CASE P = {}
    BY <1>3, <2>1
  <2>2. CASE P # {}
    <3>1. P \in SUBSET (0..c)
      BY <1>3, <1>4
    <3>2. PICK x \in P : \A y \in P : y <= x
      BY <1>3, <2>2, <3>1, GreatestNumber
    <3>. DEFINE y == x + 1
    <3>3. y \in 0..m /\ y - 1 = x /\ \A q \in P : q < y
      BY <1>3, <1>4, <3>2
    <3>. HIDE DEF y
    <3>4. y - 1 \in P
      BY <3>2, <3>3
    <3>. QED
      BY <3>3, <3>4
  <2>. QED
    BY <2>1, <2>2
<1>. DEFINE p == NextPosition(d)
<1>6. p = CHOOSE x \in 0..m : (\A q \in P : q < x) /\ (x = 0 \/ x - 1 \in P)
  BY DEF NextPosition, m, P
<1>. HIDE DEF p
<1>7. p \in 0..m /\ (\A q \in P : q < p) /\ (p = 0 \/ p - 1 \in P)
  BY <1>5, <1>6
<1>8. p \in Nat /\ p <= c
  BY <1>3, <1>4, <1>7
<1>. QED
  BY <1>2, <1>7, <1>8 DEF p, c, P

-----------------------------------------------------------------------------
(* Databases: fields and views *)

\* A database comes without fields.
LEMMA CreateDatabaseKeeps ==
    ASSUME TablesInv, NEW d \in DatabaseIds, CreateDatabase(d)
    PROVE  TablesInv' /\ rows' = rows
<1>1. /\ databases' = databases \cup {d} /\ drawn' = drawn \cup {d}
      /\ UNCHANGED <<fields, rows, cells>> /\ views' = InsertRow(views, d, NoSettings)
  BY DEF CreateDatabase
<1>2. FieldsInOrder' /\ \A f \in DOMAIN fields' : FieldSound(f)'
  BY <1>1, FieldsStay, TablesSay DEF FieldSound
<1>3. /\ DOMAIN views' = DOMAIN views \cup {d} /\ views'[d] = NoSettings
      /\ \A x \in DOMAIN views' : x # d => views'[x] = views[x]
  BY <1>1 DEF InsertRow
<1>4. \A x \in DOMAIN views' : views'[x] \in ViewSettings \cup {NoSettings}
  BY <1>3, TablesSay
<1>5. TablesInv'
  BY <1>1, <1>2, <1>3, <1>4, TablesSay, TablesSound
<1>. QED
  BY <1>1, <1>5

\* Cells go with their row and with their field.
LEMMA CellsCascade ==
    ASSUME TablesInv, NEW rowIds, NEW fieldIds, cells' = CellsAmong(rowIds, fieldIds)
    PROVE  /\ Pairs(DOMAIN cells', rowIds, fieldIds)
           /\ \A c \in DOMAIN cells' : cells'[c] \in Values
<1>1. DOMAIN cells' = {c \in DOMAIN cells : c[1] \in rowIds /\ c[2] \in fieldIds}
  BY KeptRows DEF CellsAmong
<1>2. \A c \in DOMAIN cells' : cells'[c] = cells[c]
  BY <1>1, KeptRows DEF CellsAmong
<1>. QED
  BY <1>1, <1>2, TablesSay DEF Pairs

\* A database goes with its fields, rows, cells and views.
LEMMA DeleteDatabaseKeeps ==
    ASSUME TablesInv, NEW d \in DatabaseIds, DeleteDatabase(d)
    PROVE  TablesInv' /\ DOMAIN rows' \subseteq DOMAIN rows
<1>. DEFINE leftFields == {f \in DOMAIN fields : fields[f].database # d}
            leftRows == {r \in DOMAIN rows : rows[r] # d}
<1>1. /\ databases' = databases \ {d} /\ drawn' = drawn
      /\ fields' = KeepRows(fields, leftFields) /\ rows' = KeepRows(rows, leftRows)
      /\ cells' = CellsAmong(leftRows, leftFields) /\ views' = DeleteRow(views, d)
  BY DEF DeleteDatabase
<1>2. /\ leftFields \in SUBSET DOMAIN fields /\ leftRows \in SUBSET DOMAIN rows
      /\ \A f \in leftFields : fields[f].database \in databases'
      /\ \A r \in leftRows : rows[r] \in databases'
  BY <1>1, TablesSay DEF FieldSound
<1>. HIDE DEF leftFields, leftRows
<1>3. /\ DOMAIN fields' = leftFields /\ \A f \in leftFields : fields'[f] = fields[f]
      /\ DOMAIN rows' = leftRows /\ \A r \in leftRows : rows'[r] = rows[r]
  BY <1>1, KeptRows
<1>4. DOMAIN views' = DOMAIN views \ {d} /\ \A x \in DOMAIN views' : views'[x] = views[x]
  BY <1>1, KeptRows DEF DeleteRow
<1>5. FieldsInOrder' /\ \A f \in DOMAIN fields' : FieldSound(f)'
  BY <1>1, <1>2, <1>3, FieldsStay
<1>6. /\ Pairs(DOMAIN cells', leftRows, leftFields)
      /\ \A c \in DOMAIN cells' : cells'[c] \in Values
  BY <1>1, CellsCascade
<1>7. TablesInv'
  BY <1>1, <1>2, <1>3, <1>4, <1>5, <1>6, TablesSay, TablesSound
<1>. QED
  BY <1>2, <1>3, <1>7

\* A field comes after the last of its database.
LEMMA AddFieldKeeps ==
    ASSUME TablesInv, NEW d \in DatabaseIds, NEW f \in FieldIds, AddField(d, f)
    PROVE  TablesInv' /\ rows' = rows
<1>. DEFINE p == NextPosition(d)
            row == [database |-> d, position |-> p]
<1>1. /\ d \in databases /\ f \notin drawn /\ drawn' = drawn \cup {f}
      /\ fields' = InsertRow(fields, f, row) /\ UNCHANGED <<databases, rows, cells, views>>
  BY DEF AddField
<1>2. /\ p \in Nat /\ p <= Cardinality(FieldsDrawn)
      /\ \A q \in PositionsOf(d) : q < p
      /\ Cardinality(FieldsDrawn \cup {f}) = Cardinality(FieldsDrawn) + 1
  BY <1>1, NextPositionFits
<1>. HIDE DEF p
<1>3. row.database = d /\ row.position = p
  OBVIOUS
<1>. HIDE DEF row
<1>4. f \notin DOMAIN fields
  BY <1>1, TablesSay
<1>5. /\ DOMAIN fields' = DOMAIN fields \cup {f} /\ fields'[f] = row
      /\ \A g \in DOMAIN fields : fields'[g] = fields[g]
  BY <1>1, <1>4 DEF InsertRow
<1>6. FieldsDrawn' = FieldsDrawn \cup {f}
  BY <1>1 DEF FieldsDrawn
<1>7. Cardinality(FieldsDrawn) \in Nat
  BY TablesAssumption, FS_Subset, FS_CardinalityType DEF FieldsDrawn
<1>8. \A g \in DOMAIN fields' : FieldSound(g)'
  <2>1. FieldSound(f)'
    BY <1>1, <1>2, <1>3, <1>5, <1>6, <1>7 DEF FieldSound
  <2>2. ASSUME NEW g \in DOMAIN fields PROVE FieldSound(g)'
    <3>1. FieldSound(g)
      BY TablesSay
    <3>. QED
      BY <1>1, <1>2, <1>5, <1>6, <1>7, <3>1 DEF FieldSound
  <2>. QED
    BY <1>5, <2>1, <2>2
<1>9. FieldsInOrder'
  <2>1. \A g \in DOMAIN fields : fields[g].database = d => fields[g].position \in PositionsOf(d)
    BY DEF PositionsOf
  <2>2. \A g \in DOMAIN fields : fields[g].database = d => fields[g].position # p
    BY <1>2, <2>1, TablesSay DEF FieldSound
  <2>. QED
    BY <1>3, <1>5, <2>2, TablesSay DEF FieldsInOrder
<1>10. TablesInv'
  <2>1. Pairs(DOMAIN cells', DOMAIN rows', DOMAIN fields')
    BY <1>1, <1>5, TablesSay DEF Pairs
  <2>. QED
    BY <1>1, <1>5, <1>8, <1>9, <2>1, TablesSay, TablesSound
<1>. QED
  BY <1>1, <1>10

\* A field goes with its cells; views may still name it.
LEMMA DeleteFieldKeeps ==
    ASSUME TablesInv, NEW f \in FieldIds, DeleteField(f)
    PROVE  TablesInv' /\ rows' = rows
<1>. DEFINE left == DOMAIN fields \ {f}
<1>1. /\ fields' = KeepRows(fields, left) /\ cells' = CellsAmong(DOMAIN rows, left)
      /\ UNCHANGED <<databases, rows, views, drawn>>
  BY DEF DeleteField, DeleteRow
<1>2. left \in SUBSET DOMAIN fields
  OBVIOUS
<1>. HIDE DEF left
<1>3. DOMAIN fields' = left /\ \A g \in left : fields'[g] = fields[g]
  BY <1>1, KeptRows
<1>4. FieldsInOrder' /\ \A g \in DOMAIN fields' : FieldSound(g)'
  <2>1. \A g \in left : fields[g].database \in databases'
    BY <1>1, <1>2, TablesSay DEF FieldSound
  <2>. QED
    BY <1>1, <1>2, <1>3, <2>1, FieldsStay
<1>5. /\ Pairs(DOMAIN cells', DOMAIN rows, left)
      /\ \A c \in DOMAIN cells' : cells'[c] \in Values
  BY <1>1, CellsCascade
<1>6. TablesInv'
  BY <1>1, <1>2, <1>3, <1>4, <1>5, TablesSay, TablesSound
<1>. QED
  BY <1>1, <1>6

\* A view comes, is set and goes with its database there.
LEMMA ViewsKeep ==
    ASSUME TablesInv, NEW d \in DatabaseIds,
           \/ AddView(d) \/ DeleteView(d)
           \/ \E settings \in ViewSettings : UpdateView(d, settings)
    PROVE  TablesInv' /\ rows' = rows
<1>1. /\ UNCHANGED <<databases, fields, rows, cells, drawn>>
      /\ DOMAIN views' \subseteq databases
      /\ \A x \in DOMAIN views' : views'[x] \in ViewSettings \cup {NoSettings}
  <2>1. CASE AddView(d)
    BY <2>1, TablesSay DEF AddView, InsertRow
  <2>2. CASE DeleteView(d)
    BY <2>2, TablesSay DEF DeleteView, DeleteRow, KeepRows
  <2>3. CASE \E settings \in ViewSettings : UpdateView(d, settings)
    BY <2>3, TablesSay DEF UpdateView
  <2>. QED
    BY <2>1, <2>2, <2>3
<1>2. FieldsInOrder' /\ \A f \in DOMAIN fields' : FieldSound(f)'
  BY <1>1, FieldsStay, TablesSay DEF FieldSound
<1>3. TablesInv'
  BY <1>1, <1>2, TablesSay, TablesSound
<1>. QED
  BY <1>1, <1>3

-----------------------------------------------------------------------------
(* Databases: rows *)

LastOf(list, f) == LastIndex(list, LAMBDA cell : cell[1] = f)

\* The value a list of cells gives a field last.
LEMMA LastOfThere ==
    ASSUME NEW S, NEW list \in Seq(S), NEW i \in DOMAIN list
    PROVE  /\ LastOf(list, list[i][1]) \in DOMAIN list
           /\ list[LastOf(list, list[i][1])][1] = list[i][1]
<1>. DEFINE f == list[i][1]
            hits == {k \in DOMAIN list : list[k][1] = f}
<1>1. hits \in SUBSET (0..Len(list)) /\ hits # {} /\ Len(list) \in Nat /\ hits \subseteq DOMAIN list
  OBVIOUS
<1>2. LastOf(list, f) = CHOOSE k \in hits : \A j \in hits : j <= k
  <2>1. LastOf(list, f) = IF hits = {} THEN 0 ELSE CHOOSE k \in hits : \A j \in hits : j <= k
    BY DEF LastOf, LastIndex
  <2>. HIDE DEF hits
  <2>. QED
    BY <1>1, <2>1
<1>. HIDE DEF hits, f
<1>3. LastOf(list, f) \in hits
  BY <1>1, <1>2, GreatestNumber
<1>. QED
  BY <1>1, <1>3 DEF f, hits

\* Writing cells gives them the values of the call.
LEMMA WrittenCells ==
    ASSUME TablesInv, NEW r, NEW list \in Seq(FieldIds \X Values), FieldsExist(list)
    PROVE  /\ DOMAIN Written(r, list) = DOMAIN cells \cup {<<r, list[i][1]>> : i \in DOMAIN list}
           /\ \A c \in DOMAIN Written(r, list) : Written(r, list)[c] \in Values
           /\ \A i \in DOMAIN list : list[i][1] \in DOMAIN fields
<1>. DEFINE new == {<<r, list[i][1]>> : i \in DOMAIN list}
            w == Written(r, list)
<1>1. w = [c \in DOMAIN cells \cup new |-> IF c \in new THEN list[LastOf(list, c[2])][2] ELSE cells[c]]
  BY DEF Written, LastOf
<1>2. ASSUME NEW c \in new PROVE list[LastOf(list, c[2])][2] \in Values
  <2>1. PICK i \in DOMAIN list : c = <<r, list[i][1]>>
    OBVIOUS
  <2>2. c[2] = list[i][1]
    BY <2>1
  <2>3. LastOf(list, c[2]) \in DOMAIN list
    BY <2>2, LastOfThere
  <2>. QED
    BY <2>3
<1>. HIDE DEF w, new
<1>3. DOMAIN w = DOMAIN cells \cup new /\ \A c \in DOMAIN w : w[c] \in Values
  BY <1>1, <1>2, TablesSay
<1>. QED
  BY <1>3 DEF w, new, FieldsExist

\* Of cells that name no field twice each is written with its own value.
LEMMA WrittenOnce ==
    ASSUME NEW r, NEW list \in Seq(FieldIds \X Values), NoFieldTwice(list),
           NEW i \in DOMAIN list
    PROVE  Written(r, list)[<<r, list[i][1]>>] = list[i][2]
<1>. DEFINE new == {<<r, list[k][1]>> : k \in DOMAIN list}
            c == <<r, list[i][1]>>
            w == Written(r, list)
<1>1. w = [x \in DOMAIN cells \cup new |-> IF x \in new THEN list[LastOf(list, x[2])][2] ELSE cells[x]]
  BY DEF Written, LastOf
<1>2. c \in new /\ c[2] = list[i][1]
  OBVIOUS
<1>. HIDE DEF w, new, c
<1>3. w[c] = list[LastOf(list, list[i][1])][2]
  BY <1>1, <1>2
<1>4. LastOf(list, list[i][1]) = i
  BY LastOfThere DEF NoFieldTwice
<1>. QED
  BY <1>3, <1>4 DEF w, c

\* A row is added with the cells of its call, or not at all.
LEMMA AddRowKeeps ==
    ASSUME TablesInv, NEW d \in DatabaseIds, NEW r \in RowIds, NEW list \in CellLists,
           AddRow(d, r, list)
    PROVE  TablesInv' /\ RowsComeWhole
<1>1. /\ d \in databases /\ r \notin drawn /\ FieldsExist(list) /\ NoFieldTwice(list)
      /\ rows' = InsertRow(rows, r, d) /\ cells' = Written(r, list)
      /\ addedRow' = [row |-> r, cells |-> list]
      /\ drawn' = drawn \cup {r} /\ UNCHANGED <<databases, fields, views>>
  BY DEF AddRow
<1>2. list \in Seq(FieldIds \X Values) /\ r \notin DOMAIN rows
  BY <1>1, TablesAssumption, TablesSay
<1>3. /\ DOMAIN rows' = DOMAIN rows \cup {r} /\ rows'[r] = d
      /\ \A x \in DOMAIN rows : rows'[x] = rows[x]
  BY <1>1, <1>2 DEF InsertRow
<1>4. /\ DOMAIN cells' = DOMAIN cells \cup {<<r, list[i][1]>> : i \in DOMAIN list}
      /\ \A c \in DOMAIN cells' : cells'[c] \in Values
      /\ \A i \in DOMAIN list : list[i][1] \in DOMAIN fields
  BY <1>1, <1>2, WrittenCells
<1>5. FieldsInOrder' /\ \A f \in DOMAIN fields' : FieldSound(f)'
  BY <1>1, FieldsStay, TablesSay DEF FieldSound
<1>6. Pairs(DOMAIN cells', DOMAIN rows', DOMAIN fields')
  BY <1>1, <1>3, <1>4, TablesSay DEF Pairs
<1>7. TablesInv'
  BY <1>1, <1>3, <1>4, <1>5, <1>6, TablesSay, TablesSound
<1>8. RowsComeWhole
  <2>. SUFFICES ASSUME NEW x \in DOMAIN rows' \ DOMAIN rows
                PROVE  /\ addedRow'.row = x
                       /\ \A cell \in ToSet(addedRow'.cells) :
                             /\ <<x, cell[1]>> \in DOMAIN cells'
                             /\ cells'[<<x, cell[1]>>] = cell[2]
                       /\ \A f \in FieldIds : <<x, f>> \in DOMAIN cells' =>
                             <<f, cells'[<<x, f>>]>> \in ToSet(addedRow'.cells)
    BY DEF RowsComeWhole
  <2>1. x = r /\ addedRow'.row = r /\ addedRow'.cells = list
    BY <1>1, <1>3
  <2>2. \A i \in DOMAIN list : /\ <<r, list[i][1]>> \in DOMAIN cells'
                             /\ cells'[<<r, list[i][1]>>] = list[i][2]
    BY <1>1, <1>2, <1>4, WrittenOnce
  <2>3. ASSUME NEW f \in FieldIds, <<r, f>> \in DOMAIN cells'
        PROVE  <<f, cells'[<<r, f>>]>> \in ToSet(list)
    <3>1. <<r, f>> \notin DOMAIN cells
      <4>1. <<r, f>>[1] = r
        OBVIOUS
      <4>. QED
        BY <1>2, <4>1, TablesSay DEF Pairs
    <3>2. PICK i \in DOMAIN list : <<r, f>> = <<r, list[i][1]>>
      BY <1>4, <2>3, <3>1
    <3>3. list[i] \in FieldIds \X Values /\ f = list[i][1]
      BY <1>2, <3>2
    <3>4. <<f, cells'[<<r, f>>]>> = list[i]
      BY <2>2, <3>3
    <3>. QED
      BY <3>4 DEF ToSet
  <2>4. ASSUME NEW cell \in ToSet(list)
        PROVE  <<r, cell[1]>> \in DOMAIN cells' /\ cells'[<<r, cell[1]>>] = cell[2]
    BY <2>2 DEF ToSet
  <2>. QED
    BY <2>1, <2>3, <2>4
<1>. QED
  BY <1>7, <1>8

\* An update writes cells of a row and of fields there are.
LEMMA UpdateRowKeeps ==
    ASSUME TablesInv, NEW r \in RowIds, NEW list \in Seq(FieldIds \X Values), UpdateRow(r, list)
    PROVE  TablesInv' /\ rows' = rows
<1>1. /\ r \in DOMAIN rows /\ FieldsExist(list) /\ cells' = Written(r, list)
      /\ UNCHANGED <<databases, fields, rows, views, drawn>>
  BY DEF UpdateRow
<1>2. /\ DOMAIN cells' = DOMAIN cells \cup {<<r, list[i][1]>> : i \in DOMAIN list}
      /\ \A c \in DOMAIN cells' : cells'[c] \in Values
      /\ \A i \in DOMAIN list : list[i][1] \in DOMAIN fields
  BY <1>1, WrittenCells
<1>3. FieldsInOrder' /\ \A f \in DOMAIN fields' : FieldSound(f)'
  BY <1>1, FieldsStay, TablesSay DEF FieldSound
<1>4. Pairs(DOMAIN cells', DOMAIN rows', DOMAIN fields')
  BY <1>1, <1>2, TablesSay DEF Pairs
<1>5. TablesInv'
  BY <1>1, <1>2, <1>3, <1>4, TablesSay, TablesSound
<1>. QED
  BY <1>1, <1>5

\* A row goes with its cells.
LEMMA RemoveRowKeeps ==
    ASSUME TablesInv, NEW r \in RowIds, RemoveRow(r)
    PROVE  TablesInv' /\ DOMAIN rows' \subseteq DOMAIN rows
<1>. DEFINE left == DOMAIN rows \ {r}
<1>1. /\ rows' = KeepRows(rows, left) /\ cells' = CellsAmong(left, DOMAIN fields)
      /\ UNCHANGED <<databases, fields, views, drawn>>
  BY DEF RemoveRow, DeleteRow
<1>2. left \in SUBSET DOMAIN rows
  OBVIOUS
<1>. HIDE DEF left
<1>3. DOMAIN rows' = left /\ \A x \in left : rows'[x] = rows[x]
  BY <1>1, KeptRows
<1>4. FieldsInOrder' /\ \A f \in DOMAIN fields' : FieldSound(f)'
  BY <1>1, FieldsStay, TablesSay DEF FieldSound
<1>5. /\ Pairs(DOMAIN cells', left, DOMAIN fields)
      /\ \A c \in DOMAIN cells' : cells'[c] \in Values
  BY <1>1, CellsCascade
<1>6. TablesInv'
  BY <1>1, <1>2, <1>3, <1>4, <1>5, TablesSay, TablesSound
<1>. QED
  BY <1>2, <1>3, <1>6

\* Every call of the table engine.
LEMMA TablesKeep ==
    ASSUME TablesInv, [TablesNext]_tableVars
    PROVE  TablesInv' /\ RowsComeWhole
<1>1. DOMAIN rows' \subseteq DOMAIN rows => RowsComeWhole
  BY DEF RowsComeWhole
<1>2. CASE UNCHANGED tableVars
  <2>1. /\ databases' = databases /\ fields' = fields /\ rows' = rows /\ cells' = cells
        /\ views' = views /\ drawn' = drawn
    BY <1>2 DEF tableVars
  <2>2. FieldsInOrder' /\ \A f \in DOMAIN fields' : FieldSound(f)'
    BY <2>1, FieldsStay, TablesSay DEF FieldSound
  <2>. QED
    BY <1>1, <2>1, <2>2, TablesSay, TablesSound
<1>3. ASSUME NEW r \in RowIds, NEW cell \in CellUpdates, UpdateCell(r, cell[1], cell[2])
      PROVE  TablesInv' /\ rows' = rows
  <2>1. <<<<cell[1], cell[2]>>>> \in Seq(FieldIds \X Values)
    BY TablesAssumption
  <2>. QED
    BY <1>3, <2>1, UpdateRowKeeps DEF UpdateCell
<1>4. ASSUME NEW r \in RowIds, NEW list \in CellLists, UpdateRow(r, list)
      PROVE  TablesInv' /\ rows' = rows
  BY <1>4, UpdateRowKeeps, TablesAssumption
<1>. QED
  BY <1>1, <1>2, <1>3, <1>4, CreateDatabaseKeeps, DeleteDatabaseKeeps, AddFieldKeeps,
     DeleteFieldKeeps, ViewsKeep, AddRowKeeps, RemoveRowKeeps DEF TablesNext

-----------------------------------------------------------------------------
(* Databases: filters *)

\* The rows of a database as they are loaded.
LEMMA RowsLoaded ==
    ASSUME TablesInv, NEW d
    PROVE  /\ RowsOf(d) \in Seq(RowIds)
           /\ \A i, j \in DOMAIN RowsOf(d) : RowsOf(d)[i] = RowsOf(d)[j] => i = j
<1>. DEFINE S == {r \in DOMAIN rows : rows[r] = d}
            n == Cardinality(S)
            list == RowsOf(d)
<1>1. S \subseteq RowIds /\ IsFiniteSet(S)
  BY TablesAssumption, TablesSay, FS_Subset
<1>. HIDE DEF S
<1>2. n \in Nat /\ ExistsBijection(1..n, S)
  BY <1>1, FS_CardinalityType
<1>3. PICK f \in Bijection(1..n, S) : TRUE
  BY <1>2 DEF ExistsBijection
<1>4. list = CHOOSE g \in [1..n -> S] : IsInjective(g)
  BY DEF RowsOf, SetToSeq, S
<1>5. f \in [1..n -> S] /\ IsInjective(f)
  BY <1>3 DEF Bijection, Injection, IsInjective
<1>. HIDE DEF list, n
<1>6. list \in [1..n -> S] /\ IsInjective(list)
  BY <1>4, <1>5
<1>7. list \in Seq(RowIds)
  BY <1>1, <1>2, <1>6
<1>. QED
  BY <1>6, <1>7 DEF list, IsInjective

\* A filter shows the rows that pass it.
LEMMA FilterShows ==
    ASSUME NEW list \in Seq(RowIds), NEW filters
    PROVE  ToSet(ApplyFilter(list, filters)) =
             {r \in ToSet(list) : \A i \in DOMAIN filters : Keeps(r, filters[i])}
<1>. DEFINE Passes(r) == \A i \in DOMAIN filters : Keeps(r, filters[i])
            hits == {i \in DOMAIN list : Passes(list[i])}
            t == ApplyFilter(list, filters)
<1>1. t = [n \in 1..Cardinality(hits) |->
             list[CHOOSE i \in hits : Cardinality({j \in hits : j <= i}) = n]]
  BY DEF ApplyFilter, Kept
<1>. HIDE DEF t, Passes
<1>2. hits \in SUBSET DOMAIN list
  OBVIOUS
<1>. HIDE DEF hits
<1>3. Filters(t, list, hits)
  BY <1>1 DEF Filters
<1>4. \E at : Picks(t, list, at, hits)
  BY <1>2, <1>3, FilterPicks
<1>5. PICK at : Picks(t, list, at, hits)
  BY <1>4
<1>6. /\ \A m \in DOMAIN t : at[m] \in hits /\ t[m] = list[at[m]]
      /\ \A i \in hits : \E m \in DOMAIN t : t[m] = list[i]
  BY <1>5 DEF Picks
<1>7. \A i : i \in hits <=> i \in DOMAIN list /\ Passes(list[i])
  BY DEF hits
<1>8. ToSet(t) = {r \in ToSet(list) : Passes(r)}
  BY <1>6, <1>7 DEF ToSet
<1>. QED
  BY <1>8 DEF t, Passes

\* A row passes one of is_empty and is_not_empty.
LEMMA EmptySplits ==
    ASSUME TablesInv
    PROVE  EmptyOrNot
<1>. SUFFICES ASSUME NEW d \in databases, NEW f \in FieldIds
              PROVE  LET all == RowsOf(d)
                         Passing(operator) == ToSet(ApplyFilter(all,
                           <<[field |-> f, operator |-> operator, value |-> EmptyValue]>>))
                         empty == Passing("is_empty")
                         others == Passing("is_not_empty")
                     IN  empty \cap others = {} /\ empty \cup others = ToSet(all)
  BY DEF EmptyOrNot
<1>. DEFINE filter(operator) == [field |-> f, operator |-> operator, value |-> EmptyValue]
            shown(operator) == ToSet(ApplyFilter(RowsOf(d), <<filter(operator)>>))
            Unset(r) == <<r, f>> \in DOMAIN cells => cells[<<r, f>>] = EmptyValue
            list == RowsOf(d)
<1>1. \A r : Keeps(r, filter("is_empty")) <=> Unset(r)
  BY DEF Keeps
<1>2. \A r : Keeps(r, filter("is_not_empty")) <=> ~Unset(r)
  BY DEF Keeps
<1>. HIDE DEF filter, Unset
<1>3. ASSUME NEW operator
      PROVE  shown(operator) = {r \in ToSet(list) : Keeps(r, filter(operator))}
  <2>. DEFINE filters == <<filter(operator)>>
  <2>1. DOMAIN filters = {1} /\ filters[1] = filter(operator)
    OBVIOUS
  <2>2. list \in Seq(RowIds)
    BY RowsLoaded
  <2>. HIDE DEF list, filters
  <2>3. ToSet(ApplyFilter(list, filters)) =
             {r \in ToSet(list) : \A i \in DOMAIN filters : Keeps(r, filters[i])}
    BY <2>2, FilterShows
  <2>4. \A r : (\A i \in DOMAIN filters : Keeps(r, filters[i])) <=> Keeps(r, filter(operator))
    BY <2>1
  <2>. QED
    BY <2>3, <2>4 DEF filters, list
<1>. HIDE DEF shown, list
<1>4. /\ shown("is_empty") \cap shown("is_not_empty") = {}
      /\ shown("is_empty") \cup shown("is_not_empty") = ToSet(list)
  BY <1>1, <1>2, <1>3
<1>. QED
  BY <1>4 DEF shown, filter, list

-----------------------------------------------------------------------------
(* Flashcards *)

\* A schedule SM-2 may give.
Grown(x) ==
    /\ x.ease \in Int /\ x.interval \in Int /\ x.repetitions \in Nat
    /\ x.ease >= 130 /\ x.interval >= 1
    /\ x.repetitions >= 2 => x.interval >= 6
    /\ x.repetitions >= 3 => x.interval > 6

Schedules == {x \in [ease : Int, interval : Int, repetitions : Nat] : Grown(x)}

RecordSpace ==
    {x \in [card : Cards, at : Int, due : Int, ease : Int, interval : Int, repetitions : Nat] :
        Grown(x)}

ReviewSpace ==
    {Idle} \cup [step : {"found"}, card : Cards, quality : Qualities]
           \cup [step : {"scheduled"}, card : Cards, next : Schedules, due : Int]

CardsInv ==
    /\ decks \subseteq Decks /\ cardDeck \in [Cards -> Decks \cup {Never, "deleted"}]
    /\ today \in 0..LastDay
    /\ records \in Seq(RecordSpace)
    /\ reviews \in [Reviewers -> ReviewSpace]
    /\ NoOrphans

\* Without decks and cards nothing is left behind.
LEMMA CardsStart == CardsInit => CardsInv
<1>. SUFFICES ASSUME CardsInit PROVE CardsInv
  OBVIOUS
<1>1. records \in Seq(RecordSpace) /\ DOMAIN records = {}
  BY DEF CardsInit
<1>2. Idle \in ReviewSpace
  BY DEF ReviewSpace
<1>3. reviews \in [Reviewers -> ReviewSpace]
  BY <1>2 DEF CardsInit
<1>4. NoOrphans
  BY <1>1, DecksAssumption DEF CardsInit, NoOrphans
<1>. QED
  BY <1>1, <1>3, <1>4, CardsAssumption DEF CardsInit, CardsInv

\* SM-2 keeps its bounds, from a first review or from any it scheduled.
LEMMA NextGrows ==
    ASSUME NEW q \in Qualities, NEW last, last.ease \in Int, last.interval \in Int,
           last.repetitions \in Nat, last.repetitions >= 2 => last.interval >= 6
    PROVE  NextReview(q, last) \in Schedules
<1>. DEFINE ease == NewEase(q, last.ease)
            repetitions == IF q < 3 THEN 0 ELSE last.repetitions + 1
            grown == (last.interval * ease + 50) \div 100
            interval == IF repetitions <= 1 THEN 1 ELSE IF repetitions = 2 THEN 6 ELSE grown
            x == [ease |-> ease, interval |-> interval, repetitions |-> repetitions]
<1>1. q \in Int
  BY CardsAssumption
<1>2. ease \in Int /\ ease >= 130
  <2>. DEFINE change == 10 - (5 - q) * (8 + (5 - q) * 2)
  <2>1. change \in Int
    BY <1>1
  <2>2. ease = IF q < 3 THEN 250
               ELSE IF last.ease + change < 130 THEN 130 ELSE last.ease + change
    BY DEF NewEase
  <2>. HIDE DEF change, ease
  <2>. QED
    BY <2>1, <2>2
<1>3. repetitions \in Nat /\ (repetitions >= 3 => last.repetitions >= 2)
  BY <1>1
<1>. HIDE DEF ease, repetitions
<1>4. repetitions >= 3 => grown \in Int /\ grown > 6
  <2>. SUFFICES ASSUME repetitions >= 3 PROVE grown \in Int /\ grown > 6
    OBVIOUS
  <2>. DEFINE i == last.interval
              product == i * ease
  <2>1. i \in Int /\ i >= 6
    BY <1>3
  <2>. HIDE DEF i
  <2>2. product \in Int /\ product >= 780
    <3>1. product \in Int /\ i * 130 \in Int /\ product >= i * 130
      BY <1>2, <2>1
    <3>. QED
      BY <2>1, <3>1
  <2>3. grown = (product + 50) \div 100
    BY DEF i
  <2>. HIDE DEF product, grown
  <2>. QED
    BY <2>2, <2>3
<1>. HIDE DEF grown
<1>5. /\ interval \in Int /\ interval >= 1
      /\ repetitions >= 2 => interval >= 6
      /\ repetitions >= 3 => interval > 6
  BY <1>3, <1>4
<1>. HIDE DEF interval
<1>6. x \in Schedules
  BY <1>2, <1>3, <1>5 DEF Schedules, Grown
<1>7. NextReview(q, last) = x
  BY DEF NextReview, ease, repetitions, interval, grown
<1>. QED
  BY <1>6, <1>7

\* The records of some cards, as a filter leaves them.
LEMMA RecordsPicked ==
    ASSUME records \in Seq(RecordSpace), NEW cards
    PROVE  LET hits == {i \in DOMAIN records : records[i].card \in cards}
           IN  /\ KeepRecordsOf(cards) \in Seq(RecordSpace)
               /\ \E at : Picks(KeepRecordsOf(cards), records, at, hits)
<1>. DEFINE hits == {i \in DOMAIN records : records[i].card \in cards}
            t == KeepRecordsOf(cards)
<1>1. t = [n \in 1..Cardinality(hits) |->
             records[CHOOSE i \in hits : Cardinality({j \in hits : j <= i}) = n]]
  BY DEF KeepRecordsOf, Kept
<1>2. hits \in SUBSET DOMAIN records
  OBVIOUS
<1>. HIDE DEF t, hits
<1>3. Filters(t, records, hits)
  BY <1>1 DEF Filters
<1>4. t \in Seq(RecordSpace) /\ \E at : Picks(t, records, at, hits)
  BY <1>2, <1>3, FilterPicks
<1>. QED
  BY <1>4 DEF t, hits

\* Deleted cards take their records along.
LEMMA RecordsFollow ==
    ASSUME records \in Seq(RecordSpace), NEW cards,
           records' = KeepRecordsOf(cards)
    PROVE  /\ records' \in Seq(RecordSpace)
           /\ \A i \in DOMAIN records' : \E j \in DOMAIN records :
                 records'[i] = records[j] /\ records[j].card \in cards
<1>. DEFINE hits == {i \in DOMAIN records : records[i].card \in cards}
<1>1. records' \in Seq(RecordSpace) /\ \E at : Picks(records', records, at, hits)
  <2>. HIDE DEF hits
  <2>. QED
    BY RecordsPicked DEF hits
<1>2. PICK at : Picks(records', records, at, hits)
  BY <1>1
<1>3. \A i \in DOMAIN records' : at[i] \in hits /\ records'[i] = records[at[i]]
  BY <1>2 DEF Picks
<1>. QED
  BY <1>1, <1>3

-----------------------------------------------------------------------------
(* Flashcards: the cleanup *)

Latest(list, c) ==
    CHOOSE i \in {j \in DOMAIN list : list[j].card = c} :
        \A j \in {k \in DOMAIN list : list[k].card = c} : j <= i

\* A card of the list has a last record in it.
LEMMA LatestThere ==
    ASSUME NEW S, NEW list \in Seq(S), NEW c, NEW i \in DOMAIN list, list[i].card = c
    PROVE  /\ Latest(list, c) \in DOMAIN list /\ list[Latest(list, c)].card = c
           /\ \A j \in DOMAIN list : list[j].card = c => j <= Latest(list, c)
<1>. DEFINE own == {j \in DOMAIN list : list[j].card = c}
<1>1. own \in SUBSET (0..Len(list)) /\ own # {} /\ Len(list) \in Nat
  OBVIOUS
<1>. HIDE DEF own
<1>2. \E x \in own : \A y \in own : y <= x
  BY <1>1, GreatestNumber
<1>3. Latest(list, c) = CHOOSE x \in own : \A y \in own : y <= x
  BY DEF Latest, own
<1>4. Latest(list, c) \in own /\ \A y \in own : y <= Latest(list, c)
  BY <1>2, <1>3
<1>. QED
  BY <1>4 DEF own

\* Picking a list with the latest element of a card leaves it the latest.
LEMMA LatestPicked ==
    ASSUME NEW S, NEW s \in Seq(S), NEW t \in Seq(S), NEW at, NEW hits \in SUBSET DOMAIN s,
           Picks(t, s, at, hits), NEW c, Latest(s, c) \in hits, NEW i \in DOMAIN s, s[i].card = c
    PROVE  /\ {j \in DOMAIN t : t[j].card = c} # {}
           /\ t[Latest(t, c)] = s[Latest(s, c)]
<1>. DEFINE top == Latest(s, c)
<1>1. /\ top \in DOMAIN s /\ s[top].card = c /\ \A j \in DOMAIN s : s[j].card = c => j <= top
  BY LatestThere
<1>. HIDE DEF top
<1>2. PICK m \in DOMAIN t : at[m] = top
  BY DEF Picks, top
<1>3. t[m] = s[top] /\ t[m].card = c
  BY <1>1, <1>2 DEF Picks
<1>. DEFINE last == Latest(t, c)
<1>4. last \in DOMAIN t /\ t[last].card = c /\ m <= last
  BY <1>3, LatestThere
<1>. HIDE DEF last
<1>5. at[last] \in DOMAIN s /\ s[at[last]] = t[last] /\ at[last] <= top
  BY <1>1, <1>4 DEF Picks
<1>6. m \in Nat /\ last \in Nat /\ at[last] \in Nat /\ top \in Nat
  BY <1>1, <1>4, <1>5
<1>7. ~(m < last)
  BY <1>2, <1>4, <1>5, <1>6 DEF Picks
<1>8. m = last
  BY <1>4, <1>6, <1>7
<1>. QED
  BY <1>3, <1>8 DEF top, last

\* What a cleanup keeps has the latest record of every card.
LEMMA CleanupPicks ==
    ASSUME CardsInv, CleanupOldReviewRecords
    PROVE  /\ records' \in Seq(RecordSpace)
           /\ \E at, hits :
                 /\ hits \in SUBSET DOMAIN records /\ Picks(records', records, at, hits)
                 /\ \A i \in DOMAIN records : Latest(records, records[i].card) \in hits
<1>. DEFINE old == {i \in DOMAIN records :
                      /\ records[i].at < today - RetentionDays
                      /\ i # LatestRecord(records[i].card)}
            all == [i \in DOMAIN records |-> i]
            kept == Kept(all, LAMBDA i : i \notin old)
            hits == DOMAIN records \ old
<1>1. records' = [i \in DOMAIN kept |-> records[kept[i]]]
  BY DEF CleanupOldReviewRecords
<1>2. records \in Seq(RecordSpace)
  BY DEF CardsInv
<1>3. /\ all \in Seq(Nat) /\ DOMAIN all = DOMAIN records
      /\ \A i \in DOMAIN records : all[i] = i
  BY <1>2
<1>4. \A c : LatestRecord(c) = Latest(records, c)
  BY DEF LatestRecord, RecordsOf, Latest
<1>5. hits \in SUBSET DOMAIN all
  BY <1>3
<1>6. \A i \in DOMAIN records : Latest(records, records[i].card) \in hits
  <2>. SUFFICES ASSUME NEW i \in DOMAIN records
                PROVE  Latest(records, records[i].card) \in hits
    OBVIOUS
  <2>. DEFINE c == records[i].card
              top == Latest(records, c)
  <2>1. top \in DOMAIN records /\ records[top].card = c
    BY <1>2, LatestThere
  <2>. HIDE DEF top, c
  <2>2. LatestRecord(records[top].card) = top
    BY <1>4, <2>1 DEF top
  <2>3. top \notin old
    BY <2>2
  <2>. QED
    BY <2>1, <2>3 DEF top, c
<1>7. Filters(kept, all, hits)
  <2>. DEFINE pass == {i \in DOMAIN all : all[i] \notin old}
  <2>1. pass = hits
    BY <1>3
  <2>2. kept = [n \in 1..Cardinality(pass) |->
                  all[CHOOSE i \in pass : Cardinality({j \in pass : j <= i}) = n]]
    <3>. HIDE DEF old, all
    <3>. QED
      BY DEF Kept
  <2>. HIDE DEF pass, kept, all, hits, old
  <2>3. Filters(kept, all, pass)
    BY <2>2 DEF Filters
  <2>. QED
    BY <2>1, <2>3
<1>. HIDE DEF kept, all, hits, old
<1>8. kept \in Seq(Nat) /\ \E at : Picks(kept, all, at, hits)
  BY <1>3, <1>5, <1>7, FilterPicks
<1>9. PICK at : Picks(kept, all, at, hits)
  BY <1>8
<1>10. /\ \A m \in DOMAIN kept : at[m] \in hits /\ kept[m] = at[m]
       /\ DOMAIN records' = DOMAIN kept
       /\ \A m \in DOMAIN kept : records'[m] = records[at[m]]
  BY <1>1, <1>3, <1>5, <1>9 DEF Picks
<1>11. Picks(records', records, at, hits)
  BY <1>9, <1>10 DEF Picks
<1>12. records' \in Seq(RecordSpace)
  <2>1. DOMAIN kept = 1..Len(kept) /\ Len(kept) \in Nat
    BY <1>8
  <2>2. \A m \in DOMAIN kept : records[kept[m]] \in RecordSpace
    BY <1>2, <1>3, <1>5, <1>10
  <2>. QED
    BY <1>1, <2>1, <2>2
<1>. QED
  BY <1>3, <1>5, <1>6, <1>11, <1>12

-----------------------------------------------------------------------------
(* Flashcards: the calls *)

\* A card comes with its first schedule.
LEMMA CreateCardKeeps ==
    ASSUME CardsInv, NEW c \in Cards, CreateFlashcard(c)
    PROVE  CardsInv'
<1>1. PICK deck \in decks : cardDeck[c] = Never /\ cardDeck' = [cardDeck EXCEPT ![c] = deck]
  BY DEF CreateFlashcard
<1>2. decks' = decks /\ records' = records /\ reviews' = reviews /\ today' = today
  BY DEF CreateFlashcard
<1>3. cardDeck' = [x \in Cards |-> IF x = c THEN deck ELSE cardDeck[x]]
  BY <1>1 DEF CardsInv
<1>4. \A x \in LiveCards : x \in LiveCards'
  BY <1>1, <1>2, <1>3 DEF LiveCards
<1>5. NoOrphans'
  <2>1. \A i \in DOMAIN records' : records'[i].card \in LiveCards'
    BY <1>2, <1>4 DEF CardsInv, NoOrphans
  <2>2. \A x \in Cards : cardDeck'[x] \in Decks => cardDeck'[x] \in decks'
    BY <1>2, <1>3 DEF CardsInv, NoOrphans
  <2>. QED
    BY <2>1, <2>2 DEF NoOrphans
<1>. QED
  BY <1>2, <1>3, <1>5 DEF CardsInv

\* Cards that go take their records, whether alone or with their deck.
LEMMA CardsGo ==
    ASSUME CardsInv, NEW gone \in SUBSET Cards, NEW left \in SUBSET decks, decks' = left,
           cardDeck' = [x \in Cards |-> IF x \in gone THEN "deleted" ELSE cardDeck[x]],
           \A x \in Cards \ gone : cardDeck[x] \in decks => cardDeck[x] \in left,
           records' = KeepRecordsOf(Cards \ gone), reviews' = reviews, today' = today
    PROVE  CardsInv'
<1>1. /\ records' \in Seq(RecordSpace)
      /\ \A i \in DOMAIN records' : \E j \in DOMAIN records :
             records'[i] = records[j] /\ records[j].card \in Cards \ gone
  BY RecordsFollow DEF CardsInv
<1>2. \A x \in LiveCards \ gone : x \in LiveCards'
  BY DEF LiveCards
<1>3. NoOrphans'
  <2>1. \A i \in DOMAIN records' : records'[i].card \in LiveCards'
    BY <1>1, <1>2 DEF CardsInv, NoOrphans
  <2>2. \A x \in Cards : cardDeck'[x] \in Decks => cardDeck'[x] \in decks'
    BY DecksAssumption DEF CardsInv, NoOrphans
  <2>. QED
    BY <2>1, <2>2 DEF NoOrphans
<1>4. cardDeck' \in [Cards -> Decks \cup {Never, "deleted"}] /\ decks' \subseteq Decks
  BY DEF CardsInv
<1>. QED
  BY <1>1, <1>3, <1>4 DEF CardsInv

\* A card goes with its records.
LEMMA DeleteCardKeeps ==
    ASSUME CardsInv, NEW c \in Cards, DeleteFlashcard(c)
    PROVE  CardsInv'
<1>1. cardDeck' = [x \in Cards |-> IF x \in {c} THEN "deleted" ELSE cardDeck[x]]
  BY DEF DeleteFlashcard, CardsInv
<1>2. /\ records' = KeepRecordsOf(Cards \ {c}) /\ decks' = decks
      /\ reviews' = reviews /\ today' = today
  BY DEF DeleteFlashcard
<1>3. \A x \in Cards \ {c} : cardDeck[x] \in decks => cardDeck[x] \in decks
  OBVIOUS
<1>4. {c} \in SUBSET Cards /\ decks \in SUBSET decks
  OBVIOUS
<1>. QED
  BY <1>1, <1>2, <1>3, <1>4, CardsGo

\* A deck goes with its cards and their records.
LEMMA DeleteDeckKeeps ==
    ASSUME CardsInv, NEW deck \in Decks, DeleteDeck(deck)
    PROVE  CardsInv'
<1>. DEFINE gone == {c \in Cards : cardDeck[c] = deck}
<1>1. /\ decks' = decks \ {deck}
      /\ cardDeck' = [x \in Cards |-> IF x \in gone THEN "deleted" ELSE cardDeck[x]]
      /\ records' = KeepRecordsOf(Cards \ gone) /\ reviews' = reviews /\ today' = today
  BY DEF DeleteDeck
<1>2. \A x \in Cards \ gone : cardDeck[x] \in decks => cardDeck[x] \in decks \ {deck}
  OBVIOUS
<1>3. gone \in SUBSET Cards /\ decks \ {deck} \in SUBSET decks
  OBVIOUS
<1>. HIDE DEF gone
<1>. QED
  BY <1>1, <1>2, <1>3, CardsGo

\* The three steps of a review.
LEMMA ReviewKeeps ==
    ASSUME CardsInv, NEW r \in Reviewers, StartReview(r) \/ ScheduleReview(r) \/ SaveReview(r)
    PROVE  CardsInv' /\ reviews' # reviews
<1>1. /\ reviews[r] \in ReviewSpace /\ DOMAIN reviews = Reviewers
      /\ reviews = [x \in Reviewers |-> reviews[x]]
      /\ Idle \in ReviewSpace /\ Idle.step = "idle"
  BY DEF CardsInv, ReviewSpace, Idle
<1>2. ASSUME NEW y \in ReviewSpace, reviews' = [reviews EXCEPT ![r] = y], y.step # reviews[r].step
      PROVE  reviews' \in [Reviewers -> ReviewSpace] /\ reviews' # reviews
  <2>1. reviews' = [x \in Reviewers |-> IF x = r THEN y ELSE reviews[x]]
    BY <1>1, <1>2
  <2>2. \A x \in Reviewers : reviews[x] \in ReviewSpace
    BY DEF CardsInv
  <2>3. reviews'[r] = y
    BY <2>1
  <2>. QED
    BY <1>2, <2>1, <2>2, <2>3
<1>3. ASSUME StartReview(r) PROVE CardsInv' /\ reviews' # reviews
  <2>1. PICK c \in LiveCards, q \in Qualities :
           /\ reviews[r] = Idle
           /\ reviews' = [reviews EXCEPT ![r] = [step |-> "found", card |-> c, quality |-> q]]
           /\ UNCHANGED <<decks, cardDeck, records, today>>
    BY <1>3 DEF StartReview
  <2>. DEFINE y == [step |-> "found", card |-> c, quality |-> q]
  <2>2. y \in ReviewSpace /\ y.step # reviews[r].step
    BY <1>1, <2>1 DEF ReviewSpace, LiveCards
  <2>. HIDE DEF y
  <2>3. reviews' \in [Reviewers -> ReviewSpace] /\ reviews' # reviews
    BY <1>2, <2>1, <2>2 DEF y
  <2>4. NoOrphans'
    BY <2>1 DEF CardsInv, NoOrphans, LiveCards
  <2>. QED
    BY <2>1, <2>3, <2>4 DEF CardsInv
<1>4. ASSUME ScheduleReview(r) PROVE CardsInv' /\ reviews' # reviews
  <2>. DEFINE c == reviews[r].card
              q == reviews[r].quality
              last == IF RecordsOf(c) = {} THEN FirstReview ELSE records[LatestRecord(c)]
              next == NextReview(q, last)
              y == [step |-> "scheduled", card |-> c, next |-> next, due |-> today + next.interval]
  <2>1. /\ reviews[r].step = "found" /\ reviews' = [reviews EXCEPT ![r] = y]
        /\ UNCHANGED <<decks, cardDeck, records, today>>
    BY <1>4 DEF ScheduleReview
  <2>2. c \in Cards /\ q \in Qualities
    BY <1>1, <2>1 DEF ReviewSpace
  <2>3. /\ last.ease \in Int /\ last.interval \in Int /\ last.repetitions \in Nat
        /\ last.repetitions >= 2 => last.interval >= 6
    <3>1. CASE RecordsOf(c) = {}
      BY <3>1 DEF FirstReview
    <3>2. CASE RecordsOf(c) # {}
      <4>1. PICK i \in DOMAIN records : records[i].card = c
        BY <3>2 DEF RecordsOf
      <4>2. records \in Seq(RecordSpace)
        BY DEF CardsInv
      <4>3. LatestRecord(c) = Latest(records, c)
        BY DEF LatestRecord, RecordsOf, Latest
      <4>. HIDE DEF c
      <4>4. LatestRecord(c) \in DOMAIN records
        BY <4>1, <4>2, <4>3, LatestThere
      <4>5. records[LatestRecord(c)] \in RecordSpace
        BY <4>2, <4>4
      <4>6. Grown(records[LatestRecord(c)])
        BY <4>5 DEF RecordSpace
      <4>. QED
        BY <3>2, <4>6 DEF Grown
    <3>. QED
      BY <3>1, <3>2
  <2>. HIDE DEF c, q, last
  <2>4. next \in Schedules
    BY <2>2, <2>3, NextGrows
  <2>. HIDE DEF next
  <2>5. next.interval \in Int /\ today \in Int
    BY <2>4, CardsAssumption DEF Schedules, CardsInv
  <2>6. y \in ReviewSpace /\ y.step # reviews[r].step
    BY <2>1, <2>2, <2>4, <2>5 DEF ReviewSpace
  <2>. HIDE DEF y
  <2>7. reviews' \in [Reviewers -> ReviewSpace] /\ reviews' # reviews
    BY <1>2, <2>1, <2>6
  <2>8. NoOrphans'
    BY <2>1 DEF CardsInv, NoOrphans, LiveCards
  <2>. QED
    BY <2>1, <2>7, <2>8 DEF CardsInv
<1>5. ASSUME SaveReview(r) PROVE CardsInv' /\ reviews' # reviews
  <2>. DEFINE review == reviews[r]
              record == [card |-> review.card, at |-> today, due |-> review.due,
                         ease |-> review.next.ease, interval |-> review.next.interval,
                         repetitions |-> review.next.repetitions]
  <2>1. /\ review.step = "scheduled" /\ reviews' = [reviews EXCEPT ![r] = Idle]
        /\ records' = IF review.card \in LiveCards THEN Append(records, record) ELSE records
        /\ UNCHANGED <<decks, cardDeck, today>>
    BY <1>5 DEF SaveReview
  <2>2. review.card \in Cards /\ review.next \in Schedules /\ review.due \in Int
    BY <1>1, <2>1 DEF ReviewSpace
  <2>. HIDE DEF review
  <2>3. today \in Int
    BY CardsAssumption DEF CardsInv
  <2>4. record \in RecordSpace /\ record.card = review.card
    BY <2>2, <2>3 DEF RecordSpace, Schedules, Grown
  <2>. HIDE DEF record
  <2>5. records \in Seq(RecordSpace) /\ LiveCards' = LiveCards
    BY <2>1 DEF CardsInv, LiveCards
  <2>6. /\ records' \in Seq(RecordSpace)
        /\ \A i \in DOMAIN records' : records'[i].card \in LiveCards
    <3>1. CASE review.card \in LiveCards
      <4>. DEFINE n == Len(records)
      <4>1. /\ records' \in Seq(RecordSpace) /\ DOMAIN records' = 1..(n + 1) /\ n \in Nat
            /\ DOMAIN records = 1..n
            /\ records'[n + 1] = record /\ \A i \in 1..n : records'[i] = records[i]
        BY <2>1, <2>4, <2>5, <3>1
      <4>2. 1..(n + 1) = 1..n \cup {n + 1}
        BY <4>1
      <4>. HIDE DEF n
      <4>. QED
        BY <2>4, <3>1, <4>1, <4>2 DEF CardsInv, NoOrphans
    <3>2. CASE review.card \notin LiveCards
      BY <2>1, <2>5, <3>2 DEF CardsInv, NoOrphans
    <3>. QED
      BY <3>1, <3>2
  <2>7. NoOrphans'
    BY <2>1, <2>5, <2>6 DEF CardsInv, NoOrphans
  <2>8. reviews' \in [Reviewers -> ReviewSpace] /\ reviews' # reviews
    BY <1>1, <1>2, <2>1 DEF review
  <2>. QED
    BY <2>1, <2>6, <2>7, <2>8 DEF CardsInv
<1>. QED
  BY <1>3, <1>4, <1>5

\* A cleanup keeps the latest record of every card.
LEMMA CleanupKeeps ==
    ASSUME CardsInv, CleanupOldReviewRecords
    PROVE  CardsInv'
<1>1. /\ records' \in Seq(RecordSpace)
      /\ \E at, hits : hits \in SUBSET DOMAIN records /\ Picks(records', records, at, hits)
  BY CleanupPicks
<1>2. PICK at, hits : hits \in SUBSET DOMAIN records /\ Picks(records', records, at, hits)
  BY <1>1
<1>3. \A i \in DOMAIN records' : \E j \in DOMAIN records : records'[i] = records[j]
  BY <1>2 DEF Picks
<1>4. UNCHANGED <<decks, cardDeck, reviews, today>>
  BY DEF CleanupOldReviewRecords
<1>5. NoOrphans'
  BY <1>3, <1>4 DEF CardsInv, NoOrphans, LiveCards
<1>. QED
  BY <1>1, <1>4, <1>5 DEF CardsInv

\* The latest record of a card stays while its reviews and its deck do.
LEMMA ScheduleStays ==
    ASSUME CardsInv, [CardsNext]_cardVars
    PROVE  CleanupKeepsSchedule
<1>. SUFFICES ASSUME NEW c \in Cards, reviews' = reviews, cardDeck' = cardDeck, RecordsOf(c) # {}
              PROVE  /\ RecordsOf(c)' # {}
                     /\ records[LatestRecord(c)] = (records[LatestRecord(c)])'
  BY DEF CleanupKeepsSchedule
<1>1. /\ LatestRecord(c) = Latest(records, c) /\ LatestRecord(c)' = Latest(records', c)
      /\ RecordsOf(c) = {j \in DOMAIN records : records[j].card = c}
      /\ RecordsOf(c)' = {j \in DOMAIN records' : records'[j].card = c}
  BY DEF LatestRecord, RecordsOf, Latest
<1>2. PICK i \in DOMAIN records : records[i].card = c
  BY <1>1
<1>3. records \in Seq(RecordSpace)
  BY DEF CardsInv
<1>4. CASE records' = records
  BY <1>1, <1>4
<1>5. CASE CleanupOldReviewRecords
  <2>1. /\ records' \in Seq(RecordSpace)
        /\ \E at, hits :
              /\ hits \in SUBSET DOMAIN records /\ Picks(records', records, at, hits)
              /\ \A k \in DOMAIN records : Latest(records, records[k].card) \in hits
    BY <1>5, CleanupPicks
  <2>2. PICK at, hits :
              /\ hits \in SUBSET DOMAIN records /\ Picks(records', records, at, hits)
              /\ \A k \in DOMAIN records : Latest(records, records[k].card) \in hits
    BY <2>1
  <2>3. Latest(records, c) \in hits
    BY <1>2, <2>2
  <2>. QED
    BY <1>1, <1>2, <1>3, <2>1, <2>2, <2>3, LatestPicked
<1>6. ASSUME NEW x \in Cards, CreateFlashcard(x) \/ DeleteFlashcard(x) PROVE FALSE
  <2>1. cardDeck'[x] = cardDeck[x]
    OBVIOUS
  <2>2. cardDeck \in [Cards -> Decks \cup {Never, "deleted"}] /\ decks \subseteq Decks
    BY DEF CardsInv
  <2>3. CASE CreateFlashcard(x)
    BY <2>1, <2>2, <2>3, DecksAssumption DEF CreateFlashcard
  <2>4. CASE DeleteFlashcard(x)
    BY <2>1, <2>2, <2>4, DecksAssumption DEF DeleteFlashcard, LiveCards
  <2>. QED
    BY <1>6, <2>3, <2>4
<1>7. ASSUME NEW deck \in Decks, DeleteDeck(deck)
      PROVE  /\ RecordsOf(c)' # {}
             /\ records[LatestRecord(c)] = (records[LatestRecord(c)])'
  <2>. DEFINE gone == {x \in Cards : cardDeck[x] = deck}
              hits == {k \in DOMAIN records : records[k].card \in Cards \ gone}
  <2>1. /\ cardDeck' = [x \in Cards |-> IF x \in gone THEN "deleted" ELSE cardDeck[x]]
        /\ records' = KeepRecordsOf(Cards \ gone)
    BY <1>7 DEF DeleteDeck
  <2>2. gone = {}
    BY <2>1, DecksAssumption
  <2>3. \A k \in DOMAIN records : records[k].card \in Cards
    BY DEF CardsInv, NoOrphans, LiveCards
  <2>. HIDE DEF gone
  <2>4. Latest(records, c) \in DOMAIN records
    BY <1>2, <1>3, LatestThere
  <2>5. Latest(records, c) \in hits /\ hits \in SUBSET DOMAIN records
    BY <2>2, <2>3, <2>4
  <2>6. records' \in Seq(RecordSpace) /\ \E at : Picks(records', records, at, hits)
    BY <1>3, <2>1, RecordsPicked
  <2>. HIDE DEF hits
  <2>. QED
    BY <1>1, <1>2, <1>3, <2>5, <2>6, LatestPicked
<1>8. ASSUME NEW r \in Reviewers, StartReview(r) \/ ScheduleReview(r) \/ SaveReview(r) PROVE FALSE
  BY <1>8, ReviewKeeps
<1>9. CASE NextDay
  BY <1>4, <1>9 DEF NextDay
<1>10. CASE UNCHANGED cardVars
  BY <1>4, <1>10 DEF cardVars
<1>. QED
  BY <1>5, <1>6, <1>7, <1>8, <1>9, <1>10 DEF CardsNext

\* Every step keeps records with their cards and schedules grown.
LEMMA CardsKeep ==
    ASSUME CardsInv, [CardsNext]_cardVars
    PROVE  CardsInv' /\ CleanupKeepsSchedule
<1>1. ASSUME UNCHANGED cardVars PROVE CardsInv'
  BY <1>1 DEF cardVars, CardsInv, NoOrphans, LiveCards
<1>2. ASSUME NextDay PROVE CardsInv'
  <2>1. UNCHANGED <<decks, cardDeck, records, reviews>> /\ today' \in 0..LastDay
    BY <1>2, CardsAssumption DEF NextDay, CardsInv
  <2>. QED
    BY <2>1 DEF CardsInv, NoOrphans, LiveCards
<1>. QED
  BY <1>1, <1>2, CreateCardKeeps, DeleteCardKeeps, DeleteDeckKeeps, ReviewKeeps, CleanupKeeps,
     ScheduleStays DEF CardsNext

\* Schedules within the bounds of SM-2, and statistics within the deck.
LEMMA CardsAnswer ==
    ASSUME CardsInv
    PROVE  CardsTypeOK /\ NoOrphans /\ ScheduleGrows /\ StatsAddUp
<1>1. \A i \in DOMAIN records : Grown(records[i]) /\ records[i].card \in Cards
  BY DEF CardsInv, RecordSpace
<1>2. CardsTypeOK
  <2>1. \A r \in Reviewers : reviews[r].step \in {"idle", "found", "scheduled"}
    BY DEF CardsInv, ReviewSpace, Idle
  <2>. QED
    BY <1>1, <2>1 DEF CardsTypeOK, CardsInv
<1>3. ScheduleGrows
  BY <1>1 DEF ScheduleGrows, Grown
<1>4. StatsAddUp
  <2>. SUFFICES ASSUME NEW deck \in decks
                PROVE  /\ ReviewStats(deck).reviewed <= ReviewStats(deck).total
                       /\ \A c \in DueCards(deck) \cap ReviewedToday(deck) :
                             \A i \in RecordsOf(c) :
                                records[i].at = today => records[i].due <= records[i].at
    BY DEF StatsAddUp
  <2>. DEFINE all == {c \in Cards : cardDeck[c] = deck}
              seen == ReviewedToday(deck)
  <2>1. IsFiniteSet(all)
    BY DecksAssumption, FS_Subset
  <2>2. seen \subseteq all
    BY <1>1 DEF ReviewedToday
  <2>3. ReviewStats(deck).reviewed = Cardinality(seen) /\ ReviewStats(deck).total = Cardinality(all)
    BY DEF ReviewStats
  <2>. HIDE DEF all, seen
  <2>4. Cardinality(seen) <= Cardinality(all)
    BY <2>1, <2>2, FS_Subset
  <2>5. \A c \in DueCards(deck) : \A i \in RecordsOf(c) :
            records[i].at = today => records[i].due <= records[i].at
    BY DEF DueCards
  <2>. QED
    BY <2>3, <2>4, <2>5
<1>. QED
  BY <1>2, <1>3, <1>4 DEF CardsInv

-----------------------------------------------------------------------------
(* The canvas *)

NodeSpace == [id : CanvasNodes, x : Places, width : Widths]
ArrowSpace == [from : CanvasNodes, to : CanvasNodes]

DrawnOnce(d) == \A i, j \in DOMAIN d : d[i].id = d[j].id => i = j

CanvasInv ==
    /\ drawing \in Seq(NodeSpace) /\ DrawnOnce(drawing)
    /\ arrows \in Seq(ArrowSpace) /\ Len(arrows) <= MaxEdges

\* What a node has.
LEMMA NodeFields ==
    ASSUME NEW d \in NodeSpace
    PROVE  d.id \in CanvasNodes /\ d.x \in Places /\ d.width \in Widths
BY DEF NodeSpace

\* An empty canvas is sound.
LEMMA CanvasStart == CanvasInit => CanvasInv
<1>1. \A S : << >> \in Seq(S) /\ Len(<< >>) = 0 /\ DOMAIN << >> = {}
  OBVIOUS
<1>. QED
  BY <1>1, CanvasAssumption DEF CanvasInit, CanvasInv, DrawnOnce

\* A node gets other values, and keeps its id.
LEMMA Redrawn ==
    ASSUME CanvasInv, NEW d, NEW m \in SUBSET DOMAIN drawing,
           DOMAIN d = DOMAIN drawing, d = [i \in DOMAIN drawing |-> d[i]],
           \A i \in DOMAIN drawing : d[i] \in NodeSpace /\ d[i].id = drawing[i].id
    PROVE  d \in Seq(NodeSpace) /\ DrawnOnce(d)
<1>1. Len(drawing) \in Nat /\ DOMAIN drawing = 1..Len(drawing)
  BY DEF CanvasInv
<1>2. d \in [1..Len(drawing) -> NodeSpace]
  BY <1>1
<1>3. d \in Seq(NodeSpace)
  BY <1>1, <1>2
<1>. QED
  BY <1>3 DEF DrawnOnce, CanvasInv

\* A new node has an id of its own.
LEMMA AddNodeKeeps ==
    ASSUME CanvasInv, NEW n \in CanvasNodes, AddCanvasNode(n) PROVE CanvasInv'
<1>1. PICK x \in Places, w \in Widths :
         /\ n \notin DrawnIds
         /\ drawing' = Append(drawing, [id |-> n, x |-> x, width |-> w])
         /\ UNCHANGED arrows
  BY DEF AddCanvasNode
<1>. DEFINE new == [id |-> n, x |-> x, width |-> w]
            m == Len(drawing)
<1>2. new \in NodeSpace /\ new.id = n
  BY DEF NodeSpace
<1>. HIDE DEF new
<1>3. drawing \in Seq(NodeSpace) /\ drawing' = Append(drawing, new) /\ DrawnOnce(drawing)
  BY <1>1 DEF CanvasInv, new
<1>4. /\ m \in Nat /\ DOMAIN drawing = 1..m
      /\ drawing' \in Seq(NodeSpace) /\ DOMAIN drawing' = 1..(m + 1)
      /\ \A i \in 1..m : drawing'[i] = drawing[i]
      /\ drawing'[m + 1] = new
  BY <1>2, <1>3
<1>. HIDE DEF m
<1>5. \A i \in 1..m : drawing'[i].id # n
  BY <1>1, <1>4 DEF DrawnIds
<1>6. \A i \in 1..(m + 1) : i \in 1..m \/ i = m + 1
  BY <1>4
<1>7. DrawnOnce(drawing')
  BY <1>2, <1>3, <1>4, <1>5, <1>6 DEF DrawnOnce
<1>. QED
  BY <1>1, <1>4, <1>7 DEF CanvasInv

\* The index of an id is of a node with it.
LEMMA DrawnIndex ==
    ASSUME NEW n \in DrawnIds
    PROVE  IndexOfNode(n) \in DOMAIN drawing /\ drawing[IndexOfNode(n)].id = n
BY DEF DrawnIds, IndexOfNode

\* Moving and resizing keep the ids.
LEMMA MoveNodeKeeps ==
    ASSUME CanvasInv, NEW n, MoveCanvasNode(n) \/ ResizeCanvasNode(n) PROVE CanvasInv'
<1>. DEFINE k == IndexOfNode(n)
<1>1. drawing \in Seq(NodeSpace)
  BY DEF CanvasInv
<1>2. n \in DrawnIds /\ arrows' = arrows
  BY DEF MoveCanvasNode, ResizeCanvasNode
<1>3. k \in DOMAIN drawing
  BY <1>2, DrawnIndex
<1>4. \E y \in NodeSpace : drawing' = [drawing EXCEPT ![k] = y] /\ y.id = drawing[k].id
  <2>1. drawing[k] \in NodeSpace
    BY <1>1, <1>3
  <2>2. CASE MoveCanvasNode(n)
    <3>1. PICK x \in Places : drawing' = [drawing EXCEPT ![k].x = x]
      BY <2>2 DEF MoveCanvasNode
    <3>. DEFINE y == [drawing[k] EXCEPT !.x = x]
    <3>2. y \in NodeSpace /\ y.id = drawing[k].id
      BY <2>1 DEF NodeSpace
    <3>. QED
      BY <3>1, <3>2
  <2>3. CASE ResizeCanvasNode(n)
    <3>1. PICK w \in Widths : drawing' = [drawing EXCEPT ![k].width = w]
      BY <2>3 DEF ResizeCanvasNode
    <3>. DEFINE y == [drawing[k] EXCEPT !.width = w]
    <3>2. y \in NodeSpace /\ y.id = drawing[k].id
      BY <2>1 DEF NodeSpace
    <3>. QED
      BY <3>1, <3>2
  <2>. QED
    BY <2>2, <2>3
<1>5. PICK y \in NodeSpace : drawing' = [drawing EXCEPT ![k] = y] /\ y.id = drawing[k].id
  BY <1>4
<1>. HIDE DEF k
<1>6. /\ DOMAIN drawing' = DOMAIN drawing
      /\ drawing' = [i \in DOMAIN drawing |-> drawing'[i]]
      /\ \A i \in DOMAIN drawing : drawing'[i] \in NodeSpace /\ drawing'[i].id = drawing[i].id
  <2>1. /\ DOMAIN drawing' = DOMAIN drawing
        /\ \A i \in DOMAIN drawing : drawing'[i] = IF i = k THEN y ELSE drawing[i]
    BY <1>5
  <2>2. drawing' = [i \in DOMAIN drawing |-> drawing'[i]]
    BY <1>5
  <2>3. \A i \in DOMAIN drawing : drawing[i] \in NodeSpace
    BY <1>1
  <2>. QED
    BY <1>5, <2>1, <2>2, <2>3
<1>7. drawing' \in Seq(NodeSpace) /\ DrawnOnce(drawing')
  BY <1>6, Redrawn
<1>. QED
  BY <1>2, <1>7 DEF CanvasInv

\* Removing leaves nodes and edges there were.
LEMMA RemoveNodeKeeps ==
    ASSUME CanvasInv, NEW n, RemoveCanvasNode(n) PROVE CanvasInv'
<1>. DEFINE left == {i \in DOMAIN drawing : drawing[i].id # n}
            rest == {i \in DOMAIN arrows : arrows[i].from # n /\ arrows[i].to # n}
<1>1. drawing \in Seq(NodeSpace) /\ DrawnOnce(drawing)
      /\ arrows \in Seq(ArrowSpace) /\ Len(arrows) <= MaxEdges
  BY DEF CanvasInv
<1>2. /\ drawing' = [m \in 1..Cardinality(left) |->
            drawing[CHOOSE i \in left : Cardinality({j \in left : j <= i}) = m]]
      /\ arrows' = [m \in 1..Cardinality(rest) |->
            arrows[CHOOSE i \in rest : Cardinality({j \in rest : j <= i}) = m]]
  BY DEF RemoveCanvasNode, Kept
<1>3. left \in SUBSET DOMAIN drawing /\ rest \in SUBSET DOMAIN arrows
  OBVIOUS
<1>. HIDE DEF left, rest
<1>4. Filters(drawing', drawing, left) /\ Filters(arrows', arrows, rest)
  BY <1>2 DEF Filters
<1>5. drawing' \in Seq(NodeSpace) /\ \E at : Picks(drawing', drawing, at, left)
  BY <1>1, <1>3, <1>4, FilterPicks
<1>6. arrows' \in Seq(ArrowSpace) /\ Len(arrows') = Cardinality(rest)
  BY <1>1, <1>3, <1>4, FilterPicks
<1>7. PICK at : Picks(drawing', drawing, at, left)
  BY <1>5
<1>8. DrawnOnce(drawing')
  <2>. SUFFICES ASSUME NEW i \in DOMAIN drawing', NEW j \in DOMAIN drawing',
                       drawing'[i].id = drawing'[j].id
                PROVE  i = j
    BY DEF DrawnOnce
  <2>1. at[i] = at[j]
    BY <1>1, <1>3, <1>7 DEF Picks, DrawnOnce
  <2>2. i \in Nat /\ j \in Nat /\ at[i] \in Nat /\ ~(i < j) /\ ~(j < i)
    <3>1. \A k \in DOMAIN drawing' : k \in Nat /\ at[k] \in Nat
      <4>1. DOMAIN drawing \subseteq Nat /\ DOMAIN drawing' \subseteq Nat
        BY <1>1, <1>5
      <4>2. \A k \in DOMAIN drawing' : at[k] \in left
        BY <1>7 DEF Picks
      <4>. QED
        BY <1>3, <4>1, <4>2
    <3>. QED
      BY <1>7, <2>1, <3>1 DEF Picks
  <2>. QED
    BY <2>2
<1>9. Cardinality(rest) <= Len(arrows)
  <2>1. /\ Len(arrows) \in Nat /\ DOMAIN arrows = 1..Len(arrows)
    BY <1>1
  <2>2. IsFiniteSet(1..Len(arrows)) /\ Cardinality(1..Len(arrows)) = Len(arrows)
    <3>1. Cardinality(1..Len(arrows)) = IF 1 > Len(arrows) THEN 0 ELSE Len(arrows) - 1 + 1
      BY <2>1, FS_Interval
    <3>. QED
      BY <2>1, <3>1, FS_Interval
  <2>. QED
    BY <1>3, <2>1, <2>2, FS_Subset
<1>10. Len(arrows') <= MaxEdges
  <2>1. Cardinality(rest) \in Nat
    <3>1. Len(arrows) \in Nat /\ DOMAIN arrows = 1..Len(arrows)
      BY <1>1
    <3>. QED
      BY <1>3, <3>1, CountIn
  <2>. QED
    BY <1>1, <1>6, <1>9, <2>1, CanvasAssumption
<1>. QED
  BY <1>5, <1>6, <1>8, <1>10 DEF CanvasInv

\* Edges come up to the bound, and go.
LEMMA EdgesKeep ==
    ASSUME CanvasInv, AddCanvasEdge \/ RemoveCanvasEdge PROVE CanvasInv'
<1>1. drawing' = drawing
  BY DEF AddCanvasEdge, RemoveCanvasEdge
<1>2. arrows' \in Seq(ArrowSpace) /\ Len(arrows') <= MaxEdges
  <2>1. CASE AddCanvasEdge
    <3>1. PICK from \in CanvasNodes, to \in CanvasNodes :
             Len(arrows) < MaxEdges /\ arrows' = Append(arrows, [from |-> from, to |-> to])
      BY <2>1 DEF AddCanvasEdge
    <3>. DEFINE new == [from |-> from, to |-> to]
    <3>2. new \in ArrowSpace
      BY DEF ArrowSpace
    <3>. HIDE DEF new
    <3>. QED
      BY <3>1, <3>2, CanvasAssumption DEF new, CanvasInv
  <2>2. CASE RemoveCanvasEdge
    <3>1. PICK i \in DOMAIN arrows : arrows' = RemoveAt(arrows, i)
      BY <2>2 DEF RemoveCanvasEdge
    <3>. DEFINE n == Len(arrows)
                before == SubSeq(arrows, 1, i - 1)
                after == SubSeq(arrows, i + 1, n)
    <3>2. arrows \in Seq(ArrowSpace) /\ n \in Nat /\ i \in 1..n /\ n <= MaxEdges
      BY DEF CanvasInv
    <3>3. before \in Seq(ArrowSpace) /\ Len(before) = i - 1
      BY <3>2
    <3>4. after \in Seq(ArrowSpace) /\ Len(after) = n - i
      BY <3>2
    <3>5. arrows' = before \o after
      BY <3>1 DEF RemoveAt
    <3>. HIDE DEF n, before, after
    <3>. QED
      BY <3>2, <3>3, <3>4, <3>5, CanvasAssumption
  <2>. QED
    BY <2>1, <2>2
<1>. QED
  BY <1>1, <1>2 DEF CanvasInv

\* A layout keeps the ids of the nodes.
LEMMA PlacesKeep ==
    ASSUME CanvasInv, NEW places, PlaceNodes(places) PROVE CanvasInv'
<1>1. /\ \A i \in DOMAIN places : places[i] \in Places
      /\ arrows' = arrows /\ drawing \in Seq(NodeSpace)
  BY DEF PlaceNodes, CanvasInv
<1>. DEFINE Placed(i) == IF i \in DOMAIN places THEN [drawing[i] EXCEPT !.x = places[i]]
                         ELSE drawing[i]
<1>2. drawing' = [i \in DOMAIN drawing |-> Placed(i)]
  BY DEF PlaceNodes
<1>3. \A i \in DOMAIN drawing : Placed(i) \in NodeSpace /\ Placed(i).id = drawing[i].id
  <2>. SUFFICES ASSUME NEW i \in DOMAIN drawing
                PROVE  Placed(i) \in NodeSpace /\ Placed(i).id = drawing[i].id
    OBVIOUS
  <2>1. drawing[i] \in NodeSpace
    BY <1>1
  <2>2. CASE i \in DOMAIN places
    <3>1. [drawing[i] EXCEPT !.x = places[i]] \in NodeSpace
          /\ [drawing[i] EXCEPT !.x = places[i]].id = drawing[i].id
      BY <1>1, <2>1, <2>2 DEF NodeSpace
    <3>. QED
      BY <2>2, <3>1
  <2>. QED
    BY <2>1, <2>2
<1>. HIDE DEF Placed
<1>4. /\ DOMAIN drawing' = DOMAIN drawing
      /\ drawing' = [i \in DOMAIN drawing |-> drawing'[i]]
      /\ \A i \in DOMAIN drawing : drawing'[i] \in NodeSpace /\ drawing'[i].id = drawing[i].id
  BY <1>2, <1>3
<1>5. drawing' \in Seq(NodeSpace) /\ DrawnOnce(drawing')
  BY <1>4, Redrawn
<1>. QED
  BY <1>1, <1>5 DEF CanvasInv

\* Every call keeps nodes apart by their ids.
LEMMA CanvasKeeps ==
    ASSUME CanvasInv, [CanvasNext]_canvasVars
    PROVE  CanvasInv'
<1>1. ASSUME NEW n \in CanvasNodes, AddCanvasNode(n) PROVE CanvasInv'
  BY <1>1, AddNodeKeeps
<1>2. ASSUME NEW n \in CanvasNodes, MoveCanvasNode(n) \/ ResizeCanvasNode(n) PROVE CanvasInv'
  BY <1>2, MoveNodeKeeps
<1>3. ASSUME NEW n \in CanvasNodes, RemoveCanvasNode(n) PROVE CanvasInv'
  BY <1>3, RemoveNodeKeeps
<1>4. ASSUME AddCanvasEdge \/ RemoveCanvasEdge PROVE CanvasInv'
  BY <1>4, EdgesKeep
<1>5. ASSUME \E places : PlaceNodes(places) PROVE CanvasInv'
  BY <1>5, PlacesKeep
<1>6. DistributeNodes \/ AlignNodes => \E places : PlaceNodes(places)
  BY DEF DistributeNodes, AlignNodes
<1>7. ASSUME UNCHANGED canvasVars PROVE CanvasInv'
  BY <1>7 DEF canvasVars, CanvasInv, DrawnOnce
<1>. QED
  BY <1>1, <1>2, <1>3, <1>4, <1>5, <1>6, <1>7 DEF CanvasNext

\* Nodes have places and widths of the canvas.
LEMMA CanvasTyped == ASSUME CanvasInv PROVE CanvasTypeOK
<1>1. \A i \in DOMAIN drawing : drawing[i].x \in Places /\ drawing[i].width \in Widths
  BY NodeFields DEF CanvasInv
<1>. QED
  BY <1>1 DEF CanvasInv, CanvasTypeOK, DrawnOnce

-----------------------------------------------------------------------------
(* The canvas: the grid *)

\* The number of columns is the square root, rounded up.
LEMMA ColumnsFound ==
    ASSUME NEW n \in Nat \ {0}
    PROVE  \E c \in 1..n : c * c >= n /\ (c - 1) * (c - 1) < n
<1>. DEFINE T == {c \in 1..n : c * c >= n}
<1>1. n \in T
  <2>1. n * n >= n
    OBVIOUS
  <2>. QED
    BY <2>1
<1>2. T \subseteq Nat /\ T # {}
  <2>1. \A x \in T : x \in 1..n
    OBVIOUS
  <2>. HIDE DEF T
  <2>. QED
    BY <1>1, <2>1
<1>3. PICK c \in T : \A d \in T : c <= d
  <2>. HIDE DEF T
  <2>. QED
    BY <1>2, Orders!LeastNumber
<1>4. c \in 1..n /\ c * c >= n /\ c - 1 \notin T
  BY <1>3
<1>5. CASE c = 1
  BY <1>4, <1>5
<1>6. CASE c > 1
  <2>1. c - 1 \in 1..n
    BY <1>4, <1>6
  <2>2. ~((c - 1) * (c - 1) >= n)
    BY <1>4, <2>1
  <2>. DEFINE q == (c - 1) * (c - 1)
  <2>3. q \in Int
    BY <2>1
  <2>4. q < n
    <3>. HIDE DEF q
    <3>. QED
      BY <2>2, <2>3 DEF q
  <2>. QED
    BY <1>4, <2>4
<1>. QED
  BY <1>4, <1>5, <1>6

\* The quotient and the rest tell what was divided.
LEMMA DivisionTells ==
    ASSUME NEW a \in Nat, NEW c \in Nat \ {0}
    PROVE  /\ a \div c \in Nat /\ a % c \in 0..(c - 1)
           /\ a = c * (a \div c) + (a % c)
  OBVIOUS

\* Squares grow with their roots.
LEMMA SquareGrows ==
    ASSUME NEW a \in Nat, NEW b \in Nat, a <= b
    PROVE  a * a <= b * b
OBVIOUS

\* Nodes of the grid have places of their own within the square.
LEMMA GridApart == ASSUME CanvasInv PROVE GridDistinct
<1>. DEFINE n == Len(drawing)
<1>1. n \in Nat /\ DOMAIN drawing = 1..n
  BY DEF CanvasInv
<1>. SUFFICES ASSUME NEW i \in 1..n, NEW j \in 1..n
              PROVE  /\ GridPlace(i) = GridPlace(j) => i = j
                     /\ GridPlace(i)[1] * GridPlace(i)[1] < n
                     /\ GridPlace(i)[2] * GridPlace(i)[2] < n
  BY <1>1 DEF GridDistinct
<1>. DEFINE c == CHOOSE c \in 1..n : c * c >= n /\ (c - 1) * (c - 1) < n
<1>2. /\ GridPlace(i) = <<(i - 1) % c, (i - 1) \div c>>
      /\ GridPlace(j) = <<(j - 1) % c, (j - 1) \div c>>
  BY DEF GridPlace
<1>. HIDE DEF n
<1>3. c \in 1..n /\ c * c >= n /\ (c - 1) * (c - 1) < n
  <2>1. n \in Nat \ {0}
    BY <1>1
  <2>2. \E d \in 1..n : d * d >= n /\ (d - 1) * (d - 1) < n
    BY <2>1, ColumnsFound
  <2>. QED
    BY <2>2
<1>. HIDE DEF c
<1>. DEFINE a == i - 1
            b == j - 1
<1>4. a \in Nat /\ b \in Nat /\ c \in Nat \ {0} /\ a < n /\ i = a + 1 /\ j = b + 1
      /\ c - 1 \in Nat
  BY <1>1, <1>3
<1>. HIDE DEF a, b
<1>. DEFINE q == a \div c
            r == a % c
            p == b \div c
            s == b % c
<1>5. /\ q \in Nat /\ r \in 0..(c - 1) /\ a = c * q + r
      /\ p \in Nat /\ s \in 0..(c - 1) /\ b = c * p + s
  BY <1>4, DivisionTells
<1>6. GridPlace(i) = <<r, q>> /\ GridPlace(j) = <<s, p>>
  BY <1>2 DEF a, b
<1>. HIDE DEF q, r, p, s
<1>7. GridPlace(i) = GridPlace(j) => i = j
  <2>. SUFFICES ASSUME GridPlace(i) = GridPlace(j) PROVE i = j
    OBVIOUS
  <2>1. r = s /\ q = p
    <3>1. /\ <<r, q>>[1] = r /\ <<r, q>>[2] = q
          /\ <<s, p>>[1] = s /\ <<s, p>>[2] = p
      OBVIOUS
    <3>. QED
      BY <1>6, <3>1
  <2>. QED
    BY <1>4, <1>5, <2>1
<1>8. r * r <= (c - 1) * (c - 1)
  <2>1. r \in Nat /\ r <= c - 1
    BY <1>4, <1>5
  <2>. QED
    BY <1>4, <2>1, SquareGrows
<1>9. q * q <= (c - 1) * (c - 1)
  <2>1. q <= c - 1
    <3>. SUFFICES ASSUME q >= c PROVE FALSE
      BY <1>4, <1>5
    <3>1. c * q >= c * c
      BY <1>4, <1>5
    <3>. QED
      BY <1>1, <1>3, <1>4, <1>5, <3>1
  <2>. QED
    BY <1>4, <1>5, <2>1, SquareGrows
<1>10. /\ r * r \in Int /\ q * q \in Int /\ (c - 1) * (c - 1) \in Int
       /\ GridPlace(i)[1] = r /\ GridPlace(i)[2] = q
  BY <1>4, <1>5, <1>6
<1>. QED
  BY <1>1, <1>3, <1>7, <1>8, <1>9, <1>10

-----------------------------------------------------------------------------
(* The tantivy index *)

DocSpace ==
    [note : SearchNotes, words : SUBSET Words,
     folder : SearchFolders \cup {NoSearchFolder}, tags : SUBSET SearchTags]

OpSpace ==
    {DeleteTerm(n) : n \in SearchNotes} \cup {AddDocument(doc) : doc \in DocSpace}

About(o) == IF o.op = "add" THEN o.doc.note ELSE o.note

Found(docs) == {docs[i] : i \in DOMAIN docs}

OncePerNote(docs) == \A i, j \in DOMAIN docs : docs[i].note = docs[j].note => i = j

\* Each addition comes right after the deletion of its note.
Paired(ops) ==
    \A i \in DOMAIN ops : ops[i].op = "add" =>
        i - 1 \in DOMAIN ops /\ ops[i - 1] = DeleteTerm(ops[i].doc.note)

\* What a failed call left concerns notes of which nothing is promised.
TantivyInv ==
    /\ committed \in Seq(DocSpace) /\ OncePerNote(committed)
    /\ queued \in Seq(OpSpace) /\ Paired(queued)
    /\ \A i \in DOMAIN queued : promised[About(queued[i])] = Unknown
    /\ promised = [n \in SearchNotes |-> promised[n]]
    /\ \A n \in SearchNotes :
          \/ promised[n] = Unknown
          \/ promised[n] = NotIndexed /\ \A x \in Found(committed) : x.note # n
          \/ /\ promised[n] \in DocSpace /\ promised[n].note = n
             /\ promised[n] \in Found(committed)

\* An empty index has an empty queue.
LEMMA TantivyStart == TantivyInit => TantivyInv
BY DEF TantivyInit, TantivyInv, OncePerNote, Paired, Found

\* Documents, removals and unknown answers are told apart.
LEMMA DocsDiffer ==
    ASSUME NEW doc \in DocSpace
    PROVE  doc # Unknown /\ doc # NotIndexed /\ NotIndexed # Unknown
<1>1. /\ DOMAIN doc = {"note", "words", "folder", "tags"}
      /\ DOMAIN Unknown = {"unknown"} /\ DOMAIN NotIndexed = {"none"}
  BY DEF DocSpace, Unknown, NotIndexed
<1>. QED
  BY <1>1

\* The two kinds of queued operations.
LEMMA OpFields ==
    ASSUME NEW o \in OpSpace
    PROVE  \/ /\ o.op = "delete" /\ o.note \in SearchNotes /\ o = DeleteTerm(o.note)
              /\ About(o) = o.note
           \/ /\ o.op = "add" /\ o.doc \in DocSpace /\ o = AddDocument(o.doc)
              /\ About(o) = o.doc.note /\ o.doc.note \in SearchNotes
<1>1. ASSUME NEW n \in SearchNotes
      PROVE  DeleteTerm(n).op = "delete" /\ DeleteTerm(n).note = n
  BY DEF DeleteTerm
<1>2. ASSUME NEW doc \in DocSpace
      PROVE  AddDocument(doc).op = "add" /\ AddDocument(doc).doc = doc
             /\ doc.note \in SearchNotes
  BY DEF AddDocument, DocSpace
<1>. QED
  BY <1>1, <1>2 DEF OpSpace, About

-----------------------------------------------------------------------------
(* The tantivy index: one operation *)

\* A deletion leaves the documents of the other notes.
LEMMA DeleteApplied ==
    ASSUME NEW docs \in Seq(DocSpace), OncePerNote(docs), NEW o, o.op = "delete"
    PROVE  /\ WithOperation(docs, o) \in Seq(DocSpace)
           /\ OncePerNote(WithOperation(docs, o))
           /\ Found(WithOperation(docs, o)) = {x \in Found(docs) : x.note # o.note}
<1>. DEFINE hits == {i \in DOMAIN docs : docs[i].note # o.note}
            t == WithOperation(docs, o)
<1>1. hits \in SUBSET DOMAIN docs
  OBVIOUS
<1>2. Filters(t, docs, hits)
  <2>1. t = Kept(docs, LAMBDA doc : doc.note # o.note)
    BY DEF WithOperation
  <2>2. t = [n \in 1..Cardinality(hits) |->
               docs[CHOOSE i \in hits : Cardinality({j \in hits : j <= i}) = n]]
    BY <2>1 DEF Kept
  <2>. HIDE DEF t, hits
  <2>. QED
    BY <2>2 DEF Filters
<1>. HIDE DEF t, hits
<1>3. t \in Seq(DocSpace) /\ \E at : Picks(t, docs, at, hits)
  BY <1>1, <1>2, FilterPicks
<1>4. PICK at : Picks(t, docs, at, hits)
  BY <1>3
<1>5. DOMAIN t \subseteq Nat /\ hits \subseteq Nat
  BY <1>1, <1>3
<1>6. OncePerNote(t)
  <2>1. ASSUME NEW m \in DOMAIN t, NEW l \in DOMAIN t, m # l PROVE at[m] # at[l]
    <3>1. at[m] \in Nat /\ at[l] \in Nat /\ m \in Nat /\ l \in Nat
      BY <1>4, <1>5 DEF Picks
    <3>2. CASE m < l
      BY <1>4, <3>1, <3>2 DEF Picks
    <3>3. CASE l < m
      BY <1>4, <3>1, <3>3 DEF Picks
    <3>. QED
      BY <2>1, <3>1, <3>2, <3>3
  <2>. QED
    BY <1>1, <1>4, <2>1 DEF Picks, OncePerNote
<1>7. Found(t) = {x \in Found(docs) : x.note # o.note}
  BY <1>4 DEF Picks, Found, hits
<1>. QED
  BY <1>3, <1>6, <1>7 DEF t

\* An addition to an index without documents of the note.
LEMMA AddApplied ==
    ASSUME NEW docs \in Seq(DocSpace), OncePerNote(docs), NEW o, o.op = "add",
           o.doc \in DocSpace, \A x \in Found(docs) : x.note # o.doc.note
    PROVE  /\ WithOperation(docs, o) \in Seq(DocSpace)
           /\ OncePerNote(WithOperation(docs, o))
           /\ Found(WithOperation(docs, o)) = Found(docs) \cup {o.doc}
<1>. DEFINE t == Append(docs, o.doc)
            n == Len(docs)
<1>1. WithOperation(docs, o) = t
  BY DEF WithOperation
<1>2. /\ t \in Seq(DocSpace) /\ DOMAIN t = 1..(n + 1) /\ DOMAIN docs = 1..n /\ n \in Nat
      /\ \A i \in 1..n : t[i] = docs[i]
      /\ t[n + 1] = o.doc
  OBVIOUS
<1>. HIDE DEF t, n
<1>3. 1..(n + 1) = 1..n \cup {n + 1} /\ n + 1 \notin 1..n
  BY <1>2
<1>4. OncePerNote(t)
  BY <1>2, <1>3 DEF OncePerNote, Found
<1>5. Found(t) = Found(docs) \cup {o.doc}
  BY <1>2, <1>3 DEF Found
<1>. QED
  BY <1>1, <1>2, <1>4, <1>5

-----------------------------------------------------------------------------
(* The tantivy index: the queue *)

\* A delete may join the queue.
LEMMA QueueDelete ==
    ASSUME NEW ops \in Seq(OpSpace), Paired(ops), NEW n \in SearchNotes
    PROVE  LET q == ops \o <<DeleteTerm(n)>>
           IN  /\ q \in Seq(OpSpace) /\ Paired(q) /\ Len(q) = Len(ops) + 1
               /\ q[Len(q)] = DeleteTerm(n)
               /\ \A i \in DOMAIN q : (i \in DOMAIN ops /\ q[i] = ops[i]) \/ q[i] = DeleteTerm(n)
<1>. DEFINE q == ops \o <<DeleteTerm(n)>>
            m == Len(ops)
            d == DeleteTerm(n)
<1>1. d \in OpSpace /\ d.op # "add"
  BY DEF OpSpace, DeleteTerm
<1>. HIDE DEF d
<1>2. /\ q \in Seq(OpSpace) /\ Len(q) = m + 1 /\ DOMAIN q = 1..(m + 1) /\ DOMAIN ops = 1..m
      /\ m \in Nat /\ q[m + 1] = d /\ \A i \in 1..m : q[i] = ops[i]
  BY <1>1 DEF d
<1>. HIDE DEF q, m
<1>3. Paired(q)
  <2>. SUFFICES ASSUME NEW i \in 1..(m + 1), q[i].op = "add"
                PROVE  i - 1 \in 1..(m + 1) /\ q[i - 1] = DeleteTerm(q[i].doc.note)
    BY <1>2 DEF Paired
  <2>1. i \in 1..m /\ q[i] = ops[i]
    BY <1>1, <1>2
  <2>2. i - 1 \in 1..m /\ ops[i - 1] = DeleteTerm(ops[i].doc.note)
    BY <1>2, <2>1 DEF Paired
  <2>. QED
    BY <1>2, <2>1, <2>2
<1>. QED
  BY <1>2, <1>3 DEF q, m, d

\* An add joins the queue after the delete of its note.
LEMMA QueueReplaced ==
    ASSUME NEW ops \in Seq(OpSpace), Paired(ops), NEW n \in SearchNotes,
           NEW doc \in DocSpace, doc.note = n
    PROVE  LET q == ops \o Replaced(n, doc)
           IN  /\ q \in Seq(OpSpace) /\ Paired(q) /\ Len(q) = Len(ops) + 2
               /\ q[Len(q)] = AddDocument(doc)
               /\ \A i \in DOMAIN q : \/ i \in DOMAIN ops /\ q[i] = ops[i]
                                      \/ q[i] = DeleteTerm(n)
                                      \/ q[i] = AddDocument(doc)
<1>. DEFINE q == ops \o Replaced(n, doc)
            m == Len(ops)
            d == DeleteTerm(n)
            a == AddDocument(doc)
<1>1. /\ d \in OpSpace /\ a \in OpSpace /\ d.op # "add" /\ a.doc.note = n
  BY DEF OpSpace, DeleteTerm, AddDocument
<1>2. Replaced(n, doc) = <<d, a>>
  BY DEF Replaced
<1>. HIDE DEF d, a
<1>3. /\ q \in Seq(OpSpace) /\ Len(q) = m + 2 /\ DOMAIN q = 1..(m + 2) /\ DOMAIN ops = 1..m
      /\ m \in Nat /\ q[m + 1] = d /\ q[m + 2] = a /\ \A i \in 1..m : q[i] = ops[i]
  BY <1>1, <1>2
<1>. HIDE DEF q, m
<1>4. 1..(m + 2) = 1..m \cup {m + 1, m + 2}
  BY <1>3
<1>5. Paired(q)
  <2>. SUFFICES ASSUME NEW i \in 1..(m + 2), q[i].op = "add"
                PROVE  i - 1 \in 1..(m + 2) /\ q[i - 1] = DeleteTerm(q[i].doc.note)
    BY <1>3 DEF Paired
  <2>1. CASE i \in 1..m
    <3>1. i - 1 \in 1..m /\ ops[i - 1] = DeleteTerm(ops[i].doc.note)
      BY <1>3, <2>1 DEF Paired
    <3>. QED
      BY <1>3, <2>1, <3>1
  <2>2. CASE i = m + 2
    <3>1. i - 1 = m + 1 /\ m + 1 \in 1..(m + 2)
      BY <1>3, <2>2
    <3>. QED
      BY <1>1, <1>3, <2>2, <3>1 DEF d
  <2>. QED
    BY <1>1, <1>3, <1>4, <2>1, <2>2
<1>. QED
  BY <1>3, <1>4, <1>5 DEF q, m, d, a

\* Of a queue a failed commit may leave the deletions only.
LEMMA QueueDeletions ==
    ASSUME NEW ops \in Seq(OpSpace)
    PROVE  LET q == Kept(ops, LAMBDA o : o.op = "delete")
           IN  /\ q \in Seq(OpSpace) /\ Paired(q)
               /\ \A i \in DOMAIN q : \E j \in DOMAIN ops : q[i] = ops[j]
<1>. DEFINE q == Kept(ops, LAMBDA o : o.op = "delete")
            hits == {i \in DOMAIN ops : ops[i].op = "delete"}
<1>1. hits \in SUBSET DOMAIN ops
  OBVIOUS
<1>2. q = [n \in 1..Cardinality(hits) |->
               ops[CHOOSE i \in hits : Cardinality({j \in hits : j <= i}) = n]]
  BY DEF Kept
<1>. HIDE DEF q
<1>3. \A i \in hits : ops[i].op # "add"
  OBVIOUS
<1>. HIDE DEF hits
<1>4. Filters(q, ops, hits)
  BY <1>2 DEF Filters
<1>5. q \in Seq(OpSpace) /\ \E at : Picks(q, ops, at, hits)
  BY <1>1, <1>4, FilterPicks
<1>6. PICK at : Picks(q, ops, at, hits)
  BY <1>5
<1>7. \A i \in DOMAIN q : at[i] \in hits /\ q[i] = ops[at[i]]
  BY <1>6 DEF Picks
<1>8. Paired(q)
  BY <1>3, <1>7 DEF Paired
<1>. QED
  BY <1>1, <1>5, <1>7, <1>8 DEF q

-----------------------------------------------------------------------------
(* The canvas: layers *)

\* Every arrow joins two nodes that are there.
WholeArrows == \A i \in DOMAIN arrows : {arrows[i].from, arrows[i].to} \subseteq DrawnIds

\* The arrows form no cycle.
RankedArrows == \E rank \in [CanvasNodes -> DOMAIN drawing] :
                   \A i \in DOMAIN arrows : rank[arrows[i].from] < rank[arrows[i].to]

ArrowsInto(n, senders) ==
    {i \in DOMAIN arrows : arrows[i].from \in senders /\ arrows[i].to = n}

FreeNodes(p) == {n \in p.remaining : p.degree[n] = 0}

TopLayer(p) == IF FreeNodes(p) = {} THEN p.remaining ELSE FreeNodes(p)

\* Each node is in one layer or remains, and every round takes one at least.
Layered(p, k) ==
    /\ p.remaining \in SUBSET DrawnIds /\ p.layers \in Seq(SUBSET DrawnIds)
    /\ \A n \in DrawnIds :
          n \in p.remaining <=> \A l \in DOMAIN p.layers : n \notin p.layers[l]
    /\ \A l, m \in DOMAIN p.layers : \A n \in DrawnIds :
          n \in p.layers[l] /\ n \in p.layers[m] => l = m
    /\ p.remaining = {} \/ Cardinality(p.remaining) <= Len(drawing) - k

\* The degree of a node counts the arrows into it from what remains.
Counted(p) ==
    \A n \in CanvasNodes : p.degree[n] = Cardinality(ArrowsInto(n, p.remaining))

\* An arrow into a layer comes from a layer above.
Descending(p) ==
    \A i \in DOMAIN arrows : arrows[i].to \notin p.remaining =>
        \E l, m \in DOMAIN p.layers :
            l < m /\ arrows[i].from \in p.layers[l] /\ arrows[i].to \in p.layers[m]

Layering(p, k, c) ==
    /\ Layered(p, k)
    /\ WholeArrows => Counted(p)
    /\ WholeArrows /\ RankedArrows => Descending(p)

LayerStep(p, e, w) == NextLayer(p)

LayersBase ==
    [remaining |-> DrawnIds, layers |-> << >>,
     degree |-> [n \in CanvasNodes |-> Cardinality({i \in DOMAIN arrows : arrows[i].to = n})]]

Layers == INSTANCE FoldInduction WITH Step <- LayerStep, Holds <- Layering

\* The layers are a fold, one round per node.
LEMMA LayersFold ==
    LayersOf = Layers!Fold(LayersBase, [i \in DOMAIN drawing |-> i], 0).layers
BY DEF LayersOf, LayersBase, LayerStep, Layers!Fold, FoldLeft, MapThenFoldSet,
       Layers!FoldLeft, Layers!MapThenFoldSet, Max, Layers!Max

\* There are no more ids than nodes, and only finitely many arrows.
LEMMA CanvasFinite ==
    ASSUME CanvasInv
    PROVE  /\ IsFiniteSet(DrawnIds) /\ Cardinality(DrawnIds) <= Len(drawing)
           /\ DrawnIds \subseteq CanvasNodes
           /\ \A T \in SUBSET DOMAIN arrows : IsFiniteSet(T) /\ Cardinality(T) \in Nat
           /\ \A i \in DOMAIN arrows :
                 arrows[i].from \in CanvasNodes /\ arrows[i].to \in CanvasNodes
<1>. DEFINE f == [i \in DOMAIN drawing |-> drawing[i].id]
<1>1. /\ drawing \in Seq(NodeSpace) /\ Len(drawing) \in Nat /\ DOMAIN drawing = 1..Len(drawing)
      /\ arrows \in Seq(ArrowSpace) /\ Len(arrows) \in Nat /\ DOMAIN arrows = 1..Len(arrows)
  BY DEF CanvasInv
<1>2. f \in Surjection(DOMAIN drawing, DrawnIds)
  BY DEF DrawnIds, Surjection
<1>3. IsFiniteSet(DOMAIN drawing) /\ Cardinality(DOMAIN drawing) = Len(drawing)
  <2>. DEFINE m == Len(drawing)
  <2>1. m \in Nat /\ DOMAIN drawing = 1..m
    BY <1>1
  <2>. HIDE DEF m
  <2>2. Cardinality(1..m) = IF 1 > m THEN 0 ELSE m - 1 + 1
    BY <2>1, FS_Interval
  <2>3. IsFiniteSet(1..m) /\ Cardinality(1..m) = m
    BY <2>1, <2>2, FS_Interval
  <2>. QED
    BY <2>1, <2>3 DEF m
<1>. HIDE DEF f
<1>4. IsFiniteSet(DrawnIds) /\ Cardinality(DrawnIds) <= Len(drawing)
  BY <1>2, <1>3, FS_Surjection
<1>5. DrawnIds \subseteq CanvasNodes
  <2>1. \A i \in DOMAIN drawing : drawing[i] \in NodeSpace
    BY <1>1
  <2>. QED
    BY <2>1, NodeFields DEF DrawnIds
<1>6. \A T \in SUBSET DOMAIN arrows : IsFiniteSet(T) /\ Cardinality(T) \in Nat
  BY <1>1, CountIn
<1>7. \A i \in DOMAIN arrows : arrows[i].from \in CanvasNodes /\ arrows[i].to \in CanvasNodes
  <2>1. \A i \in DOMAIN arrows : arrows[i] \in ArrowSpace
    BY <1>1
  <2>. QED
    BY <2>1 DEF ArrowSpace
<1>. QED
  BY <1>4, <1>5, <1>6, <1>7

\* Before the first round all nodes remain, with all arrows counted.
LEMMA LayersStart == ASSUME CanvasInv, NEW c PROVE Layering(LayersBase, 0, c)
<1>. DEFINE p == LayersBase
<1>1. /\ p.remaining = DrawnIds /\ p.layers = << >>
      /\ \A n \in CanvasNodes : p.degree[n] = Cardinality({i \in DOMAIN arrows : arrows[i].to = n})
  BY DEF LayersBase
<1>. HIDE DEF p
<1>2. << >> \in Seq(SUBSET DrawnIds) /\ DOMAIN << >> = {}
  OBVIOUS
<1>3. Cardinality(DrawnIds) <= Len(drawing) - 0
  <2>1. Len(drawing) \in Nat
    BY DEF CanvasInv
  <2>. QED
    BY <2>1, CanvasFinite
<1>4. Layered(p, 0)
  BY <1>1, <1>2, <1>3 DEF Layered
<1>5. ASSUME WholeArrows PROVE Counted(p)
  <2>1. \A n \in CanvasNodes : {i \in DOMAIN arrows : arrows[i].to = n} = ArrowsInto(n, DrawnIds)
    BY <1>5 DEF ArrowsInto, WholeArrows
  <2>. QED
    BY <1>1, <2>1 DEF Counted
<1>6. ASSUME WholeArrows PROVE Descending(p)
  BY <1>1, <1>6 DEF Descending, WholeArrows
<1>. QED
  BY <1>4, <1>5, <1>6 DEF Layering, p

\* A round takes nodes that remain, one at least.
LEMMA LayerTaken ==
    ASSUME NEW p, p.remaining # {}
    PROVE  TopLayer(p) \subseteq p.remaining /\ TopLayer(p) # {}
BY DEF TopLayer, FreeNodes

\* What a round makes of the rest, the layers and the degrees.
LEMMA LayerAdded ==
    ASSUME NEW p, p.remaining # {}
    PROVE  /\ NextLayer(p).remaining = p.remaining \ TopLayer(p)
           /\ NextLayer(p).layers = Append(p.layers, TopLayer(p))
           /\ \A n \in CanvasNodes :
                 NextLayer(p).degree[n] =
                    IF p.degree[n] < Cardinality(ArrowsInto(n, TopLayer(p))) THEN 0
                    ELSE p.degree[n] - Cardinality(ArrowsInto(n, TopLayer(p)))
BY DEF NextLayer, TopLayer, FreeNodes, ArrowsInto

\* A round moves the nodes it takes into a layer of their own.
LEMMA LayeredStep ==
    ASSUME CanvasInv, NEW p, NEW k \in Nat, Layered(p, k), p.remaining # {}
    PROVE  Layered(NextLayer(p), k + 1)
<1>. DEFINE q == NextLayer(p)
            top == TopLayer(p)
            m == Len(p.layers)
<1>1. /\ top \subseteq p.remaining /\ top # {}
      /\ q.remaining = p.remaining \ top /\ q.layers = Append(p.layers, top)
  BY LayerTaken, LayerAdded
<1>2. /\ p.remaining \in SUBSET DrawnIds /\ p.layers \in Seq(SUBSET DrawnIds)
      /\ \A n \in DrawnIds :
            n \in p.remaining <=> \A l \in DOMAIN p.layers : n \notin p.layers[l]
      /\ \A l, o \in DOMAIN p.layers : \A n \in DrawnIds :
            n \in p.layers[l] /\ n \in p.layers[o] => l = o
      /\ Cardinality(p.remaining) <= Len(drawing) - k
  BY DEF Layered
<1>. HIDE DEF q, top
<1>3. top \in SUBSET DrawnIds
  BY <1>1, <1>2
<1>4. /\ m \in Nat /\ DOMAIN p.layers = 1..m
      /\ q.layers \in Seq(SUBSET DrawnIds) /\ DOMAIN q.layers = 1..(m + 1)
      /\ \A l \in 1..m : q.layers[l] = p.layers[l]
      /\ q.layers[m + 1] = top
  BY <1>1, <1>2, <1>3
<1>. HIDE DEF m
<1>5. \A l \in 1..(m + 1) : l \in 1..m \/ l = m + 1
  BY <1>4
<1>6. 1..m \subseteq 1..(m + 1) /\ m + 1 \in 1..(m + 1)
  BY <1>4
<1>7. ASSUME NEW n \in DrawnIds
      PROVE  n \in q.remaining <=> \A l \in DOMAIN q.layers : n \notin q.layers[l]
  BY <1>1, <1>2, <1>4, <1>5, <1>6
<1>8. ASSUME NEW l \in DOMAIN q.layers, NEW o \in DOMAIN q.layers, NEW n \in DrawnIds,
             n \in q.layers[l], n \in q.layers[o]
      PROVE  l = o
  BY <1>1, <1>2, <1>4, <1>5, <1>8
<1>9. Cardinality(q.remaining) <= Len(drawing) - (k + 1)
  <2>1. IsFiniteSet(p.remaining) /\ Cardinality(p.remaining) \in Nat
    BY <1>2, CanvasFinite, FS_Subset, FS_CardinalityType
  <2>2. q.remaining \in SUBSET p.remaining /\ q.remaining # p.remaining
    BY <1>1
  <2>3. Cardinality(q.remaining) < Cardinality(p.remaining)
    <3>1. IsFiniteSet(q.remaining) /\ Cardinality(q.remaining) <= Cardinality(p.remaining)
          /\ Cardinality(p.remaining) # Cardinality(q.remaining)
      BY <2>1, <2>2, FS_Subset
    <3>2. Cardinality(q.remaining) \in Nat
      BY <3>1, FS_CardinalityType
    <3>. QED
      BY <2>1, <3>1, <3>2
  <2>4. Cardinality(q.remaining) \in Nat
    BY <2>1, <2>2, FS_Subset, FS_CardinalityType
  <2>5. Len(drawing) \in Nat
    BY DEF CanvasInv
  <2>. QED
    BY <1>2, <2>1, <2>3, <2>4, <2>5
<1>10. q.remaining \in SUBSET DrawnIds
  BY <1>1, <1>2
<1>11. Layered(q, k + 1)
  BY <1>4, <1>7, <1>8, <1>9, <1>10 DEF Layered
<1>. QED
  BY <1>11 DEF q

\* A round takes its arrows off the degrees.
LEMMA CountedStep ==
    ASSUME CanvasInv, NEW p, Counted(p), p.remaining # {}
    PROVE  Counted(NextLayer(p))
<1>. DEFINE q == NextLayer(p)
            top == TopLayer(p)
<1>. SUFFICES ASSUME NEW n \in CanvasNodes
              PROVE  q.degree[n] = Cardinality(ArrowsInto(n, q.remaining))
  BY DEF Counted
<1>. DEFINE before == ArrowsInto(n, p.remaining)
            gone == ArrowsInto(n, top)
<1>1. /\ top \subseteq p.remaining /\ q.remaining = p.remaining \ top
      /\ q.degree[n] = IF p.degree[n] < Cardinality(gone) THEN 0
                       ELSE p.degree[n] - Cardinality(gone)
      /\ p.degree[n] = Cardinality(before)
  BY LayerTaken, LayerAdded DEF Counted
<1>. HIDE DEF q, top
<1>2. /\ before \in SUBSET DOMAIN arrows /\ gone \in SUBSET before
      /\ ArrowsInto(n, q.remaining) = before \ gone /\ before \cap gone = gone
  BY <1>1 DEF ArrowsInto
<1>. HIDE DEF before, gone
<1>3. /\ IsFiniteSet(before) /\ Cardinality(before) \in Nat
      /\ Cardinality(gone) \in Nat /\ Cardinality(gone) <= Cardinality(before)
  BY <1>2, CanvasFinite, FS_Subset
<1>4. Cardinality(before \ gone) = Cardinality(before) - Cardinality(gone)
  BY <1>2, <1>3, FS_Difference
<1>5. q.degree[n] = Cardinality(before) - Cardinality(gone)
  BY <1>1, <1>3
<1>. QED
  BY <1>2, <1>4, <1>5

\* Without a cycle some node that remains has no arrow from what remains.
LEMMA SomeAreFree ==
    ASSUME CanvasInv, RankedArrows, NEW p, Counted(p), p.remaining \subseteq DrawnIds,
           p.remaining # {}
    PROVE  /\ TopLayer(p) = FreeNodes(p)
           /\ \A n \in TopLayer(p) : ArrowsInto(n, p.remaining) = {}
<1>0. DrawnIds \subseteq CanvasNodes
  BY CanvasFinite
<1>1. \A n \in p.remaining : p.degree[n] = 0 <=> ArrowsInto(n, p.remaining) = {}
  <2>. SUFFICES ASSUME NEW n \in p.remaining
                PROVE  p.degree[n] = 0 <=> ArrowsInto(n, p.remaining) = {}
    OBVIOUS
  <2>1. ArrowsInto(n, p.remaining) \in SUBSET DOMAIN arrows
    BY DEF ArrowsInto
  <2>2. p.degree[n] = Cardinality(ArrowsInto(n, p.remaining))
    BY <1>0 DEF Counted
  <2>. QED
    BY <2>1, <2>2, CanvasFinite, FS_EmptySet
<1>2. PICK rank \in [CanvasNodes -> DOMAIN drawing] :
         \A i \in DOMAIN arrows : rank[arrows[i].from] < rank[arrows[i].to]
  BY DEF RankedArrows
<1>. DEFINE T == {rank[n] : n \in p.remaining}
<1>3. T \subseteq Nat /\ T # {}
  <2>1. DOMAIN drawing \subseteq Nat
    BY DEF CanvasInv
  <2>. QED
    BY <1>0, <1>2, <2>1
<1>4. PICK t \in T : \A u \in T : t <= u
  <2>. HIDE DEF T
  <2>. QED
    BY <1>3, Orders!LeastNumber
<1>5. PICK n \in p.remaining : t = rank[n]
  OBVIOUS
<1>6. ArrowsInto(n, p.remaining) = {}
  <2>. SUFFICES ASSUME NEW i \in ArrowsInto(n, p.remaining) PROVE FALSE
    OBVIOUS
  <2>1. i \in DOMAIN arrows /\ arrows[i].from \in p.remaining /\ arrows[i].to = n
    BY DEF ArrowsInto
  <2>2. rank[arrows[i].from] < t /\ t <= rank[arrows[i].from]
    BY <1>2, <1>4, <1>5, <2>1
  <2>3. t \in Nat /\ rank[arrows[i].from] \in Nat
    BY <1>3, <2>1
  <2>. QED
    BY <2>2, <2>3
<1>7. n \in FreeNodes(p)
  BY <1>1, <1>6 DEF FreeNodes
<1>. QED
  BY <1>1, <1>7 DEF TopLayer, FreeNodes

\* The nodes a round takes are below all that have an arrow to them.
LEMMA DescendingStep ==
    ASSUME CanvasInv, WholeArrows, RankedArrows, NEW p, NEW k, Layered(p, k),
           Counted(p), Descending(p), p.remaining # {}
    PROVE  Descending(NextLayer(p))
<1>. DEFINE q == NextLayer(p)
            top == TopLayer(p)
            m == Len(p.layers)
<1>1. /\ top \subseteq p.remaining
      /\ q.remaining = p.remaining \ top /\ q.layers = Append(p.layers, top)
  BY LayerTaken, LayerAdded
<1>2. /\ p.remaining \in SUBSET DrawnIds /\ p.layers \in Seq(SUBSET DrawnIds)
      /\ \A n \in DrawnIds :
            n \in p.remaining <=> \A l \in DOMAIN p.layers : n \notin p.layers[l]
  BY DEF Layered
<1>3. \A n \in top : ArrowsInto(n, p.remaining) = {}
  BY <1>2, SomeAreFree
<1>. HIDE DEF q, top
<1>4. /\ m \in Nat /\ DOMAIN p.layers = 1..m /\ DOMAIN q.layers = 1..(m + 1)
      /\ \A l \in 1..m : q.layers[l] = p.layers[l]
      /\ q.layers[m + 1] = top
  BY <1>1, <1>2
<1>. HIDE DEF m
<1>5. \A l \in 1..m : l \in 1..(m + 1) /\ l < m + 1
  BY <1>4
<1>6. m + 1 \in 1..(m + 1)
  BY <1>4
<1>7. ASSUME NEW i \in DOMAIN arrows, arrows[i].to \notin q.remaining
      PROVE  \E l, o \in DOMAIN q.layers :
                l < o /\ arrows[i].from \in q.layers[l] /\ arrows[i].to \in q.layers[o]
  <2>0. arrows[i].from \in DrawnIds /\ arrows[i].to \in DrawnIds
    BY DEF WholeArrows
  <2>1. CASE arrows[i].to \in p.remaining
    <3>1. arrows[i].to \in top
      BY <1>1, <1>7, <2>1
    <3>2. arrows[i].from \notin p.remaining
      BY <1>3, <3>1 DEF ArrowsInto
    <3>3. PICK l \in 1..m : arrows[i].from \in p.layers[l]
      BY <1>2, <1>4, <2>0, <3>2
    <3>. QED
      BY <1>4, <1>5, <1>6, <3>1, <3>3
  <2>2. CASE arrows[i].to \notin p.remaining
    <3>1. PICK l \in 1..m, o \in 1..m :
             l < o /\ arrows[i].from \in p.layers[l] /\ arrows[i].to \in p.layers[o]
      BY <1>4, <2>2 DEF Descending
    <3>. QED
      BY <1>4, <1>5, <3>1
  <2>. QED
    BY <2>1, <2>2
<1>8. Descending(q)
  BY <1>7 DEF Descending
<1>. QED
  BY <1>8 DEF q

\* LayersDescend: after as many rounds as there are nodes none remains.
LEMMA LayersRight == ASSUME CanvasInv PROVE LayersDescend
<1>. DEFINE rounds == [i \in DOMAIN drawing |-> i]
            n == Len(drawing)
            p == Layers!Fold(LayersBase, rounds, 0)
<1>1. n \in Nat /\ DOMAIN drawing = 1..n
  BY DEF CanvasInv
<1>2. rounds \in Seq(Nat) /\ Len(rounds) = n
  <2>1. rounds \in [1..n -> Nat]
    BY <1>1
  <2>. HIDE DEF rounds
  <2>. QED
    BY <1>1, <2>1
<1>3. ASSUME NEW k \in 0..(n - 1), NEW r, Layering(r, k, 0)
      PROVE  Layering(LayerStep(r, rounds[k + 1], 0), k + 1, 0)
  <2>0. k \in Nat /\ LayerStep(r, rounds[k + 1], 0) = NextLayer(r)
    BY DEF LayerStep
  <2>1. CASE r.remaining = {}
    <3>1. NextLayer(r) = r
      BY <2>1 DEF NextLayer
    <3>2. Layered(r, k + 1)
      BY <1>3, <2>1 DEF Layering, Layered
    <3>. QED
      BY <1>3, <2>0, <3>1, <3>2 DEF Layering
  <2>2. CASE r.remaining # {}
    <3>1. Layered(NextLayer(r), k + 1)
      BY <1>3, <2>0, <2>2, LayeredStep DEF Layering
    <3>2. WholeArrows => Counted(NextLayer(r))
      BY <1>3, <2>2, CountedStep DEF Layering
    <3>3. WholeArrows /\ RankedArrows => Descending(NextLayer(r))
      BY <1>3, <2>2, DescendingStep DEF Layering
    <3>. QED
      BY <2>0, <3>1, <3>2, <3>3 DEF Layering
  <2>. QED
    BY <2>1, <2>2
<1>4. LayersOf = p.layers
  BY LayersFold
<1>. HIDE DEF rounds
<1>5. Layering(p, n, 0)
  <2>1. Layering(LayersBase, 0, 0)
    BY LayersStart
  <2>. QED
    BY <1>2, <1>3, <2>1, Layers!FoldHolds
<1>. HIDE DEF p, n
<1>6. p.remaining = {}
  <2>1. p.remaining \in SUBSET DrawnIds
        /\ (p.remaining = {} \/ Cardinality(p.remaining) <= Len(drawing) - n)
    BY <1>5 DEF Layering, Layered
  <2>2. IsFiniteSet(p.remaining) /\ Cardinality(p.remaining) \in Nat
    BY <2>1, CanvasFinite, FS_Subset, FS_CardinalityType
  <2>. QED
    BY <1>1, <2>1, <2>2, FS_EmptySet DEF n
<1>. DEFINE layers == p.layers
            Depth(d) == CHOOSE l \in DOMAIN layers : d \in layers[l]
<1>7. /\ \A d \in DrawnIds : \E l \in DOMAIN layers : d \in layers[l]
      /\ \A l, m \in DOMAIN layers : \A d \in DrawnIds :
            d \in layers[l] /\ d \in layers[m] => l = m
  BY <1>5, <1>6 DEF Layering, Layered
<1>. HIDE DEF layers
<1>8. ASSUME NEW d \in DrawnIds PROVE Cardinality({l \in DOMAIN layers : d \in layers[l]}) = 1
  <2>1. PICK l \in DOMAIN layers : d \in layers[l]
    BY <1>7
  <2>2. {o \in DOMAIN layers : d \in layers[o]} = {l}
    BY <1>7, <2>1
  <2>. QED
    BY <2>2, FS_Singleton
<1>9. \A d \in DrawnIds : \A l \in DOMAIN layers : d \in layers[l] => Depth(d) = l
  BY <1>7
<1>. HIDE DEF Depth
<1>10. ASSUME WholeArrows, RankedArrows, NEW i \in DOMAIN arrows
       PROVE  Depth(arrows[i].from) < Depth(arrows[i].to)
  <2>1. arrows[i].from \in DrawnIds /\ arrows[i].to \in DrawnIds
    BY <1>10 DEF WholeArrows
  <2>2. PICK l, m \in DOMAIN layers :
           l < m /\ arrows[i].from \in layers[l] /\ arrows[i].to \in layers[m]
    BY <1>5, <1>6, <1>10 DEF Layering, Descending, layers
  <2>. QED
    BY <1>9, <2>1, <2>2
<1>. QED
  BY <1>4, <1>8, <1>10 DEF LayersDescend, WholeArrows, RankedArrows, layers, Depth

-----------------------------------------------------------------------------
(* Databases: sorts *)

\* The key of a row as a number to sort up by.
UpwardKey(sort, r) ==
    IF sort.direction = "desc" THEN -SortKey(r, sort.field) ELSE SortKey(r, sort.field)

\* Whatever a cell holds, its key is a number.
LEMMA KeysAreNumbers ==
    ASSUME TablesInv, NEW sort, NEW r
    PROVE  SortKey(r, sort.field) \in Int /\ UpwardKey(sort, r) \in Int
<1>. DEFINE cell == <<r, sort.field>>
            value == IF cell \in DOMAIN cells THEN cells[cell] ELSE EmptyValue
<1>1. value \in Values
  BY TablesAssumption, TablesSay
<1>2. value \in Int
  <2>. HIDE DEF value
  <2>1. Values \subseteq Int
    BY TablesAssumption
  <2>. QED
    BY <1>1, <2>1
<1>3. SortKey(r, sort.field) = CASE value = EmptyValue -> -200
                                 [] value < 0 -> -100 - value
                                 [] OTHER -> value
  BY DEF SortKey
<1>. HIDE DEF value
<1>4. SortKey(r, sort.field) \in Int
  <2>1. CASE value = EmptyValue
    BY <1>2, <1>3, <2>1
  <2>2. CASE value # EmptyValue /\ value < 0
    BY <1>2, <1>3, <2>2
  <2>3. CASE value # EmptyValue /\ ~(value < 0)
    BY <1>2, <1>3, <2>3
  <2>. QED
    BY <2>1, <2>2, <2>3
<1>. QED
  BY <1>4 DEF UpwardKey

\* A sort by one field puts the rows in the order of their keys, equal ones as
\* they were.
LEMMA SortByPicks ==
    ASSUME TablesInv, NEW list \in Seq(RowIds), NEW sort
    PROVE  /\ SortBy(list, sort) \in Seq(RowIds) /\ DOMAIN SortBy(list, sort) = DOMAIN list
           /\ \E at : SortsBy(SortBy(list, sort), list, at,
                              [m \in DOMAIN list |-> UpwardKey(sort, list[m])])
<1>. DEFINE t == SortBy(list, sort)
            key == [m \in DOMAIN list |-> UpwardKey(sort, list[m])]
            Below(a, b) == IF sort.direction = "desc"
                THEN SortKey(b, sort.field) < SortKey(a, sort.field)
                ELSE SortKey(a, sort.field) < SortKey(b, sort.field)
            A(k) == Cardinality({j \in DOMAIN list : Below(list[j], list[k])
                                    \/ (~Below(list[k], list[j]) /\ j <= k)})
            B(k) == Cardinality({j \in DOMAIN list :
                                    key[j] < key[k] \/ (~(key[k] < key[j]) /\ j <= k)})
<1>1. key \in [DOMAIN list -> Int]
  BY KeysAreNumbers
<1>2. ASSUME NEW a, NEW b PROVE Below(a, b) <=> UpwardKey(sort, a) < UpwardKey(sort, b)
  <2>1. SortKey(a, sort.field) \in Int /\ SortKey(b, sort.field) \in Int
    BY KeysAreNumbers
  <2>. QED
    BY <2>1 DEF UpwardKey
<1>3. t = [i \in DOMAIN list |-> list[CHOOSE k \in DOMAIN list : A(k) = i]]
  BY DEF SortBy, StableSort, Place
<1>. HIDE DEF Below
<1>4. \A m \in DOMAIN list : key[m] = UpwardKey(sort, list[m])
  OBVIOUS
<1>. HIDE DEF key
<1>5. ASSUME NEW k \in DOMAIN list PROVE A(k) = B(k)
  <2>1. \A j \in DOMAIN list :
           /\ Below(list[j], list[k]) <=> key[j] < key[k]
           /\ Below(list[k], list[j]) <=> key[k] < key[j]
    BY <1>2, <1>4
  <2>2. {j \in DOMAIN list : Below(list[j], list[k]) \/ (~Below(list[k], list[j]) /\ j <= k)}
        = {j \in DOMAIN list : key[j] < key[k] \/ (~(key[k] < key[j]) /\ j <= k)}
    BY <2>1
  <2>. QED
    BY <2>2
<1>6. \A k \in DOMAIN list : A(k) = B(k)
  BY <1>5
<1>. HIDE DEF A, B, t
<1>9. t = [i \in DOMAIN list |-> list[CHOOSE k \in DOMAIN list : B(k) = i]]
  <2>. DEFINE D == DOMAIN list
              before == [i \in D |-> CHOOSE k \in D : A(k) = i]
              after == [i \in D |-> CHOOSE k \in D : B(k) = i]
  <2>1. t = [i \in D |-> list[before[i]]]
    BY <1>3
  <2>2. before = after
    <3>. HIDE DEF D
    <3>. QED
      BY <1>6 DEF D
  <2>. HIDE DEF before
  <2>3. t = [i \in D |-> list[after[i]]]
    BY <2>1, <2>2
  <2>. QED
    BY <2>3
<1>7. Sorts(t, list, key)
  BY <1>9 DEF B, Sorts
<1>8. t \in Seq(RowIds) /\ DOMAIN t = DOMAIN list /\ \E at : SortsBy(t, list, at, key)
  BY <1>1, <1>7, SortPicks
<1>. QED
  BY <1>8 DEF t, key

\* Of two rows the one with the lesser key comes first, by the first of the keys
\* after the k-th in which they differ, and as they were loaded when there is none.
Decided(sorts, k, a, b) ==
    \E q \in DOMAIN sorts :
        /\ q > k /\ UpwardKey(sorts[q], a) < UpwardKey(sorts[q], b)
        /\ \A r \in DOMAIN sorts :
              r > k /\ r < q => UpwardKey(sorts[r], a) = UpwardKey(sorts[r], b)

Undecided(sorts, k, a, b) ==
    \A r \in DOMAIN sorts : r > k => UpwardKey(sorts[r], a) = UpwardKey(sorts[r], b)

\* t has the rows of loaded in the order of the keys after the k-th; at says where
\* each comes from.
NestsBy(t, at, k, loaded, sorts) ==
    /\ t \in Seq(RowIds) /\ DOMAIN t = DOMAIN loaded
    /\ at \in [DOMAIN loaded -> DOMAIN loaded]
    /\ \A m \in DOMAIN loaded : t[m] = loaded[at[m]]
    /\ \A m, l \in DOMAIN loaded : m < l =>
          \/ Decided(sorts, k, t[m], t[l])
          \/ Undecided(sorts, k, t[m], t[l]) /\ at[m] < at[l]

\* What the sorts by the last k keys make of c[1], c[2] being the keys.
Nested(p, k, c) == \E at : NestsBy(p, at, Len(c[2]) - k, c[1], c[2])

SortStep(p, e, w) == SortBy(p, e)

Nests == INSTANCE FoldInduction WITH Step <- SortStep, Holds <- Nested

\* Sorting by several keys is a fold, the last key first.
LEMMA SortsFold ==
    ASSUME NEW list, NEW sorts
    PROVE  ApplySort(list, sorts) = Nests!Fold(list, Reverse(sorts), 0)
BY DEF ApplySort, SortStep, Nests!Fold, FoldLeft, MapThenFoldSet, Nests!FoldLeft,
       Nests!MapThenFoldSet, Max, Nests!Max

\* A sort by one more key keeps the order of the later keys among its equals.
LEMMA OneSortMore ==
    ASSUME TablesInv, NEW loaded \in Seq(RowIds), NEW S, NEW sorts \in Seq(S),
           NEW k \in DOMAIN sorts, NEW p, NEW at, NestsBy(p, at, k, loaded, sorts)
    PROVE  \E to : NestsBy(SortBy(p, sorts[k]), to, k - 1, loaded, sorts)
<1>. DEFINE t == SortBy(p, sorts[k])
            key == [m \in DOMAIN p |-> UpwardKey(sorts[k], p[m])]
<1>0. DOMAIN sorts \subseteq Nat /\ DOMAIN loaded \subseteq Nat /\ k \in Nat
  OBVIOUS
<1>1. /\ p \in Seq(RowIds) /\ DOMAIN p = DOMAIN loaded
      /\ at \in [DOMAIN loaded -> DOMAIN loaded]
      /\ \A m \in DOMAIN loaded : p[m] = loaded[at[m]]
      /\ \A m, l \in DOMAIN loaded : m < l =>
            \/ Decided(sorts, k, p[m], p[l])
            \/ Undecided(sorts, k, p[m], p[l]) /\ at[m] < at[l]
  BY DEF NestsBy
<1>2. t \in Seq(RowIds) /\ DOMAIN t = DOMAIN p /\ \E from : SortsBy(t, p, from, key)
  BY <1>1, SortByPicks
<1>3. PICK from : SortsBy(t, p, from, key)
  BY <1>2
<1>4. \A m \in DOMAIN p : key[m] = UpwardKey(sorts[k], p[m])
  OBVIOUS
<1>. HIDE DEF t, key
<1>5. /\ from \in [DOMAIN p -> DOMAIN p]
      /\ \A m \in DOMAIN p : t[m] = p[from[m]]
      /\ \A m, l \in DOMAIN p : m < l =>
            \/ key[from[m]] < key[from[l]]
            \/ key[from[m]] = key[from[l]] /\ from[m] < from[l]
  BY <1>3 DEF SortsBy
<1>. DEFINE to == [m \in DOMAIN loaded |-> at[from[m]]]
<1>6. to \in [DOMAIN loaded -> DOMAIN loaded] /\ \A m \in DOMAIN loaded : t[m] = loaded[to[m]]
  BY <1>1, <1>5
<1>7. ASSUME NEW m \in DOMAIN loaded, NEW l \in DOMAIN loaded, m < l
      PROVE  \/ Decided(sorts, k - 1, t[m], t[l])
             \/ Undecided(sorts, k - 1, t[m], t[l]) /\ to[m] < to[l]
  <2>1. /\ from[m] \in DOMAIN loaded /\ from[l] \in DOMAIN loaded
        /\ t[m] = p[from[m]] /\ t[l] = p[from[l]]
        /\ key[from[m]] = UpwardKey(sorts[k], t[m])
        /\ key[from[l]] = UpwardKey(sorts[k], t[l])
    BY <1>1, <1>4, <1>5
  <2>2. CASE key[from[m]] < key[from[l]]
    <3>1. \A r \in DOMAIN sorts : ~(r > k - 1 /\ r < k)
      BY <1>0
    <3>2. k > k - 1
      BY <1>0
    <3>3. Decided(sorts, k - 1, t[m], t[l])
      BY <2>1, <2>2, <3>1, <3>2 DEF Decided
    <3>. QED
      BY <3>3
  <2>3. CASE key[from[m]] = key[from[l]] /\ from[m] < from[l]
    <3>1. UpwardKey(sorts[k], t[m]) = UpwardKey(sorts[k], t[l])
      BY <2>1, <2>3
    <3>2. \A r \in DOMAIN sorts : r > k - 1 => r = k \/ r > k
      BY <1>0
    <3>3. \/ Decided(sorts, k, t[m], t[l])
          \/ Undecided(sorts, k, t[m], t[l]) /\ at[from[m]] < at[from[l]]
      BY <1>1, <2>1, <2>3
    <3>4. Decided(sorts, k, t[m], t[l]) => Decided(sorts, k - 1, t[m], t[l])
      <4>. SUFFICES ASSUME NEW q \in DOMAIN sorts,
                           q > k, UpwardKey(sorts[q], t[m]) < UpwardKey(sorts[q], t[l]),
                           \A r \in DOMAIN sorts : r > k /\ r < q =>
                              UpwardKey(sorts[r], t[m]) = UpwardKey(sorts[r], t[l])
                    PROVE  Decided(sorts, k - 1, t[m], t[l])
        BY DEF Decided
      <4>1. q > k - 1
        BY <1>0
      <4>2. \A r \in DOMAIN sorts : r > k - 1 /\ r < q =>
               UpwardKey(sorts[r], t[m]) = UpwardKey(sorts[r], t[l])
        BY <3>1, <3>2
      <4>. QED
        BY <4>1, <4>2 DEF Decided
    <3>5. Undecided(sorts, k, t[m], t[l]) => Undecided(sorts, k - 1, t[m], t[l])
      BY <3>1, <3>2 DEF Undecided
    <3>. QED
      BY <3>3, <3>4, <3>5
  <2>. QED
    BY <1>1, <1>5, <1>7, <2>2, <2>3
<1>. HIDE DEF to
<1>8. NestsBy(t, to, k - 1, loaded, sorts)
  BY <1>1, <1>2, <1>6, <1>7 DEF NestsBy
<1>. QED
  BY <1>8 DEF t

\* After all sorts the first key in which two rows differ decides.
LEMMA AllSorted ==
    ASSUME TablesInv, NEW loaded \in Seq(RowIds), NEW S, NEW sorts \in Seq(S)
    PROVE  \E at : NestsBy(ApplySort(loaded, sorts), at, 0, loaded, sorts)
<1>. DEFINE n == Len(sorts)
            back == Reverse(sorts)
            c == <<loaded, sorts>>
<1>1. n \in Nat /\ DOMAIN sorts = 1..n
  OBVIOUS
<1>2. /\ back \in Seq(S) /\ Len(back) = n
      /\ \A k \in 0..(n - 1) : back[k + 1] = sorts[n - k] /\ n - k \in DOMAIN sorts
  <2>1. back = [j \in 1..n |-> sorts[(n - j) + 1]]
    BY DEF Reverse
  <2>2. \A j \in 1..n : (n - j) + 1 \in 1..n
    BY <1>1
  <2>3. back \in [1..n -> S]
    BY <1>1, <2>1, <2>2
  <2>4. \A k \in 0..(n - 1) : k + 1 \in 1..n /\ (n - (k + 1)) + 1 = n - k /\ n - k \in 1..n
    BY <1>1
  <2>. HIDE DEF n, back
  <2>5. back \in Seq(S) /\ Len(back) = n
    BY <1>1, <2>3
  <2>. QED
    BY <1>1, <2>1, <2>4, <2>5
<1>. HIDE DEF back
<1>3. Nested(loaded, 0, c)
  <2>. DEFINE at == [m \in DOMAIN loaded |-> m]
  <2>1. c[1] = loaded /\ c[2] = sorts
    OBVIOUS
  <2>2. \A r \in DOMAIN sorts : ~(r > n)
    BY <1>1
  <2>3. \A a, b : Undecided(sorts, n, a, b)
    BY <2>2 DEF Undecided
  <2>4. NestsBy(loaded, at, n, loaded, sorts)
    BY <2>3 DEF NestsBy
  <2>5. n - 0 = n
    BY <1>1
  <2>. HIDE DEF at, c
  <2>. QED
    BY <2>1, <2>4, <2>5 DEF Nested
<1>4. ASSUME NEW k \in 0..(n - 1), NEW p, Nested(p, k, c)
      PROVE  Nested(SortStep(p, back[k + 1], 0), k + 1, c)
  <2>1. c[1] = loaded /\ c[2] = sorts
    OBVIOUS
  <2>2. PICK at : NestsBy(p, at, n - k, loaded, sorts)
    BY <1>4, <2>1 DEF Nested
  <2>3. n - k \in DOMAIN sorts /\ SortStep(p, back[k + 1], 0) = SortBy(p, sorts[n - k])
    BY <1>2 DEF SortStep
  <2>4. \E to : NestsBy(SortBy(p, sorts[n - k]), to, (n - k) - 1, loaded, sorts)
    BY <2>2, <2>3, OneSortMore
  <2>5. (n - k) - 1 = n - (k + 1)
    BY <1>1
  <2>. HIDE DEF c
  <2>. QED
    BY <2>1, <2>3, <2>4, <2>5 DEF Nested
<1>5. Nested(Nests!Fold(loaded, back, 0), n, c)
  <2>. HIDE DEF n, c
  <2>. QED
    BY <1>2, <1>3, <1>4, Nests!FoldHolds
<1>6. ApplySort(loaded, sorts) = Nests!Fold(loaded, back, 0) /\ n - n = 0
  BY <1>1, SortsFold DEF back
<1>. QED
  BY <1>5, <1>6 DEF Nested

\* The rows of a database that pass a filter, each of them once.
LEMMA FilteredOnce ==
    ASSUME TablesInv, NEW d, NEW filters
    PROVE  LET loaded == ApplyFilter(RowsOf(d), filters)
           IN  /\ loaded \in Seq(RowIds)
               /\ \A i, j \in DOMAIN loaded : loaded[i] = loaded[j] => i = j
<1>. DEFINE list == RowsOf(d)
            hits == {i \in DOMAIN list : \A f \in DOMAIN filters : Keeps(list[i], filters[f])}
            t == ApplyFilter(list, filters)
<1>1. /\ list \in Seq(RowIds) /\ DOMAIN list \subseteq Nat
      /\ \A i, j \in DOMAIN list : list[i] = list[j] => i = j
  BY RowsLoaded
<1>. HIDE DEF list
<1>2. Filters(t, list, hits) /\ hits \in SUBSET DOMAIN list
  BY DEF ApplyFilter, Kept, Filters
<1>. HIDE DEF t, hits
<1>3. t \in Seq(RowIds) /\ DOMAIN t = 1..Len(t) /\ \E at : Picks(t, list, at, hits)
  BY <1>1, <1>2, FilterPicks
<1>4. PICK at : Picks(t, list, at, hits)
  BY <1>3
<1>5. ASSUME NEW i \in DOMAIN t, NEW j \in DOMAIN t, t[i] = t[j] PROVE i = j
  <2>1. at[i] \in DOMAIN list /\ at[j] \in DOMAIN list
        /\ t[i] = list[at[i]] /\ t[j] = list[at[j]]
    BY <1>2, <1>4 DEF Picks
  <2>2. at[i] = at[j] /\ at[i] \in Nat
    BY <1>1, <1>5, <2>1
  <2>3. ~(i < j) /\ ~(j < i)
    BY <1>4, <2>2 DEF Picks
  <2>4. i \in Nat /\ j \in Nat
    BY <1>3
  <2>. QED
    BY <2>3, <2>4
<1>. QED
  BY <1>3, <1>5 DEF t, list

\* The first index of a test with hits, and of one with none.
LEMMA FirstIs ==
    ASSUME NEW hits \in SUBSET Nat
    PROVE  \A i \in hits : (\A j \in hits : i <= j) =>
              (CHOOSE x \in hits : \A y \in hits : x <= y) = i
<1>1. \A i, j \in hits : i <= j /\ j <= i => i = j
  OBVIOUS
<1>. QED
  BY <1>1

\* SortsNest: of two rows the first differing key decides, then the order of loading.
LEMMA SortsDoNest == ASSUME TablesInv PROVE SortsNest
<1>. SUFFICES ASSUME NEW d \in DOMAIN views
              PROVE  LET sorts == views[d].sorts
                         loaded == ApplyFilter(RowsOf(d), views[d].filters)
                         shown == ViewRows(d)
                         Differ(k, a, b) == SortKey(a, sorts[k].field) # SortKey(b, sorts[k].field)
                         Ordered(k, a, b) ==
                            (SortKey(a, sorts[k].field) < SortKey(b, sorts[k].field))
                               <=> (sorts[k].direction # "desc")
                         FirstDifference(a, b) == FirstIndex([k \in DOMAIN sorts |-> k],
                                                             LAMBDA k : Differ(k, a, b))
                     IN  \A i, j \in DOMAIN shown : i < j =>
                            LET k == FirstDifference(shown[i], shown[j])
                            IN  IF k # 0 THEN Ordered(k, shown[i], shown[j])
                                ELSE FirstIndex(loaded, LAMBDA r : r = shown[i])
                                        < FirstIndex(loaded, LAMBDA r : r = shown[j])
  BY DEF SortsNest
<1>. DEFINE sorts == views[d].sorts
            loaded == ApplyFilter(RowsOf(d), views[d].filters)
            shown == ViewRows(d)
            Key(k, a) == SortKey(a, sorts[k].field)
            All == [k \in DOMAIN sorts |-> k]
            Differing(a, b) == {k \in DOMAIN All : Key(All[k], a) # Key(All[k], b)}
            FirstDifference(a, b) == FirstIndex(All, LAMBDA k : Key(k, a) # Key(k, b))
            Spots(r) == {i \in DOMAIN loaded : loaded[i] = r}
<1>1. sorts \in Seq([field : FieldIds, direction : STRING])
  <2>1. views[d] \in ViewSettings \/ views[d] = NoSettings
    BY TablesSay
  <2>2. NoSettings.sorts = << >> /\ \A S : << >> \in Seq(S)
    BY DEF NoSettings
  <2>3. CASE views[d] \in ViewSettings
    BY <2>3, TablesAssumption
  <2>4. CASE views[d] = NoSettings
    <3>. DEFINE S == [field : FieldIds, direction : STRING]
    <3>. HIDE DEF S
    <3>1. views[d].sorts \in Seq(S)
      BY <2>2, <2>4
    <3>. QED
      BY <3>1 DEF S
  <2>. QED
    BY <2>1, <2>3, <2>4
<1>2. /\ loaded \in Seq(RowIds) /\ DOMAIN loaded \subseteq Nat /\ 0 \notin DOMAIN loaded
      /\ \A i, j \in DOMAIN loaded : loaded[i] = loaded[j] => i = j
  <2>1. loaded \in Seq(RowIds) /\ \A i, j \in DOMAIN loaded : loaded[i] = loaded[j] => i = j
    BY FilteredOnce
  <2>. HIDE DEF loaded
  <2>. QED
    BY <2>1
<1>3. shown = ApplySort(loaded, sorts)
  BY DEF ViewRows
<1>4. ASSUME NEW a, NEW b
      PROVE  FirstDifference(a, b) = IF Differing(a, b) = {} THEN 0
                ELSE CHOOSE x \in Differing(a, b) : \A y \in Differing(a, b) : x <= y
  BY DEF FirstIndex
<1>. HIDE DEF sorts, loaded, shown
<1>6. DOMAIN sorts \subseteq Nat /\ 0 \notin DOMAIN sorts
  BY <1>1
<1>7. ASSUME NEW a, NEW b
      PROVE  Differing(a, b) = {k \in DOMAIN sorts : Key(k, a) # Key(k, b)}
  OBVIOUS
<1>. HIDE DEF Differing, FirstDifference
<1>8. PICK at : NestsBy(shown, at, 0, loaded, sorts)
  BY <1>1, <1>2, <1>3, AllSorted
<1>9. /\ DOMAIN shown = DOMAIN loaded
      /\ at \in [DOMAIN loaded -> DOMAIN loaded]
      /\ \A m \in DOMAIN loaded : shown[m] = loaded[at[m]]
      /\ \A m, l \in DOMAIN loaded : m < l =>
            \/ Decided(sorts, 0, shown[m], shown[l])
            \/ Undecided(sorts, 0, shown[m], shown[l]) /\ at[m] < at[l]
  BY <1>8 DEF NestsBy
<1>10. \A k, a : Key(k, a) \in Int /\ UpwardKey(sorts[k], a) \in Int
  BY KeysAreNumbers
<1>11. \A k, a, b :
          /\ UpwardKey(sorts[k], a) = UpwardKey(sorts[k], b) <=> Key(k, a) = Key(k, b)
          /\ UpwardKey(sorts[k], a) < UpwardKey(sorts[k], b) =>
                /\ Key(k, a) # Key(k, b)
                /\ Key(k, a) < Key(k, b) <=> sorts[k].direction # "desc"
  <2>1. \A k, a : UpwardKey(sorts[k], a) =
                     IF sorts[k].direction = "desc" THEN -Key(k, a) ELSE Key(k, a)
    BY DEF UpwardKey
  <2>. HIDE DEF Key
  <2>. QED
    BY <1>10, <2>1
<1>. HIDE DEF Key
<1>12. ASSUME NEW m \in DOMAIN loaded
       PROVE  FirstIndex(loaded, LAMBDA r : r = shown[m]) = at[m]
  <2>1. at[m] \in DOMAIN loaded /\ shown[m] = loaded[at[m]]
    BY <1>9
  <2>2. Spots(shown[m]) = {at[m]}
    BY <1>2, <2>1
  <2>3. (CHOOSE x \in {at[m]} : \A y \in {at[m]} : x <= y) = at[m]
    BY <1>2, <2>1
  <2>4. FirstIndex(loaded, LAMBDA r : r = shown[m])
           = IF Spots(shown[m]) = {} THEN 0
             ELSE CHOOSE x \in Spots(shown[m]) : \A y \in Spots(shown[m]) : x <= y
    BY DEF FirstIndex
  <2>. HIDE DEF Spots
  <2>. QED
    BY <2>2, <2>3, <2>4
<1>13. ASSUME NEW i \in DOMAIN shown, NEW j \in DOMAIN shown, i < j
       PROVE  LET k == FirstDifference(shown[i], shown[j])
              IN  IF k # 0
                  THEN (Key(k, shown[i]) < Key(k, shown[j])) <=> (sorts[k].direction # "desc")
                  ELSE at[i] < at[j]
  <2>. DEFINE a == shown[i]
              b == shown[j]
              D == Differing(a, b)
              k == FirstDifference(a, b)
  <2>1. D \in SUBSET Nat /\ 0 \notin D /\ D = {q \in DOMAIN sorts : Key(q, a) # Key(q, b)}
    BY <1>6, <1>7
  <2>2. k = IF D = {} THEN 0 ELSE CHOOSE x \in D : \A y \in D : x <= y
    BY <1>4
  <2>3. Decided(sorts, 0, a, b) \/ (Undecided(sorts, 0, a, b) /\ at[i] < at[j])
    BY <1>9, <1>13
  <2>4. \A r \in DOMAIN sorts : r > 0
    BY <1>6
  <2>. HIDE DEF a, b, D, k
  <2>5. CASE Decided(sorts, 0, a, b)
    <3>1. PICK q \in DOMAIN sorts :
             /\ UpwardKey(sorts[q], a) < UpwardKey(sorts[q], b)
             /\ \A r \in DOMAIN sorts : r > 0 /\ r < q =>
                   UpwardKey(sorts[r], a) = UpwardKey(sorts[r], b)
      BY <2>5 DEF Decided
    <3>2. q \in D /\ (Key(q, a) < Key(q, b) <=> sorts[q].direction # "desc")
      BY <1>11, <2>1, <3>1
    <3>3. \A y \in D : q <= y
      <4>. SUFFICES ASSUME NEW y \in D, y < q PROVE FALSE
        BY <2>1, <3>2
      <4>1. y \in DOMAIN sorts /\ Key(y, a) # Key(y, b)
        BY <2>1
      <4>2. UpwardKey(sorts[y], a) = UpwardKey(sorts[y], b)
        BY <2>4, <3>1, <4>1
      <4>. QED
        BY <1>11, <4>1, <4>2
    <3>4. k = q /\ k # 0
      BY <2>1, <2>2, <3>2, <3>3, FirstIs
    <3>. QED
      BY <3>2, <3>4 DEF k, a, b
  <2>6. CASE Undecided(sorts, 0, a, b) /\ at[i] < at[j]
    <3>1. D = {}
      BY <1>11, <2>1, <2>4, <2>6 DEF Undecided
    <3>. QED
      BY <2>2, <2>6, <3>1 DEF k, a, b
  <2>. QED
    BY <2>3, <2>5, <2>6
<1>. QED
  BY <1>9, <1>12, <1>13 DEF FirstDifference, Key, sorts, loaded, shown

-----------------------------------------------------------------------------
(* The tantivy index: a commit *)

ApplyOne(docs, o, w) == WithOperation(docs, o)

\* After k operations the notes they are not about have the documents they had,
\* and the last one has been done.
Applied(docs, k, c) ==
    /\ docs \in Seq(DocSpace) /\ OncePerNote(docs)
    /\ \A x \in DocSpace :
          (\A j \in 1..k : About(c[2][j]) # x.note) => (x \in Found(docs) <=> x \in Found(c[1]))
    /\ k # 0 =>
          /\ c[2][k].op = "delete" => \A x \in Found(docs) : x.note # c[2][k].note
          /\ c[2][k].op = "add" => c[2][k].doc \in Found(docs)

Commits == INSTANCE FoldInduction WITH Step <- ApplyOne, Holds <- Applied

\* A commit is the fold of its operations, as FoldInduction names it.
LEMMA CommitsFold ==
    ASSUME NEW docs, NEW ops
    PROVE  FoldLeft(WithOperation, docs, ops) = Commits!Fold(docs, ops, 0)
BY DEF ApplyOne, Commits!Fold, FoldLeft, MapThenFoldSet, Commits!FoldLeft,
       Commits!MapThenFoldSet, Max, Commits!Max

\* A commit leaves of each note what its last operation asks for.
LEMMA CommitApplied ==
    ASSUME NEW docs \in Seq(DocSpace), OncePerNote(docs),
           NEW ops \in Seq(OpSpace), Paired(ops)
    PROVE  Applied(FoldLeft(WithOperation, docs, ops), Len(ops), <<docs, ops>>)
<1>. DEFINE c == <<docs, ops>>
<1>1. Applied(docs, 0, c)
  BY DEF Applied
<1>2. \A k \in 0..(Len(ops) - 1) : \A p :
         Applied(p, k, c) => Applied(ApplyOne(p, ops[k+1], 0), k+1, c)
  <2>. SUFFICES ASSUME NEW k \in 0..(Len(ops) - 1), NEW p, Applied(p, k, c)
                PROVE  Applied(ApplyOne(p, ops[k+1], 0), k+1, c)
    OBVIOUS
  <2>. DEFINE o == ops[k+1]
              q == WithOperation(p, o)
  <2>1. /\ k \in Nat /\ k + 1 \in DOMAIN ops /\ o \in OpSpace
        /\ p \in Seq(DocSpace) /\ OncePerNote(p) /\ c[1] = docs /\ c[2] = ops
    BY DEF Applied
  <2>2. /\ q \in Seq(DocSpace) /\ OncePerNote(q)
        /\ o.op = "delete" => \A x \in Found(q) : x.note # o.note
        /\ o.op = "add" => o.doc \in Found(q)
        /\ \A x \in DocSpace : About(o) # x.note => (x \in Found(q) <=> x \in Found(p))
    <3>1. CASE o.op = "delete"
      <4>1. /\ q \in Seq(DocSpace) /\ OncePerNote(q)
            /\ Found(q) = {x \in Found(p) : x.note # o.note}
        BY <2>1, <3>1, DeleteApplied
      <4>2. About(o) = o.note
        BY <3>1 DEF About
      <4>. HIDE DEF o, q
      <4>. QED
        BY <3>1, <4>1, <4>2
    <3>2. CASE o.op = "add"
      <4>1. o.doc \in DocSpace /\ About(o) = o.doc.note
        BY <2>1, <3>2, OpFields
      <4>2. k \in DOMAIN ops /\ ops[k] = DeleteTerm(o.doc.note)
        BY <2>1, <3>2 DEF Paired
      <4>3. k # 0 /\ ops[k].op = "delete" /\ ops[k].note = o.doc.note
        BY <2>1, <4>2 DEF DeleteTerm
      <4>4. \A x \in Found(p) : x.note # o.doc.note
        BY <2>1, <4>3 DEF Applied
      <4>5. /\ q \in Seq(DocSpace) /\ OncePerNote(q) /\ Found(q) = Found(p) \cup {o.doc}
        BY <2>1, <3>2, <4>1, <4>4, AddApplied
      <4>. HIDE DEF o, q
      <4>. QED
        BY <3>2, <4>1, <4>5
    <3>. QED
      BY <2>1, <3>1, <3>2, OpFields
  <2>. HIDE DEF q, o, c
  <2>3. \A x \in DocSpace :
          (\A j \in 1..(k+1) : About(c[2][j]) # x.note) => (x \in Found(q) <=> x \in Found(c[1]))
    <3>1. c[2][k+1] = o /\ k + 1 \in 1..(k+1) /\ \A j \in 1..k : j \in 1..(k+1)
      BY <2>1 DEF o
    <3>2. \A x \in DocSpace :
            (\A j \in 1..k : About(c[2][j]) # x.note) => (x \in Found(p) <=> x \in Found(c[1]))
      BY DEF Applied
    <3>. QED
      BY <2>2, <3>1, <3>2
  <2>4. c[2][k+1] = o
    BY <2>1 DEF o
  <2>5. Applied(q, k+1, c)
    BY <2>2, <2>3, <2>4 DEF Applied
  <2>. QED
    BY <2>5 DEF ApplyOne, q, o
<1>3. Applied(Commits!Fold(docs, ops, 0), Len(ops), c)
  <2>. HIDE DEF c
  <2>. QED
    BY <1>1, <1>2, Commits!FoldHolds
<1>. QED
  BY <1>3, CommitsFold

-----------------------------------------------------------------------------
(* The tantivy index: the calls *)

\* A queue that concerns one note, or others of which nothing is promised.
Concerns(ops, n) ==
    /\ ops \in Seq(OpSpace) /\ Paired(ops)
    /\ \A i \in DOMAIN ops : promised[About(ops[i])] = Unknown \/ About(ops[i]) = n

\* The note of the operations a call queues.
LEMMA AboutOne ==
    ASSUME NEW n
    PROVE  /\ About(DeleteTerm(n)) = n
           /\ \A doc : doc.note = n => About(AddDocument(doc)) = n
BY DEF About, DeleteTerm, AddDocument

\* What a call of a note queues is about that note.
LEMMA ConcernsCalls ==
    ASSUME TantivyInv, NEW n \in SearchNotes, NEW doc \in DocSpace, doc.note = n
    PROVE  /\ Concerns(queued \o <<DeleteTerm(n)>>, n)
           /\ Concerns(queued \o Replaced(n, doc), n)
<1>1. queued \in Seq(OpSpace) /\ Paired(queued)
      /\ \A i \in DOMAIN queued : promised[About(queued[i])] = Unknown
  BY DEF TantivyInv
<1>2. Concerns(queued \o <<DeleteTerm(n)>>, n)
  <2>. DEFINE q == queued \o <<DeleteTerm(n)>>
  <2>1. /\ q \in Seq(OpSpace) /\ Paired(q)
        /\ \A i \in DOMAIN q : (i \in DOMAIN queued /\ q[i] = queued[i]) \/ q[i] = DeleteTerm(n)
    BY <1>1, QueueDelete
  <2>. HIDE DEF q
  <2>. QED
    <3>1. Concerns(q, n)
      BY <1>1, <2>1, AboutOne DEF Concerns
    <3>. QED
      BY <3>1 DEF q
<1>3. Concerns(queued \o Replaced(n, doc), n)
  <2>. DEFINE q == queued \o Replaced(n, doc)
  <2>1. /\ q \in Seq(OpSpace) /\ Paired(q)
        /\ \A i \in DOMAIN q : \/ i \in DOMAIN queued /\ q[i] = queued[i]
                               \/ q[i] = DeleteTerm(n)
                               \/ q[i] = AddDocument(doc)
    BY <1>1, QueueReplaced
  <2>. HIDE DEF q
  <2>. QED
    <3>1. Concerns(q, n)
      BY <1>1, <2>1, AboutOne DEF Concerns
    <3>. QED
      BY <3>1 DEF q
<1>. QED
  BY <1>2, <1>3

\* A commit leaves the note as its last operation says, and others as they were.
LEMMA CommitKeeps ==
    ASSUME TantivyInv, NEW n \in SearchNotes, NEW ops, Concerns(ops, n),
           NEW what, promised' = [promised EXCEPT ![n] = what],
           committed' = FoldLeft(WithOperation, committed, ops), queued' = << >>,
           Len(ops) # 0,
           \/ what = NotIndexed /\ ops[Len(ops)] = DeleteTerm(n)
           \/ what \in DocSpace /\ what.note = n /\ ops[Len(ops)] = AddDocument(what)
    PROVE  TantivyInv'
<1>. DEFINE k == Len(ops)
            c == <<committed, ops>>
<1>1. ops \in Seq(OpSpace) /\ Paired(ops) /\ k \in Nat /\ DOMAIN ops = 1..k
      /\ committed \in Seq(DocSpace) /\ OncePerNote(committed)
  BY DEF Concerns, TantivyInv
<1>2. Applied(committed', k, c)
  BY <1>1, CommitApplied
<1>3. c[1] = committed /\ c[2] = ops
  OBVIOUS
<1>. HIDE DEF k, c
<1>4. /\ committed' \in Seq(DocSpace) /\ OncePerNote(committed')
      /\ \A x \in DocSpace : (\A j \in 1..k : About(ops[j]) # x.note) =>
            (x \in Found(committed') <=> x \in Found(committed))
      /\ ops[k].op = "delete" => \A x \in Found(committed') : x.note # ops[k].note
      /\ ops[k].op = "add" => ops[k].doc \in Found(committed')
  BY <1>2, <1>3 DEF Applied, k
<1>5. promised' = [m \in SearchNotes |-> IF m = n THEN what ELSE promised[m]]
  BY DEF TantivyInv
<1>6. \/ promised'[n] = NotIndexed /\ \A x \in Found(committed') : x.note # n
      \/ /\ promised'[n] \in DocSpace /\ promised'[n].note = n
         /\ promised'[n] \in Found(committed')
  <2>1. CASE what = NotIndexed /\ ops[k] = DeleteTerm(n)
    BY <1>4, <1>5, <2>1 DEF DeleteTerm
  <2>2. CASE what \in DocSpace /\ what.note = n /\ ops[k] = AddDocument(what)
    BY <1>4, <1>5, <2>2 DEF AddDocument
  <2>. QED
    BY <2>1, <2>2 DEF k
<1>7. ASSUME NEW m \in SearchNotes, m # n
      PROVE  \/ promised'[m] = Unknown
             \/ promised'[m] = NotIndexed /\ \A x \in Found(committed') : x.note # m
             \/ /\ promised'[m] \in DocSpace /\ promised'[m].note = m
                /\ promised'[m] \in Found(committed')
  <2>1. promised'[m] = promised[m]
    BY <1>5, <1>7
  <2>2. Found(committed') \subseteq DocSpace /\ Found(committed) \subseteq DocSpace
    BY <1>1, <1>4 DEF Found
  <2>3. CASE promised[m] # Unknown
    <3>1. \A j \in 1..k : About(ops[j]) # m
      BY <1>1, <1>7, <2>3 DEF Concerns
    <3>2. \A x \in DocSpace : x.note = m => (x \in Found(committed') <=> x \in Found(committed))
      BY <1>4, <3>1
    <3>. QED
      BY <2>1, <2>2, <2>3, <3>2 DEF TantivyInv
  <2>. QED
    BY <2>1, <2>3
<1>. QED
  <2>1. DOMAIN queued' = {} /\ queued' \in Seq(OpSpace) /\ Paired(queued')
    BY DEF Paired
  <2>2. promised' = [m \in SearchNotes |-> promised'[m]]
    BY <1>5
  <2>. QED
    BY <1>4, <1>6, <1>7, <2>1, <2>2 DEF TantivyInv

\* A failure leaves the index and promises nothing of its note.
LEMMA FailureKeeps ==
    ASSUME TantivyInv, NEW n \in SearchNotes, NEW ops, Concerns(ops, n),
           promised' = [promised EXCEPT ![n] = Unknown],
           committed' = committed, queued' = ops
    PROVE  TantivyInv'
<1>1. promised' = [m \in SearchNotes |-> IF m = n THEN Unknown ELSE promised[m]]
  BY DEF TantivyInv
<1>2. \A i \in DOMAIN ops : About(ops[i]) \in SearchNotes
  BY OpFields DEF Concerns
<1>3. \A i \in DOMAIN ops : promised'[About(ops[i])] = Unknown
  BY <1>1, <1>2 DEF Concerns
<1>4. \A m \in SearchNotes : promised'[m] = Unknown \/ promised'[m] = promised[m]
  BY <1>1
<1>5. promised' = [m \in SearchNotes |-> promised'[m]]
  BY <1>1
<1>. QED
  BY <1>3, <1>4, <1>5 DEF Concerns, TantivyInv

\* A failed commit leaves all it was given, or the deletions.
LEMMA FailedConcerns ==
    ASSUME TantivyInv, NEW n \in SearchNotes, NEW operations,
           Concerns(queued \o operations, n), CommitFails(operations)
    PROVE  committed' = committed /\ Concerns(queued', n)
<1>. DEFINE ops == queued \o operations
            q == Kept(ops, LAMBDA o : o.op = "delete")
<1>1. committed' = committed /\ (queued' = ops \/ queued' = q)
  BY DEF CommitFails
<1>2. ops \in Seq(OpSpace)
  BY DEF Concerns
<1>3. /\ q \in Seq(OpSpace) /\ Paired(q)
      /\ \A i \in DOMAIN q : \E j \in DOMAIN ops : q[i] = ops[j]
  <2>. HIDE DEF ops
  <2>. QED
    BY <1>2, QueueDeletions
<1>4. Concerns(ops, n)
  OBVIOUS
<1>. HIDE DEF ops, q
<1>5. Concerns(q, n)
  BY <1>3, <1>4 DEF Concerns
<1>. QED
  BY <1>1, <1>4, <1>5

\* The documents callers index.
LEMMA DocumentsSound ==
    ASSUME NEW n \in SearchNotes, NEW doc \in Documents(n)
    PROVE  doc \in DocSpace /\ doc.note = n
BY DEF Documents, DocSpace

\* Every call keeps what the index has promised.
LEMMA TantivyKeeps ==
    ASSUME TantivyInv, [TantivyNext]_tantivyVars
    PROVE  TantivyInv'
<1>1. CASE UNCHANGED tantivyVars
  BY <1>1 DEF tantivyVars, TantivyInv
<1>2. ASSUME NEW n \in SearchNotes, NEW doc \in Documents(n), TantivyIndexNote(n, doc)
      PROVE  TantivyInv'
  <2>. DEFINE ops == queued \o Replaced(n, doc)
  <2>1. doc \in DocSpace /\ doc.note = n
    BY DocumentsSound
  <2>2. Concerns(ops, n)
    BY <2>1, ConcernsCalls
  <2>3. Len(ops) # 0 /\ ops[Len(ops)] = AddDocument(doc)
    <3>1. queued \in Seq(OpSpace) /\ Paired(queued) /\ Len(queued) \in Nat
      BY DEF TantivyInv
    <3>2. Len(ops) = Len(queued) + 2 /\ ops[Len(ops)] = AddDocument(doc)
      BY <2>1, <3>1, QueueReplaced
    <3>. QED
      BY <3>1, <3>2
  <2>4. /\ promised' = [promised EXCEPT ![n] = doc]
        /\ committed' = FoldLeft(WithOperation, committed, ops) /\ queued' = << >>
    BY <1>2 DEF TantivyIndexNote, Promise, Commit
  <2>. HIDE DEF ops
  <2>. QED
    BY <2>1, <2>2, <2>3, <2>4, CommitKeeps
<1>3. ASSUME NEW n \in SearchNotes, NEW doc \in Documents(n), TantivyIndexNoteFails(n, doc)
      PROVE  TantivyInv'
  <2>1. doc \in DocSpace /\ doc.note = n
    BY DocumentsSound
  <2>2. Concerns(queued \o Replaced(n, doc), n) /\ Concerns(queued \o <<DeleteTerm(n)>>, n)
    BY <2>1, ConcernsCalls
  <2>3. promised' = [promised EXCEPT ![n] = Unknown]
    BY <1>3 DEF TantivyIndexNoteFails, Promise
  <2>4. CASE queued' = Append(queued, DeleteTerm(n)) /\ UNCHANGED committed
    <3>1. queued \o <<DeleteTerm(n)>> = Append(queued, DeleteTerm(n))
      BY DEF TantivyInv
    <3>. QED
      BY <2>2, <2>3, <2>4, <3>1, FailureKeeps
  <2>5. CASE CommitFails(Replaced(n, doc))
    BY <2>2, <2>3, <2>5, FailedConcerns, FailureKeeps
  <2>. QED
    BY <1>3, <2>4, <2>5 DEF TantivyIndexNoteFails
<1>4. ASSUME NEW n \in SearchNotes, TantivyRemoveNote(n) PROVE TantivyInv'
  <2>. DEFINE ops == queued \o <<DeleteTerm(n)>>
  <2>1. queued \in Seq(OpSpace) /\ Paired(queued) /\ Len(queued) \in Nat
    BY DEF TantivyInv
  <2>2. /\ Len(ops) = Len(queued) + 1 /\ ops[Len(ops)] = DeleteTerm(n)
        /\ Concerns(ops, n)
    <3>1. /\ ops \in Seq(OpSpace) /\ Paired(ops) /\ Len(ops) = Len(queued) + 1
          /\ ops[Len(ops)] = DeleteTerm(n)
          /\ \A i \in DOMAIN ops : (i \in DOMAIN queued /\ ops[i] = queued[i]) \/ ops[i] = DeleteTerm(n)
      BY <2>1, QueueDelete
    <3>. HIDE DEF ops
    <3>. QED
      BY <3>1, AboutOne DEF Concerns, TantivyInv
  <2>3. /\ promised' = [promised EXCEPT ![n] = NotIndexed]
        /\ committed' = FoldLeft(WithOperation, committed, ops) /\ queued' = << >>
    BY <1>4 DEF TantivyRemoveNote, Promise, Commit
  <2>. HIDE DEF ops
  <2>4. Len(ops) # 0
    BY <2>1, <2>2
  <2>. QED
    BY <2>2, <2>3, <2>4, CommitKeeps
<1>5. ASSUME NEW n \in SearchNotes, TantivyRemoveNoteFails(n) PROVE TantivyInv'
  <2>. DEFINE ops == queued \o <<DeleteTerm(n)>>
  <2>1. queued \in Seq(OpSpace) /\ Paired(queued)
    BY DEF TantivyInv
  <2>2. Concerns(ops, n)
    <3>1. /\ ops \in Seq(OpSpace) /\ Paired(ops)
          /\ \A i \in DOMAIN ops : (i \in DOMAIN queued /\ ops[i] = queued[i]) \/ ops[i] = DeleteTerm(n)
      BY <2>1, QueueDelete
    <3>. HIDE DEF ops
    <3>. QED
      BY <3>1, AboutOne DEF Concerns, TantivyInv
  <2>3. promised' = [promised EXCEPT ![n] = Unknown] /\ CommitFails(<<DeleteTerm(n)>>)
    BY <1>5 DEF TantivyRemoveNoteFails, Promise
  <2>. QED
    BY <2>2, <2>3, FailedConcerns, FailureKeeps
<1>6. ASSUME TantivyRebuildIndex PROVE TantivyInv'
  <2>1. /\ committed' = << >> /\ queued' = << >>
        /\ promised' = [n \in SearchNotes |-> NotIndexed]
    BY <1>6 DEF TantivyRebuildIndex
  <2>. QED
    BY <2>1 DEF TantivyInv, OncePerNote, Paired, Found
<1>7. ASSUME TantivyRebuildFails PROVE TantivyInv'
  <2>1. /\ committed' = committed \/ committed' = << >>
        /\ queued' = queued
        /\ promised' = [n \in SearchNotes |-> Unknown]
    BY <1>7 DEF TantivyRebuildFails
  <2>2. committed' \in Seq(DocSpace) /\ OncePerNote(committed')
    <3>1. CASE committed' = committed
      BY <3>1 DEF TantivyInv, OncePerNote
    <3>2. CASE committed' = << >>
      BY <3>2 DEF OncePerNote
    <3>. QED
      BY <2>1, <3>1, <3>2
  <2>3. queued \in Seq(OpSpace) /\ Paired(queued)
    BY DEF TantivyInv
  <2>4. \A i \in DOMAIN queued : About(queued[i]) \in SearchNotes
    BY <2>3, OpFields
  <2>. QED
    BY <2>1, <2>2, <2>3, <2>4 DEF TantivyInv
<1>. QED
  BY <1>1, <1>2, <1>3, <1>4, <1>5, <1>6, <1>7 DEF TantivyNext

\* What is promised of a note is what a search for it finds.
LEMMA TantivyFinds ==
    ASSUME TantivyInv
    PROVE  TantivyTypeOK /\ AnsweredStaysFound
<1>1. TantivyTypeOK
  <2>1. ASSUME queued # << >> PROVE \E n \in SearchNotes : promised[n] = Unknown
    <3>1. queued \in Seq(OpSpace) /\ \A i \in DOMAIN queued : promised[About(queued[i])] = Unknown
      BY DEF TantivyInv
    <3>2. 1 \in DOMAIN queued /\ queued[1] \in OpSpace
      BY <2>1, <3>1
    <3>3. About(queued[1]) \in SearchNotes
      BY <3>2, OpFields
    <3>. QED
      BY <3>1, <3>2, <3>3
  <2>. QED
    BY <2>1 DEF TantivyTypeOK, TantivyInv, OncePerNote
<1>2. AnsweredStaysFound
  <2>. SUFFICES ASSUME NEW n \in SearchNotes, promised[n] # Unknown, NEW word \in Words,
                       NEW folders \in {{}} \cup {{f} : f \in SearchFolders},
                       NEW tags \in SUBSET SearchTags
                PROVE  {committed[i] : i \in
                          {j \in TantivySearch(word, folders, tags) : committed[j].note = n}}
                       = {doc \in {promised[n]} :
                            /\ doc # NotIndexed
                            /\ word \in doc.words
                            /\ folders = {} \/ doc.folder \in folders
                            /\ tags \subseteq doc.tags}
    BY DEF AnsweredStaysFound
  <2>. DEFINE hit == {j \in TantivySearch(word, folders, tags) : committed[j].note = n}
              Fits(doc) == /\ word \in doc.words
                           /\ folders = {} \/ doc.folder \in folders
                           /\ tags \subseteq doc.tags
              answer == {doc \in {promised[n]} : doc # NotIndexed /\ Fits(doc)}
  <2>1. \A j : j \in hit <=> j \in DOMAIN committed /\ committed[j].note = n /\ Fits(committed[j])
    BY DEF TantivySearch
  <2>. HIDE DEF hit, Fits
  <2>2. \A x : x \in {committed[i] : i \in hit} <=>
               \E i \in DOMAIN committed : x = committed[i] /\ x.note = n /\ Fits(x)
    BY <2>1
  <2>3. CASE promised[n] = NotIndexed /\ \A x \in Found(committed) : x.note # n
    <3>1. {committed[i] : i \in hit} = {} /\ answer = {}
      BY <2>2, <2>3 DEF Found
    <3>. QED
      BY <3>1 DEF hit, Fits
  <2>4. CASE /\ promised[n] \in DocSpace /\ promised[n].note = n
             /\ promised[n] \in Found(committed)
    <3>1. PICK i \in DOMAIN committed : committed[i] = promised[n]
      BY <2>4 DEF Found
    <3>2. \A j \in DOMAIN committed : committed[j].note = n => j = i
      BY <2>4, <3>1 DEF TantivyInv, OncePerNote
    <3>3. promised[n] # NotIndexed
      BY <2>4, DocsDiffer
    <3>4. {committed[j] : j \in hit} = answer
      BY <2>2, <2>4, <3>1, <3>2, <3>3
    <3>. QED
      BY <3>4 DEF hit, Fits
  <2>5. \/ promised[n] = NotIndexed /\ \A x \in Found(committed) : x.note # n
        \/ /\ promised[n] \in DocSpace /\ promised[n].note = n
           /\ promised[n] \in Found(committed)
    BY DEF TantivyInv
  <2>. QED
    BY <2>3, <2>4, <2>5
<1>. QED
  BY <1>1, <1>2

-----------------------------------------------------------------------------
(* The canvas: nodes at equal gaps *)

WidthOf(order, k) == drawing[order[k]].width

AddWidth(p, e, w) == p + drawing[e].width

Sums == INSTANCE FoldInduction WITH Step <- AddWidth, Holds <- Anything

\* The total width is a fold over the nodes.
LEMMA WidthsFold ==
    ASSUME NEW order
    PROVE  TotalWidth(order) = Sums!Fold(0, order, 0)
BY DEF TotalWidth, AddWidth, Sums!Fold, FoldLeft, MapThenFoldSet, Sums!FoldLeft,
       Sums!MapThenFoldSet, Max, Sums!Max

\* sums[k] is the width of the first k nodes.
SumsAlong(sums, order) ==
    /\ sums[0] = 0
    /\ \A k \in 0..(Len(order) - 1) : sums[k + 1] = sums[k] + WidthOf(order, k + 1)

\* Indices of nodes name nodes of the canvas.
LEMMA NodesNamed ==
    ASSUME CanvasInv, NEW order \in Seq(DOMAIN drawing), NEW k \in 1..Len(order)
    PROVE  /\ order[k] \in DOMAIN drawing
           /\ WidthOf(order, k) \in Nat /\ drawing[order[k]].x \in Int
<1>1. order[k] \in DOMAIN drawing
  OBVIOUS
<1>2. drawing[order[k]] \in NodeSpace
  BY <1>1 DEF CanvasInv
<1>. QED
  BY <1>1, <1>2, NodeFields, CanvasAssumption DEF WidthOf

\* The widths add up to the total width, node by node.
LEMMA WidthsAlong ==
    ASSUME CanvasInv, NEW order \in Seq(DOMAIN drawing)
    PROVE  \E sums : /\ SumsAlong(sums, order) /\ sums[Len(order)] = TotalWidth(order)
                     /\ \A k \in 0..Len(order) : sums[k] \in Nat
<1>. DEFINE n == Len(order)
<1>1. PICK sums : Sums!Traces(sums, 0, order, 0) /\ sums[n] = TotalWidth(order)
  BY WidthsFold, Sums!FoldTrace
<1>2. n \in Nat
  OBVIOUS
<1>3. SumsAlong(sums, order)
  BY <1>1 DEF Sums!Traces, SumsAlong, AddWidth, WidthOf
<1>. DEFINE P == {k \in Nat : k <= n => sums[k] \in Nat}
<1>4. 0 \in P
  BY <1>3 DEF SumsAlong
<1>5. ASSUME NEW k \in P PROVE k + 1 \in P
  <2>1. CASE k + 1 <= n
    <3>1. k \in 0..(n - 1) /\ k + 1 \in 1..n
      BY <1>2, <2>1
    <3>2. sums[k] \in Nat /\ WidthOf(order, k + 1) \in Nat
      BY <1>2, <3>1, NodesNamed
    <3>. QED
      BY <1>3, <3>1, <3>2 DEF SumsAlong
  <2>2. CASE ~(k + 1 <= n)
    BY <2>2
  <2>. QED
    BY <2>1, <2>2
<1>. HIDE DEF P
<1>6. P \in SUBSET Nat
  BY DEF P
<1>7. P = Nat
  BY <1>4, <1>5, <1>6, Orders!SetInduction
<1>8. \A k \in 0..n : sums[k] \in Nat
  BY <1>2, <1>7 DEF P
<1>. QED
  BY <1>1, <1>3, <1>8

PutOne(p, e, w) == PutNext(p, e, w)

\* What a cursor has put after k nodes, c being the start, the nodes and the gap.
CursorAt(p, k, c) ==
    /\ p = [places |-> p.places, next |-> p.next]
    /\ p.places \in Seq(Int) /\ Len(p.places) = k /\ p.next \in Int
    /\ k = 0 => p.next = c[1]
    /\ k > 0 => /\ p.places[1] = c[1]
                /\ p.next = p.places[k] + WidthOf(c[2], k) + c[3]
    /\ \A j \in 1..(k - 1) : p.places[j + 1] = p.places[j] + WidthOf(c[2], j) + c[3]

Puts == INSTANCE FoldInduction WITH Step <- PutOne, Holds <- CursorAt

\* The places are what the cursor of a fold has put.
LEMMA PutsFold ==
    ASSUME NEW start, NEW order, NEW gap
    PROVE  PlacesFrom(start, order, gap)
              = Puts!Fold([places |-> << >>, next |-> start], order, gap).places
BY DEF PlacesFrom, PutOne, Puts!Fold, FoldLeft, MapThenFoldSet, Puts!FoldLeft,
       Puts!MapThenFoldSet, Max, Puts!Max

\* A cursor puts the first node at its start, and each next one past the one before.
LEMMA PlacesFollow ==
    ASSUME CanvasInv, NEW order \in Seq(DOMAIN drawing), NEW start \in Int, NEW gap \in Int,
           NEW places, places = PlacesFrom(start, order, gap)
    PROVE  /\ places \in Seq(Int) /\ Len(places) = Len(order)
           /\ Len(order) > 0 => places[1] = start
           /\ \A j \in 1..(Len(order) - 1) :
                 places[j + 1] = places[j] + WidthOf(order, j) + gap
<1>. DEFINE n == Len(order)
            c == <<start, order, gap>>
            base == [places |-> << >>, next |-> start]
<1>1. CursorAt(base, 0, c)
  <2>1. << >> \in Seq(Int) /\ Len(<< >>) = 0
    OBVIOUS
  <2>. QED
    BY <2>1 DEF CursorAt
<1>2. ASSUME NEW k \in 0..(n - 1), NEW p, CursorAt(p, k, c)
      PROVE  CursorAt(PutOne(p, order[k + 1], gap), k + 1, c)
  <2>. DEFINE q == PutOne(p, order[k + 1], gap)
              w == WidthOf(order, k + 1)
  <2>0. k \in Nat /\ k + 1 \in 1..n
    OBVIOUS
  <2>1. w \in Nat
    BY <2>0, NodesNamed
  <2>2. q = [places |-> Append(p.places, p.next), next |-> p.next + w + gap]
    BY DEF PutOne, PutNext, WidthOf
  <2>. HIDE DEF w, q
  <2>3. q.places = Append(p.places, p.next) /\ q.next = p.next + w + gap
    BY <2>2
  <2>4. /\ p.places \in Seq(Int) /\ Len(p.places) = k /\ p.next \in Int
        /\ k = 0 => p.next = start
        /\ k > 0 => p.places[1] = start /\ p.next = p.places[k] + WidthOf(order, k) + gap
        /\ \A j \in 1..(k - 1) : p.places[j + 1] = p.places[j] + WidthOf(order, j) + gap
    BY <1>2 DEF CursorAt
  <2>5. /\ q.places \in Seq(Int) /\ Len(q.places) = k + 1
        /\ \A j \in 1..k : q.places[j] = p.places[j]
        /\ q.places[k + 1] = p.next
    BY <2>0, <2>3, <2>4
  <2>6. q.next \in Int /\ q.next = q.places[k + 1] + WidthOf(order, k + 1) + gap
    BY <2>1, <2>3, <2>4, <2>5 DEF w
  <2>7. q.places[1] = start
    <3>1. CASE k = 0
      BY <2>4, <2>5, <3>1
    <3>2. CASE k > 0
      BY <2>0, <2>4, <2>5, <3>2
    <3>. QED
      BY <2>0, <3>1, <3>2
  <2>8. ASSUME NEW j \in 1..k
        PROVE  q.places[j + 1] = q.places[j] + WidthOf(order, j) + gap
    <3>1. CASE j = k
      BY <2>0, <2>4, <2>5, <3>1
    <3>2. CASE j < k
      <4>1. j \in 1..(k - 1) /\ j + 1 \in 1..k
        BY <2>0, <3>2
      <4>. QED
        BY <2>4, <2>5, <4>1
    <3>. QED
      BY <2>0, <3>1, <3>2
  <2>9. q = [places |-> q.places, next |-> q.next]
    BY <2>2
  <2>10. k + 1 # 0 /\ (k + 1) - 1 = k
    BY <2>0
  <2>. QED
    BY <2>5, <2>6, <2>7, <2>8, <2>9, <2>10 DEF CursorAt, q
<1>. HIDE DEF base, c
<1>3. CursorAt(Puts!Fold(base, order, gap), n, c)
  BY <1>1, <1>2, Puts!FoldHolds
<1>4. places = Puts!Fold(base, order, gap).places
  BY PutsFold DEF base
<1>. QED
  BY <1>3, <1>4 DEF CursorAt, c

\* Elements gives the sequence itself.
LEMMA ElementsSame ==
    ASSUME NEW S, NEW s \in Seq(S)
    PROVE  Elements(s) = s
BY DEF Elements

\* The nodes named are at least as many as their ids.
LEMMA NamedNodes ==
    ASSUME CanvasInv, NEW ids \in SUBSET DrawnIds
    PROVE  /\ ByPlace(ids) \in Seq(DOMAIN drawing)
           /\ IsFiniteSet(ids) /\ Cardinality(ids) <= Len(ByPlace(ids))
<1>. DEFINE all == [i \in DOMAIN drawing |-> i]
            hits == {i \in DOMAIN all : drawing[all[i]].id \in ids}
            kept == Kept(all, LAMBDA i : drawing[i].id \in ids)
            order == ByPlace(ids)
            key == [m \in DOMAIN kept |-> drawing[kept[m]].x]
<1>1. drawing \in Seq(NodeSpace) /\ Len(drawing) \in Nat /\ DOMAIN drawing = 1..Len(drawing)
  BY DEF CanvasInv
<1>2. all \in Seq(DOMAIN drawing) /\ DOMAIN all = DOMAIN drawing
  BY <1>1
<1>3. hits \in SUBSET DOMAIN all
  OBVIOUS
<1>4. Filters(kept, all, hits)
  BY DEF Kept, Filters
<1>. HIDE DEF kept
<1>12. hits = {i \in DOMAIN drawing : drawing[i].id \in ids}
  BY <1>2
<1>. HIDE DEF all, hits
<1>5. kept \in Seq(DOMAIN drawing) /\ Len(kept) = Cardinality(hits)
  BY <1>2, <1>3, <1>4, FilterPicks
<1>6. DOMAIN kept = 1..Len(kept) /\ \A m \in DOMAIN kept : kept[m] \in DOMAIN drawing
  BY <1>5
<1>7. key \in [DOMAIN kept -> Int]
  <2>1. \A i \in DOMAIN drawing : drawing[i].x \in Int
    <3>1. \A i \in DOMAIN drawing : drawing[i] \in NodeSpace
      BY <1>1
    <3>. QED
      BY <3>1, NodeFields, CanvasAssumption
  <2>. QED
    BY <1>6, <2>1
<1>8. order = Elements(StableSort(kept, LAMBDA i, j : drawing[i].x < drawing[j].x))
  <2>1. Elements(kept) = kept
    BY <1>5, ElementsSame
  <2>2. order = Elements(StableSort(Elements(kept), LAMBDA i, j : drawing[i].x < drawing[j].x))
    BY DEF ByPlace, kept, all
  <2>. HIDE DEF order, kept
  <2>. QED
    BY <2>1, <2>2
<1>. DEFINE sorted == StableSort(kept, LAMBDA i, j : drawing[i].x < drawing[j].x)
<1>9. Sorts(sorted, kept, key)
  <2>1. \A m \in DOMAIN kept : key[m] = drawing[kept[m]].x
    OBVIOUS
  <2>2. ASSUME NEW k \in DOMAIN kept
        PROVE  {j \in DOMAIN kept : drawing[kept[j]].x < drawing[kept[k]].x
                    \/ (~(drawing[kept[k]].x < drawing[kept[j]].x) /\ j <= k)}
               = {j \in DOMAIN kept : key[j] < key[k] \/ (~(key[k] < key[j]) /\ j <= k)}
    BY <2>1
  <2>. DEFINE A(k) == Cardinality({j \in DOMAIN kept : drawing[kept[j]].x < drawing[kept[k]].x
                    \/ (~(drawing[kept[k]].x < drawing[kept[j]].x) /\ j <= k)})
              B(k) == Cardinality({j \in DOMAIN kept :
                    key[j] < key[k] \/ (~(key[k] < key[j]) /\ j <= k)})
  <2>3. \A k \in DOMAIN kept : A(k) = B(k)
    BY <2>2
  <2>4. sorted = [i \in DOMAIN kept |-> kept[CHOOSE k \in DOMAIN kept : A(k) = i]]
    BY DEF StableSort, Place
  <2>. HIDE DEF A, B, sorted
  <2>5. sorted = [i \in DOMAIN kept |-> kept[CHOOSE k \in DOMAIN kept : B(k) = i]]
    BY <2>3, <2>4
  <2>. HIDE DEF key
  <2>. QED
    BY <2>5 DEF B, Sorts
<1>. HIDE DEF key, sorted, order
<1>10. order \in Seq(DOMAIN drawing) /\ Len(order) = Len(kept)
  <2>1. sorted \in Seq(DOMAIN drawing) /\ Len(sorted) = Len(kept)
    BY <1>5, <1>7, <1>9, SortPicks
  <2>2. order = sorted
    BY <1>8, <2>1, ElementsSame DEF sorted
  <2>. QED
    BY <2>1, <2>2
<1>11. IsFiniteSet(ids) /\ Cardinality(ids) <= Cardinality(hits)
  <2>. DEFINE f == [i \in hits |-> drawing[i].id]
  <2>2. IsFiniteSet(hits)
    BY <1>1, <1>2, <1>3, CountIn
  <2>3. f \in [hits -> ids] /\ \A d \in ids : \E i \in hits : f[i] = d
    BY <1>12 DEF DrawnIds
  <2>. HIDE DEF f
  <2>4. f \in Surjection(hits, ids)
    BY <2>3 DEF Surjection
  <2>. QED
    BY <2>2, <2>4, FS_Surjection
<1>. QED
  BY <1>5, <1>10, <1>11 DEF order

\* A product grows with its first factor.
LEMMA OneMore ==
    ASSUME NEW k \in Nat, NEW g \in Int
    PROVE  (k + 1) * g = k * g + g /\ k * g \in Int /\ (k + 1) * g \in Int
OBVIOUS

\* Nodes without overlaps leave a gap that is not negative, and all gaps together
\* are no more than what is free.
LEMMA GapFits ==
    ASSUME NEW free \in Nat, NEW m \in Nat \ {0}
    PROVE  Quotient(free, m) \in Nat /\ m * Quotient(free, m) <= free
<1>1. Quotient(free, m) = free \div m
  BY DEF Quotient
<1>2. free \div m \in Nat /\ free % m \in 0..(m - 1) /\ free = m * (free \div m) + (free % m)
  BY DivisionTells
<1>. QED
  BY <1>1, <1>2

\* DistributeKeepsOrder, from the sums of the widths and a gap that is not negative.
LEMMA DistributedInOrder == ASSUME CanvasInv PROVE DistributeKeepsOrder
<1>. SUFFICES ASSUME NEW ids \in SUBSET DrawnIds, Cardinality(ids) >= 2,
                     \A k \in 1..(Len(ByPlace(ids)) - 1) :
                        drawing[ByPlace(ids)[k]].x + drawing[ByPlace(ids)[k]].width
                           <= drawing[ByPlace(ids)[k + 1]].x
              PROVE  LET order == ByPlace(ids)
                         places == Distributed(order)
                         last == drawing[order[Len(order)]]
                     IN  /\ \A k \in 1..(Len(order) - 1) :
                               places[k] + drawing[order[k]].width <= places[k + 1]
                         /\ places[Len(order)] <= last.x
                         /\ places[1] = drawing[order[1]].x
  BY DEF DistributeKeepsOrder
<1>. DEFINE order == ByPlace(ids)
            n == Len(order)
            X(k) == drawing[order[k]].x
            W(k) == WidthOf(order, k)
            gap == Quotient((X(n) + W(n) - X(1)) - TotalWidth(order), n - 1)
            places == Distributed(order)
<1>1. order \in Seq(DOMAIN drawing) /\ n \in Nat /\ n >= 2
  <2>1. Cardinality(ids) \in Nat
    BY NamedNodes, FS_CardinalityType
  <2>2. order \in Seq(DOMAIN drawing) /\ Cardinality(ids) <= n
    BY NamedNodes
  <2>. HIDE DEF order
  <2>. QED
    BY <2>1, <2>2
<1>2. places = PlacesFrom(X(1), order, gap)
  BY DEF Distributed, WidthOf
<1>3. \A k \in 1..(n - 1) : X(k) + W(k) <= X(k + 1)
  BY DEF WidthOf
<1>. HIDE DEF order, places
<1>4. \A k \in 1..n : X(k) \in Int /\ W(k) \in Nat
  BY <1>1, NodesNamed
<1>5. PICK sums : /\ SumsAlong(sums, order) /\ sums[n] = TotalWidth(order)
                  /\ \A k \in 0..n : sums[k] \in Nat
  BY <1>1, WidthsAlong
<1>. HIDE DEF X, W, n
<1>6. sums[0] = 0 /\ \A k \in 0..(n - 1) : sums[k + 1] = sums[k] + W(k + 1)
  BY <1>5 DEF SumsAlong, W, n
<1>7. \A k \in 0..(n - 1) : X(1) + sums[k] <= X(k + 1)
  <2>. DEFINE P == {k \in Nat : k <= n - 1 => X(1) + sums[k] <= X(k + 1)}
  <2>1. 0 \in P
    BY <1>1, <1>4, <1>6
  <2>2. ASSUME NEW k \in P PROVE k + 1 \in P
    <3>1. CASE k + 1 <= n - 1
      <4>1. /\ k \in 0..(n - 1) /\ k + 1 \in 1..(n - 1) /\ k + 1 \in 1..n
            /\ (k + 1) + 1 \in 1..n /\ k \in 0..n /\ k + 1 \in 0..n /\ 1 \in 1..n
        BY <1>1, <3>1
      <4>2. X(1) + sums[k] <= X(k + 1) /\ sums[k + 1] = sums[k] + W(k + 1)
        BY <1>1, <1>6, <3>1, <4>1
      <4>3. X(k + 1) + W(k + 1) <= X((k + 1) + 1)
        BY <1>3, <4>1
      <4>4. /\ X(1) \in Int /\ X(k + 1) \in Int /\ X((k + 1) + 1) \in Int
            /\ W(k + 1) \in Nat /\ sums[k] \in Nat /\ sums[k + 1] \in Nat
        BY <1>4, <1>5, <4>1
      <4>. QED
        BY <4>2, <4>3, <4>4
    <3>2. CASE ~(k + 1 <= n - 1)
      BY <3>2
    <3>. QED
      BY <3>1, <3>2
  <2>. HIDE DEF P
  <2>3. P \in SUBSET Nat
    BY DEF P
  <2>4. P = Nat
    BY <2>1, <2>2, <2>3, Orders!SetInduction
  <2>. QED
    BY <1>1, <2>4 DEF P
<1>8. gap \in Nat /\ (n - 1) * gap <= X(n) - X(1) - sums[n - 1]
  <2>. DEFINE free == (X(n) + W(n) - X(1)) - TotalWidth(order)
  <2>1. n - 1 \in Nat \ {0} /\ (n - 1) + 1 = n /\ n - 1 \in 0..(n - 1) /\ n \in 1..n
        /\ 1 \in 1..n /\ n - 1 \in 0..n
    BY <1>1
  <2>2. sums[n] = sums[n - 1] + W(n) /\ X(1) + sums[n - 1] <= X(n)
    BY <1>6, <1>7, <2>1
  <2>3. X(n) \in Int /\ X(1) \in Int /\ W(n) \in Nat /\ sums[n - 1] \in Nat
    BY <1>4, <1>5, <2>1
  <2>4. free \in Nat /\ free = X(n) - X(1) - sums[n - 1]
    BY <1>5, <2>2, <2>3
  <2>5. gap = Quotient(free, n - 1)
    OBVIOUS
  <2>. HIDE DEF free, gap
  <2>. QED
    BY <2>1, <2>4, <2>5, GapFits
<1>. HIDE DEF gap
<1>9. /\ places \in Seq(Int) /\ Len(places) = n /\ places[1] = X(1)
      /\ \A j \in 1..(n - 1) : places[j + 1] = places[j] + W(j) + gap
  <2>1. X(1) \in Int /\ gap \in Int
    BY <1>1, <1>4, <1>8
  <2>. QED
    BY <1>1, <1>2, <2>1, PlacesFollow DEF n, W
<1>10. \A k \in 1..n : places[k] \in Int
  BY <1>9
<1>11. \A k \in 0..(n - 1) : places[k + 1] = X(1) + sums[k] + k * gap
  <2>. DEFINE P == {k \in Nat : k <= n - 1 => places[k + 1] = X(1) + sums[k] + k * gap}
  <2>1. 0 \in P
    <3>1. X(1) \in Int /\ 0 * gap = 0 /\ 0 + 1 = 1
      BY <1>1, <1>4, <1>8
    <3>. QED
      BY <1>6, <1>9, <3>1
  <2>2. ASSUME NEW k \in P PROVE k + 1 \in P
    <3>1. CASE k + 1 <= n - 1
      <4>1. /\ k \in 0..(n - 1) /\ k + 1 \in 1..(n - 1) /\ k + 1 \in 1..n
            /\ k \in 0..n /\ 1 \in 1..n
        BY <1>1, <3>1
      <4>2. /\ places[k + 1] = X(1) + sums[k] + k * gap
            /\ sums[k + 1] = sums[k] + W(k + 1)
            /\ places[(k + 1) + 1] = places[k + 1] + W(k + 1) + gap
        BY <1>1, <1>6, <1>9, <3>1, <4>1
      <4>3. X(1) \in Int /\ W(k + 1) \in Nat /\ sums[k] \in Nat /\ k \in Nat
        BY <1>4, <1>5, <4>1
      <4>4. (k + 1) * gap = k * gap + gap /\ k * gap \in Int /\ (k + 1) * gap \in Int
        <5>1. k \in Nat /\ gap \in Int
          BY <1>8, <4>3
        <5>. QED
          BY <5>1, OneMore
      <4>. QED
        BY <1>8, <4>2, <4>3, <4>4
    <3>2. CASE ~(k + 1 <= n - 1)
      BY <3>2
    <3>. QED
      BY <3>1, <3>2
  <2>. HIDE DEF P
  <2>3. P \in SUBSET Nat
    BY DEF P
  <2>4. P = Nat
    BY <2>1, <2>2, <2>3, Orders!SetInduction
  <2>. QED
    BY <1>1, <2>4 DEF P
<1>12. \A k \in 1..(n - 1) : places[k] + W(k) <= places[k + 1]
  <2>. SUFFICES ASSUME NEW k \in 1..(n - 1) PROVE places[k] + W(k) <= places[k + 1]
    OBVIOUS
  <2>1. k \in 1..n /\ k + 1 \in 1..n
    BY <1>1
  <2>2. places[k] \in Int /\ W(k) \in Nat /\ places[k + 1] = places[k] + W(k) + gap
    BY <1>4, <1>9, <1>10, <2>1
  <2>. QED
    BY <1>8, <2>2
<1>13. places[n] <= X(n)
  <2>1. /\ n - 1 \in 0..(n - 1) /\ (n - 1) + 1 = n /\ n \in 1..n /\ 1 \in 1..n
        /\ n - 1 \in 0..n /\ n - 1 \in Nat
    BY <1>1
  <2>2. places[n] = X(1) + sums[n - 1] + (n - 1) * gap
    BY <1>11, <2>1
  <2>3. X(1) \in Int /\ X(n) \in Int /\ sums[n - 1] \in Nat /\ (n - 1) * gap \in Int
    BY <1>4, <1>5, <1>8, <2>1
  <2>. QED
    BY <1>8, <2>2, <2>3
<1>. QED
  BY <1>9, <1>12, <1>13 DEF X, W, n, WidthOf, order, places

-----------------------------------------------------------------------------
(* The stores together *)

\* Each store keeps to its invariant, whichever of them moves.
StoresInv ==
    /\ NotesInv /\ SearchInv /\ AuditInv /\ VaultInv /\ TantivyInv
    /\ CardsInv /\ TablesInv /\ EditorInv /\ CanvasInv /\ ObjectsInv

\* Every store starts in its invariant.
LEMMA StoresStart == StorePartsInit => StoresInv
BY NotesStart, SearchStart, AuditStart, VaultStart, TantivyStart, CardsStart,
   TablesStart, EditorStart, CanvasStart, ObjectsStart DEF StorePartsInit, StoresInv

\* A step of the stores is a step of each, or leaves it alone.
LEMMA StepOfEach ==
    ASSUME [StorePartsNext]_storePartVars
    PROVE  /\ [StoreNext]_storeVars /\ [SearchNext]_searchVars /\ [AuditNext]_auditVars
           /\ [VaultNext]_vaultVars /\ [TantivyNext]_tantivyVars /\ [CardsNext]_cardVars
           /\ [TablesNext]_tableVars /\ [EditorNext]_editorVars
           /\ [CanvasNext]_canvasVars /\ [ObjectsNext]_objectVars
BY DEF StorePartsNext, storePartVars

\* Every step keeps the invariant of every store, and no call does half of its work.
LEMMA StoresKeep ==
    ASSUME StoresInv, [StorePartsNext]_storePartVars
    PROVE  /\ StoresInv'
           /\ CleanupKeepsSchedule /\ RowsComeWhole /\ NoteAppearsWhole
           /\ OthersKeepOrder /\ SteadyKeyReads
<1>1. NotesInv' /\ NoteAppearsWhole
  BY StepOfEach, NotesKeep DEF StoresInv
<1>2. SearchInv' /\ AuditInv' /\ TantivyInv' /\ CanvasInv'
  BY StepOfEach, SearchKeeps, AuditKeeps, TantivyKeeps, CanvasKeeps DEF StoresInv
<1>3. VaultInv' /\ SteadyKeyReads
  BY StepOfEach, VaultKeeps DEF StoresInv
<1>4. CardsInv' /\ CleanupKeepsSchedule
  BY StepOfEach, CardsKeep DEF StoresInv
<1>5. TablesInv' /\ RowsComeWhole
  BY StepOfEach, TablesKeep DEF StoresInv
<1>6. EditorInv' /\ OthersKeepOrder
  BY StepOfEach, EditorKeeps DEF StoresInv
<1>7. ObjectsInv'
  BY StepOfEach, ObjectsKeep DEF StoresInv
<1>. QED
  BY <1>1, <1>2, <1>3, <1>4, <1>5, <1>6, <1>7 DEF StoresInv

\* The invariants of the stores hold in every reachable state.
THEOREM StoresInvariance == StorePartsSpec => []StoresInv
<1>1. StoresInv /\ [StorePartsNext]_storePartVars => StoresInv'
  BY StoresKeep
<1>. QED
  BY <1>1, StoresStart, PTL DEF StorePartsSpec

\* Every table, index, thread and drawing has its type, for any numbers of notes,
\* cards, rows, objects, users and threads.
THEOREM StoresTypeCorrect == StorePartsSpec => []StorePartsTypeOK
<1>1. StoresInv => StorePartsTypeOK
  <2>. SUFFICES ASSUME StoresInv PROVE StorePartsTypeOK
    OBVIOUS
  <2>1. CardsTypeOK /\ TablesTypeOK /\ ObjectsTypeOK /\ StoreTypeOK
    BY CardsAnswer, ObjectsAnswer DEF StoresInv, TablesInv, NotesInv
  <2>2. AuditTypeOK /\ EditorTypeOK /\ CanvasTypeOK
    BY PagesComplete, EditorSound, CanvasTyped DEF StoresInv
  <2>3. SearchTypeOK /\ TantivyTypeOK /\ VaultTypeOK
    BY SearchFinds, TantivyFinds, VaultAnswers DEF StoresInv
  <2>. QED
    BY <2>1, <2>2, <2>3 DEF StorePartsTypeOK
<1>. QED
  BY <1>1, StoresInvariance, PTL

\* Records have their card, cells their row and field, fields, rows and views their
\* database, links both ends, in whatever order the deletes and their cascades come.
\* Filters and sorts of a view may name fields that are gone.
THEOREM NothingStaysBehind == StorePartsSpec => []NothingLeftBehind
<1>1. StoresInv => NothingLeftBehind
  BY CardsAnswer DEF StoresInv, TablesInv, NotesInv, NothingLeftBehind
<1>. QED
  BY <1>1, StoresInvariance, PTL

\* Types are whole, what is related can be loaded, and update_object never
\* answers a state before its own write, however many threads come between.
THEOREM ObjectsStayWhole == StorePartsSpec => []ObjectsHold
<1>1. StoresInv => ObjectsHold
  BY ObjectsAnswer DEF StoresInv
<1>. QED
  BY <1>1, StoresInvariance, PTL

\* Both search indexes find what an answered call told them until a later call for
\* the note, failed calls and commits for others between them included, and the
\* filters drop no row that fits.  A rebuild of the tantivy index ends the promises.
THEOREM SearchesAlwaysFind == StorePartsSpec => []SearchesFind
<1>1. StoresInv => SearchesFind
  BY SearchFinds, TantivyFinds, EmptySplits DEF StoresInv, SearchesFind
<1>. QED
  BY <1>1, StoresInvariance, PTL

\* A cleanup keeps the schedules, rows and notes come with the cells and tags their
\* own call gave them, a move keeps the order of the others, and a read of the vault
\* under a steady key opens every note.
THEOREM CallsAreComplete == StorePartsSpec => CallsComplete
<1>1. StoresInv /\ [StorePartsNext]_storePartVars =>
         [/\ part = "cards" => CleanupKeepsSchedule
          /\ part = "tables" => RowsComeWhole
          /\ part = "notes" => NoteAppearsWhole
          /\ part = "editor" => OthersKeepOrder
          /\ part = "vault" => SteadyKeyReads]_storePartVars
  BY StoresKeep
<1>. QED
  BY <1>1, StoresInvariance, PTL DEF StorePartsSpec, CallsComplete

\* OrdersHold: fields, blocks and the cells of the grid have places of their own,
\* rows are sorted by the first key in which they differ, arrows lead to lower
\* layers, and distributed nodes neither overlap nor change their order.
THEOREM OrdersAlwaysHold == StorePartsSpec => []OrdersHold
<1>1. StoresInv => OrdersHold
  <2>1. TablesInv => FieldsInOrder /\ SortsNest
    BY SortsDoNest DEF TablesInv
  <2>2. CanvasInv => LayersDescend /\ GridDistinct /\ DistributeKeepsOrder
    BY LayersRight, GridApart, DistributedInOrder
  <2>. QED
    BY <2>1, <2>2, EditorSound DEF StoresInv, OrdersHold
<1>. QED
  BY <1>1, StoresInvariance, PTL

\* With a single thread that changes the password, the schedules stay in the
\* bounds of SM-2, statistics add up, pages miss no entry, and the vault answers
\* texts and keeps its key and its salt together; with two threads it need not.
THEOREM AnswersStayTrue ==
    ASSUME \E k : VaultKeepers = {k}
    PROVE  StorePartsSpec => []AnswersHold
<1>1. VaultKeepers # {} /\ \A k, l \in VaultKeepers : k = l
  OBVIOUS
<1>2. StorePartsInit => OneKeeper
  BY OneKeeperStart DEF StorePartsInit
<1>3. StoresInv /\ OneKeeper /\ [StorePartsNext]_storePartVars => OneKeeper'
  BY <1>1, StepOfEach, OneKeeperKeeps DEF StoresInv
<1>4. StoresInv /\ OneKeeper => AnswersHold
  BY <1>1, CardsAnswer, PagesComplete, VaultAnswers, OneKeeperFits
     DEF StoresInv, AnswersHold
<1>. QED
  BY <1>2, <1>3, <1>4, StoresInvariance, PTL DEF StorePartsSpec
=============================================================================
