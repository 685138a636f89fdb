----------------------------- MODULE NoteStore -----------------------------
(***************************************************************************)
(* The notes database of devnote-persistence: notes, folders, tags,        *)
(* attachments and workspaces, one statement or one transaction a call     *)
(* under the connection's lock.  Foreign keys hold for tags, attachments   *)
(* and members; a folder is only a name in its notes and subfolders.       *)
(* EncryptedNoteRepository stores other contents by the same statements.   *)
(***************************************************************************)
EXTENDS SqlRows, Sequences, FiniteSets

CONSTANTS
    NoteIds,
    FolderIds,
    TagIds,
    AttachmentIds,
    WorkspaceIds,
    MemberIds,
    TagLists,   \* the tags a note may be created with
    NoTopFolder

ASSUME StoreAssumption ==
    TagLists \subseteq Seq(TagIds) /\ NoTopFolder \notin FolderIds

VARIABLES
    noteRows,        \* the folder of each note
    folderRows,      \* the parent of each folder
    tagRows,
    noteTags,        \* pairs of a note and a tag
    attachmentRows,  \* the note of each attachment
    workspaceRows,
    memberRows,      \* the workspace of each member
    createdNote      \* the note and the tags of a create_note, as the call gave them

storeVars ==
    <<noteRows, folderRows, tagRows, noteTags, attachmentRows,
      workspaceRows, memberRows, createdNote>>

NotCreated == [note |-> "none"]

StoreInit ==
    /\ noteRows = NoRows
    /\ folderRows = NoRows
    /\ tagRows = {}
    /\ noteTags = {}
    /\ attachmentRows = NoRows
    /\ workspaceRows = {}
    /\ memberRows = NoRows
    /\ createdNote = NotCreated

ListedTags(list) == {list[i] : i \in DOMAIN list}

\* Variant: no transaction; the links end at the first unknown tag.
CreateNoteInSteps(n) ==
    \E f \in FolderIds, list \in TagLists :
        /\ n \notin DOMAIN noteRows
        /\ noteRows' = InsertRow(noteRows, n, f)
        /\ noteTags' = noteTags \cup ({n} \X
              {list[i] : i \in {j \in DOMAIN list :
                                  ListedTags(SubSeq(list, 1, j)) \subseteq tagRows}})
        /\ createdNote' = [note |-> n, tags |-> list]
        /\ UNCHANGED <<folderRows, tagRows, attachmentRows, workspaceRows, memberRows>>

\* One transaction: an unknown tag takes the note back, a repeated one is ignored.
CreateNote(n) ==
    \E f \in FolderIds, list \in TagLists :
        /\ n \notin DOMAIN noteRows
        /\ ListedTags(list) \subseteq tagRows
        /\ noteRows' = InsertRow(noteRows, n, f)
        /\ noteTags' = noteTags \cup ({n} \X ListedTags(list))
        /\ createdNote' = [note |-> n, tags |-> list]
        /\ UNCHANGED <<folderRows, tagRows, attachmentRows, workspaceRows, memberRows>>

\* The rows that refer to a deleted note go with it.
DeleteNote(n) ==
    /\ n \in DOMAIN noteRows
    /\ noteRows' = DeleteRow(noteRows, n)
    /\ noteTags' = {link \in noteTags : link[1] # n}
    /\ attachmentRows' = KeepRows(attachmentRows,
          {a \in DOMAIN attachmentRows : attachmentRows[a] # n})
    /\ UNCHANGED <<folderRows, tagRows, workspaceRows, memberRows>>

\* The parent is not looked up, neither here nor in an update.
WriteFolder(f) ==
    \E parent \in FolderIds \cup {NoTopFolder} :
        /\ folderRows' = InsertRow(folderRows, f, parent)
        /\ UNCHANGED <<noteRows, tagRows, noteTags, attachmentRows,
                       workspaceRows, memberRows>>

CreateFolder(f) == f \notin DOMAIN folderRows /\ WriteFolder(f)

UpdateFolder(f) == f \in DOMAIN folderRows /\ WriteFolder(f)

\* The notes and folders in it stay, and keep the name of their folder.
DeleteFolder(f) ==
    /\ f \in DOMAIN folderRows
    /\ folderRows' = DeleteRow(folderRows, f)
    /\ UNCHANGED <<noteRows, tagRows, noteTags, attachmentRows,
                   workspaceRows, memberRows>>

CreateTag(t) ==
    /\ t \notin tagRows
    /\ tagRows' = tagRows \cup {t}
    /\ UNCHANGED <<noteRows, folderRows, noteTags, attachmentRows,
                   workspaceRows, memberRows>>

\* Variant: the links to the tag stay.
DeleteTagOnly(t) ==
    /\ t \in tagRows
    /\ tagRows' = tagRows \ {t}
    /\ UNCHANGED <<noteRows, folderRows, noteTags, attachmentRows, workspaceRows,
                   memberRows>>

DeleteTag(t) ==
    /\ t \in tagRows
    /\ tagRows' = tagRows \ {t}
    /\ noteTags' = {link \in noteTags : link[2] # t}
    /\ UNCHANGED <<noteRows, folderRows, attachmentRows, workspaceRows, memberRows>>

\* Variant: the two ids are bound in the wrong order.
AddTagToNoteSwapped(n, t) ==
    /\ n \in DOMAIN noteRows /\ t \in tagRows
    /\ noteTags' = noteTags \cup {<<t, n>>}
    /\ UNCHANGED <<noteRows, folderRows, tagRows, attachmentRows,
                   workspaceRows, memberRows>>

AddTagToNote(n, t) ==
    /\ n \in DOMAIN noteRows /\ t \in tagRows
    /\ <<n, t>> \notin noteTags
    /\ noteTags' = noteTags \cup {<<n, t>>}
    /\ UNCHANGED <<noteRows, folderRows, tagRows, attachmentRows,
                   workspaceRows, memberRows>>

RemoveTagFromNote(n, t) ==
    /\ noteTags' = noteTags \ {<<n, t>>}
    /\ UNCHANGED <<noteRows, folderRows, tagRows, attachmentRows,
                   workspaceRows, memberRows>>

CreateAttachment(a, n) ==
    /\ a \notin DOMAIN attachmentRows
    /\ n \in DOMAIN noteRows
    /\ attachmentRows' = InsertRow(attachmentRows, a, n)
    /\ UNCHANGED <<noteRows, folderRows, tagRows, noteTags, workspaceRows, memberRows>>

DeleteAttachment(a) ==
    /\ a \in DOMAIN attachmentRows
    /\ attachmentRows' = DeleteRow(attachmentRows, a)
    /\ UNCHANGED <<noteRows, folderRows, tagRows, noteTags, workspaceRows, memberRows>>

CreateWorkspace(w) ==
    /\ w \notin workspaceRows
    /\ workspaceRows' = workspaceRows \cup {w}
    /\ UNCHANGED <<noteRows, folderRows, tagRows, noteTags, attachmentRows, memberRows>>

DeleteWorkspace(w) ==
    /\ w \in workspaceRows
    /\ workspaceRows' = workspaceRows \ {w}
    /\ memberRows' = KeepRows(memberRows,
          {m \in DOMAIN memberRows : memberRows[m] # w})
    /\ UNCHANGED <<noteRows, folderRows, tagRows, noteTags, attachmentRows>>

CreateWorkspaceMember(m, w) ==
    /\ m \notin DOMAIN memberRows
    /\ w \in workspaceRows
    /\ memberRows' = InsertRow(memberRows, m, w)
    /\ UNCHANGED <<noteRows, folderRows, tagRows, noteTags, attachmentRows,
                   workspaceRows>>

DeleteWorkspaceMember(m) ==
    /\ m \in DOMAIN memberRows
    /\ memberRows' = DeleteRow(memberRows, m)
    /\ UNCHANGED <<noteRows, folderRows, tagRows, noteTags, attachmentRows,
                   workspaceRows>>

StoreNext ==
    \/ \E n \in NoteIds : CreateNote(n)
    \/ /\ createdNote' = NotCreated
       /\ \/ \E n \in NoteIds :
                \/ DeleteNote(n)
                \/ \E t \in TagIds : AddTagToNote(n, t) \/ RemoveTagFromNote(n, t)
                \/ \E a \in AttachmentIds : CreateAttachment(a, n)
          \/ \E f \in FolderIds : CreateFolder(f) \/ UpdateFolder(f) \/ DeleteFolder(f)
          \/ \E t \in TagIds : CreateTag(t) \/ DeleteTag(t)
          \/ \E a \in AttachmentIds : DeleteAttachment(a)
          \/ \E w \in WorkspaceIds :
                \/ CreateWorkspace(w) \/ DeleteWorkspace(w)
                \/ \E m \in MemberIds : CreateWorkspaceMember(m, w)
          \/ \E m \in MemberIds : DeleteWorkspaceMember(m)

StoreSpec == StoreInit /\ [][StoreNext]_storeVars

(* The lists the callers show. *)

ListNotes(f) == {n \in DOMAIN noteRows : noteRows[n] = f}

ListFolders(parent) == {f \in DOMAIN folderRows : folderRows[f] = parent}

NoteIdsByTag(t) == {n \in NoteIds : <<n, t>> \in noteTags}

-----------------------------------------------------------------------------
\* The tables have the types of their rows.
StoreTypeOK ==
    /\ DOMAIN noteRows \subseteq NoteIds /\ tagRows \subseteq TagIds
    /\ noteTags \subseteq NoteIds \X TagIds
    /\ \A n \in DOMAIN noteRows : noteRows[n] \in FolderIds
    /\ \A f \in DOMAIN folderRows : folderRows[f] \in FolderIds \cup {NoTopFolder}
    /\ DOMAIN attachmentRows \subseteq AttachmentIds
    /\ workspaceRows \subseteq WorkspaceIds /\ DOMAIN memberRows \subseteq MemberIds

\* Whatever is deleted, in whichever order, no link, attachment or member is
\* left behind: a list by tag names only notes there are.
LinksWhole ==
    /\ \A t \in TagIds : NoteIdsByTag(t) \subseteq DOMAIN noteRows
    /\ \A link \in noteTags : link[2] \in tagRows
    /\ \A a \in DOMAIN attachmentRows : attachmentRows[a] \in DOMAIN noteRows
    /\ \A m \in DOMAIN memberRows : memberRows[m] \in workspaceRows

\* A note appears with all the tags its create_note was called with and no others,
\* or not at all: neither a call that fails at an unknown tag nor links left by an
\* earlier note or tag with its id show.
NoteAppearsWhole ==
    /\ \A n \in DOMAIN noteRows' \ DOMAIN noteRows :
          /\ createdNote'.note = n
          /\ \A t \in TagIds : <<n, t>> \in noteTags' <=> t \in ListedTags(createdNote'.tags)
    /\ \A t \in tagRows' \ tagRows : NoteIdsByTag(t)' = {}
=============================================================================
