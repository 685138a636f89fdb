---------------------------- MODULE BlockEditor ----------------------------
(***************************************************************************)
(* The block editor of devnote-editor: one vector of blocks for all notes, *)
(* ordered within a note by a position that every call shifts by hand.     *)
(* Contents and types of blocks do not change their order and are left     *)
(* out; parents are arguments the code ignores.                            *)
(***************************************************************************)
EXTENDS Integers, SequencesExt, StableOrder

CONSTANTS
    Notes,
    MaxBlocks,    \* bound on the blocks ever created
    MaxPlace      \* the largest position a call asks for

VARIABLES
    blocks,       \* DefaultBlockEditor.blocks: [id, note, position]
    created,      \* number of block ids drawn
    parsedOver,   \* history: notes parse_markdown added blocks to that had some
    named         \* history: the blocks the last call was about

editorVars == <<blocks, created, parsedOver, named>>

EditorInit == blocks = << >> /\ created = 0 /\ parsedOver = {} /\ named = {}

NewBlock(id, note, position) == [id |-> id, note |-> note, position |-> position]

BlockIdsOf(list) == {list[i].id : i \in DOMAIN list}

BlockOf(list, id) == list[FirstIndex(list, LAMBDA b : b.id = id)]

InNote(list, note) == Kept(list, LAMBDA b : b.note = note)

\* The blocks of the note at the positions in places move by one.
ShiftBlocks(note, places, by) ==
    [i \in DOMAIN blocks |->
        IF blocks[i].note = note /\ blocks[i].position \in places
        THEN [blocks[i] EXCEPT !.position = @ + by] ELSE blocks[i]]

\* Variant: the block at the position stays where it is.
CreateBlockAfter(note, position) ==
    /\ created < MaxBlocks
    /\ created' = created + 1
    /\ blocks' = Append(ShiftBlocks(note, {p \in Int : p > position}, 1),
                        NewBlock(created', note, position))
    /\ named' = {created'}
    /\ UNCHANGED parsedOver

\* create_block and insert_block: make room, then append to the vector.
CreateBlock(note, position) ==
    /\ created < MaxBlocks
    /\ created' = created + 1
    /\ blocks' = Append(ShiftBlocks(note, {p \in Int : p >= position}, 1),
                        NewBlock(created', note, position))
    /\ named' = {created'}
    /\ UNCHANGED parsedOver

\* Variant: all blocks of the note move up.
DeleteBlockShiftsAll(id) ==
    LET block == BlockOf(blocks, id)
        shifted == ShiftBlocks(block.note, Int, -1)
    IN  /\ id \in BlockIdsOf(blocks)
        /\ blocks' = Kept(shifted, LAMBDA b : b.id # id)
        /\ named' = {id}
        /\ UNCHANGED <<created, parsedOver>>

\* delete_block and remove_block: close the gap after the vector was cut.
DeleteBlock(id) ==
    LET block == BlockOf(blocks, id)
        shifted == ShiftBlocks(block.note, {p \in Int : p > block.position}, -1)
    IN  /\ id \in BlockIdsOf(blocks)
        /\ blocks' = Kept(shifted, LAMBDA b : b.id # id)
        /\ named' = {id}
        /\ UNCHANGED <<created, parsedOver>>

\* move_block and move_block_to: shift what lies between, then place the block.
MoveBlock(id, place) ==
    LET block == BlockOf(blocks, id)
        old == block.position
        shifted == IF place > old
                   THEN ShiftBlocks(block.note, (old + 1)..place, -1)
                   ELSE ShiftBlocks(block.note, place..(old - 1), 1)
    IN  /\ id \in BlockIdsOf(blocks) /\ place # old
        /\ blocks' = [i \in DOMAIN blocks |->
              IF blocks[i].id = id THEN [blocks[i] EXCEPT !.position = place] ELSE shifted[i]]
        /\ named' = {id}
        /\ UNCHANGED <<created, parsedOver>>

\* Variant: in the order of the vector.
InOrderOfVector(list, note) == InNote(list, note)

InOrder(list, note) ==
    StableSort(InNote(list, note), LAMBDA a, b : a.position < b.position)

\* reindex_positions: the places of the note's blocks, ties in vector order.
Reindex(list, note) ==
    LET ordered == InOrder(list, note)
        PlaceOf(id) == FirstIndex(ordered, LAMBDA b : b.id = id) - 1
    IN  [i \in DOMAIN list |->
            IF list[i].note = note THEN [list[i] EXCEPT !.position = PlaceOf(list[i].id)]
            ELSE list[i]]

\* list_blocks and list_blocks_paged reindex before they read.
ListBlocks(note) ==
    /\ blocks' = Reindex(blocks, note)
    /\ parsedOver' = parsedOver \ {note}
    /\ named' = {}
    /\ UNCHANGED created

\* parse_markdown numbers its blocks from 0 and does not move those there.
ParseMarkdown(note, count) ==
    /\ created + count <= MaxBlocks
    /\ created' = created + count
    /\ blocks' = blocks \o [i \in 1..count |-> NewBlock(created + i, note, i - 1)]
    /\ parsedOver' = parsedOver \cup (IF InNote(blocks, note) = << >> THEN {} ELSE {note})
    /\ named' = {}

\* replace_blocks: the caller's list becomes the note, numbered and reindexed.
ReplaceBlocks(note, kept) ==
    LET others == Kept(blocks, LAMBDA b : b.note # note)
        new == [i \in DOMAIN kept |-> NewBlock(kept[i].id, note, i - 1)]
    IN  /\ blocks' = Reindex(others \o new, note)
        /\ parsedOver' = parsedOver \ {note}
        /\ named' = BlockIdsOf(kept)
        /\ UNCHANGED created

EditorNext ==
    \/ \E note \in Notes, place \in 0..MaxPlace : CreateBlock(note, place)
    \/ \E id \in 1..created :
          DeleteBlock(id) \/ \E place \in 0..MaxPlace : MoveBlock(id, place)
    \/ \E note \in Notes :
          \/ ListBlocks(note)
          \/ \E count \in 1..2 : ParseMarkdown(note, count)
          \/ ReplaceBlocks(note, Reverse(InOrder(blocks, note)))
          \/ ReplaceBlocks(note, << >>)

EditorSpec == EditorInit /\ [][EditorNext]_editorVars

-----------------------------------------------------------------------------
\* Blocks belong to notes, with ids drawn once and positions from 0.
EditorTypeOK ==
    /\ \A i \in DOMAIN blocks :
          blocks[i].note \in Notes /\ blocks[i].id \in 1..created /\ blocks[i].position >= 0
    /\ Cardinality(BlockIdsOf(blocks)) = Len(blocks)

\* Shifting by hand keeps the positions of a note apart over any sequence of
\* calls, with gaps and places past the end, until parse_markdown writes over a
\* note that has blocks; listing the note repairs even that.
PlacesDistinct ==
    \A i, j \in DOMAIN blocks :
        i # j /\ blocks[i].note = blocks[j].note /\ blocks[i].note \notin parsedOver =>
            blocks[i].position # blocks[j].position

\* A call that creates, deletes, moves or lists never turns two other blocks of a
\* note around.
OthersKeepOrder ==
    \A note \in Notes \ parsedOver :
       LET before == InNote(blocks, note)
           after == InNote(blocks', note)
       IN  \A a, b \in (BlockIdsOf(before) \cap BlockIdsOf(after)) \ named' :
               BlockOf(before, a).position < BlockOf(before, b).position =>
                   BlockOf(after, a).position < BlockOf(after, b).position
=============================================================================
