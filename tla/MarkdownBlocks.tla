--------------------------- MODULE MarkdownBlocks ---------------------------
(***************************************************************************)
(* MarkdownParser of devnote-editor: a document, line by line, into the    *)
(* blocks of a note.  A line is its kind: what its first characters, or    *)
(* its last, make the parser do.  The state is one document that grows;    *)
(* the parser is checked on every one.                                     *)
(***************************************************************************)
EXTENDS Integers, SequencesExt

CONSTANTS
    LineKinds,   \* the kinds of lines the documents are made of
    MaxLines     \* bound on the lines of a document

VARIABLE document

\* Table rows of one and of two cells; a row that does not end in a bar; a bar alone.
TableLines == {"row1", "row2", "half", "bar"}

\* Lines that join the block above them when it has the same kind; "subtask" is an
\* indented task.
Runs == {"quote", "task", "subtask", "item", "numbered"} \cup TableLines

RunOf(kind) ==
    CASE kind \in TableLines -> "table"
      [] kind = "subtask" -> "task"
      [] OTHER -> kind

\* Lines that open a block only a closing line ends.
Closing == [fence |-> "fence", audio |-> "colons", maths |-> "maths"]

\* Variant: a blank line does not end a run.
ContinuesOverBlank(open, kind) ==
    \/ kind \in Runs /\ RunOf(kind) = open
    \/ open \in {"quote", "item"} /\ kind = "blank"
    \/ open = "item" /\ kind = "task"

\* Variant: text is taken into a table.
ContinuesIntoText(open, kind) ==
    \/ kind \in Runs /\ RunOf(kind) = open
    \/ open = "table" /\ kind = "text"
    \/ open = "item" /\ kind = "task"

\* A task line that is not indented looks like an item: a list takes it in, though a
\* task list would begin with it.
Continues(open, kind) ==
    \/ kind \in Runs /\ RunOf(kind) = open
    \/ open = "item" /\ kind = "task"

\* "maths1" is a formula on one line; it closes an open formula like "maths".
Closes(open, kind) ==
    kind = Closing[open] \/ (open = "maths" /\ kind = "maths1")

\* The state of the parser: finished blocks, and the block that is open: its kind
\* ("none", "paragraph", a run or an opened block) and the lines it has.
Begin == [done |-> << >>, open |-> "none", lines |-> << >>]

\* The cells of a row, as TableParser counts them in one that ends in a bar.
Cells == [row1 |-> 1, row2 |-> 2]

\* TableParser: two rows at least, the second giving as many alignments as the
\* first has headers; anything else is a paragraph.  It reads the third row and
\* those below only then, and a bar alone makes it panic as soon as it is read.
TableBlock(lines) ==
    LET Kind(j) == lines[j][2]
        aligned == Kind(1) \in DOMAIN Cells /\ Kind(2) \in DOMAIN Cells
                      /\ Cells[Kind(1)] = Cells[Kind(2)]
        Reads(j) == \/ j = 1
                    \/ j = 2 /\ Kind(1) \in DOMAIN Cells
                    \/ j > 2 /\ aligned
    IN  IF Len(lines) < 2 THEN "paragraph"
        ELSE IF \E j \in DOMAIN lines : Kind(j) = "bar" /\ Reads(j) THEN "panic"
        ELSE IF aligned THEN "table" ELSE "paragraph"

\* The rows a table shows and counts: those below the second that end in a bar.
TableRows(block) ==
    IF block.kind # "table" THEN 0
    ELSE Cardinality({j \in 3..Len(block.lines) : block.lines[j][2] \in DOMAIN Cells})

\* flush_paragraph, and the end of a run.
Flush(parser) ==
    IF parser.open = "none" THEN parser
    ELSE [done |-> Append(parser.done,
              [kind |-> IF parser.open = "table" THEN TableBlock(parser.lines) ELSE parser.open,
               lines |-> parser.lines]),
          open |-> "none", lines |-> << >>]

\* Variant: the block before is not finished.
OpenUnfinished(parser, kind, line) == [parser EXCEPT !.open = kind, !.lines = <<line>>]

Open(parser, kind, line) == [Flush(parser) EXCEPT !.open = kind, !.lines = <<line>>]

Single(parser, kind, line) == Flush(Open(parser, kind, line))

\* One line; a line is its number in the document and its kind.
ReadLine(parser, line) ==
    LET kind == line[2]
        taken == [parser EXCEPT !.lines = Append(@, line)]
    IN  CASE parser.open \in DOMAIN Closing ->
                IF Closes(parser.open, kind) THEN Flush(taken) ELSE taken
          [] parser.open \notin DOMAIN Closing /\ Continues(parser.open, kind) -> taken
          [] parser.open \notin DOMAIN Closing /\ ~Continues(parser.open, kind) ->
                CASE kind \in DOMAIN Closing -> Open(parser, kind, line)
                  [] kind \in Runs -> Open(parser, RunOf(kind), line)
                  [] kind \in {"heading", "maths1"} -> Single(parser, kind, line)
                  [] kind = "blank" -> Flush(parser)
                  [] OTHER -> IF parser.open = "paragraph" THEN taken
                              ELSE Open(parser, "paragraph", line)

Numbered(kinds) == [i \in DOMAIN kinds |-> <<i, kinds[i]>>]

\* The end of the text closes what is open, opened blocks too.  A block of kind
\* "panic" stands for the loss of the whole document.
ParseLines(kinds) == Flush(FoldLeft(ReadLine, Begin, Numbered(kinds))).done

Unclosed(kinds) == FoldLeft(ReadLine, Begin, Numbered(kinds)).open \in DOMAIN Closing

Panics(kinds) == \E i \in DOMAIN ParseLines(kinds) : ParseLines(kinds)[i].kind = "panic"

MarkdownInit == document = << >>

\* The inputs: documents of every kind of line.
MarkdownNext ==
    \E kind \in LineKinds :
        /\ Len(document) < MaxLines
        /\ document' = Append(document, kind)

MarkdownSpec == MarkdownInit /\ [][MarkdownNext]_document

-----------------------------------------------------------------------------
BlockKinds(kinds) ==
    LET parsed == ParseLines(kinds)
    IN  [i \in DOMAIN parsed |->
            <<parsed[i].kind, Len(parsed[i].lines), TableRows(parsed[i])>>]

\* The lines of the blocks, and the lines of one block, are of the document.
OfDocument(parsed) ==
    \A i \in DOMAIN parsed : \A j \in DOMAIN parsed[i].lines :
        LET line == parsed[i].lines[j]
        IN  line[1] \in DOMAIN document /\ line[2] = document[line[1]]

\* Every line that is not blank is in the content of one block, in the order of the
\* document; a blank line is only in an opened block.  Of a table the content has
\* all lines; those that do not end in a bar are not among the rows it shows.
NoLineLost ==
    LET parsed == ParseLines(document)
        NumberAt(i, j) == parsed[i].lines[j][1]
    IN  /\ OfDocument(parsed)
        /\ \A n \in DOMAIN document : document[n] # "blank" =>
              \E i \in DOMAIN parsed : \E j \in DOMAIN parsed[i].lines : NumberAt(i, j) = n
        /\ \A i, k \in DOMAIN parsed :
              \A j \in DOMAIN parsed[i].lines, l \in DOMAIN parsed[k].lines :
                  i < k \/ (i = k /\ j < l) => NumberAt(i, j) < NumberAt(k, l)
        /\ \A i \in DOMAIN parsed : \A j \in DOMAIN parsed[i].lines :
              parsed[i].lines[j][2] = "blank" => parsed[i].kind \in DOMAIN Closing

\* A blank line separates: what stands before it is parsed as if the document
\* ended there, unless a block is open that only its closing line ends.
BlankSeparates ==
    ~Unclosed(document) =>
        LET before == BlockKinds(document)
        IN  \A kind \in LineKinds :
                BlockKinds(document \o <<"blank", kind>>) = before \o BlockKinds(<<kind>>)

\* The rows of a table stand together in one block and nothing else does: no row is
\* left outside of the block above it.
TablesWhole ==
    LET parsed == ParseLines(document)
        IsRow(line) == line[2] \in TableLines
    IN  \A i \in DOMAIN parsed :
            parsed[i].kind = "table" =>
                /\ \A j \in DOMAIN parsed[i].lines : IsRow(parsed[i].lines[j])
                /\ i < Len(parsed) /\ IsRow(parsed[i + 1].lines[1]) =>
                      parsed[i + 1].lines[1][1] > parsed[i].lines[Len(parsed[i].lines)][1] + 1

\* When the parser answers it neither loses nor invents: every line of a document
\* is in a block, blank lines separate, tables stay whole.  It does not answer when
\* a bar that stands alone is read as a row.
MarkdownFaithful ==
    ~Panics(document) => NoLineLost /\ BlankSeparates /\ TablesWhole
=============================================================================
