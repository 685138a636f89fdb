------------------------------ MODULE TextCrdt ------------------------------
(***************************************************************************)
(* The text of one block as a replicated sequence of characters.  Replicas *)
(* start from the same content, edit their own copy, and merge the whole   *)
(* state of another replica.                                               *)
(***************************************************************************)
EXTENDS HybridClock, StableOrder

CONSTANTS
    Writers,      \* the devices, positive numbers for the order of their ids
    Letters,
    InitialText,  \* the content the block was created with
    TypingTimes,  \* what the wall clock may read
    MaxTyped,     \* bound: characters typed on all replicas
    MaxErased     \* bound: deletions on all replicas

ASSUME TextAssumption ==
    /\ Writers \subseteq Nat \ {0}
    /\ InitialText \in Seq(Letters)
    /\ TypingTimes \subseteq Nat
    /\ MaxTyped \in Nat /\ MaxErased \in Nat

VARIABLES
    texts,   \* each replica's characters
    clocks,  \* the clock each replica takes its ids from
    typed,   \* how many characters were typed
    erased

textVars == <<texts, clocks, typed, erased>>

\* The id of a character of the initial content, and the missing left neighbour.
InitialId(i) == [physical |-> 0, logical |-> i, node |-> 0]
Start == [physical |-> 0, logical |-> 0, node |-> 0, none |-> TRUE]

NewText(content) ==
    [i \in DOMAIN content |->
        [ch |-> content[i], id |-> InitialId(i - 1), deleted |-> FALSE,
         left |-> IF i > 1 THEN InitialId(i - 2) ELSE Start]]

TextInit ==
    /\ texts = [w \in Writers |-> NewText(InitialText)]
    /\ clocks = [w \in Writers |-> NewClock(w, 0)]
    /\ typed = 0
    /\ erased = 0

Visible(chars) == Kept(chars, LAMBDA c : ~c.deleted)

\* The character an insertion at index goes after, by what is visible.
LeftOf(chars, index) ==
    LET visible == Visible(chars)
    IN  IF index \in DOMAIN visible THEN visible[index].id ELSE Start

\* Variant: before the left neighbour.
InsertPlaceBefore(chars, new) ==
    LET after == FirstIndex(chars, LAMBDA c : c.id = new.left)
    IN  IF after = 0 THEN 0 ELSE after - 1

\* After its left neighbour and those inserted there with smaller ids.
InsertPlace(chars, new) ==
    LET after == FirstIndex(chars, LAMBDA c : c.id = new.left)
        start == IF new.left = Start THEN 0
                 ELSE IF after = 0 THEN Len(chars) ELSE after
        Yields(p) == /\ chars[p].left = new.left
                     /\ Earlier(chars[p].id, new.id)
    IN  CHOOSE p \in start..Len(chars) :
            /\ \A q \in (start + 1)..p : Yields(q)
            /\ p = Len(chars) \/ ~Yields(p + 1)

Placed(chars, new) == InsertAt(chars, InsertPlace(chars, new) + 1, new)

InsertChar(w) ==
    \E now \in TypingTimes, ch \in Letters, index \in 0..Len(Visible(texts[w])) :
        LET id == Increment(clocks[w], now)
            new == [ch |-> ch, id |-> id, deleted |-> FALSE,
                    left |-> LeftOf(texts[w], index)]
        IN  /\ typed < MaxTyped
            /\ texts' = [texts EXCEPT ![w] = Placed(@, new)]
            /\ clocks' = [clocks EXCEPT ![w] = id]
            /\ typed' = typed + 1
            /\ UNCHANGED erased

Marked(chars, gone) ==
    [i \in DOMAIN chars |->
        [chars[i] EXCEPT !.deleted = @ \/ chars[i].id \in gone]]

\* The visible characters from first to last - 1, counted from 0.
DeleteRange(w) ==
    \E first, last \in 0..Len(Visible(texts[w])) :
        LET gone == {Visible(texts[w])[i].id : i \in (first + 1)..last}
        IN  /\ first < last
            /\ erased < MaxErased
            /\ texts' = [texts EXCEPT ![w] = Marked(@, gone)]
            /\ erased' = erased + 1
            /\ UNCHANGED <<clocks, typed>>

\* Merging knows characters by node and counter, without the time of the id.
Key(c) == <<c.id.node, c.id.logical>>

\* Variant: characters that are there are placed again.
MergeCharAgain(chars, c, known) == Placed(chars, c)

\* Variant: the remote state of a character replaces its own.
MergeCharRestores(chars, c, known) ==
    LET i == FirstIndex(chars, LAMBDA own : Key(own) = Key(c))
    IN  IF Key(c) \notin known THEN Placed(chars, c)
        ELSE [chars EXCEPT ![i].deleted = c.deleted]

\* One remote character: placed when its key is new, else its deletion is kept.
MergeChar(chars, c, known) ==
    LET i == FirstIndex(chars, LAMBDA own : Key(own) = Key(c))
    IN  IF Key(c) \notin known THEN Placed(chars, c)
        ELSE IF c.deleted THEN [chars EXCEPT ![i].deleted = TRUE]
        ELSE chars

MergedText(own, remote) ==
    LET known == {Key(own[i]) : i \in DOMAIN own}
    IN  FoldLeft(LAMBDA chars, c : MergeChar(chars, c, known), own, remote)

\* Variant: the other replica's clock is taken over with its text.
MergeTextAdopts(w) ==
    \E other \in Writers \ {w} :
        /\ texts' = [texts EXCEPT ![w] = MergedText(@, texts[other])]
        /\ clocks' = [clocks EXCEPT ![w] = clocks[other]]
        /\ UNCHANGED <<typed, erased>>

MergeText(w) ==
    \E other \in Writers \ {w} :
        /\ texts' = [texts EXCEPT ![w] = MergedText(@, texts[other])]
        /\ UNCHANGED <<clocks, typed, erased>>

TextNext ==
    \E w \in Writers : InsertChar(w) \/ DeleteRange(w) \/ MergeText(w)

TextSpec == TextInit /\ [][TextNext]_textVars

-----------------------------------------------------------------------------
CharIds(w) == {texts[w][i].id : i \in DOMAIN texts[w]}

\* Characters, clocks and counters have their types.
TextTypeOK ==
    /\ \A w \in Writers :
          /\ \A i \in DOMAIN texts[w] :
                /\ texts[w][i].ch \in Letters
                /\ texts[w][i].deleted \in BOOLEAN
                /\ texts[w][i].id.node \in Writers \cup {0}
          /\ clocks[w].node = w
    /\ typed \in 0..MaxTyped
    /\ erased \in 0..MaxErased

\* A replica never holds a character twice, however often states are merged.
CharsOnce ==
    \A w \in Writers : \A i, j \in DOMAIN texts[w] :
        texts[w][i].id = texts[w][j].id => i = j

\* Each character stays to the right of the one it was typed after.
RightOfLeft ==
    \A w \in Writers : \A i \in DOMAIN texts[w] :
        \A j \in DOMAIN texts[w] :
            texts[w][j].id = texts[w][i].left => j < i

\* What a replica has read or deleted is never undone: characters keep their
\* order, and a deleted one does not come back with an older state.
TextGrows ==
    \A w \in Writers :
       \A i, j \in DOMAIN texts[w] :
          i <= j => \E k, l \in DOMAIN texts'[w] :
             /\ k <= l
             /\ texts'[w][k].id = texts[w][i].id
             /\ texts'[w][l].id = texts[w][j].id
             /\ texts[w][i].deleted => texts'[w][k].deleted

Shows(w) == [i \in DOMAIN Visible(texts[w]) |-> Visible(texts[w])[i].ch]

\* "The same set of operations merges to the same result at every site": two
\* replicas that hold the same characters, deleted alike, show the same letters.
SameCharsSameText ==
    \A v, w \in Writers :
        {[id |-> texts[v][i].id, deleted |-> texts[v][i].deleted] :
            i \in DOMAIN texts[v]} =
        {[id |-> texts[w][i].id, deleted |-> texts[w][i].deleted] :
            i \in DOMAIN texts[w]}
        => Shows(v) = Shows(w)
=============================================================================
