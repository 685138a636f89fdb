--------------------------- MODULE RustSyncProofs ---------------------------
(***************************************************************************)
(* What TLAPS proves of the libraries of RustSync, for any devices, blocks *)
(* and texts, any clocks and any order of calls: documents and texts stay  *)
(* sound, nothing is undone, the engine agrees with its document, and the  *)
(* operation keys recognise retries.  Folds and sorts are reasoned about   *)
(* with the instances of FoldInduction.                                    *)
(***************************************************************************)
EXTENDS RustSync, FunctionTheorems, FiniteSetTheorems, SequenceTheorems, TLAPS

-----------------------------------------------------------------------------
(* Clocks *)

\* The time and the counter of a are not above those of b, whatever the nodes.
Behind(a, b) ==
    \/ a.physical < b.physical
    \/ a.physical = b.physical /\ a.logical <= b.logical

\* The fields of a clock, for the arithmetic.
LEMMA ClockFields ==
    ASSUME NEW c \in Clocks
    PROVE  /\ c.physical \in Nat /\ c.logical \in Nat
           /\ c.node \in Devices /\ c.node \in Nat
BY CrdtAssumption DEF Clocks

\* A local event is later than everything its clock was not behind of.
LEMMA IncrementAfter ==
    ASSUME NEW clock \in Clocks, NEW now \in Nat
    PROVE  /\ Increment(clock, now) \in Clocks
           /\ Increment(clock, now).node = clock.node
           /\ Behind(clock, Increment(clock, now))
           /\ ~Behind(Increment(clock, now), clock)
BY ClockFields DEF Increment, Behind, At, Clocks

\* A received event leaves the clock later than both.
LEMMA ReceiveAfter ==
    ASSUME NEW clock \in Clocks, NEW other \in Clocks, NEW now \in Nat
    PROVE  /\ Receive(clock, other, now) \in Clocks
           /\ Receive(clock, other, now).node = clock.node
           /\ Behind(clock, Receive(clock, other, now))
           /\ Behind(other, Receive(clock, other, now))
BY ClockFields DEF Receive, Behind, Larger, At, Clocks

\* What is not above is a preorder, and what is strictly above comes later.
LEMMA BehindOrders ==
    /\ \A a \in Clocks : Behind(a, a)
    /\ \A a, b, c \in Clocks : Behind(a, b) /\ Behind(b, c) => Behind(a, c)
    /\ \A a, b \in Clocks : ~Behind(b, a) => Earlier(a, b) /\ a # b
BY ClockFields DEF Behind, Earlier

\* The ids of a document are totally ordered.
LEMMA EarlierOrders ==
    /\ \A a, b \in Clocks : Earlier(a, b) => ~Earlier(b, a)
    /\ \A a, b, c \in Clocks : ~Earlier(b, a) /\ ~Earlier(c, b) => ~Earlier(c, a)
BY ClockFields DEF Earlier

Vectors == UNION {[S -> Clocks] : S \in SUBSET Devices}

\* A vector clock gives clocks to some of the devices.
LEMMA VectorShape ==
    /\ \A v \in Vectors : DOMAIN v \subseteq Devices /\ \A n \in DOMAIN v : v[n] \in Clocks
    /\ \A S \in SUBSET Devices : \A f \in [S -> Clocks] : f \in Vectors
BY DEF Vectors

\* The operations on vector clocks give vector clocks.
LEMMA VectorsTyped ==
    /\ NoEvents \in Vectors
    /\ \A v \in Vectors, d \in Devices, now \in Nat : CountEvent(v, d, now) \in Vectors
    /\ \A v, u \in Vectors, now \in Nat : MergeVectors(v, u, now) \in Vectors
<1>1. NoEvents \in Vectors
  <2>1. DOMAIN << >> = {}
    OBVIOUS
  <2>2. << >> \in [{} -> Clocks]
    BY <2>1
  <2>. QED
    BY <2>2, VectorShape DEF NoEvents
<1>2. ASSUME NEW v \in Vectors, NEW d \in Devices, NEW now \in Nat
      PROVE  CountEvent(v, d, now) \in Vectors
  <2>. DEFINE seen == IF d \in DOMAIN v THEN v[d] ELSE NewClock(d, now)
  <2>1. seen \in Clocks /\ DOMAIN v \cup {d} \in SUBSET Devices
    BY VectorShape DEF NewClock, Clocks
  <2>2. Increment(seen, now) \in Clocks
    BY <2>1, IncrementAfter
  <2>3. CountEvent(v, d, now) =
          [n \in DOMAIN v \cup {d} |-> IF n = d THEN Increment(seen, now) ELSE v[n]]
    BY DEF CountEvent
  <2>. HIDE DEF seen
  <2>4. CountEvent(v, d, now) \in [DOMAIN v \cup {d} -> Clocks]
    BY <2>2, <2>3, VectorShape
  <2>. QED
    BY <2>1, <2>4, VectorShape
<1>3. ASSUME NEW v \in Vectors, NEW u \in Vectors, NEW now \in Nat
      PROVE  MergeVectors(v, u, now) \in Vectors
  <2>1. DOMAIN v \cup DOMAIN u \in SUBSET Devices
    BY VectorShape
  <2>2. \A n \in DOMAIN v \cap DOMAIN u : Receive(v[n], u[n], now) \in Clocks
    BY VectorShape, ReceiveAfter
  <2>3. MergeVectors(v, u, now) \in [DOMAIN v \cup DOMAIN u -> Clocks]
    BY <2>2, VectorShape DEF MergeVectors
  <2>. QED
    BY <2>1, <2>3, VectorShape
<1>. QED
  BY <1>1, <1>2, <1>3

-----------------------------------------------------------------------------
(* Sorting, finding and filtering *)

Sequences == INSTANCE FoldInduction WITH Step <- MergeOne, Holds <- MergeClock

\* Finite sets and places, as the instance of FoldInduction names them.
LEMMA SameCounting ==
    /\ \A S : Sequences!IsFiniteSet(S) = IsFiniteSet(S)
    /\ \A S : Sequences!Cardinality(S) = Cardinality(S)
    /\ \A R, D, k : Sequences!PlaceIn(R, D, k) = Cardinality({j \in D : <<j, k>> \in R})
BY DEF Sequences!IsFiniteSet, IsFiniteSet, Sequences!Cardinality, Cardinality,
       Sequences!PlaceIn

\* A function on 1..n is a sequence.
LEMMA SequenceMade ==
    ASSUME NEW S, NEW n \in Nat, NEW f \in [1..n -> S]
    PROVE  f \in Seq(S) /\ Len(f) = n /\ DOMAIN f = 1..n
OBVIOUS

\* Sorted by a clock, stably, every place is taken by one element.
LEMMA PlacesTaken ==
    ASSUME NEW n \in Nat, NEW key \in [1..n -> Clocks]
    PROVE  LET P(k) == Cardinality({j \in 1..n :
                  Earlier(key[j], key[k]) \/ (~Earlier(key[k], key[j]) /\ j <= k)})
           IN  /\ \A m \in 1..n : \E k \in 1..n : P(k) = m
               /\ \A k \in 1..n : P(k) \in 1..n
               /\ \A i, k \in 1..n : i # k => P(i) # P(k)
<1>. DEFINE D == 1..n
            UpTo(j, k) == Earlier(key[j], key[k]) \/ (~Earlier(key[k], key[j]) /\ j <= k)
            R == {p \in D \X D : UpTo(p[1], p[2])}
<1>1. IsFiniteSet(D) /\ Cardinality(D) = n
  BY FS_Interval
<1>2. \A j, k \in D : <<j, k>> \in R <=> UpTo(j, k)
  OBVIOUS
<1>3. \A k \in D : key[k] \in Clocks
  OBVIOUS
<1>4. \A k \in D : UpTo(k, k)
  BY <1>3, EarlierOrders
<1>5. \A j, k \in D : j # k => (UpTo(j, k) <=> ~UpTo(k, j))
  BY <1>3, EarlierOrders
<1>6. \A i, j, k \in D : UpTo(i, j) /\ UpTo(j, k) => UpTo(i, k)
  BY <1>3, EarlierOrders
<1>7. \A k \in D : {j \in D : <<j, k>> \in R} = {j \in D : UpTo(j, k)}
  BY <1>2
<1>. HIDE DEF R, UpTo
<1>8. Sequences!TotalOrder(R, D)
  BY <1>2, <1>4, <1>5, <1>6 DEF Sequences!TotalOrder
<1>9. /\ \A m \in 1..n : \E k \in D : Sequences!PlaceIn(R, D, k) = m
      /\ \A k \in D : Sequences!PlaceIn(R, D, k) \in 1..n
      /\ \A i, k \in D : i # k => Sequences!PlaceIn(R, D, i) # Sequences!PlaceIn(R, D, k)
  <2>1. Sequences!IsFiniteSet(D) /\ Sequences!Cardinality(D) = n
    BY <1>1, SameCounting
  <2>. HIDE DEF D
  <2>. QED
    BY <1>8, <2>1, Sequences!OrderedPlaces
<1>10. /\ \A m \in 1..n : \E k \in D : Cardinality({j \in D : UpTo(j, k)}) = m
       /\ \A k \in D : Cardinality({j \in D : UpTo(j, k)}) \in 1..n
       /\ \A i, k \in D : i # k => Cardinality({j \in D : UpTo(j, i)}) #
                                   Cardinality({j \in D : UpTo(j, k)})
  BY <1>7, <1>9, SameCounting
<1>. QED
  BY <1>10, ZenonT(60) DEF D, UpTo

\* The first match is an element that passes, and 0 says that there is none.
LEMMA FirstMatch ==
    ASSUME NEW n \in Nat, NEW hits \in SUBSET (1..n)
    PROVE  LET first == IF hits = {} THEN 0
                        ELSE CHOOSE i \in hits : \A j \in hits : i <= j
           IN  /\ first = 0 => hits = {}
               /\ first # 0 => first \in hits /\ \A j \in hits : first <= j
<1>1. hits # {} => \E i \in hits : \A j \in hits : i <= j
  <2>1. hits \subseteq Nat
    OBVIOUS
  <2>. QED
    BY <2>1, Sequences!LeastNumber
<1>. DEFINE least == CHOOSE i \in hits : \A j \in hits : i <= j
<1>2. hits # {} => least \in hits /\ \A j \in hits : least <= j
  BY <1>1
<1>. HIDE DEF least
<1>3. least \in hits => least # 0
  OBVIOUS
<1>. QED
  BY <1>2, <1>3 DEF least

\* Each element of s has a place of its own, and t has them in these places.
Arranges(t, s, pick, place) ==
    /\ \A k \in 1..Len(s) : place[k] \in 1..Len(s)
    /\ \A i, k \in 1..Len(s) : i # k => place[i] # place[k]
    /\ \A i \in 1..Len(s) : pick[i] \in 1..Len(s) /\ place[pick[i]] = i
    /\ t = [i \in DOMAIN s |-> s[pick[i]]]

\* Arranging the elements by their places keeps each of them.
LEMMA Arranged ==
    ASSUME NEW S, NEW s \in Seq(S), NEW place, NEW pick, NEW t,
           Arranges(t, s, pick, place)
    PROVE  /\ t \in Seq(S) /\ Len(t) = Len(s) /\ DOMAIN t = DOMAIN s
           /\ \A i \in DOMAIN s : \E j \in DOMAIN t : t[j] = s[i]
           /\ \A j \in DOMAIN t : \E i \in DOMAIN s : t[j] = s[i]
<1>. USE DEF Arranges
<1>1. Len(s) \in Nat /\ DOMAIN s = 1..Len(s) /\ \A i \in 1..Len(s) : s[i] \in S
  OBVIOUS
<1>2. t \in [1..Len(s) -> S]
  BY <1>1
<1>3. t \in Seq(S) /\ Len(t) = Len(s) /\ DOMAIN t = 1..Len(s)
  BY <1>1, <1>2, SequenceMade
<1>4. ASSUME NEW i \in 1..Len(s) PROVE \E j \in 1..Len(s) : t[j] = s[i]
  <2>1. place[i] \in 1..Len(s) /\ pick[place[i]] = i
    OBVIOUS
  <2>2. t[place[i]] = s[i]
    BY <1>1, <2>1
  <2>. QED
    BY <2>1, <2>2
<1>5. ASSUME NEW j \in 1..Len(s) PROVE \E i \in 1..Len(s) : t[j] = s[i]
  BY <1>1
<1>. QED
  BY <1>1, <1>3, <1>4, <1>5

Texts == Contents \cup {NoText} \cup [position : Nat]

Blocks == [id : BlockIds, position : Nat, content : Texts,
           tombstone : BOOLEAN, modified : Clocks]

\* The blocks of a document stay the same when they are sorted.
LEMMA BlocksSorted ==
    ASSUME NEW s \in Seq(Blocks)
    PROVE  LET t == ByModified(s)
           IN  /\ t \in Seq(Blocks) /\ Len(t) = Len(s)
               /\ \A i \in DOMAIN s : \E j \in DOMAIN t : t[j] = s[i]
               /\ \A j \in DOMAIN t : \E i \in DOMAIN s : t[j] = s[i]
<1>. DEFINE n == Len(s)
            key == [k \in 1..n |-> s[k].modified]
            P(k) == Cardinality({j \in 1..n :
                      Earlier(key[j], key[k]) \/ (~Earlier(key[k], key[j]) /\ j <= k)})
            Q(k) == Cardinality({j \in DOMAIN s :
                      \/ Earlier(s[j].modified, s[k].modified)
                      \/ ~Earlier(s[k].modified, s[j].modified) /\ j <= k})
            place == [k \in 1..n |-> Q(k)]
            pick == [i \in 1..n |-> CHOOSE k \in DOMAIN s : Q(k) = i]
            t == ByModified(s)
<1>1. n \in Nat /\ DOMAIN s = 1..n /\ \A k \in 1..n : s[k] \in Blocks
  OBVIOUS
<1>2. key \in [1..n -> Clocks]
  BY <1>1 DEF Blocks
<1>3. /\ \A m \in 1..n : \E k \in 1..n : P(k) = m
      /\ \A k \in 1..n : P(k) \in 1..n
      /\ \A i, k \in 1..n : i # k => P(i) # P(k)
  <2>. HIDE DEF n, key
  <2>. QED
    BY <1>1, <1>2, PlacesTaken
<1>4. \A k \in 1..n : Q(k) = P(k)
  <2>. SUFFICES ASSUME NEW k \in 1..n
                PROVE  {j \in DOMAIN s : \/ Earlier(s[j].modified, s[k].modified)
                                         \/ ~Earlier(s[k].modified, s[j].modified) /\ j <= k}
                       = {j \in 1..n : Earlier(key[j], key[k]) \/
                                       (~Earlier(key[k], key[j]) /\ j <= k)}
    OBVIOUS
  <2>. QED
    BY <1>1
<1>5. t = [i \in DOMAIN s |-> s[CHOOSE k \in DOMAIN s : Q(k) = i]]
  BY DEF ByModified, StableSort, Place
<1>. HIDE DEF P, Q, n
<1>6. \A i \in 1..n : pick[i] \in 1..n /\ place[pick[i]] = i
  <2>1. \A i \in 1..n : \E k \in DOMAIN s : Q(k) = i
    BY <1>1, <1>3, <1>4
  <2>2. \A i \in 1..n : (CHOOSE k \in DOMAIN s : Q(k) = i) \in DOMAIN s
                        /\ Q(CHOOSE k \in DOMAIN s : Q(k) = i) = i
    BY <2>1
  <2>. QED
    BY <1>1, <2>2
<1>7. t = [i \in DOMAIN s |-> s[pick[i]]]
  BY <1>1, <1>5
<1>8. \A k \in 1..n : place[k] = P(k)
  BY <1>4
<1>. HIDE DEF t, place, pick
<1>9. /\ \A k \in 1..n : place[k] \in 1..n
      /\ \A i, k \in 1..n : i # k => place[i] # place[k]
  <2>1. \A k \in 1..n : place[k] \in 1..n
    BY <1>3, <1>8
  <2>2. ASSUME NEW i \in 1..n, NEW k \in 1..n, i # k PROVE place[i] # place[k]
    BY <1>3, <1>8, <2>2
  <2>. QED
    BY <2>1, <2>2
<1>10. Arranges(t, s, pick, place)
  BY <1>6, <1>7, <1>9 DEF Arranges, n
<1>11. /\ t \in Seq(Blocks) /\ Len(t) = Len(s) /\ DOMAIN t = DOMAIN s
       /\ \A i \in DOMAIN s : \E j \in DOMAIN t : t[j] = s[i]
       /\ \A j \in DOMAIN t : \E i \in DOMAIN s : t[j] = s[i]
  BY <1>10, Arranged
<1>. QED
  BY <1>11 DEF t

\* A set of indices has a number of elements.
LEMMA CountIn ==
    ASSUME NEW n \in Nat, NEW T \in SUBSET (1..n)
    PROVE  IsFiniteSet(T) /\ Cardinality(T) \in Nat
<1>1. IsFiniteSet(1..n)
  BY FS_Interval
<1>2. IsFiniteSet(T)
  BY <1>1, FS_Subset
<1>. QED
  BY <1>2, FS_CardinalityType

\* The hits among n elements, counted from the first.
LEMMA HitsCounted ==
    ASSUME NEW n \in Nat, NEW hits \in SUBSET (1..n)
    PROVE  /\ Cardinality(hits) \in Nat
           /\ \A m \in 1..Cardinality(hits) :
                 \E i \in hits : Cardinality({j \in hits : j <= i}) = m
<1>. DEFINE R == {p \in hits \X hits : p[1] <= p[2]}
<1>1. \A j, k \in hits : <<j, k>> \in R <=> j <= k
  OBVIOUS
<1>2. \A i \in hits : {j \in hits : <<j, i>> \in R} = {j \in hits : j <= i}
  BY <1>1
<1>. HIDE DEF R
<1>. DEFINE D == hits
            k == Cardinality(D)
<1>3. Sequences!TotalOrder(R, D)
  BY <1>1 DEF Sequences!TotalOrder
<1>4. Sequences!IsFiniteSet(D) /\ Sequences!Cardinality(D) = k /\ k \in Nat
  BY CountIn, SameCounting
<1>. HIDE DEF D, k
<1>5. \A m \in 1..k : \E i \in D : Sequences!PlaceIn(R, D, i) = m
  BY <1>3, <1>4, Sequences!OrderedPlaces
<1>6. \A i \in hits : Sequences!PlaceIn(R, D, i) = Cardinality({j \in hits : j <= i})
  BY <1>2, SameCounting DEF D
<1>. QED
  BY <1>4, <1>5, <1>6 DEF D, k

\* t has the elements of s at the hits.
Filters(t, s, hits) ==
    t = [n \in 1..Cardinality(hits) |->
           s[CHOOSE i \in hits : Cardinality({j \in hits : j <= i}) = n]]

\* What is left by a filter are elements of what it was given.
LEMMA Filtered ==
    ASSUME NEW S, NEW s \in Seq(S), NEW hits \in SUBSET DOMAIN s, NEW t,
           Filters(t, s, hits)
    PROVE  /\ t \in Seq(S) /\ DOMAIN t = 1..Len(t)
           /\ \A n \in DOMAIN t : \E i \in hits : t[n] = s[i]
<1>. DEFINE k == Cardinality(hits)
            Up(i) == Cardinality({j \in hits : j <= i})
            at == [n \in 1..k |-> CHOOSE i \in hits : Up(i) = n]
<1>1. Len(s) \in Nat /\ DOMAIN s = 1..Len(s) /\ \A i \in DOMAIN s : s[i] \in S
  OBVIOUS
<1>2. k \in Nat /\ \A n \in 1..k : \E i \in hits : Up(i) = n
  BY <1>1, HitsCounted
<1>3. t = [n \in 1..k |-> s[at[n]]]
  BY DEF Filters
<1>. HIDE DEF k, Up
<1>4. \A n \in 1..k : at[n] \in hits
  BY <1>2
<1>. HIDE DEF at
<1>5. t \in [1..k -> S]
  BY <1>1, <1>3, <1>4
<1>6. t \in Seq(S) /\ Len(t) = k /\ DOMAIN t = 1..k
  BY <1>2, <1>5, SequenceMade
<1>. QED
  BY <1>3, <1>4, <1>6

-----------------------------------------------------------------------------
(* Blocks *)

ShownApart(blocks) ==
    \A i, j \in DOMAIN blocks :
        ~blocks[i].tombstone /\ ~blocks[j].tombstone
        /\ blocks[i].position = blocks[j].position => i = j

BlocksSound(blocks) == blocks \in Seq(Blocks) /\ ShownApart(blocks)

\* A deleted block is there as it was.
GoneStay(old, new) ==
    \A i \in DOMAIN old :
        old[i].tombstone => \E j \in DOMAIN new : new[j] = old[i]

\* What is shown was shown before, or is one of the ids in more.
ShownFrom(old, new, more) ==
    \A j \in DOMAIN new :
        \/ new[j].tombstone
        \/ new[j].id \in more
        \/ \E i \in DOMAIN old : ~old[i].tombstone /\ old[i].id = new[j].id

\* The shown blocks that come before block i, by their positions.
Before(blocks, i) ==
    {j \in DOMAIN blocks :
        /\ ~blocks[j].tombstone
        /\ \/ blocks[j].position < blocks[i].position
           \/ /\ blocks[j].position = blocks[i].position
              /\ j < i}

\* Numbering the blocks gives every shown one a position of its own.
LEMMA ReindexedSound ==
    ASSUME NEW blocks \in Seq(Blocks)
    PROVE  /\ BlocksSound(Reindexed(blocks)) /\ GoneStay(blocks, Reindexed(blocks))
           /\ ShownFrom(blocks, Reindexed(blocks), {})
<1>. DEFINE n == Len(blocks)
            new == Reindexed(blocks)
<1>1. n \in Nat /\ DOMAIN blocks = 1..n /\ \A i \in 1..n : blocks[i] \in Blocks
  OBVIOUS
<1>2. \A i \in 1..n : /\ blocks[i].position \in Nat /\ blocks[i].tombstone \in BOOLEAN
  BY <1>1 DEF Blocks
<1>3. \A i \in 1..n : Cardinality(Before(blocks, i)) \in Nat
                      /\ IsFiniteSet(Before(blocks, i))
  <2>. SUFFICES ASSUME NEW i \in 1..n
                PROVE  Cardinality(Before(blocks, i)) \in Nat /\ IsFiniteSet(Before(blocks, i))
    OBVIOUS
  <2>1. Before(blocks, i) \in SUBSET (1..n)
    BY <1>1 DEF Before
  <2>. QED
    BY <1>1, <2>1, CountIn
<1>4. new = [i \in 1..n |-> IF blocks[i].tombstone THEN blocks[i]
               ELSE [blocks[i] EXCEPT !.position = Cardinality(Before(blocks, i))]]
  BY <1>1 DEF Reindexed, Before
<1>. HIDE DEF n, new
<1>5. ASSUME NEW i \in 1..n
      PROVE  /\ new[i] \in Blocks /\ new[i].tombstone = blocks[i].tombstone
             /\ new[i].id = blocks[i].id
             /\ blocks[i].tombstone => new[i] = blocks[i]
             /\ ~blocks[i].tombstone => new[i].position = Cardinality(Before(blocks, i))
  BY <1>1, <1>3, <1>4 DEF Blocks
<1>6. new \in [1..n -> Blocks]
  BY <1>4, <1>5
<1>7. new \in Seq(Blocks) /\ DOMAIN new = 1..n
  BY <1>1, <1>6, SequenceMade
<1>8. ASSUME NEW i \in 1..n, NEW j \in 1..n,
             ~blocks[i].tombstone, ~blocks[j].tombstone,
             \/ blocks[i].position < blocks[j].position
             \/ blocks[i].position = blocks[j].position /\ i < j
      PROVE  new[i].position # new[j].position
  <2>1. Before(blocks, i) \in SUBSET Before(blocks, j)
    BY <1>1, <1>2, <1>8 DEF Before
  <2>2. i \in Before(blocks, j) /\ i \notin Before(blocks, i)
    BY <1>1, <1>2, <1>8 DEF Before
  <2>. QED
    BY <1>3, <1>5, <1>8, <2>1, <2>2, FS_Subset
<1>9. ShownApart(new)
  <2>. SUFFICES ASSUME NEW i \in 1..n, NEW j \in 1..n, i # j,
                       ~new[i].tombstone, ~new[j].tombstone
                PROVE  new[i].position # new[j].position
    BY <1>7 DEF ShownApart
  <2>1. \/ blocks[i].position < blocks[j].position
        \/ blocks[i].position = blocks[j].position /\ i < j
        \/ blocks[j].position < blocks[i].position
        \/ blocks[j].position = blocks[i].position /\ j < i
    BY <1>1, <1>2
  <2>. QED
    BY <1>5, <1>8, <2>1
<1>10. GoneStay(blocks, new)
  BY <1>1, <1>5, <1>7 DEF GoneStay
<1>11. ShownFrom(blocks, new, {})
  BY <1>1, <1>5, <1>7 DEF ShownFrom
<1>. QED
  BY <1>7, <1>9, <1>10, <1>11 DEF new, BlocksSound

InsertOps == [kind : {"insert"}, id : Clocks, clock : Vectors, block : BlockIds,
              to : Nat, new : Texts]
ReplaceOps == [kind : {"replace"}, id : Clocks, clock : Vectors, block : BlockIds,
               old : Texts, new : Texts]
MoveOps == [kind : {"move"}, id : Clocks, clock : Vectors, block : BlockIds,
            from : Nat, to : Nat]
DeleteOps == [kind : {"delete"}, id : Clocks, clock : Vectors, block : BlockIds]

Ops == InsertOps \cup ReplaceOps \cup MoveOps \cup DeleteOps

\* The fields of each kind of operation.
LEMMA OpFields ==
    ASSUME NEW op \in Ops
    PROVE  /\ op.kind \in {"insert", "replace", "move", "delete"}
           /\ op.id \in Clocks /\ op.clock \in Vectors /\ op.block \in BlockIds
           /\ op.kind = "insert" => op \in InsertOps /\ op.to \in Nat /\ op.new \in Texts
           /\ op.kind = "replace" => op \in ReplaceOps /\ op.old \in Texts /\ op.new \in Texts
           /\ op.kind = "move" => op \in MoveOps /\ op.from \in Nat /\ op.to \in Nat
BY DEF Ops, InsertOps, ReplaceOps, MoveOps, DeleteOps

\* An operation that is ok and no insertion finds its block, and that is shown.
LEMMA Found ==
    ASSUME NEW blocks \in Seq(Blocks), NEW b
    PROVE  Find(blocks, b) # 0 => Find(blocks, b) \in DOMAIN blocks
<1>. DEFINE hits == {i \in DOMAIN blocks : blocks[i].id = b}
<1>1. Len(blocks) \in Nat /\ hits \in SUBSET (1..Len(blocks))
  OBVIOUS
<1>2. Find(blocks, b) = IF hits = {} THEN 0
                        ELSE CHOOSE i \in hits : \A j \in hits : i <= j
  BY DEF Find, FirstIndex
<1>. HIDE DEF hits
<1>3. Find(blocks, b) # 0 => Find(blocks, b) \in hits
  BY <1>1, <1>2, FirstMatch
<1>. QED
  BY <1>3 DEF hits

\* An operation on a block that goes through finds the block, and shown.
LEMMA FoundShown ==
    ASSUME NEW blocks \in Seq(Blocks), NEW op, op.kind # "insert",
           Outcome(blocks, op) = "ok"
    PROVE  /\ Find(blocks, op.block) \in 1..Len(blocks)
           /\ ~blocks[Find(blocks, op.block)].tombstone
BY Found DEF Outcome

\* An insertion keeps positions apart, also at a position that is taken.
LEMMA InsertedSound ==
    ASSUME NEW blocks \in Seq(Blocks), NEW op \in InsertOps
    PROVE  /\ BlocksSound(Inserted(blocks, op)) /\ GoneStay(blocks, Inserted(blocks, op))
           /\ ShownFrom(blocks, Inserted(blocks, op), {op.block})
<1>. DEFINE block == [id |-> op.block, position |-> op.to, content |-> op.new,
                      tombstone |-> FALSE, modified |-> op.id]
            longer == Append(blocks, block)
            sorted == ByModified(longer)
<1>1. block \in Blocks /\ block.id = op.block
  BY DEF Blocks, InsertOps
<1>2. Inserted(blocks, op) = Reindexed(sorted)
  BY DEF Inserted
<1>. HIDE DEF block
<1>3. /\ longer \in Seq(Blocks)
      /\ \A i \in DOMAIN blocks : i \in DOMAIN longer /\ longer[i] = blocks[i]
      /\ \A i \in DOMAIN longer : \/ longer[i] = block
                                  \/ i \in DOMAIN blocks /\ longer[i] = blocks[i]
  BY <1>1
<1>. HIDE DEF longer
<1>4. /\ sorted \in Seq(Blocks)
      /\ \A i \in DOMAIN longer : \E j \in DOMAIN sorted : sorted[j] = longer[i]
      /\ \A j \in DOMAIN sorted : \E i \in DOMAIN longer : sorted[j] = longer[i]
  BY <1>3, BlocksSorted
<1>. HIDE DEF sorted
<1>5. /\ BlocksSound(Reindexed(sorted)) /\ GoneStay(sorted, Reindexed(sorted))
      /\ ShownFrom(sorted, Reindexed(sorted), {})
  BY <1>4, ReindexedSound
<1>6. ASSUME NEW i \in DOMAIN blocks, blocks[i].tombstone
      PROVE  \E j \in DOMAIN Reindexed(sorted) : Reindexed(sorted)[j] = blocks[i]
  <2>1. PICK j \in DOMAIN sorted : sorted[j] = blocks[i]
    BY <1>3, <1>4
  <2>. QED
    BY <1>5, <1>6, <2>1 DEF GoneStay
<1>7. ASSUME NEW j \in DOMAIN Reindexed(sorted), ~Reindexed(sorted)[j].tombstone,
             Reindexed(sorted)[j].id # op.block
      PROVE  \E i \in DOMAIN blocks : /\ ~blocks[i].tombstone
                                      /\ blocks[i].id = Reindexed(sorted)[j].id
  <2>1. PICK k \in DOMAIN sorted : ~sorted[k].tombstone /\ sorted[k].id = Reindexed(sorted)[j].id
    BY <1>5, <1>7 DEF ShownFrom
  <2>2. PICK i \in DOMAIN longer : sorted[k] = longer[i]
    BY <1>4
  <2>. QED
    BY <1>1, <1>3, <1>7, <2>1, <2>2
<1>8. ShownFrom(blocks, Reindexed(sorted), {op.block})
  BY <1>7 DEF ShownFrom
<1>. QED
  BY <1>2, <1>5, <1>6, <1>8 DEF GoneStay

\* Changing one shown block, its position left alone, or hiding it.
LEMMA OneChanged ==
    ASSUME NEW blocks \in Seq(Blocks), ShownApart(blocks),
           NEW i \in 1..Len(blocks), ~blocks[i].tombstone,
           NEW block \in Blocks, block.id = blocks[i].id,
           block.position = blocks[i].position \/ block.tombstone
    PROVE  LET new == [blocks EXCEPT ![i] = block]
           IN  BlocksSound(new) /\ GoneStay(blocks, new) /\ ShownFrom(blocks, new, {})
<1>. DEFINE new == [blocks EXCEPT ![i] = block]
<1>1. /\ new \in Seq(Blocks) /\ DOMAIN new = DOMAIN blocks
      /\ new[i] = block /\ \A j \in DOMAIN blocks : j # i => new[j] = blocks[j]
  OBVIOUS
<1>. HIDE DEF new
<1>2. ShownApart(new)
  BY <1>1 DEF ShownApart
<1>3. GoneStay(blocks, new)
  BY <1>1 DEF GoneStay
<1>4. ShownFrom(blocks, new, {})
  BY <1>1 DEF ShownFrom
<1>. QED
  BY <1>1, <1>2, <1>3, <1>4 DEF new, BlocksSound

\* A replacement keeps positions apart and deleted blocks deleted.
LEMMA ReplacedSound ==
    ASSUME NEW blocks, BlocksSound(blocks), NEW op \in ReplaceOps,
           Outcome(blocks, op) = "ok"
    PROVE  /\ BlocksSound(Replaced(blocks, op)) /\ GoneStay(blocks, Replaced(blocks, op))
           /\ ShownFrom(blocks, Replaced(blocks, op), {})
<1>. DEFINE i == Find(blocks, op.block)
            block == [blocks[i] EXCEPT !.content = op.new, !.modified = op.id]
<1>1. op.kind = "replace" /\ op.new \in Texts /\ op.id \in Clocks
  BY DEF ReplaceOps
<1>2. i \in 1..Len(blocks) /\ ~blocks[i].tombstone /\ blocks \in Seq(Blocks)
  BY <1>1, FoundShown DEF BlocksSound
<1>. HIDE DEF i
<1>3. blocks[i] \in Blocks
  BY <1>2
<1>4. block \in Blocks /\ block.position = blocks[i].position /\ block.id = blocks[i].id
  BY <1>1, <1>3 DEF Blocks
<1>5. Replaced(blocks, op) = [blocks EXCEPT ![i] = block]
  BY DEF Replaced, i
<1>. HIDE DEF block
<1>. QED
  BY <1>2, <1>4, <1>5, OneChanged DEF BlocksSound

\* So does a deletion.
LEMMA DeletedSound ==
    ASSUME NEW blocks, BlocksSound(blocks), NEW op, op.kind = "delete",
           Outcome(blocks, op) = "ok"
    PROVE  /\ BlocksSound(Deleted(blocks, op)) /\ GoneStay(blocks, Deleted(blocks, op))
           /\ ShownFrom(blocks, Deleted(blocks, op), {})
<1>. DEFINE i == Find(blocks, op.block)
            block == [blocks[i] EXCEPT !.tombstone = TRUE]
<1>1. i \in 1..Len(blocks) /\ ~blocks[i].tombstone /\ blocks \in Seq(Blocks)
  BY FoundShown DEF BlocksSound
<1>. HIDE DEF i
<1>2. blocks[i] \in Blocks
  BY <1>1
<1>3. block \in Blocks /\ block.tombstone /\ block.id = blocks[i].id
  BY <1>2 DEF Blocks
<1>4. Deleted(blocks, op) = [blocks EXCEPT ![i] = block]
  BY DEF Deleted, i
<1>. HIDE DEF block
<1>. QED
  BY <1>1, <1>3, <1>4, OneChanged DEF BlocksSound

\* Making room changes the position of a shown block only, and below none.
LEMMA ShiftedBlock ==
    ASSUME NEW block \in Blocks, NEW old \in Nat, NEW new \in Nat
    PROVE  /\ Shifted(block, old, new) \in Blocks
           /\ Shifted(block, old, new).id = block.id
           /\ Shifted(block, old, new).tombstone = block.tombstone
           /\ block.tombstone => Shifted(block, old, new) = block
<1>1. block.position \in Nat
  BY DEF Blocks
<1>. DEFINE p == block.position - 1
            q == block.position + 1
<1>2. CASE ~block.tombstone /\ old < block.position /\ block.position <= new
  <2>1. p \in Nat
    BY <1>1, <1>2
  <2>2. Shifted(block, old, new) = [block EXCEPT !.position = p]
    BY <1>2 DEF Shifted
  <2>. HIDE DEF p
  <2>. QED
    BY <1>2, <2>1, <2>2 DEF Blocks
<1>3. CASE ~block.tombstone /\ ~(old < block.position /\ block.position <= new)
           /\ new <= block.position /\ block.position < old
  <2>1. q \in Nat
    BY <1>1
  <2>2. Shifted(block, old, new) = [block EXCEPT !.position = q]
    BY <1>3 DEF Shifted
  <2>. HIDE DEF q
  <2>. QED
    BY <1>3, <2>1, <2>2 DEF Blocks
<1>4. CASE \/ block.tombstone
           \/ ~(old < block.position /\ block.position <= new)
              /\ ~(new <= block.position /\ block.position < old)
  BY <1>4 DEF Shifted
<1>. QED
  BY <1>2, <1>3, <1>4

\* So does a move, for which the blocks between make room.
LEMMA MovedSound ==
    ASSUME NEW blocks, BlocksSound(blocks), NEW op \in MoveOps,
           Outcome(blocks, op) = "ok"
    PROVE  /\ BlocksSound(Moved(blocks, op)) /\ GoneStay(blocks, Moved(blocks, op))
           /\ ShownFrom(blocks, Moved(blocks, op), {})
<1>. DEFINE i == Find(blocks, op.block)
            old == blocks[i].position
            block == [blocks[i] EXCEPT !.position = op.to, !.modified = op.id]
            room == [j \in DOMAIN blocks |->
                       IF blocks[j].id = op.block
                         THEN blocks[j] ELSE Shifted(blocks[j], old, op.to)]
            moved == [room EXCEPT ![i] = block]
<1>1. op.kind = "move" /\ op.to \in Nat /\ op.id \in Clocks
  BY DEF MoveOps
<1>2. /\ i \in 1..Len(blocks) /\ ~blocks[i].tombstone /\ blocks \in Seq(Blocks)
      /\ Len(blocks) \in Nat /\ DOMAIN blocks = 1..Len(blocks)
  BY <1>1, FoundShown DEF BlocksSound
<1>3. Moved(blocks, op) = IF old = op.to THEN [blocks EXCEPT ![i] = block]
                                         ELSE Reindexed(moved)
  BY DEF Moved
<1>. HIDE DEF i
<1>4. \A j \in 1..Len(blocks) : blocks[j] \in Blocks
  BY <1>2
<1>5. /\ old \in Nat /\ block \in Blocks /\ block.position = op.to
      /\ block.id = blocks[i].id /\ block.tombstone = blocks[i].tombstone
  BY <1>1, <1>2, <1>4 DEF Blocks
<1>. HIDE DEF old, block
<1>6. CASE old = op.to
  BY <1>2, <1>3, <1>5, <1>6, OneChanged DEF BlocksSound, old
<1>7. CASE old # op.to
  <2>1. \A j \in 1..Len(blocks) : /\ room[j] \in Blocks
                                  /\ blocks[j].tombstone => room[j] = blocks[j]
                                  /\ room[j].id = blocks[j].id
                                  /\ room[j].tombstone = blocks[j].tombstone
    BY <1>1, <1>2, <1>4, <1>5, ShiftedBlock
  <2>2. room = [j \in 1..Len(blocks) |-> room[j]]
    BY <1>2
  <2>. HIDE DEF room
  <2>3. moved \in [1..Len(blocks) -> Blocks]
    BY <1>5, <2>1, <2>2
  <2>4. \A j \in 1..Len(blocks) : /\ blocks[j].tombstone => moved[j] = blocks[j]
                                  /\ moved[j].id = blocks[j].id
                                  /\ moved[j].tombstone = blocks[j].tombstone
    BY <1>2, <1>5, <2>1, <2>2
  <2>. HIDE DEF moved
  <2>5. moved \in Seq(Blocks) /\ DOMAIN moved = 1..Len(blocks)
    BY <1>2, <2>3, SequenceMade
  <2>6. /\ BlocksSound(Reindexed(moved)) /\ GoneStay(moved, Reindexed(moved))
        /\ ShownFrom(moved, Reindexed(moved), {})
    BY <2>5, ReindexedSound
  <2>7. GoneStay(blocks, Reindexed(moved))
    BY <1>2, <2>4, <2>5, <2>6 DEF GoneStay
  <2>8. ShownFrom(blocks, Reindexed(moved), {})
    BY <1>2, <2>4, <2>5, <2>6 DEF ShownFrom
  <2>. QED
    BY <1>3, <1>7, <2>6, <2>7, <2>8
<1>. QED
  BY <1>6, <1>7

\* So does every operation that goes through.
LEMMA AppliedSound ==
    ASSUME NEW blocks, BlocksSound(blocks), NEW op \in Ops,
           Outcome(blocks, op) = "ok"
    PROVE  /\ BlocksSound(Applied(blocks, op)) /\ GoneStay(blocks, Applied(blocks, op))
           /\ ShownFrom(blocks, Applied(blocks, op), IF op.kind = "insert" THEN {op.block} ELSE {})
<1>. USE OpFields
<1>1. CASE op.kind = "insert"
  <2>1. Applied(blocks, op) = Inserted(blocks, op)
    BY <1>1 DEF Applied
  <2>. QED
    BY <1>1, <2>1, InsertedSound DEF BlocksSound
<1>2. CASE op.kind = "replace"
  <2>1. Applied(blocks, op) = Replaced(blocks, op)
    BY <1>2 DEF Applied
  <2>. QED
    BY <1>2, <2>1, ReplacedSound
<1>3. CASE op.kind = "move"
  <2>1. Applied(blocks, op) = Moved(blocks, op)
    BY <1>3 DEF Applied
  <2>. QED
    BY <1>3, <2>1, MovedSound
<1>4. CASE op.kind = "delete"
  <2>1. Applied(blocks, op) = Deleted(blocks, op)
    BY <1>4 DEF Applied
  <2>. QED
    BY <1>4, <2>1, DeletedSound
<1>. QED
  BY <1>1, <1>2, <1>3, <1>4

-----------------------------------------------------------------------------
(* Documents *)

Documents == [hlc : Clocks, version : Vectors, blocks : Seq(Blocks),
              operations : Seq(Ops)]

\* A document of device d: what it has recorded is not ahead of its clock.
DocSound(d, doc) ==
    /\ doc \in Documents
    /\ doc.hlc.node = d
    /\ ShownApart(doc.blocks)
    /\ \A i \in DOMAIN doc.operations : Behind(doc.operations[i].id, doc.hlc)

IdsOf(doc) == {doc.operations[i].id : i \in DOMAIN doc.operations}

\* The record of operations has only become longer.
RecordKept(old, new) ==
    \A k \in DOMAIN old.operations :
        k \in DOMAIN new.operations /\ new.operations[k] = old.operations[k]

\* What is shown in addition was inserted by an operation recorded since.
ShownByInsert(old, new) ==
    \A b \in ShownIds(new.blocks) \ ShownIds(old.blocks) :
        \E k \in DOMAIN new.operations \ DOMAIN old.operations :
            /\ new.operations[k].kind = "insert"
            /\ new.operations[k].block = b

\* Nothing recorded or deleted is undone, and the clock does not go back.
DocGrows(old, new) ==
    /\ IdsOf(old) \subseteq IdsOf(new)
    /\ Behind(old.hlc, new.hlc)
    /\ GoneStay(old.blocks, new.blocks)
    /\ RecordKept(old, new)
    /\ ShownByInsert(old, new)

\* What is recorded in addition was not recorded before.
RecordsNew(old, new) ==
    \A k \in DOMAIN new.operations \ DOMAIN old.operations :
        new.operations[k].id \notin IdsOf(old)

\* Deleted blocks stay through any number of steps.
LEMMA GoneStaysOn ==
    /\ \A x : GoneStay(x, x)
    /\ \A x, y, z : GoneStay(x, y) /\ GoneStay(y, z) => GoneStay(x, z)
<1>1. ASSUME NEW x, NEW y, NEW z, GoneStay(x, y), GoneStay(y, z),
             NEW i \in DOMAIN x, x[i].tombstone
      PROVE  \E k \in DOMAIN z : z[k] = x[i]
  <2>1. PICK j \in DOMAIN y : y[j] = x[i]
    BY <1>1 DEF GoneStay
  <2>. QED
    BY <1>1, <2>1 DEF GoneStay
<1>. QED
  BY <1>1 DEF GoneStay

\* And so does the record, which explains what is shown.
LEMMA RecordsOn ==
    /\ \A x : RecordKept(x, x) /\ ShownByInsert(x, x) /\ RecordsNew(x, x)
    /\ \A x, y, z : RecordKept(x, y) /\ RecordKept(y, z) => RecordKept(x, z)
    /\ \A x, y, z : /\ RecordKept(x, y) /\ ShownByInsert(x, y)
                    /\ RecordKept(y, z) /\ ShownByInsert(y, z)
                    => ShownByInsert(x, z)
    /\ \A x, y, z : /\ IdsOf(x) \subseteq IdsOf(y)
                    /\ RecordKept(y, z) /\ RecordsNew(x, y) /\ RecordsNew(y, z)
                    => RecordsNew(x, z)
<1>1. \A x : RecordKept(x, x) /\ ShownByInsert(x, x) /\ RecordsNew(x, x)
  BY DEF RecordKept, ShownByInsert, RecordsNew
<1>2. \A x, y, z : RecordKept(x, y) /\ RecordKept(y, z) => RecordKept(x, z)
  BY DEF RecordKept
<1>3. ASSUME NEW x, NEW y, NEW z, RecordKept(x, y), ShownByInsert(x, y),
             RecordKept(y, z), ShownByInsert(y, z),
             NEW b \in ShownIds(z.blocks) \ ShownIds(x.blocks)
      PROVE  \E k \in DOMAIN z.operations \ DOMAIN x.operations :
                /\ z.operations[k].kind = "insert"
                /\ z.operations[k].block = b
  <2>1. CASE b \in ShownIds(y.blocks)
    <3>1. PICK k \in DOMAIN y.operations \ DOMAIN x.operations :
             y.operations[k].kind = "insert" /\ y.operations[k].block = b
      BY <1>3, <2>1 DEF ShownByInsert
    <3>2. k \in DOMAIN z.operations /\ z.operations[k] = y.operations[k]
      BY <1>3, <3>1 DEF RecordKept
    <3>. QED
      BY <3>1, <3>2
  <2>2. CASE b \notin ShownIds(y.blocks)
    <3>1. PICK k \in DOMAIN z.operations \ DOMAIN y.operations :
             z.operations[k].kind = "insert" /\ z.operations[k].block = b
      BY <1>3, <2>2 DEF ShownByInsert
    <3>2. DOMAIN x.operations \subseteq DOMAIN y.operations
      BY <1>3 DEF RecordKept
    <3>. QED
      BY <3>1, <3>2
  <2>. QED
    BY <2>1, <2>2
<1>4. ASSUME NEW x, NEW y, NEW z, IdsOf(x) \subseteq IdsOf(y),
             RecordKept(y, z), RecordsNew(x, y), RecordsNew(y, z),
             NEW k \in DOMAIN z.operations \ DOMAIN x.operations
      PROVE  z.operations[k].id \notin IdsOf(x)
  <2>1. CASE k \in DOMAIN y.operations
    <3>1. z.operations[k] = y.operations[k]
      BY <1>4, <2>1 DEF RecordKept
    <3>. QED
      BY <1>4, <2>1, <3>1 DEF RecordsNew
  <2>2. CASE k \notin DOMAIN y.operations
    BY <1>4, <2>2 DEF RecordsNew
  <2>. QED
    BY <2>1, <2>2
<1>5. \A x, y, z : /\ RecordKept(x, y) /\ ShownByInsert(x, y)
                   /\ RecordKept(y, z) /\ ShownByInsert(y, z)
                   => ShownByInsert(x, z)
  <2>. TAKE x, y, z
  <2>. HAVE /\ RecordKept(x, y) /\ ShownByInsert(x, y)
            /\ RecordKept(y, z) /\ ShownByInsert(y, z)
  <2>1. \A b \in ShownIds(z.blocks) \ ShownIds(x.blocks) :
           \E k \in DOMAIN z.operations \ DOMAIN x.operations :
                /\ z.operations[k].kind = "insert"
                /\ z.operations[k].block = b
    BY <1>3
  <2>. QED
    BY <2>1 DEF ShownByInsert
<1>6. \A x, y, z : /\ IdsOf(x) \subseteq IdsOf(y)
                   /\ RecordKept(y, z) /\ RecordsNew(x, y) /\ RecordsNew(y, z)
                   => RecordsNew(x, z)
  <2>. TAKE x, y, z
  <2>. HAVE /\ IdsOf(x) \subseteq IdsOf(y)
            /\ RecordKept(y, z) /\ RecordsNew(x, y) /\ RecordsNew(y, z)
  <2>1. \A k \in DOMAIN z.operations \ DOMAIN x.operations : z.operations[k].id \notin IdsOf(x)
    BY <1>4
  <2>. QED
    BY <2>1 DEF RecordsNew
<1>. QED
  BY <1>1, <1>2, <1>5, <1>6

\* And so does everything a document holds.
LEMMA GrowsOn ==
    /\ \A x \in Documents : DocGrows(x, x)
    /\ \A x, y, z \in Documents : DocGrows(x, y) /\ DocGrows(y, z) => DocGrows(x, z)
<1>1. \A x \in Documents : x.hlc \in Clocks
  BY DEF Documents
<1>2. \A x \in Documents : DocGrows(x, x)
  BY <1>1, GoneStaysOn, RecordsOn, BehindOrders DEF DocGrows
<1>3. ASSUME NEW x \in Documents, NEW y \in Documents, NEW z \in Documents,
             DocGrows(x, y), DocGrows(y, z)
      PROVE  DocGrows(x, z)
  <2>1. IdsOf(x) \subseteq IdsOf(z) /\ Behind(x.hlc, z.hlc)
    BY <1>1, <1>3, BehindOrders DEF DocGrows
  <2>2. GoneStay(x.blocks, z.blocks)
    BY <1>3, GoneStaysOn DEF DocGrows
  <2>3. RecordKept(x, z)
    BY <1>3, RecordsOn DEF DocGrows
  <2>4. ShownByInsert(x, z)
    BY <1>3, RecordsOn DEF DocGrows
  <2>. QED
    BY <2>1, <2>2, <2>3, <2>4 DEF DocGrows
<1>. QED
  BY <1>2, <1>3

\* A document with another clock, not behind its own, and another version.
LEMMA ClockMoves ==
    ASSUME NEW d, NEW doc, DocSound(d, doc), NEW new \in Documents,
           new.hlc.node = d, Behind(doc.hlc, new.hlc),
           new.blocks = doc.blocks, new.operations = doc.operations
    PROVE  DocSound(d, new) /\ DocGrows(doc, new)
<1>1. doc.hlc \in Clocks /\ \A i \in DOMAIN doc.operations : doc.operations[i].id \in Clocks
  <2>1. \A i \in DOMAIN doc.operations : doc.operations[i] \in Ops
    BY DEF DocSound, Documents
  <2>. QED
    BY <2>1, OpFields DEF DocSound, Documents
<1>2. \A i \in DOMAIN doc.operations : Behind(doc.operations[i].id, new.hlc)
  <2>1. new.hlc \in Clocks
    BY DEF Documents
  <2>. QED
    BY <1>1, <2>1, BehindOrders DEF DocSound
<1>3. DocSound(d, new)
  BY <1>2 DEF DocSound
<1>4. RecordKept(doc, new) /\ ShownByInsert(doc, new)
  BY DEF RecordKept, ShownByInsert
<1>. QED
  BY <1>3, <1>4, GoneStaysOn DEF DocGrows, IdsOf

\* Applying an operation that the clock has heard of.
LEMMA ApplySound ==
    ASSUME NEW d, NEW doc, DocSound(d, doc), NEW op \in Ops, Behind(op.id, doc.hlc)
    PROVE  /\ DocSound(d, Apply(doc, op)) /\ DocGrows(doc, Apply(doc, op))
           /\ Apply(doc, op).hlc = doc.hlc /\ Apply(doc, op).version = doc.version
           /\ Outcome(doc.blocks, op) = "ok" =>
                 Apply(doc, op).operations = Append(doc.operations, op)
           /\ Outcome(doc.blocks, op) # "ok" => Apply(doc, op) = doc
<1>0. doc \in Documents /\ doc.blocks \in Seq(Blocks) /\ doc.operations \in Seq(Ops)
  BY DEF DocSound, Documents
<1>1. CASE Outcome(doc.blocks, op) # "ok"
  BY <1>0, <1>1, GrowsOn DEF Apply
<1>2. CASE Outcome(doc.blocks, op) = "ok"
  <2>. DEFINE blocks == Applied(doc.blocks, op)
              operations == Append(doc.operations, op)
              new == [doc EXCEPT !.blocks = blocks, !.operations = operations]
  <2>1. Apply(doc, op) = new
    BY <1>2 DEF Apply
  <2>2. /\ blocks \in Seq(Blocks) /\ ShownApart(blocks) /\ GoneStay(doc.blocks, blocks)
        /\ ShownFrom(doc.blocks, blocks, IF op.kind = "insert" THEN {op.block} ELSE {})
    BY <1>0, <1>2, AppliedSound DEF DocSound, BlocksSound
  <2>3. operations \in Seq(Ops)
    BY <1>0
  <2>4. \A i \in DOMAIN operations :
            \/ operations[i] = op
            \/ i \in DOMAIN doc.operations /\ operations[i] = doc.operations[i]
    BY <1>0
  <2>5. \A i \in DOMAIN doc.operations :
            i \in DOMAIN operations /\ operations[i] = doc.operations[i]
    BY <1>0
  <2>. HIDE DEF blocks, operations
  <2>6. /\ new \in Documents /\ new.hlc = doc.hlc /\ new.version = doc.version
        /\ new.blocks = blocks /\ new.operations = operations
    BY <1>0, <2>2, <2>3 DEF Documents
  <2>. HIDE DEF new
  <2>7. DocSound(d, new)
    BY <2>2, <2>4, <2>6 DEF DocSound
  <2>8. DocGrows(doc, new)
    <3>1. doc.hlc \in Clocks
      BY <1>0 DEF Documents
    <3>2. IdsOf(doc) \subseteq IdsOf(new)
      BY <2>5, <2>6 DEF IdsOf
    <3>3. RecordKept(doc, new)
      BY <2>5, <2>6 DEF RecordKept
    <3>4. ASSUME NEW b \in ShownIds(blocks) \ ShownIds(doc.blocks)
          PROVE  op.kind = "insert" /\ op.block = b
      BY <2>2, <3>4 DEF ShownFrom, ShownIds
    <3>5. \E k \in DOMAIN operations \ DOMAIN doc.operations : operations[k] = op
      <4>. DEFINE n == Len(doc.operations) + 1
      <4>1. n \in DOMAIN operations /\ n \notin DOMAIN doc.operations /\ operations[n] = op
        BY <1>0 DEF operations
      <4>. QED
        BY <4>1
    <3>6. ShownByInsert(doc, new)
      BY <2>6, <3>4, <3>5 DEF ShownByInsert
    <3>. QED
      BY <2>2, <2>6, <3>1, <3>2, <3>3, <3>6, BehindOrders DEF DocGrows
  <2>. QED
    BY <1>2, <2>1, <2>6, <2>7, <2>8 DEF operations
<1>. QED
  BY <1>1, <1>2

-----------------------------------------------------------------------------
(* Merges *)

\* Transforming an operation keeps its id and its kind.
LEMMA TransformTyped ==
    ASSUME NEW op \in Ops, NEW existing \in Seq(Ops)
    PROVE  Transform(op, existing) \in Ops /\ Transform(op, existing).id = op.id
<1>. DEFINE rivals == Conflicting(op, existing)
            earlier == {i \in rivals : /\ existing[i].kind = "insert"
                                       /\ Earlier(existing[i].id, op.id)}
            loses == \E i \in rivals : Earlier(op.id, existing[i].id)
            more == Cardinality(earlier)
            to == op.to + more
<1>1. more \in Nat
  <2>1. Len(existing) \in Nat /\ earlier \in SUBSET (1..Len(existing))
    BY DEF Conflicting
  <2>. QED
    BY <2>1, CountIn
<1>2. Transform(op, existing) =
        CASE op.kind = "insert" -> [op EXCEPT !.to = to]
          [] op.kind = "replace" /\ loses -> [op EXCEPT !.new = op.old]
          [] op.kind = "move" /\ loses -> [op EXCEPT !.to = op.from]
          [] OTHER -> op
  BY DEF Transform
<1>. HIDE DEF more, loses
<1>3. CASE op.kind = "insert"
  <2>1. op \in InsertOps /\ to \in Nat
    BY <1>1, <1>3, OpFields
  <2>2. Transform(op, existing) = [op EXCEPT !.to = to]
    BY <1>2, <1>3
  <2>. HIDE DEF to
  <2>3. [op EXCEPT !.to = to] \in InsertOps /\ [op EXCEPT !.to = to].id = op.id
    BY <2>1 DEF InsertOps
  <2>. QED
    BY <2>2, <2>3 DEF Ops
<1>4. CASE op.kind = "replace" /\ loses
  <2>1. op \in ReplaceOps /\ op.old \in Texts
    BY <1>4, OpFields
  <2>2. Transform(op, existing) = [op EXCEPT !.new = op.old]
    BY <1>2, <1>4
  <2>3. [op EXCEPT !.new = op.old] \in ReplaceOps /\ [op EXCEPT !.new = op.old].id = op.id
    BY <2>1 DEF ReplaceOps
  <2>. QED
    BY <2>2, <2>3 DEF Ops
<1>5. CASE op.kind = "move" /\ loses
  <2>1. op \in MoveOps /\ op.from \in Nat
    BY <1>5, OpFields
  <2>2. Transform(op, existing) = [op EXCEPT !.to = op.from]
    BY <1>2, <1>5
  <2>3. [op EXCEPT !.to = op.from] \in MoveOps /\ [op EXCEPT !.to = op.from].id = op.id
    BY <2>1 DEF MoveOps
  <2>. QED
    BY <2>2, <2>3 DEF Ops
<1>6. CASE op.kind # "insert" /\ ~(op.kind = "replace" /\ loses)
           /\ ~(op.kind = "move" /\ loses)
  BY <1>2, <1>6
<1>. QED
  BY <1>3, <1>4, <1>5, <1>6

\* The operations stay operations when some are left out and the rest is sorted.
LEMMA UnknownTyped ==
    ASSUME NEW batch \in Seq(Ops), NEW known
    PROVE  /\ Unknown(batch, known) \in Seq(Ops)
           /\ \A n \in DOMAIN Unknown(batch, known) : Unknown(batch, known)[n].id \notin known
<1>. DEFINE hits == {i \in DOMAIN batch : batch[i].id \notin known}
<1>1. Unknown(batch, known) =
        [n \in 1..Cardinality(hits) |->
           batch[CHOOSE i \in hits : Cardinality({j \in hits : j <= i}) = n]]
  BY DEF Unknown, Kept
<1>2. hits \in SUBSET DOMAIN batch /\ \A i \in hits : batch[i].id \notin known
  OBVIOUS
<1>. HIDE DEF hits
<1>3. Filters(Unknown(batch, known), batch, hits)
  BY <1>1 DEF Filters
<1>4. /\ Unknown(batch, known) \in Seq(Ops)
      /\ \A n \in DOMAIN Unknown(batch, known) :
            \E i \in hits : Unknown(batch, known)[n] = batch[i]
  BY <1>2, <1>3, Filtered
<1>. QED
  BY <1>2, <1>4

\* Sorting operations by their ids leaves operations.
LEMMA SortedTyped ==
    ASSUME NEW s \in Seq(Ops)
    PROVE  /\ InIdOrder(s) \in Seq(Ops)
           /\ \A i \in DOMAIN InIdOrder(s) : \E k \in DOMAIN s : InIdOrder(s)[i] = s[k]
<1>. DEFINE n == Len(s)
            key == [k \in 1..n |-> s[k].id]
            P(k) == Cardinality({j \in 1..n :
                      Earlier(key[j], key[k]) \/ (~Earlier(key[k], key[j]) /\ j <= k)})
            Q(k) == Cardinality({j \in DOMAIN s :
                      \/ Earlier(s[j].id, s[k].id)
                      \/ ~Earlier(s[k].id, s[j].id) /\ j <= k})
            pick == [i \in 1..n |-> CHOOSE k \in DOMAIN s : Q(k) = i]
<1>1. n \in Nat /\ DOMAIN s = 1..n /\ \A k \in 1..n : s[k] \in Ops
  OBVIOUS
<1>2. key \in [1..n -> Clocks]
  BY <1>1, OpFields
<1>3. \A m \in 1..n : \E k \in 1..n : P(k) = m
  <2>. HIDE DEF n, key
  <2>. QED
    BY <1>1, <1>2, PlacesTaken
<1>4. \A k \in 1..n : Q(k) = P(k)
  <2>. SUFFICES ASSUME NEW k \in 1..n
                PROVE  {j \in DOMAIN s : \/ Earlier(s[j].id, s[k].id)
                                         \/ ~Earlier(s[k].id, s[j].id) /\ j <= k}
                       = {j \in 1..n : Earlier(key[j], key[k]) \/
                                       (~Earlier(key[k], key[j]) /\ j <= k)}
    OBVIOUS
  <2>. QED
    BY <1>1
<1>5. InIdOrder(s) = [i \in DOMAIN s |-> s[CHOOSE k \in DOMAIN s : Q(k) = i]]
  BY DEF InIdOrder, StableSort, Place
<1>. HIDE DEF P, Q, n
<1>6. \A i \in 1..n : pick[i] \in 1..n
  <2>1. \A i \in 1..n : \E k \in DOMAIN s : Q(k) = i
    BY <1>1, <1>3, <1>4
  <2>. QED
    BY <1>1, <2>1
<1>7. InIdOrder(s) = [i \in 1..n |-> s[pick[i]]]
  BY <1>1, <1>5
<1>. HIDE DEF pick
<1>8. InIdOrder(s) \in [1..n -> Ops]
  BY <1>1, <1>6, <1>7
<1>9. \A i \in DOMAIN InIdOrder(s) : \E k \in DOMAIN s : InIdOrder(s)[i] = s[k]
  BY <1>1, <1>6, <1>7
<1>. QED
  BY <1>1, <1>8, <1>9, SequenceMade

\* What a merge applies are operations of the batch that were not recorded.
LEMMA NewsTyped ==
    ASSUME NEW doc, NEW batch \in Seq(Ops)
    PROVE  /\ NewOperations(doc, batch) \in Seq(Ops)
           /\ \A i \in DOMAIN NewOperations(doc, batch) :
                 NewOperations(doc, batch)[i].id \notin IdsOf(doc)
<1>. DEFINE left == Unknown(batch, IdsOf(doc))
<1>1. left \in Seq(Ops) /\ \A k \in DOMAIN left : left[k].id \notin IdsOf(doc)
  BY UnknownTyped
<1>2. NewOperations(doc, batch) = InIdOrder(left)
  BY DEF NewOperations, IdsOf
<1>. HIDE DEF left
<1>3. /\ InIdOrder(left) \in Seq(Ops)
      /\ \A i \in DOMAIN InIdOrder(left) : \E k \in DOMAIN left : InIdOrder(left)[i] = left[k]
  BY <1>1, SortedTyped
<1>. QED
  BY <1>1, <1>2, <1>3

\* One operation of a merge: the clock hears of it before it is applied.
Merging(progress, k, c) ==
    /\ progress = [doc |-> progress.doc, failed |-> progress.failed]
    /\ progress.failed \in BOOLEAN
    /\ DocSound(c[1], progress.doc)
    /\ DocGrows(c[2], progress.doc)
    /\ RecordsNew(c[2], progress.doc)

\* One operation of a merge, applied or failed.
LEMMA MergeOneSound ==
    ASSUME NEW c, NEW k, NEW l, NEW progress, Merging(progress, k, c), c[2] \in Documents,
           NEW op \in Ops, op.id \notin IdsOf(c[2]), NEW now \in Nat
    PROVE  Merging(MergeOne(progress, op, now), l, c)
<1>. DEFINE old == progress.doc
            hlc == Receive(old.hlc, op.id, now)
            doc == [old EXCEPT !.hlc = hlc]
            local == Transform(op, doc.operations)
            new == Apply(doc, local)
<1>1. CASE progress.failed
  <2>1. MergeOne(progress, op, now) = progress
    BY <1>1 DEF MergeOne
  <2>. QED
    BY <2>1 DEF Merging
<1>2. CASE ~progress.failed
  <2>1. MergeOne(progress, op, now) =
          [doc |-> new, failed |-> Outcome(doc.blocks, local) = "invalid"]
    BY <1>2 DEF MergeOne
  <2>2. DocSound(c[1], old) /\ old \in Documents /\ old.hlc \in Clocks /\ old.version \in Vectors
    BY DEF Merging, DocSound, Documents
  <2>. HIDE DEF old
  <2>3. op.id \in Clocks
    BY OpFields
  <2>4. hlc \in Clocks /\ hlc.node = c[1] /\ Behind(old.hlc, hlc) /\ Behind(op.id, hlc)
    BY <2>2, <2>3, ReceiveAfter DEF DocSound
  <2>. HIDE DEF hlc
  <2>5. /\ doc \in Documents /\ doc.hlc = hlc /\ doc.blocks = old.blocks
        /\ doc.operations = old.operations
    BY <2>2, <2>4 DEF Documents
  <2>. HIDE DEF doc
  <2>6. DocSound(c[1], doc) /\ DocGrows(old, doc) /\ doc.hlc = hlc
    BY <2>2, <2>4, <2>5, ClockMoves
  <2>7. local \in Ops /\ local.id = op.id
    BY <2>6, TransformTyped DEF DocSound, Documents
  <2>. HIDE DEF local
  <2>8. DocSound(c[1], new) /\ DocGrows(doc, new)
    BY <2>4, <2>6, <2>7, ApplySound
  <2>9. DocGrows(c[2], new)
    <3>1. doc \in Documents /\ new \in Documents /\ DocGrows(c[2], old)
      BY <2>6, <2>8 DEF DocSound, Merging, old
    <3>. QED
      BY <2>2, <2>6, <2>8, <3>1, GrowsOn
  <2>10. RecordsNew(c[2], new)
    <3>1. \/ new.operations = old.operations
          \/ new.operations = Append(old.operations, local) /\ old.operations \in Seq(Ops)
      BY <2>2, <2>4, <2>5, <2>6, <2>7, ApplySound DEF Documents
    <3>. HIDE DEF new
    <3>2. RecordsNew(c[2], old)
      BY DEF Merging, old
    <3>3. CASE new.operations = old.operations
      BY <3>2, <3>3 DEF RecordsNew
    <3>4. CASE new.operations = Append(old.operations, local) /\ old.operations \in Seq(Ops)
      <4>1. \A m \in DOMAIN new.operations :
               \/ m \in DOMAIN old.operations /\ new.operations[m] = old.operations[m]
               \/ new.operations[m] = local
        BY <2>7, <3>4
      <4>. QED
        BY <2>7, <3>2, <4>1 DEF RecordsNew
    <3>. QED
      BY <3>1, <3>3, <3>4
  <2>. HIDE DEF new
  <2>. QED
    BY <2>1, <2>8, <2>9, <2>10 DEF Merging
<1>. QED
  BY <1>1, <1>2 DEF Merging

Merges == INSTANCE FoldInduction WITH Step <- MergeOne, Holds <- Merging

\* A merge is a fold.
LEMMA MergesFold ==
    ASSUME NEW doc, NEW batch, NEW now
    PROVE  MergeAll(doc, batch, now) =
             Merges!Fold([doc |-> doc, failed |-> FALSE], NewOperations(doc, batch), now)
BY DEF MergeAll, Merges!Fold, FoldLeft, MapThenFoldSet, Merges!FoldLeft,
       Merges!MapThenFoldSet, Max, Merges!Max

\* However many operations a merge applies, and whether one of them fails.
LEMMA MergeAllSound ==
    ASSUME NEW d, NEW doc, DocSound(d, doc), NEW batch \in Seq(Ops), NEW now \in Nat
    PROVE  /\ DocSound(d, MergeAll(doc, batch, now).doc)
           /\ DocGrows(doc, MergeAll(doc, batch, now).doc)
           /\ RecordsNew(doc, MergeAll(doc, batch, now).doc)
<1>. DEFINE base == [doc |-> doc, failed |-> FALSE]
            news == NewOperations(doc, batch)
            c == <<d, doc>>
<1>1. news \in Seq(Ops) /\ \A i \in DOMAIN news : news[i].id \notin IdsOf(doc)
  BY NewsTyped
<1>2. doc \in Documents
  BY DEF DocSound
<1>3. Merging(base, 0, c)
  BY <1>2, GrowsOn, RecordsOn DEF Merging
<1>. HIDE DEF base, news
<1>4. \A k \in 0..(Len(news) - 1) : \A p :
         Merging(p, k, c) => Merging(MergeOne(p, news[k+1], now), k+1, c)
  <2>. SUFFICES ASSUME NEW k \in 0..(Len(news) - 1), NEW p, Merging(p, k, c)
                PROVE  Merging(MergeOne(p, news[k+1], now), k+1, c)
    OBVIOUS
  <2>1. news[k+1] \in Ops /\ c[2] \in Documents /\ news[k+1].id \notin IdsOf(c[2])
    BY <1>1, <1>2
  <2>. HIDE DEF c
  <2>. QED
    BY <2>1, MergeOneSound
<1>5. Merging(Merges!Fold(base, news, now), Len(news), c)
  <2>. HIDE DEF c
  <2>. QED
    BY <1>1, <1>3, <1>4, Merges!FoldHolds
<1>6. MergeAll(doc, batch, now) = Merges!Fold(base, news, now)
  BY MergesFold DEF base, news
<1>. QED
  BY <1>5, <1>6 DEF Merging

\* The clocks of a batch merge to a clock.
Seeing(vector, k, c) == vector \in Vectors

Sights == INSTANCE FoldInduction WITH Step <- MergeClock, Holds <- Seeing

\* So is the clock of a batch.
LEMMA SightsFold ==
    ASSUME NEW batch, NEW now
    PROVE  ClockOf(batch, now) = Sights!Fold(NoEvents, batch, now)
BY DEF ClockOf, Sights!Fold, FoldLeft, MapThenFoldSet, Sights!FoldLeft,
       Sights!MapThenFoldSet, Max, Sights!Max

\* And it is a vector clock.
LEMMA ClockOfTyped ==
    ASSUME NEW batch \in Seq(Ops), NEW now \in Nat
    PROVE  ClockOf(batch, now) \in Vectors
<1>1. Seeing(NoEvents, 0, 0)
  BY VectorsTyped DEF Seeing
<1>2. \A k \in 0..(Len(batch) - 1) : \A v :
         Seeing(v, k, 0) => Seeing(MergeClock(v, batch[k+1], now), k+1, 0)
  <2>. SUFFICES ASSUME NEW k \in 0..(Len(batch) - 1), NEW v \in Vectors
                PROVE  MergeVectors(v, batch[k+1].clock, now) \in Vectors
    BY DEF Seeing, MergeClock
  <2>1. batch[k+1] \in Ops
    OBVIOUS
  <2>. QED
    BY <2>1, OpFields, VectorsTyped
<1>3. Seeing(Sights!Fold(NoEvents, batch, now), Len(batch), 0)
  BY <1>1, <1>2, Sights!FoldHolds
<1>. QED
  BY <1>3, SightsFold DEF Seeing

\* A merge leaves a sound document, and undoes nothing of the one it met.
LEMMA MergedSound ==
    ASSUME NEW d, NEW doc, DocSound(d, doc), NEW batch \in Seq(Ops), NEW now \in Nat
    PROVE  /\ DocSound(d, Merged(doc, batch, now)) /\ DocGrows(doc, Merged(doc, batch, now))
           /\ RecordsNew(doc, Merged(doc, batch, now))
<1>. DEFINE end == MergeAll(doc, batch, now).doc
            version == MergeVectors(end.version, ClockOf(batch, now), now)
            new == [end EXCEPT !.version = version]
<1>1. /\ DocSound(d, end) /\ DocGrows(doc, end) /\ RecordsNew(doc, end)
      /\ end \in Documents /\ doc \in Documents
  BY MergeAllSound DEF DocSound
<1>2. Merged(doc, batch, now) = IF MergeAll(doc, batch, now).failed THEN end ELSE new
  BY DEF Merged
<1>. HIDE DEF end
<1>3. version \in Vectors
  BY <1>1, ClockOfTyped, VectorsTyped DEF Documents
<1>. HIDE DEF version
<1>4. /\ new \in Documents /\ new.hlc = end.hlc /\ new.blocks = end.blocks
      /\ new.operations = end.operations /\ end.hlc \in Clocks
  BY <1>1, <1>3 DEF Documents
<1>. HIDE DEF new
<1>5. DocSound(d, new) /\ DocGrows(end, new)
  BY <1>1, <1>4, ClockMoves, BehindOrders DEF DocSound
<1>6. DocGrows(doc, new)
  BY <1>1, <1>4, <1>5, GrowsOn
<1>7. RecordsNew(doc, new)
  BY <1>1, <1>4 DEF RecordsNew
<1>. QED
  BY <1>1, <1>2, <1>5, <1>6, <1>7

-----------------------------------------------------------------------------
(* The documents of all devices *)

\* The document of d after an event of its own.
Own(doc, d, now) ==
    [doc EXCEPT !.hlc = Increment(doc.hlc, now),
                !.version = CountEvent(doc.version, d, now)]

\* An event of a document's own clock: the clock moves on and names it.
LEMMA OwnEvent ==
    ASSUME NEW d \in Devices, NEW doc, DocSound(d, doc), NEW now \in Nat
    PROVE  LET hlc == Increment(doc.hlc, now)
               version == CountEvent(doc.version, d, now)
               new == Own(doc, d, now)
           IN  /\ hlc \in Clocks /\ hlc.node = d /\ version \in Vectors
               /\ DocSound(d, new) /\ DocGrows(doc, new)
               /\ new.hlc = hlc /\ new.version = version
               /\ new.blocks = doc.blocks /\ new.operations = doc.operations
               /\ \A id \in Clocks : Behind(id, doc.hlc) => Earlier(id, hlc) /\ id # hlc
<1>. DEFINE hlc == Increment(doc.hlc, now)
            version == CountEvent(doc.version, d, now)
            new == Own(doc, d, now)
<1>0. new = [doc EXCEPT !.hlc = hlc, !.version = version]
  BY DEF Own
<1>1. doc \in Documents /\ doc.hlc \in Clocks /\ doc.version \in Vectors /\ doc.hlc.node = d
  BY DEF DocSound, Documents
<1>2. /\ hlc \in Clocks /\ hlc.node = d /\ version \in Vectors
      /\ Behind(doc.hlc, hlc) /\ ~Behind(hlc, doc.hlc)
  BY <1>1, IncrementAfter, VectorsTyped
<1>. HIDE DEF hlc, version, new
<1>3. /\ new \in Documents /\ new.hlc = hlc /\ new.version = version
      /\ new.blocks = doc.blocks /\ new.operations = doc.operations
  BY <1>0, <1>1, <1>2 DEF Documents
<1>4. DocSound(d, new) /\ DocGrows(doc, new)
  BY <1>2, <1>3, ClockMoves
<1>5. ASSUME NEW id \in Clocks, Behind(id, doc.hlc) PROVE Earlier(id, hlc) /\ id # hlc
  BY <1>1, <1>2, <1>5, BehindOrders
<1>. QED
  BY <1>2, <1>3, <1>4, <1>5 DEF hlc, version, new

\* There is a device with the least number.
LEMMA FounderExists == Founder \in Devices
<1>1. \E d \in Devices : \A e \in Devices : d <= e
  BY CrdtAssumption, Sequences!LeastNumber
<1>. QED
  BY <1>1 DEF Founder

\* The first copy: its operations are the founder's, each with an id of its own.
Founding(doc, k, c) ==
    /\ DocSound(Founder, doc)
    /\ \A i \in DOMAIN doc.operations : doc.operations[i].id.node = Founder
    /\ \A i, j \in DOMAIN doc.operations :
          doc.operations[i].id = doc.operations[j].id => i = j

\* An empty document is sound.
LEMMA NewSound ==
    ASSUME NEW d \in Devices, NEW now \in Nat
    PROVE  /\ DocSound(d, NewDocument(d, now))
           /\ NewDocument(d, now).operations = << >>
<1>1. NewDocument(d, now) = [hlc |-> NewClock(d, now), version |-> NoEvents,
                             blocks |-> << >>, operations |-> << >>]
  BY DEF NewDocument
<1>2. NewClock(d, now) \in Clocks /\ NewClock(d, now).node = d
  BY DEF NewClock, Clocks
<1>3. << >> \in Seq(Blocks) /\ << >> \in Seq(Ops) /\ DOMAIN << >> = {}
  OBVIOUS
<1>4. NewDocument(d, now) \in Documents
  BY <1>1, <1>2, <1>3, VectorsTyped DEF Documents
<1>. QED
  BY <1>1, <1>2, <1>3, <1>4 DEF DocSound, ShownApart

\* The content of an inserted block is a content.
LEMMA FirstContentTyped == FirstContent \in Texts
BY CrdtAssumption DEF FirstContent, Texts

\* The founder inserts a block: the id is a new one.
LEMMA FounderInsertsSound ==
    ASSUME NEW doc, NEW k, NEW l, NEW c, Founding(doc, k, c), NEW b \in BlockIds,
           NEW now \in Nat
    PROVE  Founding(FounderInserts(doc, b, now), l, c)
<1>. DEFINE hlc == Increment(doc.hlc, now)
            version == CountEvent(doc.version, Founder, now)
            own == Own(doc, Founder, now)
            op == [kind |-> "insert", id |-> hlc, clock |-> version, block |-> b,
                   to |-> Len(doc.blocks), new |-> FirstContent]
<1>0. DocSound(Founder, doc) /\ Founder \in Devices
  BY FounderExists DEF Founding
<1>1. /\ hlc \in Clocks /\ hlc.node = Founder /\ version \in Vectors
      /\ DocSound(Founder, own) /\ own.hlc = hlc
      /\ own.blocks = doc.blocks /\ own.operations = doc.operations
      /\ \A id \in Clocks : Behind(id, doc.hlc) => id # hlc
  BY <1>0, OwnEvent
<1>2. FounderInserts(doc, b, now) = Apply(own, op)
  BY DEF FounderInserts, Own
<1>3. doc.operations \in Seq(Ops) /\ Len(doc.blocks) \in Nat
  BY DEF Founding, DocSound, Documents
<1>. HIDE DEF hlc, version, own
<1>4. op \in Ops /\ op.id = hlc /\ op.kind = "insert"
  BY <1>1, <1>3, FirstContentTyped DEF Ops, InsertOps
<1>. HIDE DEF op
<1>5. Outcome(own.blocks, op) = "ok"
  BY <1>4 DEF Outcome
<1>6. Behind(op.id, own.hlc)
  BY <1>1, <1>4, BehindOrders
<1>. DEFINE new == Apply(own, op)
<1>7. DocSound(Founder, new) /\ new.operations = Append(doc.operations, op)
  BY <1>1, <1>4, <1>5, <1>6, ApplySound
<1>. HIDE DEF new
<1>8. /\ DOMAIN new.operations = 1..(Len(doc.operations) + 1)
      /\ Len(doc.operations) \in Nat /\ DOMAIN doc.operations = 1..Len(doc.operations)
      /\ new.operations[Len(doc.operations) + 1] = op
      /\ \A i \in DOMAIN doc.operations : /\ new.operations[i] = doc.operations[i]
                                          /\ doc.operations[i].id # hlc
  <2>1. \A i \in DOMAIN doc.operations : doc.operations[i] \in Ops
    BY <1>3
  <2>2. \A i \in DOMAIN doc.operations : doc.operations[i].id # hlc
    BY <1>1, <2>1, OpFields DEF Founding, DocSound
  <2>. QED
    BY <1>3, <1>7, <2>2
<1>9. \A i \in DOMAIN new.operations : new.operations[i].id.node = Founder
  BY <1>1, <1>4, <1>8 DEF Founding
<1>10. ASSUME NEW i \in DOMAIN new.operations, NEW j \in DOMAIN new.operations,
              new.operations[i].id = new.operations[j].id
       PROVE  i = j
  <2>. DEFINE n == Len(doc.operations)
  <2>1. CASE i \in 1..n /\ j \in 1..n
    BY <1>8, <1>10, <2>1 DEF Founding
  <2>2. CASE i = n + 1 /\ j \in 1..n
    BY <1>4, <1>8, <1>10, <2>2
  <2>3. CASE i \in 1..n /\ j = n + 1
    BY <1>4, <1>8, <1>10, <2>3
  <2>. QED
    BY <1>8, <2>1, <2>2, <2>3
<1>. QED
  BY <1>2, <1>7, <1>9, <1>10 DEF Founding, new

Founds == INSTANCE FoldInduction WITH Step <- FounderInserts, Holds <- Founding

\* The first copy is a fold.
LEMMA FoundsFold ==
    ASSUME NEW now
    PROVE  FirstCopy(now) = Founds!Fold(NewDocument(Founder, now), SharedBlocks, now)
BY DEF FirstCopy, Founds!Fold, FoldLeft, MapThenFoldSet, Founds!FoldLeft,
       Founds!MapThenFoldSet, Max, Founds!Max

\* The first copy is sound, with one operation for each id.
LEMMA FirstCopySound ==
    ASSUME NEW now \in Nat
    PROVE  Founding(FirstCopy(now), Len(SharedBlocks), 0)
<1>. DEFINE base == NewDocument(Founder, now)
<1>1. Founding(base, 0, 0)
  BY NewSound, FounderExists DEF Founding
<1>. HIDE DEF base
<1>2. \A k \in 0..(Len(SharedBlocks) - 1) : \A p :
         Founding(p, k, 0) => Founding(FounderInserts(p, SharedBlocks[k+1], now), k+1, 0)
  <2>. SUFFICES ASSUME NEW k \in 0..(Len(SharedBlocks) - 1), NEW p, Founding(p, k, 0)
                PROVE  Founding(FounderInserts(p, SharedBlocks[k+1], now), k+1, 0)
    OBVIOUS
  <2>1. SharedBlocks[k+1] \in BlockIds
    BY CrdtAssumption
  <2>. QED
    BY <2>1, FounderInsertsSound
<1>3. Founding(Founds!Fold(base, SharedBlocks, now), Len(SharedBlocks), 0)
  <2>1. SharedBlocks \in Seq(BlockIds)
    BY CrdtAssumption
  <2>. QED
    BY <1>1, <1>2, <2>1, Founds!FoldHolds
<1>. QED
  BY <1>3, FoundsFold DEF base

-----------------------------------------------------------------------------
(* Conflicts and their resolution *)

Conflicts == [block : BlockIds, local : Texts, remote : Texts]

\* The last hit of a search is one of the hits.
LEMMA LastMatch ==
    ASSUME NEW n \in Nat, NEW hits \in SUBSET (1..n)
    PROVE  LET last == IF hits = {} THEN 0
                       ELSE CHOOSE i \in hits : \A j \in hits : j <= i
           IN  last # 0 => last \in hits
<1>1. hits # {} => \E i \in hits : \A j \in hits : j <= i
  <2>. SUFFICES ASSUME hits # {} PROVE \E i \in hits : \A j \in hits : j <= i
    OBVIOUS
  <2>. DEFINE T == {n - x : x \in hits}
  <2>1. T \subseteq Nat /\ T # {}
    <3>1. \A x \in hits : n - x \in Nat
      OBVIOUS
    <3>2. PICK x \in hits : TRUE
      OBVIOUS
    <3>3. n - x \in T
      OBVIOUS
    <3>. QED
      BY <3>1, <3>3
  <2>2. PICK t \in T : \A u \in T : t <= u
    BY <2>1, Sequences!LeastNumber
  <2>3. PICK x \in hits : t = n - x
    OBVIOUS
  <2>4. \A y \in hits : t <= n - y
    BY <2>2
  <2>. QED
    BY <2>3, <2>4
<1>. QED
  BY <1>1

\* The rival of a remote operation is a recorded one of the kind asked for.
LEMMA RivalTyped ==
    ASSUME NEW doc \in Documents, NEW op, NEW kind
    PROVE  Rival(doc, op, kind) # 0 =>
              /\ Rival(doc, op, kind) \in DOMAIN doc.operations
              /\ doc.operations[Rival(doc, op, kind)] \in Ops
              /\ doc.operations[Rival(doc, op, kind)].kind = kind
<1>. DEFINE own == doc.operations
            hits == {i \in DOMAIN own :
                       own[i].block = op.block /\ own[i].kind = kind
                       /\ Concurrent(own[i].clock, op.clock)}
            rival == Rival(doc, op, kind)
<1>1. own \in Seq(Ops)
  BY DEF Documents
<1>2. rival = IF hits = {} THEN 0 ELSE CHOOSE i \in hits : \A j \in hits : j <= i
  BY DEF Rival, LastIndex
<1>3. Len(own) \in Nat /\ hits \in SUBSET (1..Len(own)) /\ DOMAIN own = 1..Len(own)
  BY <1>1
<1>4. \A i \in hits : i \in DOMAIN own /\ own[i].kind = kind
  OBVIOUS
<1>. HIDE DEF hits, rival
<1>5. rival # 0 => rival \in hits
  BY <1>2, <1>3, LastMatch
<1>6. \A i \in DOMAIN own : own[i] \in Ops
  BY <1>1
<1>7. rival # 0 => rival \in DOMAIN own /\ own[rival] \in Ops /\ own[rival].kind = kind
  BY <1>4, <1>5, <1>6
<1>. QED
  BY <1>7 DEF rival

\* What is reported of a remote operation is a conflict of two texts.
LEMMA ConflictTyped ==
    ASSUME NEW doc \in Documents, NEW op \in Ops
    PROVE  ConflictOf(doc, op) \in Seq(Conflicts)
<1>. DEFINE rival == Rival(doc, op, IF op.kind = "move" THEN "move" ELSE "replace")
            own == doc.operations[rival]
            moved == [block |-> op.block, local |-> PositionText(own.to),
                      remote |-> PositionText(op.to)]
            changed == [block |-> op.block, local |-> own.new,
                        remote |-> IF op.kind = "delete" THEN NoText ELSE op.new]
<1>1. \/ ConflictOf(doc, op) = << >>
      \/ rival # 0 /\ op.kind = "move" /\ ConflictOf(doc, op) = <<moved>>
      \/ /\ rival # 0 /\ op.kind \notin {"move", "insert"}
         /\ ConflictOf(doc, op) = <<changed>>
  BY DEF ConflictOf
<1>2. rival # 0 => /\ own \in Ops
                   /\ own.kind = IF op.kind = "move" THEN "move" ELSE "replace"
  BY RivalTyped
<1>. HIDE DEF rival
<1>3. CASE rival # 0 /\ op.kind = "move"
  <2>1. own.to \in Nat /\ op.to \in Nat /\ op.block \in BlockIds
    BY <1>2, <1>3, OpFields
  <2>2. moved \in Conflicts
    BY <2>1 DEF Conflicts, Texts, PositionText
  <2>. HIDE DEF moved
  <2>3. <<moved>> \in Seq(Conflicts) /\ << >> \in Seq(Conflicts)
    BY <2>2
  <2>. QED
    BY <1>1, <1>3, <2>3
<1>4. CASE rival # 0 /\ op.kind \notin {"move", "insert"}
  <2>1. /\ own.new \in Texts /\ op.block \in BlockIds
        /\ op.kind = "delete" \/ op.new \in Texts
    BY <1>2, <1>4, OpFields
  <2>2. changed \in Conflicts
    BY <2>1 DEF Conflicts, Texts
  <2>. HIDE DEF changed
  <2>3. <<changed>> \in Seq(Conflicts) /\ << >> \in Seq(Conflicts)
    BY <2>2
  <2>. QED
    BY <1>1, <1>4, <2>3
<1>5. << >> \in Seq(Conflicts)
  OBVIOUS
<1>. QED
  BY <1>1, <1>3, <1>4, <1>5

Reporting(found, k, c) == found \in Seq(Conflicts)

Reports == INSTANCE FoldInduction WITH Step <- WithConflict, Holds <- Reporting

\* Detecting conflicts is a fold.
LEMMA ReportsFold ==
    ASSUME NEW doc, NEW batch
    PROVE  DetectConflicts(doc, batch) = Reports!Fold(<< >>, batch, doc)
BY DEF DetectConflicts, Reports!Fold, FoldLeft, MapThenFoldSet, Reports!FoldLeft,
       Reports!MapThenFoldSet, Max, Reports!Max

\* So a whole batch is reported as conflicts.
LEMMA DetectedTyped ==
    ASSUME NEW doc \in Documents, NEW batch \in Seq(Ops)
    PROVE  DetectConflicts(doc, batch) \in Seq(Conflicts)
<1>1. Reporting(<< >>, 0, 0)
  BY DEF Reporting
<1>2. \A k \in 0..(Len(batch) - 1) : \A p :
         Reporting(p, k, 0) => Reporting(WithConflict(p, batch[k+1], doc), k+1, 0)
  <2>. SUFFICES ASSUME NEW k \in 0..(Len(batch) - 1), NEW p \in Seq(Conflicts)
                PROVE  p \o ConflictOf(doc, batch[k+1]) \in Seq(Conflicts)
    BY DEF Reporting, WithConflict
  <2>1. batch[k+1] \in Ops
    OBVIOUS
  <2>2. ConflictOf(doc, batch[k+1]) \in Seq(Conflicts)
    BY <2>1, ConflictTyped
  <2>. QED
    BY <2>2
<1>3. Reporting(Reports!Fold(<< >>, batch, doc), Len(batch), 0)
  BY <1>1, <1>2, Reports!FoldHolds
<1>. QED
  BY <1>3, ReportsFold DEF Reporting

\* What a resolution goes through: the document stays sound, the conflicts left
\* are some of those there were.
Resolving(progress, k, c) ==
    /\ progress = [doc |-> progress.doc, conflicts |-> progress.conflicts,
                   failed |-> progress.failed]
    /\ progress.failed \in BOOLEAN
    /\ progress.conflicts \in Seq(Conflicts)
    /\ DocSound(c[1], progress.doc)
    /\ DocGrows(c[2], progress.doc)
    /\ RecordsNew(c[2], progress.doc)

\* The conflict found for a block is one of the list.
LEMMA ConflictFound ==
    ASSUME NEW found \in Seq(Conflicts), NEW b
    PROVE  ConflictAt(found, b) # 0 => ConflictAt(found, b) \in DOMAIN found
<1>. DEFINE hits == {i \in DOMAIN found : found[i].block = b}
<1>1. ConflictAt(found, b) =
        IF hits = {} THEN 0 ELSE CHOOSE i \in hits : \A j \in hits : i <= j
  BY DEF ConflictAt, FirstIndex
<1>2. hits \in SUBSET (1..Len(found)) /\ Len(found) \in Nat /\ DOMAIN found = 1..Len(found)
  OBVIOUS
<1>. DEFINE n == Len(found)
            at == ConflictAt(found, b)
<1>3. /\ hits \in SUBSET (1..n) /\ n \in Nat
      /\ at = IF hits = {} THEN 0 ELSE CHOOSE i \in hits : \A j \in hits : i <= j
  BY <1>1, <1>2
<1>4. \A i \in hits : i \in DOMAIN found
  OBVIOUS
<1>. HIDE DEF hits, n, at
<1>5. at # 0 => at \in hits
  BY <1>3, FirstMatch
<1>6. at # 0 => at \in DOMAIN found
  BY <1>4, <1>5
<1>. QED
  BY <1>6 DEF at

\* The conflicts on other blocks are conflicts of the list.
LEMMA OnOthersTyped ==
    ASSUME NEW found \in Seq(Conflicts), NEW b
    PROVE  OnOthers(found, b) \in Seq(Conflicts)
<1>. DEFINE hits == {i \in DOMAIN found : found[i].block # b}
<1>1. Filters(OnOthers(found, b), found, hits)
  BY DEF OnOthers, Kept, Filters
<1>2. hits \in SUBSET DOMAIN found
  OBVIOUS
<1>. HIDE DEF hits
<1>. QED
  BY <1>1, <1>2, Filtered

\* One block resolved, or the first failure.
LEMMA ResolvedSound ==
    ASSUME NEW c, NEW k, NEW l, NEW progress, Resolving(progress, k, c),
           c[1] \in Devices, c[2] \in Documents, NEW b \in BlockIds, NEW answer \in Answers
    PROVE  Resolving(Resolved(progress, b, answer), l, c)
<1>. DEFINE doc == progress.doc
            found == progress.conflicts
            i == ConflictAt(found, b)
            hlc == Increment(doc.hlc, answer.now)
            version == CountEvent(doc.version, doc.hlc.node, answer.now)
            op == [kind |-> "replace", block |-> b, old |-> found[i].local,
                   new |-> IF answer.remote THEN found[i].remote ELSE found[i].local,
                   id |-> hlc, clock |-> version]
            own == Own(doc, doc.hlc.node, answer.now)
            done == Apply(own, op)
            others == OnOthers(found, b)
<1>1. /\ found \in Seq(Conflicts) /\ progress.failed \in BOOLEAN
      /\ DocSound(c[1], doc) /\ doc \in Documents /\ doc.hlc.node = c[1]
      /\ answer.now \in Nat /\ answer.remote \in BOOLEAN
      /\ progress = [doc |-> doc, conflicts |-> found, failed |-> progress.failed]
  BY CrdtAssumption DEF Resolving, DocSound, Answers
<1>2. \/ /\ progress.failed \/ i = 0
         /\ Resolved(progress, b, answer) = [progress EXCEPT !.failed = TRUE]
      \/ /\ i # 0
         /\ Resolved(progress, b, answer) = [progress EXCEPT !.doc = done, !.failed = TRUE]
      \/ /\ i # 0
         /\ Resolved(progress, b, answer) =
              [doc |-> done, failed |-> FALSE, conflicts |-> others]
  BY DEF Resolved, Own
<1>3. \A x, y, z, w : [[doc |-> x, conflicts |-> y, failed |-> z] EXCEPT !.failed = w] =
                       [doc |-> x, conflicts |-> y, failed |-> w]
  OBVIOUS
<1>4. \A x, y, z, v, w :
         [[doc |-> x, conflicts |-> y, failed |-> z] EXCEPT !.doc = v, !.failed = w] =
         [doc |-> v, conflicts |-> y, failed |-> w]
  <2>. TAKE x, y, z, v, w
  <2>. DEFINE q == [[doc |-> x, conflicts |-> y, failed |-> z] EXCEPT !.doc = v]
  <2>1. q = [doc |-> v, conflicts |-> y, failed |-> z]
    OBVIOUS
  <2>. HIDE DEF q
  <2>2. [q EXCEPT !.failed = w] = [doc |-> v, conflicts |-> y, failed |-> w]
    BY <2>1
  <2>. QED
    BY <2>2 DEF q
<1>5. ASSUME i # 0 PROVE DocSound(c[1], done) /\ DocGrows(c[2], done) /\ RecordsNew(c[2], done)
  <2>1. /\ hlc \in Clocks /\ version \in Vectors
        /\ DocSound(c[1], own) /\ DocGrows(doc, own) /\ own.hlc = hlc
        /\ own.operations = doc.operations
        /\ \A id \in Clocks : Behind(id, doc.hlc) => id # hlc
    BY <1>1, OwnEvent
  <2>2. found[i] \in Conflicts
    BY <1>1, <1>5, ConflictFound
  <2>3. found[i].local \in Texts /\ found[i].remote \in Texts
    BY <2>2 DEF Conflicts
  <2>. HIDE DEF hlc, version, own, i, found
  <2>4. op \in Ops /\ op.id = hlc
    BY <1>1, <2>1, <2>3 DEF Ops, ReplaceOps
  <2>. HIDE DEF op
  <2>5. Behind(op.id, own.hlc)
    BY <2>1, <2>4, BehindOrders
  <2>6. DocSound(c[1], done) /\ DocGrows(own, done)
    BY <2>1, <2>4, <2>5, ApplySound
  <2>7. /\ own \in Documents /\ done \in Documents
        /\ DocGrows(c[2], doc) /\ RecordsNew(c[2], doc)
    BY <2>1, <2>6 DEF DocSound, Resolving
  <2>8. /\ RecordKept(doc, done) /\ RecordsNew(doc, done)
    <3>1. \/ done.operations = doc.operations
          \/ done.operations = Append(doc.operations, op) /\ doc.operations \in Seq(Ops)
      BY <2>1, <2>4, <2>5, <2>7, ApplySound DEF Documents
    <3>. HIDE DEF done, doc
    <3>2. op.id \notin IdsOf(doc)
      <4>1. \A m \in DOMAIN doc.operations : /\ doc.operations[m] \in Ops
                                            /\ Behind(doc.operations[m].id, doc.hlc)
        BY <1>1 DEF DocSound, Documents
      <4>2. \A m \in DOMAIN doc.operations : doc.operations[m].id \in Clocks
        BY <4>1, OpFields
      <4>. QED
        BY <2>1, <2>4, <4>1, <4>2 DEF IdsOf
    <3>3. CASE done.operations = doc.operations
      BY <3>3 DEF RecordKept, RecordsNew
    <3>4. CASE done.operations = Append(doc.operations, op) /\ doc.operations \in Seq(Ops)
      <4>1. /\ \A m \in DOMAIN done.operations :
                  m \in DOMAIN doc.operations \/ done.operations[m] = op
            /\ \A m \in DOMAIN doc.operations :
                  m \in DOMAIN done.operations /\ done.operations[m] = doc.operations[m]
        BY <3>4
      <4>. QED
        BY <3>2, <4>1 DEF RecordKept, RecordsNew
    <3>. QED
      BY <3>1, <3>3, <3>4
  <2>. HIDE DEF done, doc
  <2>9. DocGrows(c[2], own)
    BY <1>1, <2>1, <2>7, GrowsOn
  <2>10. RecordsNew(c[2], done)
    BY <2>7, <2>8, RecordsOn DEF DocGrows
  <2>. QED
    BY <2>6, <2>7, <2>9, <2>10, GrowsOn
<1>6. others \in Seq(Conflicts)
  BY <1>1, OnOthersTyped
<1>7. DocGrows(c[2], doc) /\ RecordsNew(c[2], doc)
  BY DEF Resolving
<1>. DEFINE end == Resolved(progress, b, answer)
<1>. HIDE DEF done, others, i, doc, found
<1>8. \/ end = [doc |-> doc, conflicts |-> found, failed |-> TRUE]
      \/ i # 0 /\ end = [doc |-> done, conflicts |-> found, failed |-> TRUE]
      \/ i # 0 /\ end = [doc |-> done, conflicts |-> others, failed |-> FALSE]
  <2>. DEFINE p == progress
              fail == progress.failed
  <2>1. p = [doc |-> doc, conflicts |-> found, failed |-> fail]
    BY <1>1
  <2>2. \/ end = [p EXCEPT !.failed = TRUE]
        \/ i # 0 /\ end = [p EXCEPT !.doc = done, !.failed = TRUE]
        \/ i # 0 /\ end = [doc |-> done, failed |-> FALSE, conflicts |-> others]
    BY <1>2
  <2>. HIDE DEF p, fail, end
  <2>. QED
    BY <2>1, <2>2, <1>3, <1>4
<1>. SUFFICES Resolving(end, l, c)
  BY DEF end
<1>. HIDE DEF end
<1>9. CASE end = [doc |-> doc, conflicts |-> found, failed |-> TRUE]
  BY <1>1, <1>7, <1>9 DEF Resolving
<1>10. CASE i # 0 /\ end = [doc |-> done, conflicts |-> found, failed |-> TRUE]
  BY <1>1, <1>5, <1>10 DEF Resolving
<1>11. CASE i # 0 /\ end = [doc |-> done, conflicts |-> others, failed |-> FALSE]
  BY <1>5, <1>6, <1>11 DEF Resolving
<1>. QED
  BY <1>8, <1>9, <1>10, <1>11

Resolves == INSTANCE FoldInduction WITH Step <- Resolved, Holds <- Resolving

\* Resolving several blocks is a fold.
LEMMA ResolvesFold ==
    ASSUME NEW d, NEW blocks, NEW answer
    PROVE  ResolveAll(d, blocks, answer) =
             Resolves!Fold([doc |-> copies[d], conflicts |-> conflicts[d],
                            failed |-> FALSE], blocks, answer)
BY DEF ResolveAll, Resolves!Fold, FoldLeft, MapThenFoldSet, Resolves!FoldLeft,
       Resolves!MapThenFoldSet, Max, Resolves!Max

\* Resolving any blocks leaves a sound document that undoes nothing.
LEMMA ResolveAllSound ==
    ASSUME NEW d \in Devices, DocSound(d, copies[d]), conflicts[d] \in Seq(Conflicts),
           NEW blocks \in Seq(BlockIds), NEW answer \in Answers
    PROVE  /\ DocSound(d, ResolveAll(d, blocks, answer).doc)
           /\ DocGrows(copies[d], ResolveAll(d, blocks, answer).doc)
           /\ RecordsNew(copies[d], ResolveAll(d, blocks, answer).doc)
           /\ ResolveAll(d, blocks, answer).conflicts \in Seq(Conflicts)
<1>. DEFINE base == [doc |-> copies[d], conflicts |-> conflicts[d], failed |-> FALSE]
            c == <<d, copies[d]>>
<1>1. copies[d] \in Documents
  BY DEF DocSound
<1>2. Resolving(base, 0, c)
  BY <1>1, GrowsOn, RecordsOn DEF Resolving
<1>. HIDE DEF base
<1>3. \A k \in 0..(Len(blocks) - 1) : \A p :
         Resolving(p, k, c) => Resolving(Resolved(p, blocks[k+1], answer), k+1, c)
  <2>. SUFFICES ASSUME NEW k \in 0..(Len(blocks) - 1), NEW p, Resolving(p, k, c)
                PROVE  Resolving(Resolved(p, blocks[k+1], answer), k+1, c)
    OBVIOUS
  <2>1. blocks[k+1] \in BlockIds /\ c[1] \in Devices /\ c[2] \in Documents
    BY <1>1
  <2>. HIDE DEF c
  <2>. QED
    BY <2>1, ResolvedSound
<1>4. Resolving(Resolves!Fold(base, blocks, answer), Len(blocks), c)
  <2>. HIDE DEF c
  <2>. QED
    BY <1>2, <1>3, Resolves!FoldHolds
<1>5. ResolveAll(d, blocks, answer) = Resolves!Fold(base, blocks, answer)
  BY ResolvesFold DEF base
<1>. QED
  BY <1>4, <1>5 DEF Resolving

-----------------------------------------------------------------------------
(* The copies of all devices *)

\* Every copy is sound, and no clock is behind an operation its device made.
CopiesInv ==
    /\ copies = [d \in Devices |-> copies[d]]
    /\ \A d \in Devices : DocSound(d, copies[d])
    /\ issued \subseteq Ops
    /\ \A op \in issued : Behind(op.id, copies[op.id.node].hlc)
    /\ IdsUnique
    /\ calls \in Nat

\* One copy grows, and nothing is handed out.
LEMMA CopyReplaced ==
    ASSUME CopiesInv, NEW d \in Devices, NEW new, DocSound(d, new),
           DocGrows(copies[d], new), RecordsNew(copies[d], new),
           copies' = [copies EXCEPT ![d] = new], issued' = issued, calls' = calls + 1
    PROVE  /\ CopiesInv'
           /\ \A e \in Devices : DocGrows(copies[e], copies'[e]) /\ RecordsNew(copies[e], copies'[e])
<1>1. /\ copies' = [e \in Devices |-> copies'[e]] /\ copies'[d] = new
      /\ \A e \in Devices \ {d} : copies'[e] = copies[e]
  BY DEF CopiesInv
<1>2. \A e \in Devices : copies[e] \in Documents /\ copies[e].hlc \in Clocks
  BY DEF CopiesInv, DocSound, Documents
<1>3. \A e \in Devices : DocGrows(copies[e], copies'[e]) /\ RecordsNew(copies[e], copies'[e])
  BY <1>1, <1>2, GrowsOn, RecordsOn
<1>4. \A e \in Devices : DocSound(e, copies'[e])
  BY <1>1 DEF CopiesInv
<1>5. ASSUME NEW op \in issued' PROVE Behind(op.id, copies'[op.id.node].hlc)
  <2>1. op.id \in Clocks /\ op.id.node \in Devices /\ op \in issued
    BY OpFields, ClockFields DEF CopiesInv
  <2>. DEFINE e == op.id.node
  <2>2. Behind(op.id, copies[e].hlc)
    BY <2>1 DEF CopiesInv
  <2>3. Behind(copies[e].hlc, copies'[e].hlc) /\ copies'[e].hlc \in Clocks
    BY <1>3, <1>4, <2>1 DEF DocGrows, DocSound, Documents
  <2>. QED
    BY <1>2, <2>1, <2>2, <2>3, BehindOrders
<1>6. IdsUnique' /\ calls' \in Nat /\ issued' \subseteq Ops
  BY DEF CopiesInv, IdsUnique
<1>. QED
  BY <1>1, <1>3, <1>4, <1>5, <1>6 DEF CopiesInv

\* An edit names its operation with the next id of its device.
LEMMA EditMade ==
    ASSUME CopiesInv, NEW d \in Devices, NEW b \in BlockIds, NEW now \in Times,
           \/ InsertBlock(d, b, now)
           \/ ReplaceBlock(d, b, now)
           \/ MoveBlock(d, b, now)
           \/ DeleteBlock(d, b, now)
    PROVE  \E op \in Ops : /\ Edit(d, op) /\ op.id = NextId(d, now)
                           /\ op.clock = NextVersion(d, now)
<1>1. /\ DocSound(d, copies[d]) /\ now \in Nat
      /\ copies[d].blocks \in Seq(Blocks) /\ MaxPosition \in Nat
  BY CrdtAssumption DEF CopiesInv, DocSound, Documents
<1>2. NextId(d, now) \in Clocks /\ NextVersion(d, now) \in Vectors
  BY <1>1, OwnEvent DEF NextId, NextVersion
<1>3. Shown(d, b).content \in Texts /\ Shown(d, b).position \in Nat
  <2>1. CASE Find(copies[d].blocks, b) = 0
    BY <2>1, FirstContentTyped DEF Shown
  <2>2. CASE Find(copies[d].blocks, b) # 0
    <3>1. copies[d].blocks[Find(copies[d].blocks, b)] \in Blocks
      BY <1>1, <2>2, Found
    <3>. QED
      BY <2>2, <3>1 DEF Shown, Blocks
  <2>. QED
    BY <2>1, <2>2
<1>4. CASE InsertBlock(d, b, now)
  <2>1. PICK to \in Positions :
          Edit(d, [kind |-> "insert", id |-> NextId(d, now), clock |-> NextVersion(d, now),
                   block |-> b, to |-> to, new |-> FirstContent])
    BY <1>4 DEF InsertBlock
  <2>2. to \in Nat
    BY <1>1 DEF Positions
  <2>. DEFINE op == [kind |-> "insert", id |-> NextId(d, now),
                     clock |-> NextVersion(d, now), block |-> b, to |-> to,
                     new |-> FirstContent]
  <2>3. op \in Ops /\ op.id = NextId(d, now) /\ op.clock = NextVersion(d, now)
    BY <1>2, <2>2, FirstContentTyped DEF Ops, InsertOps
  <2>. HIDE DEF op
  <2>. QED
    BY <2>1, <2>3 DEF op
<1>5. CASE ReplaceBlock(d, b, now)
  <2>1. PICK c \in Contents :
          Edit(d, [kind |-> "replace", id |-> NextId(d, now), clock |-> NextVersion(d, now),
                   block |-> b, old |-> Shown(d, b).content, new |-> c])
    BY <1>5 DEF ReplaceBlock
  <2>. DEFINE op == [kind |-> "replace", id |-> NextId(d, now),
                     clock |-> NextVersion(d, now), block |-> b,
                     old |-> Shown(d, b).content, new |-> c]
  <2>2. c \in Texts
    BY DEF Texts
  <2>3. op \in Ops /\ op.id = NextId(d, now) /\ op.clock = NextVersion(d, now)
    BY <1>2, <1>3, <2>2 DEF Ops, ReplaceOps
  <2>. HIDE DEF op
  <2>. QED
    BY <2>1, <2>3 DEF op
<1>6. CASE MoveBlock(d, b, now)
  <2>1. PICK to \in Positions :
          Edit(d, [kind |-> "move", id |-> NextId(d, now), clock |-> NextVersion(d, now),
                   block |-> b, from |-> Shown(d, b).position, to |-> to])
    BY <1>6 DEF MoveBlock
  <2>2. to \in Nat
    BY <1>1 DEF Positions
  <2>. DEFINE op == [kind |-> "move", id |-> NextId(d, now),
                     clock |-> NextVersion(d, now), block |-> b,
                     from |-> Shown(d, b).position, to |-> to]
  <2>3. op \in Ops /\ op.id = NextId(d, now) /\ op.clock = NextVersion(d, now)
    BY <1>2, <1>3, <2>2 DEF Ops, MoveOps
  <2>. HIDE DEF op
  <2>. QED
    BY <2>1, <2>3 DEF op
<1>7. CASE DeleteBlock(d, b, now)
  <2>. DEFINE op == [kind |-> "delete", id |-> NextId(d, now),
                     clock |-> NextVersion(d, now), block |-> b]
  <2>1. op \in Ops /\ op.id = NextId(d, now) /\ op.clock = NextVersion(d, now)
    BY <1>2 DEF Ops, DeleteOps
  <2>2. Edit(d, op)
    BY <1>7 DEF DeleteBlock
  <2>. HIDE DEF op
  <2>. QED
    BY <2>1, <2>2
<1>. QED
  BY <1>4, <1>5, <1>6, <1>7

\* An edit hands out at most one operation, which its copy has recorded and which
\* is later than everything recorded before.
LEMMA EditSound ==
    ASSUME CopiesInv, NEW d \in Devices, NEW now \in Nat, NEW op \in Ops, Edit(d, op),
           op.id = NextId(d, now), op.clock = NextVersion(d, now)
    PROVE  /\ CopiesInv'
           /\ \A e \in Devices : DocGrows(copies[e], copies'[e]) /\ RecordsNew(copies[e], copies'[e])
           /\ issued \subseteq issued' /\ issued' \ issued \subseteq {op}
           /\ op.id.node = d
           /\ op \in issued' => op.id \in IdsOf(copies'[d])
           /\ \A id \in IdsOf(copies[d]) : Earlier(id, op.id)
<1>. DEFINE old == copies[d]
            doc == Own(old, d, now)
            new == Apply(doc, op)
            done == Outcome(doc.blocks, op) = "ok"
<1>1. DocSound(d, old) /\ old \in Documents
  BY DEF CopiesInv, DocSound
<1>2. /\ op.id \in Clocks /\ op.id.node = d
      /\ DocSound(d, doc) /\ DocGrows(old, doc) /\ doc.hlc = op.id
      /\ doc.operations = old.operations
      /\ \A id \in Clocks : Behind(id, old.hlc) => Earlier(id, op.id) /\ id # op.id
  <2>. HIDE DEF doc, old
  <2>. QED
    BY <1>1, OwnEvent DEF doc, NextId, old
<1>3. /\ copies' = [copies EXCEPT ![d] = new] /\ calls' = calls + 1
      /\ issued' = IF done THEN issued \cup {op} ELSE issued
  BY DEF Edit, Own, NextId, NextVersion
<1>4. Behind(op.id, doc.hlc)
  BY <1>2, BehindOrders
<1>. HIDE DEF doc
<1>5. /\ DocSound(d, new) /\ DocGrows(doc, new) /\ new.hlc = op.id
      /\ done => new.operations = Append(doc.operations, op)
      /\ ~done => new.operations = doc.operations
  BY <1>2, <1>4, ApplySound
<1>6. DocGrows(old, new)
  <2>1. doc \in Documents /\ new \in Documents
    BY <1>2, <1>5 DEF DocSound
  <2>. HIDE DEF old, new
  <2>. QED
    BY <1>1, <1>2, <1>5, <2>1, GrowsOn
<1>7. done => op.id \in IdsOf(new)
  <2>. SUFFICES ASSUME done PROVE op.id \in IdsOf(new)
    OBVIOUS
  <2>1. doc.operations \in Seq(Ops) /\ new.operations = Append(doc.operations, op)
    BY <1>2, <1>5 DEF DocSound, Documents
  <2>2. /\ Len(doc.operations) + 1 \in DOMAIN new.operations
        /\ new.operations[Len(doc.operations) + 1] = op
    BY <2>1
  <2>. HIDE DEF new
  <2>. QED
    BY <2>2 DEF IdsOf
<1>. HIDE DEF new, done
<1>8. /\ copies' = [e \in Devices |-> copies'[e]] /\ copies'[d] = new
      /\ \A e \in Devices \ {d} : copies'[e] = copies[e]
  BY <1>3 DEF CopiesInv
<1>9. \A e \in Devices : copies[e] \in Documents /\ copies[e].hlc \in Clocks
  BY DEF CopiesInv, DocSound, Documents
<1>10. \A id \in IdsOf(old) : Earlier(id, op.id) /\ id # op.id
  <2>. SUFFICES ASSUME NEW i \in DOMAIN old.operations
                PROVE  Earlier(old.operations[i].id, op.id) /\ old.operations[i].id # op.id
    BY DEF IdsOf
  <2>1. old.operations \in Seq(Ops) /\ Behind(old.operations[i].id, old.hlc)
    BY <1>1 DEF DocSound, Documents
  <2>2. old.operations[i].id \in Clocks
    BY <2>1, OpFields
  <2>. QED
    BY <1>2, <2>1, <2>2
<1>11. RecordsNew(old, new)
  <2>1. old.operations \in Seq(Ops)
    BY <1>1 DEF Documents
  <2>2. \A k \in DOMAIN new.operations :
           k \in DOMAIN old.operations \/ new.operations[k] = op
    BY <1>2, <1>5, <2>1
  <2>. QED
    BY <1>10, <2>2 DEF RecordsNew
<1>12. \A e \in Devices : DocGrows(copies[e], copies'[e]) /\ RecordsNew(copies[e], copies'[e])
  <2>. TAKE e \in Devices
  <2>1. CASE e = d
    BY <1>6, <1>8, <1>11, <2>1
  <2>2. CASE e # d
    BY <1>8, <1>9, <2>2, GrowsOn, RecordsOn
  <2>. QED
    BY <2>1, <2>2
<1>13. \A e \in Devices : DocSound(e, copies'[e])
  BY <1>5, <1>8 DEF CopiesInv
<1>14. \A made \in issued : /\ made.id \in Clocks /\ made.id.node \in Devices
                            /\ Behind(made.id, copies[made.id.node].hlc)
                            /\ made.id # op.id
  <2>. TAKE made \in issued
  <2>1. /\ made.id \in Clocks /\ made.id.node \in Devices
        /\ Behind(made.id, copies[made.id.node].hlc)
    BY OpFields, ClockFields DEF CopiesInv
  <2>. QED
    BY <1>2, <2>1
<1>15. ASSUME NEW made \in issued' PROVE Behind(made.id, copies'[made.id.node].hlc)
  <2>1. CASE made = op
    BY <1>2, <1>5, <1>8, <2>1, BehindOrders
  <2>2. CASE made \in issued
    <3>. DEFINE e == made.id.node
    <3>1. e \in Devices /\ Behind(made.id, copies[e].hlc) /\ made.id \in Clocks
      BY <1>14, <2>2
    <3>2. Behind(copies[e].hlc, copies'[e].hlc) /\ copies'[e].hlc \in Clocks
      BY <1>12, <1>13, <3>1 DEF DocGrows, DocSound, Documents
    <3>. QED
      BY <1>9, <3>1, <3>2, BehindOrders
  <2>. QED
    BY <1>3, <2>1, <2>2
<1>16. IdsUnique'
  BY <1>3, <1>14 DEF IdsUnique, CopiesInv
<1>17. CopiesInv'
  BY <1>3, <1>8, <1>13, <1>15, <1>16 DEF CopiesInv
<1>18. op \in issued' => op.id \in IdsOf(copies'[d])
  BY <1>3, <1>7, <1>8, <1>14
<1>. QED
  BY <1>2, <1>3, <1>12, <1>17, <1>10, <1>18

\* The copies of the shared blocks satisfy the invariant.
LEMMA CopiesStart == CrdtInit => CopiesInv
<1>. SUFFICES ASSUME CrdtInit PROVE CopiesInv
  OBVIOUS
<1>1. PICK now \in Times :
        LET first == FirstCopy(now)
        IN  /\ copies = [d \in Devices |->
                  IF d = Founder THEN first
                  ELSE Merged(NewDocument(d, now), first.operations, now)]
            /\ issued = {first.operations[i] : i \in DOMAIN first.operations}
            /\ calls = 0
  BY DEF CrdtInit
<1>. DEFINE first == FirstCopy(now)
<1>2. Founding(first, Len(SharedBlocks), 0) /\ now \in Nat
  BY FirstCopySound, CrdtAssumption
<1>3. /\ copies = [d \in Devices |-> IF d = Founder THEN first
                     ELSE Merged(NewDocument(d, now), first.operations, now)]
      /\ issued = {first.operations[i] : i \in DOMAIN first.operations}
  BY <1>1
<1>. HIDE DEF first
<1>4. /\ DocSound(Founder, first) /\ first.operations \in Seq(Ops)
      /\ \A i \in DOMAIN first.operations : Behind(first.operations[i].id, first.hlc)
      /\ \A i \in DOMAIN first.operations : first.operations[i].id.node = Founder
      /\ \A i, j \in DOMAIN first.operations :
            first.operations[i].id = first.operations[j].id => i = j
  BY <1>2 DEF Founding, DocSound, Documents
<1>5. \A d \in Devices : DocSound(d, copies[d])
  <2>. TAKE d \in Devices
  <2>1. CASE d = Founder
    BY <1>3, <1>4, <2>1
  <2>2. CASE d # Founder
    <3>1. DocSound(d, Merged(NewDocument(d, now), first.operations, now))
      BY <1>2, <1>4, NewSound, MergedSound
    <3>. QED
      BY <1>3, <2>2, <3>1
  <2>. QED
    BY <2>1, <2>2
<1>6. issued \subseteq Ops
  BY <1>3, <1>4
<1>7. \A op \in issued : Behind(op.id, copies[op.id.node].hlc)
  BY <1>3, <1>4, FounderExists
<1>8. IdsUnique
  BY <1>3, <1>4 DEF IdsUnique
<1>9. copies = [d \in Devices |-> copies[d]]
  BY <1>3
<1>. QED
  BY <1>1, <1>5, <1>6, <1>7, <1>8, <1>9 DEF CopiesInv

-----------------------------------------------------------------------------
(* The engine *)

\* The engine of each device agrees with its copy.
EngineInv ==
    /\ CopiesInv
    /\ pending = [d \in Devices |-> pending[d]]
    /\ \A d \in Devices : pending[d] \subseteq issued
    /\ status \in [Devices -> {"idle", "synced", "conflict"}]
    /\ conflicts = [d \in Devices |-> conflicts[d]]
    /\ \A d \in Devices : conflicts[d] \in Seq(Conflicts)
    /\ EngineAgrees

\* And so do the engines that know of no conflict and have nothing to send.
LEMMA EngineStart == EngineInit => EngineInv
<1>. SUFFICES ASSUME EngineInit PROVE EngineInv
  OBVIOUS
<1>1. CopiesInv
  BY CopiesStart DEF EngineInit
<1>2. << >> \in Seq(Conflicts)
  OBVIOUS
<1>. QED
  BY <1>1, <1>2 DEF EngineInit, EngineInv, EngineAgrees, ConflictStatus, PendingApplied

\* What a device will send stays applied when its copy grows.
LEMMA PendingStaysApplied ==
    ASSUME \A d \in Devices : DocGrows(copies[d], copies'[d]),
           \A d \in Devices : \A op \in pending'[d] :
              \/ op \in pending[d]
              \/ op.id \in IdsOf(copies'[d]) /\ op.id.node = d,
           PendingApplied
    PROVE  PendingApplied'
<1>. SUFFICES ASSUME NEW d \in Devices, NEW op \in pending'[d]
              PROVE  op.id \in Recorded(d)' /\ op.id.node = d
  BY DEF PendingApplied
<1>1. CASE op \in pending[d]
  <2>1. op.id \in IdsOf(copies[d]) /\ op.id.node = d
    BY <1>1 DEF PendingApplied, Recorded, IdsOf
  <2>2. IdsOf(copies[d]) \subseteq IdsOf(copies'[d])
    BY DEF DocGrows
  <2>. QED
    BY <2>1, <2>2 DEF Recorded, IdsOf
<1>. QED
  BY <1>1 DEF Recorded, IdsOf

\* What every call promises besides the invariant.
StepPromises ==
    /\ \A op \in issued' \ issued : \A id \in Recorded(op.id.node) : Earlier(id, op.id)
    /\ \A d \in Devices : RecordsNew(copies[d], copies'[d])
    /\ DeletedStays
    /\ PendingKept

\* Documents that grow keep deleted blocks, and show what was inserted.
LEMMA GrownKeepsDeleted ==
    ASSUME \A d \in Devices : DocGrows(copies[d], copies'[d])
    PROVE  DeletedStays
<1>1. \A d \in Devices : /\ GoneStay(copies[d].blocks, copies'[d].blocks)
                         /\ RecordKept(copies[d], copies'[d])
                         /\ ShownByInsert(copies[d], copies'[d])
  BY DEF DocGrows
<1>. QED
  BY <1>1 DEF GoneStay, RecordKept, ShownByInsert, DeletedStays

\* An edit by the user: what it hands out is pending.
LEMMA EngineEditSafe ==
    ASSUME EngineInv, NEW d \in Devices, EngineEdit(d)
    PROVE  EngineInv' /\ StepPromises
<1>1. PICK b \in BlockIds, now \in Times :
        /\ \/ InsertBlock(d, b, now)
           \/ ReplaceBlock(d, b, now)
           \/ MoveBlock(d, b, now)
           \/ DeleteBlock(d, b, now)
        /\ RecordOperation(d)
  BY DEF EngineEdit
<1>2. CopiesInv /\ now \in Nat
  BY CrdtAssumption DEF EngineInv
<1>3. PICK op \in Ops : /\ Edit(d, op) /\ op.id = NextId(d, now)
                        /\ op.clock = NextVersion(d, now)
  BY <1>1, <1>2, EditMade
<1>4. /\ CopiesInv'
      /\ \A e \in Devices : DocGrows(copies[e], copies'[e]) /\ RecordsNew(copies[e], copies'[e])
      /\ issued \subseteq issued' /\ issued' \ issued \subseteq {op}
      /\ op.id.node = d
      /\ op \in issued' => op.id \in IdsOf(copies'[d])
      /\ \A id \in IdsOf(copies[d]) : Earlier(id, op.id)
  BY <1>2, <1>3, EditSound
<1>5. /\ pending' = [e \in Devices |-> pending'[e]]
      /\ pending'[d] = pending[d] \cup (issued' \ issued)
      /\ \A e \in Devices \ {d} : pending'[e] = pending[e]
      /\ conflicts' = conflicts
      /\ \/ status' = status
         \/ status[d] = "synced" /\ status' = [status EXCEPT ![d] = "idle"]
  <2>1. /\ pending' = [pending EXCEPT ![d] = pending[d] \cup (issued' \ issued)]
        /\ conflicts' = conflicts
        /\ \/ status' = status
           \/ status[d] = "synced" /\ status' = [status EXCEPT ![d] = "idle"]
    BY <1>1 DEF RecordOperation
  <2>2. pending = [e \in Devices |-> pending[e]]
    BY DEF EngineInv
  <2>. QED
    BY <2>1, <2>2
<1>6. \A e \in Devices : pending'[e] \subseteq issued'
  BY <1>4, <1>5 DEF EngineInv
<1>7. PendingApplied'
  <2>1. \A e \in Devices : \A made \in pending'[e] :
           made \in pending[e] \/ (made.id \in IdsOf(copies'[e]) /\ made.id.node = e)
    BY <1>4, <1>5
  <2>. QED
    BY <1>4, <2>1, PendingStaysApplied DEF EngineInv, EngineAgrees
<1>8. ConflictStatus' /\ status' \in [Devices -> {"idle", "synced", "conflict"}]
  BY <1>5 DEF EngineInv, EngineAgrees, ConflictStatus
<1>9. EngineInv'
  BY <1>4, <1>5, <1>6, <1>7, <1>8 DEF EngineInv, EngineAgrees
<1>10. \A made \in issued' \ issued : \A id \in Recorded(made.id.node) : Earlier(id, made.id)
  BY <1>4 DEF Recorded, IdsOf
<1>11. DeletedStays
  BY <1>4, GrownKeepsDeleted
<1>12. PendingKept
  BY <1>5 DEF PendingKept
<1>. QED
  BY <1>4, <1>9, <1>10, <1>11, <1>12 DEF StepPromises

\* A merge, through or failed half way.
LEMMA MergeSafe ==
    ASSUME EngineInv, NEW d \in Devices, MergeWithCrdt(d)
    PROVE  EngineInv' /\ StepPromises
<1>1. PICK n \in 1..MaxBatch, now \in Times : \E batch \in [1..n -> issued] :
        LET found == DetectConflicts(copies[d], batch)
            echoed == {batch[i].id : i \in DOMAIN batch}
        IN  /\ copies' = [copies EXCEPT ![d] = Merged(@, batch, now)]
            /\ calls' = calls + 1
            /\ UNCHANGED issued
            /\ IF MergeAll(copies[d], batch, now).failed
                 THEN UNCHANGED <<pending, status, conflicts>>
                 ELSE /\ pending' = [pending EXCEPT ![d] =
                                       {op \in @ : op.id \notin echoed}]
                      /\ status' = [status EXCEPT ![d] =
                           IF found = <<>> THEN "synced" ELSE "conflict"]
                      /\ conflicts' = [conflicts EXCEPT ![d] = found]
  BY DEF MergeWithCrdt
<1>2. PICK batch \in [1..n -> issued] :
        /\ copies' = [copies EXCEPT ![d] = Merged(copies[d], batch, now)]
        /\ calls' = calls + 1
        /\ UNCHANGED issued
        /\ \/ UNCHANGED <<pending, status, conflicts>>
           \/ /\ ~MergeAll(copies[d], batch, now).failed
              /\ pending' = [pending EXCEPT ![d] =
                     {op \in @ : op.id \notin {batch[i].id : i \in DOMAIN batch}}]
              /\ status' = [status EXCEPT ![d] =
                     IF DetectConflicts(copies[d], batch) = <<>>
                       THEN "synced" ELSE "conflict"]
              /\ conflicts' = [conflicts EXCEPT ![d] = DetectConflicts(copies[d], batch)]
  BY <1>1
<1>3. now \in Nat /\ CopiesInv /\ issued \subseteq Ops /\ DocSound(d, copies[d])
      /\ copies[d] \in Documents
  BY CrdtAssumption DEF EngineInv, CopiesInv, DocSound
<1>4. batch \in Seq(Ops)
  <2>1. n \in Nat /\ batch \in [1..n -> Ops]
    BY <1>3
  <2>. QED
    BY <2>1, SequenceMade
<1>. DEFINE new == Merged(copies[d], batch, now)
            found == DetectConflicts(copies[d], batch)
<1>5. /\ DocSound(d, new) /\ DocGrows(copies[d], new) /\ RecordsNew(copies[d], new)
      /\ found \in Seq(Conflicts)
  BY <1>3, <1>4, MergedSound, DetectedTyped
<1>6. /\ CopiesInv'
      /\ \A e \in Devices : DocGrows(copies[e], copies'[e]) /\ RecordsNew(copies[e], copies'[e])
  <2>. HIDE DEF new
  <2>1. copies' = [copies EXCEPT ![d] = new] /\ calls' = calls + 1 /\ issued' = issued
    BY <1>2 DEF new
  <2>. QED
    BY <1>3, <1>5, <2>1, CopyReplaced
<1>. HIDE DEF new, found
<1>7. \/ UNCHANGED <<pending, status, conflicts>>
      \/ /\ pending' = [e \in Devices |-> pending'[e]]
         /\ pending'[d] \subseteq pending[d]
         /\ \A e \in Devices \ {d} : pending'[e] = pending[e]
         /\ status' = [status EXCEPT ![d] = IF found = <<>> THEN "synced" ELSE "conflict"]
         /\ conflicts' = [conflicts EXCEPT ![d] = found]
  BY <1>2 DEF EngineInv, found
<1>8. \A e \in Devices : pending'[e] \subseteq pending[e]
  BY <1>7
<1>9. pending' = [e \in Devices |-> pending'[e]]
  BY <1>7 DEF EngineInv
<1>10. PendingApplied'
  <2>1. \A e \in Devices : \A made \in pending'[e] :
           made \in pending[e] \/ (made.id \in IdsOf(copies'[e]) /\ made.id.node = e)
    BY <1>8
  <2>. QED
    BY <1>6, <2>1, PendingStaysApplied DEF EngineInv, EngineAgrees
<1>11. /\ ConflictStatus' /\ status' \in [Devices -> {"idle", "synced", "conflict"}]
       /\ conflicts' = [e \in Devices |-> conflicts'[e]]
       /\ \A e \in Devices : conflicts'[e] \in Seq(Conflicts)
  BY <1>5, <1>7 DEF EngineInv, EngineAgrees, ConflictStatus
<1>12. EngineInv'
  <2>1. \A e \in Devices : pending'[e] \subseteq issued'
    BY <1>2, <1>8 DEF EngineInv
  <2>. QED
    BY <1>6, <1>9, <1>10, <1>11, <2>1 DEF EngineInv, EngineAgrees
<1>13. PendingKept
  <2>. SUFFICES ASSUME NEW e \in Devices, ~(pending[e] \subseteq pending'[e])
                PROVE  /\ pending[e] \ pending'[e] \subseteq {op \in pending[e] :
                             \E i \in DOMAIN batch : batch[i].id = op.id}
                       /\ ~MergeAll(copies[e], batch, now).failed
                       /\ copies'[e] = Merged(copies[e], batch, now)
    BY DEF PendingKept
  <2>1. e = d
    BY <1>7 DEF EngineInv
  <2>2. /\ ~MergeAll(copies[d], batch, now).failed
        /\ pending' = [pending EXCEPT ![d] =
               {op \in @ : op.id \notin {batch[i].id : i \in DOMAIN batch}}]
    BY <1>2
  <2>3. pending'[d] = {op \in pending[d] : op.id \notin {batch[i].id : i \in DOMAIN batch}}
    BY <2>2 DEF EngineInv
  <2>4. copies'[d] = Merged(copies[d], batch, now)
    BY <1>2, <1>3 DEF CopiesInv
  <2>. QED
    BY <2>1, <2>2, <2>3, <2>4
<1>14. DeletedStays
  BY <1>6, GrownKeepsDeleted
<1>. QED
  BY <1>2, <1>6, <1>12, <1>13, <1>14 DEF StepPromises

\* A resolution, of one block or of all, through or failed half way.
LEMMA ResolveSafe ==
    ASSUME EngineInv, NEW d \in Devices, NEW blocks \in Seq(BlockIds),
           conflicts[d] # <<>>, Resolve(d, blocks)
    PROVE  EngineInv' /\ StepPromises
<1>1. PICK answer \in Answers :
        /\ copies' = [copies EXCEPT ![d] = ResolveAll(d, blocks, answer).doc]
        /\ conflicts' = [conflicts EXCEPT ![d] = ResolveAll(d, blocks, answer).conflicts]
        /\ status' = IF ResolveAll(d, blocks, answer).conflicts = <<>>
                       THEN [status EXCEPT ![d] = "synced"] ELSE status
        /\ calls' = calls + 1
        /\ UNCHANGED <<issued, pending>>
  BY DEF Resolve
<1>. DEFINE new == ResolveAll(d, blocks, answer).doc
            left == ResolveAll(d, blocks, answer).conflicts
<1>2. CopiesInv /\ DocSound(d, copies[d]) /\ conflicts[d] \in Seq(Conflicts)
  BY DEF EngineInv, CopiesInv
<1>3. /\ DocSound(d, new) /\ DocGrows(copies[d], new) /\ RecordsNew(copies[d], new)
      /\ left \in Seq(Conflicts)
  BY <1>2, ResolveAllSound
<1>4. /\ copies' = [copies EXCEPT ![d] = new]
      /\ conflicts' = [conflicts EXCEPT ![d] = left]
      /\ status' = IF left = <<>> THEN [status EXCEPT ![d] = "synced"] ELSE status
      /\ calls' = calls + 1 /\ issued' = issued /\ pending' = pending
  BY <1>1
<1>. HIDE DEF new, left
<1>5. /\ CopiesInv'
      /\ \A e \in Devices : DocGrows(copies[e], copies'[e]) /\ RecordsNew(copies[e], copies'[e])
  BY <1>2, <1>3, <1>4, CopyReplaced
<1>6. PendingApplied'
  BY <1>4, <1>5, PendingStaysApplied DEF EngineInv, EngineAgrees
<1>7. /\ ConflictStatus' /\ status' \in [Devices -> {"idle", "synced", "conflict"}]
      /\ conflicts' = [e \in Devices |-> conflicts'[e]]
      /\ \A e \in Devices : conflicts'[e] \in Seq(Conflicts)
  BY <1>3, <1>4 DEF EngineInv, EngineAgrees, ConflictStatus
<1>8. EngineInv'
  BY <1>4, <1>5, <1>6, <1>7 DEF EngineInv, EngineAgrees
<1>9. PendingKept
  BY <1>4 DEF PendingKept
<1>10. DeletedStays
  BY <1>5, GrownKeepsDeleted
<1>. QED
  BY <1>4, <1>5, <1>8, <1>9, <1>10 DEF StepPromises

\* Every call of the engine.
LEMMA EngineSafe ==
    ASSUME EngineInv, EngineNext
    PROVE  EngineInv' /\ StepPromises
<1>1. PICK d \in Devices : \/ EngineEdit(d)
                           \/ MergeWithCrdt(d)
                           \/ ResolveConflictManual(d)
                           \/ ResolveConflict(d)
  BY DEF EngineNext
<1>2. conflicts[d] \in Seq(Conflicts)
  BY DEF EngineInv
<1>3. CASE EngineEdit(d)
  BY <1>3, EngineEditSafe
<1>4. CASE MergeWithCrdt(d)
  BY <1>4, MergeSafe
<1>5. CASE ResolveConflictManual(d)
  <2>1. PICK i \in DOMAIN conflicts[d] : Resolve(d, <<conflicts[d][i].block>>)
    BY <1>5 DEF ResolveConflictManual
  <2>2. conflicts[d][i] \in Conflicts /\ conflicts[d] # <<>>
    BY <1>2
  <2>3. conflicts[d][i].block \in BlockIds
    BY <2>2 DEF Conflicts
  <2>4. <<conflicts[d][i].block>> \in Seq(BlockIds)
    BY <2>3
  <2>. QED
    BY <2>1, <2>2, <2>4, ResolveSafe
<1>6. CASE ResolveConflict(d)
  <2>. DEFINE blocks == [i \in DOMAIN conflicts[d] |-> conflicts[d][i].block]
  <2>1. conflicts[d] # <<>> /\ Resolve(d, blocks)
    BY <1>6 DEF ResolveConflict
  <2>2. blocks \in Seq(BlockIds)
    <3>1. \A i \in DOMAIN conflicts[d] : conflicts[d][i] \in Conflicts
      BY <1>2
    <3>2. blocks \in [1..Len(conflicts[d]) -> BlockIds] /\ Len(conflicts[d]) \in Nat
      BY <1>2, <3>1 DEF Conflicts
    <3>. QED
      BY <3>2, SequenceMade
  <2>. HIDE DEF blocks
  <2>. QED
    BY <2>1, <2>2, ResolveSafe
<1>. QED
  BY <1>1, <1>3, <1>4, <1>5, <1>6

\* And the steps of the other libraries.
LEMMA EngineStill ==
    ASSUME EngineInv, UNCHANGED engineVars
    PROVE  EngineInv' /\ StepPromises
<1>1. EngineInv'
  BY DEF engineVars, EngineInv, CopiesInv, IdsUnique, EngineAgrees, ConflictStatus,
         PendingApplied, Recorded
<1>2. DeletedStays /\ PendingKept
  BY DEF engineVars, DeletedStays, PendingKept
<1>3. \A d \in Devices : RecordsNew(copies[d], copies'[d])
  BY DEF engineVars, RecordsNew
<1>. QED
  BY <1>1, <1>2, <1>3 DEF StepPromises, engineVars

\* The invariant gives the types and what the run checks of the engine.
LEMMA EngineInvMeans ==
    ASSUME EngineInv
    PROVE  CrdtTypeOK /\ EngineTypeOK /\ EngineAgrees /\ IdsUnique /\ PositionsDistinct
<1>1. \A d \in Devices : /\ copies[d] \in Documents /\ copies[d].hlc.node = d
                         /\ ShownApart(copies[d].blocks)
  BY DEF EngineInv, CopiesInv, DocSound
<1>2. \A d \in Devices :
         /\ copies[d].hlc \in Clocks /\ DOMAIN copies[d].version \subseteq Devices
         /\ copies[d].blocks \in Seq(Blocks) /\ copies[d].operations \in Seq(Ops)
  BY <1>1, VectorShape DEF Documents
<1>3. \A d \in Devices : \A i \in DOMAIN copies[d].blocks : copies[d].blocks[i] \in Blocks
  BY <1>2
<1>4. \A d \in Devices : \A i \in DOMAIN copies[d].operations : copies[d].operations[i].id \in Clocks
  BY <1>2, OpFields
<1>5. \A op \in issued : op.id \in Clocks /\ op.block \in BlockIds
  BY OpFields DEF EngineInv, CopiesInv
<1>6. CrdtTypeOK
  BY <1>1, <1>2, <1>3, <1>4, <1>5 DEF CrdtTypeOK, Blocks, EngineInv, CopiesInv
<1>7. EngineTypeOK
  <2>1. \A d \in Devices : \A i \in DOMAIN conflicts[d] : conflicts[d][i] \in Conflicts
    BY DEF EngineInv
  <2>. QED
    BY <1>3, <2>1 DEF EngineTypeOK, EngineInv, Blocks, Texts, Conflicts
<1>8. PositionsDistinct
  BY <1>1 DEF PositionsDistinct, ShownApart
<1>. QED
  BY <1>6, <1>7, <1>8 DEF EngineInv, CopiesInv

-----------------------------------------------------------------------------
(* The characters of a text *)

TextIds == [physical : Nat, logical : Nat, node : Writers \cup {0}]

Chars == [ch : Letters, id : TextIds, deleted : BOOLEAN, left : TextIds \cup {Start}]

\* Start is the id of no character.
LEMMA StartApart == Start \notin TextIds
<1>1. DOMAIN Start = {"physical", "logical", "node", "none"}
  BY DEF Start
<1>2. \A id \in TextIds : DOMAIN id = {"physical", "logical", "node"}
  BY DEF TextIds
<1>. QED
  BY <1>1, <1>2

\* A character gets an id later than everything its clock was not behind of.
LEMMA TypedAfter ==
    ASSUME NEW clock \in TextIds, NEW now \in Nat
    PROVE  /\ Increment(clock, now) \in TextIds
           /\ Increment(clock, now).node = clock.node
           /\ Behind(clock, Increment(clock, now))
           /\ ~Behind(Increment(clock, now), clock)
<1>1. clock.physical \in Nat /\ clock.logical \in Nat /\ clock.node \in Writers \cup {0}
  BY DEF TextIds
<1>. QED
  BY <1>1 DEF Increment, Behind, At, TextIds

\* What is not above is a preorder on ids, too.
LEMMA TextBehind ==
    /\ \A a \in TextIds : Behind(a, a)
    /\ \A a, b, c \in TextIds : Behind(a, b) /\ Behind(b, c) => Behind(a, c)
<1>1. \A c \in TextIds : c.physical \in Nat /\ c.logical \in Nat
  BY DEF TextIds
<1>2. \A a \in TextIds : Behind(a, a)
  BY <1>1 DEF Behind
<1>3. \A a, b, c \in TextIds : Behind(a, b) /\ Behind(b, c) => Behind(a, c)
  BY <1>1 DEF Behind
<1>. QED
  BY <1>2, <1>3

\* What merging knows of an id.
KeyOf(id) == <<id.node, id.logical>>

Once(chars) == \A i, j \in DOMAIN chars : chars[i].id = chars[j].id => i = j

LeftsBefore(chars) ==
    \A i, j \in DOMAIN chars : chars[j].id = chars[i].left => j < i

\* The character one was typed after was there before it, or another one of the
\* same key was, which kept it out.
Rooted(chars) ==
    \A i \in DOMAIN chars :
        \/ chars[i].left = Start
        \/ \E j \in DOMAIN chars : j < i /\ Key(chars[j]) = KeyOf(chars[i].left)

TextSound(chars) ==
    /\ chars \in Seq(Chars)
    /\ Once(chars) /\ LeftsBefore(chars) /\ Rooted(chars)

\* No character is lost, moved before another or shown again.
Grown(old, new) ==
    \A i, j \in DOMAIN old :
        i <= j => \E k, l \in DOMAIN new :
                     /\ k <= l
                     /\ new[k].id = old[i].id
                     /\ new[l].id = old[j].id
                     /\ old[i].deleted => new[k].deleted

\* Texts that grow do so through any number of steps.
LEMMA GrownOn ==
    /\ \A x \in Seq(Chars) : Grown(x, x)
    /\ \A x, y, z : Grown(x, y) /\ Grown(y, z) => Grown(x, z)
<1>1. \A x \in Seq(Chars) : Grown(x, x)
  BY DEF Grown
<1>2. ASSUME NEW x, NEW y, NEW z, Grown(x, y), Grown(y, z),
             NEW i \in DOMAIN x, NEW j \in DOMAIN x, i <= j
      PROVE  \E k, l \in DOMAIN z : /\ k <= l
                                    /\ z[k].id = x[i].id
                                    /\ z[l].id = x[j].id
                                    /\ x[i].deleted => z[k].deleted
  <2>1. PICK m, n \in DOMAIN y : /\ m <= n /\ y[m].id = x[i].id /\ y[n].id = x[j].id
                                 /\ x[i].deleted => y[m].deleted
    BY <1>2 DEF Grown
  <2>2. PICK k, l \in DOMAIN z : /\ k <= l /\ z[k].id = y[m].id /\ z[l].id = y[n].id
                                 /\ y[m].deleted => z[k].deleted
    BY <1>2, <2>1 DEF Grown
  <2>. QED
    BY <2>1, <2>2
<1>. QED
  BY <1>1, <1>2 DEF Grown

\* t is s with one more element at place p + 1.
Inserts(t, s, p, new) ==
    /\ DOMAIN t = 1..(Len(s) + 1)
    /\ \A i \in 1..p : t[i] = s[i]
    /\ t[p + 1] = new
    /\ \A i \in (p + 2)..(Len(s) + 1) : t[i] = s[i - 1]

\* The elements of a sequence with one more.
LEMMA InsertAtShape ==
    ASSUME NEW S, NEW s \in Seq(S), NEW p \in 0..Len(s), NEW new \in S
    PROVE  InsertAt(s, p + 1, new) \in Seq(S) /\ Inserts(InsertAt(s, p + 1, new), s, p, new)
<1>. DEFINE head == SubSeq(s, 1, p)
            tail == SubSeq(s, p + 1, Len(s))
            t == InsertAt(s, p + 1, new)
<1>0. Len(s) \in Nat /\ p \in Nat /\ p <= Len(s)
  OBVIOUS
<1>1. t = head \o <<new>> \o tail
  <2>1. (p + 1) - 1 = p
    BY <1>0
  <2>. QED
    BY <2>1 DEF InsertAt
<1>2. head \in Seq(S) /\ Len(head) = p /\ \A i \in 1..p : head[i] = s[i]
  BY <1>0
<1>3. /\ tail \in Seq(S) /\ Len(tail) = Len(s) - p
      /\ \A i \in 1..(Len(s) - p) : tail[i] = s[p + i]
  BY <1>0
<1>. HIDE DEF head, tail, t
<1>4. /\ head \o <<new>> \in Seq(S) /\ Len(head \o <<new>>) = p + 1
      /\ \A i \in 1..p : (head \o <<new>>)[i] = s[i]
      /\ (head \o <<new>>)[p + 1] = new
  BY <1>0, <1>2
<1>. DEFINE front == head \o <<new>>
<1>. HIDE DEF front
<1>5. front \in Seq(S) /\ Len(front) = p + 1 /\ t = front \o tail
  BY <1>1, <1>4 DEF front
<1>6. /\ t \in Seq(S) /\ Len(t) = Len(s) + 1
      /\ \A i \in 1..(p + 1) : t[i] = front[i]
      /\ \A i \in (p + 2)..(Len(s) + 1) : t[i] = tail[i - (p + 1)]
  BY <1>0, <1>3, <1>5
<1>7. \A i \in (p + 2)..(Len(s) + 1) : t[i] = s[i - 1]
  <2>. TAKE i \in (p + 2)..(Len(s) + 1)
  <2>1. i - (p + 1) \in 1..(Len(s) - p) /\ p + (i - (p + 1)) = i - 1
    BY <1>0
  <2>. QED
    BY <1>3, <1>6, <2>1
<1>8. Inserts(t, s, p, new)
  BY <1>0, <1>4, <1>6, <1>7 DEF Inserts, front
<1>. QED
  BY <1>6, <1>8 DEF t

\* The place an insertion stops at: there is one, so CHOOSE finds it.
LEMMA PlaceExists ==
    ASSUME NEW n \in Nat, NEW start \in 0..n, NEW Y
    PROVE  \E p \in start..n : /\ \A q \in (start + 1)..p : q \in Y
                               /\ p = n \/ p + 1 \notin Y
<1>. DEFINE stops == {p \in start..n : p = n \/ p + 1 \notin Y}
<1>1. stops \subseteq Nat /\ stops # {}
  <2>1. n \in stops
    OBVIOUS
  <2>2. \A p \in stops : p \in Nat
    OBVIOUS
  <2>. QED
    BY <2>1, <2>2
<1>2. PICK p \in stops : \A q \in stops : p <= q
  BY <1>1, Sequences!LeastNumber
<1>3. ASSUME NEW q \in (start + 1)..p PROVE q \in Y
  <2>1. q - 1 \in start..n /\ q - 1 # n /\ (q - 1) + 1 = q /\ ~(p <= q - 1)
    OBVIOUS
  <2>2. q - 1 \notin stops
    BY <1>2, <2>1
  <2>. QED
    BY <2>1, <2>2
<1>. QED
  BY <1>2, <1>3

\* A character goes to the right of the one it was typed after, or to the end
\* when that one is not there.
LEMMA PlaceFound ==
    ASSUME NEW chars \in Seq(Chars), Once(chars), NEW new \in Chars
    PROVE  LET p == InsertPlace(chars, new)
           IN  /\ p \in 0..Len(chars)
               /\ \A j \in DOMAIN chars : chars[j].id = new.left => j <= p
               /\ new.left # Start /\ (\A j \in DOMAIN chars : chars[j].id # new.left)
                    => p = Len(chars)
<1>. DEFINE hits == {i \in DOMAIN chars : chars[i].id = new.left}
            after == FirstIndex(chars, LAMBDA c : c.id = new.left)
            start == IF new.left = Start THEN 0
                     ELSE IF after = 0 THEN Len(chars) ELSE after
            Y == {p \in DOMAIN chars : /\ chars[p].left = new.left
                                       /\ Earlier(chars[p].id, new.id)}
            Yields(p) == chars[p].left = new.left /\ Earlier(chars[p].id, new.id)
            place == InsertPlace(chars, new)
            n == Len(chars)
<1>1. Len(chars) \in Nat /\ DOMAIN chars = 1..Len(chars) /\ hits \in SUBSET (1..Len(chars))
  OBVIOUS
<1>2. after = IF hits = {} THEN 0 ELSE CHOOSE i \in hits : \A j \in hits : i <= j
  BY DEF FirstIndex
<1>3. place = CHOOSE p \in start..Len(chars) :
                 /\ \A q \in (start + 1)..p : Yields(q)
                 /\ p = Len(chars) \/ ~Yields(p + 1)
  BY DEF InsertPlace
<1>. HIDE DEF after
<1>4. /\ after = 0 => hits = {}
      /\ after # 0 => after \in hits /\ \A j \in hits : after <= j
  <2>. HIDE DEF hits
  <2>. QED
    BY <1>1, <1>2, FirstMatch
<1>5. start \in 0..n /\ n \in Nat /\ DOMAIN chars = 1..n /\ (after = 0 => start \in {0, n})
  BY <1>1, <1>4
<1>. HIDE DEF start
<1>6. \A p \in 1..n : p \in Y <=> Yields(p)
  BY <1>1
<1>. HIDE DEF Y, Yields, place, n
<1>7. \E p \in start..n : /\ \A q \in (start + 1)..p : Yields(q)
                          /\ p = n \/ ~Yields(p + 1)
  <2>1. PICK p \in start..n : /\ \A q \in (start + 1)..p : q \in Y
                              /\ p = n \/ p + 1 \notin Y
    BY <1>5, PlaceExists
  <2>2. \A q \in (start + 1)..p : q \in 1..n
    BY <1>5
  <2>3. p # n => p + 1 \in 1..n
    BY <1>5
  <2>. QED
    BY <1>6, <2>1, <2>2, <2>3
<1>8. place \in start..n
  BY <1>3, <1>7 DEF n
<1>9. place \in 0..n /\ start <= place
  BY <1>5, <1>8
<1>10. ASSUME NEW j \in DOMAIN chars, chars[j].id = new.left PROVE j <= place
  <2>1. j \in hits /\ new.left # Start
    <3>1. chars[j] \in Chars
      OBVIOUS
    <3>2. chars[j].id \in TextIds
      BY <3>1 DEF Chars
    <3>. QED
      BY <1>10, <3>2, StartApart
  <2>2. after = j
    BY <1>1, <1>4, <2>1 DEF Once
  <2>3. start = j
    BY <1>1, <2>1, <2>2 DEF start
  <2>. QED
    BY <1>9, <2>3
<1>11. ASSUME new.left # Start, \A j \in DOMAIN chars : chars[j].id # new.left
       PROVE  place = n
  <2>1. hits = {}
    BY <1>11
  <2>2. start = n
    BY <1>4, <1>11, <2>1 DEF start, n
  <2>. QED
    BY <1>5, <1>8, <2>2
<1>. QED
  BY <1>9, <1>10, <1>11 DEF place, n

\* A character whose id and whose followers are not there is placed where it
\* belongs, and nothing else changes its place.
LEMMA PlacedSound ==
    ASSUME NEW chars, TextSound(chars), NEW new \in Chars,
           \A i \in DOMAIN chars : chars[i].id # new.id /\ chars[i].left # new.id,
           new.left # new.id,
           \/ new.left = Start
           \/ \E j \in DOMAIN chars : Key(chars[j]) = KeyOf(new.left)
    PROVE  /\ TextSound(Placed(chars, new)) /\ Grown(chars, Placed(chars, new))
           /\ \A i \in DOMAIN Placed(chars, new) :
                 \/ Placed(chars, new)[i] = new
                 \/ \E j \in DOMAIN chars : Placed(chars, new)[i] = chars[j]
           /\ \A j \in DOMAIN chars : \E i \in DOMAIN Placed(chars, new) :
                 Placed(chars, new)[i] = chars[j]
           /\ \E i \in DOMAIN Placed(chars, new) : Placed(chars, new)[i] = new
<1>. DEFINE p == InsertPlace(chars, new)
            t == Placed(chars, new)
            n == Len(chars)
<1>1. chars \in Seq(Chars) /\ Once(chars) /\ n \in Nat /\ DOMAIN chars = 1..n
  BY DEF TextSound
<1>2. /\ p \in 0..n
      /\ \A j \in DOMAIN chars : chars[j].id = new.left => j <= p
      /\ new.left # Start /\ (\A j \in DOMAIN chars : chars[j].id # new.left) => p = n
  BY <1>1, PlaceFound
<1>3. t = InsertAt(chars, p + 1, new)
  BY DEF Placed
<1>. HIDE DEF p, t
<1>4. t \in Seq(Chars) /\ Inserts(t, chars, p, new)
  BY <1>1, <1>2, <1>3, InsertAtShape
<1>5. /\ DOMAIN t = 1..(n + 1) /\ t[p + 1] = new
      /\ \A i \in 1..p : t[i] = chars[i]
      /\ \A i \in (p + 2)..(n + 1) : t[i] = chars[i - 1]
  BY <1>4 DEF Inserts
<1>. HIDE DEF n
\* Where a character of the new text was, and where an old one is now.
<1>. DEFINE was(i) == IF i <= p THEN i ELSE i - 1
            now(j) == IF j <= p THEN j ELSE j + 1
<1>6. \A i \in DOMAIN t : i # p + 1 => was(i) \in 1..n /\ t[i] = chars[was(i)]
  BY <1>1, <1>2, <1>5
<1>7. \A j \in 1..n : now(j) \in DOMAIN t /\ now(j) # p + 1 /\ t[now(j)] = chars[j]
  BY <1>1, <1>2, <1>5
<1>8. /\ \A i, j \in DOMAIN t : i # p + 1 /\ j # p + 1 =>
            (was(i) < was(j) => i < j) /\ (was(i) = was(j) => i = j)
      /\ \A i, j \in 1..n : (i < j => now(i) < now(j)) /\ (i <= j => now(i) <= now(j))
      /\ \A j \in 1..n : (j <= p => now(j) < p + 1) /\ (j > p => now(j) > p + 1)
      /\ \A i \in DOMAIN t : i # p + 1 => now(was(i)) = i
  BY <1>1, <1>2, <1>5
<1>9. p + 1 \in DOMAIN t /\ p \in Nat /\ \A i \in DOMAIN t : i \in Nat
  BY <1>1, <1>2, <1>5
<1>. HIDE DEF was, now
<1>10. Once(t)
  <2>. SUFFICES ASSUME NEW i \in DOMAIN t, NEW j \in DOMAIN t, t[i].id = t[j].id
                PROVE  i = j
    BY DEF Once
  <2>1. CASE i # p + 1 /\ j # p + 1
    BY <1>1, <1>6, <1>8, <2>1 DEF Once
  <2>2. CASE i = p + 1 /\ j # p + 1
    BY <1>1, <1>5, <1>6, <2>2
  <2>3. CASE i # p + 1 /\ j = p + 1
    BY <1>1, <1>5, <1>6, <2>3
  <2>. QED
    BY <2>1, <2>2, <2>3
<1>11. LeftsBefore(t)
  <2>. SUFFICES ASSUME NEW i \in DOMAIN t, NEW j \in DOMAIN t, t[j].id = t[i].left
                PROVE  j < i
    BY DEF LeftsBefore
  <2>1. CASE i # p + 1 /\ j # p + 1
    <3>1. chars[was(j)].id = chars[was(i)].left /\ was(i) \in 1..n /\ was(j) \in 1..n
      BY <1>6, <2>1
    <3>2. was(j) < was(i)
      BY <1>1, <3>1 DEF TextSound, LeftsBefore
    <3>. QED
      BY <1>8, <2>1, <3>2
  <2>2. CASE i = p + 1 /\ j # p + 1
    <3>1. chars[was(j)].id = new.left /\ was(j) \in 1..n
      BY <1>5, <1>6, <2>2
    <3>2. was(j) <= p
      BY <1>1, <1>2, <3>1
    <3>. QED
      BY <1>8, <2>2, <3>1, <3>2
  <2>3. CASE i # p + 1 /\ j = p + 1
    <3>1. chars[was(i)].left = new.id /\ was(i) \in 1..n
      BY <1>5, <1>6, <2>3
    <3>. QED
      BY <1>1, <3>1
  <2>4. CASE i = p + 1 /\ j = p + 1
    BY <1>5, <2>4
  <2>. QED
    BY <2>1, <2>2, <2>3, <2>4
<1>12. Rooted(t)
  <2>. SUFFICES ASSUME NEW i \in DOMAIN t, t[i].left # Start
                PROVE  \E j \in DOMAIN t : j < i /\ Key(t[j]) = KeyOf(t[i].left)
    BY DEF Rooted
  <2>1. CASE i # p + 1
    <3>1. was(i) \in 1..n /\ t[i] = chars[was(i)]
      BY <1>6, <2>1
    <3>2. PICK j \in 1..n : j < was(i) /\ Key(chars[j]) = KeyOf(t[i].left)
      BY <1>1, <3>1 DEF TextSound, Rooted
    <3>3. now(j) < i /\ now(j) \in DOMAIN t /\ t[now(j)] = chars[j]
      BY <1>7, <1>8, <2>1, <3>1, <3>2
    <3>. QED
      BY <3>2, <3>3
  <2>2. CASE i = p + 1
    <3>1. PICK j \in 1..n : Key(chars[j]) = KeyOf(new.left)
      BY <1>1, <1>5, <2>2
    <3>2. CASE \E m \in 1..n : chars[m].id = new.left
      <4>1. PICK m \in 1..n : chars[m].id = new.left
        BY <3>2
      <4>2. m <= p /\ Key(chars[m]) = KeyOf(new.left)
        BY <1>1, <1>2, <4>1 DEF Key, KeyOf
      <4>3. now(m) < p + 1 /\ now(m) \in DOMAIN t /\ t[now(m)] = chars[m]
        BY <1>7, <1>8, <4>2
      <4>. QED
        BY <1>5, <2>2, <4>2, <4>3
    <3>3. CASE ~ \E m \in 1..n : chars[m].id = new.left
      <4>1. p = n
        BY <1>1, <1>2, <1>5, <2>2, <3>3
      <4>2. j <= p
        BY <4>1
      <4>3. now(j) < p + 1 /\ now(j) \in DOMAIN t /\ t[now(j)] = chars[j]
        BY <1>7, <1>8, <4>2
      <4>. QED
        BY <1>5, <2>2, <3>1, <4>3
    <3>. QED
      BY <3>2, <3>3
  <2>. QED
    BY <2>1, <2>2
<1>13. Grown(chars, t)
  <2>. SUFFICES ASSUME NEW i \in 1..n, NEW j \in 1..n, i <= j
                PROVE  \E k, l \in DOMAIN t : /\ k <= l
                                              /\ t[k].id = chars[i].id
                                              /\ t[l].id = chars[j].id
                                              /\ chars[i].deleted => t[k].deleted
    BY <1>1 DEF Grown
  <2>1. now(i) <= now(j) /\ now(i) \in DOMAIN t /\ now(j) \in DOMAIN t
    BY <1>7, <1>8
  <2>2. t[now(i)] = chars[i] /\ t[now(j)] = chars[j]
    BY <1>7
  <2>. QED
    BY <2>1, <2>2
<1>14. \A i \in DOMAIN t : t[i] = new \/ \E j \in DOMAIN chars : t[i] = chars[j]
  BY <1>1, <1>5, <1>6
<1>15. \A j \in DOMAIN chars : \E i \in DOMAIN t : t[i] = chars[j]
  BY <1>1, <1>7
<1>16. TextSound(t)
  BY <1>4, <1>10, <1>11, <1>12 DEF TextSound
<1>. QED
  BY <1>5, <1>9, <1>13, <1>14, <1>15, <1>16 DEF t

\* Two states of one character.
Same(a, b) == a.id = b.id /\ a.left = b.left

\* t is the text chars with more of its characters deleted.
Marks(t, chars) ==
    /\ t \in Seq(Chars) /\ DOMAIN t = DOMAIN chars
    /\ \A i \in DOMAIN chars :
          Same(t[i], chars[i]) /\ (chars[i].deleted => t[i].deleted)

\* Deleting characters moves none.
LEMMA MarkedSound ==
    ASSUME NEW chars, TextSound(chars), NEW t, Marks(t, chars)
    PROVE  TextSound(t) /\ Grown(chars, t)
<1>1. \A i \in DOMAIN chars : /\ t[i].id = chars[i].id /\ t[i].left = chars[i].left
                              /\ Key(t[i]) = Key(chars[i])
                              /\ chars[i].deleted => t[i].deleted
  BY DEF Marks, Same, Key
<1>2. t \in Seq(Chars) /\ DOMAIN t = DOMAIN chars
  BY DEF Marks
<1>3. Once(t) /\ LeftsBefore(t)
  BY <1>1, <1>2 DEF TextSound, Once, LeftsBefore
<1>4. Rooted(t)
  BY <1>1, <1>2 DEF TextSound, Rooted
<1>5. Grown(chars, t)
  BY <1>1, <1>2 DEF Grown
<1>. QED
  BY <1>2, <1>3, <1>4, <1>5 DEF TextSound

\* Deleting one character of a text.
LEMMA OneMarked ==
    ASSUME NEW chars \in Seq(Chars), NEW i
    PROVE  Marks([chars EXCEPT ![i].deleted = TRUE], chars)
<1>. DEFINE t == [chars EXCEPT ![i].deleted = TRUE]
            n == Len(chars)
<1>1. n \in Nat /\ DOMAIN chars = 1..n /\ \A j \in 1..n : chars[j] \in Chars
  OBVIOUS
<1>2. DOMAIN t = 1..n
  BY <1>1
<1>3. \A j \in 1..n : \/ t[j] = chars[j]
                      \/ t[j] = [chars[j] EXCEPT !.deleted = TRUE]
  BY <1>1
<1>. DEFINE marked(c) == [c EXCEPT !.deleted = TRUE]
<1>4. \A c \in Chars : marked(c) \in Chars /\ Same(marked(c), c) /\ marked(c).deleted
  BY DEF Chars, Same
<1>5. t = [j \in 1..n |-> t[j]]
  BY <1>2
<1>6. \A j \in 1..n : t[j] = chars[j] \/ t[j] = marked(chars[j])
  BY <1>3
<1>. HIDE DEF t, n, marked
<1>7. \A j \in 1..n : /\ t[j] \in Chars /\ Same(t[j], chars[j])
                      /\ chars[j].deleted => t[j].deleted
  BY <1>1, <1>4, <1>6 DEF Same
<1>8. t \in Seq(Chars)
  <2>1. t \in [1..n -> Chars]
    BY <1>5, <1>7
  <2>. QED
    BY <1>1, <2>1, SequenceMade
<1>. QED
  BY <1>1, <1>2, <1>7, <1>8 DEF Marks, t

\* A merge after k characters of the other replica: c has both texts as they were.
Joining(chars, k, c) ==
    /\ TextSound(chars) /\ Grown(c[1], chars)
    /\ \A i \in DOMAIN chars : \/ \E j \in DOMAIN c[1] : Same(chars[i], c[1][j])
                               \/ \E j \in 1..k : Same(chars[i], c[2][j])
    /\ \A j \in DOMAIN c[1] : \E i \in DOMAIN chars : Key(chars[i]) = Key(c[1][j])
    /\ \A j \in 1..k : \E i \in DOMAIN chars : Key(chars[i]) = Key(c[2][j])

Keys(chars) == {Key(chars[i]) : i \in DOMAIN chars}

\* The next character of the other replica: placed, when its key is new.
LEMMA JoinSound ==
    ASSUME NEW own, NEW remote, TextSound(own), TextSound(remote),
           NEW k \in 0..(Len(remote) - 1), NEW chars, Joining(chars, k, <<own, remote>>)
    PROVE  Joining(MergeChar(chars, remote[k+1], Keys(own)), k+1, <<own, remote>>)
<1>. DEFINE new == remote[k+1]
            n == Len(remote)
<1>1. /\ TextSound(chars) /\ Grown(own, chars)
      /\ \A i \in DOMAIN chars : \/ \E j \in DOMAIN own : Same(chars[i], own[j])
                                 \/ \E j \in 1..k : Same(chars[i], remote[j])
      /\ \A j \in DOMAIN own : \E i \in DOMAIN chars : Key(chars[i]) = Key(own[j])
      /\ \A j \in 1..k : \E i \in DOMAIN chars : Key(chars[i]) = Key(remote[j])
  BY DEF Joining
<1>2. /\ chars \in Seq(Chars) /\ own \in Seq(Chars) /\ remote \in Seq(Chars)
      /\ n \in Nat /\ DOMAIN remote = 1..n
  BY <1>1 DEF TextSound
<1>3. k \in Nat /\ k + 1 \in 1..n /\ (\A j \in 1..k : j \in 1..n /\ j < k + 1)
      /\ \A j \in 1..(k+1) : j \in 1..k \/ j = k + 1
  BY <1>2
<1>. HIDE DEF n
<1>4. new \in Chars
  BY <1>2, <1>3
<1>5. ASSUME Key(new) \notin Keys(own)
      PROVE  Joining(Placed(chars, new), k+1, <<own, remote>>)
  <2>. DEFINE t == Placed(chars, new)
  <2>1. \A j \in DOMAIN own : own[j].id # new.id /\ own[j].left # new.id
    <3>. SUFFICES ASSUME NEW j \in DOMAIN own
                  PROVE  own[j].id # new.id /\ own[j].left # new.id
      OBVIOUS
    <3>1. own[j].id # new.id
      BY <1>5 DEF Keys, Key
    <3>2. ASSUME own[j].left = new.id PROVE FALSE
      <4>1. own[j].left # Start
        BY <1>4, <3>2, StartApart DEF Chars
      <4>2. PICK m \in DOMAIN own : Key(own[m]) = KeyOf(own[j].left)
        BY <4>1 DEF TextSound, Rooted
      <4>3. Key(own[m]) = Key(new)
        BY <3>2, <4>2 DEF Key, KeyOf
      <4>. QED
        BY <1>5, <4>3 DEF Keys
    <3>. QED
      BY <3>1, <3>2
  <2>2. \A j \in 1..k : remote[j].id # new.id /\ remote[j].left # new.id
    <3>. SUFFICES ASSUME NEW j \in 1..k
                  PROVE  remote[j].id # new.id /\ remote[j].left # new.id
      OBVIOUS
    <3>1. j \in DOMAIN remote /\ k + 1 \in DOMAIN remote /\ j < k + 1
      BY <1>2, <1>3
    <3>2. remote[j].id = new.id => j = k + 1
      BY <3>1 DEF TextSound, Once
    <3>3. remote[j].left = new.id => k + 1 < j
      BY <3>1 DEF TextSound, LeftsBefore
    <3>. QED
      BY <1>3, <3>1, <3>2, <3>3
  <2>3. \A i \in DOMAIN chars : chars[i].id # new.id /\ chars[i].left # new.id
    BY <1>1, <2>1, <2>2 DEF Same
  <2>4. new.left # new.id
    <3>1. new.left = new.id => k + 1 < k + 1
      BY <1>2, <1>3 DEF TextSound, LeftsBefore
    <3>. QED
      BY <1>3, <3>1
  <2>5. new.left = Start \/ \E j \in DOMAIN chars : Key(chars[j]) = KeyOf(new.left)
    <3>. SUFFICES ASSUME new.left # Start
                  PROVE  \E j \in DOMAIN chars : Key(chars[j]) = KeyOf(new.left)
      OBVIOUS
    <3>1. PICK j \in 1..n : j < k + 1 /\ Key(remote[j]) = KeyOf(new.left)
      BY <1>2, <1>3 DEF TextSound, Rooted
    <3>2. j \in 1..k
      BY <1>3, <3>1
    <3>. QED
      BY <1>1, <3>1, <3>2
  <2>. HIDE DEF new
  <2>6. /\ TextSound(t) /\ Grown(chars, t)
        /\ \A i \in DOMAIN t : t[i] = new \/ \E j \in DOMAIN chars : t[i] = chars[j]
        /\ \A j \in DOMAIN chars : \E i \in DOMAIN t : t[i] = chars[j]
        /\ \E i \in DOMAIN t : t[i] = new
    BY <1>1, <1>4, <2>3, <2>4, <2>5, PlacedSound
  <2>. HIDE DEF t
  <2>7. Grown(own, t)
    BY <1>1, <2>6, GrownOn
  <2>8. \A i \in DOMAIN t : \/ \E j \in DOMAIN own : Same(t[i], own[j])
                            \/ \E j \in 1..(k+1) : Same(t[i], remote[j])
    <3>1. k + 1 \in 1..(k+1) /\ \A j \in 1..k : j \in 1..(k+1)
      BY <1>3
    <3>2. \A c : Same(c, c)
      BY DEF Same
    <3>. QED
      BY <1>1, <2>6, <3>1, <3>2 DEF new
  <2>9. \A j \in DOMAIN own : \E i \in DOMAIN t : Key(t[i]) = Key(own[j])
    BY <1>1, <2>6
  <2>10. \A j \in 1..(k+1) : \E i \in DOMAIN t : Key(t[i]) = Key(remote[j])
    BY <1>1, <1>3, <2>6 DEF new
  <2>. QED
    BY <2>6, <2>7, <2>8, <2>9, <2>10 DEF Joining, t
<1>6. ASSUME Key(new) \in Keys(own), NEW t, Marks(t, chars)
      PROVE  Joining(t, k+1, <<own, remote>>)
  <2>1. TextSound(t) /\ Grown(chars, t)
    BY <1>1, <1>6, MarkedSound
  <2>2. /\ DOMAIN t = DOMAIN chars
        /\ \A i \in DOMAIN chars : Same(t[i], chars[i]) /\ Key(t[i]) = Key(chars[i])
    BY <1>6 DEF Marks, Same, Key
  <2>3. Grown(own, t)
    BY <1>1, <2>1, GrownOn
  <2>4. \A i \in DOMAIN t : \/ \E j \in DOMAIN own : Same(t[i], own[j])
                            \/ \E j \in 1..(k+1) : Same(t[i], remote[j])
    <3>1. \A j \in 1..k : j \in 1..(k+1)
      BY <1>3
    <3>2. \A x, y, z : Same(x, y) /\ Same(y, z) => Same(x, z)
      BY DEF Same
    <3>. QED
      BY <1>1, <2>2, <3>1, <3>2
  <2>5. \A j \in DOMAIN own : \E i \in DOMAIN t : Key(t[i]) = Key(own[j])
    BY <1>1, <2>2
  <2>6. \A j \in 1..(k+1) : \E i \in DOMAIN t : Key(t[i]) = Key(remote[j])
    <3>1. PICK j \in DOMAIN own : Key(new) = Key(own[j])
      BY <1>6 DEF Keys
    <3>2. \E i \in DOMAIN t : Key(t[i]) = Key(remote[k+1])
      BY <2>5, <3>1
    <3>3. \A m \in 1..k : \E i \in DOMAIN t : Key(t[i]) = Key(remote[m])
      BY <1>1, <2>2
    <3>. QED
      BY <1>3, <3>2, <3>3
  <2>. QED
    BY <2>1, <2>3, <2>4, <2>5, <2>6 DEF Joining
<1>. HIDE DEF new
<1>7. Marks(chars, chars)
  BY <1>2 DEF Marks, Same
<1>8. \A i : Marks([chars EXCEPT ![i].deleted = TRUE], chars)
  BY <1>2, OneMarked
<1>9. \/ /\ Key(new) \notin Keys(own)
         /\ MergeChar(chars, new, Keys(own)) = Placed(chars, new)
      \/ /\ Key(new) \in Keys(own)
         /\ Marks(MergeChar(chars, new, Keys(own)), chars)
  BY <1>7, <1>8 DEF MergeChar
<1>10. Joining(MergeChar(chars, new, Keys(own)), k+1, <<own, remote>>)
  BY <1>5, <1>6, <1>9
<1>. QED
  BY <1>10 DEF new

Joins == INSTANCE FoldInduction WITH Step <- MergeChar, Holds <- Joining

\* Merging texts is a fold.
LEMMA JoinsFold ==
    ASSUME NEW own, NEW remote
    PROVE  MergedText(own, remote) = Joins!Fold(own, remote, Keys(own))
BY DEF MergedText, Keys, Joins!Fold, FoldLeft, MapThenFoldSet, Joins!FoldLeft,
       Joins!MapThenFoldSet, Max, Joins!Max

\* Merging leaves a sound text that lost nothing of the own one, of characters
\* that one of the two texts had.
LEMMA MergedTextSound ==
    ASSUME NEW own, NEW remote, TextSound(own), TextSound(remote)
    PROVE  LET t == MergedText(own, remote)
           IN  /\ TextSound(t) /\ Grown(own, t)
               /\ \A i \in DOMAIN t : \/ \E j \in DOMAIN own : Same(t[i], own[j])
                                      \/ \E j \in DOMAIN remote : Same(t[i], remote[j])
<1>. DEFINE c == <<own, remote>>
            t == MergedText(own, remote)
<1>1. own \in Seq(Chars) /\ remote \in Seq(Chars)
  BY DEF TextSound
<1>2. Joining(own, 0, c)
  <2>1. \A x : Same(x, x)
    BY DEF Same
  <2>. QED
    BY <1>1, <2>1, GrownOn DEF Joining
<1>3. \A k \in 0..(Len(remote) - 1) : \A p :
         Joining(p, k, c) => Joining(MergeChar(p, remote[k+1], Keys(own)), k+1, c)
  BY JoinSound
<1>4. Joining(Joins!Fold(own, remote, Keys(own)), Len(remote), c)
  <2>. HIDE DEF c
  <2>. QED
    BY <1>1, <1>2, <1>3, Joins!FoldHolds
<1>5. Joining(t, Len(remote), c)
  BY <1>4, JoinsFold
<1>6. DOMAIN remote = 1..Len(remote)
  BY <1>1
<1>. HIDE DEF t
<1>. QED
  BY <1>5, <1>6 DEF Joining, t

-----------------------------------------------------------------------------
(* The texts of all replicas *)

\* An id that was given out: the clock that gave it, of all clocks now, is not behind.
Stamped(id, now) == id.node \in Writers => Behind(id, now[id.node])

TextInv ==
    /\ texts = [w \in Writers |-> texts[w]]
    /\ clocks = [w \in Writers |-> clocks[w]]
    /\ \A w \in Writers : clocks[w] \in TextIds /\ clocks[w].node = w
    /\ \A w \in Writers : TextSound(texts[w])
    /\ \A w \in Writers : \A i \in DOMAIN texts[w] :
          Stamped(texts[w][i].id, clocks) /\ Stamped(texts[w][i].left, clocks)
    /\ typed \in 0..MaxTyped /\ erased \in 0..MaxErased

\* The initial text: each character was typed after the one before it.
LEMMA NewTextSound ==
    /\ TextSound(NewText(InitialText))
    /\ \A i \in DOMAIN NewText(InitialText) :
          /\ NewText(InitialText)[i].id.node = 0
          /\ NewText(InitialText)[i].left.node = 0
<1>. DEFINE t == NewText(InitialText)
            n == Len(InitialText)
<1>1. n \in Nat /\ DOMAIN InitialText = 1..n /\ \A i \in 1..n : InitialText[i] \in Letters
  BY TextAssumption
<1>2. t = [i \in 1..n |->
             [ch |-> InitialText[i], id |-> InitialId(i - 1), deleted |-> FALSE,
              left |-> IF i > 1 THEN InitialId(i - 2) ELSE Start]]
  BY <1>1 DEF NewText
<1>. HIDE DEF n, t
<1>3. \A m \in Nat : /\ InitialId(m) \in TextIds /\ InitialId(m).node = 0
                     /\ InitialId(m).logical = m
  BY DEF InitialId, TextIds
<1>4. Start.node = 0
  BY DEF Start
<1>5. \A i \in 1..n :
        /\ t[i].ch \in Letters /\ t[i].id = InitialId(i - 1)
        /\ t[i].left = (IF i > 1 THEN InitialId(i - 2) ELSE Start)
        /\ t[i].deleted = FALSE
        /\ t[i] = [ch |-> t[i].ch, id |-> t[i].id, deleted |-> t[i].deleted,
                   left |-> t[i].left]
  BY <1>1, <1>2
<1>6. \A i \in 1..n : /\ t[i].id \in TextIds /\ t[i].id.node = 0
                      /\ t[i].id.logical = i - 1
  <2>. TAKE i \in 1..n
  <2>1. i - 1 \in Nat
    BY <1>1
  <2>. QED
    BY <1>3, <1>5, <2>1
<1>7. \A i \in 1..n : i > 1 => /\ t[i].left \in TextIds /\ t[i].left.node = 0
                               /\ t[i].left.logical = i - 2 /\ i - 1 \in 1..n
                               /\ t[i].left = t[i-1].id
  <2>. SUFFICES ASSUME NEW i \in 1..n, i > 1
                PROVE  /\ t[i].left \in TextIds /\ t[i].left.node = 0
                       /\ t[i].left.logical = i - 2 /\ i - 1 \in 1..n
                       /\ t[i].left = t[i-1].id
    OBVIOUS
  <2>1. i - 2 \in Nat /\ i - 1 \in 1..n /\ (i - 1) - 1 = i - 2
    BY <1>1
  <2>2. t[i].left = InitialId(i - 2)
    BY <1>5
  <2>3. t[i-1].id = InitialId((i - 1) - 1)
    BY <1>5, <2>1
  <2>. QED
    BY <1>3, <2>1, <2>2, <2>3
<1>8. \A i \in 1..n : ~(i > 1) => t[i].left = Start
  BY <1>5
<1>9. DOMAIN t = 1..n
  BY <1>2
<1>10. t \in Seq(Chars)
  <2>1. \A i \in 1..n : t[i] \in Chars
    <3>. TAKE i \in 1..n
    <3>1. t[i].ch \in Letters /\ t[i].deleted \in BOOLEAN /\ t[i].id \in TextIds
      BY <1>5, <1>6
    <3>2. t[i].left \in TextIds \cup {Start}
      BY <1>7, <1>8
    <3>. DEFINE left == t[i].left
                id == t[i].id
                ch == t[i].ch
    <3>3. t[i] = [ch |-> ch, id |-> id, deleted |-> FALSE, left |-> left]
      BY <1>5
    <3>. HIDE DEF left, id, ch
    <3>4. [ch |-> ch, id |-> id, deleted |-> FALSE, left |-> left] \in Chars
      BY <3>1, <3>2 DEF Chars, left, id, ch
    <3>. QED
      BY <3>3, <3>4
  <2>2. t \in [1..n -> Chars]
    BY <1>2, <2>1
  <2>. QED
    BY <1>1, <2>2, SequenceMade
<1>11. Once(t)
  <2>1. \A i, j \in 1..n : i - 1 = j - 1 => i = j
    BY <1>1
  <2>. QED
    BY <1>6, <1>9, <2>1 DEF Once
<1>12. LeftsBefore(t)
  <2>. SUFFICES ASSUME NEW i \in 1..n, NEW j \in 1..n, t[j].id = t[i].left PROVE j < i
    BY <1>9 DEF LeftsBefore
  <2>1. i > 1
    BY <1>6, <1>8, StartApart
  <2>2. j - 1 = i - 2
    BY <1>6, <1>7, <2>1
  <2>. QED
    BY <1>1, <2>2
<1>13. Rooted(t)
  <2>. SUFFICES ASSUME NEW i \in 1..n, t[i].left # Start
                PROVE  \E j \in 1..n : j < i /\ Key(t[j]) = KeyOf(t[i].left)
    BY <1>9 DEF Rooted
  <2>1. i > 1
    BY <1>8
  <2>2. i - 1 \in 1..n /\ t[i].left = t[i-1].id /\ i - 1 < i
    BY <1>1, <1>7, <2>1
  <2>. QED
    BY <2>2 DEF Key, KeyOf
<1>14. \A i \in 1..n : t[i].id.node = 0 /\ t[i].left.node = 0
  BY <1>4, <1>6, <1>7, <1>8
<1>. QED
  BY <1>9, <1>10, <1>11, <1>12, <1>13, <1>14 DEF TextSound, t

\* The initial replicas satisfy the invariant.
LEMMA TextStart == TextInit => TextInv
<1>. SUFFICES ASSUME TextInit PROVE TextInv
  OBVIOUS
<1>1. \A w \in Writers : clocks[w] \in TextIds /\ clocks[w].node = w
  BY DEF TextInit, NewClock, TextIds
<1>2. \A w \in Writers : texts[w] = NewText(InitialText)
  BY DEF TextInit
<1>3. \A w \in Writers : TextSound(texts[w])
  BY <1>2, NewTextSound
<1>4. \A w \in Writers : \A i \in DOMAIN texts[w] :
         Stamped(texts[w][i].id, clocks) /\ Stamped(texts[w][i].left, clocks)
  <2>1. 0 \notin Writers
    BY TextAssumption
  <2>. QED
    BY <1>2, <2>1, NewTextSound DEF Stamped
<1>5. typed \in 0..MaxTyped /\ erased \in 0..MaxErased
  BY TextAssumption DEF TextInit
<1>. QED
  BY <1>1, <1>3, <1>4, <1>5 DEF TextInv, TextInit

\* A text that is visible at index shows a character there.
LEMMA LeftFound ==
    ASSUME NEW chars, TextSound(chars), NEW index
    PROVE  \/ LeftOf(chars, index) = Start
           \/ \E j \in DOMAIN chars : LeftOf(chars, index) = chars[j].id
<1>. DEFINE hits == {i \in DOMAIN chars : ~chars[i].deleted}
            visible == Visible(chars)
<1>1. chars \in Seq(Chars) /\ hits \in SUBSET DOMAIN chars
  BY DEF TextSound
<1>2. Filters(visible, chars, hits)
  BY DEF Visible, Kept, Filters
<1>. HIDE DEF hits, visible
<1>3. \A n \in DOMAIN visible : \E i \in hits : visible[n] = chars[i]
  BY <1>1, <1>2, Filtered
<1>. QED
  BY <1>1, <1>3 DEF LeftOf, visible

\* What was given out stays so when clocks move on.
LEMMA StampedStays ==
    ASSUME TextInv, NEW now, \A v \in Writers : now[v] \in TextIds /\ Behind(clocks[v], now[v]),
           NEW x \in TextIds \cup {Start}, Stamped(x, clocks)
    PROVE  Stamped(x, now)
<1>. SUFFICES ASSUME x.node \in Writers PROVE Behind(x, now[x.node])
  BY DEF Stamped
<1>1. x \in TextIds
  BY TextAssumption DEF Start
<1>2. Behind(x, clocks[x.node])
  BY DEF Stamped
<1>. DEFINE v == x.node
<1>3. clocks[v] \in TextIds /\ now[v] \in TextIds /\ Behind(clocks[v], now[v])
  BY DEF TextInv
<1>. QED
  BY <1>1, <1>2, <1>3, TextBehind

\* One replica's text changes, and clocks move on.
LEMMA TextReplaced ==
    ASSUME TextInv, NEW w \in Writers, NEW t, TextSound(t), Grown(texts[w], t),
           texts' = [texts EXCEPT ![w] = t],
           clocks' = [v \in Writers |-> clocks'[v]],
           \A v \in Writers : /\ clocks'[v] \in TextIds /\ clocks'[v].node = v
                             /\ Behind(clocks[v], clocks'[v]),
           \A i \in DOMAIN t : Stamped(t[i].id, clocks') /\ Stamped(t[i].left, clocks'),
           typed' \in 0..MaxTyped, erased' \in 0..MaxErased
    PROVE  TextInv' /\ TextGrows
<1>1. /\ texts' = [v \in Writers |-> texts'[v]] /\ texts'[w] = t
      /\ \A v \in Writers \ {w} : texts'[v] = texts[v]
  BY DEF TextInv
<1>2. \A v \in Writers : TextSound(texts'[v])
  BY <1>1 DEF TextInv
<1>3. \A v \in Writers : \A i \in DOMAIN texts'[v] :
         Stamped(texts'[v][i].id, clocks') /\ Stamped(texts'[v][i].left, clocks')
  <2>. SUFFICES ASSUME NEW v \in Writers, NEW i \in DOMAIN texts'[v]
                PROVE  /\ Stamped(texts'[v][i].id, clocks')
                       /\ Stamped(texts'[v][i].left, clocks')
    OBVIOUS
  <2>1. CASE v = w
    BY <1>1, <2>1
  <2>2. CASE v # w
    <3>1. texts'[v] = texts[v] /\ texts[v] \in Seq(Chars) /\ i \in DOMAIN texts[v]
      BY <1>1, <2>2 DEF TextInv, TextSound
    <3>. DEFINE c == texts[v][i]
    <3>2. c \in Chars
      BY <3>1
    <3>3. /\ c.id \in TextIds \cup {Start} /\ c.left \in TextIds \cup {Start}
          /\ Stamped(c.id, clocks) /\ Stamped(c.left, clocks)
      BY <3>1, <3>2 DEF Chars, TextInv
    <3>. HIDE DEF c
    <3>4. Stamped(c.id, clocks') /\ Stamped(c.left, clocks')
      <4>. DEFINE now == clocks'
      <4>1. \A u \in Writers : now[u] \in TextIds /\ Behind(clocks[u], now[u])
        OBVIOUS
      <4>. HIDE DEF now
      <4>2. Stamped(c.id, now) /\ Stamped(c.left, now)
        BY <3>3, <4>1, StampedStays
      <4>. QED
        BY <4>2 DEF now
    <3>. QED
      BY <3>1, <3>4 DEF c
  <2>. QED
    BY <2>1, <2>2
<1>4. \A v \in Writers : Grown(texts[v], texts'[v])
  <2>1. \A v \in Writers : texts[v] \in Seq(Chars)
    BY DEF TextInv, TextSound
  <2>. QED
    BY <1>1, <2>1, GrownOn
<1>5. TextGrows
  BY <1>4 DEF TextGrows, Grown
<1>. QED
  BY <1>1, <1>2, <1>3, <1>5 DEF TextInv

\* Typing a character: its id is new and nothing was typed after it.
LEMMA InsertSafe ==
    ASSUME TextInv, NEW w \in Writers, InsertChar(w)
    PROVE  TextInv' /\ TextGrows
<1>1. PICK now \in TypingTimes, ch \in Letters, index \in 0..Len(Visible(texts[w])) :
        LET id == Increment(clocks[w], now)
            new == [ch |-> ch, id |-> id, deleted |-> FALSE,
                    left |-> LeftOf(texts[w], index)]
        IN  /\ typed < MaxTyped
            /\ texts' = [texts EXCEPT ![w] = Placed(@, new)]
            /\ clocks' = [clocks EXCEPT ![w] = id]
            /\ typed' = typed + 1
            /\ UNCHANGED erased
  BY DEF InsertChar
<1>. DEFINE id == Increment(clocks[w], now)
            left == LeftOf(texts[w], index)
            new == [ch |-> ch, id |-> id, deleted |-> FALSE, left |-> left]
            old == texts[w]
            t == Placed(old, new)
<1>2. /\ typed < MaxTyped /\ typed' = typed + 1 /\ erased' = erased
      /\ texts' = [texts EXCEPT ![w] = t]
      /\ clocks' = [clocks EXCEPT ![w] = id]
  BY <1>1
<1>3. clocks[w] \in TextIds /\ clocks[w].node = w /\ now \in Nat /\ TextSound(old)
  BY TextAssumption DEF TextInv
<1>4. /\ id \in TextIds /\ id.node = w
      /\ Behind(clocks[w], id) /\ ~Behind(id, clocks[w])
  BY <1>3, TypedAfter
<1>5. left = Start \/ \E j \in DOMAIN old : left = old[j].id
  BY <1>3, LeftFound
<1>6. \A i \in DOMAIN old : old[i] \in Chars
  BY <1>3 DEF TextSound
<1>. HIDE DEF id, left, old
<1>7. left \in TextIds \cup {Start}
  BY <1>5, <1>6 DEF Chars
<1>8. new \in Chars /\ new.id = id /\ new.left = left
  BY <1>4, <1>7 DEF Chars
<1>. HIDE DEF new
<1>9. \A i \in DOMAIN old :
         /\ old[i].id \in TextIds /\ old[i].left \in TextIds \cup {Start}
         /\ Stamped(old[i].id, clocks) /\ Stamped(old[i].left, clocks)
  BY <1>6 DEF TextInv, old, Chars
<1>10. \A x : Stamped(x, clocks) => x # id
  BY <1>4 DEF Stamped
<1>11. \A i \in DOMAIN old : old[i].id # new.id /\ old[i].left # new.id
  BY <1>8, <1>9, <1>10
<1>12. Stamped(left, clocks) /\ left # id
  <2>1. Stamped(Start, clocks)
    <3>1. 0 \notin Writers /\ Start.node = 0
      BY TextAssumption DEF Start
    <3>. QED
      BY <3>1 DEF Stamped
  <2>. QED
    BY <1>5, <1>9, <1>10, <2>1
<1>13. new.left = Start \/ \E j \in DOMAIN old : Key(old[j]) = KeyOf(new.left)
  BY <1>5, <1>8 DEF Key, KeyOf
<1>14. /\ TextSound(t) /\ Grown(old, t)
       /\ \A i \in DOMAIN t : t[i] = new \/ \E j \in DOMAIN old : t[i] = old[j]
  BY <1>3, <1>8, <1>11, <1>12, <1>13, PlacedSound
<1>. HIDE DEF t
<1>. DEFINE after == clocks'
<1>15. /\ after = [v \in Writers |-> after[v]] /\ after[w] = id
       /\ \A v \in Writers \ {w} : after[v] = clocks[v]
  BY <1>2 DEF TextInv
<1>. HIDE DEF after
<1>16. \A v \in Writers : /\ after[v] \in TextIds /\ after[v].node = v
                          /\ Behind(clocks[v], after[v])
  BY <1>3, <1>4, <1>15, TextBehind DEF TextInv
<1>17. \A i \in DOMAIN old : Stamped(old[i].id, after) /\ Stamped(old[i].left, after)
  BY <1>9, <1>16, StampedStays
<1>18. Stamped(id, after) /\ Stamped(left, after)
  <2>1. Stamped(id, after)
    BY <1>4, <1>15, TextBehind DEF Stamped
  <2>. QED
    BY <1>7, <1>12, <1>16, <2>1, StampedStays
<1>19. \A i \in DOMAIN t : Stamped(t[i].id, after) /\ Stamped(t[i].left, after)
  BY <1>8, <1>14, <1>17, <1>18
<1>20. typed' \in 0..MaxTyped /\ erased' \in 0..MaxErased
  BY <1>2, TextAssumption DEF TextInv
<1>. QED
  BY <1>2, <1>14, <1>15, <1>16, <1>19, <1>20, TextReplaced DEF old, after

\* Deleting a range of visible characters.
LEMMA EraseSafe ==
    ASSUME TextInv, NEW w \in Writers, DeleteRange(w)
    PROVE  TextInv' /\ TextGrows
<1>1. PICK first, last \in 0..Len(Visible(texts[w])) :
        LET gone == {Visible(texts[w])[i].id : i \in (first + 1)..last}
        IN  /\ first < last
            /\ erased < MaxErased
            /\ texts' = [texts EXCEPT ![w] = Marked(@, gone)]
            /\ erased' = erased + 1
            /\ UNCHANGED <<clocks, typed>>
  BY DEF DeleteRange
<1>. DEFINE gone == {Visible(texts[w])[i].id : i \in (first + 1)..last}
            old == texts[w]
            erase(c) == [c EXCEPT !.deleted = c.deleted \/ c.id \in gone]
            t == [i \in DOMAIN old |-> erase(old[i])]
<1>2. /\ erased < MaxErased /\ erased' = erased + 1 /\ typed' = typed /\ clocks' = clocks
      /\ texts' = [texts EXCEPT ![w] = t]
  BY <1>1 DEF Marked
<1>3. TextSound(old) /\ old \in Seq(Chars)
  BY DEF TextInv, TextSound
<1>. HIDE DEF gone
<1>4. \A c \in Chars : /\ erase(c) \in Chars /\ Same(erase(c), c)
                       /\ c.deleted => erase(c).deleted
  BY DEF Chars, Same
<1>. HIDE DEF erase, old
<1>5. Marks(t, old)
  <2>1. /\ Len(old) \in Nat /\ DOMAIN old = 1..Len(old)
        /\ \A i \in 1..Len(old) : old[i] \in Chars
    BY <1>3
  <2>. DEFINE n == Len(old)
  <2>. HIDE DEF n
  <2>2. t \in [1..n -> Chars] /\ DOMAIN t = 1..n /\ n \in Nat
    BY <1>4, <2>1 DEF n
  <2>3. \A i \in 1..n : t[i] = erase(old[i])
    BY <2>1 DEF n
  <2>. HIDE DEF t
  <2>4. t \in Seq(Chars)
    BY <2>2, SequenceMade
  <2>. QED
    BY <1>4, <2>1, <2>2, <2>3, <2>4 DEF Marks, n
<1>. HIDE DEF t
<1>6. TextSound(t) /\ Grown(old, t)
  BY <1>3, <1>5, MarkedSound
<1>7. \A i \in DOMAIN t : Stamped(t[i].id, clocks) /\ Stamped(t[i].left, clocks)
  BY <1>5 DEF Marks, Same, TextInv, old
<1>8. \A v \in Writers : Behind(clocks[v], clocks[v])
  BY TextBehind DEF TextInv
<1>9. typed' \in 0..MaxTyped /\ erased' \in 0..MaxErased
  BY <1>2, TextAssumption DEF TextInv
<1>. QED
  BY <1>2, <1>6, <1>7, <1>8, <1>9, TextReplaced DEF TextInv, old

\* Merging the text of another replica.
LEMMA MergeTextSafe ==
    ASSUME TextInv, NEW w \in Writers, MergeText(w)
    PROVE  TextInv' /\ TextGrows
<1>1. PICK other \in Writers \ {w} :
        /\ texts' = [texts EXCEPT ![w] = MergedText(@, texts[other])]
        /\ UNCHANGED <<clocks, typed, erased>>
  BY DEF MergeText
<1>. DEFINE own == texts[w]
            remote == texts[other]
            t == MergedText(own, remote)
<1>2. /\ texts' = [texts EXCEPT ![w] = t]
      /\ clocks' = clocks /\ typed' = typed /\ erased' = erased
  BY <1>1
<1>3. TextSound(own) /\ TextSound(remote)
  BY DEF TextInv
<1>4. \A v \in Writers : \A j \in DOMAIN texts[v] :
         Stamped(texts[v][j].id, clocks) /\ Stamped(texts[v][j].left, clocks)
  BY DEF TextInv
<1>5. /\ \A j \in DOMAIN own : Stamped(own[j].id, clocks) /\ Stamped(own[j].left, clocks)
      /\ \A j \in DOMAIN remote :
            Stamped(remote[j].id, clocks) /\ Stamped(remote[j].left, clocks)
  BY <1>4
<1>. HIDE DEF own, remote
<1>6. /\ TextSound(t) /\ Grown(own, t)
      /\ \A i \in DOMAIN t : \/ \E j \in DOMAIN own : Same(t[i], own[j])
                             \/ \E j \in DOMAIN remote : Same(t[i], remote[j])
  BY <1>3, MergedTextSound
<1>. HIDE DEF t
<1>7. \A i \in DOMAIN t : Stamped(t[i].id, clocks) /\ Stamped(t[i].left, clocks)
  BY <1>5, <1>6 DEF Same
<1>8. \A v \in Writers : Behind(clocks[v], clocks[v])
  BY TextBehind DEF TextInv
<1>. QED
  BY <1>2, <1>6, <1>7, <1>8, TextReplaced DEF TextInv, own

\* Every operation on a text.
LEMMA TextSafe ==
    ASSUME TextInv, TextNext
    PROVE  TextInv' /\ TextGrows
BY InsertSafe, EraseSafe, MergeTextSafe DEF TextNext

\* And the steps of the other libraries.
LEMMA TextStill ==
    ASSUME TextInv, UNCHANGED textVars
    PROVE  TextInv' /\ TextGrows
<1>1. \A v \in Writers : Grown(texts[v], texts'[v])
  <2>1. \A v \in Writers : texts[v] \in Seq(Chars) /\ texts'[v] = texts[v]
    BY DEF TextInv, TextSound, textVars
  <2>. QED
    BY <2>1, GrownOn
<1>2. TextGrows
  BY <1>1 DEF TextGrows, Grown
<1>. QED
  BY <1>2 DEF TextInv, textVars

\* The invariant gives the types and what the run checks of texts.
LEMMA TextInvMeans ==
    ASSUME TextInv
    PROVE  TextTypeOK /\ CharsOnce /\ RightOfLeft
<1>1. \A w \in Writers : TextSound(texts[w])
  BY DEF TextInv
<1>2. \A w \in Writers : texts[w] \in Seq(Chars)
  BY <1>1 DEF TextSound
<1>3. \A w \in Writers : \A i \in DOMAIN texts[w] : texts[w][i] \in Chars
  BY <1>2
<1>4. \A c \in Chars : /\ c.ch \in Letters /\ c.deleted \in BOOLEAN
                       /\ c.id.node \in Writers \cup {0}
  BY DEF Chars, TextIds
<1>5. TextTypeOK
  BY <1>3, <1>4 DEF TextTypeOK, TextInv
<1>6. CharsOnce
  BY <1>1 DEF CharsOnce, TextSound, Once
<1>7. RightOfLeft
  BY <1>1 DEF RightOfLeft, TextSound, LeftsBefore
<1>. QED
  BY <1>5, <1>6, <1>7

-----------------------------------------------------------------------------
(* The operation keys *)

\* The window of a retry: what is left in the cache by an eviction.
Left == KeyCapacity + 1 - Evicted

\* The queue is what was accepted last, without repetition; before the first
\* eviction it is everything, and later at least what an eviction leaves.
KeysInv ==
    /\ accepted \in Seq(OpKeys) /\ order \in Seq(OpKeys)
    /\ Len(order) <= Len(accepted) /\ Len(order) <= KeyCapacity
    /\ \A i \in 1..Len(order) : order[i] = accepted[Len(accepted) - Len(order) + i]
    /\ \A i, j \in 1..Len(order) : order[i] = order[j] => i = j
    /\ keys = {order[i] : i \in 1..Len(order)}
    /\ Len(order) = Len(accepted) \/ Len(order) >= Left
    /\ RetryWindow

-----------------------------------------------------------------------------
\* An eviction takes at least one key and at most the whole cache.
LEMMA EvictedBounds == Evicted \in 1..KeyCapacity /\ Left \in 1..KeyCapacity
<1>1. KeyCapacity \in Nat \ {0} /\ EvictShare \in Nat \ {0}
  BY KeysAssumption
<1>. DEFINE share == KeyCapacity \div EvictShare
<1>2. share \in Int /\ EvictShare * share <= KeyCapacity /\ share >= 0
  BY <1>1
<1>3. share <= KeyCapacity
  <2>1. share <= EvictShare * share
    BY <1>1, <1>2
  <2>. QED
    BY <1>1, <1>2, <2>1
<1>4. Evicted = IF share = 0 THEN 1 ELSE share
  BY DEF Evicted
<1>. HIDE DEF share
<1>. QED
  BY <1>1, <1>2, <1>3, <1>4 DEF Left

\* A queue without repetition has as many keys as places.
LEMMA DistinctCount ==
    ASSUME NEW S, NEW q \in Seq(S), \A i, j \in 1..Len(q) : q[i] = q[j] => i = j
    PROVE  LET range == {q[i] : i \in 1..Len(q)}
           IN  IsFiniteSet(range) /\ Cardinality(range) = Len(q)
<1>. DEFINE range == {q[i] : i \in 1..Len(q)}
<1>1. Len(q) \in Nat /\ q \in [1..Len(q) -> range]
  OBVIOUS
<1>2. q \in Bijection(1..Len(q), range)
  BY <1>1, Fun_IsBij
<1>3. ExistsBijection(1..Len(q), range)
  BY <1>2 DEF ExistsBijection
<1>4. IsFiniteSet(1..Len(q)) /\ Cardinality(1..Len(q)) = Len(q)
  <2>1. 1 \in Int /\ Len(q) \in Int
    BY <1>1
  <2>2. /\ IsFiniteSet(1..Len(q))
        /\ Cardinality(1..Len(q)) = IF 1 > Len(q) THEN 0 ELSE Len(q) - 1 + 1
    BY <2>1, FS_Interval
  <2>. QED
    BY <1>1, <2>2
<1>. QED
  BY <1>3, <1>4, FS_Bijection

\* The initial cache satisfies the invariant.
LEMMA KeysStart == KeysInit => KeysInv
<1>. SUFFICES ASSUME KeysInit PROVE KeysInv
  OBVIOUS
<1>1. /\ accepted = << >> /\ order = << >> /\ keys = {}
      /\ Len(accepted) = 0 /\ Len(order) = 0 /\ 1..0 = {}
  BY DEF KeysInit
<1>2. RetryWindow
  BY <1>1 DEF RetryWindow
<1>3. keys = {order[i] : i \in 1..Len(order)}
  BY <1>1
<1>4. 0 <= KeyCapacity
  BY KeysAssumption
<1>. QED
  BY <1>1, <1>2, <1>3, <1>4 DEF KeysInv

\* What an insertion does, overflow or not: the new key comes last and the
\* oldest leave both set and queue.
LEMMA Insertion ==
    ASSUME KeysInv, NEW k \in OpKeys, k \notin keys, InsertKey(k)
    PROVE  \E n \in 0..Evicted :
              /\ \/ n = 0 /\ Len(order) < KeyCapacity
                 \/ n = Evicted /\ Len(order) = KeyCapacity
              /\ order' = SubSeq(Append(order, k), n + 1, Len(order) + 1)
              /\ keys' = (keys \cup {k}) \ {Append(order, k)[i] : i \in 1..n}
<1>1. Evicted \in 1..KeyCapacity /\ KeyCapacity \in Nat
  BY EvictedBounds, KeysAssumption
<1>2. IsFiniteSet(keys) /\ Cardinality(keys) = Len(order)
  BY DistinctCount DEF KeysInv
<1>3. Cardinality(keys \cup {k}) = Len(order) + 1
  BY <1>2, FS_AddElement
<1>4. Len(Append(order, k)) = Len(order) + 1 /\ Len(order) \in Nat
  BY DEF KeysInv
<1>. DEFINE over == Len(order) + 1 > KeyCapacity
            n == IF ~over THEN 0
                 ELSE IF Evicted < Len(order) + 1 THEN Evicted ELSE Len(order) + 1
<1>5. order' = SubSeq(Append(order, k), n + 1, Len(order) + 1)
  BY <1>3, <1>4 DEF InsertKey
<1>6. keys' = (keys \cup {k}) \ {Append(order, k)[i] : i \in 1..n}
  BY <1>3, <1>4 DEF InsertKey
<1>7. CASE over
  <2>1. n = Evicted /\ Len(order) = KeyCapacity
    BY <1>1, <1>4, <1>7 DEF KeysInv
  <2>2. n \in 0..Evicted
    BY <1>1, <2>1
  <2>. HIDE DEF n
  <2>. QED
    BY <1>5, <1>6, <2>1, <2>2
<1>8. CASE ~over
  <2>1. n = 0 /\ Len(order) < KeyCapacity
    BY <1>1, <1>4, <1>8
  <2>2. n \in 0..Evicted
    BY <1>1, <2>1
  <2>. HIDE DEF n
  <2>. QED
    BY <1>5, <1>6, <2>1, <2>2
<1>. QED
  BY <1>7, <1>8

\* A key that is not in the cache was last accepted before what the cache holds.
LEMMA AcceptedLongAgo ==
    ASSUME KeysInv, NEW k, k \notin keys, NEW i \in 1..Len(accepted), accepted[i] = k
    PROVE  Len(accepted) + 1 - i > Left
<1>1. Len(accepted) \in Nat /\ Len(order) \in Nat /\ i \in Nat
  BY DEF KeysInv
<1>2. i <= Len(accepted) - Len(order)
  <2>. SUFFICES ASSUME i > Len(accepted) - Len(order) PROVE FALSE
    BY <1>1
  <2>. DEFINE j == i - (Len(accepted) - Len(order))
  <2>1. j \in 1..Len(order) /\ Len(accepted) - Len(order) + j = i
    BY <1>1 DEF KeysInv
  <2>2. order[j] = k
    BY <2>1 DEF KeysInv
  <2>. QED
    BY <2>1, <2>2 DEF KeysInv
<1>3. Left \in Nat
  BY EvictedBounds, KeysAssumption
<1>. QED
  BY <1>1, <1>2, <1>3 DEF KeysInv

\* So every accepted key keeps the invariant.
LEMMA CheckKeeps ==
    ASSUME KeysInv, NEW k \in OpKeys, CheckIdempotency(k)
    PROVE  KeysInv'
<1>1. k \notin keys /\ accepted' = Append(accepted, k)
  BY DEF CheckIdempotency
<1>2. PICK n \in 0..Evicted :
          /\ \/ n = 0 /\ Len(order) < KeyCapacity
             \/ n = Evicted /\ Len(order) = KeyCapacity
          /\ order' = SubSeq(Append(order, k), n + 1, Len(order) + 1)
          /\ keys' = (keys \cup {k}) \ {Append(order, k)[i] : i \in 1..n}
  BY Insertion DEF CheckIdempotency
<1>. DEFINE full == Append(order, k)
<1>3. /\ Evicted \in 1..KeyCapacity /\ KeyCapacity \in Nat /\ n \in Nat
      /\ Len(order) \in Nat /\ Len(accepted) \in Nat /\ n <= Len(order) /\ Left' = Left
  BY <1>2, EvictedBounds, KeysAssumption DEF KeysInv, Left, Evicted
<1>4. /\ full \in Seq(OpKeys) /\ Len(full) = Len(order) + 1
      /\ \A i \in 1..Len(order) : full[i] = order[i]
      /\ full[Len(order) + 1] = k
  BY DEF KeysInv
<1>. HIDE DEF full
<1>5. \A i, j \in 1..Len(full) : full[i] = full[j] => i = j
  <2>1. \A i \in 1..Len(order) : full[i] # k
    BY <1>1, <1>4 DEF KeysInv
  <2>2. \A i, j \in 1..Len(order) : full[i] = full[j] => i = j
    BY <1>4 DEF KeysInv
  <2>3. \A i \in 1..Len(full) : i \in 1..Len(order) \/ i = Len(order) + 1
    BY <1>3, <1>4
  <2>. QED
    BY <1>4, <2>1, <2>2, <2>3
<1>6. /\ order' \in Seq(OpKeys) /\ Len(order') = Len(order) + 1 - n
      /\ \A i \in 1..(Len(order) + 1 - n) : order'[i] = full[n + i]
  <2>1. order' = SubSeq(full, n + 1, Len(order) + 1)
    BY <1>2 DEF full
  <2>2. n + 1 \in Int /\ Len(order) + 1 \in Int /\ n + 1 <= Len(order) + 1
    BY <1>3
  <2>3. \A i \in (n + 1)..(Len(order) + 1) : full[i] \in OpKeys
    BY <1>3, <1>4
  <2>4. /\ order' \in Seq(OpKeys)
        /\ Len(order') = (Len(order) + 1) - (n + 1) + 1
        /\ \A i \in 1..((Len(order) + 1) - (n + 1) + 1) : order'[i] = full[(n + 1) + i - 1]
    BY <2>1, <2>2, <2>3, SubSeqProperties
  <2>. QED
    BY <1>3, <2>4
<1>7. /\ accepted' \in Seq(OpKeys) /\ Len(accepted') = Len(accepted) + 1
      /\ \A i \in 1..Len(accepted) : accepted'[i] = accepted[i]
      /\ accepted'[Len(accepted) + 1] = k
  BY <1>1 DEF KeysInv
<1>8. Len(order') <= Len(accepted') /\ Len(order') <= KeyCapacity
  BY <1>2, <1>3, <1>6, <1>7 DEF KeysInv
<1>9. \A i \in 1..Len(order') : order'[i] = accepted'[Len(accepted') - Len(order') + i]
  <2>. TAKE i \in 1..Len(order')
  <2>1. order'[i] = full[n + i] /\ n + i \in 1..(Len(order) + 1)
    BY <1>3, <1>6
  <2>2. Len(accepted') - Len(order') + i = Len(accepted) - Len(order) + (n + i)
    BY <1>3, <1>6, <1>7
  <2>3. CASE n + i = Len(order) + 1
    <3>1. Len(accepted) - Len(order) + (n + i) = Len(accepted) + 1
      BY <1>3, <2>3
    <3>. QED
      BY <1>4, <1>7, <2>1, <2>2, <2>3, <3>1
  <2>4. CASE n + i \in 1..Len(order)
    <3>1. full[n + i] = accepted[Len(accepted) - Len(order) + (n + i)]
      BY <1>4, <2>4 DEF KeysInv
    <3>2. Len(accepted) - Len(order) + (n + i) \in 1..Len(accepted)
      BY <1>3, <2>4 DEF KeysInv
    <3>. QED
      BY <1>1, <2>1, <2>2, <3>1, <3>2 DEF KeysInv
  <2>. QED
    BY <1>3, <2>1, <2>3, <2>4
<1>10. \A i, j \in 1..Len(order') : order'[i] = order'[j] => i = j
  BY <1>3, <1>4, <1>5, <1>6
<1>11. keys' = {order'[i] : i \in 1..Len(order')}
  <2>1. keys \cup {k} = {full[i] : i \in 1..Len(full)}
    <3>1. keys = {order[i] : i \in 1..Len(order)}
      BY DEF KeysInv
    <3>2. 1..Len(full) = (1..Len(order)) \cup {Len(order) + 1}
      BY <1>3, <1>4
    <3>. QED
      BY <1>4, <3>1, <3>2
  <2>2. keys' = {full[i] : i \in 1..Len(full)} \ {full[i] : i \in 1..n}
    BY <1>2, <2>1 DEF full
  <2>3. keys' = {full[i] : i \in (n + 1)..Len(full)}
    BY <1>3, <1>4, <1>5, <2>2
  <2>4. \A i \in (n + 1)..Len(full) : i - n \in 1..Len(order') /\ order'[i - n] = full[i]
    BY <1>3, <1>4, <1>6
  <2>5. \A i \in 1..Len(order') : n + i \in (n + 1)..Len(full) /\ order'[i] = full[n + i]
    BY <1>3, <1>4, <1>6
  <2>6. \A x \in keys' : \E i \in 1..Len(order') : x = order'[i]
    BY <2>3, <2>4
  <2>7. \A i \in 1..Len(order') : order'[i] \in keys'
    BY <2>3, <2>5
  <2>. QED
    BY <2>6, <2>7
<1>12. Len(order') = Len(accepted') \/ Len(order') >= Left'
  BY <1>2, <1>3, <1>6, <1>7 DEF KeysInv, Left
<1>13. RetryWindow'
  <2>. SUFFICES ASSUME NEW i \in 1..Len(accepted'), NEW j \in 1..Len(accepted'),
                       i < j, accepted'[i] = accepted'[j]
                PROVE  j - i > Left
    <3>1. DOMAIN accepted' = 1..Len(accepted')
      BY <1>7
    <3>2. (KeyCapacity + 1 - Evicted)' = Left
      BY <1>3 DEF Left
    <3>. QED
      BY <3>1, <3>2 DEF RetryWindow
  <2>1. i \in 1..Len(accepted) /\ accepted'[i] = accepted[i]
    BY <1>3, <1>7
  <2>2. CASE j = Len(accepted) + 1
    <3>1. accepted'[j] = k
      BY <1>7, <2>2
    <3>. QED
      BY <1>1, <2>1, <2>2, <3>1, AcceptedLongAgo
  <2>3. CASE j \in 1..Len(accepted)
    <3>1. accepted'[j] = accepted[j]
      BY <1>7, <2>3
    <3>2. DOMAIN accepted = 1..Len(accepted) /\ RetryWindow
      BY DEF KeysInv
    <3>. QED
      BY <2>1, <2>3, <3>1, <3>2 DEF RetryWindow, Left
  <2>. QED
    BY <1>3, <1>7, <2>2, <2>3
<1>. QED
  BY <1>6, <1>7, <1>8, <1>9, <1>10, <1>11, <1>12, <1>13 DEF KeysInv

\* The steps of the other libraries leave the cache.
LEMMA KeysStill ==
    ASSUME KeysInv, UNCHANGED keyVars
    PROVE  KeysInv'
BY DEF keyVars, KeysInv, RetryWindow, Left, Evicted

\* The invariant gives one cache and the window of a retry.
LEMMA KeysInvMeans ==
    ASSUME KeysInv
    PROVE  KeysTypeOK /\ RetryWindow
<1>1. order \in Seq(OpKeys) /\ DOMAIN order = 1..Len(order)
  BY DEF KeysInv
<1>2. Cardinality(keys) = Len(order)
  BY <1>1, DistinctCount DEF KeysInv
<1>. QED
  BY <1>1, <1>2 DEF KeysInv, KeysTypeOK

-----------------------------------------------------------------------------
(* The libraries together *)

PartsInv == EngineInv /\ TextInv /\ KeysInv

\* A step of the whole is one of a single library.
LEMMA PartsStep ==
    ASSUME PartsInv, [SyncPartsNext]_syncPartVars
    PROVE  /\ PartsInv' /\ part' = part
           /\ StepPromises
           /\ part = "text" => TextGrows
<1>1. EngineInv /\ TextInv /\ KeysInv
  BY DEF PartsInv
<1>2. CASE part = "engine" /\ EngineNext /\ UNCHANGED <<textVars, keyVars>> /\ UNCHANGED part
  <2>1. EngineInv' /\ StepPromises
    BY <1>1, <1>2, EngineSafe
  <2>2. TextInv' /\ KeysInv'
    BY <1>1, <1>2, TextStill, KeysStill
  <2>. QED
    BY <1>2, <2>1, <2>2 DEF PartsInv
<1>3. CASE part = "text" /\ TextNext /\ UNCHANGED <<engineVars, keyVars>> /\ UNCHANGED part
  <2>1. TextInv' /\ TextGrows
    BY <1>1, <1>3, TextSafe
  <2>2. EngineInv' /\ StepPromises /\ KeysInv'
    BY <1>1, <1>3, EngineStill, KeysStill
  <2>. QED
    BY <1>3, <2>1, <2>2 DEF PartsInv
<1>4. CASE part = "keys" /\ KeysNext /\ UNCHANGED <<engineVars, textVars>> /\ UNCHANGED part
  <2>1. KeysInv'
    BY <1>1, <1>4, CheckKeeps DEF KeysNext
  <2>2. EngineInv' /\ StepPromises /\ TextInv' /\ TextGrows
    BY <1>1, <1>4, EngineStill, TextStill
  <2>. QED
    BY <1>4, <2>1, <2>2 DEF PartsInv
<1>5. CASE UNCHANGED syncPartVars
  <2>1. UNCHANGED engineVars /\ UNCHANGED textVars /\ UNCHANGED keyVars /\ UNCHANGED part
    BY <1>5 DEF syncPartVars
  <2>2. EngineInv' /\ StepPromises /\ TextInv' /\ TextGrows /\ KeysInv'
    BY <1>1, <2>1, EngineStill, TextStill, KeysStill
  <2>. QED
    BY <2>1, <2>2 DEF PartsInv
<1>. QED
  BY <1>2, <1>3, <1>4, <1>5 DEF SyncPartsNext

\* The invariant of each library holds whichever of them is used.
THEOREM PartsInvariance == SyncPartsSpec => []PartsInv
<1>1. SyncPartsInit => PartsInv
  BY EngineStart, TextStart, KeysStart DEF SyncPartsInit, PartsInv
<1>2. PartsInv /\ [SyncPartsNext]_syncPartVars => PartsInv'
  BY PartsStep
<1>. QED
  BY <1>1, <1>2, PTL DEF SyncPartsSpec

\* Documents, engines, texts and the key cache keep their types.
THEOREM PartsTypeCorrect == SyncPartsSpec => []SyncPartsTypeOK
<1>1. PartsInv => SyncPartsTypeOK
  BY EngineInvMeans, TextInvMeans, KeysInvMeans DEF PartsInv, SyncPartsTypeOK
<1>. QED
  BY <1>1, PartsInvariance, PTL

\* Whatever arrives, in whichever order: an id names one
\* operation, shown blocks have positions of their own, no character stands twice
\* or left of the one it was typed after.
THEOREM CopiesStaySound == SyncPartsSpec => []CopiesSound
<1>1. PartsInv => CopiesSound
  BY EngineInvMeans, TextInvMeans DEF PartsInv, CopiesSound
<1>. QED
  BY <1>1, PartsInvariance, PTL

\* A device asks its user exactly while there is a conflict, and sends only what
\* its own copy has recorded, also after merges and resolutions that failed.
THEOREM EngineStaysAgreed == SyncPartsSpec => []EngineAgrees
<1>1. PartsInv => EngineAgrees
  BY EngineInvMeans DEF PartsInv
<1>. QED
  BY <1>1, PartsInvariance, PTL

\* No operation is processed again while its retry is within the window.
THEOREM RetriesRecognised == SyncPartsSpec => []RetryWindow
<1>1. PartsInv => RetryWindow
  BY KeysInvMeans DEF PartsInv
<1>. QED
  BY <1>1, PartsInvariance, PTL

\* An edit is later than everything its device had taken in before it.
THEOREM EditsAfterCauses == SyncPartsSpec => CausesFirst
<1>1. PartsInv /\ [SyncPartsNext]_syncPartVars =>
        [\A op \in issued' \ issued : \A id \in Recorded(op.id.node) :
            Earlier(id, op.id)]_crdtVars
  BY PartsStep DEF StepPromises
<1>. QED
  BY <1>1, PartsInvariance, PTL DEF SyncPartsSpec, CausesFirst

\* What a copy has recorded is not applied by a later merge.
THEOREM NeverAppliedAgain == SyncPartsSpec => NotAppliedAgain
<1>1. PartsInv /\ [SyncPartsNext]_syncPartVars =>
        [\A d \in Devices :
            \A k \in DOMAIN copies'[d].operations \ DOMAIN copies[d].operations :
               copies'[d].operations[k].id \notin Recorded(d)]_crdtVars
  BY PartsStep DEF StepPromises, RecordsNew, IdsOf, Recorded
<1>. QED
  BY <1>1, PartsInvariance, PTL DEF SyncPartsSpec, NotAppliedAgain

\* The entries of deleted blocks stay and only an insertion shows such an id
\* again, erased characters stay erased, characters keep their order, and an edit
\* stays pending until a merge that went through brought it back.
THEOREM NothingIsUndone == SyncPartsSpec => NothingUndone
<1>1. PartsInv /\ [SyncPartsNext]_syncPartVars =>
        [/\ part = "engine" => DeletedStays /\ PendingKept
         /\ part = "text" => TextGrows]_syncPartVars
  BY PartsStep DEF StepPromises
<1>. QED
  BY <1>1, PartsInvariance, PTL DEF SyncPartsSpec, NothingUndone
=============================================================================
