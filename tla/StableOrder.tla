---------------------------- MODULE StableOrder ----------------------------
(* The stable sort of Rust's slices, the first match of an iterator, its filter. *)
EXTENDS Naturals, Sequences, FiniteSets

\* s itself: TLC keeps the elements of a sequence it has put together, where it
\* computes those of a function at every use.
Elements(s) == s \o << >>

\* The place element k takes when s is sorted by Less, equal elements in order.
Place(s, k, Less(_, _)) ==
    Cardinality({j \in DOMAIN s :
        Less(s[j], s[k]) \/ (~Less(s[k], s[j]) /\ j <= k)})

StableSort(s, Less(_, _)) ==
    [i \in DOMAIN s |-> s[CHOOSE k \in DOMAIN s : Place(s, k, Less) = i]]

\* The index of the first element that passes Test, 0 when none does.
FirstIndex(s, Test(_)) ==
    LET hits == {i \in DOMAIN s : Test(s[i])}
    IN  IF hits = {} THEN 0 ELSE CHOOSE i \in hits : \A j \in hits : i <= j

\* The elements that pass Test, in their order: SelectSeq without its recursion.
Kept(s, Test(_)) ==
    LET hits == {i \in DOMAIN s : Test(s[i])}
    IN  [n \in 1..Cardinality(hits) |->
            s[CHOOSE i \in hits : Cardinality({j \in hits : j <= i}) = n]]

LastIndex(s, Test(_)) ==
    LET hits == {i \in DOMAIN s : Test(s[i])}
    IN  IF hits = {} THEN 0 ELSE CHOOSE i \in hits : \A j \in hits : j <= i
=============================================================================
