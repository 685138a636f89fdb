---------------------------- MODULE MCRustStores ----------------------------
(* Small calls: lists of cells, properties and tags, and two view settings. *)
EXTENDS RustStores

CONSTANTS f1, f2, f3, k1, k2, t1, t2

SomeValues == -1..1

SomeCells ==
    {<< <<f1, 1>> >>, << <<f1, 1>>, <<f2, 0>> >>, << <<f2, 1>>, <<f2, -1>> >>}

SomeUpdates == {<<f1, 0>>, <<f2, -1>>}

SomeSettings ==
    {[filters |-> <<[field |-> f1, operator |-> "not_equals", value |-> 1]>>,
      sorts |-> << >>],
     [filters |-> << >>,
      sorts |-> <<[field |-> f1, direction |-> "asc"],
                  [field |-> f2, direction |-> "desc"]>>]}

SomeProperties == {<<k1>>, <<k1, k2>>, <<k2, k2>>}

SomeTagWithin == {<<t1, t2>>}

SomeTags == {<< >>, <<t1, t2>>, <<t2, t2>>}
=============================================================================
