--------------------------- MODULE MCRustServices ---------------------------
(* Three graphs to build, fourteen kinds of lines, five leaves of formulas. *)
EXTENDS RustServices

CONSTANTS n1, n2, n3, t1

SomeBuilds ==
    {[notes |-> {n1, n2, n3}, carried |-> {<<n3, t1>>}, folders |-> {},
      tags |-> {<<n3, t1>>}, refs |-> {<<n1, n2>>, <<n2, n3>>}],
     [notes |-> {n1, n2}, carried |-> {}, folders |-> {<<n1, n3>>, <<n2, n3>>},
      tags |-> {<<n2, t1>>}, refs |-> {<<n1, n1>>}],
     [notes |-> {n1}, carried |-> {<<n1, t1>>}, folders |-> {}, tags |-> {},
      refs |-> {<<n1, n2>>}]}

SomeLeaves ==
    {Number(<<1, 1>>), Boolean(FALSE), Text(<<1>>), Field("f"),
     Binary("minus", Number(<<1, 1>>), Boolean(TRUE))}

OneRow == [f |-> Null]
TwoRows == <<[f |-> Number(<<2, 1>>)], [f |-> Text(<<1>>)]>>
=============================================================================
