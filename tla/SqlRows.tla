------------------------------ MODULE SqlRows ------------------------------
(* A SQLite table as a function from primary keys to rows. *)

NoRows == << >>

InsertRow(table, id, row) ==
    [i \in DOMAIN table \cup {id} |-> IF i = id THEN row ELSE table[i]]

KeepRows(table, ids) == [i \in ids |-> table[i]]

\* DELETE FROM table WHERE id = ?
DeleteRow(table, id) == KeepRows(table, DOMAIN table \ {id})
=============================================================================
