----------------------------- MODULE TableStore -----------------------------
(***************************************************************************)
(* The table engine of devnote-database over SQLite: databases of fields,  *)
(* rows of cells and views, and the filters and sorts a view shows its     *)
(* rows through.  Every call holds the connection's mutex; rows and their  *)
(* cells are written in one transaction.                                   *)
(***************************************************************************)
EXTENDS Integers, SequencesExt, StableOrder, SqlRows

CONSTANTS
    DatabaseIds, FieldIds, RowIds,
    CellLists,    \* the cells add_row and update_row are called with: <<field, value>>
    CellUpdates,  \* the cell update_cell is called with
    Values,       \* cell values: numbers, and
    EmptyValue,   \* the null and the empty string
    ViewSettings  \* the filters and sorts update_view is called with

ASSUME TablesAssumption ==
    /\ EmptyValue \in Values /\ Values \subseteq -99..99
    /\ CellLists \subseteq Seq(FieldIds \X Values) /\ CellUpdates \subseteq FieldIds \X Values
    /\ IsFiniteSet(FieldIds) /\ IsFiniteSet(RowIds)
    /\ \A v \in ViewSettings : v.sorts \in Seq([field : FieldIds, direction : STRING])

VARIABLES
    databases,  \* ids of the databases
    fields,     \* id -> database and position
    rows,       \* id -> database
    cells,      \* <<row, field>> -> value
    views,      \* database -> the settings of its view
    drawn,      \* ids ever drawn
    addedRow    \* the row and the cells of an add_row, as the call gave them

tableVars == <<databases, fields, rows, cells, views, drawn, addedRow>>

NotAdded == [row |-> "none"]

TablesInit ==
    /\ databases = {} /\ fields = << >> /\ rows = << >> /\ cells = << >>
    /\ views = << >> /\ drawn = {} /\ addedRow = NotAdded

NoSettings == [filters |-> << >>, sorts |-> << >>]

\* A database and its default view, in one transaction.
CreateDatabase(d) ==
    /\ d \notin drawn
    /\ databases' = databases \cup {d}
    /\ views' = InsertRow(views, d, NoSettings)
    /\ drawn' = drawn \cup {d}
    /\ UNCHANGED <<fields, rows, cells>>

\* ON DELETE CASCADE: a cell goes with its row and with its field.
CellsAmong(rowIds, fieldIds) ==
    KeepRows(cells, {c \in DOMAIN cells : c[1] \in rowIds /\ c[2] \in fieldIds})

DeleteDatabase(d) ==
    LET leftFields == {f \in DOMAIN fields : fields[f].database # d}
        leftRows == {r \in DOMAIN rows : rows[r] # d}
    IN  /\ d \in databases
        /\ databases' = databases \ {d}
        /\ fields' = KeepRows(fields, leftFields)
        /\ rows' = KeepRows(rows, leftRows)
        /\ cells' = CellsAmong(leftRows, leftFields)
        /\ views' = DeleteRow(views, d)
        /\ UNCHANGED drawn

PositionsOf(d) == {fields[f].position : f \in {g \in DOMAIN fields : fields[g].database = d}}

\* Variant: COUNT(*) in place of the largest position.
NextPositionByCount(d) == Cardinality(PositionsOf(d))

\* COALESCE(MAX(position), -1) + 1
NextPosition(d) ==
    CHOOSE p \in 0..Cardinality(FieldIds) :
        /\ \A q \in PositionsOf(d) : q < p
        /\ p = 0 \/ p - 1 \in PositionsOf(d)

AddField(d, f) ==
    /\ d \in databases /\ f \notin drawn
    /\ fields' = InsertRow(fields, f, [database |-> d, position |-> NextPosition(d)])
    /\ drawn' = drawn \cup {f}
    /\ UNCHANGED <<databases, rows, cells, views>>

\* Variant: the cells of the field stay.
DeleteFieldOnly(f) ==
    /\ f \in DOMAIN fields
    /\ fields' = DeleteRow(fields, f)
    /\ UNCHANGED <<databases, rows, cells, views, drawn>>

\* Filters and sorts of the view that name the field stay as they are.
DeleteField(f) ==
    /\ f \in DOMAIN fields
    /\ fields' = DeleteRow(fields, f)
    /\ cells' = CellsAmong(DOMAIN rows, DOMAIN fields \ {f})
    /\ UNCHANGED <<databases, rows, views, drawn>>

\* The foreign keys ask for the field to exist, not to be of the same database.
FieldsExist(list) == \A i \in DOMAIN list : list[i][1] \in DOMAIN fields

NoFieldTwice(list) == \A i, j \in DOMAIN list : list[i][1] = list[j][1] => i = j

\* Variant: the two columns of the key are written in each other's place.
WrittenSwapped(r, list) ==
    LET new == {<<list[i][1], r>> : i \in DOMAIN list}
        Final(f) == LastIndex(list, LAMBDA cell : cell[1] = f)
    IN  [c \in DOMAIN cells \cup new |->
            IF c \in new THEN list[Final(c[1])][2] ELSE cells[c]]

\* The cells of the call, a later one over an earlier one.
Written(r, list) ==
    LET new == {<<r, list[i][1]>> : i \in DOMAIN list}
        Final(f) == LastIndex(list, LAMBDA cell : cell[1] = f)
    IN  [c \in DOMAIN cells \cup new |->
            IF c \in new THEN list[Final(c[2])][2] ELSE cells[c]]

\* Variant: no transaction: the cells before the first that fails are written.
AddRowInSteps(d, r, list) ==
    /\ d \in databases /\ r \notin drawn
    /\ rows' = InsertRow(rows, r, d)
    /\ \E n \in 0..Len(list) :
          LET done == SubSeq(list, 1, n)
          IN  /\ FieldsExist(done) /\ NoFieldTwice(done)
              /\ cells' = Written(r, done)
    /\ addedRow' = [row |-> r, cells |-> list]
    /\ drawn' = drawn \cup {r}
    /\ UNCHANGED <<databases, fields, views>>

\* INSERT of the row and of each cell: one that fails rolls all of them back.
AddRow(d, r, list) ==
    /\ d \in databases /\ r \notin drawn
    /\ FieldsExist(list) /\ NoFieldTwice(list)
    /\ rows' = InsertRow(rows, r, d)
    /\ cells' = Written(r, list)
    /\ addedRow' = [row |-> r, cells |-> list]
    /\ drawn' = drawn \cup {r}
    /\ UNCHANGED <<databases, fields, views>>

\* INSERT OR REPLACE of each cell; the other cells of the row stay.
UpdateRow(r, list) ==
    /\ r \in DOMAIN rows
    /\ FieldsExist(list)
    /\ cells' = Written(r, list)
    /\ UNCHANGED <<databases, fields, rows, views, drawn>>

\* The database id of the call is not looked at.
UpdateCell(r, f, value) == UpdateRow(r, <<<<f, value>>>>)

RemoveRow(r) ==
    /\ r \in DOMAIN rows
    /\ rows' = DeleteRow(rows, r)
    /\ cells' = CellsAmong(DOMAIN rows \ {r}, DOMAIN fields)
    /\ UNCHANGED <<databases, fields, views, drawn>>

\* add_view, update_view and delete_view, for one view of a database.
AddView(d) ==
    /\ d \in databases /\ d \notin DOMAIN views
    /\ views' = InsertRow(views, d, NoSettings)
    /\ UNCHANGED <<databases, fields, rows, cells, drawn>>

UpdateView(d, settings) ==
    /\ d \in DOMAIN views
    /\ views' = [views EXCEPT ![d] = settings]
    /\ UNCHANGED <<databases, fields, rows, cells, drawn>>

DeleteView(d) ==
    /\ d \in DOMAIN views
    /\ views' = DeleteRow(views, d)
    /\ UNCHANGED <<databases, fields, rows, cells, drawn>>

TablesNext ==
    \/ \E d \in DatabaseIds, r \in RowIds, list \in CellLists : AddRow(d, r, list)
    \/ /\ addedRow' = NotAdded
       /\ \/ \E d \in DatabaseIds :
                \/ CreateDatabase(d) \/ DeleteDatabase(d)
                \/ \E f \in FieldIds : AddField(d, f)
                \/ AddView(d) \/ DeleteView(d)
                \/ \E settings \in ViewSettings : UpdateView(d, settings)
          \/ \E f \in FieldIds : DeleteField(f)
          \/ \E r \in RowIds :
                \/ RemoveRow(r)
                \/ \E list \in CellLists : UpdateRow(r, list)
                \/ \E cell \in CellUpdates : UpdateCell(r, cell[1], cell[2])

TablesSpec == TablesInit /\ [][TablesNext]_tableVars

-----------------------------------------------------------------------------
\* Numbers compare as texts of 20 characters: a negative one comes before the
\* others but backwards among its like; empty and missing cells come first.
SortKey(r, f) ==
    LET value == IF <<r, f>> \in DOMAIN cells THEN cells[<<r, f>>] ELSE EmptyValue
    IN  CASE value = EmptyValue -> -200
          [] value < 0 -> -100 - value
          [] OTHER -> value

\* A stable sort of rows by one field.
SortBy(list, sort) ==
    StableSort(list, LAMBDA a, b : IF sort.direction = "desc"
        THEN SortKey(b, sort.field) < SortKey(a, sort.field)
        ELSE SortKey(a, sort.field) < SortKey(b, sort.field))

\* Variant: the first key is sorted by first.
ApplySortReversed(list, sorts) ==
    FoldLeft(LAMBDA sorted, sort : SortBy(sorted, sort), list, sorts)

\* apply_sort: one stable sort per key, the last key first.
ApplySort(list, sorts) ==
    FoldLeft(LAMBDA sorted, sort : SortBy(sorted, sort), list, Reverse(sorts))

\* Variant: a row without the cell matches no filter.
KeepsSet(r, filter) ==
    LET cell == <<r, filter.field>>
    IN  /\ cell \in DOMAIN cells
        /\ CASE filter.operator = "is_empty" -> cells[cell] = EmptyValue
             [] filter.operator = "is_not_empty" -> cells[cell] # EmptyValue
             [] filter.operator = "equals" -> cells[cell] = filter.value
             [] filter.operator = "not_equals" -> cells[cell] # filter.value
             [] OTHER -> TRUE

\* apply_filter, for the operators a value model tells apart.
Keeps(r, filter) ==
    LET cell == <<r, filter.field>>
    IN  IF cell \notin DOMAIN cells THEN filter.operator = "is_empty"
        ELSE CASE filter.operator = "is_empty" -> cells[cell] = EmptyValue
               [] filter.operator = "is_not_empty" -> cells[cell] # EmptyValue
               [] filter.operator = "equals" -> cells[cell] = filter.value
               [] filter.operator = "not_equals" -> cells[cell] # filter.value
               [] OTHER -> TRUE

ApplyFilter(list, filters) ==
    Kept(list, LAMBDA r : \A i \in DOMAIN filters : Keeps(r, filters[i]))

RowsOf(d) == SetToSeq({r \in DOMAIN rows : rows[r] = d})

ViewRows(d) == ApplySort(ApplyFilter(RowsOf(d), views[d].filters), views[d].sorts)

-----------------------------------------------------------------------------
\* Tables have rows of their types.
TablesTypeOK ==
    /\ databases \subseteq DatabaseIds
    /\ DOMAIN fields \subseteq FieldIds /\ DOMAIN rows \subseteq RowIds
    /\ DOMAIN cells \subseteq RowIds \X FieldIds
    /\ \A c \in DOMAIN cells : cells[c] \in Values
    /\ \A d \in DOMAIN views : views[d] \in ViewSettings \cup {NoSettings}

\* A database is loaded with its fields in one order, whichever fields were
\* added and deleted before: no two have the same position.
FieldsInOrder ==
    \A f, g \in DOMAIN fields :
        f # g /\ fields[f].database = fields[g].database =>
            fields[f].position # fields[g].position

\* Whatever is deleted, fields, rows and views are of a database there is, and
\* cells of a row and a field there are.  The filters and sorts of a view are not
\* looked at: delete_field leaves those that name the field.
NothingDangles ==
    /\ \A f \in DOMAIN fields : fields[f].database \in databases
    /\ \A r \in DOMAIN rows : rows[r] \in databases
    /\ \A c \in DOMAIN cells : c[1] \in DOMAIN rows /\ c[2] \in DOMAIN fields
    /\ DOMAIN views \subseteq databases

\* A row appears with the cells its add_row was called with, every one of them
\* with its value and no other, or not at all: a call that fails at its second
\* cell leaves nothing.
RowsComeWhole ==
    \A r \in DOMAIN rows' \ DOMAIN rows :
       LET given == ToSet(addedRow'.cells)
       IN  /\ addedRow'.row = r
           /\ \A cell \in given :
                 <<r, cell[1]>> \in DOMAIN cells' /\ cells'[<<r, cell[1]>>] = cell[2]
           /\ \A f \in FieldIds :
                 <<r, f>> \in DOMAIN cells' => <<f, cells'[<<r, f>>]>> \in given

\* A view with several sorts orders its rows by the first, rows equal in it by
\* the second: no two rows are against that order, and rows equal in all keys
\* keep the order they were loaded in.
SortsNest ==
    \A d \in DOMAIN views :
        LET sorts == views[d].sorts
            loaded == ApplyFilter(RowsOf(d), views[d].filters)
            shown == ViewRows(d)
            Differ(k, a, b) == SortKey(a, sorts[k].field) # SortKey(b, sorts[k].field)
            Ordered(k, a, b) == (SortKey(a, sorts[k].field) < SortKey(b, sorts[k].field))
                                  <=> (sorts[k].direction # "desc")
            FirstDifference(a, b) == FirstIndex([k \in DOMAIN sorts |-> k],
                                                LAMBDA k : Differ(k, a, b))
        IN  \A i, j \in DOMAIN shown : i < j =>
                LET k == FirstDifference(shown[i], shown[j])
                IN  IF k # 0 THEN Ordered(k, shown[i], shown[j])
                    ELSE FirstIndex(loaded, LAMBDA r : r = shown[i])
                            < FirstIndex(loaded, LAMBDA r : r = shown[j])

\* is_empty and is_not_empty split the rows of a database in two, cells that
\* were never set included.
EmptyOrNot ==
    \A d \in databases, f \in FieldIds :
        LET all == RowsOf(d)
            Passing(operator) == ToSet(ApplyFilter(all,
                                    <<[field |-> f, operator |-> operator, value |-> EmptyValue]>>))
            empty == Passing("is_empty")
            others == Passing("is_not_empty")
        IN  empty \cap others = {} /\ empty \cup others = ToSet(all)
=============================================================================
