------------------------------ MODULE AuditLog ------------------------------
(***************************************************************************)
(* The audit log of devnote-persistence: entries with a time their caller  *)
(* gives, read page by page, newest first, and purged by age.  A reader's  *)
(* pages are separate calls.                                               *)
(***************************************************************************)
EXTENDS SqlRows, StableOrder

CONSTANTS
    AuditUsers,
    AuditTimes,
    PageLimit,
    MaxEntries   \* bound: entries written

ASSUME AuditAssumption ==
    AuditTimes \subseteq Nat /\ PageLimit \in Nat \ {0} /\ MaxEntries \in Nat

VARIABLES
    audit,     \* the rows of audit_log by id; ids number the entries
    written,   \* how many entries were ever written
    reading    \* a reader's user, offset, the ids it saw and those it started with

auditVars == <<audit, written, reading>>

NotReading == [seen |-> {}, none |-> TRUE]

AuditInit ==
    /\ audit = NoRows
    /\ written = 0
    /\ reading = NotReading

\* Variant: the entry gets the id of the one before it.
LogAuditOver ==
    \E u \in AuditUsers, t \in AuditTimes :
        /\ written < MaxEntries
        /\ written' = written + 1
        /\ audit' = InsertRow(audit, written, [user |-> u, time |-> t])
        /\ UNCHANGED reading

LogAudit ==
    \E u \in AuditUsers, t \in AuditTimes :
        /\ written < MaxEntries
        /\ written' = written + 1
        /\ audit' = InsertRow(audit, written', [user |-> u, time |-> t])
        /\ UNCHANGED reading

EntriesOf(u) == {i \in DOMAIN audit : audit[i].user = u}

\* ORDER BY timestamp DESC: rows of one time come in the order of insertion.
NewestFirst(u) ==
    StableSort(Kept([i \in 1..written |-> i], LAMBDA i : i \in EntriesOf(u)),
               LAMBDA i, j : audit[i].time > audit[j].time)

\* Variant: pages begin one entry late.
PageAtLate(u, offset) ==
    LET entries == NewestFirst(u)
        last == IF offset + PageLimit < Len(entries) THEN offset + PageLimit
                                                     ELSE Len(entries)
    IN  {entries[i] : i \in (offset + 2)..last}

PageAt(u, offset) ==
    LET entries == NewestFirst(u)
        last == IF offset + PageLimit < Len(entries) THEN offset + PageLimit
                                                     ELSE Len(entries)
    IN  {entries[i] : i \in (offset + 1)..last}

\* get_audit_log, called with offset 0 and then for page after page, to the end.
GetAuditLog ==
    \E u \in AuditUsers :
        LET at == IF reading = NotReading
                    THEN [user |-> u, offset |-> 0, seen |-> {}, from |-> EntriesOf(u)]
                    ELSE reading
        IN  /\ at.user = u
            /\ at.offset <= written
            /\ reading' = [at EXCEPT !.offset = @ + PageLimit,
                             !.seen = @ \cup PageAt(u, at.offset)]
            /\ UNCHANGED <<audit, written>>

StopReading ==
    /\ reading # NotReading
    /\ reading' = NotReading
    /\ UNCHANGED <<audit, written>>

PurgeAuditLog ==
    \E before \in AuditTimes :
        /\ audit' = KeepRows(audit, {i \in DOMAIN audit : audit[i].time >= before})
        /\ UNCHANGED <<written, reading>>

AuditNext ==
    \/ LogAudit \/ GetAuditLog \/ StopReading \/ PurgeAuditLog

AuditSpec == AuditInit /\ [][AuditNext]_auditVars

-----------------------------------------------------------------------------
\* Entries and the reader have their types.
AuditTypeOK ==
    /\ DOMAIN audit \subseteq 1..written
    /\ \A i \in DOMAIN audit :
          audit[i].user \in AuditUsers /\ audit[i].time \in AuditTimes
    /\ reading.seen \subseteq 1..written

\* Reading by offset misses nothing: an entry that was there at the first page
\* and is there still was seen, or lies on a page to come, whatever is written,
\* with whatever time, and purged between the pages.
PagesMissNothing ==
    reading # NotReading =>
        LET entries == NewestFirst(reading.user)
        IN  \A i \in DOMAIN entries :
               entries[i] \in reading.from \ reading.seen => i > reading.offset
=============================================================================
