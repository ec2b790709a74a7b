------------------------------ MODULE PleasanterDb ------------------------------
(***************************************************************************)
(* One Pleasanter site as the synchroniser sees it: the rows of the        *)
(* Results or Issues table, their Items rows and the _deleted table, with  *)
(* what each statement of PleasanterDbAccess and its SQL generators does   *)
(* to them.  No variables: an operator maps a site to the answer of a      *)
(* query or to the site after a transaction.                               *)
(*                                                                         *)
(* The columns are reduced to three.  "Key" is the sync key, "Val" stands  *)
(* for the other data columns and "Title" for Title and Body, which the    *)
(* statements name twice over: once as base columns and once more when     *)
(* they are among the synchronised ones.                                   *)
(***************************************************************************)
EXTENDS Naturals, FiniteSets

CONSTANTS
    Keys,       \* values of the sync key column
    Vals,       \* values of the data column
    Titles,     \* titles that users give
    UserIds,    \* Pleasanter users, the sync users among them
    Null        \* NULL, and `no record'

Columns == {"Key", "Val", "Title"}

Blank == "blank"   \* string.Empty

Row == [id : Nat \ {0}, key : Keys \cup {Null}, val : Vals \cup {Null},
        title : Titles \cup {Blank}, item : Titles \cup {Blank},
        updator : UserIds, time : Nat]

Site == [rows : SUBSET Row, deleted : SUBSET Row, nextId : Nat \ {0}]

EmptySite == [rows |-> {}, deleted |-> {}, nextId |-> 1]

\* The value a row has in a column.
ColumnValue(row, column) ==
    CASE column = "Key"   -> row.key
      [] column = "Val"   -> row.val
      [] column = "Title" -> row.title

-------------------------------------------------------------------------------
\* Queries.

\* Variant, to be rejected: without `Updator <> @SyncUserId'.
ChangedByAnyone(site, lastSyncTime, syncUser) == {r \in site.rows : r.time > lastSyncTime}

\* Rows changed after the last synchronisation by anyone but the sync user.
GetChangedRecords(site, lastSyncTime, syncUser) ==
    {r \in site.rows : r.time > lastSyncTime /\ r.updator # syncUser}

\* Rows of the _deleted table; their updator is not looked at.
GetDeletedRecords(site, lastSyncTime) ==
    {r \in site.deleted : r.time > lastSyncTime}

\* Variant, to be rejected: no row matches.
MatchingNone(site, key) == {}

\* The rows whose key equals the given one; `=' holds for no NULL.
MatchingRows(site, key) == {r \in site.rows : key # Null /\ r.key = key}

\* ReadBaseRecord: what a lookup keeps of a row, its ColumnValues stay empty.
BaseRecord(row) == [row EXCEPT !.key = Null, !.val = Null]

\* The first row of an answer that has no order.
FindRecordBySyncKey(site, key) ==
    IF MatchingRows(site, key) = {}
    THEN {Null}
    ELSE {BaseRecord(r) : r \in MatchingRows(site, key)}

-------------------------------------------------------------------------------
\* Statements and transactions.

\* A synchronised Title is named twice in the column list, or in the SET list,
\* and the server rejects the statement.
InsertAccepted(columns) == "Title" \notin columns

\* Without a single effective column the WHERE clause of the UPDATE ends in AND.
UpdateAccepted(columns) == columns # {} /\ "Title" \notin columns

\* The INSERT of a filtered record and of its Items row.
InsertRecord(site, record, syncUser, now) ==
    [site EXCEPT
        !.rows = @ \cup {[record EXCEPT !.id = site.nextId, !.item = record.title,
                                        !.updator = syncUser, !.time = now]},
        !.nextId = @ + 1]

\* The rows the UPDATE reaches: its WHERE clause asks every effective column, not
\* only the sync key, for the value that is about to be written.
UpdatedRows(site, record, columns) ==
    {r \in site.rows : \A c \in columns :
        ColumnValue(record, c) # Null /\ ColumnValue(r, c) = ColumnValue(record, c)}

\* The UPDATE of the row, by a filtered record, and the UPDATE of Items, whose
\* ReferenceId is the id the record has in the source.
UpdateRecord(site, record, columns, syncUser, now) ==
    LET Written(r) ==
            IF r \in UpdatedRows(site, record, columns)
            THEN [r EXCEPT !.key = IF "Key" \in columns THEN record.key ELSE @,
                           !.val = IF "Val" \in columns THEN record.val ELSE @,
                           !.title = record.title, !.updator = syncUser, !.time = now]
            ELSE r
        Renamed(r) == IF r.id = record.id THEN [r EXCEPT !.item = record.title] ELSE r
    IN  [site EXCEPT !.rows = {Renamed(Written(r)) : r \in site.rows}]

\* Copy to _deleted, delete the row and its Items row; nothing happens to a row
\* that is no longer there.
DeleteRecord(site, id) ==
    LET gone == {r \in site.rows : r.id = id}
    IN  [site EXCEPT !.rows = @ \ gone, !.deleted = @ \cup gone]

-------------------------------------------------------------------------------
\* What Pleasanter itself does for its users.  The synchroniser takes the
\* UpdatedTime of a _deleted row for the time of its deletion.

UserCreates(site, key, val, title, user, now) ==
    [site EXCEPT
        !.rows = @ \cup {[id |-> site.nextId, key |-> key, val |-> val, title |-> title,
                          item |-> title, updator |-> user, time |-> now]},
        !.nextId = @ + 1]

UserUpdates(site, row, val, title, user, now) ==
    [site EXCEPT
        !.rows = (@ \ {row}) \cup {[row EXCEPT !.val = val, !.title = title, !.item = title,
                                               !.updator = user, !.time = now]}]

UserDeletes(site, row, user, now) ==
    [site EXCEPT
        !.rows = @ \ {row},
        !.deleted = @ \cup {[row EXCEPT !.updator = user, !.time = now]}]
===============================================================================
