---------------------------- MODULE SyncEngineProofs ----------------------------
(***************************************************************************)
(* Lemmas about the statements that SyncEngine sends to a Pleasanter site, *)
(* and what holds of its state for any sites, definitions, users, bounds   *)
(* and faults, and for any caller: its types and the counters of its log.  *)
(* SyncOutcomeProofs goes on from there.                                   *)
(***************************************************************************)
EXTENDS SyncEngine, HistoryStoreProofs

-------------------------------------------------------------------------------
\* Rows.

\* A field of a row may take any value of its type.
LEMMA RowFields ==
    ASSUME NEW r \in Row
    PROVE  /\ \A k \in Keys \cup {Null} : [r EXCEPT !.key = k] \in Row
           /\ \A v \in Vals \cup {Null} : [r EXCEPT !.val = v] \in Row
           /\ \A t \in Titles \cup {Blank} :
                 [r EXCEPT !.title = t] \in Row /\ [r EXCEPT !.item = t] \in Row
           /\ \A u \in UserIds : [r EXCEPT !.updator = u] \in Row
           /\ \A n \in Nat : [r EXCEPT !.time = n] \in Row
           /\ \A i \in Nat \ {0} : [r EXCEPT !.id = i] \in Row
BY DEF Row

LEMMA RowParts ==
    ASSUME NEW r \in Row
    PROVE  /\ r.id \in Nat \ {0} /\ r.key \in Keys \cup {Null} /\ r.val \in Vals \cup {Null}
           /\ r.title \in Titles \cup {Blank} /\ r.item \in Titles \cup {Blank}
           /\ r.updator \in UserIds /\ r.time \in Nat
BY DEF Row

\* Filtering makes a row of a row.
LEMMA FilterTyped ==
    ASSUME NEW r \in Row, NEW columns
    PROVE  /\ FilterRecordColumns(r, columns) \in Row
           /\ FilterRecordColumns(r, columns).key = IF "Key" \in columns THEN r.key ELSE Null
<1> DEFINE With(k, v, t) == [r EXCEPT !.key = k, !.val = v, !.title = t]
<1>1. \A k \in Keys \cup {Null}, v \in Vals \cup {Null}, t \in Titles \cup {Blank} :
         With(k, v, t) \in Row /\ With(k, v, t).key = k
  BY DEF Row
<1>2. PICK key : key = IF "Key" \in columns THEN r.key ELSE Null
  OBVIOUS
<1>3. PICK val : val = IF "Val" \in columns THEN r.val ELSE Null
  OBVIOUS
<1>4. PICK title : title = IF "Title" \in columns THEN r.title ELSE Blank
  OBVIOUS
<1>5. key \in Keys \cup {Null} /\ val \in Vals \cup {Null} /\ title \in Titles \cup {Blank}
  BY <1>2, <1>3, <1>4, RowParts
<1>6. FilterRecordColumns(r, columns) = With(key, val, title)
  BY <1>2, <1>3, <1>4, Zenon DEF FilterRecordColumns
<1> HIDE DEF With
<1>7. With(key, val, title) \in Row /\ With(key, val, title).key = key
  BY <1>1, <1>5, Zenon
<1> QED BY <1>2, <1>6, <1>7, Zenon

LEMMA BaseTyped ==
    ASSUME NEW r \in Row
    PROVE  BaseRecord(r) \in Row
<1>1. \A k \in Keys \cup {Null}, v \in Vals \cup {Null} : [r EXCEPT !.key = k, !.val = v] \in Row
  BY DEF Row
<1> QED BY <1>1, Zenon DEF BaseRecord

\* What a lookup returns is a row without its values, or Null.
LEMMA FindTyped ==
    ASSUME NEW site \in Site, NEW key, NEW found \in FindRecordBySyncKey(site, key)
    PROVE  found \in Row \cup {Null}
<1>1. \A r \in Row : BaseRecord(r) \in Row
  BY BaseTyped
<1>2. MatchingRows(site, key) \subseteq Row
  BY DEF MatchingRows, Site
<1> QED BY <1>1, <1>2 DEF FindRecordBySyncKey

\* A lookup that returns Null found no row with the key.
LEMMA FindNull ==
    ASSUME NEW site \in Site, NEW key, Null \notin Row,
           Null \in FindRecordBySyncKey(site, key)
    PROVE  key = Null \/ \A r \in site.rows : r.key # key
<1>1. \A r \in Row : BaseRecord(r) \in Row
  BY BaseTyped
<1>2. MatchingRows(site, key) \subseteq Row
  BY DEF MatchingRows, Site
<1>3. MatchingRows(site, key) = {}
  BY <1>1, <1>2 DEF FindRecordBySyncKey
<1> QED BY <1>3 DEF MatchingRows

-------------------------------------------------------------------------------
\* Sites.

LEMMA SiteParts ==
    ASSUME NEW site \in Site
    PROVE  site.rows \in SUBSET Row /\ site.deleted \in SUBSET Row /\ site.nextId \in Nat \ {0}
BY DEF Site

\* A site with other tables.
WithRows(site, rows) == [site EXCEPT !.rows = rows]
WithTables(site, rows, deleted) == [site EXCEPT !.rows = rows, !.deleted = deleted]
WithNewRows(site, rows, id) == [site EXCEPT !.rows = rows, !.nextId = id]

LEMMA SiteWith ==
    ASSUME NEW site \in Site, NEW rows \in SUBSET Row
    PROVE  /\ WithRows(site, rows) \in Site /\ WithRows(site, rows).rows = rows
           /\ WithRows(site, rows).deleted = site.deleted
           /\ WithRows(site, rows).nextId = site.nextId
           /\ \A deleted \in SUBSET Row :
                 /\ WithTables(site, rows, deleted) \in Site
                 /\ WithTables(site, rows, deleted).rows = rows
                 /\ WithTables(site, rows, deleted).deleted = deleted
                 /\ WithTables(site, rows, deleted).nextId = site.nextId
BY DEF Site, WithRows, WithTables

LEMMA SiteWithNewRows ==
    ASSUME NEW site \in Site, NEW rows \in SUBSET Row, NEW id \in Nat \ {0}
    PROVE  /\ WithNewRows(site, rows, id) \in Site /\ WithNewRows(site, rows, id).rows = rows
           /\ WithNewRows(site, rows, id).deleted = site.deleted
           /\ WithNewRows(site, rows, id).nextId = id
BY DEF Site, WithNewRows

\* What a statement does to a site.  A row is inserted by u,
Inserted(site, after, key, u) ==
    /\ \E q \in Row : /\ q.key = key /\ q.id = site.nextId /\ q.updator = u
                      /\ after.rows = site.rows \cup {q}
    /\ after.deleted = site.deleted /\ after.nextId = site.nextId + 1

\* rows are changed in place by u: each keeps its id and its key,
Rewritten(site, after, u) ==
    /\ \E Image : /\ after.rows = {Image[q] : q \in site.rows}
                  /\ \A q \in site.rows : /\ Image[q].key = q.key /\ Image[q].id = q.id
                                          /\ Image[q].updator \in {q.updator, u}
    /\ after.deleted = site.deleted /\ after.nextId = site.nextId

\* the rows with an id move to the deleted ones,
Removed(site, after, id) ==
    /\ after.rows = {r \in site.rows : r.id # id}
    /\ after.deleted = site.deleted \cup {r \in site.rows : r.id = id}
    /\ after.nextId = site.nextId

\* a row is replaced by one with its id and its key,
Replaced(site, after, r) ==
    /\ \E q \in Row : /\ q.key = r.key /\ q.id = r.id
                      /\ after.rows = (site.rows \ {r}) \cup {q}
    /\ after.deleted = site.deleted /\ after.nextId = site.nextId

\* or moves to the deleted ones with its key.
Buried(site, after, r) ==
    /\ after.rows = site.rows \ {r}
    /\ \E q \in Row : q.key = r.key /\ after.deleted = site.deleted \cup {q}
    /\ after.nextId = site.nextId

\* The inserted row has the key of the record, the next id and the sync user.
LEMMA InsertTyped ==
    ASSUME NEW site \in Site, NEW r \in Row, NEW u \in UserIds, NEW now \in Nat
    PROVE  /\ InsertRecord(site, r, u, now) \in Site
           /\ Inserted(site, InsertRecord(site, r, u, now), r.key, u)
<1> DEFINE With(i, t) == [r EXCEPT !.id = i, !.item = t, !.updator = u, !.time = now]
           q == With(site.nextId, r.title)
<1>1. \A i \in Nat \ {0}, t \in Titles \cup {Blank} :
         With(i, t) \in Row /\ With(i, t).key = r.key /\ With(i, t).id = i /\ With(i, t).updator = u
  BY DEF Row
<1>2. InsertRecord(site, r, u, now) = WithNewRows(site, site.rows \cup {q}, site.nextId + 1)
  BY Zenon DEF InsertRecord, WithNewRows
<1> HIDE DEF With
<1>3. q \in Row /\ q.key = r.key /\ q.id = site.nextId /\ q.updator = u
  BY <1>1, SiteParts, RowParts, Zenon
<1> HIDE DEF q
<1>4. PICK rows \in SUBSET Row : rows = site.rows \cup {q}
  BY <1>3, SiteParts
<1>5. PICK id \in Nat \ {0} : id = site.nextId + 1
  BY SiteParts
<1>6. /\ WithNewRows(site, rows, id) \in Site /\ WithNewRows(site, rows, id).rows = rows
      /\ WithNewRows(site, rows, id).deleted = site.deleted
      /\ WithNewRows(site, rows, id).nextId = id
  BY SiteWithNewRows
<1> QED BY <1>2, <1>3, <1>4, <1>5, <1>6, Zenon DEF Inserted

\* The update changes rows in place: when the key column is written, the key it
\* writes is the key the row has.
LEMMA UpdateTyped ==
    ASSUME NEW site \in Site, NEW r \in Row, NEW columns, NEW u \in UserIds, NEW now \in Nat
    PROVE  /\ UpdateRecord(site, r, columns, u, now) \in Site
           /\ Rewritten(site, UpdateRecord(site, r, columns, u, now), u)
<1> DEFINE Written(q) ==
               IF q \in UpdatedRows(site, r, columns)
               THEN [q EXCEPT !.key = IF "Key" \in columns THEN r.key ELSE @,
                              !.val = IF "Val" \in columns THEN r.val ELSE @,
                              !.title = r.title, !.updator = u, !.time = now]
               ELSE q
           Renamed(q) == IF q.id = r.id THEN [q EXCEPT !.item = r.title] ELSE q
           Image == [q \in site.rows |-> Renamed(Written(q))]
<1>1. ASSUME NEW q \in site.rows
      PROVE  Written(q) \in Row /\ Written(q).key = q.key /\ Written(q).id = q.id
             /\ Written(q).updator \in {q.updator, u}
  <2>1. q \in Row
    BY SiteParts
  <2> DEFINE With(k, v, t) ==
                 [q EXCEPT !.key = k, !.val = v, !.title = t, !.updator = u, !.time = now]
  <2>2. \A k \in Keys \cup {Null}, v \in Vals \cup {Null}, t \in Titles \cup {Blank} :
           /\ With(k, v, t) \in Row /\ With(k, v, t).key = k
           /\ With(k, v, t).id = q.id /\ With(k, v, t).updator = u
    BY <2>1 DEF Row
  <2>3. PICK key : key = IF "Key" \in columns THEN r.key ELSE q.key
    OBVIOUS
  <2>4. PICK val : val = IF "Val" \in columns THEN r.val ELSE q.val
    OBVIOUS
  <2>5. /\ key \in Keys \cup {Null} /\ val \in Vals \cup {Null}
        /\ r.title \in Titles \cup {Blank}
    BY <2>1, <2>3, <2>4, RowParts
  <2>6. CASE q \in UpdatedRows(site, r, columns)
    <3>1. key = q.key
      BY <2>3, <2>6 DEF UpdatedRows, ColumnValue
    <3>2. Written(q) = With(key, val, r.title)
      BY <2>3, <2>4, <2>6, Zenon
    <3> HIDE DEF Written, With
    <3>3. /\ With(key, val, r.title) \in Row /\ With(key, val, r.title).key = key
          /\ With(key, val, r.title).id = q.id /\ With(key, val, r.title).updator = u
      BY <2>2, <2>5, Zenon
    <3> QED BY <3>1, <3>2, <3>3, Zenon
  <2> QED BY <2>1, <2>6
<1> HIDE DEF Written
<1>2. ASSUME NEW q \in Row
      PROVE  Renamed(q) \in Row /\ Renamed(q).key = q.key /\ Renamed(q).id = q.id
             /\ Renamed(q).updator = q.updator
  <2>1. \A t \in Titles \cup {Blank} :
           /\ [q EXCEPT !.item = t] \in Row /\ [q EXCEPT !.item = t].key = q.key
           /\ [q EXCEPT !.item = t].id = q.id /\ [q EXCEPT !.item = t].updator = q.updator
    BY DEF Row
  <2> QED BY <2>1, RowParts
<1> HIDE DEF Renamed
<1>3. /\ Image \in [site.rows -> Row]
      /\ \A q \in site.rows : /\ Image[q].key = q.key /\ Image[q].id = q.id
                               /\ Image[q].updator \in {q.updator, u}
  BY <1>1, <1>2
<1>4. UpdateRecord(site, r, columns, u, now)
         = WithRows(site, {Renamed(Written(q)) : q \in site.rows})
  BY Zenon DEF UpdateRecord, Renamed, Written, WithRows
<1>5. {Renamed(Written(q)) : q \in site.rows} = {Image[q] : q \in site.rows}
  OBVIOUS
<1>6. PICK rows \in SUBSET Row : rows = {Image[q] : q \in site.rows}
  BY <1>3
<1> HIDE DEF Image
<1>7. /\ UpdateRecord(site, r, columns, u, now) \in Site
      /\ UpdateRecord(site, r, columns, u, now).rows = {Image[q] : q \in site.rows}
      /\ UpdateRecord(site, r, columns, u, now).deleted = site.deleted
      /\ UpdateRecord(site, r, columns, u, now).nextId = site.nextId
  <2>1. /\ WithRows(site, rows) \in Site /\ WithRows(site, rows).rows = rows
        /\ WithRows(site, rows).deleted = site.deleted
        /\ WithRows(site, rows).nextId = site.nextId
    BY SiteWith
  <2> QED BY <1>4, <1>5, <1>6, <2>1, Zenon
<1> QED BY <1>3, <1>7, Zenon DEF Rewritten

\* A deletion moves the rows with the id to the deleted ones.
LEMMA DeleteTyped ==
    ASSUME NEW site \in Site, NEW id
    PROVE  /\ DeleteRecord(site, id) \in Site
           /\ Removed(site, DeleteRecord(site, id), id)
<1> DEFINE gone == {r \in site.rows : r.id = id}
<1>1. DeleteRecord(site, id) = WithTables(site, site.rows \ gone, site.deleted \cup gone)
  BY Zenon DEF DeleteRecord, WithTables
<1>2. PICK rows \in SUBSET Row : rows = site.rows \ gone
  BY SiteParts
<1>3. PICK deleted \in SUBSET Row : deleted = site.deleted \cup gone
  BY SiteParts
<1>4. /\ WithTables(site, rows, deleted) \in Site /\ WithTables(site, rows, deleted).rows = rows
      /\ WithTables(site, rows, deleted).deleted = deleted
      /\ WithTables(site, rows, deleted).nextId = site.nextId
  BY SiteWith
<1>5. rows = {r \in site.rows : r.id # id}
  BY <1>2
<1> HIDE DEF gone
<1> QED BY <1>1, <1>2, <1>3, <1>4, <1>5, Zenon DEF gone, Removed

-------------------------------------------------------------------------------
\* Users.

LEMMA UserCreatesTyped ==
    ASSUME NEW site \in Site, NEW k \in Keys, NEW v \in Vals, NEW t \in Titles,
           NEW u \in UserIds, NEW now \in Nat
    PROVE  /\ UserCreates(site, k, v, t, u, now) \in Site
           /\ Inserted(site, UserCreates(site, k, v, t, u, now), k, u)
<1> DEFINE q == [id |-> site.nextId, key |-> k, val |-> v, title |-> t,
                 item |-> t, updator |-> u, time |-> now]
<1>0. site.nextId \in Nat \ {0}
  BY SiteParts
<1>1. /\ q \in Row /\ site.nextId + 1 \in Nat \ {0} /\ q.key = k /\ q.id = site.nextId
      /\ q.updator = u
  BY <1>0 DEF Row
<1>2. UserCreates(site, k, v, t, u, now)
         = WithNewRows(site, site.rows \cup {q}, site.nextId + 1)
  BY Zenon DEF UserCreates, WithNewRows
<1> HIDE DEF q
<1>3. PICK rows \in SUBSET Row : rows = site.rows \cup {q}
  BY <1>1, SiteParts
<1>4. PICK id \in Nat \ {0} : id = site.nextId + 1
  BY <1>1
<1>5. /\ WithNewRows(site, rows, id) \in Site /\ WithNewRows(site, rows, id).rows = rows
      /\ WithNewRows(site, rows, id).deleted = site.deleted
      /\ WithNewRows(site, rows, id).nextId = id
  BY SiteWithNewRows
<1> QED BY <1>1, <1>2, <1>3, <1>4, <1>5, Zenon DEF Inserted

\* A user's change of a row leaves its sync key and its id.
LEMMA UserUpdatesTyped ==
    ASSUME NEW site \in Site, NEW r \in site.rows, NEW v \in Vals, NEW t \in Titles,
           NEW u \in UserIds, NEW now \in Nat
    PROVE  /\ UserUpdates(site, r, v, t, u, now) \in Site
           /\ Replaced(site, UserUpdates(site, r, v, t, u, now), r)
<1> DEFINE q == [r EXCEPT !.val = v, !.title = t, !.item = t, !.updator = u, !.time = now]
<1>1. r \in Row
  BY SiteParts
<1>2. q \in Row /\ q.key = r.key /\ q.id = r.id
  BY <1>1 DEF Row
<1>3. UserUpdates(site, r, v, t, u, now) = WithRows(site, (site.rows \ {r}) \cup {q})
  BY Zenon DEF UserUpdates, WithRows
<1> HIDE DEF q
<1>4. PICK rows \in SUBSET Row : rows = (site.rows \ {r}) \cup {q}
  BY <1>2, SiteParts
<1>5. /\ WithRows(site, rows) \in Site /\ WithRows(site, rows).rows = rows
      /\ WithRows(site, rows).deleted = site.deleted
      /\ WithRows(site, rows).nextId = site.nextId
  BY SiteWith
<1> QED BY <1>2, <1>3, <1>4, <1>5, Zenon DEF Replaced

\* What a user deletes is found among the deleted rows, with its sync key.
LEMMA UserDeletesTyped ==
    ASSUME NEW site \in Site, NEW r \in site.rows, NEW u \in UserIds, NEW now \in Nat
    PROVE  /\ UserDeletes(site, r, u, now) \in Site
           /\ Buried(site, UserDeletes(site, r, u, now), r)
<1> DEFINE q == [r EXCEPT !.updator = u, !.time = now]
<1>1. q \in Row /\ q.key = r.key
  BY SiteParts DEF Row
<1>2. UserDeletes(site, r, u, now) = WithTables(site, site.rows \ {r}, site.deleted \cup {q})
  BY Zenon DEF UserDeletes, WithTables
<1> HIDE DEF q
<1>3. PICK rows \in SUBSET Row : rows = site.rows \ {r}
  BY SiteParts
<1>4. PICK deleted \in SUBSET Row : deleted = site.deleted \cup {q}
  BY <1>1, SiteParts
<1>5. /\ WithTables(site, rows, deleted) \in Site /\ WithTables(site, rows, deleted).rows = rows
      /\ WithTables(site, rows, deleted).deleted = deleted
      /\ WithTables(site, rows, deleted).nextId = site.nextId
  BY SiteWith
<1> QED BY <1>1, <1>2, <1>3, <1>4, <1>5, Zenon DEF Buried

-------------------------------------------------------------------------------
\* The two lookups, by the record they take up and the row they find.

FindsTarget(r, found) ==
    LET conflict == found # Null /\ ShouldSkipDueToConflict(r, found)
        counted  == IF conflict THEN [log EXCEPT !.conflicts = @ + 1] ELSE log
    IN  IF conflict /\ Definition.strategy = "ManualResolution"
        THEN NextRecord("record", counted)
        ELSE log' = counted /\ record' = r /\ existing' = found /\ pc' = AfterFind(found)

FindsDeleted(r, found) ==
    IF found = Null
    THEN NextRecord("deletion", log)
    ELSE /\ record' = r
         /\ existing' = found
         /\ pc' = IF Definition.history THEN "captureDelete" ELSE "delete"
         /\ UNCHANGED log

\* A lookup gives the record up or finds a row, or none.
LEMMA FindTargetCases ==
    ASSUME FindTarget
    PROVE  \E r \in todo :
              /\ todo' = todo \ {r}
              /\ \/ GiveUp("record")
                 \/ \E found \in FindRecordBySyncKey(sites[Target], r.key) : FindsTarget(r, found)
BY Zenon DEF FindTarget, FindsTarget, Earliest

LEMMA FindDeletedCases ==
    ASSUME FindDeleted
    PROVE  \E r \in todo :
              /\ todo' = todo \ {r}
              /\ \/ GiveUp("deletion")
                 \/ \E found \in FindRecordBySyncKey(sites[Target], r.key) : FindsDeleted(r, found)
BY Zenon DEF FindDeleted, FindsDeleted, Earliest

-------------------------------------------------------------------------------
\* The counters of the log entry.
LogInv == log \in LogEntry /\ LogAdds

\* A record is given up: the counters stay, the status becomes Failed.
LEMMA GiveUpKeepsLog ==
    ASSUME LogInv, NEW loop, loop # "retain", GiveUp(loop)
    PROVE  LogInv'
<1>1. log' = [log EXCEPT !.status = "Failed"] /\ pc' # "retain"
  BY DEF GiveUp, NextRecord
<1> QED BY <1>1 DEF LogInv, LogAdds, LogEntry

\* A synchronisation is given up: the same.
LEMMA AbortKeepsLog ==
    ASSUME LogInv, Abort
    PROVE  LogInv'
<1>1. log' = [log EXCEPT !.status = "Failed"] /\ pc' # "retain"
  BY DEF Abort
<1> QED BY <1>1 DEF LogInv, LogAdds, LogEntry

\* A new entry agrees with itself.
LEMMA NewEntryAdds ==
    ASSUME log' = NewLogEntry, pc' # "retain"
    PROVE  LogInv'
BY DEF LogInv, LogAdds, LogEntry, NewLogEntry

\* A step outside the retention that leaves the entry alone keeps it.
LEMMA SameLog ==
    ASSUME LogInv, UNCHANGED log, pc # "retain", pc' # "retain"
    PROVE  LogInv'
BY DEF LogInv, LogAdds

\* A row inserted or deleted is counted once, and as processed.
LEMMA CountsOne ==
    ASSUME NEW e \in LogEntry,
           NEW f \in {[e EXCEPT !.inserted = @ + 1, !.processed = @ + 1],
                      [e EXCEPT !.deleted = @ + 1, !.processed = @ + 1]}
    PROVE  /\ f \in LogEntry /\ f.status = e.status
           /\ f.processed = e.processed + 1
           /\ f.inserted + f.updated + f.deleted = e.inserted + e.updated + e.deleted + 1
<1>1. \A n, p \in Nat : /\ [e EXCEPT !.inserted = n, !.processed = p] \in LogEntry
                        /\ [e EXCEPT !.deleted = n, !.processed = p] \in LogEntry
  BY DEF LogEntry
<1>2. /\ e.inserted \in Nat /\ e.updated \in Nat /\ e.deleted \in Nat
      /\ e.inserted + 1 \in Nat /\ e.deleted + 1 \in Nat /\ e.processed + 1 \in Nat
  BY DEF LogEntry
<1>3. f \in LogEntry
  BY <1>1, <1>2, Zenon
<1>4. /\ f.status = e.status /\ f.updated = e.updated /\ f.processed = e.processed + 1
      /\ \/ f.inserted = e.inserted + 1 /\ f.deleted = e.deleted
         \/ f.inserted = e.inserted /\ f.deleted = e.deleted + 1
  BY DEF LogEntry
<1> QED BY <1>2, <1>3, <1>4

LEMMA StepLogInv == LogInv /\ [Next]_vars => LogInv'
<1> SUFFICES ASSUME LogInv, [Next]_vars PROVE LogInv'
  OBVIOUS
<1> USE GiveUpKeepsLog, AbortKeepsLog, NewEntryAdds, SameLog
<1>1. CASE NewScope
  BY <1>1 DEF NewScope
<1>2. ASSUME NEW d \in Definitions, ExecuteSync(d) PROVE LogInv'
  BY <1>2 DEF ExecuteSync
<1>3. CASE GetReferenceType
  BY <1>3 DEF GetReferenceType
<1>4. CASE FetchChanges
  BY <1>4 DEF FetchChanges
<1>5. CASE EnterMapping
  BY <1>5 DEF EnterMapping
<1>6. CASE LeaveMappings
  BY <1>6 DEF LeaveMappings
<1>7. CASE StopInLoop
  BY <1>7 DEF StopInLoop
<1>8. CASE FindTarget
  <2>1. CASE GiveUp("record")
    BY <2>1
  <2>2. ASSUME NEW r, NEW found, FindsTarget(r, found) PROVE LogInv'
    <3>1. log' \in {log, [log EXCEPT !.conflicts = @ + 1]} /\ pc = "record" /\ pc' # "retain"
      BY <1>8, <2>2 DEF FindTarget, FindsTarget, NextRecord, AfterFind
    <3> QED BY <3>1 DEF LogInv, LogAdds, LogEntry
  <2> QED BY <1>8, <2>1, <2>2, FindTargetCases, Zenon
<1>9. CASE CaptureSnapshot
  BY <1>9 DEF CaptureSnapshot, Capture
<1>10. CASE UpsertRecord
  <2>1. CASE NextRecord("record", [log EXCEPT !.inserted = @ + 1, !.processed = @ + 1])
    <3>1. /\ pc # "retain" /\ pc' # "retain"
          /\ log' = [log EXCEPT !.inserted = @ + 1, !.processed = @ + 1]
      BY <1>10, <2>1 DEF UpsertRecord, NextRecord
    <3>2. /\ log' \in LogEntry /\ log'.status = log.status
          /\ log'.processed = log.processed + 1
          /\ log'.inserted + log'.updated + log'.deleted
                = log.inserted + log.updated + log.deleted + 1
      BY <3>1, CountsOne DEF LogInv
    <3> QED BY ONLY LogInv, <3>1, <3>2 DEF LogInv, LogAdds, LogEntry
  <2>2. CASE log' = [log EXCEPT !.updated = @ + 1] /\ pc' = "retain"
    BY <1>10, <2>2 DEF UpsertRecord, LogInv, LogAdds, LogEntry
  <2> QED BY <1>10, <2>1, <2>2 DEF UpsertRecord
<1>11. CASE ApplyRetentionForRecord
  <2>1. CASE NextRecord("record", [log EXCEPT !.processed = @ + 1])
    BY <1>11, <2>1 DEF ApplyRetentionForRecord, NextRecord, LogInv, LogAdds, LogEntry
  <2> QED BY <1>11, <2>1 DEF ApplyRetentionForRecord
<1>12. CASE LeaveRecords
  BY <1>12 DEF LeaveRecords
<1>13. CASE FetchDeletions
  BY <1>13 DEF FetchDeletions
<1>14. CASE FindDeleted
  <2>1. CASE GiveUp("deletion")
    BY <2>1
  <2>2. ASSUME NEW r, NEW found, FindsDeleted(r, found) PROVE LogInv'
    <3>1. log' = log /\ pc = "deletion" /\ pc' # "retain"
      BY <1>14, <2>2 DEF FindDeleted, FindsDeleted, NextRecord
    <3> QED BY <3>1
  <2> QED BY <1>14, <2>1, <2>2, FindDeletedCases, Zenon
<1>15. CASE CaptureDeleteSnapshot
  BY <1>15 DEF CaptureDeleteSnapshot, Capture
<1>16. CASE DeleteTarget
  <2>1. CASE NextRecord("deletion", [log EXCEPT !.deleted = @ + 1, !.processed = @ + 1])
    <3>1. /\ pc # "retain" /\ pc' # "retain"
          /\ log' = [log EXCEPT !.deleted = @ + 1, !.processed = @ + 1]
      BY <1>16, <2>1 DEF DeleteTarget, NextRecord
    <3>2. /\ log' \in LogEntry /\ log'.status = log.status
          /\ log'.processed = log.processed + 1
          /\ log'.inserted + log'.updated + log'.deleted
                = log.inserted + log.updated + log.deleted + 1
      BY <3>1, CountsOne DEF LogInv
    <3> QED BY ONLY LogInv, <3>1, <3>2 DEF LogInv, LogAdds, LogEntry
  <2> QED BY <1>16, <2>1 DEF DeleteTarget
<1>17. CASE LeaveDeletions
  BY <1>17 DEF LeaveDeletions
<1>18. CASE Cleanup
  BY <1>18 DEF Cleanup
<1>19. CASE LogWritten
  BY <1>19 DEF LogWritten, Return
<1>20. CASE LogLost
  BY <1>20 DEF LogLost, Return
<1>21. CASE Crash
  BY <1>21 DEF Crash, Return
<1>22. CASE UNCHANGED <<pc, log>>
  BY <1>22 DEF LogInv, LogAdds
<1>23. CASE UserStep
  BY <1>22, <1>23 DEF UserStep, UserCreatesRow, UserUpdatesRow, UserDeletesRow, EditSite, engineVars
<1>24. CASE Tick \/ Stop \/ Restart \/ UNCHANGED vars
  BY <1>22, <1>24 DEF Tick, Stop, Restart, vars, engineVars
<1> QED BY <1>1, <1>2, <1>3, <1>4, <1>5, <1>6, <1>7, <1>8, <1>9, <1>10, <1>11, <1>12, <1>13,
           <1>14, <1>15, <1>16, <1>17, <1>18, <1>19, <1>20, <1>21, <1>23, <1>24
        DEF Next, EngineStep, Environment

\* The counters of a log entry agree at every step, whatever fails and whenever:
\* what was processed is what was inserted, updated or deleted, and an update
\* whose retention failed shows in the status.
THEOREM CountersAgree == Spec => []LogAdds
<1>1. Init => LogInv
  BY DEF Init, LogInv, LogAdds, LogEntry, NewLogEntry
<1>2. LogInv => LogAdds
  BY DEF LogInv
<1> QED BY <1>1, <1>2, StepLogInv, PTL DEF Spec

-------------------------------------------------------------------------------
\* The version history and the context.  The next number is a number because the
\* numbers given so far, committed or tracked, have a bound.
Context == [added : Seq(Snapshot), deleted : SUBSET Snapshot]

StoreOK(h, t) ==
    /\ h \in SUBSET Snapshot
    /\ t \in Context
    /\ \E b \in Nat : \A e \in h \cup AddedEntries(t) : e.ver <= b

LEMMA AddedTyped ==
    ASSUME NEW t \in Context
    PROVE  AddedEntries(t) \in SUBSET Snapshot
<1>1. t.added \in Seq(Snapshot)
  BY DEF Context
<1> QED BY <1>1 DEF AddedEntries

LEMMA EmptyContext == EmptyTracker \in Context /\ AddedEntries(EmptyTracker) = {}
BY DEF EmptyTracker, Context, AddedEntries

\* A context is emptied, or saved, with or without an answer.
LEMMA StoreEmptied ==
    ASSUME NEW h, NEW t, StoreOK(h, t)
    PROVE  /\ StoreOK(h, EmptyTracker)
           /\ StoreOK(Saved(h, t), EmptyTracker)
           /\ StoreOK(Saved(h, t), t)
<1>1. Saved(h, t) \subseteq h \cup AddedEntries(t)
  BY DEF Saved
<1> QED BY <1>1, EmptyContext, AddedTyped DEF StoreOK

\* Entries are marked as deleted.
LEMMA StoreDeletes ==
    ASSUME NEW h, NEW t, StoreOK(h, t), NEW d \in SUBSET h
    PROVE  StoreOK(h, TrackDeleted(t, d))
<1>1. t \in Context /\ d \in SUBSET Snapshot
  BY DEF StoreOK
<1>2. \A deleted \in SUBSET Snapshot :
         /\ [t EXCEPT !.deleted = deleted] \in Context
         /\ [t EXCEPT !.deleted = deleted].added = t.added
  BY <1>1 DEF Context
<1>3. t.deleted \cup d \in SUBSET Snapshot
  BY <1>1 DEF Context
<1>4. TrackDeleted(t, d) \in Context /\ TrackDeleted(t, d).added = t.added
  BY <1>2, <1>3 DEF TrackDeleted
<1>5. AddedEntries(TrackDeleted(t, d)) = AddedEntries(t)
  BY <1>4 DEF AddedEntries
<1> QED BY <1>4, <1>5 DEF StoreOK

\* A snapshot is added.
LEMMA StoreAdds ==
    ASSUME NEW h, NEW t, StoreOK(h, t), NEW e \in Snapshot
    PROVE  StoreOK(h, TrackAdded(t, e))
<1>1. PICK b \in Nat : \A f \in h \cup AddedEntries(t) : f.ver <= b
  BY DEF StoreOK
<1>2. t \in Context /\ h \in SUBSET Snapshot
  BY DEF StoreOK
<1>3. /\ TrackAdded(t, e) \in Context
      /\ AddedEntries(TrackAdded(t, e)) \subseteq AddedEntries(t) \cup {e}
  BY <1>2, AddedByTracking DEF Context
<1>4. \A f \in Snapshot : f.ver \in Nat
  BY DEF Snapshot
<1>5. \A f \in h \cup AddedEntries(TrackAdded(t, e)) : f.ver <= b + e.ver
  BY <1>1, <1>2, <1>3, <1>4, AddedTyped
<1>6. b + e.ver \in Nat
  BY <1>4
<1> QED BY <1>2, <1>3, <1>5, <1>6 DEF StoreOK

LEMMA StoreNumbers ==
    ASSUME NEW h, NEW t, StoreOK(h, t), NEW rec
    PROVE  NextVersion(h, rec) \in Nat \ {0}
<1>1. PICK b \in Nat : \A f \in h \cup AddedEntries(t) : f.ver <= b
  BY DEF StoreOK
<1>2. \A f \in h : f.ver \in Nat /\ f.ver <= b
  BY <1>1 DEF StoreOK, Snapshot
<1> QED BY <1>2, NextVersionIsAbove

\* Whatever a SaveChanges of a good context does, the store is good.
LEMMA StoreSaves ==
    ASSUME NEW t, StoreOK(history, t), Saves(t) \/ SaveThrows(t)
    PROVE  StoreOK(history', tracker')
BY StoreEmptied DEF Saves, SaveThrows

-------------------------------------------------------------------------------
\* Type correctness, in the parts that different actions disturb.
WorldOK ==
    /\ sites \in [Sites -> Site]
    /\ clock \in 0 .. MaxTime
    /\ cancelled \in BOOLEAN
    /\ edits \in 0 .. MaxEdits /\ faults \in 0 .. MaxFaults /\ syncs \in 0 .. MaxSyncs

LocalOK ==
    /\ logs \in Seq(LogEntry)
    /\ lastSyncTimes \in [Definitions -> Int \cup {Null}]
    /\ pc \in Steps
    /\ def \in Definitions \cup {Null}
    /\ lastSyncTime \in Int
    /\ mappings \in Seq(Mapping)
    /\ changed \in SUBSET Row /\ todo \in SUBSET Row
    /\ record \in Row \cup {Null} /\ existing \in Row \cup {Null}

\* Where the engine is tells which of its locals are set.
Control ==
    /\ pc # "idle" => def \in Definitions
    /\ pc \in {"record", "capture", "upsert", "retain", "deletions", "deletion",
               "captureDelete", "delete"} => mappings # << >>
    /\ pc \in {"capture", "upsert", "retain"} => record \in Row
    /\ pc \in {"capture", "retain", "captureDelete", "delete"} => existing \in Row

TypeInv == WorldOK /\ LocalOK /\ Control /\ StoreOK(history, tracker) /\ LogInv

LEMMA TypeInvImplies == TypeInv => TypeOK
BY DEF TypeInv, WorldOK, LocalOK, StoreOK, Context, LogInv, TypeOK

LEMMA ConfigParts ==
    ASSUME NEW d \in Definitions
    PROVE  /\ Config[d].source \in Sites /\ Config[d].mappings \in Seq(Mapping)
           /\ Config[d].syncUser \in UserIds
           /\ Config[d].interval \in Nat \ {0}
           /\ Config[d].maxVersions \in Nat \cup {Null} /\ Config[d].maxAge \in Nat \cup {Null}
BY ConfigAssumption DEF ConfigAssumption

LEMMA TargetTyped ==
    ASSUME mappings \in Seq(Mapping), mappings # << >>
    PROVE  Target \in Sites /\ Tail(mappings) \in Seq(Mapping)
<1>1. Head(mappings) \in Mapping /\ Tail(mappings) \in Seq(Mapping)
  BY HeadTailProperties
<1> QED BY <1>1 DEF Target, Mapping

LEMMA BoundsTyped ==
    /\ MaxTime \in Nat /\ MaxEdits \in Nat /\ MaxFaults \in Nat /\ MaxSyncs \in Nat
    /\ User \in UserIds
BY ConfigAssumption, Zenon DEF ConfigAssumption

LEMMA InitTypeInv == Init => TypeInv
<1> SUFFICES ASSUME Init PROVE TypeInv
  OBVIOUS
<1>1. EmptySite \in Site
  BY DEF EmptySite, Site
<1>2. WorldOK
  <2>1. sites = [s \in Sites |-> EmptySite] /\ cancelled = FALSE
        /\ clock = 0 /\ edits = 0 /\ faults = 0 /\ syncs = 0
    BY DEF Init
  <2>2. sites \in [Sites -> Site]
    BY <1>1, <2>1
  <2>3. 0 \in 0 .. MaxTime /\ 0 \in 0 .. MaxEdits /\ 0 \in 0 .. MaxFaults /\ 0 \in 0 .. MaxSyncs
    BY BoundsTyped
  <2> QED BY <2>1, <2>2, <2>3 DEF WorldOK
<1>3. LocalOK /\ Control
  BY DEF Init, LocalOK, Control, Steps
<1>4. StoreOK(history, tracker)
  BY EmptyContext DEF Init, StoreOK
<1>5. LogInv
  BY DEF Init, LogInv, LogAdds, LogEntry, NewLogEntry
<1> QED BY <1>2, <1>3, <1>4, <1>5 DEF TypeInv

\* The store is touched by the captures, the retention, the log and the end of a
\* scope.
LEMMA StepStore ==
    ASSUME TypeInv, [Next]_vars
    PROVE  StoreOK(history', tracker')
<1>1. StoreOK(history, tracker) /\ Control /\ WorldOK /\ LocalOK
  BY DEF TypeInv
<1>2. CASE UNCHANGED <<history, tracker>>
  BY <1>1, <1>2
<1>3. CASE DropScope /\ UNCHANGED history
  BY <1>1, <1>3, StoreEmptied DEF DropScope
<1>4. ASSUME NEW isDelete \in BOOLEAN, NEW next, NEW loop,
             def \in Definitions, mappings # << >>, existing \in Row,
             Capture(isDelete, next, loop)
      PROVE  StoreOK(history', tracker')
  <2>1. Target \in Sites
    BY <1>1, <1>4, TargetTyped DEF LocalOK
  <2>2. /\ existing.id \in Nat \ {0} /\ existing.title \in Titles \cup {Blank}
        /\ existing.val \in Vals \cup {Null} /\ existing.updator \in UserIds
        /\ existing.time \in Nat
    BY <1>4, RowParts
  <2>3. NextVersion(history, <<def, Target, existing.id>>) \in Nat \ {0}
    BY <1>1, StoreNumbers
  <2>4. clock \in Nat
    BY <1>1, BoundsTyped DEF WorldOK
  <2>5. SnapshotOf(existing, isDelete) \in Snapshot
    BY <1>4, <2>1, <2>2, <2>3, <2>4 DEF SnapshotOf, Snapshot
  <2>6. StoreOK(history, TrackAdded(tracker, SnapshotOf(existing, isDelete)))
    BY <1>1, <2>5, StoreAdds
  <2> QED BY <1>2, <1>4, <2>6, StoreSaves DEF Capture, store
<1>5. CASE CaptureSnapshot
  BY <1>1, <1>4, <1>5 DEF CaptureSnapshot, Control
<1>6. CASE CaptureDeleteSnapshot
  BY <1>1, <1>4, <1>6 DEF CaptureDeleteSnapshot, Control
<1>7. ASSUME NEW d \in SUBSET history,
             Saves(TrackDeleted(tracker, d)) \/ SaveThrows(TrackDeleted(tracker, d))
      PROVE  StoreOK(history', tracker')
  BY <1>1, <1>7, StoreDeletes, StoreSaves
<1>8. CASE ApplyRetentionForRecord
  <2>1. Excess(history, <<def, Target, existing.id>>, Definition.maxVersions) \in SUBSET history
    BY DEF Excess, HistoryOf
  <2> QED BY <1>2, <1>7, <1>8, <2>1 DEF ApplyRetentionForRecord, store
<1>9. CASE Cleanup
  <2>1. OlderThan({h \in history : h.rec[1] = def}, clock - Definition.maxAge) \in SUBSET history
    BY DEF OlderThan
  <2> QED BY <1>2, <1>7, <1>9, <2>1 DEF Cleanup, store
<1>10. CASE LogWritten
  BY <1>1, <1>10, StoreSaves DEF LogWritten
<1>11. CASE NewScope \/ LogLost \/ Restart \/ Crash
  BY <1>3, <1>11 DEF NewScope, LogLost, Restart, Crash
<1>12. ASSUME NEW d \in Definitions, ExecuteSync(d) PROVE StoreOK(history', tracker')
  BY <1>2, <1>12 DEF ExecuteSync, store
<1>13. CASE GetReferenceType \/ FetchChanges \/ EnterMapping \/ LeaveMappings \/ StopInLoop
  BY <1>2, <1>13 DEF GetReferenceType, FetchChanges, EnterMapping, LeaveMappings, StopInLoop, store
<1>14. CASE FindTarget \/ UpsertRecord \/ LeaveRecords \/ FetchDeletions
  BY <1>2, <1>14 DEF FindTarget, UpsertRecord, LeaveRecords, FetchDeletions, store
<1>15. CASE FindDeleted \/ DeleteTarget \/ LeaveDeletions
  BY <1>2, <1>15 DEF FindDeleted, DeleteTarget, LeaveDeletions, store
<1>16. CASE UserStep
  BY <1>2, <1>16 DEF UserStep, UserCreatesRow, UserUpdatesRow, UserDeletesRow, EditSite,
                     engineVars, store
<1>17. CASE Tick \/ Stop \/ UNCHANGED vars
  BY <1>2, <1>17 DEF Tick, Stop, vars, engineVars, store
<1> QED BY <1>5, <1>6, <1>8, <1>9, <1>10, <1>11, <1>12, <1>13, <1>14, <1>15, <1>16, <1>17
        DEF Next, EngineStep, Environment

\* A call that completes or throws leaves the faults within their bound.
LEMMA FaultsTyped ==
    ASSUME faults \in 0 .. MaxFaults, Completes \/ Throws \/ Fault \/ UNCHANGED faults
    PROVE  faults' \in 0 .. MaxFaults
BY BoundsTyped DEF Completes, Throws, Fault

\* The world is touched by the transactions on a target, by the users, the clock,
\* the host and the faults.
LEMMA StepWorld ==
    ASSUME TypeInv, [Next]_vars
    PROVE  WorldOK'
<1>1. WorldOK /\ LocalOK /\ Control
  BY DEF TypeInv
<1>2. ASSUME UNCHANGED <<sites, clock, edits, syncs>>, cancelled' \in BOOLEAN,
             Completes \/ Throws \/ Fault \/ UNCHANGED faults
      PROVE  WorldOK'
  BY <1>1, <1>2, FaultsTyped DEF WorldOK
<1>3. ASSUME NEW s \in Sites, NEW site \in Site, sites' = [sites EXCEPT ![s] = site],
             UNCHANGED <<clock, cancelled, syncs>>, edits' \in 0 .. MaxEdits,
             Completes \/ Throws \/ Fault \/ UNCHANGED faults
      PROVE  WorldOK'
  BY <1>1, <1>3, FaultsTyped DEF WorldOK
<1>4. cancelled \in BOOLEAN /\ edits \in 0 .. MaxEdits /\ clock \in Nat
  BY <1>1, BoundsTyped DEF WorldOK
<1>5. CASE NewScope
  BY <1>2, <1>4, <1>5 DEF NewScope, world
<1>6. ASSUME NEW d \in Definitions, ExecuteSync(d) PROVE WorldOK'
  BY <1>1, <1>6, BoundsTyped DEF ExecuteSync, WorldOK
<1>7. CASE GetReferenceType \/ FetchChanges \/ EnterMapping \/ LeaveMappings \/ StopInLoop
  BY <1>2, <1>4, <1>7 DEF GetReferenceType, FetchChanges, EnterMapping, LeaveMappings,
                          StopInLoop, world
<1>8. CASE FindTarget
  BY <1>2, <1>4, <1>8 DEF FindTarget, world
<1>9. CASE FindDeleted
  BY <1>2, <1>4, <1>9 DEF FindDeleted, world
<1>10. ASSUME NEW isDelete, NEW next, NEW loop, Capture(isDelete, next, loop) PROVE WorldOK'
  BY <1>2, <1>4, <1>10 DEF Capture, Saves, SaveThrows, world
<1>11. CASE CaptureSnapshot \/ CaptureDeleteSnapshot
  BY <1>10, <1>11 DEF CaptureSnapshot, CaptureDeleteSnapshot
<1>12. CASE UpsertRecord
  <2>1. /\ Target \in Sites /\ record \in Row /\ def \in Definitions
        /\ UNCHANGED <<clock, cancelled, edits, syncs>>
        /\ Completes \/ Throws \/ UNCHANGED faults
    BY <1>1, <1>12, TargetTyped DEF UpsertRecord, Control, LocalOK
  <2>2. /\ FilteredRecord \in Row /\ Definition.syncUser \in UserIds
        /\ sites[Target] \in Site
    BY <1>1, <2>1, FilterTyped, ConfigParts DEF FilteredRecord, Definition, WorldOK
  <2>3. InsertRecord(sites[Target], FilteredRecord, Definition.syncUser, clock) \in Site
    BY <1>4, <2>2, InsertTyped
  <2>4. UpdateRecord(sites[Target], FilteredRecord, EffectiveColumns, Definition.syncUser, clock)
            \in Site
    BY <1>4, <2>2, UpdateTyped
  <2>5. CASE UNCHANGED sites
    BY <1>2, <1>4, <2>1, <2>5
  <2>6. PICK site \in Site : sites' = [sites EXCEPT ![Target] = site] \/ UNCHANGED sites
    BY <1>12, <2>2, <2>3, <2>4 DEF UpsertRecord
  <2> QED BY <1>3, <1>4, <2>1, <2>5, <2>6
<1>13. CASE DeleteTarget
  <2>1. /\ Target \in Sites
        /\ UNCHANGED <<clock, cancelled, edits, syncs>>
        /\ Completes \/ Throws
    BY <1>1, <1>13, TargetTyped DEF DeleteTarget, Control, LocalOK
  <2>2. DeleteRecord(sites[Target], existing.id) \in Site
    BY <1>1, <2>1, DeleteTyped DEF WorldOK
  <2>3. CASE UNCHANGED sites
    BY <1>2, <1>4, <2>1, <2>3
  <2>4. PICK site \in Site : sites' = [sites EXCEPT ![Target] = site] \/ UNCHANGED sites
    BY <1>13, <2>2 DEF DeleteTarget
  <2> QED BY <1>3, <1>4, <2>1, <2>3, <2>4
<1>14. CASE ApplyRetentionForRecord
  BY <1>2, <1>4, <1>14 DEF ApplyRetentionForRecord, Saves, SaveThrows, world
<1>15. CASE LeaveRecords \/ FetchDeletions \/ LeaveDeletions
  BY <1>2, <1>4, <1>15 DEF LeaveRecords, FetchDeletions, LeaveDeletions, world
<1>16. CASE Cleanup
  BY <1>2, <1>4, <1>16 DEF Cleanup, Saves, SaveThrows, world
<1>17. CASE LogWritten \/ LogLost
  BY <1>2, <1>4, <1>17 DEF LogWritten, LogLost, Saves, world
<1>18. ASSUME NEW s \in Sites, NEW site \in Site, EditSite(s, site) PROVE WorldOK'
  <2>1. edits' \in 0 .. MaxEdits
    BY <1>4, <1>18, BoundsTyped DEF EditSite
  <2> QED BY <1>3, <1>18, <2>1 DEF EditSite, engineVars
<1>19. ASSUME NEW s \in Sites, NEW k \in Keys, NEW v \in Vals, NEW t \in Titles,
              UserCreatesRow(s, k, v, t)
       PROVE  WorldOK'
  BY <1>1, <1>4, <1>18, <1>19, BoundsTyped, UserCreatesTyped DEF UserCreatesRow, WorldOK
<1>20. ASSUME NEW s \in Sites, NEW r \in sites[s].rows, NEW v \in Vals, NEW t \in Titles,
              UserUpdatesRow(s, r, v, t)
       PROVE  WorldOK'
  BY <1>1, <1>4, <1>18, <1>20, BoundsTyped, UserUpdatesTyped DEF UserUpdatesRow, WorldOK
<1>21. ASSUME NEW s \in Sites, NEW r \in sites[s].rows, UserDeletesRow(s, r)
       PROVE  WorldOK'
  BY <1>1, <1>4, <1>18, <1>21, BoundsTyped, UserDeletesTyped DEF UserDeletesRow, WorldOK
<1>22. CASE UserStep
  BY <1>19, <1>20, <1>21, <1>22 DEF UserStep
<1>23. CASE Tick
  BY <1>1, <1>23, BoundsTyped DEF Tick, engineVars, WorldOK
<1>24. CASE Stop \/ Restart \/ Crash \/ UNCHANGED vars
  BY <1>2, <1>4, <1>24 DEF Stop, Restart, Crash, vars, world, engineVars
<1> QED BY <1>5, <1>6, <1>7, <1>8, <1>9, <1>11, <1>12, <1>13, <1>14, <1>15, <1>16, <1>17,
           <1>22, <1>23, <1>24
        DEF Next, EngineStep, Environment

\* Ends of a step that every loop shares.
LEMMA LoopEnds ==
    ASSUME LocalOK, Control, NEW loop \in {"record", "deletion"}, pc # "idle", mappings # << >>,
           UNCHANGED <<logs, lastSyncTimes, local>>, todo' \in SUBSET Row,
           NEW entry, GiveUp(loop) \/ NextRecord(loop, entry)
    PROVE  LocalOK' /\ Control'
BY DEF LocalOK, Control, Steps, GiveUp, NextRecord, local

LEMMA AbortEnds ==
    ASSUME LocalOK, Control, pc # "idle", Abort, UNCHANGED <<logs, lastSyncTimes, local>>
    PROVE  LocalOK' /\ Control'
BY DEF LocalOK, Control, Steps, Abort, local

LEMMA ReturnEnds ==
    ASSUME Return, logs' \in Seq(LogEntry),
           lastSyncTimes' \in [Definitions -> Int \cup {Null}]
    PROVE  LocalOK' /\ Control'
BY DEF LocalOK, Control, Steps, Return

LEMMA SameLocals ==
    ASSUME LocalOK, Control, UNCHANGED <<logs, lastSyncTimes, pc, local, todo, record, existing>>
    PROVE  LocalOK' /\ Control'
BY DEF LocalOK, Control, local

LEMMA DroppedTimes ==
    ASSUME DropScope
    PROVE  lastSyncTimes' \in [Definitions -> Int \cup {Null}]
BY DEF DropScope

LEMMA StepLocal ==
    ASSUME TypeInv, [Next]_vars
    PROVE  LocalOK' /\ Control'
<1>1. WorldOK /\ LocalOK /\ Control
  BY DEF TypeInv
<1>2. CASE NewScope
  BY <1>1, <1>2, DroppedTimes DEF NewScope, LocalOK, Control, local
<1>3. ASSUME NEW d \in Definitions, ExecuteSync(d) PROVE LocalOK' /\ Control'
  BY <1>1, <1>3 DEF ExecuteSync, LocalOK, Control, Steps
<1>4. CASE GetReferenceType
  <2>1. def \in Definitions
    BY <1>1, <1>4 DEF GetReferenceType, Control
  <2>2. /\ Definition.mappings \in Seq(Mapping) /\ clock \in Int
        /\ Definition.interval \in Int
    BY <1>1, <2>1, ConfigParts, BoundsTyped DEF Definition, WorldOK
  <2>3. lastSyncTimes[def] \in Int \cup {Null} /\ clock - Definition.interval \in Int
    BY <1>1, <2>1, <2>2 DEF LocalOK
  <2>4. CASE Abort /\ UNCHANGED <<lastSyncTimes, lastSyncTime, mappings>>
    BY <1>1, <1>4, <2>4, AbortEnds DEF GetReferenceType, local
  <2>5. CASE /\ lastSyncTime' = IF lastSyncTimes[def] = Null THEN clock - Definition.interval
                                                           ELSE lastSyncTimes[def]
             /\ lastSyncTimes' = [lastSyncTimes EXCEPT ![def] = lastSyncTime']
             /\ mappings' = Definition.mappings
             /\ pc' = "fetch"
             /\ UNCHANGED <<logs, def, changed, todo, record, existing>>
    <3>1. lastSyncTime' \in Int
      BY <2>3, <2>5
    <3>2. lastSyncTimes' \in [Definitions -> Int \cup {Null}]
      BY <1>1, <2>5, <3>1 DEF LocalOK
    <3> QED BY <1>1, <2>1, <2>2, <2>5, <3>1, <3>2 DEF LocalOK, Control, Steps
  <2> QED BY <1>4, <2>4, <2>5 DEF GetReferenceType
<1>5. CASE FetchChanges
  <2>1. def \in Definitions
    BY <1>1, <1>5 DEF FetchChanges, Control
  <2>2. sites[Definition.source].rows \in SUBSET Row
    BY <1>1, <2>1, ConfigParts, SiteParts DEF Definition, WorldOK
  <2>3. GetChangedRecords(sites[Definition.source], lastSyncTime, Definition.syncUser)
            \in SUBSET Row
    BY <2>2 DEF GetChangedRecords
  <2>4. CASE Abort /\ UNCHANGED changed
    BY <1>1, <1>5, <2>4, AbortEnds DEF FetchChanges, local
  <2> QED BY <1>1, <1>5, <2>1, <2>3, <2>4 DEF FetchChanges, LocalOK, Control, Steps
<1>6. CASE EnterMapping
  <2>1. mappings # << >> => Tail(mappings) \in Seq(Mapping)
    BY <1>1, TargetTyped DEF LocalOK
  <2> QED BY <1>1, <1>6, <2>1 DEF EnterMapping, LocalOK, Control, Steps
<1>7. CASE LeaveMappings
  <2>0. clock \in Int
    BY <1>1, BoundsTyped DEF WorldOK
  <2>1. lastSyncTimes' \in [Definitions -> Int \cup {Null}]
    BY <1>1, <1>7, <2>0 DEF LeaveMappings, LocalOK
  <2> QED BY <1>1, <1>7, <2>1 DEF LeaveMappings, LocalOK, Control, Steps, local
<1>8. CASE StopInLoop
  BY <1>1, <1>8, AbortEnds DEF StopInLoop
<1>9. CASE FindTarget
  <2>1. PICK r \in todo :
           /\ todo' = todo \ {r}
           /\ \/ GiveUp("record")
              \/ \E found \in FindRecordBySyncKey(sites[Target], r.key) : FindsTarget(r, found)
    BY <1>9, FindTargetCases
  <2>2. /\ pc = "record" /\ mappings # << >> /\ r \in Row /\ todo' \in SUBSET Row
        /\ UNCHANGED <<logs, lastSyncTimes, local>>
    BY <1>1, <1>9, <2>1 DEF FindTarget, LocalOK, Control
  <2>3. CASE GiveUp("record")
    BY <1>1, <2>2, <2>3, LoopEnds
  <2>4. ASSUME NEW found \in FindRecordBySyncKey(sites[Target], r.key), FindsTarget(r, found)
        PROVE  LocalOK' /\ Control'
    <3>1. sites[Target] \in Site
      BY <1>1, <2>2, TargetTyped DEF WorldOK, LocalOK
    <3>2. found \in Row \cup {Null}
      BY <2>4, <3>1, FindTyped
    <3>3. CASE \E entry : NextRecord("record", entry)
      BY <1>1, <2>2, <3>3, LoopEnds
    <3>4. CASE record' = r /\ existing' = found /\ pc' = AfterFind(found)
      BY <1>1, <2>2, <3>2, <3>4 DEF AfterFind, LocalOK, Control, Steps, local
    <3> QED BY <2>4, <3>3, <3>4 DEF FindsTarget
  <2> QED BY <2>1, <2>3, <2>4
<1>10. ASSUME NEW isDelete, NEW next \in {"upsert", "delete"}, NEW loop \in {"record", "deletion"},
              Capture(isDelete, next, loop), pc # "idle", mappings # << >>, existing \in Row,
              next = "upsert" => record \in Row
       PROVE  LocalOK' /\ Control'
  <2>1. UNCHANGED <<logs, lastSyncTimes, local, todo>> /\ todo' \in SUBSET Row
    BY <1>1, <1>10 DEF Capture, LocalOK
  <2>2. CASE GiveUp(loop)
    BY <1>1, <1>10, <2>1, <2>2, LoopEnds
  <2>3. CASE pc' = next /\ UNCHANGED <<record, existing>>
    BY <1>1, <1>10, <2>1, <2>3 DEF LocalOK, Control, Steps, local
  <2> QED BY <1>10, <2>2, <2>3 DEF Capture
<1>11. CASE CaptureSnapshot
  BY <1>1, <1>10, <1>11 DEF CaptureSnapshot, Control
<1>12. CASE CaptureDeleteSnapshot
  BY <1>1, <1>10, <1>12 DEF CaptureDeleteSnapshot, Control
<1>13. CASE UpsertRecord
  <2>1. /\ UNCHANGED <<logs, lastSyncTimes, local, todo>> /\ todo' \in SUBSET Row
        /\ pc = "upsert" /\ mappings # << >>
    BY <1>1, <1>13 DEF UpsertRecord, LocalOK, Control
  <2>2. CASE \E entry : GiveUp("record") \/ NextRecord("record", entry)
    BY <1>1, <2>1, <2>2, LoopEnds
  <2>3. CASE existing # Null /\ pc' = "retain" /\ UNCHANGED <<record, existing>>
    BY <1>1, <2>1, <2>3 DEF LocalOK, Control, Steps, local
  <2> QED BY <1>13, <2>2, <2>3 DEF UpsertRecord
<1>14. CASE ApplyRetentionForRecord
  <2>1. /\ UNCHANGED <<logs, lastSyncTimes, local, todo>> /\ todo' \in SUBSET Row
        /\ pc = "retain" /\ mappings # << >>
    BY <1>1, <1>14 DEF ApplyRetentionForRecord, LocalOK, Control
  <2>2. \E entry : GiveUp("record") \/ NextRecord("record", entry)
    BY <1>14 DEF ApplyRetentionForRecord
  <2> QED BY <1>1, <2>1, <2>2, LoopEnds
<1>15. CASE LeaveRecords
  BY <1>1, <1>15 DEF LeaveRecords, LocalOK, Control, Steps, local
<1>16. CASE FetchDeletions
  <2>1. def \in Definitions
    BY <1>1, <1>16 DEF FetchDeletions, Control
  <2>2. sites[Definition.source].deleted \in SUBSET Row
    BY <1>1, <2>1, ConfigParts, SiteParts DEF Definition, WorldOK
  <2>3. GetDeletedRecords(sites[Definition.source], lastSyncTime) \in SUBSET Row
    BY <2>2 DEF GetDeletedRecords
  <2>4. CASE Abort
    BY <1>1, <1>16, <2>4, AbortEnds DEF FetchDeletions
  <2> QED BY <1>1, <1>16, <2>1, <2>3, <2>4 DEF FetchDeletions, LocalOK, Control, Steps, local
<1>17. CASE FindDeleted
  <2>1. PICK r \in todo :
           /\ todo' = todo \ {r}
           /\ \/ GiveUp("deletion")
              \/ \E found \in FindRecordBySyncKey(sites[Target], r.key) : FindsDeleted(r, found)
    BY <1>17, FindDeletedCases
  <2>2. /\ pc = "deletion" /\ mappings # << >> /\ r \in Row /\ todo' \in SUBSET Row
        /\ UNCHANGED <<logs, lastSyncTimes, local>>
    BY <1>1, <1>17, <2>1 DEF FindDeleted, LocalOK, Control
  <2>3. CASE GiveUp("deletion")
    BY <1>1, <2>2, <2>3, LoopEnds
  <2>4. ASSUME NEW found \in FindRecordBySyncKey(sites[Target], r.key), FindsDeleted(r, found)
        PROVE  LocalOK' /\ Control'
    <3>1. sites[Target] \in Site
      BY <1>1, <2>2, TargetTyped DEF WorldOK, LocalOK
    <3>2. found \in Row \cup {Null}
      BY <2>4, <3>1, FindTyped
    <3>3. CASE NextRecord("deletion", log)
      BY <1>1, <2>2, <3>3, LoopEnds
    <3>4. CASE /\ found # Null /\ record' = r /\ existing' = found
               /\ pc' = IF Definition.history THEN "captureDelete" ELSE "delete"
      BY <1>1, <2>2, <3>2, <3>4 DEF LocalOK, Control, Steps, local
    <3> QED BY <2>4, <3>3, <3>4 DEF FindsDeleted
  <2> QED BY <2>1, <2>3, <2>4
<1>18. CASE DeleteTarget
  <2>1. /\ UNCHANGED <<logs, lastSyncTimes, local, todo>> /\ todo' \in SUBSET Row
        /\ pc = "delete" /\ mappings # << >>
    BY <1>1, <1>18 DEF DeleteTarget, LocalOK, Control
  <2>2. \E entry : GiveUp("deletion") \/ NextRecord("deletion", entry)
    BY <1>18 DEF DeleteTarget
  <2> QED BY <1>1, <2>1, <2>2, LoopEnds
<1>19. CASE LeaveDeletions
  <2>1. Tail(mappings) \in Seq(Mapping)
    BY <1>1, <1>19, TargetTyped DEF LocalOK, Control, LeaveDeletions
  <2> QED BY <1>1, <1>19, <2>1 DEF LeaveDeletions, LocalOK, Control, Steps
<1>20. CASE Cleanup
  <2>1. UNCHANGED <<logs, lastSyncTimes, local>> /\ pc = "cleanup"
    BY <1>20 DEF Cleanup
  <2>2. CASE Abort
    BY <1>1, <2>1, <2>2, AbortEnds
  <2>3. CASE pc' = "writeLog" /\ UNCHANGED <<todo, record, existing>>
    BY <1>1, <2>1, <2>3 DEF LocalOK, Control, Steps, local
  <2> QED BY <1>20, <2>2, <2>3 DEF Cleanup
<1>21. CASE LogWritten
  <2>1. logs' \in Seq(LogEntry)
    BY <1>1, <1>21, AppendProperties DEF LogWritten, LocalOK, TypeInv, LogInv
  <2> QED BY <1>1, <1>21, <2>1, ReturnEnds DEF LogWritten, LocalOK
<1>22. CASE LogLost
  BY <1>1, <1>22, DroppedTimes, ReturnEnds DEF LogLost, LocalOK
<1>23. CASE Crash
  BY <1>1, <1>23, DroppedTimes, ReturnEnds DEF Crash, LocalOK
<1>24. CASE Restart
  BY <1>1, <1>24, DroppedTimes DEF Restart, LocalOK, Control, local
<1>25. CASE UserStep
  BY <1>1, <1>25, SameLocals DEF UserStep, UserCreatesRow, UserUpdatesRow, UserDeletesRow,
                                EditSite, engineVars
<1>26. CASE Tick \/ Stop \/ UNCHANGED vars
  BY <1>1, <1>26, SameLocals DEF Tick, Stop, vars, engineVars
<1> QED BY <1>2, <1>3, <1>4, <1>5, <1>6, <1>7, <1>8, <1>9, <1>11, <1>12, <1>13, <1>14, <1>15,
           <1>16, <1>17, <1>18, <1>19, <1>20, <1>21, <1>22, <1>23, <1>24, <1>25, <1>26
        DEF Next, EngineStep, Environment

LEMMA StepTypeInv == TypeInv /\ [Next]_vars => TypeInv'
BY StepWorld, StepLocal, StepStore, StepLogInv DEF TypeInv

\* The sites, the store, the log and the locals of the engine are of their types,
\* whatever the configuration, the users and the faults.
THEOREM EngineTypeCorrect == Spec => []TypeOK
BY InitTypeInv, StepTypeInv, TypeInvImplies, PTL DEF Spec
===============================================================================
