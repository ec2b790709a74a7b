------------------------------- MODULE SyncRules -------------------------------
(***************************************************************************)
(* SyncRuleEngine: which columns of a record go to a target.  No           *)
(* variables.  A column is synchronised or not, so the comma-separated     *)
(* lists of a definition are sets here; an empty include list stands for   *)
(* all columns.                                                            *)
(***************************************************************************)
EXTENDS PleasanterDb

\* The rules of a definition and of one of its target mappings.
Rules == [include : SUBSET Columns, exclude : SUBSET Columns]

GetEffectiveColumns(rules, targetExclude) ==
    (IF rules.include = {} THEN Columns ELSE rules.include)
        \ (rules.exclude \cup targetExclude)

\* Outside the effective columns a filtered record has no values, and its title
\* is empty, not absent: it is written all the same.
FilterRecordColumns(record, columns) ==
    [record EXCEPT !.key   = IF "Key" \in columns THEN @ ELSE Null,
                   !.val   = IF "Val" \in columns THEN @ ELSE Null,
                   !.title = IF "Title" \in columns THEN @ ELSE Blank]
===============================================================================
