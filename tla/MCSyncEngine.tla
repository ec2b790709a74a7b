------------------------------ MODULE MCSyncEngine ------------------------------
(***************************************************************************)
(* Definitions for instances of SyncEngine: one from `a' to `b', and a     *)
(* pair that synchronises `a' and `b' in both directions.                  *)
(***************************************************************************)
EXTENDS SyncEngine, TLC

CONSTANTS a, b, ab, ba, k1, k2, v1, v2, user, sync

\* All columns are included but Title, by name or by exclusion.
KeyAndVal == [include |-> {"Key", "Val"}, exclude |-> {}]
AllButTitle == [include |-> {}, exclude |-> {"Title"}]

To(site) == << [site |-> site, enabled |-> TRUE, exclude |-> {}] >>

Basic == [source |-> a, mappings |-> To(b), rules |-> KeyAndVal, syncUser |-> sync,
          strategy |-> "SourceWins", interval |-> 1, history |-> TRUE,
          maxVersions |-> 1, maxAge |-> 1]

OneWay == (ab :> Basic)

TwoWay == OneWay @@ (ba :> [Basic EXCEPT !.source = b, !.mappings = To(a)])

\* Definitions of different intervals.
SlowAndFast == [TwoWay EXCEPT ![ab].interval = 2]

Manual == (ab :> [Basic EXCEPT !.strategy = "ManualResolution"])
LastWriteWins == (ab :> [Basic EXCEPT !.strategy = "LastWriteWins"])

\* An empty include list: every column is effective.
AllColumns == (ab :> [Basic EXCEPT !.rules.include = {}])

\* Two definitions from `a' to `b'.  One is under ManualResolution, without history
\* and retention, after a mapping that is switched off.  The other has no include
\* list: every column is effective, and the server rejects its statements.
Strategic ==
    (ab :> [Basic EXCEPT !.strategy = "ManualResolution", !.history = FALSE,
                         !.mappings = << [site |-> a, enabled |-> FALSE, exclude |-> {}] >> \o @,
                         !.rules = AllButTitle,
                         !.maxVersions = Null, !.maxAge = Null])
 @@ (ba :> [Basic EXCEPT !.strategy = "LastWriteWins", !.rules.include = {}])
===============================================================================
