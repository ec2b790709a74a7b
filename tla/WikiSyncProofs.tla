----------------------------- MODULE WikiSyncProofs -----------------------------
(***************************************************************************)
(* Overlapping runs of the wiki synchronisation, for any number of runs,   *)
(* any documents and any edits by the users of the wiki.                   *)
(***************************************************************************)
EXTENDS WikiSync, SequenceTheorems, TLAPS

\* A run that has begun has a commit of main; one that has cloned the wiki holds
\* the tree of the commit it cloned, and then one that the documents make of it.
HasCloned == {"cloned", "built", "succeeded"}

Control ==
    /\ head \in 0 .. Len(Docs)
    /\ phase \in [Runs -> Phases]
    /\ commit \in [Runs -> Nat]
    /\ base \in [Runs -> Nat]
    /\ DOMAIN tree = Runs
    /\ \E S : wiki \in Seq(S)

Begun == \A r \in Runs : phase[r] # "idle" => commit[r] \in 1 .. head

ClonedAt(r) == base[r] \in 1 .. Len(wiki)

Work ==
    \A r \in Runs :
        /\ phase[r] \in HasCloned => ClonedAt(r)
        /\ phase[r] = "cloned" => tree[r] = wiki[base[r]].tree
        /\ phase[r] = "built" =>
              tree[r] \in SyncedTrees(Docs[commit[r]], wiki[base[r]].tree)

Inv == Control /\ Begun /\ Work /\ SuccessMeansPublished

-------------------------------------------------------------------------------
\* What a run makes of a clone shows the documents.
LEMMA SyncedTreesShow ==
    ASSUME NEW docs, IsCheckout(docs), NEW old, NEW new \in SyncedTrees(docs, old)
    PROVE  Shows(new, docs)
<1>1. PICK written \in WrittenPages(docs) :
          new = [pages |-> [t \in (DOMAIN old.pages \cup docsWikiTitles(docs)) \ pagesToDelete(docs, old) |->
                               IF t \in docsWikiTitles(docs) THEN written[t] ELSE old.pages[t]],
                 assets |-> [a \in DOMAIN docs.assets \cup DOMAIN old.assets |->
                               IF a \in DOMAIN docs.assets THEN docs.assets[a] ELSE old.assets[a]],
                 sidebar |-> SidebarTitles(docs, old)]
  BY DEF SyncedTrees
<1>2. PICK last \in [docsWikiTitles(docs) -> DOMAIN docs.pages] :
          /\ \A t \in docsWikiTitles(docs) : getWikiTitle(last[t]) = t
          /\ written = [t \in docsWikiTitles(docs) |-> convertLinksForWiki(docs.pages[last[t]])]
  BY DEF WrittenPages
<1>3. \A p \in DOMAIN docs.pages : docs.pages[p] \in Page
  BY DEF IsCheckout, IsFiles
<1>4. \A page \in Page : convertLinksForWiki(page).rev = page.rev
  BY DEF Page, convertLinksForWiki
<1>5. ASSUME NEW t \in docsWikiTitles(docs)
      PROVE  /\ t \in DOMAIN new.pages
             /\ \E p \in DOMAIN docs.pages :
                   getWikiTitle(p) = t /\ new.pages[t].rev = docs.pages[p].rev
  <2>1. t \notin pagesToDelete(docs, old)
    BY DEF pagesToDelete
  <2>2. t \in DOMAIN new.pages /\ new.pages[t] = written[t]
    BY <1>1, <2>1
  <2>3. last[t] \in DOMAIN docs.pages /\ written[t].rev = docs.pages[last[t]].rev
    BY <1>2, <1>3, <1>4
  <2> QED BY <1>2, <2>2, <2>3
<1>6. \A a \in DOMAIN docs.assets : a \in DOMAIN new.assets /\ new.assets[a] = docs.assets[a]
  BY <1>1
<1>7. ASSUME NEW t \in DOMAIN new.pages, t \notin docsWikiTitles(docs)
      PROVE  t[1] \in PrivateWords \/ t = <<"Home">>
  <2>1. t \in DOMAIN old.pages /\ t \notin pagesToDelete(docs, old)
    BY <1>1, <1>7
  <2> QED BY <1>7, <2>1 DEF pagesToDelete, getAllWikiPages, isProtectedPage
<1> QED BY <1>5, <1>6, <1>7 DEF Shows

\* It keeps the pages the script protects.
LEMMA SyncedTreesKeep ==
    ASSUME NEW docs, NEW old, NEW new \in SyncedTrees(docs, old),
           NEW t \in DOMAIN old.pages, t[1] \in PrivateWords \/ t = <<"Home">>
    PROVE  t \in DOMAIN new.pages
<1>1. t \notin pagesToDelete(docs, old)
  BY DEF pagesToDelete, getAllWikiPages, isProtectedPage
<1>2. DOMAIN new.pages = (DOMAIN old.pages \cup docsWikiTitles(docs)) \ pagesToDelete(docs, old)
  BY DEF SyncedTrees
<1> QED BY <1>1, <1>2

\* A commit more: what was there stays where it was.
LEMMA OneMore ==
    ASSUME \E S : wiki \in Seq(S), NEW c, wiki' = Append(wiki, c)
    PROVE  /\ \E S : wiki' \in Seq(S)
           /\ Len(wiki) \in Nat /\ Len(wiki') = Len(wiki) + 1 /\ wiki' # <<>>
           /\ \A i \in 1 .. Len(wiki) : wiki'[i] = wiki[i]
           /\ wiki'[Len(wiki')] = c /\ Last(wiki') = c
           /\ wiki' # wiki
<1>1. PICK S : wiki \in Seq(S)
  OBVIOUS
<1>2. wiki \in Seq(S \cup {c}) /\ c \in S \cup {c}
  BY <1>1, SeqDef
<1> DEFINE T == S \cup {c}
<1> HIDE DEF T
<1>3. /\ wiki' \in Seq(T)
      /\ Len(wiki) \in Nat /\ Len(wiki') = Len(wiki) + 1
      /\ \A i \in 1 .. Len(wiki) : wiki'[i] = wiki[i]
      /\ wiki'[Len(wiki) + 1] = c
  BY <1>2, AppendProperties, LenProperties DEF T
<1>4. wiki' # <<>> /\ wiki' # wiki
  BY <1>3
<1> QED BY <1>3, <1>4 DEF Last

\* The specification extends WikiMirror, so the instance is the module itself.
LEMMA InstanceIsModule == Mirror!MirrorInit = MirrorInit /\ (Mirror!MirrorNext <=> MirrorNext)
<1>1. ASSUME NEW d, NEW t PROVE Mirror!SyncedTrees(d, t) = SyncedTrees(d, t)
  BY Zenon DEF getWikiTitle, Mirror!getWikiTitle, FlattenSeq, Mirror!FlattenSeq,
     SyncedTrees, Mirror!SyncedTrees, docsWikiTitles, Mirror!docsWikiTitles,
     convertLinksForWiki, Mirror!convertLinksForWiki, getAllWikiPages, Mirror!getAllWikiPages,
     isProtectedPage, Mirror!isProtectedPage, WrittenPages, Mirror!WrittenPages,
     pagesToDelete, Mirror!pagesToDelete, SidebarTitles, Mirror!SidebarTitles
<1>2. ASSUME NEW c PROVE Mirror!Synchronise(c) <=> Synchronise(c)
  BY <1>1, Zenon DEF Synchronise, Mirror!Synchronise, CurrentTree, Mirror!CurrentTree,
     NoPages, Mirror!NoPages
<1>3. Mirror!PushDocs <=> PushDocs
  BY Zenon DEF PushDocs, Mirror!PushDocs
<1>4. ASSUME NEW t, NEW p
      PROVE  (Mirror!UserSaves(t, p) <=> UserSaves(t, p)) /\ (Mirror!UserDeletes(t) <=> UserDeletes(t))
  BY Zenon DEF UserSaves, Mirror!UserSaves, UserDeletes, Mirror!UserDeletes, CurrentTree,
     Mirror!CurrentTree, NoPages, Mirror!NoPages, UserCommit, Mirror!UserCommit
<1>5. Mirror!MirrorInit = MirrorInit
  BY Zenon DEF MirrorInit, Mirror!MirrorInit
<1> QED BY <1>2, <1>3, <1>4, <1>5, Zenon DEF MirrorNext, Mirror!MirrorNext

-------------------------------------------------------------------------------
LEMMA InitInv == Init => Inv
<1> SUFFICES ASSUME Init PROVE Inv
  OBVIOUS
<1>1. \E S : wiki \in Seq(S)
  <2>1. CASE wiki = <<>>
    BY <2>1
  <2>2. CASE wiki = <<[by |-> 0, tree |-> InitialWiki]>>
    <3>1. wiki \in Seq({[by |-> 0, tree |-> InitialWiki]})
      BY <2>2
    <3> QED BY <3>1
  <2> QED BY <2>1, <2>2 DEF Init, MirrorInit
<1>2. Control
  BY <1>1, WikiAssumption DEF Init, MirrorInit, Control, Phases
<1>3. \A r \in Runs : phase[r] = "idle"
  BY DEF Init
<1> QED BY <1>2, <1>3 DEF Inv, Begun, Work, HasCloned, SuccessMeansPublished

\* What a run has found of the wiki stays true when commits are added.
LEMMA StaysCloned ==
    ASSUME Inv, \A i \in 1 .. Len(wiki) : wiki'[i] = wiki[i], Len(wiki') \in Nat,
           Len(wiki) <= Len(wiki'), head' \in 0 .. Len(Docs), head <= head',
           NEW r \in Runs, phase'[r] = phase[r], commit'[r] = commit[r], base'[r] = base[r],
           tree'[r] = tree[r]
    PROVE  /\ phase'[r] \in HasCloned => ClonedAt(r)'
           /\ phase'[r] = "cloned" => tree'[r] = wiki'[base'[r]].tree
           /\ phase'[r] = "built" =>
                 tree'[r] \in SyncedTrees(Docs[commit'[r]], wiki'[base'[r]].tree)
           /\ phase'[r] = "succeeded" =>
                 \E i \in base'[r] .. Len(wiki') : Shows(wiki'[i].tree, Docs[commit'[r]])
           /\ phase'[r] # "idle" => commit'[r] \in 1 .. head'
<1>1. /\ base[r] \in Nat /\ commit[r] \in Nat /\ head \in Nat
      /\ Len(wiki) \in Nat /\ head' \in Nat
  BY LenProperties, WikiAssumption DEF Inv, Control
<1>2. phase[r] \in HasCloned => ClonedAt(r)' /\ wiki'[base[r]] = wiki[base[r]]
  BY <1>1 DEF Inv, Work, ClonedAt
<1>3. phase[r] = "succeeded" =>
          \E i \in base[r] .. Len(wiki') : Shows(wiki'[i].tree, Docs[commit[r]])
  <2> SUFFICES ASSUME phase[r] = "succeeded"
               PROVE  \E i \in base[r] .. Len(wiki') : Shows(wiki'[i].tree, Docs[commit[r]])
    OBVIOUS
  <2>1. PICK i \in base[r] .. Len(wiki) : Shows(wiki[i].tree, Docs[commit[r]])
    BY DEF Inv, SuccessMeansPublished
  <2>2. base[r] \in 1 .. Len(wiki)
    BY DEF Inv, Work, HasCloned, ClonedAt
  <2>3. i \in 1 .. Len(wiki) /\ i \in base[r] .. Len(wiki')
    BY <1>1, <2>2
  <2>4. wiki'[i] = wiki[i]
    BY <2>3
  <2> QED BY <2>1, <2>3, <2>4
<1>4. phase[r] # "idle" => commit[r] \in 1 .. head'
  BY <1>1 DEF Inv, Begun
<1> QED BY <1>2, <1>3, <1>4 DEF Inv, Work, HasCloned

\* A step of one run that leaves the wiki as it is.
LEMMA RunKeeps ==
    ASSUME Inv, NEW r \in Runs, NEW to \in Phases, Go(r, to),
           UNCHANGED wiki, head' \in 0 .. Len(Docs), head <= head',
           commit' \in [Runs -> Nat], base' \in [Runs -> Nat], DOMAIN tree' = Runs,
           \A q \in Runs \ {r} : /\ commit'[q] = commit[q] /\ base'[q] = base[q]
                                 /\ tree'[q] = tree[q],
           to # "idle" => commit'[r] \in 1 .. head',
           to \in HasCloned => ClonedAt(r)',
           to = "cloned" => tree'[r] = wiki[base'[r]].tree,
           to = "built" => tree'[r] \in SyncedTrees(Docs[commit'[r]], wiki[base'[r]].tree),
           to = "succeeded" => Shows(wiki[base'[r]].tree, Docs[commit'[r]])
    PROVE  Inv'
<1>0. Len(wiki) \in Nat /\ phase \in [Runs -> Phases]
  BY LenProperties DEF Inv, Control
<1>1. phase' \in [Runs -> Phases] /\ phase'[r] = to /\ \A q \in Runs \ {r} : phase'[q] = phase[q]
  BY <1>0 DEF Go
<1>2. Control'
  BY <1>1 DEF Inv, Control
<1>3. ASSUME NEW q \in Runs \ {r}
      PROVE  /\ phase'[q] \in HasCloned => ClonedAt(q)'
             /\ phase'[q] = "cloned" => tree'[q] = wiki'[base'[q]].tree
             /\ phase'[q] = "built" =>
                   tree'[q] \in SyncedTrees(Docs[commit'[q]], wiki'[base'[q]].tree)
             /\ phase'[q] = "succeeded" =>
                   \E i \in base'[q] .. Len(wiki') : Shows(wiki'[i].tree, Docs[commit'[q]])
             /\ phase'[q] # "idle" => commit'[q] \in 1 .. head'
  BY <1>0, <1>1, StaysCloned
<1>4. to = "succeeded" => base'[r] \in base'[r] .. Len(wiki')
  BY <1>0 DEF HasCloned, ClonedAt
<1>5. Work' /\ Begun'
  BY <1>1, <1>3 DEF Work, Begun
<1>6. SuccessMeansPublished'
  BY <1>1, <1>3, <1>4 DEF SuccessMeansPublished
<1> QED BY <1>2, <1>5, <1>6 DEF Inv

\* The documents that a run has begun with.
LEMMA Checkouts ==
    ASSUME Inv
    PROVE  /\ head \in Nat
           /\ \A c \in 1 .. head : IsCheckout(Docs[c])
           /\ \A r \in Runs : phase[r] # "idle" => IsCheckout(Docs[commit[r]])
<1>1. head \in Nat /\ head <= Len(Docs) /\ Len(Docs) \in Nat
  BY WikiAssumption DEF Inv, Control
<1>2. \A c \in 1 .. head : c \in DOMAIN Docs
  BY <1>1, WikiAssumption
<1>3. \A c \in 1 .. head : IsCheckout(Docs[c])
  BY <1>2, WikiAssumption
<1> QED BY <1>1, <1>3 DEF Inv, Begun

\* The end of a run, with or without a commit of its own.
LEMMA EndKeeps ==
    ASSUME Inv, NEW r \in Runs, phase[r] # "idle", NEW to \in Ended, End(r, to),
           UNCHANGED <<head, wiki, commit, base>>,
           to = "succeeded" => ClonedAt(r) /\ Shows(wiki[base[r]].tree, Docs[commit[r]])
    PROVE  Inv'
<1>1. /\ head' \in 0 .. Len(Docs) /\ head \in Nat
      /\ commit' \in [Runs -> Nat] /\ base' \in [Runs -> Nat] /\ DOMAIN tree = Runs
  BY Checkouts DEF Inv, Control
<1>2. tree' = [tree EXCEPT ![r] = NoPages] /\ Go(r, to)
  BY DEF End
<1>3. DOMAIN tree' = Runs /\ \A q \in Runs \ {r} : tree'[q] = tree[q]
  BY <1>1, <1>2
<1>4. to \in Phases /\ to # "idle" /\ to # "cloned" /\ to # "built"
      /\ (to \in HasCloned => to = "succeeded")
  BY DEF Ended, Phases, HasCloned
<1>5. commit'[r] \in 1 .. head'
  BY DEF Inv, Begun
<1>6. (to \in HasCloned => ClonedAt(r)')
      /\ (to = "succeeded" => Shows(wiki[base'[r]].tree, Docs[commit'[r]]))
  BY <1>4 DEF ClonedAt
<1> QED BY <1>1, <1>2, <1>3, <1>4, <1>5, <1>6, RunKeeps

\* A run starts, and with a push the documents have one commit more.
LEMMA StartKeeps ==
    ASSUME Inv, NEW r \in Runs, NEW c, Start(r, c), UNCHANGED wiki,
           head' \in 0 .. Len(Docs), head <= head', c \in 1 .. head'
    PROVE  Inv'
<1>1. c \in Nat /\ head' \in Nat
  BY WikiAssumption
<1>2. commit' \in [Runs -> Nat] /\ commit'[r] = c /\ \A q \in Runs \ {r} : commit'[q] = commit[q]
  BY <1>1 DEF Start, Inv, Control
<1>3. UNCHANGED <<base, tree>> /\ Go(r, "queued")
  BY DEF Start
<1>4. base' \in [Runs -> Nat] /\ DOMAIN tree' = Runs
  BY <1>3 DEF Inv, Control
<1>5. "queued" \in Phases /\ "queued" \notin HasCloned
  BY DEF Phases, HasCloned
<1> QED BY <1>2, <1>3, <1>4, <1>5, RunKeeps

LEMMA CloneKeeps ==
    ASSUME Inv, NEW r \in Runs, Clone(r)
    PROVE  Inv'
<1>1. phase[r] = "queued" /\ UNCHANGED <<head, wiki, commit>>
  BY DEF Clone
<1>2. CASE wiki = <<>>
  <2>1. End(r, "failed") /\ UNCHANGED base
    BY <1>2 DEF Clone
  <2> QED BY <1>1, <2>1, EndKeeps DEF Ended
<1>3. CASE wiki # <<>>
  <2>1. /\ Go(r, "cloned")
        /\ base' = [base EXCEPT ![r] = Len(wiki)]
        /\ tree' = [tree EXCEPT ![r] = CurrentTree]
    BY <1>3 DEF Clone
  <2>2. Len(wiki) \in Nat /\ Len(wiki) # 0
    BY <1>3, LenProperties, EmptySeq DEF Inv, Control
  <2>3. /\ base' \in [Runs -> Nat] /\ base'[r] = Len(wiki)
        /\ \A q \in Runs \ {r} : base'[q] = base[q]
    BY <2>1, <2>2 DEF Inv, Control
  <2>4. /\ DOMAIN tree' = Runs /\ tree'[r] = wiki[Len(wiki)].tree
        /\ \A q \in Runs \ {r} : tree'[q] = tree[q]
    BY <1>3, <2>1 DEF Inv, Control, CurrentTree
  <2>5. ClonedAt(r)'
    BY <1>1, <2>2, <2>3 DEF ClonedAt
  <2>6. head' \in 0 .. Len(Docs) /\ head \in Nat /\ commit' \in [Runs -> Nat] /\ "cloned" \in Phases
    BY <1>1, Checkouts DEF Inv, Control, Phases
  <2>7. commit'[r] \in 1 .. head'
    BY <1>1 DEF Inv, Begun
  <2> QED BY <1>1, <2>1, <2>3, <2>4, <2>5, <2>6, <2>7, RunKeeps
<1> QED BY <1>2, <1>3

LEMMA BuildKeeps ==
    ASSUME Inv, NEW r \in Runs, Build(r)
    PROVE  Inv'
<1>1. phase[r] = "cloned" /\ UNCHANGED <<head, wiki, commit, base>> /\ Go(r, "built")
  BY DEF Build
<1>2. ClonedAt(r) /\ tree[r] = wiki[base[r]].tree
  BY <1>1 DEF Inv, Work, HasCloned
<1>3. PICK t \in SyncedTrees(Docs[commit[r]], tree[r]) : tree' = [tree EXCEPT ![r] = t]
  BY DEF Build
<1>4. /\ DOMAIN tree' = Runs /\ tree'[r] = t
      /\ \A q \in Runs \ {r} : tree'[q] = tree[q]
  BY <1>3 DEF Inv, Control
<1>5. tree'[r] \in SyncedTrees(Docs[commit'[r]], wiki[base'[r]].tree) /\ ClonedAt(r)'
  BY <1>1, <1>2, <1>3, <1>4 DEF ClonedAt
<1>6. /\ head' \in 0 .. Len(Docs) /\ head \in Nat /\ "built" \in Phases
      /\ commit' \in [Runs -> Nat] /\ base' \in [Runs -> Nat]
  BY <1>1, Checkouts DEF Inv, Control, Phases
<1>7. commit'[r] \in 1 .. head'
  BY <1>1 DEF Inv, Begun
<1> QED BY <1>1, <1>4, <1>5, <1>6, <1>7, RunKeeps

LEMMA NothingChangedKeeps ==
    ASSUME Inv, NEW r \in Runs, NothingChanged(r)
    PROVE  Inv'
<1>1. phase[r] = "built" /\ tree[r] = wiki[base[r]].tree /\ End(r, "succeeded")
      /\ UNCHANGED <<head, wiki, commit, base>>
  BY DEF NothingChanged
<1>2. ClonedAt(r) /\ tree[r] \in SyncedTrees(Docs[commit[r]], wiki[base[r]].tree)
  BY <1>1 DEF Inv, Work, HasCloned
<1>3. Shows(wiki[base[r]].tree, Docs[commit[r]])
  BY <1>1, <1>2, Checkouts, SyncedTreesShow
<1> QED BY <1>1, <1>2, <1>3, EndKeeps DEF Ended

\* A commit more, by a run or by a user, and perhaps the end of that run.
LEMMA CommitKeeps ==
    ASSUME Inv, NEW c, wiki' = Append(wiki, c), UNCHANGED <<head, commit, base>>,
           \/ UNCHANGED <<phase, tree>>
           \/ \E r \in Runs : \E to \in Ended :
                 End(r, to) /\ ClonedAt(r) /\ Shows(c.tree, Docs[commit[r]]) /\ phase[r] # "idle"
    PROVE  Inv'
<1>1. /\ \E S : wiki' \in Seq(S)
      /\ Len(wiki) \in Nat /\ Len(wiki') = Len(wiki) + 1
      /\ \A i \in 1 .. Len(wiki) : wiki'[i] = wiki[i]
      /\ wiki'[Len(wiki')] = c
  BY OneMore DEF Inv, Control
<1>2. head' \in 0 .. Len(Docs) /\ head <= head' /\ Len(wiki) <= Len(wiki') /\ Len(wiki') \in Nat
  BY <1>1, Checkouts DEF Inv, Control
<1>k. ASSUME NEW q \in Runs, phase'[q] = phase[q], tree'[q] = tree[q]
      PROVE  /\ phase'[q] \in HasCloned => ClonedAt(q)'
             /\ phase'[q] = "cloned" => tree'[q] = wiki'[base'[q]].tree
             /\ phase'[q] = "built" =>
                   tree'[q] \in SyncedTrees(Docs[commit'[q]], wiki'[base'[q]].tree)
             /\ phase'[q] = "succeeded" =>
                   \E i \in base'[q] .. Len(wiki') : Shows(wiki'[i].tree, Docs[commit'[q]])
             /\ phase'[q] # "idle" => commit'[q] \in 1 .. head'
  BY <1>1, <1>2, <1>k, StaysCloned
<1>3. CASE UNCHANGED <<phase, tree>>
  <2>1. Control'
    BY <1>1, <1>3 DEF Inv, Control
  <2>2. Work' /\ Begun' /\ SuccessMeansPublished'
    BY <1>3, <1>k DEF Work, Begun, SuccessMeansPublished
  <2> QED BY <2>1, <2>2 DEF Inv
<1>4. ASSUME NEW r \in Runs, NEW to \in Ended, End(r, to), ClonedAt(r),
             Shows(c.tree, Docs[commit[r]]), phase[r] # "idle"
      PROVE  Inv'
  <2>1. /\ phase' \in [Runs -> Phases] /\ DOMAIN tree' = Runs /\ phase'[r] = to
        /\ \A q \in Runs \ {r} : phase'[q] = phase[q] /\ tree'[q] = tree[q]
    BY <1>4 DEF Inv, Control, End, Go, Ended, Phases
  <2>2. Control'
    BY <1>1, <2>1 DEF Inv, Control
  <2>3. base'[r] \in Nat /\ base'[r] \in 1 .. Len(wiki) /\ commit'[r] \in 1 .. head'
    BY <1>4 DEF Inv, Control, ClonedAt, Begun
  <2>4. ClonedAt(r)' /\ Len(wiki') \in base'[r] .. Len(wiki')
    BY <1>1, <2>3 DEF ClonedAt
  <2>5. Shows(wiki'[Len(wiki')].tree, Docs[commit'[r]])
    BY <1>1, <1>4
  <2>6. to # "cloned" /\ to # "built"
    BY DEF Ended
  <2>7. Work' /\ Begun'
    BY <1>k, <2>1, <2>3, <2>4, <2>6 DEF Work, Begun
  <2>8. SuccessMeansPublished'
    BY <1>k, <2>1, <2>4, <2>5 DEF SuccessMeansPublished
  <2> QED BY <2>2, <2>7, <2>8 DEF Inv
<1> QED BY <1>3, <1>4

LEMMA StepInv == Inv /\ [Next]_vars => Inv'
<1> SUFFICES ASSUME Inv, [Next]_vars PROVE Inv'
  OBVIOUS
<1>h. head \in Nat /\ head \in 0 .. Len(Docs) /\ Len(Docs) \in Nat
  BY Checkouts, WikiAssumption DEF Inv, Control
<1>1. ASSUME NEW r \in Runs, PushTriggers(r) PROVE Inv'
  BY <1>1, <1>h, StartKeeps DEF PushTriggers, PushDocs
<1>2. ASSUME NEW r \in Runs, WorkflowDispatch(r) PROVE Inv'
  BY <1>2, <1>h, StartKeeps DEF WorkflowDispatch
<1>3. ASSUME NEW r \in Runs, NoDocsDir(r) \/ PushRefused(r) \/ Fail(r) PROVE Inv'
  <2>1. phase[r] # "idle" /\ End(r, "failed") /\ UNCHANGED <<head, wiki, commit, base>>
    BY <1>3 DEF NoDocsDir, PushRefused, Fail
  <2> QED BY <2>1, EndKeeps DEF Ended
<1>4. ASSUME NEW r \in Runs, Clone(r) PROVE Inv'
  BY <1>4, CloneKeeps
<1>5. ASSUME NEW r \in Runs, Build(r) PROVE Inv'
  BY <1>5, BuildKeeps
<1>6. ASSUME NEW r \in Runs, NothingChanged(r) PROVE Inv'
  BY <1>6, NothingChangedKeeps
<1>7. ASSUME NEW r \in Runs, Push(r) PROVE Inv'
  <2> DEFINE c == [by |-> commit[r], tree |-> tree[r]]
  <2>1. /\ phase[r] = "built" /\ wiki' = Append(wiki, c)
        /\ UNCHANGED <<head, commit, base>>
        /\ \E to \in Ended : End(r, to)
    BY <1>7 DEF Push, Ended
  <2>2. ClonedAt(r) /\ tree[r] \in SyncedTrees(Docs[commit[r]], wiki[base[r]].tree)
    BY <2>1 DEF Inv, Work, HasCloned
  <2>3. Shows(c.tree, Docs[commit[r]])
    BY <2>1, <2>2, Checkouts, SyncedTreesShow
  <2> HIDE DEF c
  <2> QED BY <2>1, <2>2, <2>3, CommitKeeps
<1>8. CASE UserCommits
  <2>1. \E c : wiki' = Append(wiki, c)
    BY <1>8 DEF UserCommits, UserSaves, UserDeletes
  <2>2. UNCHANGED <<head, commit, base, phase, tree>>
    BY <1>8 DEF UserCommits, UserSaves, UserDeletes, runVars
  <2> QED BY <2>1, <2>2, CommitKeeps
<1>9. CASE UNCHANGED vars
  BY <1>9 DEF vars, Inv, Control, Begun, Work, ClonedAt, SuccessMeansPublished
<1> QED BY <1>1, <1>2, <1>3, <1>4, <1>5, <1>6, <1>7, <1>8, <1>9 DEF Next, RunStep

\* What a push does, seen from the wiki.
LEMMA PushReplaces ==
    ASSUME Inv, NEW r \in Runs, Push(r)
    PROVE  /\ wiki # <<>> /\ commit[r] \in 1 .. head /\ UNCHANGED head
           /\ tree[r] \in SyncedTrees(Docs[commit[r]], CurrentTree)
           /\ wiki' = Append(wiki, [by |-> commit[r], tree |-> tree[r]])
<1>1. phase[r] = "built" /\ base[r] = Len(wiki) /\ UNCHANGED head
      /\ wiki' = Append(wiki, [by |-> commit[r], tree |-> tree[r]])
  BY DEF Push, FastForward
<1>2. /\ base[r] \in 1 .. Len(wiki) /\ commit[r] \in 1 .. head
      /\ tree[r] \in SyncedTrees(Docs[commit[r]], wiki[base[r]].tree)
  BY <1>1 DEF Inv, Work, HasCloned, ClonedAt, Begun
<1>3. wiki # <<>>
  <2> SUFFICES ASSUME wiki = <<>> PROVE FALSE
    OBVIOUS
  <2> QED BY <1>2, EmptySeq
<1> QED BY <1>1, <1>2, <1>3 DEF CurrentTree

-------------------------------------------------------------------------------
\* A run that succeeds has published its documents, or found them published,
\* however many runs and edits it overlaps with.
THEOREM SuccessIsPublication == Spec => []SuccessMeansPublished
<1>1. Inv => SuccessMeansPublished
  BY DEF Inv
<1> QED BY <1>1, InitInv, StepInv, PTL DEF Spec

\* The runs implement the mirror: what looks like a clone, a rebuilt tree and a
\* push, with others in between, is one rebuilding of the tree it replaces.
THEOREM RunsActAtOnce == Spec => ActsAtOnce
<1>1. Init => Mirror!MirrorInit
  BY InstanceIsModule DEF Init
<1>2. Inv /\ [Next]_vars => [Mirror!MirrorNext]_Mirror!mirrorVars
  <2> SUFFICES ASSUME Inv, [Next]_vars PROVE MirrorNext \/ UNCHANGED <<head, wiki>>
    BY InstanceIsModule DEF Mirror!mirrorVars
  <2>1. ASSUME NEW r \in Runs, Push(r) PROVE MirrorNext
    <3>1. Synchronise(commit[r])
      BY <2>1, PushReplaces DEF Synchronise
    <3> QED BY <2>1, <3>1, PushReplaces DEF MirrorNext
  <2>2. CASE UserCommits
    BY <2>2 DEF UserCommits, MirrorNext
  <2>3. ASSUME NEW r \in Runs, PushTriggers(r) PROVE MirrorNext
    BY <2>3 DEF PushTriggers, MirrorNext
  <2>4. ASSUME NEW r \in Runs, \/ WorkflowDispatch(r) \/ NoDocsDir(r) \/ Clone(r) \/ Build(r)
                               \/ NothingChanged(r) \/ PushRefused(r) \/ Fail(r)
        PROVE  UNCHANGED <<head, wiki>>
    BY <2>4 DEF WorkflowDispatch, NoDocsDir, Clone, Build, NothingChanged, PushRefused, Fail
  <2> QED BY <2>1, <2>2, <2>3, <2>4 DEF Next, RunStep, vars
<1> QED BY <1>1, <1>2, InitInv, StepInv, PTL DEF Spec, ActsAtOnce, Mirror!MirrorSpec

\* No run ever removes a protected page or Home, not even one that was written
\* while it was at work.
THEOREM ProtectedPagesAreKept == Spec => ProtectedPagesStay
<1>1. Inv /\ [Next]_vars => [KeepsProtected]_vars
  <2> SUFFICES ASSUME Inv, [Next]_vars, wiki' # wiki, Last(wiki').by # 0,
                      NEW t \in DOMAIN CurrentTree.pages, t[1] \in PrivateWords \/ t = <<"Home">>
               PROVE  t \in DOMAIN CurrentTree'.pages
    BY DEF KeepsProtected
  <2>1. ASSUME UserCommits PROVE FALSE
    <3>1. PICK pages : wiki' = Append(wiki, UserCommit(pages))
      BY <2>1 DEF UserCommits, UserSaves, UserDeletes
    <3>2. Last(wiki').by = 0
      <4>1. Last(wiki') = UserCommit(pages)
        BY <3>1, OneMore DEF Inv, Control
      <4> QED BY <4>1 DEF UserCommit
    <3> QED BY <3>2
  <2>2. PICK r \in Runs : Push(r)
    BY <2>1 DEF Next, RunStep, vars, PushTriggers, PushDocs, WorkflowDispatch, NoDocsDir, Clone,
           Build, NothingChanged, PushRefused, Fail
  <2>3. t \in DOMAIN tree[r].pages
    BY <2>2, PushReplaces, SyncedTreesKeep
  <2>4. CurrentTree' = tree[r]
    <3> DEFINE c == [by |-> commit[r], tree |-> tree[r]]
    <3>1. wiki' = Append(wiki, c) /\ c.tree = tree[r]
      BY <2>2, PushReplaces
    <3> HIDE DEF c
    <3>2. wiki' # <<>> /\ wiki'[Len(wiki')] = c
      BY <3>1, OneMore DEF Inv, Control
    <3> QED BY <3>1, <3>2 DEF CurrentTree
  <2> QED BY <2>3, <2>4
<1> QED BY <1>1, InitInv, StepInv, PTL DEF Spec, ProtectedPagesStay

-------------------------------------------------------------------------------
\* The title of a top-level document is its name: a link to it, without the
\* extension, is a link to its page.
LEMMA TopLevelTitle ==
    ASSUME NEW p, Len(p) = 1
    PROVE  getWikiTitle(p) = p[1]
<1> DEFINE F(f) == [i \in 1 .. Len(p) |-> IF i = 1 THEN p[i] ELSE f[i - 1] \o p[i]]
           flatten == CHOOSE f : f = F(f)
<1>1. \A f : F(f) = [i \in {1} |-> p[1]]
  <2>1. 1 .. 1 = {1}
    OBVIOUS
  <2> QED BY <2>1
<1>2. flatten = F(flatten)
  <2>1. \E f : f = F(f)
    BY <1>1
  <2> HIDE DEF F
  <2> QED BY <2>1
<1>3. flatten[1] = p[1]
  BY <1>1, <1>2
<1>4. FlattenSeq(p) = flatten[1]
  BY DEF FlattenSeq
<1> QED BY <1>3, <1>4 DEF getWikiTitle

LEMMA SyncedTreesLead ==
    ASSUME NEW docs, IsCheckout(docs), NEW old, NEW new \in SyncedTrees(docs, old)
    PROVE  /\ new.sidebar \subseteq DOMAIN new.pages
           /\ \A p \in DOMAIN docs.pages : LET link == new.pages[getWikiTitle(p)].link IN
                 (Len(p) = 1 /\ Len(link.path) = 1 /\ link.path \in DOMAIN docs.pages)
                     => ~ link.md /\ link.path[1] \in DOMAIN new.pages
<1>1. PICK written \in WrittenPages(docs) :
          new = [pages |-> [t \in (DOMAIN old.pages \cup docsWikiTitles(docs)) \ pagesToDelete(docs, old) |->
                               IF t \in docsWikiTitles(docs) THEN written[t] ELSE old.pages[t]],
                 assets |-> [a \in DOMAIN docs.assets \cup DOMAIN old.assets |->
                               IF a \in DOMAIN docs.assets THEN docs.assets[a] ELSE old.assets[a]],
                 sidebar |-> SidebarTitles(docs, old)]
  BY DEF SyncedTrees
<1>2. PICK last \in [docsWikiTitles(docs) -> DOMAIN docs.pages] :
          written = [t \in docsWikiTitles(docs) |-> convertLinksForWiki(docs.pages[last[t]])]
  BY DEF WrittenPages
<1>3. \A p \in DOMAIN docs.pages : getWikiTitle(p) \in docsWikiTitles(docs)
  BY DEF docsWikiTitles
<1>4. \A t \in docsWikiTitles(docs) : t \in DOMAIN new.pages /\ new.pages[t] = written[t]
  BY <1>1 DEF pagesToDelete
<1>5. new.sidebar \subseteq DOMAIN new.pages
  <2>1. \A t \in getAllWikiPages(old) : isProtectedPage(t) => t \in DOMAIN new.pages
    BY <1>1 DEF pagesToDelete, getAllWikiPages
  <2> QED BY <1>1, <1>3, <1>4, <2>1 DEF SidebarTitles
<1>6. \A page \in Page : convertLinksForWiki(page).link.md = FALSE
  <2>1. [External EXCEPT !.md = FALSE].md = FALSE
    BY DEF External
  <2>2. \A link \in [path : Paths, md : BOOLEAN] : [link EXCEPT !.md = FALSE].md = FALSE
    OBVIOUS
  <2>3. \A link \in Links : [link EXCEPT !.md = FALSE].md = FALSE
    BY <2>1, <2>2, Zenon DEF Links
  <2>4. \A page \in Page : /\ page.link \in Links
                           /\ convertLinksForWiki(page).link = [page.link EXCEPT !.md = FALSE]
    BY DEF Page, convertLinksForWiki
  <2> QED BY <2>3, <2>4, Zenon
<1>7. \A t \in docsWikiTitles(docs) : new.pages[t].link.md = FALSE
  <2>1. \A t \in docsWikiTitles(docs) : docs.pages[last[t]] \in Page
    BY DEF IsCheckout, IsFiles
  <2>2. \A t \in docsWikiTitles(docs) : new.pages[t] = convertLinksForWiki(docs.pages[last[t]])
    BY <1>2, <1>4
  <2> QED BY <1>6, <2>1, <2>2
<1>8. ASSUME NEW p \in DOMAIN docs.pages, NEW path \in DOMAIN docs.pages, Len(path) = 1
      PROVE  new.pages[getWikiTitle(p)].link.md = FALSE /\ path[1] \in DOMAIN new.pages
  BY <1>3, <1>4, <1>7, <1>8, TopLevelTitle
<1> QED BY <1>5, <1>8

\* The commits of runs are made of the documents they name.
Published ==
    (wiki # <<>> /\ Last(wiki).by # 0) =>
        /\ Last(wiki).by \in 1 .. head
        /\ \E old : CurrentTree \in SyncedTrees(Docs[Last(wiki).by], old)

LEMMA StepPublished == Inv /\ Published /\ [Next]_vars => Published'
<1> SUFFICES ASSUME Inv, Published, [Next]_vars PROVE Published'
  OBVIOUS
<1>1. ASSUME NEW r \in Runs, Push(r) PROVE Published'
  <2> DEFINE c == [by |-> commit[r], tree |-> tree[r]]
  <2>1. wiki' = Append(wiki, c) /\ c.tree = tree[r] /\ c.by = commit[r]
    BY <1>1, PushReplaces
  <2> HIDE DEF c
  <2>2. wiki' # <<>> /\ wiki'[Len(wiki')] = c /\ Last(wiki') = c
    BY <2>1, OneMore DEF Inv, Control
  <2>3. CurrentTree' = tree[r]
    BY <2>1, <2>2 DEF CurrentTree
  <2> QED BY <1>1, <2>1, <2>2, <2>3, PushReplaces DEF Published
<1>2. CASE UserCommits
  <2>1. PICK pages : wiki' = Append(wiki, UserCommit(pages))
    BY <1>2 DEF UserCommits, UserSaves, UserDeletes
  <2>2. Last(wiki') = UserCommit(pages)
    BY <2>1, OneMore DEF Inv, Control
  <2> QED BY <2>2 DEF UserCommit, Published
<1>3. CASE UNCHANGED wiki /\ head' \in Nat /\ head <= head'
  BY <1>3, Checkouts DEF Published, CurrentTree
<1>4. ASSUME NEW r \in Runs, PushTriggers(r) PROVE Published'
  <2>1. UNCHANGED wiki /\ head' \in Nat /\ head <= head'
    BY <1>4, Checkouts DEF PushTriggers, PushDocs
  <2> QED BY <1>3, <2>1
<1>5. ASSUME NEW r \in Runs, \/ WorkflowDispatch(r) \/ NoDocsDir(r) \/ Clone(r) \/ Build(r)
                             \/ NothingChanged(r) \/ PushRefused(r) \/ Fail(r)
      PROVE  Published'
  <2>1. UNCHANGED <<head, wiki>>
    BY <1>5 DEF WorkflowDispatch, NoDocsDir, Clone, Build, NothingChanged, PushRefused, Fail
  <2> QED BY <1>3, <2>1, Checkouts
<1>6. CASE UNCHANGED vars
  BY <1>3, <1>6, Checkouts DEF vars
<1> QED BY <1>1, <1>2, <1>4, <1>5, <1>6 DEF Next, RunStep

\* In what a run publishes, the sidebar and the links between top-level documents
\* lead to pages, whatever names the documents have.
THEOREM PublishedLinksLead == Spec => []LinksLeadSomewhere
<1>1. Init => Published
  BY DEF Init, MirrorInit, Published, Last
<1>2. Inv /\ Published => LinksLeadSomewhere
  BY Checkouts, SyncedTreesLead DEF Published, LinksLeadSomewhere
<1> QED BY <1>1, <1>2, InitInv, StepInv, StepPublished, PTL DEF Spec

-------------------------------------------------------------------------------
\* Type correctness: what a rebuilt tree and an edited one hold.
LEMMA TreeTypes ==
    /\ IsTree(NoPages)
    /\ \A docs, old : \A new \in SyncedTrees(docs, old) :
          IsCheckout(docs) /\ IsTree(old) => IsTree(new)
<1>1. IsTree(NoPages)
  BY DEF IsTree, IsFiles, NoPages
<1>2. ASSUME NEW docs, NEW old, NEW new \in SyncedTrees(docs, old), IsCheckout(docs), IsTree(old)
      PROVE  IsTree(new)
  <2>1. PICK written \in WrittenPages(docs) :
            new = [pages |-> [t \in (DOMAIN old.pages \cup docsWikiTitles(docs)) \ pagesToDelete(docs, old) |->
                                 IF t \in docsWikiTitles(docs) THEN written[t] ELSE old.pages[t]],
                   assets |-> [a \in DOMAIN docs.assets \cup DOMAIN old.assets |->
                                 IF a \in DOMAIN docs.assets THEN docs.assets[a] ELSE old.assets[a]],
                   sidebar |-> SidebarTitles(docs, old)]
    BY <1>2 DEF SyncedTrees
  <2>2. PICK last \in [docsWikiTitles(docs) -> DOMAIN docs.pages] :
            written = [t \in docsWikiTitles(docs) |-> convertLinksForWiki(docs.pages[last[t]])]
    BY DEF WrittenPages
  <2>3. DOMAIN docs.pages \subseteq Paths /\ \A p \in DOMAIN docs.pages : docs.pages[p] \in Page
    BY <1>2 DEF IsCheckout, IsFiles
  <2>4. docsWikiTitles(docs) \subseteq Titles /\ DOMAIN old.pages \subseteq Titles
    BY <1>2, <2>3 DEF docsWikiTitles, Titles, IsTree, IsFiles
  <2>5. \A page \in Page : convertLinksForWiki(page) \in Page
    <3>1. \A link \in Links : [link EXCEPT !.md = FALSE] \in Links
      <4>0. \A x, y : [[path |-> <<>>, md |-> y] EXCEPT !.md = x] = [path |-> <<>>, md |-> x]
        OBVIOUS
      <4>1. [External EXCEPT !.md = FALSE] = External
        BY <4>0, Zenon DEF External
      <4>2. \A link \in [path : Paths, md : BOOLEAN] :
                [link EXCEPT !.md = FALSE] \in [path : Paths, md : BOOLEAN]
        OBVIOUS
      <4> QED BY <4>1, <4>2, Zenon DEF Links
    <3> SUFFICES ASSUME NEW page \in Page PROVE convertLinksForWiki(page) \in Page
      OBVIOUS
    <3>2. page.link \in Links /\ \A link \in Links : [page EXCEPT !.link = link] \in Page
      BY DEF Page
    <3>3. [page.link EXCEPT !.md = FALSE] \in Links
      BY <3>1, <3>2, Zenon
    <3>4. convertLinksForWiki(page) = [page EXCEPT !.link = [page.link EXCEPT !.md = FALSE]]
      BY DEF convertLinksForWiki
    <3> HIDE DEF convertLinksForWiki
    <3>5. [page EXCEPT !.link = [page.link EXCEPT !.md = FALSE]] \in Page
      BY <3>2, <3>3, Zenon
    <3> QED BY <3>4, <3>5, Zenon
  <2>6. \A t \in docsWikiTitles(docs) : written[t] \in Page
    BY <2>2, <2>3, <2>5
  <2>7. IsFiles(new.pages, Titles, Page)
    <3>1. \A t \in DOMAIN old.pages : old.pages[t] \in Page
      BY <1>2 DEF IsTree, IsFiles
    <3> QED BY <2>1, <2>4, <2>6, <3>1 DEF IsFiles
  <2>8. IsFiles(new.assets, AssetPaths, Revs)
    <3>1. /\ DOMAIN docs.assets \subseteq AssetPaths /\ DOMAIN old.assets \subseteq AssetPaths
          /\ \A a \in DOMAIN docs.assets : docs.assets[a] \in Revs
          /\ \A a \in DOMAIN old.assets : old.assets[a] \in Revs
      BY <1>2 DEF IsTree, IsCheckout, IsFiles
    <3> QED BY <2>1, <3>1 DEF IsFiles
  <2>9. new.sidebar \subseteq Titles
    <3>1. SidebarTitles(docs, old) \subseteq docsWikiTitles(docs) \cup DOMAIN old.pages
      BY DEF SidebarTitles, docsWikiTitles, getAllWikiPages
    <3> QED BY <2>1, <2>4, <3>1
  <2> QED BY <2>7, <2>8, <2>9 DEF IsTree
<1> QED BY <1>1, <1>2

LEMMA EditTypes ==
    ASSUME IsTree(CurrentTree), NEW c,
           \/ \E t \in WikiTitles, p \in UserPages : UserSaves(t, p) /\ Append(wiki, c) = wiki'
           \/ \E t \in WikiTitles : UserDeletes(t) /\ Append(wiki, c) = wiki',
           \E S : wiki \in Seq(S)
    PROVE  c.by = 0 /\ IsTree(c.tree)
<1>1. ASSUME NEW pages, wiki' = Append(wiki, UserCommit(pages)) PROVE c = UserCommit(pages)
  BY <1>1, OneMore
<1>2. /\ DOMAIN CurrentTree.pages \subseteq Titles
      /\ \A t \in DOMAIN CurrentTree.pages : CurrentTree.pages[t] \in Page
      /\ WikiTitles \subseteq Titles /\ UserPages \subseteq Page
  BY WikiAssumption DEF IsTree, IsFiles, Titles
<1>3. PICK pages : c = UserCommit(pages) /\ IsFiles(pages, Titles, Page)
  <2>1. ASSUME NEW t \in WikiTitles, NEW p \in UserPages, UserSaves(t, p)
        PROVE  \E pages : c = UserCommit(pages) /\ IsFiles(pages, Titles, Page)
    <3> DEFINE pages == [u \in DOMAIN CurrentTree.pages \cup {t} |->
                            IF u = t THEN p ELSE CurrentTree.pages[u]]
    <3>1. c = UserCommit(pages)
      BY <1>1, <2>1 DEF UserSaves
    <3>2. IsFiles(pages, Titles, Page)
      BY <1>2 DEF IsFiles
    <3> HIDE DEF pages
    <3> QED BY <3>1, <3>2
  <2>2. ASSUME NEW t \in WikiTitles, UserDeletes(t)
        PROVE  \E pages : c = UserCommit(pages) /\ IsFiles(pages, Titles, Page)
    <3> DEFINE pages == [u \in DOMAIN CurrentTree.pages \ {t} |-> CurrentTree.pages[u]]
    <3>1. c = UserCommit(pages)
      BY <1>1, <2>2 DEF UserDeletes
    <3>2. IsFiles(pages, Titles, Page)
      BY <1>2 DEF IsFiles
    <3> HIDE DEF pages
    <3> QED BY <3>1, <3>2
  <2> QED BY <2>1, <2>2
<1>4. c.by = 0 /\ c.tree = [CurrentTree EXCEPT !.pages = pages]
  BY <1>3 DEF UserCommit
<1> QED BY <1>3, <1>4 DEF IsTree

\* The rest of the type invariant, on top of Inv: a run that has not begun has no
\* commit, and what is kept in the wiki and in clones are trees.
NotBegun == \A r \in Runs : phase[r] = "idle" => commit[r] = 0

Commits == \A i \in 1 .. Len(wiki) : wiki[i].by \in 0 .. Len(Docs) /\ IsTree(wiki[i].tree)

Trees == \A r \in Runs : IsTree(tree[r])

Bounds == edits \in 0 .. MaxEdits /\ faults \in 0 .. MaxFaults

TypeInv == Inv /\ NotBegun /\ Commits /\ Trees /\ Bounds

LEMMA TypesFollow == TypeInv => TypeOK
<1> SUFFICES ASSUME TypeInv PROVE TypeOK
  OBVIOUS
<1>1. /\ head \in 0 .. Len(Docs) /\ phase \in [Runs -> Phases] /\ base \in [Runs -> Nat]
  BY DEF TypeInv, Inv, Control
<1>2. commit \in [Runs -> 0 .. head]
  <2>1. \A r \in Runs : commit[r] \in 0 .. head
    BY Checkouts DEF TypeInv, Inv, Begun, NotBegun
  <2> QED BY <2>1 DEF TypeInv, Inv, Control
<1>3. DOMAIN wiki = 1 .. Len(wiki)
  BY LenProperties DEF TypeInv, Inv, Control
<1> QED BY <1>1, <1>2, <1>3 DEF TypeOK, TypeInv, Commits, Trees, Bounds

LEMMA InitTypeInv == Init => TypeInv
<1> SUFFICES ASSUME Init PROVE TypeInv
  OBVIOUS
<1>1. Commits
  <2>1. CASE wiki = <<>>
    <3>1. Len(wiki) = 0
      BY <2>1
    <3> QED BY <3>1 DEF Commits
  <2>2. CASE wiki = <<[by |-> 0, tree |-> InitialWiki]>>
    <3>1. Len(wiki) = 1 /\ wiki[1].by = 0 /\ wiki[1].tree = InitialWiki
      BY <2>2
    <3> QED BY <3>1, WikiAssumption DEF Commits
  <2> QED BY <2>1, <2>2 DEF Init, MirrorInit
<1>2. NotBegun /\ Trees
  BY TreeTypes DEF Init, NotBegun, Trees
<1>3. Bounds
  BY WikiAssumption DEF Init, Bounds
<1> QED BY <1>1, <1>2, <1>3, InitInv DEF TypeInv

LEMMA MoreCommits ==
    ASSUME Inv, Commits, NEW c, wiki' = Append(wiki, c), c.by \in 0 .. Len(Docs), IsTree(c.tree)
    PROVE  Commits'
<1>1. /\ Len(wiki) \in Nat /\ Len(wiki') = Len(wiki) + 1
      /\ \A i \in 1 .. Len(wiki) : wiki'[i] = wiki[i]
      /\ wiki'[Len(wiki')] = c
  BY OneMore DEF Inv, Control
<1> SUFFICES ASSUME NEW i \in 1 .. Len(wiki')
             PROVE  wiki'[i].by \in 0 .. Len(Docs) /\ IsTree(wiki'[i].tree)
  BY DEF Commits
<1>2. i \in 1 .. Len(wiki) \/ i = Len(wiki')
  BY <1>1
<1> QED BY <1>1, <1>2 DEF Commits

LEMMA CurrentIsTree ==
    ASSUME Inv, Commits
    PROVE  IsTree(CurrentTree)
<1>1. CASE wiki = <<>>
  BY <1>1, TreeTypes DEF CurrentTree
<1>2. CASE wiki # <<>>
  <2>1. Len(wiki) \in 1 .. Len(wiki)
    BY <1>2, LenProperties, EmptySeq DEF Inv, Control
  <2> QED BY <1>2, <2>1 DEF CurrentTree, Commits
<1> QED BY <1>1, <1>2

LEMMA StepTypeInv == TypeInv /\ [Next]_vars => TypeInv'
<1> SUFFICES ASSUME TypeInv, [Next]_vars PROVE TypeInv'
  OBVIOUS
<1>i. Inv /\ Inv' /\ NotBegun /\ Commits /\ Trees /\ Bounds
  BY StepInv DEF TypeInv
<1>b. /\ MaxEdits \in Nat /\ MaxFaults \in Nat /\ edits \in 0 .. MaxEdits
      /\ faults \in 0 .. MaxFaults /\ head \in Nat
      /\ phase \in [Runs -> Phases] /\ commit \in [Runs -> Nat] /\ DOMAIN tree = Runs
      /\ head <= Len(Docs) /\ Len(Docs) \in Nat
  BY <1>i, WikiAssumption, Checkouts DEF Bounds, Inv, Control
<1>e. ASSUME NEW r \in Runs, NEW to \in Ended, End(r, to), UNCHANGED commit
      PROVE  Trees' /\ NotBegun'
  <2>1. /\ phase'[r] = to /\ to # "idle" /\ \A q \in Runs \ {r} : phase'[q] = phase[q]
        /\ \A q \in Runs : tree'[q] = tree[q] \/ tree'[q] = NoPages
    BY <1>b, <1>e DEF End, Go, Ended
  <2> QED BY <1>e, <1>i, <2>1, TreeTypes DEF Trees, NotBegun
<1>1. ASSUME NEW r \in Runs, NEW c, Start(r, c), UNCHANGED wiki PROVE TypeInv'
  <2>1. NotBegun'
    BY <1>1, <1>b, <1>i DEF Start, Go, NotBegun
  <2>2. Commits' /\ Trees' /\ Bounds'
    BY <1>1, <1>i DEF Start, Commits, Trees, Bounds
  <2> QED BY <1>i, <2>1, <2>2 DEF TypeInv
<1>2. ASSUME NEW r \in Runs, NoDocsDir(r) \/ PushRefused(r) \/ NothingChanged(r) \/ Fail(r)
      PROVE  TypeInv'
  <2>1. /\ \E to \in Ended : End(r, to)
        /\ UNCHANGED <<head, wiki, commit, edits>> /\ faults' \in 0 .. MaxFaults
    BY <1>2, <1>b DEF NoDocsDir, PushRefused, NothingChanged, Fail, Ended
  <2>2. Trees' /\ NotBegun'
    BY <1>e, <2>1
  <2>3. Commits' /\ Bounds'
    BY <1>i, <2>1 DEF Commits, Bounds
  <2> QED BY <1>i, <2>2, <2>3 DEF TypeInv
<1>3. ASSUME NEW r \in Runs, Clone(r) PROVE TypeInv'
  <2>1. UNCHANGED <<head, wiki, commit, edits, faults>>
    BY <1>3 DEF Clone
  <2>2. Trees' /\ NotBegun'
    <3>1. wiki = <<>> => Trees' /\ NotBegun'
      <4> SUFFICES ASSUME wiki = <<>> PROVE Trees' /\ NotBegun'
        OBVIOUS
      <4>1. End(r, "failed") /\ "failed" \in Ended
        BY <1>3 DEF Clone, Ended
      <4> QED BY <1>e, <2>1, <4>1
    <3>2. wiki # <<>> => Trees' /\ NotBegun'
      <4> SUFFICES ASSUME wiki # <<>> PROVE Trees' /\ NotBegun'
        OBVIOUS
      <4>1. Go(r, "cloned") /\ tree' = [tree EXCEPT ![r] = CurrentTree]
        BY <1>3 DEF Clone
      <4>2. NotBegun'
        BY <1>b, <1>i, <2>1, <4>1 DEF Go, NotBegun
      <4>3. Trees'
        BY <1>b, <1>i, <4>1, CurrentIsTree DEF Trees
      <4> QED BY <4>2, <4>3
    <3> QED BY <3>1, <3>2
  <2>3. Commits' /\ Bounds'
    BY <1>i, <2>1 DEF Commits, Bounds
  <2> QED BY <1>i, <2>2, <2>3 DEF TypeInv
<1>4. ASSUME NEW r \in Runs, Build(r) PROVE TypeInv'
  <2>1. /\ phase[r] = "cloned" /\ Go(r, "built")
        /\ UNCHANGED <<head, wiki, commit, edits, faults>>
    BY <1>4 DEF Build
  <2>2. PICK t \in SyncedTrees(Docs[commit[r]], tree[r]) : tree' = [tree EXCEPT ![r] = t]
    BY <1>4 DEF Build
  <2>3. IsTree(t)
    BY <1>i, <2>1, TreeTypes, Checkouts DEF Trees
  <2>4. Trees'
    BY <1>b, <1>i, <2>2, <2>3 DEF Trees
  <2>5. NotBegun'
    BY <1>b, <1>i, <2>1 DEF Go, NotBegun
  <2>6. Commits' /\ Bounds'
    BY <1>i, <2>1 DEF Commits, Bounds
  <2> QED BY <1>i, <2>4, <2>5, <2>6 DEF TypeInv
<1>5. ASSUME NEW r \in Runs, Push(r) PROVE TypeInv'
  <2> DEFINE c == [by |-> commit[r], tree |-> tree[r]]
  <2>1. wiki' = Append(wiki, c) /\ c.by = commit[r] /\ c.tree = tree[r] /\ commit[r] \in 1 .. head
    BY <1>5, <1>i, PushReplaces
  <2>2. c.by \in 0 .. Len(Docs) /\ IsTree(c.tree)
    BY <1>b, <1>i, <2>1 DEF Trees
  <2> HIDE DEF c
  <2>3. Commits'
    BY <1>i, <2>1, <2>2, MoreCommits
  <2>4. (\E to \in Ended : End(r, to)) /\ UNCHANGED <<commit, edits>> /\ faults' \in 0 .. MaxFaults
    BY <1>5, <1>b DEF Push, Ended
  <2>5. Trees' /\ NotBegun'
    BY <1>e, <2>4
  <2>6. Bounds'
    BY <1>i, <2>4 DEF Bounds
  <2> QED BY <1>i, <2>3, <2>5, <2>6 DEF TypeInv
<1>6. CASE UserCommits
  <2>1. UNCHANGED <<phase, commit, tree, faults>> /\ edits' \in 0 .. MaxEdits
    BY <1>6, <1>b DEF UserCommits, runVars
  <2>2. PICK c : wiki' = Append(wiki, c)
    BY <1>6 DEF UserCommits, UserSaves, UserDeletes
  <2>3. c.by = 0 /\ IsTree(c.tree)
    BY <1>6, <1>i, <2>2, EditTypes, CurrentIsTree DEF UserCommits, Inv, Control
  <2>4. Commits'
    BY <1>b, <1>i, <2>2, <2>3, MoreCommits
  <2>5. Trees' /\ NotBegun' /\ Bounds'
    BY <1>i, <2>1 DEF Trees, NotBegun, Bounds
  <2> QED BY <1>i, <2>4, <2>5 DEF TypeInv
<1>7. CASE UNCHANGED vars
  BY <1>7, <1>i DEF vars, TypeInv, NotBegun, Commits, Trees, Bounds
<1> QED BY <1>1, <1>2, <1>3, <1>4, <1>5, <1>6, <1>7
        DEF Next, RunStep, PushTriggers, PushDocs, WorkflowDispatch

\* Every commit of the wiki and every clone is a tree of pages, whatever overlaps.
THEOREM WikiIsTyped == Spec => []TypeOK
BY InitTypeInv, StepTypeInv, TypesFollow, PTL DEF Spec
===============================================================================
