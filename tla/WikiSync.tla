------------------------------- MODULE WikiSync -------------------------------
(***************************************************************************)
(* The runs of docs/script/sync-docs-to-wiki.js, as .github/workflows/     *)
(* sync-wiki.yml starts them: one per push to main that changes docs/wiki, *)
(* and by hand.  The workflow has no concurrency group, so runs overlap,   *)
(* with each other and with people who edit the wiki in the browser.       *)
(*                                                                         *)
(* A run clones the wiki, rebuilds the tree, commits and pushes; it is     *)
(* alone in its working copy, so what it does between clone and push is    *)
(* one step.  Every job has a fresh workspace: actions/checkout leaves no  *)
(* .wiki-temp of an earlier run, and the branch that pulls is not taken.   *)
(***************************************************************************)
EXTENDS WikiMirror

CONSTANTS
    MaxRuns,     \* bound: jobs the workflow may start
    MaxEdits,    \* bound: commits by wiki users
    MaxFaults    \* bound: commands that fail, jobs that are cancelled

ASSUME WikiAssumption ==
    /\ Len(Docs) \in Nat /\ DOMAIN Docs = 1 .. Len(Docs)
    /\ \A i \in DOMAIN Docs : IsCheckout(Docs[i])
    /\ IsTree(InitialWiki)
    /\ UserPages \subseteq Page
    /\ MaxRuns \in Nat
    /\ MaxEdits \in Nat
    /\ MaxFaults \in Nat

VARIABLES
    phase,    \* where the job is
    commit,   \* the commit of main it has checked out
    base,     \* how many commits the wiki had when it was cloned
    tree,     \* the clone: as cloned, then as rebuilt, at last removed
    edits,    \* commits by wiki users so far (for the bound)
    faults    \* faults so far (for the bound)

Runs == 1 .. MaxRuns
runVars == <<phase, commit, base, tree>>
vars == <<head, wiki, phase, commit, base, tree, edits, faults>>

Phases == {"idle", "queued", "cloned", "built", "succeeded", "failed"}
Ended == {"succeeded", "failed"}

TypeOK ==
    /\ head \in 0 .. Len(Docs)
    /\ \A i \in DOMAIN wiki : wiki[i].by \in 0 .. Len(Docs) /\ IsTree(wiki[i].tree)
    /\ phase \in [Runs -> Phases]
    /\ commit \in [Runs -> 0 .. head]
    /\ base \in [Runs -> Nat]
    /\ \A r \in Runs : IsTree(tree[r])
    /\ edits \in 0 .. MaxEdits
    /\ faults \in 0 .. MaxFaults

Init ==
    /\ MirrorInit
    /\ phase = [r \in Runs |-> "idle"]
    /\ commit = [r \in Runs |-> 0]
    /\ base = [r \in Runs |-> 0]
    /\ tree = [r \in Runs |-> NoPages]
    /\ edits = 0
    /\ faults = 0

-------------------------------------------------------------------------------
Go(r, to) == phase' = [phase EXCEPT ![r] = to]

\* The end of a run: finally removes the clone.
End(r, to) == Go(r, to) /\ tree' = [tree EXCEPT ![r] = NoPages]

\* Runs are numbered as they are started, and their commit is fixed (GITHUB_SHA).
Start(r, c) ==
    /\ phase[r] = "idle"
    /\ \A q \in 1 .. r - 1 : phase[q] # "idle"
    /\ Go(r, "queued")
    /\ commit' = [commit EXCEPT ![r] = c]
    /\ UNCHANGED <<base, tree, edits, faults>>

PushTriggers(r) == PushDocs /\ Start(r, head + 1)

\* Variant, to be rejected: the commit is counted from one on the one hand and
\* from zero on the other.
NextCommit(r) == head > 0 /\ Start(r, head + 1) /\ UNCHANGED <<head, wiki>>

WorkflowDispatch(r) == head > 0 /\ Start(r, head) /\ UNCHANGED <<head, wiki>>

\* docs/wiki does not exist when it holds no file.
NoDocsDir(r) ==
    /\ phase[r] = "queued"
    /\ DOMAIN Docs[commit[r]].pages = {} /\ DOMAIN Docs[commit[r]].assets = {}
    /\ End(r, "failed")
    /\ UNCHANGED <<head, wiki, commit, base, edits, faults>>

\* git clone; it fails as long as the wiki repository does not exist.
Clone(r) ==
    /\ phase[r] = "queued"
    /\ DOMAIN Docs[commit[r]].pages # {} \/ DOMAIN Docs[commit[r]].assets # {}
    /\ IF wiki = <<>>
       THEN End(r, "failed") /\ UNCHANGED base
       ELSE /\ Go(r, "cloned")
            /\ base' = [base EXCEPT ![r] = Len(wiki)]
            /\ tree' = [tree EXCEPT ![r] = CurrentTree]
    /\ UNCHANGED <<head, wiki, commit, edits, faults>>

\* From the listing of the clone to the staged deletions.
Build(r) ==
    /\ phase[r] = "cloned"
    /\ \E t \in SyncedTrees(Docs[commit[r]], tree[r]) : tree' = [tree EXCEPT ![r] = t]
    /\ Go(r, "built")
    /\ UNCHANGED <<head, wiki, commit, base, edits, faults>>

\* git diff --cached --quiet finds nothing.
NothingChanged(r) ==
    /\ phase[r] = "built"
    /\ tree[r] = wiki[base[r]].tree
    /\ End(r, "succeeded")
    /\ UNCHANGED <<head, wiki, commit, base, edits, faults>>

\* Variant, to be rejected: git push --force.
Forced(r) == TRUE

\* The server takes a push that extends its branch.
FastForward(r) == base[r] = Len(wiki)

\* git commit and git push: the tree becomes the wiki's, or the push is refused
\* and the job fails.  The answer of a push that was taken may be lost.
Push(r) ==
    /\ phase[r] = "built"
    /\ tree[r] # wiki[base[r]].tree
    /\ FastForward(r)
    /\ wiki' = Append(wiki, [by |-> commit[r], tree |-> tree[r]])
    /\ \/ End(r, "succeeded") /\ UNCHANGED faults
       \/ faults < MaxFaults /\ faults' = faults + 1 /\ End(r, "failed")
    /\ UNCHANGED <<head, commit, base, edits>>

\* Variant, to be rejected: the refusal is caught and the run ends well.
RefusalIgnored(r) ==
    /\ phase[r] = "built"
    /\ tree[r] # wiki[base[r]].tree
    /\ ~ FastForward(r)
    /\ End(r, "succeeded")
    /\ UNCHANGED <<head, wiki, commit, base, edits, faults>>

\* Variant, to be rejected: a refused push is tried again without a new clone.
RefusalRetried(r) ==
    /\ phase[r] = "built"
    /\ tree[r] # wiki[base[r]].tree
    /\ ~ FastForward(r)
    /\ UNCHANGED vars

PushRefused(r) ==
    /\ phase[r] = "built"
    /\ tree[r] # wiki[base[r]].tree
    /\ ~ FastForward(r)
    /\ End(r, "failed")
    /\ UNCHANGED <<head, wiki, commit, base, edits, faults>>

\* A command or file access throws and the job ends with exit code 1, or the job
\* is cancelled and its workspace is discarded.
Fail(r) ==
    /\ phase[r] \in {"queued", "cloned", "built"}
    /\ faults < MaxFaults
    /\ faults' = faults + 1
    /\ End(r, "failed")
    /\ UNCHANGED <<head, wiki, commit, base, edits>>

UserCommits ==
    /\ edits < MaxEdits
    /\ edits' = edits + 1
    /\ \/ \E t \in WikiTitles, p \in UserPages : UserSaves(t, p)
       \/ \E t \in WikiTitles : UserDeletes(t)
    /\ UNCHANGED runVars /\ UNCHANGED faults

RunStep(r) ==
    \/ NoDocsDir(r) \/ Clone(r) \/ Build(r) \/ NothingChanged(r) \/ Push(r) \/ PushRefused(r)

Next ==
    \/ UserCommits
    \/ \E r \in Runs : PushTriggers(r) \/ WorkflowDispatch(r) \/ RunStep(r) \/ Fail(r)

Spec == Init /\ [][Next]_vars

\* GitHub runs the jobs it has queued, and every command returns.
FairSpec == Spec /\ \A r \in Runs : WF_vars(RunStep(r))

-------------------------------------------------------------------------------
\* Overlapping runs and edits act as if each run rebuilt the wiki in one step
\* from the tree it replaces: what a run did not see, it does not take back.
Mirror == INSTANCE WikiMirror WITH head <- head, wiki <- wiki
ActsAtOnce == Mirror!MirrorSpec

\* The tree shows the documents: each title has the text of a file of that title,
\* assets are theirs, and no other page is left that is not protected.
Shows(t, docs) ==
    /\ \A title \in docsWikiTitles(docs) :
          /\ title \in DOMAIN t.pages
          /\ \E p \in DOMAIN docs.pages :
                getWikiTitle(p) = title /\ t.pages[title].rev = docs.pages[p].rev
    /\ \A a \in DOMAIN docs.assets : a \in DOMAIN t.assets /\ t.assets[a] = docs.assets[a]
    /\ \A title \in DOMAIN t.pages :
          \/ title \in docsWikiTitles(docs)
          \/ title[1] \in PrivateWords
          \/ title = <<"Home">>

\* A run that reports success has published its documents, or found them
\* published when it cloned; later commits may have changed them since.
SuccessMeansPublished ==
    \A r \in Runs : phase[r] = "succeeded" =>
        \E i \in base[r] .. Len(wiki) : Shows(wiki[i].tree, Docs[commit[r]])

\* The pages the script says it keeps ("[private]" and Home, l. 48-49 and 171)
\* outlast every run, however it overlaps with the people who write them.
KeepsProtected ==
    \A t \in DOMAIN CurrentTree.pages :
        (wiki' # wiki /\ Last(wiki').by # 0 /\ (t[1] \in PrivateWords \/ t = <<"Home">>))
            => t \in DOMAIN CurrentTree'.pages

ProtectedPagesStay == [][KeepsProtected]_vars

\* In what a run publishes, the sidebar names existing pages only, and a link
\* between two top-level documents leads to the page of the other.
LinksLeadSomewhere ==
    (wiki # <<>> /\ Last(wiki).by # 0) =>
        LET pages == CurrentTree.pages
            docs == Docs[Last(wiki).by].pages
        IN  /\ CurrentTree.sidebar \subseteq DOMAIN pages
            /\ \A p \in DOMAIN docs : LET link == pages[getWikiTitle(p)].link IN
                  (Len(p) = 1 /\ Len(link.path) = 1 /\ link.path \in DOMAIN docs)
                      => ~ link.md /\ link.path[1] \in DOMAIN pages

\* Every run that is started ends, refused pushes included.
RunsEnd == \A r \in Runs : phase[r] = "queued" ~> phase[r] \in Ended
===============================================================================
