------------------------------ MODULE WikiMirror ------------------------------
(***************************************************************************)
(* What the wiki synchronisation promises, without its runs: the wiki is a *)
(* line of commits, each made by a user or from one commit of the          *)
(* documents, and a commit of the second kind is computed from the very    *)
(* tree it replaces, so that it takes back nothing it has not seen.        *)
(***************************************************************************)
EXTENDS WikiTree

CONSTANTS
    Docs,           \* docs/wiki at each commit of main that changes it
    InitialWiki,    \* the tree of a wiki that has been used before
    UserPages       \* what wiki users write

VARIABLES
    head,   \* how many commits of Docs are on main
    wiki    \* the commits of the wiki's master branch

mirrorVars == <<head, wiki>>

NoPages == [pages |-> <<>>, assets |-> <<>>, sidebar |-> {}]

\* A wiki repository does not exist before its first page is saved.
MirrorInit ==
    /\ head = 0
    /\ wiki \in {<<>>, <<[by |-> 0, tree |-> InitialWiki]>>}

CurrentTree == IF wiki = <<>> THEN NoPages ELSE wiki[Len(wiki)].tree

PushDocs ==
    /\ head < Len(Docs)
    /\ head' = head + 1
    /\ UNCHANGED wiki

\* A commit of the wiki; by = 0 stands for a wiki user, other numbers for a
\* commit of Docs.
UserCommit(pages) == [by |-> 0, tree |-> [CurrentTree EXCEPT !.pages = pages]]

UserSaves(title, page) ==
    /\ wiki' = Append(wiki, UserCommit([t \in DOMAIN CurrentTree.pages \cup {title} |->
                                            IF t = title THEN page ELSE CurrentTree.pages[t]]))
    /\ UNCHANGED head

UserDeletes(title) ==
    /\ title \in DOMAIN CurrentTree.pages
    /\ wiki' = Append(wiki, UserCommit([t \in DOMAIN CurrentTree.pages \ {title} |->
                                            CurrentTree.pages[t]]))
    /\ UNCHANGED head

Synchronise(commit) ==
    /\ wiki # <<>>
    /\ \E tree \in SyncedTrees(Docs[commit], CurrentTree) :
           wiki' = Append(wiki, [by |-> commit, tree |-> tree])
    /\ UNCHANGED head

MirrorNext ==
    \/ PushDocs
    \/ \E t \in WikiTitles, p \in UserPages : UserSaves(t, p)
    \/ \E t \in WikiTitles : UserDeletes(t)
    \/ \E c \in 1 .. head : Synchronise(c)

MirrorSpec == MirrorInit /\ [][MirrorNext]_mirrorVars
===============================================================================
