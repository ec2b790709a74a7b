------------------------------- MODULE WikiTree -------------------------------
(***************************************************************************)
(* What docs/script/sync-docs-to-wiki.js makes of a checked out docs/wiki  *)
(* directory and a clone of the GitHub wiki: the tree it commits.          *)
(*                                                                         *)
(* A path is the sequence of its directory names and its file name, and a  *)
(* name the sequence of the words between its hyphens, so that a/b.md and  *)
(* a-b.md are two paths with one title.  A tree has the pages at its top   *)
(* level, the other files, and _Sidebar.md.                                *)
(***************************************************************************)
EXTENDS SequencesExt

CONSTANTS
    Paths,          \* Markdown files below docs/wiki that may exist
    AssetPaths,     \* other files
    BackupPaths,    \* the Markdown files whose path includes wiki-backup
    PrivateWords,   \* first words of a title that begin with "[private]"
    WikiTitles,     \* titles that wiki users give to pages of their own
    Revs            \* revisions of the text of a file

\* A link in a page, as it is written: its path, and whether it ends in .md
\* (before the anchor, if there is one).  External stands for http(s) URLs.
External == [path |-> <<>>, md |-> FALSE]
Links == {External} \cup [path : Paths, md : BOOLEAN]
Page == [rev : Revs, link : Links]

\* getWikiTitle: no extension, and a hyphen for each path separator.
getWikiTitle(path) == FlattenSeq(path)

Titles == {getWikiTitle(p) : p \in Paths} \cup WikiTitles

IsFiles(f, names, contents) == DOMAIN f \subseteq names /\ f \in [DOMAIN f -> contents]

\* What a checkout of docs/wiki holds, by path, and what a wiki holds, by title.
IsCheckout(docs) ==
    IsFiles(docs.pages, Paths, Page) /\ IsFiles(docs.assets, AssetPaths, Revs)
IsTree(tree) ==
    /\ IsFiles(tree.pages, Titles, Page)
    /\ IsFiles(tree.assets, AssetPaths, Revs)
    /\ tree.sidebar \subseteq Titles

docsWikiTitles(docs) == {getWikiTitle(p) : p \in DOMAIN docs.pages}

\* Variant, to be rejected: links keep their extension.
KeepLinks(page) == page

convertLinksForWiki(page) == [page EXCEPT !.link.md = FALSE]

\* Home is never listed, nor is _Sidebar, which is a component of its own.
getAllWikiPages(tree) == DOMAIN tree.pages \ {<<"Home">>}

\* Variant, to be rejected: only the listed pages are protected.
OnlyListedPages(title) == FALSE

\* PROTECTED_WIKI_PAGES is empty.
isProtectedPage(title) == title[1] \in PrivateWords

\* Later files overwrite earlier ones of the same title, in the order in which
\* readdir lists them: any of them may be the last one.
WrittenPages(docs) ==
    {[t \in docsWikiTitles(docs) |-> convertLinksForWiki(docs.pages[last[t]])] :
        last \in {f \in [docsWikiTitles(docs) -> DOMAIN docs.pages] :
                     \A t \in docsWikiTitles(docs) : getWikiTitle(f[t]) = t}}

\* Pages are removed that were in the clone and that neither the documents nor
\* their protection keep.
pagesToDelete(docs, tree) ==
    {t \in getAllWikiPages(tree) : ~ isProtectedPage(t) /\ t \notin docsWikiTitles(docs)}

SidebarTitles(docs, tree) ==
    {getWikiTitle(p) : p \in DOMAIN docs.pages \ BackupPaths}
        \cup {t \in getAllWikiPages(tree) : isProtectedPage(t)}

\* The trees that the loop over the files, the copying of assets, the sidebar
\* and the deletions may leave in the index.  Assets are only ever added.
SyncedTrees(docs, tree) ==
    {[pages |-> [t \in (DOMAIN tree.pages \cup docsWikiTitles(docs)) \ pagesToDelete(docs, tree) |->
                    IF t \in docsWikiTitles(docs) THEN written[t] ELSE tree.pages[t]],
      assets |-> [a \in DOMAIN docs.assets \cup DOMAIN tree.assets |->
                    IF a \in DOMAIN docs.assets THEN docs.assets[a] ELSE tree.assets[a]],
      sidebar |-> SidebarTitles(docs, tree)] : written \in WrittenPages(docs)}
===============================================================================
