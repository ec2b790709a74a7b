------------------------------ MODULE MCWikiSync ------------------------------
\* An instance of WikiSync: three commits of the documents.  The second drops a
\* page and adds two files with one title, the third empties the directory.
EXTENDS WikiSync

A == <<<<"a">>>>
B == <<<<"b">>>>
SA == <<<<"s">>, <<"a">>>>     \* s/a.md
SDashA == <<<<"s", "a">>>>     \* s-a.md

ThePaths == {A, B, SA, SDashA}
TheWikiTitles == {<<"b">>, <<"[private]", "n">>, <<"Home">>}
Text(rev, link) == [rev |-> rev, link |-> link]
To(path) == [path |-> path, md |-> TRUE]
WikiText == Text(0, External)

ThePages == {WikiText}

TheDocs == <<
    [pages |-> (A :> Text(1, To(B)) @@ B :> Text(1, External)), assets |-> ("png" :> 1)],
    [pages |-> (A :> Text(2, To(SA)) @@ SA :> Text(2, To(A)) @@ SDashA :> Text(1, External)),
     assets |-> <<>>],
    [pages |-> <<>>, assets |-> <<>>]>>

TheWiki == [pages |-> (<<"Home">> :> WikiText @@ <<"b">> :> WikiText
                           @@ <<"[private]", "n">> :> WikiText),
            assets |-> <<>>, sidebar |-> {}]
===============================================================================
