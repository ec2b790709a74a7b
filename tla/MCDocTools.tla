------------------------------ MODULE MCDocTools ------------------------------
\* An instance of DocTools: a document with its title above the table and three levels
\* below it; one that has no table yet, so that the title comes below it; one without a
\* title; and one with a section that has the name of the title.
EXTENDS DocTools

TheFiles == <<"f", "g">>

H(level, title) == [level |-> level, title |-> title]

Usual == [above |-> <<H(1, "t")>>, below |-> <<H(2, "a"), H(3, "b"), H(4, "c"), H(2, "d")>>]
Fresh == [above |-> <<>>, below |-> <<H(1, "t"), H(2, "a"), H(3, "b")>>]
Untitled == [above |-> <<>>, below |-> <<H(2, "a"), H(3, "b")>>]
Namesake == [above |-> <<H(1, "t")>>, below |-> <<H(2, "t"), H(3, "b")>>]

TheBodies == {Usual, Fresh, Untitled, Namesake}

\* As a run leaves it; without a table; and as two overlapping runs have left it.
TheInitialDocs == {
    [body |-> Usual, toc |-> Expected(Usual.below)],
    [body |-> Fresh, toc |-> <<>>],
    [body |-> Untitled, toc |-> decode(Untitled, Expected(Untitled.below))]}
===============================================================================
