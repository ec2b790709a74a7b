------------------------------ MODULE TocFormat ------------------------------
(***************************************************************************)
(* What docs/script/decode-toc.js makes of a table of contents that doctoc *)
(* has written, and what its header (l. 1-6) promises of the result.       *)
(*                                                                         *)
(* A document is the headings above its table of contents and those below  *)
(* it; a file that has no table yet counts as one with an empty table at    *)
(* its top, where doctoc puts a new one.  An entry of the table is the      *)
(* indentation in spaces, the title, and whether its anchor is still raw:   *)
(* encoded, and with the middle dots that GitHub drops.                     *)
(***************************************************************************)
EXTENDS Integers, SequencesExt

Smallest(S) == CHOOSE n \in S : \A m \in S : n <= m

\* The members of a sequence at some positions, in their order: SelectSeq, in terms
\* that can be reasoned about.
Before(S, x) == {y \in S : y < x}
Nth(S, n) == CHOOSE x \in S : Cardinality(Before(S, x)) = n - 1
At(s, S) == [n \in 1 .. Cardinality(S) |-> s[Nth(S, n)]]

Heading == [level : 1 .. 6, title : STRING]
Body == [above : Seq(Heading), below : Seq(Heading)]
Entry == [indent : Nat, title : STRING, raw : BOOLEAN]

Level1(part) == {i \in DOMAIN part : part[i].level = 1}

\* The first H1 of the file, on whichever side of the table it stands; a file without
\* one has no title.
h1Title(body) ==
    LET part == IF Level1(body.above) # {} THEN body.above ELSE body.below
    IN  IF Level1(part) = {} THEN "" ELSE part[Smallest(Level1(part))].title

\* External: doctoc --github --maxlevel 3 --notitle.
Listed(part) == {i \in DOMAIN part : part[i].level <= 3}

TopLevel(part) == Smallest({part[i].level : i \in Listed(part)})

Table(part) ==
    LET listed == At(part, Listed(part))
    IN  [n \in DOMAIN listed |-> [indent |-> 2 * (listed[n].level - TopLevel(part)),
                                  title |-> listed[n].title, raw |-> TRUE]]

\* Only what stands below the table is listed; a table with nothing to list stays.
doctoc(doc) == IF Listed(doc.body.below) = {} THEN doc.toc ELSE Table(doc.body.below)

Outdented(toc) == [i \in DOMAIN toc |-> [toc[i] EXCEPT !.indent = IF @ >= 2 THEN @ - 2 ELSE @]]

TitleLines(toc, title) == {i \in DOMAIN toc : toc[i].title = title /\ toc[i].indent = 0}

\* Variant, to be rejected: every line moves left, whether the title was listed or not.
AlwaysOutdented(toc, title) ==
    LET hits == TitleLines(toc, title)
    IN  Outdented(IF hits = {} THEN toc ELSE RemoveAt(toc, Smallest(hits)))

\* The first line that links to the title goes, and only then the others move left.
WithoutTitle(toc, title) ==
    LET hits == TitleLines(toc, title)
    IN  IF title = "" \/ hits = {} THEN toc ELSE Outdented(RemoveAt(toc, Smallest(hits)))

\* What is edited begins at the first "- [": the spaces before it stay as they are,
\* and come before what is the first line then.
Lead(toc) == IF toc = <<>> THEN 0 ELSE toc[1].indent

Edited(toc) == [i \in DOMAIN toc |-> [toc[i] EXCEPT !.indent = IF i = 1 THEN 0 ELSE @]]

\* Two spaces become four: what has four already gets eight.
decode(body, toc) ==
    LET kept == WithoutTitle(Edited(toc), h1Title(body))
    IN  [i \in DOMAIN kept |->
            [kept[i] EXCEPT !.indent = 4 * (@ \div 2) + (IF i = 1 THEN Lead(toc) ELSE 0),
                            !.raw = FALSE]]

\* The reference, by the headings below the table: all listed ones but the title, four
\* spaces for each level below the topmost one (below the sections if the title is
\* among them), and clean anchors.
Expected(part) ==
    LET titled == Level1(part) # {}
        left == At(part, Listed(part) \ (IF titled THEN {Smallest(Level1(part))} ELSE {}))
        top == IF titled THEN 2 ELSE TopLevel(part)
    IN  [n \in DOMAIN left |-> [indent |-> 4 * (left[n].level - top),
                                title |-> left[n].title, raw |-> FALSE]]

\* The documents for which the promise is kept.  There is something to list, and none
\* of it further left than what comes first.
TopmostFirst(part) == \A i \in Listed(part) : part[i].level >= part[Smallest(Listed(part))].level

\* No section at the margin of the table has the name: decode-toc.js would take it for
\* the title.
NoNamesake(part, title) ==
    \A i \in Listed(part) : part[i].level = TopLevel(part) => part[i].title # title

\* One H1 at most, which says something.
OneTitle(part) == \A i, k \in Level1(part) : i = k /\ part[i].title # ""

\* The title stands above the table, or, where doctoc has put it, below.
TitleAbove(body) ==
    Level1(body.above) # {} /\ Level1(body.below) = {} /\ NoNamesake(body.below, h1Title(body))
TitleBelow(body) == Level1(body.above) = {} /\ OneTitle(body.below)

Regular(body) ==
    /\ Listed(body.below) # {} /\ TopmostFirst(body.below)
    /\ TitleAbove(body) \/ TitleBelow(body)
===============================================================================
