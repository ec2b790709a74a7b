------------------------------- MODULE DocTools -------------------------------
(***************************************************************************)
(* The tools that work on docs/*.md while somebody edits them:             *)
(* docs/script/toc-single.js, which .vscode/settings.json starts at each   *)
(* save; npm run toc, which treats all files; and generate-pdf.js.  They   *)
(* share nothing but the files, and none of them locks one.                *)
(*                                                                         *)
(* doctoc and decode-toc.js each read a whole file and write it later.     *)
(* toc-single.js runs one after the other on its file, npm run toc runs    *)
(* doctoc on every file and then decode-toc.js on every file.              *)
(***************************************************************************)
EXTENDS TocFormat

CONSTANTS
    FileOrder,     \* the Markdown files below docs, in the order they sort in
    Bodies,        \* what a file may say
    InitialDocs,   \* files as earlier saves and runs have left them
    Jobs,          \* bound: table of contents tools at work at one time
    MaxStarts      \* bound: how often one is started

Files == Range(FileOrder)

\* A document as the tools see it: two spaces for each level of its table.
Document == {d \in [body : Bodies, toc : Seq(Entry)] : \A i \in DOMAIN d.toc : d.toc[i].indent % 2 = 0}

ASSUME DocsAssumption ==
    /\ FileOrder \in Seq(Files) /\ FileOrder # <<>> /\ IsInjective(FileOrder)
    /\ Bodies \subseteq Body
    /\ \A d \in InitialDocs : d \in Document
    /\ MaxStarts \in Nat

VARIABLES
    docs,      \* each file: its body and its table of contents
    job,       \* what each table of contents tool is doing
    starts,    \* how often one was started (for the bound)
    pdf,       \* the run of generate-pdf.js
    output     \* pdf-output: the files whose PDF shows what they say or lately said

vars == <<docs, job, starts, pdf, output>>

Nothing == [body |-> [above |-> <<>>, below |-> <<>>], toc |-> <<>>]
Idle == [stage |-> "idle", files |-> <<>>, todo |-> <<>>, read |-> Nothing, alone |-> FALSE]
NoRun == [stage |-> "idle", matched |-> {}, todo |-> {}, failed |-> {}, exit |-> 0]

\* What is left to do of a list is what follows some position in it.
RestOf(files) == {SubSeq(files, n, Len(files)) : n \in 1 .. Len(files) + 1}

TypeOK ==
    /\ DOMAIN docs = Files /\ \A f \in Files : docs[f] \in Document
    /\ \A j \in Jobs :
          /\ job[j].stage \in {"idle", "doctoc", "decode"}
          /\ job[j].todo \in RestOf(job[j].files) /\ Range(job[j].files) \subseteq Files
          /\ job[j].read = Nothing \/ job[j].read \in Document
          /\ job[j].stage = "idle" <=> job[j].todo = <<>>
    /\ starts \in 0 .. MaxStarts
    /\ pdf.stage \in {"idle", "running", "ended", "aborted"}
    /\ pdf.todo \cup pdf.failed \subseteq pdf.matched /\ pdf.matched \subseteq Files
    /\ pdf.exit \in {0, 1}
    /\ output \subseteq Files

Init ==
    /\ docs \in [Files -> InitialDocs]
    /\ job = [j \in Jobs |-> Idle]
    /\ starts = 0
    /\ pdf = NoRun
    /\ output = {}

-------------------------------------------------------------------------------
\* A tool is alone if no other tool has, and nobody saves, one of its files
\* while it works.
Shares(i, files) == Range(job[i].files) \cap Range(files) # {}

Started(j, files) ==
    /\ job[j] = Idle /\ starts < MaxStarts
    /\ starts' = starts + 1
    /\ job' = [i \in Jobs |->
          IF i = j
          THEN [stage |-> "doctoc", files |-> files, todo |-> files, read |-> Nothing,
                alone |-> \A k \in Jobs : ~ Shares(k, files)]
          ELSE [job[i] EXCEPT !.alone = @ /\ ~ Shares(i, files)]]

\* The editor saves a file, with the table of contents it has on disk but perhaps
\* moved, and starts toc-single.js.
Save(j, f) ==
    /\ \E b \in Bodies : docs' = [docs EXCEPT ![f].body = b]
    /\ Started(j, <<f>>)
    /\ UNCHANGED <<pdf, output>>

\* npm run toc
TocAll(j) == Started(j, FileOrder) /\ UNCHANGED <<docs, pdf, output>>

ReadFile(j) ==
    /\ job[j].todo # <<>> /\ job[j].read = Nothing
    /\ job' = [job EXCEPT ![j].read = docs[Head(job[j].todo)]]
    /\ UNCHANGED <<docs, starts, pdf, output>>

\* The file is written as it was read, but for its table of contents.
WriteFile(j, toc) ==
    /\ job[j].read # Nothing
    /\ docs' = [docs EXCEPT ![Head(job[j].todo)] = [job[j].read EXCEPT !.toc = toc]]
    /\ UNCHANGED <<starts, pdf, output>>

\* Variant, to be rejected: decode-toc.js goes on with doctoc's list.
SharedList(j) ==
    /\ job[j].stage = "doctoc"
    /\ WriteFile(j, doctoc(job[j].read))
    /\ job' = [job EXCEPT ![j].read = Nothing,
                          ![j].stage = IF Len(job[j].todo) = 1 THEN "decode" ELSE "doctoc",
                          ![j].todo = Tail(@)]

\* doctoc; decode-toc.js is started after its last file.
DoctocWrites(j) ==
    /\ job[j].stage = "doctoc"
    /\ WriteFile(j, doctoc(job[j].read))
    /\ job' = [job EXCEPT ![j].read = Nothing,
                          ![j].stage = IF Len(job[j].todo) = 1 THEN "decode" ELSE "doctoc",
                          ![j].todo = IF Len(@) = 1 THEN job[j].files ELSE Tail(@)]

DecodeWrites(j) ==
    /\ job[j].stage = "decode"
    /\ WriteFile(j, decode(job[j].read.body, job[j].read.toc))
    /\ job' = [job EXCEPT ![j] = IF Len(job[j].todo) = 1 THEN Idle
                                 ELSE [job[j] EXCEPT !.read = Nothing, !.todo = Tail(@)]]

\* doctoc or decode-toc.js fails, or is interrupted; execFileSync throws.
JobStops(j) ==
    /\ job[j] # Idle
    /\ job' = [job EXCEPT ![j] = Idle]
    /\ UNCHANGED <<docs, starts, pdf, output>>

-------------------------------------------------------------------------------
\* generate-pdf.js.  The arguments are joined to one pattern, which may match any
\* files; several file names match none.
PdfStarts(matched) ==
    /\ pdf = NoRun
    /\ pdf' = [NoRun EXCEPT !.stage = IF matched = {} THEN "ended" ELSE "running",
                            !.matched = matched, !.todo = matched]
    /\ UNCHANGED <<docs, job, starts, output>>

\* The files are converted in the order they sort in.
NextToConvert(f) ==
    \E i \in DOMAIN FileOrder :
        /\ FileOrder[i] = f /\ f \in pdf.todo
        /\ \A k \in 1 .. i - 1 : FileOrder[k] \notin pdf.todo

Converted(f) ==
    /\ output' = output \cup {f}
    /\ pdf' = [pdf EXCEPT !.todo = @ \ {f}]

\* Variant, to be rejected: what went wrong is logged only.
FailureLogged(f) == pdf' = [pdf EXCEPT !.todo = @ \ {f}] /\ UNCHANGED output

FailureRecorded(f) ==
    /\ pdf' = [pdf EXCEPT !.todo = @ \ {f}, !.failed = @ \cup {f}]
    /\ UNCHANGED output

\* mdToPdf resolves to a PDF, or to nothing, or rejects.
ConvertToPdf ==
    /\ pdf.stage = "running"
    /\ \E f \in Files : NextToConvert(f) /\ (Converted(f) \/ FailureRecorded(f))
    /\ UNCHANGED <<docs, job, starts>>

\* mkdirSync throws outside the try statement: main rejects.
PdfAborts ==
    /\ pdf.stage = "running" /\ pdf.todo # {}
    /\ pdf' = [pdf EXCEPT !.stage = "aborted", !.exit = 1]
    /\ UNCHANGED <<docs, job, starts, output>>

PdfEnds ==
    /\ pdf.stage = "running" /\ pdf.todo = {}
    /\ pdf' = [pdf EXCEPT !.stage = "ended", !.exit = IF pdf.failed # {} THEN 1 ELSE 0]
    /\ UNCHANGED <<docs, job, starts, output>>

-------------------------------------------------------------------------------
Next ==
    \/ \E j \in Jobs :
          \/ \E f \in Files : Save(j, f)
          \/ TocAll(j) \/ ReadFile(j) \/ DoctocWrites(j) \/ DecodeWrites(j) \/ JobStops(j)
    \/ \E matched \in SUBSET Files : PdfStarts(matched)
    \/ ConvertToPdf \/ PdfAborts \/ PdfEnds

Spec == Init /\ [][Next]_vars

-------------------------------------------------------------------------------
\* A tool that was alone with its files leaves in a regular document the table of
\* contents that decode-toc.js promises for what it says, with the title above the table
\* or below it, whatever an interrupted or overlapping run before has left there.
AloneLeavesTheRightToc ==
    [][\A j \in Jobs : (job[j].alone /\ DecodeWrites(j)) =>
          LET f == Head(job[j].todo)
          IN  Regular(docs'[f].body) => docs'[f].toc = Expected(docs'[f].body.below)]_vars

\* The exit code of generate-pdf.js is 0 if and only if every file that its
\* pattern matched has a new PDF; one that fails does not keep the others back.
ExitCodeTells ==
    /\ pdf.stage \in {"ended", "aborted"} =>
          (pdf.exit = 0 <=> \A f \in pdf.matched : f \in output)
    /\ pdf.stage = "ended" => \A f \in pdf.matched : f \in pdf.failed \/ f \in output
===============================================================================
