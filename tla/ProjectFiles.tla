---------------------------- MODULE ProjectFiles ----------------------------
(***************************************************************************)
(* What loadProjectFiles (static/app.js) makes of a selection of files: it  *)
(* skips large and binary files and joins the others, each under a header,  *)
(* until the source is full.  A text is known by its length.                *)
(***************************************************************************)
EXTENDS Integers, SequencesExt

CONSTANTS
    MaxSource,               \* MAX_SOURCE_CHARACTERS
    MaxFiles,                \* MAX_FILES
    FirstHeader, NextHeader  \* length of the header of the first file, of a later one

ASSUME ProjectFilesAssumption ==
    {MaxSource, MaxFiles, FirstHeader, NextHeader} \subseteq Nat \ {0}

shorter(x, y) == IF x < y THEN x ELSE y

Considered(selection) == SubSeq(selection, 1, shorter(Len(selection), MaxFiles))

\* Large files are skipped unread: where there are no others, nothing is awaited.
NothingToRead(selection) ==
    \A k \in 1 .. Len(Considered(selection)) : Considered(selection)[k].kind = "large"

Part(name, length) == [name |-> name, length |-> length]

Nothing(selection) ==
    [parts |-> << >>, used |-> 0, clipped |-> Len(selection) > MaxFiles, full |-> FALSE]

\* Faulty variant: the headers are not counted.
AddFileUncounted(source, file) ==
    LET remaining == MaxSource - source.used
        body == shorter(file.length, remaining)
    IN  IF source.full \/ file.kind # "text" THEN source
        ELSE IF remaining <= 0 THEN [source EXCEPT !.clipped = TRUE, !.full = TRUE]
        ELSE [parts   |-> Append(source.parts, Part(file.name, body)),
              used    |-> source.used + body,
              clipped |-> source.clipped \/ body < file.length,
              full    |-> source.used + body >= MaxSource]

\* Faulty variant: a file that is cut is not reported.
AddFileSilently(source, file) ==
    LET header == IF source.parts = << >> THEN FirstHeader ELSE NextHeader
        remaining == MaxSource - source.used - header
        body == shorter(file.length, remaining)
        used == source.used + header + body
    IN  IF source.full \/ file.kind # "text" THEN source
        ELSE IF remaining <= 0 THEN [source EXCEPT !.clipped = TRUE, !.full = TRUE]
        ELSE [parts   |-> Append(source.parts, Part(file.name, body)),
              used    |-> used,
              clipped |-> source.clipped,
              full    |-> used >= MaxSource]

\* What a file adds, unless it is skipped; `full' stands for the breaks of the loop.
AddFile(source, file) ==
    LET header == IF source.parts = << >> THEN FirstHeader ELSE NextHeader
        remaining == MaxSource - source.used - header
        body == shorter(file.length, remaining)
        used == source.used + header + body
    IN  IF source.full \/ file.kind # "text" THEN source
        ELSE IF remaining <= 0 THEN [source EXCEPT !.clipped = TRUE, !.full = TRUE]
        ELSE [parts   |-> Append(source.parts, Part(file.name, body)),
              used    |-> used,
              clipped |-> source.clipped \/ body < file.length,
              full    |-> used >= MaxSource]

Assemble(selection) == FoldLeft(AddFile, Nothing(selection), Considered(selection))

\* The characters of the joined parts, headers included.
TotalLength(parts) ==
    SumFunction([k \in 1 .. Len(parts) |->
                    parts[k].length + (IF k = 1 THEN FirstHeader ELSE NextHeader)])

NamesOf(parts) == [k \in 1 .. Len(parts) |-> parts[k].name]
=============================================================================
