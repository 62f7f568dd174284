----------------------------- MODULE BrowserUI -----------------------------
(***************************************************************************)
(* The page of static/app.js: file loads that overlap each other, edits and *)
(* the one job it may have in flight, which ends with an answer or without. *)
(*                                                                         *)
(* A handler runs without interruption up to its await, so a load is the    *)
(* choice of the files and, when their texts have been read, its end; a job *)
(* is its submission and the end of its try statement.  How long the job    *)
(* may take is RouteTime's subject; here it ends at any moment.             *)
(***************************************************************************)
EXTENDS ProjectFiles

CONSTANTS
    Selections,        \* what the user may choose
    SampleFile,        \* the name of the sample
    Loads,             \* loads that may be in flight
    MaxJobs,           \* bound: jobs submitted
    Absent

\* The header of the sample leaves room for its text.
ASSUME BrowserUIAssumption ==
    /\ MaxJobs \in Nat /\ FirstHeader < MaxSource
    /\ Selections \subseteq
           Seq([name : STRING, length : Nat, kind : {"text", "binary", "large"}])

VARIABLES
    text,          \* the source: typed, or the parts of a load
    names,         \* loadedNames
    message,       \* fileMessage, as far as it is about the latest load
    loads,         \* the selections being read
    job,           \* its number, and whether it runs (the run button is disabled)
    resultViews, activeResultView, resultContent,
    tabsHidden, panelHidden

sourceVars == << text, names, message, loads >>
resultVars == << resultViews, activeResultView, resultContent, tabsHidden, panelHidden >>
pageVars == << sourceVars, job, resultVars >>

Typed == [typed |-> TRUE, parts |-> << >>]
Empty == [typed |-> FALSE, parts |-> << >>]
Views == {"full", "code", "notes"}
NoViews == [view \in Views |-> Absent]

PageInit ==
    /\ text = Empty
    /\ names = << >>
    /\ message = "other"
    /\ loads = [l \in Loads |-> Absent]
    /\ job = [number |-> 0, running |-> FALSE]
    /\ resultViews = NoViews
    /\ activeResultView = "full"
    /\ resultContent = Absent
    /\ tabsHidden = TRUE
    /\ panelHidden = TRUE

-----------------------------------------------------------------------------
(* The source.                                                              *)

SetSourceText(parts, loadedNames) ==
    /\ text' = [typed |-> FALSE, parts |-> parts]
    /\ names' = loadedNames

\* Faulty variant: the names are kept.
EditKeepingNames ==
    /\ text' \in {Typed, Empty}
    /\ message' = "other"
    /\ UNCHANGED << names, loads, job, resultVars >>

Edit ==
    /\ text' \in {Typed, Empty}
    /\ names' = << >>
    /\ message' = "other"
    /\ UNCHANGED << loads, job, resultVars >>

\* The rest of loadProjectFiles, when the texts are there.
Loaded(selection) ==
    LET source == Assemble(selection)
    IN  IF source.parts = << >>
        THEN message' = "unreadable" /\ UNCHANGED << text, names >>
        ELSE /\ SetSourceText(source.parts, NamesOf(source.parts))
             /\ message' = IF source.clipped THEN "trimmed" ELSE "ready"

\* A selection none of whose files is read ends at once.
Choose(l, selection) ==
    /\ loads[l] = Absent
    /\ IF NothingToRead(selection)
       THEN Loaded(selection) /\ UNCHANGED loads
       ELSE /\ loads' = [loads EXCEPT ![l] = selection]
            /\ UNCHANGED << text, names, message >>
    /\ UNCHANGED << job, resultVars >>

LoadEnds(l) ==
    /\ loads[l] # Absent
    /\ Loaded(loads[l])
    /\ loads' = [loads EXCEPT ![l] = Absent]
    /\ UNCHANGED << job, resultVars >>

\* A file cannot be read: the promise of the load is rejected, nobody is told.
LoadFails(l) ==
    /\ loads[l] # Absent
    /\ loads' = [loads EXCEPT ![l] = Absent]
    /\ UNCHANGED << text, names, message, job, resultVars >>

UseSample ==
    /\ SetSourceText(<< Part(SampleFile, 1) >>, << SampleFile >>)
    /\ message' = "other"
    /\ UNCHANGED << loads, job, resultVars >>

-----------------------------------------------------------------------------
(* The job.                                                                 *)

\* Faulty variant: the tabs of the result before stay.
SubmitKeepingTabs ==
    /\ ~ job.running
    /\ job.number < MaxJobs
    /\ text # Empty
    /\ job' = [number |-> job.number + 1, running |-> TRUE]
    /\ resultContent' = Absent
    /\ panelHidden' = FALSE
    /\ UNCHANGED << sourceVars, resultViews, activeResultView, tabsHidden >>

Submit ==
    /\ ~ job.running
    /\ job.number < MaxJobs
    /\ text # Empty
    /\ job' = [number |-> job.number + 1, running |-> TRUE]
    /\ resultContent' = Absent
    /\ panelHidden' = FALSE
    /\ tabsHidden' = TRUE
    /\ UNCHANGED << sourceVars, resultViews, activeResultView >>

\* The finally of the try statement.
JobEnds == job' = [job EXCEPT !.running = FALSE]

\* splitResult: the answer, its first block of code and what is left without it.
\* An answer may be empty, have no code, an empty block, or nothing else.
Answers == { views \in [Views -> {job.number, Absent}] :
                views["full"] = Absent => views = NoViews }

\* showResultView: nothing happens when there is nothing to see.
ShowResultView(views, view) ==
    IF views[view] = Absent
    THEN UNCHANGED << activeResultView, resultContent >>
    ELSE activeResultView' = view /\ resultContent' = << view, views[view] >>

\* The response is there, and it is a success.
Receive ==
    /\ job.running
    /\ \E views \in Answers :
           /\ resultViews' = views
           /\ tabsHidden' = (views["code"] = Absent /\ views["notes"] = Absent)
           /\ ShowResultView(views, "full")
    /\ JobEnds
    /\ UNCHANGED << sourceVars, panelHidden >>

\* The catch of the try statement: the deadline aborts the fetch or the wait for
\* its body, the connection breaks, at any time, or the response is an error.
JobFails ==
    /\ job.running
    /\ resultViews' = [NoViews EXCEPT !["full"] = job.number]
    /\ resultContent' = << "full", job.number >>
    /\ JobEnds
    /\ UNCHANGED << sourceVars, activeResultView, tabsHidden, panelHidden >>

-----------------------------------------------------------------------------
(* The result.                                                              *)

\* A tab is clicked; one without content is disabled.
SelectTab(view) ==
    /\ ~ tabsHidden /\ ~ panelHidden
    /\ resultViews[view] # Absent
    /\ ShowResultView(resultViews, view)
    /\ UNCHANGED << sourceVars, job, resultViews, tabsHidden, panelHidden >>

\* New job, also while one is running.
NewJob ==
    /\ ~ panelHidden
    /\ SetSourceText(<< >>, << >>)
    /\ message' = "other"
    /\ panelHidden' = TRUE
    /\ UNCHANGED << loads, job, resultViews, activeResultView, resultContent, tabsHidden >>

-----------------------------------------------------------------------------
PageNext ==
    \/ Edit \/ UseSample \/ Submit \/ NewJob
    \/ \E l \in Loads :
           \/ \E selection \in Selections : Choose(l, selection)
           \/ LoadEnds(l) \/ LoadFails(l)
    \/ Receive \/ JobFails
    \/ \E view \in Views : SelectTab(view)

PageSpec == PageInit /\ [][PageNext]_pageVars

-----------------------------------------------------------------------------
(* Properties.                                                              *)

\* Every variable has its type, and no load leaves setSourceText a text to cut.
PageTypeOK ==
    /\ text.typed \in BOOLEAN
    /\ TotalLength(text.parts) <= MaxSource
    /\ names \in Seq({SampleFile} \cup
                     UNION { { selection[k].name : k \in 1 .. Len(selection) } :
                             selection \in Selections })
    /\ message \in {"other", "unreadable", "trimmed", "ready"}
    /\ loads \in [Loads -> Selections \cup {Absent}]
    /\ job \in [number : 0 .. MaxJobs, running : BOOLEAN]
    /\ resultViews \in [Views -> 1 .. MaxJobs \cup {Absent}]
    /\ activeResultView \in Views
    /\ resultContent \in (Views \X (1 .. MaxJobs)) \cup {Absent}
    /\ tabsHidden \in BOOLEAN /\ panelHidden \in BOOLEAN

\* loadedNames, which goes into the prompt, names the files whose text is in the
\* source, in order, and is empty for typed code, however loads, edits, samples
\* and new jobs overlap.
NamesDescribeSource == names = NamesOf(text.parts)

\* Where tabs can be seen, what is shown is the view of the active tab of the
\* latest job's answer, whatever the jobs before it left selected.
TabsTellTheTruth ==
    (~ tabsHidden /\ ~ panelHidden) =>
        resultContent = << activeResultView, job.number >>

\* The parts that a selection makes when nothing is lost.
AddWhole(parts, file) ==
    IF file.kind = "text" THEN Append(parts, Part(file.name, file.length)) ELSE parts
Whole(selection) == FoldLeft(AddWhole, << >>, Considered(selection))

\* What the page says of a load is true: "content trimmed" only when something was
\* lost, and "ready to route" only when every file that could be read is in the
\* source, whole; but for the files behind one that fills the source to its last
\* character, which are dropped without a word.
LossIsReported ==
    [][text' # text =>
        /\ message' = "ready" =>
               \E l \in Loads :
                   /\ loads[l] # Absent
                   /\ Len(loads[l]) <= MaxFiles
                   /\ \/ text'.parts = Whole(loads[l])
                      \/ /\ IsPrefix(text'.parts, Whole(loads[l]))
                         /\ TotalLength(text'.parts) = MaxSource
        /\ message' = "trimmed" =>
               \E l \in Loads :
                   loads[l] # Absent /\ (Len(loads[l]) > MaxFiles \/ text'.parts # Whole(loads[l]))]_pageVars
=============================================================================
