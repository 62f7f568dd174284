---------------------------- MODULE MCExecution ----------------------------
(***************************************************************************)
(* Execution for TLC: two pipelines of two commands that share a            *)
(* request_id; the policy refuses the second of Bob's.                      *)
(***************************************************************************)
EXTENDS Execution, TLC, FiniteSets
LOCAL INSTANCE SequencesExt

CONSTANTS Alice, Bob, a, b

TwoWorkers == {Alice, Bob}
TwoNames == {a, b}

Command(name) ==
    [name |-> name, workspace |-> "job", runtime |-> "python", program |-> "pytest",
     path |-> FALSE, timeout |-> 120, nul |-> FALSE, environment |-> {"CI"}]

SmallPolicy ==
    [images |-> {"python", "go"}, commands |-> [python |-> {"pytest", "ruff"}],
     maxTimeout |-> 300, environment |-> {"CI", "NO_COLOR"}]

SharedPipeline ==
    (Alice :> << Command(a), Command(b) >>)
    @@ (Bob :> << Command(b), [Command(b) EXCEPT !.timeout = 0] >>)

\* Each other way to break the policy is refused on its own.
ASSUME PolicyRefuses ==
    \A broken \in {[Command(a) EXCEPT !.workspace = "root"],
                   [Command(a) EXCEPT !.runtime = "rust"],
                   [Command(a) EXCEPT !.runtime = "go"],
                   [Command(a) EXCEPT !.program = NoProgram],
                   [Command(a) EXCEPT !.program = "sh"], [Command(a) EXCEPT !.path = TRUE],
                   [Command(a) EXCEPT !.timeout = 301],
                   [Command(a) EXCEPT !.nul = TRUE],
                   [Command(a) EXCEPT !.environment = {"CI", "HOME"}]} :
        ~ Permitted(SmallPolicy, broken)

Errors == {"error 1", "error 2"}
Outputs == SeqOf(Errors \cup {"progress"}, 5)

\* What a model is told of a failed command, against what was printed: no line
\* twice, none made up, and an error line is missing only when `some' error lines,
\* repeated ones counted, come before it and `some' lines after it.
ASSUME DiagnosticsAreFaithful ==
    \A output \in Outputs, some \in 1 .. 2 :
        LET told == Selected(output, Errors, some)
        IN  /\ IsInjective(told) /\ Len(told) <= 2 * some
            /\ ToSet(told) \subseteq ToSet(output)
            /\ \A i \in 1 .. Len(output) : output[i] \notin ToSet(told) =>
                   /\ i <= Len(output) - some
                   /\ output[i] \in Errors =>
                          Cardinality({ k \in 1 .. i - 1 : output[k] \in Errors }) >= some

\* Standard error follows standard output, and a command that failed silently is
\* reported as well.
ASSUME NothingIsSilent ==
    \A stdout, stderr \in SeqOf(Errors, 2) :
        LET told == DiagnosticSummary([stdout |-> stdout, stderr |-> stderr],
                                      "header", Errors, 2, 3)
        IN  /\ Head(told) = "header" /\ Len(told) <= 3
            /\ stdout \o stderr # << >> => told[2] = Head(stdout \o stderr)
=============================================================================
