---------------------------- MODULE ExecutionOps ----------------------------
(***************************************************************************)
(* The decisions of execution.py that keep no state: what the policy of the *)
(* sandbox permits, and what is left of a command's output when it is sent  *)
(* back to a model.                                                         *)
(*                                                                         *)
(* A request has the fields of ExecutionRequest.  Its workspace is "job" (a *)
(* directory below the root), or what is wrong with it; program is the first*)
(* word of the command; path says whether that is a path, nul whether there *)
(* is a NUL among the arguments or the values of the environment.           *)
(***************************************************************************)
EXTENDS Integers, Sequences
LOCAL INSTANCE SequencesExt

CONSTANTS NoProgram    \* the command is empty

\* Faulty variant: the lower end of the timeout is forgotten.
PermittedUnlessLong(policy, request) ==
    /\ request.workspace = "job"
    /\ request.runtime \in policy.images
    /\ request.program # NoProgram /\ ~ request.path
    /\ request.runtime \in DOMAIN policy.commands
    /\ request.program \in policy.commands[request.runtime]
    /\ request.timeout <= policy.maxTimeout
    /\ ~ request.nul
    /\ request.environment \subseteq policy.environment

\* SandboxPolicy.validate raises nothing.
Permitted(policy, request) ==
    /\ request.workspace = "job"
    /\ request.runtime \in policy.images
    /\ request.program # NoProgram /\ ~ request.path
    /\ request.runtime \in DOMAIN policy.commands
    /\ request.program \in policy.commands[request.runtime]
    /\ request.timeout > 0 /\ request.timeout <= policy.maxTimeout
    /\ ~ request.nul
    /\ request.environment \subseteq policy.environment

-----------------------------------------------------------------------------
(* Output is a sequence of lines; a line is any value.  The cut to max_chars*)
(* counts characters in the code, lines here.                               *)

FirstOf(n, s) == SubSeq(s, 1, IF n < Len(s) THEN n ELSE Len(s))
LastOf(n, s) == SubSeq(s, IF n < Len(s) THEN Len(s) - n + 1 ELSE 1, Len(s))

\* Every line where it occurs first.
Distinct(s) ==
    FoldLeft(LAMBDA seen, line : IF \E i \in 1 .. Len(seen) : seen[i] = line THEN seen
                                 ELSE Append(seen, line), << >>, s)

\* The first lines that look like errors and the last lines, 40 of each.
Selected(output, Relevant, some) ==
    Distinct(FirstOf(some, SelectSeq(output, LAMBDA line : line \in Relevant))
             \o LastOf(some, output))

\* diagnostic_summary, whose first line is the header.
DiagnosticSummary(result, header, Relevant, some, maxLines) ==
    LET output == result.stdout \o result.stderr
    IN  IF output = << >> THEN << header >>
        ELSE FirstOf(maxLines, << header >> \o Selected(output, Relevant, some))
=============================================================================
