---------------------------- MODULE OutputReader ----------------------------
(***************************************************************************)
(* DockerSandboxExecutor._read_bounded (execution.py): one task for each    *)
(* stream of the docker client reads to the end of the stream and keeps no  *)
(* more than the limit; execute collects both when the client is gone.      *)
(*                                                                         *)
(* A byte is its number in the stream.  The pipe stands for the kernel's    *)
(* pipe and the StreamReader's buffer: a command that finds it full blocks. *)
(***************************************************************************)
EXTENDS Integers, Sequences

CONSTANTS
    Streams,     \* stdout and stderr
    Limits,      \* the values of max_output_bytes, which nothing validates
    Chunk,       \* the most that one read() returns, 16_384
    Capacity,    \* what a pipe holds
    MaxWritten,  \* bound: bytes a command writes to a stream
    NoResult

ASSUME OutputReaderAssumption ==
    /\ Limits \subseteq Int
    /\ Chunk \in Nat \ {0}
    /\ Capacity \in Nat \ {0}
    /\ MaxWritten \in Nat

VARIABLES
    limit,       \* policy.max_output_bytes
    written,     \* how much the command has written to each stream
    closed,      \* whether the client is gone
    pipe,        \* bytes written and not yet read
    retained, truncated, done,   \* each reader's
    result       \* what execute has made of the streams

readersVars == << limit, written, closed, pipe, retained, truncated, done, result >>

least(x, y) == IF x < y THEN x ELSE y

\* The bytes from number x to number y.
Bytes(x, y) == [k \in 1 .. (y - x + 1) |-> x + k - 1]

ReadersInit ==
    /\ limit \in Limits
    /\ written = [s \in Streams |-> 0]
    /\ closed = FALSE
    /\ pipe = [s \in Streams |-> << >>]
    /\ retained = [s \in Streams |-> << >>]
    /\ truncated = [s \in Streams |-> FALSE]
    /\ done = [s \in Streams |-> FALSE]
    /\ result = NoResult

\* The command writes n bytes, for which the pipe has room.
Write(s, n) ==
    /\ ~ closed
    /\ Len(pipe[s]) + n <= Capacity
    /\ written[s] + n <= MaxWritten
    /\ written' = [written EXCEPT ![s] = @ + n]
    /\ pipe' = [pipe EXCEPT ![s] = @ \o Bytes(written[s] + 1, written[s] + n)]
    /\ UNCHANGED << limit, closed, retained, truncated, done, result >>

\* The client ends or is killed, at any moment.
Close ==
    /\ ~ closed
    /\ closed' = TRUE
    /\ UNCHANGED << limit, written, pipe, retained, truncated, done, result >>

-----------------------------------------------------------------------------
\* What is retained of a chunk, and whether any of it is not.
Kept(s, n) ==
    LET remaining == limit - Len(retained[s])
    IN  IF remaining > 0 THEN SubSeq(pipe[s], 1, least(n, remaining)) ELSE << >>

\* Faulty variant: a chunk that just fits counts as truncated.
OverflowsFull(s, n) == n >= limit - Len(retained[s])

Overflows(s, n) == n > limit - Len(retained[s])

\* Faulty variant: nothing more is read when the limit is reached.
ReadUntilLimit(s, n) ==
    /\ ~ done[s]
    /\ Len(retained[s]) < limit
    /\ n <= Len(pipe[s])
    /\ retained' = [retained EXCEPT ![s] = @ \o Kept(s, n)]
    /\ truncated' = [truncated EXCEPT ![s] = @ \/ Overflows(s, n)]
    /\ pipe' = [pipe EXCEPT ![s] = SubSeq(@, n + 1, Len(@))]
    /\ UNCHANGED << limit, written, closed, done, result >>

\* read() returns a chunk of n bytes.
Read(s, n) ==
    /\ ~ done[s]
    /\ n <= Len(pipe[s])
    /\ retained' = [retained EXCEPT ![s] = @ \o Kept(s, n)]
    /\ truncated' = [truncated EXCEPT ![s] = @ \/ Overflows(s, n)]
    /\ pipe' = [pipe EXCEPT ![s] = SubSeq(@, n + 1, Len(@))]
    /\ UNCHANGED << limit, written, closed, done, result >>

\* read() returns nothing: the stream is at its end.
Eof(s) ==
    /\ ~ done[s]
    /\ closed
    /\ pipe[s] = << >>
    /\ done' = [done EXCEPT ![s] = TRUE]
    /\ UNCHANGED << limit, written, closed, pipe, retained, truncated, result >>

Collected == [output |-> retained, truncated |-> \E s \in Streams : truncated[s]]

\* Faulty variant: the readers are not awaited.
CollectAtOnce ==
    /\ closed
    /\ result = NoResult
    /\ result' = Collected
    /\ UNCHANGED << limit, written, closed, pipe, retained, truncated, done >>

\* execute, once the client is gone: await both readers, make the result.
Collect ==
    /\ closed
    /\ \A s \in Streams : done[s]
    /\ result = NoResult
    /\ result' = Collected
    /\ UNCHANGED << limit, written, closed, pipe, retained, truncated, done >>

-----------------------------------------------------------------------------
ReadersNext ==
    \/ \E s \in Streams :
           \/ \E n \in 1 .. Capacity : Write(s, n)
           \/ \E n \in 1 .. Chunk : Read(s, n)
           \/ Eof(s)
    \/ Close
    \/ Collect

ReadersSpec == ReadersInit /\ [][ReadersNext]_readersVars

\* The event loop runs the readers and execute.  A command may stop writing, and
\* a client may never end.
FairReadersSpec ==
    /\ ReadersSpec
    /\ WF_readersVars(Collect)
    /\ \A s \in Streams : WF_readersVars(Eof(s)) /\ WF_readersVars(\E n \in 1 .. Chunk : Read(s, n))

-----------------------------------------------------------------------------
(* Properties.                                                              *)

\* What the limit leaves of n bytes; a limit below zero leaves nothing.
Allowed(n) == IF limit <= 0 THEN 0 ELSE least(n, limit)

\* At every moment a reader holds exactly the first bytes of what was read, up to
\* the limit, and says truncated just when it has dropped any, however the output
\* was cut into chunks: the memory of the executor does not grow with the output.
ReaderExact ==
    \A s \in Streams :
        LET received == written[s] - Len(pipe[s])
        IN  /\ pipe[s] = Bytes(received + 1, written[s])
            /\ retained[s] = Bytes(1, Allowed(received))
            /\ truncated[s] <=> received > Allowed(received)

\* The result accounts for everything the command wrote before it ended or was
\* killed, on both streams, to the last byte in the pipes.
ResultComplete ==
    result # NoResult =>
        /\ \A s \in Streams : result.output[s] = Bytes(1, Allowed(written[s]))
        /\ result.truncated <=> \E s \in Streams : written[s] > Allowed(written[s])

\* However much a command writes, to either stream, it is never left blocked.
NeverBlocked ==
    \A s \in Streams : (Len(pipe[s]) = Capacity) ~> (Len(pipe[s]) < Capacity)

\* When the client is gone both readers end and there is a result, which is what
\* Execution's Finish takes for granted.
ResultComes == closed ~> (result # NoResult)
=============================================================================
