---------------------------- MODULE MCBrowserUI ----------------------------
(***************************************************************************)
(* BrowserUI for TLC: two loads, two jobs, a source of ten characters.       *)
(***************************************************************************)
EXTENDS BrowserUI

TwoLoads == {1, 2}

File(name, length, kind) == [name |-> name, length |-> length, kind |-> kind]

\* A selection that is cut, one whose first file just fills the source, one that
\* is whole (an empty file included), one that has more files than are considered,
\* and one of which only skipped files are.
SmallSelections == {
    << File("a", 3, "text"), File("b", 5, "binary"), File("c", 4, "text") >>,
    << File("d", 8, "text"), File("e", 1, "text") >>,
    << File("j", 0, "text"), File("k", 2, "text") >>,
    << File("l", 1, "text"), File("m", 9, "large"), File("n", 9, "binary"),
       File("o", 1, "text") >>,
    << File("f", 9, "large"), File("g", 9, "large"), File("h", 9, "large"),
       File("i", 1, "text") >> }
=============================================================================
