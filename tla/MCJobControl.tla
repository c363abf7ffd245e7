---------------------------- MODULE MCJobControl ----------------------------
(* JobControl with the commands a configuration types.                       *)
EXTENDS JobControl

Command(n, a) == [name |-> n, arg |-> a]

\* Every kind of command; a pipe has two stages; fg and bg name job ids
\* whose job may be running, stopped, terminated or absent.
AllCommands ==
    {Command(n, 0) : n \in {"run", "runbg", "jobs"}}
      \cup {Command("pipe", 2)}
      \cup {Command(n, j) : n \in {"fg", "bg"}, j \in 1 .. 2}

\* What it takes to bring a background job back.
FgCommands == {Command("runbg", 0), Command("fg", 1)}
=============================================================================
