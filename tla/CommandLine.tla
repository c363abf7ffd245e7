----------------------------- MODULE CommandLine -----------------------------
(* What the shell does with a line (tsh/skeleton): Interpret takes it apart, *)
(* RunCmd runs a built-in command, substitutes an alias, or starts programs; *)
(* RunCmdPipe starts the stages of a pipe one after the other, each when the *)
(* one before has ended.  What signals and job ids add to this is in         *)
(* JobControl: here a program runs until it exits.                           *)
(*                                                                           *)
(* At most one program that the shell waits for is alive; what it sets up    *)
(* between fork and execv touches only its own descriptors and is part of    *)
(* the fork.                                                                 *)
EXTENDS LineParser

CONSTANTS Lines,         \* the lines that are typed: their text, and what is meant
          NameOrder,     \* the names of aliases in the order of strcmp
          Path,          \* the programs in each directory of PATH
          Programs,      \* whether a program reads its input, and how much it writes
          Dirs,          \* the directories that chdir knows
          InFiles,       \* the files that can be opened for reading
          OutFiles,      \* the files that can be opened for writing
          PipeCap,       \* what a pipe holds
          MaxFails       \* bound: how often fork fails in the shell

ASSUME NameOrderAssumption == NameOrder \in Seq(Text)

NoChild == [stage |-> 0]

VARIABLES
    lpc,        \* where the shell is
    commands,   \* what Interpret made of the line
    stage,      \* the command that RunCmdPipe is at
    aliases,    \* the list of aliases
    cwd,        \* the working directory
    held,       \* the ends of the line's pipes that the shell has open
    pipe,       \* what is in each pipe
    child,      \* the program the shell waits for
    meant,      \* history: what the user means by the line
    ran,        \* history: the programs that the line started
    fails,      \* how often fork has failed: from then on SIGCHLD is blocked
    leaked,     \* how many ends of pipes of earlier lines are still open
    broken,     \* history: why the line was not carried out, {} if it was
    defs        \* history: the aliases as the user defined them

typedVars  == <<commands, meant>>
tableVars == <<aliases, defs, cwd>>
pipeVars  == <<held, pipe>>
forkVars == <<fails, leaked>>
lineVars == <<lpc, typedVars, stage, tableVars, pipeVars, child, forkVars, ran, broken>>

Stages == 1 .. 3
NoPipes == [k \in Stages |-> 0]
ReadEnd(k)  == <<k, "r">>
WriteEnd(k) == <<k, "w">>

LineInit ==
    /\ lpc = "prompt"
    /\ commands = <<>> /\ stage = 1
    /\ aliases = <<>> /\ defs = <<>>
    /\ cwd \in Dirs
    /\ held = {} /\ pipe = NoPipes /\ child = NoChild
    /\ fails = 0 /\ leaked = 0
    /\ meant = [op |-> "none"] /\ ran = <<>> /\ broken = {}

\* Interpret: the commands of a text, and where RunCmd starts on them.
Interprets(text) ==
    \E cmds \in {Interpret[text]} :
        /\ commands' = cmds
        /\ stage' = 1
        /\ \/ Len(cmds) = 0 /\ lpc' = "prompt"
           \/ Len(cmds) = 1 /\ lpc' = "run"
           \/ Len(cmds) > 1 /\ lpc' = "stage"

\* main: the next line.  Ends of pipes that are still open stay so, but belong
\* to a pipe that no later program has a use for: they are only counted.
NextLine ==
    /\ lpc = "prompt"
    /\ \E l \in Lines : Interprets(l.text) /\ meant' = l.meant
    /\ ran' = <<>> /\ broken' = {}
    /\ leaked' = leaked + Cardinality(held)
    /\ held' = {} /\ pipe' = NoPipes
    /\ UNCHANGED <<tableVars, child, fails>>

-----------------------------------------------------------------------------
(* Aliases: a list in the order of the names.                                *)

Aliased(word) == {i \in DOMAIN aliases : aliases[i].name = word}
TextOf(word) == aliases[CHOOSE i \in Aliased(word) : TRUE].text
Rank(name) == CHOOSE i \in DOMAIN NameOrder : NameOrder[i] = name

\* alias name='text': what is between "alias", the '=' and the two quotes.
NameIn(cmdline) ==
    DropBlanks[SubSeq(cmdline, 2, Least({i \in DOMAIN cmdline : cmdline[i] = "="}) - 1)]
TextIn(cmdline) ==
    LET open  == Least({i \in DOMAIN cmdline : cmdline[i] = "'"})
        close == Least({i \in open + 1 .. Len(cmdline) : cmdline[i] = "'"})
    IN  SubSeq(cmdline, open + 1, close - 1)

\* The list with an alias replaced, or put before the first greater name.
WrongNotBefore(name) == {i \in DOMAIN aliases : Rank(aliases[i].name) > Rank(name)}
NotBefore(name) == {i \in DOMAIN aliases : Rank(aliases[i].name) >= Rank(name)}
WithAlias(name, text) ==
    LET place == Least(NotBefore(name) \cup {Len(aliases) + 1})
        node  == [name |-> name, text |-> text]
    IN  IF place \in Aliased(name) THEN [aliases EXCEPT ![place] = node]
        ELSE InsertAt(aliases, place, node)

WithoutAlias(name) ==
    IF Aliased(name) = {} THEN aliases ELSE RemoveAt(aliases, Least(Aliased(name)))

\* The words of the command with the first replaced by its alias, and each next
\* one while the alias before it ends with a blank; a blank after each.
WrongContinues(argv, i) == \A k \in 1 .. i - 1 : Aliased(argv[k]) # {}
Continues(argv, i) == \A k \in 1 .. i - 1 :
    Aliased(argv[k]) # {} /\ Last(TextOf(argv[k])) = " "
Substituted(argv) ==
    FlattenSeq([i \in DOMAIN argv |->
        Append(IF Continues(argv, i) /\ Aliased(argv[i]) # {}
               THEN TextOf(argv[i]) ELSE argv[i], " ")])

-----------------------------------------------------------------------------
(* RunBuiltInCmd and IsBuiltIn.  A word is a sequence of symbols.            *)

BuiltIns == {<<"cd">>, <<"alias">>, <<"unalias">>}
IsBuiltIn(word) == word \in BuiltIns \/ Aliased(word) # {}
Command == commands[stage]
Argv == Command.argv
BeginsWithAlias(command) == command.argv # <<>> /\ Aliased(command.argv[1]) # {}

\* RunCmdFork on a command without words.
RunNothing ==
    /\ lpc = "run" /\ Argv = <<>>
    /\ lpc' = "prompt"
    /\ UNCHANGED <<typedVars, stage, tableVars, pipeVars, child, forkVars, ran, broken>>

\* The new line is interpreted like a typed one, in the same call.
RunAlias ==
    /\ lpc = "run" /\ BeginsWithAlias(Command)
    /\ Interprets(Substituted(Argv))
    /\ UNCHANGED <<meant, tableVars, pipeVars, child, forkVars, ran, broken>>

RunBuiltIn ==
    /\ lpc = "run" /\ Argv # <<>> /\ Aliased(Argv[1]) = {} /\ Argv[1] \in BuiltIns
    /\ \/ /\ Argv[1] = <<"cd">>
          /\ LET to == IF Len(Argv) > 1 THEN Argv[2] ELSE Home
             IN  cwd' = IF to \in Dirs THEN to ELSE cwd
          /\ UNCHANGED <<aliases, defs>>
       \/ /\ Argv[1] = <<"alias">>
          /\ aliases' = IF Len(Argv) = 1 THEN aliases
                ELSE WithAlias(NameIn(Command.cmdline), TextIn(Command.cmdline))
          /\ defs' = IF meant.op = "alias"
                THEN [n \in DOMAIN defs \cup {meant.name} |->
                        IF n = meant.name THEN [words |-> meant.words, more |-> meant.more]
                        ELSE defs[n]]
                ELSE defs
          /\ UNCHANGED cwd
       \/ /\ Argv[1] = <<"unalias">>
          /\ aliases' = WithoutAlias(Argv[2])
          /\ defs' = [n \in DOMAIN defs \ {meant.name} |-> defs[n]]
          /\ UNCHANGED cwd
    /\ lpc' = "prompt"
    /\ UNCHANGED <<typedVars, stage, pipeVars, child, forkVars, ran, broken>>

-----------------------------------------------------------------------------
(* External programs: ResolveExternalCmd, Exec, RunCmdPipe.                  *)

Resolved(word) == \E dir \in DOMAIN Path : word \in Path[dir]

IsExternal(command) == command.argv # <<>> /\ ~IsBuiltIn(command.argv[1])
External == IsExternal(Command)
Piped == Len(commands) > 1
Final == stage = Len(commands)

\* "command not found": a stage closes the pipe it would have read.
WrongAfterMissing == held
AfterMissing == held \ {ReadEnd(stage - 1)}
NotFound ==
    /\ lpc \in {"run", "stage"} /\ External /\ ~Resolved(Argv[1])
    /\ held' = AfterMissing
    /\ broken' = broken \cup {"not found"}
    /\ lpc' = "prompt"
    /\ UNCHANGED <<typedVars, stage, tableVars, pipe, child, forkVars, ran>>

\* A stage of blanks: IsBuiltIn compares its first word, which it has not.
StageOfBlanks ==
    /\ lpc = "stage" /\ Argv = <<>>
    /\ lpc' = "crashed"
    /\ UNCHANGED <<typedVars, stage, tableVars, pipeVars, child, forkVars, ran, broken>>

Starts == \/ lpc = "run" /\ External /\ Resolved(Argv[1])
          \/ lpc = "stage" /\ Argv # <<>> /\ (External => Resolved(Argv[1]))

\* A built-in stage runs in its child, which puts an alias in and interprets the
\* new line as the shell would: the command that it comes to.  (Here no alias
\* that is put in by a child makes a pipe or asks for the background.)
Nothing == parser_single(<<>>, FALSE)
InterpretsInChild(text) ==
    LET cmds == Interpret[text] IN IF Len(cmds) = 1 THEN cmds[1] ELSE Nothing
ComesTo(command) ==
    LET Put[n \in 0 .. Len(aliases)] ==
            IF n = 0 THEN command
            ELSE LET before == Put[n - 1]
                 IN  IF BeginsWithAlias(before)
                     THEN InterpretsInChild(Substituted(before.argv)) ELSE before
    IN  IF Piped THEN Put[Len(aliases)] ELSE command

\* What a command that comes to another, or to itself, asks to be run, if that is
\* a program.  RunCmdPipe does not look at the redirections of a stage, nor at '&'.
HasProgram(command) == IsExternal(ComesTo(command))
AskedAs(command, to) ==
    LET ignores == Piped /\ IsExternal(command)
    IN  [argv |-> to.argv,
         in   |-> IF ignores THEN <<>> ELSE to.in,
         out  |-> IF ignores THEN <<>> ELSE to.out,
         bg   |-> to.bg /\ ~Piped]
Asked(command) == AskedAs(command, ComesTo(command))

\* The child exits if a file cannot be opened, or an alias leads to no program.
Opens(asked) == /\ asked.in = <<>> \/ asked.in \in InFiles
                /\ asked.out = <<>> \/ asked.out \in OutFiles
Executes == /\ HasProgram(Command)
            /\ Resolved(Asked(Command).argv[1]) /\ Opens(Asked(Command))

\* A pipe to the next stage is made before the fork; a child has the ends it
\* reads and writes, and the end that the next stage will read.
Piping == IF Piped /\ ~Final THEN {ReadEnd(stage), WriteEnd(stage)} ELSE {}
Does(reads, writes) == [reads |-> reads, writes |-> writes]
Started(program, asked) ==
    [stage |-> stage,
     ends  |-> Piping \cup {ReadEnd(k) : k \in {stage - 1} \ {0}},
     reads |-> program.reads /\ stage > 1 /\ asked.in = <<>>,
     left  |-> IF asked.out = <<>> THEN program.writes ELSE 0]

\* The fork that the child of an alias needs may fail in it.
ForkCommand ==
    /\ Starts
    /\ held' = held \cup Piping
    /\ \E runs \in {Executes, Executes /\ External}, asked \in {Asked(Command)} :
          /\ ran' = IF runs THEN Append(ran, asked) ELSE ran
          /\ broken' = IF runs \/ ~HasProgram(Command) THEN broken
                       ELSE broken \cup {"not run"}
          /\ IF Command.bg /\ ~Piped
             THEN lpc' = "prompt" /\ UNCHANGED child
             ELSE /\ lpc' = "started"
                  /\ child' = Started(IF runs THEN Programs[asked.argv[1]]
                                      ELSE Does(FALSE, 0), asked)
    /\ UNCHANGED <<typedVars, stage, tableVars, pipe, forkVars>>

\* When fork fails, RunCmdPipe returns with the pipes open, and it and Exec with
\* SIGCHLD blocked.
ForkCommandFails ==
    /\ Starts /\ fails < MaxFails
    /\ fails' = fails + 1
    /\ held' = held \cup Piping
    /\ broken' = broken \cup {"no fork"}
    /\ lpc' = "prompt"
    /\ UNCHANGED <<typedVars, stage, tableVars, pipe, child, leaked, ran>>

\* The shell closes the end that the child reads and the one that it writes.
WrongPassed == {ReadEnd(stage - 1)}
Passed == {ReadEnd(stage - 1), WriteEnd(stage)}
CloseEnds ==
    /\ lpc = "started"
    /\ held' = held \ Passed
    /\ lpc' = "wait"
    /\ UNCHANGED <<typedVars, stage, tableVars, pipe, child, forkVars, ran, broken>>

\* The program has ended, and the shell hears of it: the next stage, or the next
\* line.
CommandEnds ==
    /\ lpc = "wait" /\ child = NoChild /\ fails = 0
    /\ \/ Final /\ lpc' = "prompt" /\ UNCHANGED stage
       \/ ~Final /\ lpc' = "stage" /\ stage' = stage + 1
    /\ UNCHANGED <<typedVars, tableVars, pipeVars, child, forkVars, ran, broken>>

ShellStep ==
    \/ RunNothing \/ RunAlias \/ RunBuiltIn
    \/ NotFound \/ StageOfBlanks \/ ForkCommand \/ ForkCommandFails
    \/ CloseEnds \/ CommandEnds

-----------------------------------------------------------------------------
(* A program: it reads to the end of its input and writes, in any order, and *)
(* exits when it has done both.                                              *)

Alive == child # NoChild
ToPipe == WriteEnd(child.stage) \in child.ends
Moves(next, contents) ==
    /\ child' = next
    /\ pipe' = contents
    /\ UNCHANGED <<lpc, typedVars, stage, tableVars, held, forkVars, ran, broken>>

Reads ==
    /\ Alive /\ child.reads /\ pipe[child.stage - 1] > 0
    /\ Moves(child, [pipe EXCEPT ![child.stage - 1] = @ - 1])

\* The input ends when the pipe is empty and nobody can write into it.
SeesEnd ==
    /\ Alive /\ child.reads /\ pipe[child.stage - 1] = 0
    /\ WriteEnd(child.stage - 1) \notin held \cup child.ends
    /\ Moves([child EXCEPT !.reads = FALSE], pipe)

Writes ==
    /\ Alive /\ child.left > 0
    /\ ToPipe => pipe[child.stage] < PipeCap
    /\ Moves([child EXCEPT !.left = @ - 1],
             IF ToPipe THEN [pipe EXCEPT ![child.stage] = @ + 1] ELSE pipe)

Exits ==
    /\ Alive /\ ~child.reads /\ child.left = 0
    /\ Moves(NoChild, pipe)

Program == Reads \/ SeesEnd \/ Writes \/ Exits

LineNext == NextLine \/ ShellStep \/ Program

\* The shell and the programs run while they can; nobody has to type.
LineSpec == LineInit /\ [][LineNext]_lineVars /\ WF_lineVars(ShellStep) /\ WF_lineVars(Program)

-----------------------------------------------------------------------------
(* Properties.                                                               *)

\* The list is the user's definitions, in order and once each: the last
\* definition of a name counts, and unalias removes it (RunBuiltInCmd's search
\* for the place of an alias).
AliasesAreMap ==
    /\ \A i, k \in DOMAIN aliases :
          i < k => Rank(aliases[i].name) < Rank(aliases[k].name)
    /\ {aliases[i].name : i \in DOMAIN aliases} = DOMAIN defs
    /\ \A name \in DOMAIN defs :
          LET command == parser_single(TextOf(name), FALSE)
          IN  /\ command.argv = defs[name].words
              /\ defs[name].more <=> Last(TextOf(name)) = " "

\* What the words of a command stand for: definitions put in for the first, and
\* for each next behind a definition that ends with a blank, until the first
\* word is not an alias.
Unaliased[words \in Seq(Text)] ==
    LET known(i) == words[i] \in DOMAIN defs
        put(i) == known(i) /\ \A k \in 1 .. i - 1 : known(k) /\ defs[words[k]].more
    IN  IF words = <<>> \/ ~known(1) THEN words
        ELSE Unaliased[FlattenSeq([i \in DOMAIN words |->
                 IF put(i) THEN defs[words[i]].words ELSE <<words[i]>>])]

\* The programs that the user means by the line.
Meant ==
    IF meant.op # "run" THEN <<>>
    ELSE SelectSeq([k \in DOMAIN meant.commands |->
                       [meant.commands[k] EXCEPT !.argv = Unaliased[@]]],
                   LAMBDA c : c.argv # <<>> /\ c.argv[1] \notin BuiltIns)

\* What the shell cannot do, however it is written: < or > in a word; redirections
\* and '&' for a stage of a pipe; and, behind an alias, redirections, '&', and
\* words that do not stand for themselves without quotes.
Plain(word) ==
    Interpret[word] = << [argv |-> <<word>>, in |-> <<>>, out |-> <<>>,
                          bg |-> FALSE, cmdline |-> word] >>
Redirected(command) == command.in # <<>> \/ command.out # <<>> \/ command.bg
Unsupported ==
    /\ meant.op = "run"
    /\ \E k \in DOMAIN meant.commands :
          LET c == meant.commands[k]
          IN  \/ \E i \in DOMAIN c.argv : Contains(c.argv[i], FromFile) \/ Contains(c.argv[i], ToFile)
              \/ Redirected(c) /\ Len(meant.commands) > 1
              \/ /\ c.argv # <<>> /\ c.argv[1] \in DOMAIN defs
                 /\ Redirected(c) \/ \E i \in DOMAIN c.argv : ~Plain(c.argv[i])

\* What the first k of the commands that Interpret made ask to be run.
AskedBy[k \in 0 .. Len(commands)] ==
    IF k = 0 THEN <<>>
    ELSE IF HasProgram(commands[k]) THEN Append(AskedBy[k - 1], Asked(commands[k]))
    ELSE AskedBy[k - 1]
AsRead == AskedBy[Len(commands)]

\* What Interpret makes of a line is what is meant, until an alias has to be put
\* in (Interpret, parser_single, single_param, and the search for the name and
\* the text of an alias in RunBuiltInCmd): the same programs, the same directory,
\* the same definition, whose text would be read as what it stands for.
ReadsAlias(command) ==
    IF Len(command.argv) = 1 THEN meant.op # "alias"
    ELSE LET text == TextIn(command.cmdline)
         IN  /\ meant.op = "alias" /\ NameIn(command.cmdline) = meant.name
             /\ \E i \in DOMAIN NameOrder : NameOrder[i] = meant.name
             /\ text \in Text /\ parser_single(text, FALSE).argv = meant.words
             /\ meant.more <=> Last(text) = " "
ReadsUnalias(command) ==
    meant.op = "unalias" /\ Len(command.argv) > 1 /\ command.argv[2] = meant.name
ReadsCd(argv) ==
    /\ Len(commands) = 1 /\ argv # <<>> /\ argv[1] = <<"cd">>
    /\ meant.dir \in Dirs /\ meant.dir = IF Len(argv) > 1 THEN argv[2] ELSE Home
commandT == [argv : Seq(Text), in : Text, out : Text, bg : BOOLEAN, cmdline : Text]
ReadAsMeant ==
    /\ commands \in Seq(commandT)
    /\ \/ lpc = "run" /\ BeginsWithAlias(Command)
       \/ /\ Unsupported \/ AsRead = Meant
          /\ Len(commands) = 1 /\ commands[1].argv # <<>> =>
                /\ commands[1].argv[1] = <<"alias">> => ReadsAlias(commands[1])
                /\ commands[1].argv[1] = <<"unalias">> => ReadsUnalias(commands[1])
          /\ meant.op = "cd" => ReadsCd(commands[1].argv)

\* s is what is left of t when some of it is left out.
Within(s, t) ==
    \E f \in [DOMAIN s -> DOMAIN t] :
        /\ \A i, k \in DOMAIN s : i < k => f[i] < f[k]
        /\ \A i \in DOMAIN s : s[i] = t[f[i]]

\* The programs that run are the ones the user means, in order, with the
\* arguments and redirections and in the background or not as is meant, and cd
\* goes where it should, for every line that is not Unsupported (Interpret,
\* parser_single, single_param and the substitution of aliases, by the shell and
\* by the child of a stage, together).  If the line cannot be carried out it is
\* given up at that place; only a child that does not come to its execv is left
\* out of a pipe that goes on (runtime.c:348).
RunsAsMeant ==
    /\ ~Unsupported =>
          /\ ran # <<>> => Within(ran, Meant)
          /\ ran # <<>> /\ "not run" \notin broken => IsPrefix(ran, Meant)
          /\ lpc = "prompt" /\ broken = {} => ran = Meant
    /\ lpc = "prompt" /\ meant.op = "cd" => cwd = meant.dir

\* While the shell waits for a stage it has no end of a pipe open but the one
\* that the next stage will read.  At the prompt it has none, even after a pipe
\* that was given up half-way: only a fork that failed leaves ends open, the one
\* that the stage would have read and the two of the pipe it would have written
\* (runtime.c:287).  These stay open, and only such a fork adds to them.
AtFailedFork == {ReadEnd(k) : k \in {stage - 1} \ {0}} \cup Piping
FewLeft(earlier, ends, forks) == earlier + Cardinality(ends) <= 3 * forks
ShellFdsClosed ==
    /\ lpc = "prompt" =>
          /\ held = IF "no fork" \in broken THEN AtFailedFork ELSE {}
          /\ FewLeft(leaked, held, fails)
    /\ lpc = "wait" => held = IF Piped /\ ~Final THEN {ReadEnd(stage)} ELSE {}

\* An alias that leads to itself.
Leads(a, b) == defs[a].words[1] = b
Circular == \E a, b \in DOMAIN defs : Leads(a, b) /\ Leads(b, a)

\* Every stage but the last writes no more than a pipe holds.
FitsPipes ==
    \A k \in 1 .. Len(commands) - 1 :
        HasProgram(commands[k]) =>
            LET name == Asked(commands[k]).argv[1]
            IN  name \in DOMAIN Programs => Programs[name].writes <= PipeCap

\* The prompt comes back after every line, unless an alias leads to itself, a
\* stage writes more than a pipe holds (RunCmdPipe waits for each stage before
\* it starts the one that would read, runtime.c:314), a stage is blank
\* (runtime.c:521), or a fork has failed before, since when the shell does not
\* hear of children that end (runtime.c:287 and 445).
PromptComes ==
    (/\ lpc \in {"run", "stage"} /\ fails = 0
     /\ FitsPipes /\ ~Circular
     /\ \A k \in DOMAIN commands : Piped => commands[k].argv # <<>>)
    ~> (lpc = "prompt")
=============================================================================
