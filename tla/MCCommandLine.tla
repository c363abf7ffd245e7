---------------------------- MODULE MCCommandLine ----------------------------
(* CommandLine with the lines that are typed: each is written from what is   *)
(* meant, in all the ways to space and quote it.                             *)
EXTENDS CommandLine

MCHome == <<"/", "h">>

Alone(words) == [argv |-> words, in |-> <<>>, out |-> <<>>, bg |-> FALSE]
Bare1(word) == Alone(<<word>>)
Run(cmds, text) == [text |-> text, meant |-> [op |-> "run", commands |-> cmds]]
Blanks(n) == [i \in 1 .. n |-> " "]
Quoted(q, word) == <<q>> \o word \o <<q>>

\* Arguments, as meant and in the ways to write them.
Arguments ==
    {[word |-> w, text |-> t] : w \in {<<"a">>}, t \in {<<"a">>, <<"'", "a", "'">>}}
    \cup {[word |-> w, text |-> Quoted("\"", w)] : w \in {<<"a", " ", "|">>, <<"'", " ", "&">>}}
    \cup {[word |-> w, text |-> Quoted("'", w)] : w \in {<<"\"", " ">>, <<"a", "<">>}}
    \cup {[word |-> MCHome \o <<"a">>, text |-> <<"~", "a">>]}

\* What may follow the arguments: blanks, redirections, the background.
Endings ==
    {[in |-> <<>>, out |-> <<>>, bg |-> FALSE, text |-> t] : t \in {<<>>, <<" ">>}}
    \cup {[in |-> <<>>, out |-> <<>>, bg |-> TRUE, text |-> t] : t \in {<<"&">>, <<" ", "&", " ">>}}
    \cup {[in |-> <<"f">>, out |-> <<>>, bg |-> FALSE, text |-> t] :
             t \in {<<"<", "f">>, <<" ", "<", " ", "f", " ">>}}
    \cup {[in |-> <<"none">>, out |-> <<>>, bg |-> FALSE, text |-> <<"<", "none">>],
           [in |-> <<>>, out |-> <<"none">>, bg |-> FALSE, text |-> <<">", "none">>],
           [in |-> <<"f">>, out |-> <<"g">>, bg |-> TRUE, text |-> <<">", "g", "<", "f", "&">>],
           [in |-> <<"f">>, out |-> <<"g">>, bg |-> FALSE, text |-> <<" ", "<", "f", ">", " ", "g">>]}

Simple(a, e, n) ==
    Run(<<[argv |-> <<<<"echo">>, a.word, <<"b">>>>, in |-> e.in, out |-> e.out, bg |-> e.bg]>>,
        Blanks(n - 1) \o <<"echo">> \o Blanks(n) \o a.text \o Blanks(n) \o <<"b">> \o e.text)
SimpleLines ==
    {Simple(a, e, 1) : a \in Arguments, e \in Endings}
    \cup {Simple(a, e, 2) : a \in Arguments, e \in {x \in Endings : Len(x.text) = 2}}

\* Pipes: what fits, what does not, what is not found, a built-in stage, a stage
\* that is an alias, one of blanks, and one with a redirection.
PipeOf(words) == Run([k \in DOMAIN words |-> Bare1(words[k])],
                     FlattenSeq([k \in DOMAIN words |->
                         words[k] \o IF k = Len(words) THEN <<>> ELSE <<" ", "|", " ">>]))
PipeLines == {PipeOf(words) : words \in {
    << <<"gen">>, <<"cat">>, <<"cat">> >>, << <<"gen">>, <<"echo">>, <<"cat">> >>,
    << <<"big">>, <<"cat">> >>, << <<"gen">>, <<"nosuch">>, <<"cat">> >>,
    << <<"cat">>, <<"cd">>, <<"cat">> >>, << <<"gen">>, <<"w">>, <<"cat">> >> }}
    \cup {Run(<<Bare1(<<"gen">>), Alone(<<>>), Bare1(<<"cat">>)>>,
              <<"gen", "|", " ", "|", "cat">>),
          Run(<<Bare1(<<"gen">>), [Bare1(<<"cat">>) EXCEPT !.out = <<"g">>]>>,
              <<"gen", "|", "cat", ">", "g">>)}

\* Aliases: definitions, removals, and commands that begin with them.
Define(name, words, more) ==
    [text |-> <<"alias", " ">> \o name \o <<"=", "'">> \o words[1]
                \o FlattenSeq([k \in 1 .. Len(words) - 1 |-> <<" ">> \o words[k + 1]])
                \o (IF more THEN <<" ">> ELSE <<>>) \o <<"'">>,
     meant |-> [op |-> "alias", name |-> name, words |-> words, more |-> more]]
AliasLines ==
    {Define(<<"x">>, << <<"echo">>, <<"a">> >>, FALSE), Define(<<"x">>, << <<"y">> >>, TRUE),
     Define(<<"y">>, << <<"echo">> >>, TRUE), Define(<<"y">>, << <<"x">> >>, FALSE),
     Define(<<"w">>, << <<"cat">> >>, FALSE)}
    \cup {[text |-> <<"unalias", " ">> \o name, meant |-> [op |-> "unalias", name |-> name]] :
             name \in {<<"x">>, <<"y">>, <<"w">>}}
    \cup {Run(<<Alone(<<n, <<"y">>>>)>>, n \o <<" ", "y">>) :
             n \in {<<"x">>, <<"y">>, <<"w">>, <<"echo">>}}

\* Behind an alias, a redirection, what stands for itself only in quotes, '&'.
InPlaceLines ==
    {Run(<<[Bare1(<<"x">>) EXCEPT !.out = <<"g">>]>>, <<"x", " ", ">", "g">>),
     Run(<<Alone(<< <<"x">>, <<"a", " ", "a">> >>)>>, <<"x", " ", "'", "a", " ", "a", "'">>),
     Run(<<[Bare1(<<"x">>) EXCEPT !.bg = TRUE]>>, <<"x", "&">>)}

OtherLines ==
    {[text |-> t, meant |-> [op |-> "none"]] : t \in {<<>>, <<" ">>, <<"&", " ">>, <<"alias">>}}
    \cup {[text |-> <<"cd">> \o t, meant |-> [op |-> "cd", dir |-> MCHome]] :
             t \in {<<>>, <<" ", "~">>, <<" ", "\"", "~", "\"">>}}
    \cup {[text |-> <<"cd", " ", "d">>, meant |-> [op |-> "cd", dir |-> <<"d">>]]}
    \cup {Run(<<Bare1(<<"nosuch">>)>>, <<"nosuch">>)}

MCLines == SimpleLines \cup PipeLines \cup AliasLines \cup InPlaceLines \cup OtherLines

MCNameOrder == << <<"w">>, <<"x">>, <<"y">> >>
MCPrograms == (<<"echo">> :> Does(FALSE, 0)) @@ (<<"cat">> :> Does(TRUE, 1))
              @@ (<<"gen">> :> Does(FALSE, 1)) @@ (<<"big">> :> Does(FALSE, 2))
MCPath == << {<<"echo">>}, {<<"echo">>, <<"cat">>, <<"gen">>, <<"big">>} >>
MCDirs == {MCHome, <<"d">>}
MCInFiles == {<<"f">>}
MCOutFiles == {<<"g">>}
=============================================================================
