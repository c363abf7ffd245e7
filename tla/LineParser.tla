----------------------------- MODULE LineParser -----------------------------
(* How the shell takes a line apart (tsh/skeleton/interpreter.c), without    *)
(* state.  A line is a sequence of symbols: a blank, a quote, an operator,   *)
(* '~', '=', or any other piece of text, such as a name, as one symbol.      *)
(* Those that use their argument often are functions: TLC evaluates it once. *)
EXTENDS Integers, Sequences, SequencesExt

CONSTANT Home   \* the text of the environment variable HOME

ASSUME HomeAssumption == Home # <<>> /\ ~Contains(Home, "~")

Blank == " "
Quotes == {"'", "\""}
NoQuote == ""
FromFile == "<"
ToFile == ">"
Bar == "|"
Background == "&"
Tilde == "~"

Least(places) == CHOOSE i \in places : \A k \in places : i <= k
Rest(text, i) == SubSeq(text, i, Len(text))
Text == Seq(STRING)

DropBlanks[text \in Text] ==
    Rest(text, Least({i \in DOMAIN text : text[i] # Blank} \cup {Len(text) + 1}))

\* The quote that is open behind a quote.  One is closed by its like; the other
\* kind has no meaning inside it.
WrongCloses(open, q) == TRUE
Closes(open, q) == q = open
Behind(open, q) ==
    IF open = NoQuote THEN q ELSE IF Closes(open, q) THEN NoQuote ELSE open

\* The places of symbol c outside quotes.
Bare(text, c) ==
    LET Open[i \in 1 .. Len(text) + 1] ==   \* the quote that is open before i
            IF i = 1 THEN NoQuote
            ELSE IF text[i - 1] \in Quotes THEN Behind(Open[i - 1], text[i - 1])
            ELSE Open[i - 1]
    IN  {i \in DOMAIN text : text[i] = c /\ Open[i] = NoQuote}

-----------------------------------------------------------------------------
(* single_param and parser_single                                            *)

\* The first word of text, and what is behind the symbol that ended it.  A
\* word ends with its quote or with a blank, and at < or > even in quotes; the
\* first symbol of a word without quotes is not looked at.
single_param[text \in Text] ==
    LET t     == DropBlanks[text]
        quote == t # <<>> /\ t[1] \in Quotes
        start == IF quote THEN 2 ELSE 1
        ends  == {FromFile, ToFile, IF quote THEN t[1] ELSE Blank}
        stop  == Least({i \in 2 .. Len(t) : t[i] \in ends} \cup {Len(t) + 1})
    IN  [word |-> SubSeq(t, start, stop - 1), rest |-> Rest(t, stop + 1)]

\* The first n words.
Words(text, n) ==
    LET After[k \in 0 .. n] ==
            IF k = 0 THEN [words |-> <<>>, rest |-> text]
            ELSE LET next == single_param[After[k - 1].rest]
                 IN  [words |-> Append(After[k - 1].words, next.word),
                      rest  |-> next.rest]
    IN  After[n].words

\* What the last operator op redirects to, <<>> if there is none.
Target(text, op) ==
    LET places == Bare(text, op)
    IN  IF places = {} THEN <<>>
        ELSE single_param[Rest(text, 1 + CHOOSE i \in places : \A k \in places : k <= i)].word

\* One command: its words up to the first redirection are counted by the runs
\* of blanks between them.  (For an empty piece the code looks at the symbol
\* before it; here it has no word.)
parser_single(piece, bg) ==
    LET text   == DropBlanks[piece]
        ops    == Bare(text, FromFile) \cup Bare(text, ToFile)
        length == Least(ops \cup {Len(text) + 1}) - 1
        blanks == Bare(text, Blank)
        runs   == {i \in blanks : i <= length /\ i - 1 \notin blanks}
        argc   == Cardinality(runs) +
                  IF length > 0 /\ text[length] # Blank THEN 1 ELSE 0
    IN  [argv |-> Words(text, argc), in |-> Target(text, FromFile),
         out |-> Target(text, ToFile), bg |-> bg, cmdline |-> text]

-----------------------------------------------------------------------------
(* Interpret, up to RunCmd                                                   *)

\* Every tilde, quoted or not, becomes HOME.
Expanded[line \in Text] ==
    FlattenSeq([i \in DOMAIN line |-> IF line[i] = Tilde THEN Home ELSE <<line[i]>>])

\* A last '&' asks for the background and is cut off with what follows.
LastText[line \in Text] == Least({i \in 0 .. Len(line) : \A k \in i + 1 .. Len(line) : line[k] = Blank})
IsBg[line \in Text] == LastText[line] > 0 /\ line[LastText[line]] = Background
Foreground[line \in Text] == IF IsBg[line] THEN SubSeq(line, 1, LastText[line] - 1) ELSE line

\* The pieces between the bars.
Pieces[line \in Text] ==
    LET bars    == Bare(line, Bar)
        bar(k)  == CHOOSE i \in bars : Cardinality({j \in bars : j <= i}) = k
        from(k) == IF k = 1 THEN 1 ELSE bar(k - 1) + 1
        to(k)   == IF k > Cardinality(bars) THEN Len(line) ELSE bar(k) - 1
    IN  [k \in 1 .. Cardinality(bars) + 1 |-> SubSeq(line, from(k), to(k))]

\* The commands that RunCmd gets; a line of nothing but '&' gives none.
Interpret[line \in Text] ==
    LET text   == Expanded[line]
        pieces == Pieces[Foreground[text]]
    IN  IF text = <<>> \/ (IsBg[text] /\ LastText[text] = 1) THEN <<>>
        ELSE [k \in DOMAIN pieces |-> parser_single(pieces[k], IsBg[text])]
=============================================================================
