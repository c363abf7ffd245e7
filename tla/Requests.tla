------------------------------ MODULE Requests ------------------------------
(* What handle_connection (server/skeleton/util.c) makes of a request, and   *)
(* what list_seats (seats.c) writes: the functions of the front end that     *)
(* have no state.  A path is a sequence of symbols: the name of an argument, *)
(* the two halves of an operation's name and a digit are one symbol each.    *)
(* Of a line that get_line reads only its length and its end matter, but for *)
(* the request line.                                                         *)
EXTENDS Integers, Sequences, SequencesExt

CONSTANTS FileMax,    \* sizeof(file) - 1: how much of a path is kept
          LineMax,    \* what get_line reads at most: size - 1
          BufSize     \* BUFSIZE, in characters of a seat listing

ASSUME LimitsAssumption == {FileMax, LineMax, BufSize} \subseteq Nat

Digits == <<"0", "1", "2", "3">>
IsDigit(c) == Contains(Digits, c)
DigitValue(c) == (CHOOSE k \in DOMAIN Digits : Digits[k] = c) - 1
First(places) == CHOOSE i \in places : \A k \in places : i <= k

\* The names that the dispatch compares with, in its order.
OpNames == << <<"l", "ist_seats">>, <<"v", "iew_seat">>,
              <<"c", "onfirm">>, <<"c", "ancel">> >>
Ops == <<"list", "view", "confirm", "cancel">>

\* The path is cut to what file holds; a sentinel stands for its '\0'.
File(path) == SubSeq(path, 1, IF Len(path) < FileMax THEN Len(path) ELSE FileMax)
Mark(file) == First({i \in DOMAIN file : file[i] = "?"} \cup {Len(file) + 1})

\* strncmp(resource, name, length): the first name that the part before the
\* '?' begins, and a file of the server if it begins none.
Dispatch(file) ==
    LET resource == SubSeq(file, 1, Mark(file) - 1)
        hits == {k \in DOMAIN OpNames : IsPrefix(resource, OpNames[k])}
    IN  IF hits = {} THEN [op |-> "file", name |-> resource]
        ELSE [op |-> Ops[First(hits)]]

\* The number after the first occurrence of arg behind the '?', 0 without one.
parse_int_arg(file, arg) ==
    LET at == {i \in Mark(file) + 1 .. Len(file) : file[i] = arg}
        start == First(at) + 1
        stop == First({i \in start .. Len(file) : ~IsDigit(file[i])}
                      \cup {Len(file) + 1})
        Number[i \in start .. stop] ==
            IF i = start THEN 0
            ELSE Number[i - 1] * 10 + DigitValue(file[i - 1])
    IN  IF at = {} THEN 0 ELSE Number[stop]

\* What the request asks for.
Parsed(line) ==
    LET file == File(line.path)
        called == Dispatch(file)
    IN  IF line.method # "GET" THEN [op |-> "bad"]
        ELSE IF called.op \in {"list", "file"} THEN called
        ELSE [op |-> called.op, seat |-> parse_int_arg(file, "seat="),
              user |-> parse_int_arg(file, "user=")]

-----------------------------------------------------------------------------
(* get_line: a line ends with CR LF ("crlf"), which is not kept, with LF     *)
(* alone ("lf") or CR alone ("cr"), which are kept as one character, or with *)
(* the end of the input ("eof").  To tell CR LF from CR, get_line reads one  *)
(* character more, which is lost behind a CR alone.                          *)

EndOfInput == [len |-> 0, end |-> "eof", method |-> "", path |-> <<>>]

\* Whether the call leaves the end of the line for the next one, and how many
\* characters it returns.
Leaves(line) == line.len >= LineMax
Returned(line) == IF Leaves(line) THEN LineMax
                  ELSE line.len + (IF line.end \in {"lf", "cr"} THEN 1 ELSE 0)

\* Whether the call needs the character behind the line, and whether it has all
\* that it needs in what has arrived.
Peeks(line) == line.end = "cr" /\ ~Leaves(line)
Complete(lines) == lines # <<>> /\ (Peeks(Head(lines)) => Len(lines) > 1)

\* The lines without their first character: of an empty line its CR is lost.
Beheaded(lines) ==
    IF lines = <<>> THEN <<>>
    ELSE IF Head(lines).len > 0 THEN <<[Head(lines) EXCEPT !.len = @ - 1]>> \o Tail(lines)
    ELSE IF Head(lines).end = "cr" THEN Tail(lines)
    ELSE <<[Head(lines) EXCEPT !.end = "lf"]>> \o Tail(lines)

\* What the call leaves of the lines.
Remaining(lines) ==
    IF Leaves(Head(lines))
    THEN <<[Head(lines) EXCEPT !.len = @ - LineMax]>> \o Tail(lines)
    ELSE IF Peeks(Head(lines)) THEN Beheaded(Tail(lines)) ELSE Tail(lines)

\* while (get_line(...) > 0)
WrongHeadersEnd(line) == line.len = 0 /\ line.end = "crlf"
HeadersEnd(line) == Returned(line) = 0

-----------------------------------------------------------------------------
(* list_seats: "%d %c," for each seat while the index is below its bound.    *)

Format == 6   \* strlen("%d %c,")

\* The index before seat k (ids below 100), and the seats that the loop reaches
\* among n.
Index(k) == IF k <= 10 THEN 4 * k ELSE 5 * k - 10
Reached(n) == {k \in 0 .. n - 1 : Index(k) < BufSize + Format}

\* What the buffer tells of n seats: the last separator becomes the line end,
\* and an index beyond the buffer makes snprintf write beyond it.
list_seats(n) ==
    IF \A k \in Reached(n) : Index(k + 1) <= BufSize
    THEN [op |-> "list", seats |-> Reached(n)]
    ELSE [op |-> "overrun"]
=============================================================================
