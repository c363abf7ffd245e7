---------------------------- MODULE MCHttpServer ----------------------------
(* HttpServer with the scripts of the clients.                               *)
EXTENDS HttpServer

RequestLine(method, path, end) ==
    [len |-> 20, end |-> end, method |-> method, path |-> path]
Header(len, end) == [len |-> len, end |-> end, method |-> "", path |-> <<>>]

ListPath   == <<"l", "ist_seats">>
CancelPath == <<"c", "ancel", "?", "priority=", "3", "&", "seat=", "1", "2">>
PagePath   == <<"page">>

\* A listing, with a header of the length that get_line splits; a request
\* without a user, from a client that ends lines with LF alone and then shuts
\* its side; a file, with a header that ends with CR alone and takes the CR of
\* the empty line with it, so that the end of the input must end the headers;
\* and what is not GET.
MCScripts == {
    [lines |-> <<RequestLine("GET", ListPath, "crlf"), Header(1023, "crlf")>>,
     eof |-> FALSE, meant |-> [op |-> "list"]],
    [lines |-> <<RequestLine("GET", CancelPath, "lf"), Header(0, "lf")>>,
     eof |-> TRUE, meant |-> [op |-> "cancel", seat |-> 12, user |-> 0]],
    [lines |-> <<RequestLine("GET", PagePath, "crlf"), Header(1, "cr"), Header(0, "crlf")>>,
     eof |-> TRUE, meant |-> [op |-> "file", name |-> PagePath]],
    [lines |-> <<RequestLine("POST", <<"none">>, "crlf")>>,
     eof |-> FALSE, meant |-> [op |-> "bad"]]}

\* One file, of two blocks.
MCFiles == PagePath :> <<"block 1", "block 2">>
=============================================================================
