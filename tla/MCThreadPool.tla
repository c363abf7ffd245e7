---------------------------- MODULE MCThreadPool ----------------------------
(* ThreadPool with the sets the configurations choose SigAt from.            *)
EXTENDS ThreadPool

\* SIGINT only while main blocks in accept, SIGINT anywhere.
InAccept   == {"accept"}
Anywhere   == MainPcs

=============================================================================
