----------------------------- MODULE TraceDriver -----------------------------
(* The trace driver (kma/skeleton/kma.c) over the allocator that gives every *)
(* request a page (kma_dummy.c) over the page allocator of KmaPage.  The     *)
(* driver reads REQUEST and FREE commands, fills what it is given, compares  *)
(* it with a copy before it frees it, and passes if every page came back.    *)
(*                                                                           *)
(* Memory is counted in words of a pointer's size.  Word 0 of page p is      *)
(* link[p] of KmaPage: the link of a free page, and the allocator's pointer  *)
(* to the page while it is given out.                                        *)
EXTENDS KmaPage, FiniteSets

CONSTANTS PageWords,   \* PAGESIZE in words
          NumReq,      \* n_req: the number of request ids in the trace
          Sizes,       \* the sizes that the trace asks for
          NumValues    \* how many values a word can have before val wraps

ASSUME PageWordsAssumption == PageWords \in Nat \ {0, 1}
ASSUME SizesAssumption     == Sizes \subseteq Nat \ {0}

Ids == 0 .. NumReq - 1
\* A FREE request; the size and address it had are not read again.
Unused == [state |-> "FREE", size |-> 0, ptr |-> 0, value |-> <<>>]

VARIABLES
    requests,           \* mem_t of each request id
    data,               \* the words of every page but the first, and the word on
                        \* either side of the pool
    val,                \* the value that fill writes next
    currentAllocBytes,
    anyMismatches,
    dpc,                \* where the driver is: between commands, or inside
                        \* kma_malloc with the page it got
    verdict             \* how the program ended, "" while it runs

driverVars == <<requests, data, val, currentAllocBytes, anyMismatches>>
traceVars == <<vars, driverVars, dpc, verdict>>

Running == verdict = "" /\ ~halted
Between == [at |-> "command"]

TraceInit ==
    /\ Init
    /\ requests = [r \in Ids |-> Unused]
    /\ data = [a \in -1 .. NumPages * PageWords |-> 0]
    /\ val = 0
    /\ currentAllocBytes = 0
    /\ anyMismatches = FALSE
    /\ dpc = Between
    /\ verdict = ""

-----------------------------------------------------------------------------
(* kma_malloc of kma_dummy.c.                                                *)

\* The command is read; kma_malloc begins with get_page, which may be error().
Request(r, size) ==
    /\ Running /\ dpc = Between
    /\ requests[r].state = "FREE"
    /\ \/ /\ get_page
          /\ dpc' = [at |-> "header", r |-> r, size |-> size, page |-> FirstFree]
          /\ UNCHANGED verdict
       \/ /\ get_page_fails
          /\ verdict' = "all pages already allocated"
          /\ UNCHANGED dpc
    /\ UNCHANGED driverVars

\* *((kma_page_t**)page->ptr) = page
StoreHeader ==
    /\ Running /\ dpc.at = "header"
    /\ ClientWrites(dpc.page)
    /\ link'[dpc.page] = dpc.page
    /\ dpc' = [dpc EXCEPT !.at = "size"]
    /\ UNCHANGED <<driverVars, verdict>>

TooLarge(size) == size + 1 > PageWords

\* The requests for which allocate wants NULL; any other answer is an error.
WrongNullExpected(size) == size > PageWords
NullExpected(size) == size > PageWords - 1
Answered(isNull) == verdict' = IF isNull = NullExpected(dpc.size) THEN ""
                               ELSE "got NULL"

\* allocate counts what it was given, not what it asked for.
WrongCounted(isNull) == dpc.size
Counted(isNull) == IF isNull THEN 0 ELSE dpc.size

\* The page goes back; the request stays FREE.
ReturnNull ==
    /\ Running /\ dpc.at = "size" /\ TooLarge(dpc.size)
    /\ free_page(dpc.page)
    /\ Answered(TRUE)
    /\ currentAllocBytes' = currentAllocBytes + Counted(TRUE)
    /\ dpc' = Between
    /\ UNCHANGED <<requests, data, val, anyMismatches>>

-----------------------------------------------------------------------------
(* allocate and deallocate of kma.c.                                         *)

\* The words from address a on: what fill writes and check compares.
Word(a) == IF \E p \in PageIds : a = p * PageWords
           THEN link[a \div PageWords] ELSE data[a]
Filled == [i \in 1 .. dpc.size |-> (val + i - 1) % NumValues]

\* kma_malloc returns the address behind the header; fill, copy, check.
WrongGivenAt(p) == p * PageWords
GivenAt(p) == p * PageWords + 1
Allocate ==
    LET ptr == GivenAt(dpc.page)
        New(a, old) == IF a \in ptr .. ptr + dpc.size - 1
                       THEN Filled[a - ptr + 1] ELSE old
    IN
    /\ Running /\ dpc.at = "size" /\ ~TooLarge(dpc.size)
    /\ Answered(FALSE)
    /\ data' = [a \in DOMAIN data |-> New(a, data[a])]
    /\ link' = [p \in PageIds |-> New(p * PageWords, link[p])]
    /\ val' = (val + dpc.size) % NumValues
    /\ currentAllocBytes' = currentAllocBytes + Counted(FALSE)
    /\ requests' = [requests EXCEPT ![dpc.r] =
          [state |-> "USED", size |-> dpc.size, ptr |-> ptr, value |-> Filled]]
    /\ dpc' = Between
    /\ UNCHANGED <<pool, next_free_page, num_in_use, held, halted, order,
                   anyMismatches>>

\* kma_free reads the page's address in front of the block.
HeaderOf(r) == Word(requests[r].ptr - 1)

Deallocate(r) ==
    LET q == requests[r] IN
    /\ Running /\ dpc = Between
    /\ q.state = "USED"
    /\ free_page(HeaderOf(r))
    /\ anyMismatches' = (anyMismatches
          \/ \E i \in 1 .. q.size : Word(q.ptr + i - 1) # q.value[i])
    /\ currentAllocBytes' = currentAllocBytes - q.size
    /\ requests' = [requests EXCEPT ![r] = Unused]
    /\ UNCHANGED <<data, val, dpc, verdict>>

\* An id out of range, REQUEST of a USED id, FREE of a FREE one, an unknown
\* command: assert or error ends the program.
UnknownCommand ==
    /\ Running /\ dpc = Between
    /\ verdict' = "assertion"
    /\ UNCHANGED <<vars, driverVars, dpc>>

\* The end of the trace.
WrongPagesLeft == FALSE
PagesLeft == num_in_use # 0
End ==
    /\ Running /\ dpc = Between
    /\ verdict' = IF PagesLeft THEN "not all pages freed"
                  ELSE IF anyMismatches THEN "memory mismatches"
                  ELSE "PASS"
    /\ UNCHANGED <<vars, driverVars, dpc>>

TraceNext ==
    \/ \E r \in Ids, size \in Sizes : Request(r, size)
    \/ StoreHeader
    \/ ReturnNull
    \/ Allocate
    \/ \E r \in Ids : Deallocate(r)
    \/ UnknownCommand
    \/ End

TraceSpec == TraceInit /\ [][TraceNext]_traceVars

-----------------------------------------------------------------------------
(* Properties.                                                               *)

Used == {r \in Ids : requests[r].state = "USED"}

\* The pages of the requests that are out, and the one being allocated.
Taken == {HeaderOf(r) : r \in Used}
         \cup (IF dpc.at = "command" THEN {} ELSE {dpc.page})

\* Whatever the trace, a block that is out holds what fill wrote into it and
\* lies behind the header of a page of its own, which kma_free will find: no
\* block, header or link of a free page ever lies on another block.
ContentsKept ==
    /\ ~anyMismatches
    /\ \A r \in Used : \A i \in 1 .. requests[r].size :
          Word(requests[r].ptr + i - 1) = requests[r].value[i]
    /\ ~halted =>
          /\ held = Taken
          /\ \A r, s \in Used : HeaderOf(r) = HeaderOf(s) => r = s

\* The words of a block.
Block(r) == requests[r].ptr .. requests[r].ptr + requests[r].size - 1

\* currentAllocBytes is the number of words that are in a block that is out:
\* what was refused with NULL is not counted, and no word is in two blocks.
BytesCounted == currentAllocBytes = Cardinality(UNION {Block(r) : r \in Used})

\* The program's verdict says what the trace did: it passes exactly the traces
\* that freed all they got, and the error of an unexpected or missing NULL never
\* comes.
VerdictRight ==
    /\ verdict = "PASS" => Used = {}
    /\ verdict = "not all pages freed" => Used # {}
    /\ verdict \notin {"got NULL", "memory mismatches"}
=============================================================================
