------------------------------ MODULE HttpClient ------------------------------
(***************************************************************************)
(* The HTTP client (http/client.c) and a program that makes several GET    *)
(* requests over one connection with it (http/http-cat.util.c).            *)
(*                                                                         *)
(* Conn is the connection's chain over its socket, Get the chain of the    *)
(* request under way.  The update function of Get is one of four, for the   *)
(* status line, the header lines, the sizes of chunks and the body; each   *)
(* pulls from Conn, releases what it used, and may install the next one.   *)
(*                                                                         *)
(* The server answers the requests in order, with the units of Responses:   *)
(* a line is a few units and a CR and LF of their own, since reads may end  *)
(* between these two; a unit of a body stands for a byte.                   *)
(***************************************************************************)
EXTENDS Integers, Sequences, SequencesExt

CONSTANTS
  Responses,      \* Responses[i]: what the server sends for the i-th request
  Bodies,         \* Bodies[i]: the body it means
  Frames,         \* Frames[i]: how it is framed (HasHead, HasItsLength, IsChunked)
  Closes,         \* the server closes the connection after the last of them
  Ends,           \* where in the answers the connection may end instead
  PullSize,       \* 1e6: what the program, and the body's function, pull
  MaxErrors,      \* bound: failures of read(2) or realloc
  InitialAlloc, GrowFactor, GrowSlack, DownshiftLimit, Garbage

Unit(kind, value) == [kind |-> kind, value |-> value]
Status(code) == Unit("status", code)
Length(n) == Unit("length", n)         \* Content-Length: n
Coding(name) == Unit("coding", name)   \* Transfer-Encoding: name
Other == Unit("other", 0)              \* any other header
Size(n) == Unit("size", n)             \* the hexadecimal size of a chunk
Byte(n) == Unit("byte", n)
Cr == Unit("cr", 0)
Lf == Unit("lf", 0)

Stream == FlattenSeq(Responses)

\* Where the answer to the i-th request ends.
EndOf(i) == Len(FlattenSeq(SubSeq(Responses, 1, i)))

\* What the answers are made of.
Sent == {Stream[x] : x \in 1..Len(Stream)}

\* A line with its CR and LF, between two places of an answer.
IsLine(answer, from, to) ==
  /\ from + 2 <= to /\ to <= Len(answer)
  /\ answer[to - 1] = Cr /\ answer[to] = Lf
  /\ \A x \in from + 1..to - 2 : answer[x] # Cr

\* The k-th header line is the unit after Frames[i].lines[k]: the status line is
\* the first of the lines, the empty one the last, and what follows them is at
\* the last place of `lines`.
HeadersOf(i) == 2..Len(Frames[i].lines) - 2
Header(i, k) == Responses[i][Frames[i].lines[k] + 1]
HeadOf(i) == Frames[i].lines[Len(Frames[i].lines)]

HasHead(i) ==
  LET at == Frames[i].lines
  IN  /\ at \in Seq(Nat) /\ Len(at) > 2 /\ at[1] = 0
      /\ \A k \in 1..Len(at) - 1 : IsLine(Responses[i], at[k], at[k + 1])
      /\ Responses[i][1] = Status(200) /\ at[2] = 3
      /\ \A k \in HeadersOf(i) : at[k] + 2 < at[k + 1]
      /\ at[Len(at) - 1] + 2 = at[Len(at)]

\* Of the headers, the one that `frames` names and no other speaks of the body.
IsFramedBy(i, header) ==
  /\ Frames[i].frames \in HeadersOf(i) /\ Header(i, Frames[i].frames) = header
  /\ \A k \in HeadersOf(i) \ {Frames[i].frames} :
       Header(i, k).kind \notin {"length", "coding"}

\* The units of the body from `had` on stand after a place of the answer.
Carries(i, at, had, size) ==
  /\ at + size <= Len(Responses[i]) /\ had + size <= Len(Bodies[i])
  /\ \A x \in 1..size : Responses[i][at + x] = Bodies[i][had + x]

\* A body that is not empty, with its length.
HasItsLength(i) ==
  /\ IsFramedBy(i, Length(Len(Bodies[i]))) /\ Len(Bodies[i]) > 0
  /\ Len(Responses[i]) = HeadOf(i) + Len(Bodies[i])
  /\ Carries(i, HeadOf(i), 0, Len(Bodies[i]))

\* Chunks: where the line with the size is and where the chunk itself, how much
\* of the body is before it, and its size, zero for the last one.  Two units
\* follow each chunk.
IsChunked(i) ==
  LET chunks == Frames[i].chunks  last == Len(chunks)
  IN  /\ IsFramedBy(i, Coding("chunked"))
      /\ chunks \in Seq([at : Nat, data : Nat, had : Nat, size : Nat])
      /\ last > 0 /\ chunks[1].at = HeadOf(i) /\ chunks[1].had = 0
      /\ \A j \in 1..last :
           /\ IsLine(Responses[i], chunks[j].at, chunks[j].data)
           /\ chunks[j].at + 2 < chunks[j].data
           /\ Responses[i][chunks[j].at + 1] = Size(chunks[j].size)
           /\ Carries(i, chunks[j].data, chunks[j].had, chunks[j].size)
           /\ chunks[j].size = 0 <=> j = last
      /\ \A j \in 1..last - 1 :
           /\ chunks[j + 1].at = chunks[j].data + chunks[j].size + 2
           /\ chunks[j + 1].had = chunks[j].had + chunks[j].size
      /\ chunks[last].data + 2 = Len(Responses[i])
      /\ chunks[last].had = Len(Bodies[i])

ASSUME ResponsesAssumption ==
  /\ Responses \in Seq(Seq(Sent)) /\ Bodies \in Seq(Seq(Sent))
  /\ Len(Responses) = Len(Bodies) /\ Len(Responses) > 0
  /\ \A i \in 1..Len(Responses) : HasHead(i) /\ (HasItsLength(i) \/ IsChunked(i))

ASSUME ClientAssumption ==
  /\ Closes \in BOOLEAN /\ PullSize \in Nat \ {0} /\ MaxErrors \in Nat
  /\ Ends \subseteq 0..Len(Stream) /\ Len(Stream) \in Ends
  /\ InitialAlloc \in Nat \ {0} /\ GrowFactor \in Nat \ {0} /\ GrowSlack \in Nat

VARIABLES
  inBuffer, inReleased, inError, inComplete, inFresh, inPc, inMax, inContents,
  inResult, inConsumed, inAlloc, inTaken, inErrors,
  buffer, released, is_error, is_complete, fresh_read, pc, max_size, contents,
  result, consumed,
  update,     \* interface.update: "status", "header", "chunk" or "body"
  pulling,    \* the update function is inside chain_pull
  transfer_encoding_type, body_size, have_size,   \* client_get_arg
  request,    \* requests made
  main,       \* where the program is: "get", "pull", "push" or "release"
  exit,       \* "running", "success", "failure", or "crashed"
  shown       \* history: shown[i]: what the i-th get has given the program

conn == <<inBuffer, inReleased, inError, inComplete, inFresh, inPc, inMax,
          inContents, inResult, inConsumed, inAlloc, inTaken, inErrors>>
get == <<buffer, released, is_error, is_complete, fresh_read, pc, max_size,
         contents, result, consumed>>
arg == <<transfer_encoding_type, body_size, have_size>>
program == <<request, main, exit, shown>>
vars == <<conn, get, update, pulling, arg, program>>

Conn == INSTANCE FdChainRead WITH
  buffer <- inBuffer, released <- inReleased, is_error <- inError,
  is_complete <- inComplete, fresh_read <- inFresh, pc <- inPc,
  max_size <- inMax, contents <- inContents, result <- inResult,
  consumed <- inConsumed, max <- inAlloc, taken <- inTaken,
  errors <- inErrors, Source <- Stream, Targets <- 0..PullSize,
  Releases <- {}, MaxConsumed <- Len(Stream)

Get == INSTANCE ChainRead

Init ==
  /\ Conn!Init /\ Get!ChainInit
  /\ update = "status" /\ pulling = FALSE
  /\ transfer_encoding_type = "identity" /\ body_size = 0 /\ have_size = 0
  /\ request = 0 /\ main = "get" /\ exit = "running"
  /\ shown = [i \in 1..Len(Responses) |-> <<>>]

-----------------------------------------------------------------------------
(* The update functions.                                                   *)

\* Where a CR is followed by a LF.
LineEnds(units) ==
  {i \in 1..(Len(units) - 1) : units[i] = Cr /\ units[i + 1] = Lf}

Line(units) == SubSeq(units, 1, Min(LineEnds(units)) - 1)

Wanted == body_size - have_size

\* The update function pulls: a line asks for anything, the body for itself.
UpdatePulls ==
  /\ pc = "reading" /\ ~pulling
  /\ update = "body" => body_size # 0
  /\ Conn!Pull(IF update # "body" THEN 0
               ELSE IF Wanted < PullSize THEN Wanted ELSE PullSize)
  /\ pulling' = TRUE
  /\ UNCHANGED <<inAlloc, inTaken, inErrors, get, update, arg, program>>

\* The server's answers arrive, those to the requests it has been sent; or the
\* connection ends, in the middle of one of them or after the last.
ServerAnswers ==
  /\ Conn!Fetch
  /\ inTaken' <= EndOf(request) /\ (inTaken' = inTaken => Closes)
  /\ UNCHANGED <<get, update, pulling, arg, program>>

ConnFails ==
  /\ Conn!FetchFails \/ Conn!AllocFails
  /\ UNCHANGED <<get, update, pulling, arg, program>>

\* The pull has returned, and the update function goes on.
Pulled(outcome) ==
  pulling /\ inPc = "idle" /\ inResult = outcome /\ pulling' = FALSE

\* The update function returns, having used n units of the connection.
Uses(n) == Conn!Release(n) /\ UNCHANGED <<inAlloc, inTaken, inErrors>>

\* Mutant: an answer that is cut short is complete.
UpdateFails_EndsAtEof ==
  /\ \E outcome \in {"end", "failed"} : Pulled(outcome)
  /\ Get!Absorb(buffer, IF inError THEN "error" ELSE "complete")
  /\ UNCHANGED <<conn, update, arg, program>>

\* Mutant: the function that runs waits for more.
UpdateFails_GoesOn ==
  /\ \E outcome \in {"end", "failed"} : Pulled(outcome)
  /\ Get!Absorb(buffer, "incomplete")
  /\ UNCHANGED <<conn, update, arg, program>>

\* Nothing could be pulled: whichever function runs, the get has failed.
UpdateFails ==
  /\ \E outcome \in {"end", "failed"} : Pulled(outcome)
  /\ Get!Absorb(buffer, "error")
  /\ UNCHANGED <<conn, update, arg, program>>

\* http_getline: no line has arrived yet.
LineIsIncomplete ==
  /\ update # "body" /\ Pulled("data") /\ LineEnds(inContents) = {}
  /\ Get!Absorb(buffer, "incomplete")
  /\ UNCHANGED <<conn, update, arg, program>>

\* http_getline: a line has, and is released with its CR and LF.
GetLine ==
  /\ Pulled("data") /\ LineEnds(inContents) # {}
  /\ Uses(Len(Line(inContents)) + 2)
  /\ UNCHANGED program

StatusLine ==
  /\ update = "status" /\ GetLine
  /\ IF Line(inContents) = <<Status(200)>>
     THEN Get!Absorb(buffer, "incomplete") /\ update' = "header"
     ELSE Get!Absorb(buffer, "error") /\ UNCHANGED update
  /\ UNCHANGED arg

\* The empty line ends the headers.
HeadersEnd ==
  /\ update = "header" /\ GetLine /\ Line(inContents) = <<>>
  /\ Get!Absorb(buffer, "incomplete")
  /\ update' = IF transfer_encoding_type = "chunked" THEN "chunk" ELSE "body"
  /\ UNCHANGED arg

\* parse_http_line: a header that contradicts an earlier one, or a coding that
\* is not chunked.
Refuses(header) ==
  \/ header.kind \in {"length", "coding"}
     /\ (body_size # 0 \/ transfer_encoding_type # "identity")
  \/ header.kind = "coding" /\ header.value # "chunked"

HeaderLine ==
  /\ update = "header" /\ GetLine /\ Line(inContents) # <<>>
  /\ LET header == Line(inContents)[1]
     IN  IF Refuses(header)
         THEN Get!Absorb(buffer, "error") /\ UNCHANGED arg
         ELSE /\ Get!Absorb(buffer, "incomplete")
              /\ body_size' = IF header.kind = "length" THEN header.value ELSE body_size
              /\ transfer_encoding_type' =
                   IF header.kind = "coding" THEN "chunked" ELSE transfer_encoding_type
              /\ UNCHANGED have_size
  /\ UNCHANGED update

\* The size of a chunk, before the chunk.
SizeLine ==
  /\ update = "chunk" /\ GetLine
  /\ LET line == Line(inContents)
     IN  IF line # <<>> /\ line[1].kind = "size"
         THEN /\ Get!Absorb(buffer, "incomplete")
              /\ body_size' = line[1].value /\ have_size' = 0 /\ update' = "body"
         ELSE Get!Absorb(buffer, "error") /\ UNCHANGED <<update, body_size, have_size>>
  /\ UNCHANGED transfer_encoding_type

\* Mutant: the CR and LF after the last chunk are left.
BodyIsEmpty_LeavesCrlf ==
  /\ pc = "reading" /\ ~pulling /\ update = "body" /\ body_size = 0
  /\ Uses(0)
  /\ Get!Absorb(buffer, "complete")
  /\ UNCHANGED <<update, pulling, arg, program>>

\* The last chunk, or an answer without a body: two units are released unseen.
BodyIsEmpty ==
  /\ pc = "reading" /\ ~pulling /\ update = "body" /\ body_size = 0
  /\ Uses(2)
  /\ Get!Absorb(buffer, "complete")
  /\ UNCHANGED <<update, pulling, arg, program>>

\* Mutant: more than the body is taken, when more has arrived.
Got_All == Len(inContents)

\* How much of what was pulled belongs to the body, or to the chunk.
Got == IF Len(inContents) > Wanted THEN Wanted ELSE Len(inContents)

\* Mutant: everything pulled is taken for the body.
BodyArrives_AppendsAll ==
  /\ update = "body" /\ Pulled("data")
  /\ LET whole == Got = Wanted
         chunked == transfer_encoding_type = "chunked"
     IN  /\ Uses(IF whole /\ chunked THEN Got + 2 ELSE Got)
         /\ Get!Absorb(buffer \o inContents,
                       IF whole /\ ~chunked THEN "complete" ELSE "incomplete")
         /\ update' = IF whole /\ chunked THEN "chunk" ELSE "body"
  /\ have_size' = have_size + Got
  /\ UNCHANGED <<transfer_encoding_type, body_size, program>>

\* A part of the body, or of a chunk, or the rest of it.
BodyArrives ==
  /\ update = "body" /\ Pulled("data")
  /\ LET whole == Got = Wanted
         chunked == transfer_encoding_type = "chunked"
     IN  /\ Uses(IF whole /\ chunked THEN Got + 2 ELSE Got)
         /\ Get!Absorb(buffer \o SubSeq(inContents, 1, Got),
                       IF whole /\ ~chunked THEN "complete" ELSE "incomplete")
         /\ update' = IF whole /\ chunked THEN "chunk" ELSE "body"
  /\ have_size' = have_size + Got
  /\ UNCHANGED <<transfer_encoding_type, body_size, program>>

-----------------------------------------------------------------------------
(* The program.                                                            *)

MainAt(where) == main = where /\ exit = "running" /\ pc = "idle"

\* chain_read_new.
NewGet ==
  /\ buffer' = <<>> /\ released' = 0 /\ contents' = <<>>
  /\ is_error' = FALSE /\ is_complete' = FALSE /\ fresh_read' = FALSE
  /\ pc' = "idle" /\ max_size' = 0 /\ result' = "none" /\ consumed' = 0

\* http_client_get: the request is written, and a new chain made.
MainGets ==
  /\ MainAt("get") /\ request < Len(Responses)
  /\ NewGet
  /\ update' = "status"
  /\ transfer_encoding_type' = "identity" /\ body_size' = 0 /\ have_size' = 0
  /\ request' = request + 1 /\ main' = "pull"
  /\ UNCHANGED <<conn, pulling, exit, shown>>

\* The request cannot be written, and the program goes on with a null handle.
MainGetsNull ==
  /\ MainAt("get") /\ request < Len(Responses) /\ MaxErrors > 0
  /\ exit' = "crashed"
  /\ UNCHANGED <<conn, get, update, pulling, arg, request, main, shown>>

MainPulls ==
  /\ MainAt("pull") /\ Get!Pull(PullSize)
  /\ main' = "push"
  /\ UNCHANGED <<conn, update, pulling, arg, request, exit, shown>>

\* What the get gave is pushed to the output.
MainPushes ==
  /\ MainAt("push") /\ result = "data"
  /\ shown' = [shown EXCEPT ![request] = @ \o contents]
  /\ main' = "release"
  /\ UNCHANGED <<conn, get, update, pulling, arg, request, exit>>

\* The push fails.
MainPushFails ==
  /\ MainAt("push") /\ result = "data" /\ MaxErrors > 0
  /\ exit' = "failure"
  /\ UNCHANGED <<conn, get, update, pulling, arg, request, main, shown>>

MainReleases ==
  /\ MainAt("release") /\ Get!Release(Len(contents))
  /\ main' = "pull"
  /\ UNCHANGED <<conn, update, pulling, arg, request, exit, shown>>

\* The get gave nothing: it has ended or failed.
MainEndsGet ==
  /\ MainAt("push") /\ result # "data"
  /\ IF is_error THEN exit' = "failure" /\ UNCHANGED main
     ELSE main' = "get" /\ UNCHANGED exit
  /\ UNCHANGED <<conn, get, update, pulling, arg, request, shown>>

MainReturns ==
  /\ MainAt("get") /\ request = Len(Responses)
  /\ exit' = "success"
  /\ UNCHANGED <<conn, get, update, pulling, arg, request, main, shown>>

Next ==
  \/ UpdatePulls \/ ServerAnswers \/ ConnFails \/ UpdateFails
  \/ LineIsIncomplete \/ StatusLine \/ HeadersEnd \/ HeaderLine \/ SizeLine
  \/ BodyIsEmpty \/ BodyArrives
  \/ MainGets \/ MainGetsNull \/ MainPulls \/ MainPushes \/ MainPushFails
  \/ MainReleases \/ MainEndsGet \/ MainReturns

Spec == Init /\ [][Next]_vars

\* The program runs on, and what the server has sent arrives.
FairSpec == Spec /\ WF_vars(Next)

-----------------------------------------------------------------------------
Units == Sent \cup {Garbage}

\* Types: no count of body units ever exceeds the body (client.c:214, 236).
TypeOK ==
  /\ Conn!ChainTypeOK(Units) /\ Get!ChainTypeOK(Units)
  /\ update \in {"status", "header", "chunk", "body"} /\ pulling \in BOOLEAN
  /\ transfer_encoding_type \in {"identity", "chunked"}
  /\ body_size \in Nat /\ have_size \in 0..body_size
  /\ request \in 0..Len(Responses)
  /\ main \in {"get", "pull", "push", "release"}
  /\ exit \in {"running", "success", "failure", "crashed"}

\* What the get under way has decoded: what it has shown, and its cache.
Decoded ==
  shown[request] \o (IF main = "release" THEN <<>> ELSE Get!Window(buffer, released))

\* What a get has decoded is a beginning of the body of its own answer, however
\* the reads cut the lines and chunks and the requests follow each other.
BodyIsFaithful ==
  /\ \A i \in 1..request : IsPrefix(shown[i], Bodies[i])
  /\ request > 0 => IsPrefix(Decoded, Bodies[request])

\* A get that has ended without a failure has stood between two answers: its
\* whole body was shown, and the next unit the connection gives is the first
\* of the next answer.
EndsInStep ==
  main = "get" /\ exit # "crashed" =>
    /\ \A i \in 1..request : shown[i] = Bodies[i]
    /\ inConsumed = EndOf(request)

\* A connection that its gets share is never out of step: no count exceeds the
\* body it counts, and a get ends where the next answer begins.
StaysInStep == TypeOK /\ EndsInStep

\* client.h:27 tells the program to let its gets "finish or result in error":
\* each of them does, once its answer has arrived.
GetsEnd == <>(exit # "running")
=============================================================================
