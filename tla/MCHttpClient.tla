---------------------------- MODULE MCHttpClient ----------------------------
(* Small instances of HttpClient: the answers of a server.                  *)
EXTENDS HttpClient

Crlf == <<Cr, Lf>>
Head200(headers) == <<Status(200)>> \o Crlf
                    \o FlattenSeq([i \in 1..Len(headers) |-> <<headers[i]>> \o Crlf])
                    \o Crlf
ChunkOf(body) == <<Size(Len(body))>> \o Crlf \o body \o Crlf
Identity(body) == Head200(<<Length(Len(body))>>) \o body
Chunked(chunks) == Head200(<<Coding("chunked")>>)
                   \o FlattenSeq([i \in 1..Len(chunks) |-> ChunkOf(chunks[i])])
                   \o ChunkOf(<<>>)

\* Their frames: lines of a unit each, and the chunks.
LinesOf(headers) == [k \in 1..headers + 2 |-> 3 * (k - 1)] \o <<3 * headers + 5>>

ChunksOf(chunks) ==
  LET sized == Append(chunks, <<>>)
      frame[j \in 1..Len(sized)] ==
        LET at == IF j = 1 THEN 8 ELSE frame[j - 1].data + frame[j - 1].size + 2
            had == IF j = 1 THEN 0 ELSE frame[j - 1].had + frame[j - 1].size
        IN  [at |-> at, data |-> at + 3, had |-> had, size |-> Len(sized[j])]
  IN  frame

IdentityFrame(headers) ==
  [lines |-> LinesOf(headers), frames |-> headers + 1, chunks |-> <<>>]
ChunkedFrame(chunks) == [lines |-> LinesOf(1), frames |-> 2, chunks |-> ChunksOf(chunks)]

\* A chunked answer, one whose body begins like an empty line, and one more.
MCBodies == <<<<Byte(1), Byte(2), Byte(3)>>, <<Cr, Lf, Byte(4), Byte(5), Byte(6)>>,
              <<Byte(7)>>>>
MCResponses == <<Chunked(<<<<Byte(1)>>, <<Byte(2), Byte(3)>>>>),
                 Head200(<<Other, Length(5)>>) \o MCBodies[2],
                 Chunked(<<<<Byte(7)>>>>)>>
MCFrames == <<ChunkedFrame(<<<<Byte(1)>>, <<Byte(2), Byte(3)>>>>), IdentityFrame(2),
              ChunkedFrame(<<<<Byte(7)>>>>)>>

\* The connection may end anywhere, or only after the last answer.
MCAnywhere == 0..Len(Stream)
MCAtItsEnd == {Len(Stream)}

\* An answer with a length.
MCOneBody == <<<<Byte(1), Byte(2)>>>>
MCIdentity == <<Identity(MCOneBody[1])>>
MCItsFrame == <<IdentityFrame(1)>>
=============================================================================
