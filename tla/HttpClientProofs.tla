-------------------------- MODULE HttpClientProofs --------------------------
(***************************************************************************)
(* Theorems about HttpClient, for any answers that are framed as a server  *)
(* frames them, any way to cut them into reads and any sizes of caches.    *)
(***************************************************************************)
EXTENDS HttpClient, SequenceLemmas

-----------------------------------------------------------------------------
(* The answers in the stream.                                              *)

Joined(i) == FlattenSeq(SubSeq(Responses, 1, i))

\* The answers and their bodies, as ResponsesAssumption has them.
LEMMA AnswersAre ==
  /\ Responses \in Seq(Seq(Sent)) /\ Bodies \in Seq(Seq(Sent))
  /\ Len(Responses) \in Nat \ {0} /\ Len(Bodies) = Len(Responses)
  /\ \A i \in 1..Len(Responses) :
       /\ Responses[i] \in Seq(Sent) /\ Len(Responses[i]) \in Nat
       /\ Bodies[i] \in Seq(Sent) /\ Len(Bodies[i]) \in Nat
       /\ HasHead(i) /\ (HasItsLength(i) \/ IsChunked(i))
BY ResponsesAssumption, LenProperties, ElementOfSeq

\* An answer begins where the one before ends.
LEMMA EndsAdvance ==
  /\ EndOf(0) = 0 /\ EndOf(Len(Responses)) = Len(Stream) /\ Stream \in Seq(Sent)
  /\ \A i \in 1..Len(Responses) :
       /\ Joined(i - 1) \in Seq(Sent) /\ Joined(i) = Joined(i - 1) \o Responses[i]
       /\ EndOf(i - 1) \in Nat /\ EndOf(i) = EndOf(i - 1) + Len(Responses[i])
       /\ EndOf(i) \in Nat
<1>1. Responses \in Seq(Seq(Sent)) /\ Len(Responses) \in Nat \ {0}
  BY AnswersAre
<1>2. ASSUME NEW i \in 1..Len(Responses)
      PROVE  /\ Joined(i - 1) \in Seq(Sent) /\ Joined(i) = Joined(i - 1) \o Responses[i]
             /\ EndOf(i - 1) \in Nat /\ EndOf(i) = EndOf(i - 1) + Len(Responses[i])
             /\ EndOf(i) \in Nat /\ Joined(i) \in Seq(Sent)
  <2>1. /\ Joined(i - 1) \in Seq(Sent) /\ Responses[i] \in Seq(Sent)
        /\ Joined(i) = Joined(i - 1) \o Responses[i]
    BY <1>1, FlattenNext DEF Joined
  <2>2. EndOf(i) = Len(Joined(i)) /\ EndOf(i - 1) = Len(Joined(i - 1))
    BY DEF EndOf, Joined
  <2>3. Len(Joined(i - 1)) \in Nat /\ Len(Responses[i]) \in Nat
        /\ Len(Joined(i)) = Len(Joined(i - 1)) + Len(Responses[i])
        /\ Joined(i) \in Seq(Sent)
    BY <2>1, LenProperties, ConcatProperties
  <2>4. EndOf(i) = EndOf(i - 1) + Len(Responses[i])
    BY <2>2, <2>3
  <2>5. EndOf(i - 1) \in Nat /\ EndOf(i) \in Nat
    <3> DEFINE e == Len(Joined(i - 1))
               n == Len(Responses[i])
    <3>1. e \in Nat /\ n \in Nat /\ EndOf(i - 1) = e /\ EndOf(i) = e + n
      BY <2>2, <2>3, <2>4
    <3> HIDE DEF e, n
    <3>2. QED  BY <3>1
  <2>6. QED  BY <2>1, <2>3, <2>4, <2>5
<1>3. EndOf(0) = 0
  <2>1. SubSeq(Responses, 1, 0) = <<>>
    BY <1>1, SubSeqEmpty
  <2>2. FlattenSeq(<<>>) = <<>>
    BY EmptySeq DEF FlattenSeq
  <2>3. QED  BY <2>1, <2>2, EmptySeq DEF EndOf
<1>4. SubSeq(Responses, 1, Len(Responses)) = Responses
  BY <1>1, SubSeqFull
<1>5. Joined(Len(Responses)) = Stream
  BY <1>4 DEF Joined, Stream
<1>6. Stream \in Seq(Sent) /\ EndOf(Len(Responses)) = Len(Stream)
  <2>1. Len(Responses) \in 1..Len(Responses)
    BY <1>1
  <2>2. Joined(Len(Responses)) \in Seq(Sent)
    BY <1>2, <2>1
  <2>3. QED  BY <1>4, <1>5, <2>2 DEF EndOf, Stream
<1>7. QED  BY <1>2, <1>3, <1>6

\* What has been joined is a beginning of the stream.
LEMMA JoinedIsPrefix ==
  ASSUME NEW i \in 1..Len(Responses)
  PROVE  /\ EndOf(i) <= Len(Stream)
         /\ \A x \in 1..EndOf(i) : Stream[x] = Joined(i)[x]
<1> DEFINE L == Len(Responses)
           Good(j) == /\ EndOf(j) <= Len(Stream)
                      /\ \A x \in 1..EndOf(j) : Stream[x] = Joined(j)[x]
           Bad == {d \in 0..L - 1 : ~Good(L - d)}
<1>1. L \in Nat \ {0} /\ Responses \in Seq(Seq(Sent)) /\ Stream \in Seq(Sent)
      /\ Len(Stream) \in Nat
  BY AnswersAre, EndsAdvance, LenProperties
<1>2. Bad = {}
  <2> SUFFICES ASSUME Bad # {} PROVE FALSE
    OBVIOUS
  <2>1. PICK d \in Bad : \A e \in Bad : d <= e
    <3>1. Bad \subseteq Nat
      BY <1>1
    <3> HIDE DEF Bad
    <3>2. QED  BY <3>1, LeastElement
  <2>2. d \in 0..L - 1 /\ ~Good(L - d) /\ d \in Nat
    BY <1>1
  <2>3. d # 0
    <3>1. SubSeq(Responses, 1, L) = Responses /\ L - 0 = L
      BY <1>1, SubSeqFull
    <3>2. Joined(L) = Stream
      BY <3>1 DEF Joined, Stream
    <3>3. EndOf(L) = Len(Stream)
      BY EndsAdvance
    <3>4. Good(L - 0)
      BY <1>1, <3>1, <3>2, <3>3
    <3> HIDE DEF Good
    <3>5. QED  BY <2>2, <3>4
  <2>4. d - 1 \in 0..L - 1 /\ ~(d <= d - 1) /\ L - (d - 1) = (L - d) + 1
    BY <1>1, <2>2, <2>3
  <2>5. Good(L - (d - 1))
    <3>1. d - 1 \notin Bad
      BY <2>1, <2>4
    <3> HIDE DEF Good
    <3>2. QED  BY <2>4, <3>1
  <2> DEFINE j == (L - d) + 1
  <2>6. j \in 1..L /\ j - 1 = L - d /\ Good(j)
    <3>1. j \in 1..L /\ j - 1 = L - d
      BY <1>1, <2>2, <2>3
    <3>2. QED  BY <2>4, <2>5, <3>1
  <2> HIDE DEF j, Bad
  <2>7. /\ Joined(j - 1) \in Seq(Sent) /\ Joined(j) = Joined(j - 1) \o Responses[j]
        /\ EndOf(j - 1) \in Nat /\ EndOf(j) = EndOf(j - 1) + Len(Responses[j])
        /\ Responses[j] \in Seq(Sent) /\ Len(Responses[j]) \in Nat
    BY <2>6, EndsAdvance, AnswersAre
  <2>8. EndOf(j - 1) = Len(Joined(j - 1)) /\ EndOf(j) = Len(Joined(j))
    BY DEF EndOf, Joined
  <2>9. EndOf(j - 1) <= Len(Stream)
    BY <1>1, <2>6, <2>7
  <2>10. ASSUME NEW x \in 1..EndOf(j - 1)
         PROVE  Stream[x] = Joined(j - 1)[x]
    <3>1. x \in 1..EndOf(j)
      BY <2>7
    <3>2. Stream[x] = Joined(j)[x]
      BY <2>6, <3>1
    <3>5. x \in 1..Len(Joined(j - 1)) + Len(Responses[j]) /\ x <= Len(Joined(j - 1))
      <4> DEFINE e == Len(Joined(j - 1))
                 n == Len(Responses[j])
      <4>1. e \in Nat /\ n \in Nat /\ x \in 1..e
        BY <2>7, <2>8
      <4> HIDE DEF e, n
      <4>2. x \in 1..e + n /\ x <= e
        BY <4>1
      <4>3. QED  BY <4>2 DEF e, n
    <3>3. (Joined(j - 1) \o Responses[j])[x] = Joined(j - 1)[x]
      BY <2>7, <3>5, ConcatProperties
    <3>4. QED  BY <2>7, <3>2, <3>3
  <2>11. Good(j - 1)
    BY <2>9, <2>10
  <2> HIDE DEF Good
  <2>12. QED  BY <2>2, <2>6, <2>11
<1>3. L - i \in 0..L - 1 /\ L - (L - i) = i
  BY <1>1
<1>4. Good(L - (L - i))
  BY <1>2, <1>3
<1>5. QED  BY <1>3, <1>4

\* Each answer stands in the stream, behind the ones before it.
LEMMA AnswerInStream ==
  ASSUME NEW i \in 1..Len(Responses)
  PROVE  /\ EndOf(i - 1) \in Nat /\ EndOf(i) = EndOf(i - 1) + Len(Responses[i])
         /\ EndOf(i) <= Len(Stream) /\ EndOf(i) \in Nat
         /\ \A x \in 1..Len(Responses[i]) : Stream[EndOf(i - 1) + x] = Responses[i][x]
<1>1. /\ Joined(i - 1) \in Seq(Sent) /\ Joined(i) = Joined(i - 1) \o Responses[i]
      /\ EndOf(i - 1) \in Nat /\ EndOf(i) = EndOf(i - 1) + Len(Responses[i])
      /\ EndOf(i) \in Nat
      /\ Responses[i] \in Seq(Sent) /\ Len(Responses[i]) \in Nat
  BY EndsAdvance, AnswersAre
<1>2. EndOf(i - 1) = Len(Joined(i - 1))
  BY DEF EndOf, Joined
<1>3. ASSUME NEW x \in 1..Len(Responses[i])
      PROVE  Stream[EndOf(i - 1) + x] = Responses[i][x]
  <2> DEFINE y == EndOf(i - 1) + x
  <2>1. y \in 1..EndOf(i) /\ y > Len(Joined(i - 1)) /\ y - Len(Joined(i - 1)) = x
        /\ y \in 1..Len(Joined(i - 1)) + Len(Responses[i])
    <3>1. x \in Nat /\ 1 <= x /\ x <= Len(Responses[i])
      BY <1>1
    <3> DEFINE e == EndOf(i - 1)
               n == Len(Responses[i])
    <3>2. e \in Nat /\ n \in Nat /\ Len(Joined(i - 1)) = e /\ EndOf(i) = e + n
      BY <1>1, <1>2
    <3>4. /\ y = e + x /\ x <= n
      BY <3>1
    <3> HIDE DEF e, n, y
    <3>5. y \in 1..e + n /\ y > e /\ y - e = x
      BY <3>1, <3>2, <3>4
    <3>6. QED  BY <3>2, <3>5 DEF n
  <2> HIDE DEF y
  <2>2. (Joined(i - 1) \o Responses[i])[y] = Responses[i][y - Len(Joined(i - 1))]
    BY <1>1, <2>1, ConcatProperties
  <2>3. Stream[y] = Joined(i)[y]
    BY <2>1, JoinedIsPrefix
  <2>4. QED  BY <1>1, <2>1, <2>2, <2>3 DEF y
<1>4. QED  BY <1>1, <1>3, JoinedIsPrefix

-----------------------------------------------------------------------------
(* The invariant.                                                          *)

\* The connection: its cache is the last that arrived, it stands where the
\* client has released, and it is not read before all of an answer was.
CacheIsStream ==
  ~inError =>
    /\ Len(inBuffer) <= inTaken
    /\ inBuffer = SubSeq(Stream, inTaken - Len(inBuffer) + 1, inTaken)
    /\ inConsumed = inTaken - Len(inBuffer) + inReleased

ConnTypeOK ==
  /\ Conn!ChainTypeOK(Units) /\ inAlloc \in Nat /\ inErrors \in Nat
  /\ inTaken \in 0..Len(Stream)

\* What the connection has that was not released.
Ahead == SubSeq(Stream, inConsumed + 1, inTaken)

ConnInv ==
  /\ ConnTypeOK /\ CacheIsStream
  /\ inPc = "reading" => pulling /\ ~inError /\ ~inComplete
  /\ pulling /\ inPc = "idle" =>
       \/ inResult = "data" /\ ~inError /\ inContents = Ahead
       \/ inResult \in {"end", "failed"}
  /\ inError => is_error \/ (pulling /\ inPc = "idle" /\ inResult = "failed")

\* The get and the program: its cache is what has not been shown yet.
GetTypeOK ==
  /\ Get!ChainTypeOK(Units)
  /\ update \in {"status", "header", "chunk", "body"} /\ pulling \in BOOLEAN
  /\ transfer_encoding_type \in {"identity", "chunked"}
  /\ body_size \in Nat /\ have_size \in 0..body_size
  /\ request \in 0..Len(Responses)
  /\ main \in {"get", "pull", "push", "release"}
  /\ exit \in {"running", "success", "failure", "crashed"}
  /\ shown \in [1..Len(Responses) -> Seq(Units)]

GetInv ==
  /\ GetTypeOK
  /\ pc = "reading" => main = "push" /\ ~is_error /\ ~is_complete /\ exit = "running"
  /\ pulling => pc = "reading" /\ (update = "body" => body_size # 0)
  /\ is_error => main = "push"
  /\ main = "pull" => released = Len(buffer)
  /\ main # "get" => request > 0
  /\ main = "push" =>
       /\ released = 0
       /\ pc = "idle" => \/ result = "data" /\ ~is_error /\ contents = buffer
                         \/ result = "end" /\ is_complete /\ ~is_error /\ buffer = <<>>
                         \/ result = "failed" /\ is_error
  /\ main = "release" => released = 0 /\ contents = buffer
  /\ main = "get" => released = 0 /\ buffer = <<>> /\ (request > 0 => is_complete)

\* Where the client is in the answer, and what it makes of it there.
Place == inConsumed - EndOf(request - 1)
Body == Bodies[request]
Frame == Frames[request]

\* What the headers before the k-th line have said of the body.
Heard(k) ==
  /\ have_size = 0
  /\ body_size = IF HasItsLength(request) /\ Frame.frames < k THEN Len(Body) ELSE 0
  /\ transfer_encoding_type =
       IF ~HasItsLength(request) /\ Frame.frames < k THEN "chunked" ELSE "identity"

AtLine(k) == Place = Frame.lines[k] /\ Heard(k) /\ Decoded = <<>>

InBody ==
  /\ HasItsLength(request) /\ transfer_encoding_type = "identity"
  /\ body_size = Len(Body) /\ have_size < body_size
  /\ Place = HeadOf(request) + have_size /\ Decoded = SubSeq(Body, 1, have_size)

\* Before the line of the j-th chunk, and in the chunk.
AtChunk(j) ==
  /\ Place = Frame.chunks[j].at /\ Decoded = SubSeq(Body, 1, Frame.chunks[j].had)

InChunk(j) ==
  /\ body_size = Frame.chunks[j].size /\ (have_size < body_size \/ body_size = 0)
  /\ Place = Frame.chunks[j].data + have_size
  /\ Decoded = SubSeq(Body, 1, Frame.chunks[j].had + have_size)

Station ==
  IF is_complete THEN Place = Len(Responses[request]) /\ Decoded = Body
  ELSE \/ update = "status" /\ AtLine(1)
       \/ update = "header" /\ \E k \in 2..Len(Frame.lines) - 1 : AtLine(k)
       \/ update = "body" /\ InBody
       \/ /\ update \in {"chunk", "body"}
          /\ ~HasItsLength(request) /\ transfer_encoding_type = "chunked"
          /\ \E j \in 1..Len(Frame.chunks) :
               IF update = "chunk" THEN AtChunk(j) ELSE InChunk(j)

InPlace ==
  /\ request = 0 => inConsumed = 0
  /\ request > 0 => Station
  /\ \A i \in 1..Len(Responses) :
       /\ i < request => shown[i] = Bodies[i]
       /\ i > request => shown[i] = <<>>

Inv == ConnInv /\ GetInv /\ InPlace

-----------------------------------------------------------------------------
(* The chain over the connection.                                          *)

\* The stream is made of units.
LEMMA StreamUnits == Stream \in Seq(Units) /\ Len(Stream) \in Nat
<1>1. Stream \in Seq(Sent) /\ Sent \subseteq Units
  BY EndsAdvance DEF Units
<1>2. Stream \in Seq(Units)
  <2>1. Len(Stream) \in Nat /\ \A x \in 1..Len(Stream) : Stream[x] \in Units
    BY <1>1, LenProperties, ElementOfSeq
  <2>2. Stream = [x \in 1..Len(Stream) |-> Stream[x]]
    BY <1>1
  <2>3. QED  BY <2>1, <2>2, IsASeq
<1>3. QED  BY <1>2, LenProperties

\* What a client is shown who has released r of a cache of the last n units.
LEMMA ConnShows ==
  ASSUME NEW t \in 0..Len(Stream), NEW n \in 0..t, NEW r \in Nat,
         NEW b, b = SubSeq(Stream, t - n + 1, t)
  PROVE  /\ b \in Seq(Units) /\ Len(b) = n
         /\ Conn!Window(b, r) = SubSeq(Stream, (t - n + r) + 1, t)
         /\ Conn!Window(b, r) \in Seq(Units)
<1> DEFINE lo == t - n
<1>1. Stream \in Seq(Units) /\ Len(Stream) \in Nat
  BY StreamUnits
<1>2. lo \in Nat /\ lo <= t /\ t \in Nat /\ t <= Len(Stream) /\ b = SubSeq(Stream, lo + 1, t)
      /\ n \in Nat /\ t - lo = n
  BY <1>1
<1> HIDE DEF lo
<1>3. b \in Seq(Units) /\ Len(b) = n
  BY <1>1, <1>2, Piece, ZenonT(30)
<1>4. CASE r <= n
  <2>1. lo + r <= t /\ r \in Nat /\ r + 1 \in 1..n + 1
    BY <1>2, <1>4
  <2>2. SubSeq(SubSeq(Stream, lo + 1, t), r + 1, t - lo) = SubSeq(Stream, lo + r + 1, t)
    BY <1>1, <1>2, <2>1, Suffix
  <2>3. Conn!Window(b, r) = SubSeq(Stream, lo + r + 1, t)
    BY <1>2, <1>3, <2>2 DEF Conn!Window
  <2>4. lo + r \in Nat
    BY <1>2
  <2>5. SubSeq(Stream, lo + r + 1, t) \in Seq(Units)
    BY <1>1, <1>2, <2>4, Piece
  <2>6. QED  BY <1>3, <2>3, <2>5 DEF lo
<1>5. CASE ~(r <= n)
  <2>1. Conn!Window(b, r) = <<>>
    <3>1. r + 1 \in Int /\ Len(b) \in Int /\ Len(b) < r + 1
      BY <1>2, <1>3, <1>5
    <3>2. SubSeq(b, r + 1, Len(b)) = <<>>
      BY <1>3, <3>1, SubSeqEmpty
    <3>3. QED  BY <3>2 DEF Conn!Window
  <2>2. SubSeq(Stream, lo + r + 1, t) = <<>>
    <3>1. lo + r + 1 \in Int /\ t \in Int /\ t < lo + r + 1
      BY <1>2, <1>5
    <3>2. QED  BY <1>1, <3>1, SubSeqEmpty
  <2>3. <<>> \in Seq(Units)
    BY EmptySeq
  <2>4. QED  BY <1>3, <2>1, <2>2, <2>3 DEF lo
<1>6. QED  BY <1>4, <1>5

\* Shortening the cache moves neither the client nor what it may be shown.
LEMMA ConnKept ==
  ASSUME ConnTypeOK, CacheIsStream, ~inError
  PROVE  /\ Conn!Kept \in Seq(Units) /\ Len(Conn!Kept) \in 0..inTaken
         /\ Conn!StillReleased \in Nat
         /\ Conn!Kept = SubSeq(Stream, inTaken - Len(Conn!Kept) + 1, inTaken)
         /\ inConsumed = inTaken - Len(Conn!Kept) + Conn!StillReleased
         /\ Conn!Window(Conn!Kept, Conn!StillReleased) = Ahead
         /\ Ahead \in Seq(Units)
<1> DEFINE n == Len(inBuffer)
           k == Conn!Kept
           r == Conn!StillReleased
<1>1. /\ Stream \in Seq(Units) /\ Len(Stream) \in Nat
      /\ inTaken \in 0..Len(Stream) /\ inConsumed \in Nat /\ inReleased \in Nat
      /\ inBuffer \in Seq(Units)
      /\ inBuffer = SubSeq(Stream, inTaken - n + 1, inTaken)
      /\ n <= inTaken /\ inConsumed = inTaken - n + inReleased
  BY StreamUnits DEF ConnTypeOK, CacheIsStream, Conn!ChainTypeOK
<1>2. n \in Nat
  BY <1>1, LenProperties
<1>3. /\ k \in Seq(Units) /\ Len(k) \in 0..inTaken /\ r \in Nat
      /\ k = SubSeq(Stream, inTaken - Len(k) + 1, inTaken)
      /\ inConsumed = inTaken - Len(k) + r
  <2>1. CASE inReleased >= n
    <3>1. k = <<>> /\ r = inReleased - n
      BY <2>1 DEF Conn!Kept, Conn!StillReleased, Conn!Exhausted
    <3>2. SubSeq(Stream, inTaken - 0 + 1, inTaken) = <<>>
      BY <1>1, SubSeqEmpty
    <3>3. <<>> \in Seq(Units) /\ Len(<<>>) = 0
      BY EmptySeq
    <3> HIDE DEF k, r, n
    <3>4. Len(k) = 0 /\ k \in Seq(Units) /\ r \in Nat
      BY <1>1, <1>2, <2>1, <3>1, <3>3
    <3>5. k = SubSeq(Stream, inTaken - Len(k) + 1, inTaken)
      BY <3>1, <3>2, <3>4
    <3>6. inConsumed = inTaken - Len(k) + r
      BY <1>1, <1>2, <3>1, <3>4
    <3>7. QED  BY <1>1, <3>4, <3>5, <3>6
  <2>2. CASE ~(inReleased >= n) /\ Conn!WorthShifting
    <3>1. k = Conn!Window(inBuffer, inReleased) /\ r = 0
      BY <2>2 DEF Conn!Kept, Conn!StillReleased, Conn!Exhausted, Conn!Window
    <3> HIDE DEF k, r, n
    <3>2. n \in 0..inTaken
      BY <1>1, <1>2
    <3>3. /\ k = SubSeq(Stream, (inTaken - n + inReleased) + 1, inTaken)
          /\ k \in Seq(Units)
      BY <1>1, <3>1, <3>2, ConnShows
    <3>4. inConsumed <= inTaken
      BY <1>1, <1>2, <2>2
    <3>5. k = SubSeq(Stream, inConsumed + 1, inTaken) /\ Len(k) = inTaken - inConsumed
      BY <1>1, <3>3, <3>4, Piece
    <3>6. inTaken - Len(k) + 1 = inConsumed + 1 /\ Len(k) \in 0..inTaken
          /\ inConsumed = inTaken - Len(k) + 0
      BY <1>1, <3>4, <3>5, SMTT(30)
    <3>7. QED  BY <3>1, <3>3, <3>5, <3>6
  <2>3. CASE ~(inReleased >= n) /\ ~Conn!WorthShifting
    <3>1. k = inBuffer /\ r = inReleased
      BY <2>3 DEF Conn!Kept, Conn!StillReleased, Conn!Exhausted
    <3>2. QED  BY <1>1, <1>2, <3>1
  <2>4. QED  BY <2>1, <2>2, <2>3
<1> HIDE DEF k, r, n
<1>4. /\ Conn!Window(k, r) = SubSeq(Stream, (inTaken - Len(k) + r) + 1, inTaken)
      /\ Conn!Window(k, r) \in Seq(Units)
  BY <1>1, <1>3, ConnShows
<1>5. Conn!Window(k, r) = Ahead
  BY <1>3, <1>4 DEF Ahead
<1>6. QED  BY <1>3, <1>4, <1>5 DEF k, r

\* A read asks for some units.
LEMMA ConnFills ==
  ASSUME ConnTypeOK
  PROVE  Conn!FillSize \in Nat \ {0} /\ Conn!Allocated \in Nat
<1>1. inBuffer \in Seq(Units) /\ inAlloc \in Nat
  BY DEF ConnTypeOK, Conn!ChainTypeOK
<1>2. Len(inBuffer) \in Nat /\ (inBuffer # <<>> => Len(inBuffer) > 0)
  BY <1>1, LenProperties, EmptySeq
<1>3. InitialAlloc \in Nat \ {0} /\ GrowFactor \in Nat /\ GrowSlack \in Nat
  BY ClientAssumption
<1>4. Conn!FillSize \in Nat \ {0}
  BY <1>1, <1>2, <1>3 DEF Conn!FillSize, Conn!HasRoom
<1> DEFINE n == Len(inBuffer) + Conn!FillSize + 1
<1>5. n \in Nat
  BY <1>2, <1>4
<1> HIDE DEF n
<1>6. GrowFactor * n + GrowSlack \in Nat
  BY <1>3, <1>5
<1>7. Conn!Allocated \in Nat
  BY <1>1, <1>6 DEF Conn!Allocated, Conn!AllocFor, n
<1>8. QED  BY <1>4, <1>7

\* What a pull leaves of the connection.
LEMMA ConnPulls ==
  ASSUME ConnTypeOK, CacheIsStream, ~inError, NEW target \in Nat,
         Conn!Pull(target), UNCHANGED <<inAlloc, inTaken, inErrors>>
  PROVE  /\ ConnTypeOK' /\ CacheIsStream' /\ ~inError'
         /\ UNCHANGED <<inConsumed, inTaken>>
         /\ \/ inPc' = "reading" /\ ~inComplete'
            \/ inPc' = "idle" /\ inResult' = "data" /\ inContents' = Ahead'
            \/ inPc' = "idle" /\ inResult' = "end"
<1> DEFINE k == Conn!Kept
           r == Conn!StillReleased
<1>1. /\ k \in Seq(Units) /\ Len(k) \in 0..inTaken /\ r \in Nat
      /\ k = SubSeq(Stream, inTaken - Len(k) + 1, inTaken)
      /\ inConsumed = inTaken - Len(k) + r
      /\ Conn!Window(k, r) = Ahead /\ Ahead \in Seq(Units)
  BY ConnKept
<1>2. inBuffer' = k /\ inReleased' = r /\ UNCHANGED <<inError, inComplete, inConsumed>>
      /\ inPc = "idle"
  BY DEF Conn!Pull, Conn!PullEnded, Conn!PullCached, Conn!PullReads, Conn!ApplyRelease
<1>3. inMax' \in Nat /\ inPc' \in {"idle", "reading"} /\ inContents' \in Seq(Units)
      /\ inResult' \in Conn!Results /\ inFresh' \in BOOLEAN
      /\ \/ inPc' = "reading" /\ ~inComplete
         \/ inPc' = "idle" /\ inResult' = "data" /\ inContents' = Ahead
         \/ inPc' = "idle" /\ inResult' = "end"
  <2>1. /\ inMax \in Nat /\ inContents \in Seq(Units) /\ inResult \in Conn!Results
        /\ inFresh \in BOOLEAN
    BY DEF ConnTypeOK, Conn!ChainTypeOK
  <2>2. CASE Conn!PullEnded
    BY <1>2, <2>1, <2>2 DEF Conn!PullEnded, Conn!Results
  <2>3. CASE Conn!PullCached(target)
    BY <1>1, <1>2, <2>1, <2>3 DEF Conn!PullCached, Conn!Results
  <2>4. CASE Conn!PullReads(target)
    <3>1. /\ inMax' = IF Len(k) < target THEN target ELSE Len(k) + target
          /\ inPc' = "reading" /\ ~inComplete /\ inFresh' = FALSE
          /\ UNCHANGED <<inContents, inResult>>
      BY <2>4 DEF Conn!PullReads
    <3> HIDE DEF k
    <3>2. inMax' \in Nat
      BY <1>1, <3>1
    <3>3. QED  BY <2>1, <3>1, <3>2
  <2>5. QED  BY <2>2, <2>3, <2>4 DEF Conn!Pull
<1> HIDE DEF k, r
<1>4. inError' \in BOOLEAN /\ inComplete' \in BOOLEAN /\ inAlloc' \in Nat /\ inErrors' \in Nat
      /\ inConsumed' \in Nat /\ inTaken' \in 0..Len(Stream)
  BY <1>2 DEF ConnTypeOK, Conn!ChainTypeOK
<1>5. ConnTypeOK'
  BY <1>1, <1>2, <1>3, <1>4 DEF ConnTypeOK, Conn!ChainTypeOK
<1>6. CacheIsStream'
  BY <1>1, <1>2 DEF CacheIsStream
<1>7. Ahead' = Ahead
  BY <1>2 DEF Ahead
<1>8. QED  BY <1>2, <1>3, <1>5, <1>6, <1>7

\* What a release leaves of it.
LEMMA ConnReleases ==
  ASSUME ConnTypeOK, CacheIsStream, NEW n \in Nat, Uses(n)
  PROVE  /\ ConnTypeOK' /\ CacheIsStream' /\ inConsumed' = inConsumed + n
         /\ UNCHANGED <<inError, inPc, inTaken, inResult, inComplete>> /\ inPc = "idle"
<1>1. /\ inReleased' = inReleased + n /\ inConsumed' = inConsumed + n
      /\ inFresh' = (inFresh \/ n # 0) /\ inPc = "idle"
      /\ UNCHANGED <<inBuffer, inError, inComplete, inPc, inMax, inContents, inResult,
                     inAlloc, inTaken, inErrors>>
  BY DEF Uses, Conn!Release
<1>2. inReleased' \in Nat /\ inConsumed' \in Nat /\ inFresh' \in BOOLEAN
  BY <1>1 DEF ConnTypeOK, Conn!ChainTypeOK
<1>3. ConnTypeOK'
  BY <1>1, <1>2 DEF ConnTypeOK, Conn!ChainTypeOK
<1>4. CacheIsStream'
  <2>1. inReleased \in Nat /\ inConsumed \in Nat /\ inTaken \in Nat /\ Len(inBuffer) \in Nat
    BY StreamUnits, LenProperties DEF ConnTypeOK, Conn!ChainTypeOK
  <2>2. QED  BY <1>1, <2>1 DEF CacheIsStream
<1>5. QED  BY <1>1, <1>3, <1>4

\* What a read that succeeds leaves of it.
LEMMA ConnFetches ==
  ASSUME ConnTypeOK, CacheIsStream, ~inError, Conn!Fetch
  PROVE  /\ ConnTypeOK' /\ CacheIsStream' /\ ~inError' /\ UNCHANGED inConsumed
         /\ \/ inPc' = "reading" /\ ~inComplete'
            \/ inPc' = "idle" /\ inResult' = "data" /\ inContents' = Ahead'
<1> DEFINE n == Len(inBuffer)
<1>1. /\ Stream \in Seq(Units) /\ Len(Stream) \in Nat
      /\ inTaken \in 0..Len(Stream) /\ inConsumed \in Nat /\ inReleased \in Nat
      /\ inBuffer \in Seq(Units) /\ n \in Nat /\ n <= inTaken
      /\ inBuffer = SubSeq(Stream, inTaken - n + 1, inTaken)
      /\ inConsumed = inTaken - n + inReleased
      /\ inErrors \in Nat /\ inMax \in Nat /\ inFresh \in BOOLEAN
      /\ inContents \in Seq(Units) /\ inResult \in Conn!Results
      /\ Conn!FillSize \in Nat \ {0} /\ Conn!Allocated \in Nat
  BY StreamUnits, ConnFills, LenProperties DEF ConnTypeOK, CacheIsStream, Conn!ChainTypeOK
<1>2. PICK k \in Conn!ReadResults(Conn!FillSize) :
        /\ Conn!Absorb(inBuffer \o SubSeq(Stream, inTaken + 1, inTaken + k),
                       IF k = 0 THEN "complete" ELSE "incomplete")
        /\ inAlloc' = Conn!Allocated /\ inTaken' = inTaken + k /\ inErrors' = inErrors
  BY DEF Conn!Fetch
<1>3. k \in Nat /\ inTaken + k <= Len(Stream)
  <2>1. k \in {j \in 1..Conn!FillSize : inTaken + j <= Len(Stream)} \/ k = 0
    BY <1>2 DEF Conn!ReadResults
  <2>2. QED  BY <1>1, <2>1
<1> DEFINE t == inTaken + k
           filled == inBuffer \o SubSeq(Stream, inTaken + 1, t)
           status == IF k = 0 THEN "complete" ELSE "incomplete"
           lo == inTaken - n
<1>4. /\ lo \in Nat /\ t \in 0..Len(Stream) /\ lo <= inTaken /\ inTaken <= t
      /\ t - (n + k) = lo /\ n + k \in 0..t
  BY <1>1, <1>3
<1>5. Conn!Absorb(filled, status) /\ inTaken' = t
  BY <1>2
<1>6. status \in {"complete", "incomplete"}
  OBVIOUS
<1> HIDE DEF t, status
<1>7. filled = SubSeq(Stream, t - (n + k) + 1, t)
  <2>1. SubSeq(Stream, lo + 1, inTaken) \o SubSeq(Stream, inTaken + 1, t)
          = SubSeq(Stream, lo + 1, t)
    <3> HIDE DEF lo
    <3>1. t \in Nat /\ inTaken \in Nat /\ t <= Len(Stream)
      BY <1>1, <1>4
    <3>2. QED  BY <1>1, <1>4, <3>1, Adjacent, SMTT(30)
  <2>2. QED  BY <1>1, <1>4, <2>1
<1> HIDE DEF filled
<1>8. /\ filled \in Seq(Units) /\ Len(filled) = n + k
      /\ Conn!Window(filled, inReleased) = SubSeq(Stream, (t - (n + k) + inReleased) + 1, t)
      /\ Conn!Window(filled, inReleased) \in Seq(Units)
  <2> DEFINE m == n + k
  <2>1. m \in 0..t /\ filled = SubSeq(Stream, t - m + 1, t)
    BY <1>4, <1>7
  <2> HIDE DEF m
  <2>2. /\ filled \in Seq(Units) /\ Len(filled) = m
        /\ Conn!Window(filled, inReleased) = SubSeq(Stream, (t - m + inReleased) + 1, t)
        /\ Conn!Window(filled, inReleased) \in Seq(Units)
    BY <1>1, <1>4, <2>1, ConnShows
  <2>3. QED  BY <2>2 DEF m
<1>9. inConsumed = t - (n + k) + inReleased
  BY <1>1, <1>4
<1>10. Conn!Window(filled, inReleased) = Ahead'
  <2>1. inConsumed' = inConsumed
    BY <1>5 DEF Conn!Absorb
  <2>2. QED  BY <1>5, <1>8, <1>9, <2>1 DEF Ahead
<1>11. /\ inBuffer' = filled /\ ~inError' /\ inError' \in BOOLEAN /\ inComplete' \in BOOLEAN
       /\ UNCHANGED <<inReleased, inFresh, inMax, inConsumed>>
       /\ inContents' \in Seq(Units) /\ inResult' \in Conn!Results
       /\ \/ inPc' = "reading" /\ ~inComplete'
          \/ inPc' = "idle" /\ inResult' = "data"
             /\ inContents' = Conn!Window(filled, inReleased)
  <2>1. (inMax >= Len(filled)) <=> ~(inMax < Len(filled))
    <3>1. Len(filled) \in Nat
      BY <1>8, LenProperties
    <3>2. QED  BY <1>1, <3>1
  <2>2. QED  BY <1>1, <1>5, <1>6, <1>8, <2>1 DEF Conn!Absorb, Conn!Results
<1>12. ConnTypeOK'
  <2>1. inReleased' \in Nat /\ inConsumed' \in Nat /\ inMax' \in Nat /\ inFresh' \in BOOLEAN
    BY <1>1, <1>11
  <2>2. inAlloc' \in Nat /\ inErrors' \in Nat /\ inTaken' \in 0..Len(Stream)
    BY <1>1, <1>2, <1>4, <1>5
  <2>3. inBuffer' \in Seq(Units) /\ inPc' \in {"idle", "reading"}
    BY <1>8, <1>11
  <2>4. QED  BY <1>11, <2>1, <2>2, <2>3 DEF ConnTypeOK, Conn!ChainTypeOK
<1>13. CacheIsStream'
  <2>1. /\ Len(filled) <= t /\ filled = SubSeq(Stream, t - Len(filled) + 1, t)
        /\ inConsumed = t - Len(filled) + inReleased
    <3> DEFINE m == n + k
    <3>1. Len(filled) = m /\ m \in 0..t /\ filled = SubSeq(Stream, t - m + 1, t)
          /\ inConsumed = t - m + inReleased
      BY <1>4, <1>7, <1>8, <1>9
    <3> HIDE DEF m
    <3>2. QED  BY <1>4, <3>1
  <2>2. QED  BY <1>5, <1>11, <2>1 DEF CacheIsStream
<1>14. QED  BY <1>10, <1>11, <1>12, <1>13

\* What a failure leaves of it.
LEMMA ConnBreaks ==
  ASSUME ConnTypeOK, Conn!FetchFails \/ Conn!AllocFails
  PROVE  /\ ConnTypeOK' /\ inError' /\ inPc' = "idle" /\ inResult' = "failed"
         /\ UNCHANGED <<inConsumed, inTaken>>
<1>1. /\ inBuffer \in Seq(Units) /\ inErrors \in Nat /\ inTaken \in 0..Len(Stream)
      /\ inReleased \in Nat /\ inConsumed \in Nat /\ inMax \in Nat /\ inFresh \in BOOLEAN
      /\ inContents \in Seq(Units) /\ inAlloc \in Nat
      /\ Conn!FillSize \in Nat \ {0} /\ Conn!Allocated \in Nat
  BY ConnFills DEF ConnTypeOK, Conn!ChainTypeOK
<1>2. /\ inError' = TRUE /\ inComplete' = FALSE /\ inPc' = "idle" /\ inResult' = "failed"
      /\ inErrors' = inErrors + 1 /\ inAlloc' \in {inAlloc, Conn!Allocated}
      /\ UNCHANGED <<inReleased, inFresh, inMax, inConsumed, inContents, inTaken>>
      /\ inBuffer' \in {inBuffer, Conn!Overextended}
  BY DEF Conn!FetchFails, Conn!AllocFails, Conn!Absorb
<1>3. Conn!Overextended \in Seq(Units)
  <2> DEFINE n == IF Conn!HasRoom THEN 0 ELSE Conn!FillSize + 1
             more == [i \in 1..n |-> Garbage]
  <2>1. n \in Nat
    BY <1>1
  <2>2. Garbage \in Units
    BY DEF Units
  <2> HIDE DEF n
  <2>3. more \in Seq(Units)
    BY <2>1, <2>2, IsASeq
  <2> HIDE DEF more
  <2>4. inBuffer \o more \in Seq(Units)
    BY <1>1, <2>3, ConcatProperties
  <2>5. QED  BY <2>4 DEF Conn!Overextended, more, n
<1>4. inBuffer' \in Seq(Units) /\ inErrors' \in Nat /\ inAlloc' \in Nat
      /\ inResult' \in Conn!Results
  BY <1>1, <1>2, <1>3 DEF Conn!Results
<1>5. ConnTypeOK'
  BY <1>1, <1>2, <1>4 DEF ConnTypeOK, Conn!ChainTypeOK
<1>6. QED  BY <1>2, <1>5

-----------------------------------------------------------------------------
(* The get's chain.                                                        *)

\* Nothing is released of a get's cache before the program has had all of it.
LEMMA DecodedIs ==
  ASSUME GetInv, request > 0
  PROVE  /\ Decoded = IF main = "push" THEN shown[request] \o buffer ELSE shown[request]
         /\ shown[request] \in Seq(Units) /\ buffer \in Seq(Units)
<1>1. /\ request \in 1..Len(Responses) /\ shown[request] \in Seq(Units)
      /\ buffer \in Seq(Units) /\ Len(buffer) \in Nat
      /\ main \in {"get", "pull", "push", "release"}
  BY LenProperties DEF GetInv, GetTypeOK, Get!ChainTypeOK
<1>2. shown[request] \o <<>> = shown[request]
  BY <1>1, ConcatSimplifications
<1>3. CASE main = "release"
  BY <1>1, <1>2, <1>3 DEF Decoded
<1>4. CASE main = "push"
  <2>1. SubSeq(buffer, 0 + 1, Len(buffer)) = buffer
    BY <1>1, SubSeqFull
  <2>2. QED  BY <1>1, <1>4, <2>1 DEF Decoded, GetInv, Get!Window
<1>5. CASE main \in {"pull", "get"}
  <2>1. released = Len(buffer)
    <3>1. CASE main = "pull"
      BY <3>1 DEF GetInv
    <3>2. CASE main = "get"
      <4>1. released = 0 /\ buffer = <<>>
        BY <3>2 DEF GetInv
      <4>2. QED  BY <4>1, EmptySeq
    <3>3. QED  BY <1>5, <3>1, <3>2
  <2>2. SubSeq(buffer, Len(buffer) + 1, Len(buffer)) = <<>>
    BY <1>1, SubSeqEmpty
  <2>3. QED  BY <1>1, <1>2, <1>5, <2>1, <2>2 DEF Decoded, Get!Window
<1>6. QED  BY <1>1, <1>3, <1>4, <1>5

\* What a turn of the update function leaves of the get.
LEMMA GetAbsorbs ==
  ASSUME GetInv, NEW filled \in Seq(Units), NEW status \in {"incomplete", "complete", "error"},
         Get!Absorb(filled, status), UNCHANGED program,
         update' \in {"status", "header", "chunk", "body"}, pulling' = FALSE,
         transfer_encoding_type' \in {"identity", "chunked"},
         body_size' \in Nat, have_size' \in 0..body_size'
  PROVE  /\ GetInv' /\ buffer' = filled /\ main = "push" /\ pc = "reading"
         /\ is_error' = (status = "error") /\ is_complete' = (status = "complete")
         /\ Decoded' = shown[request] \o filled
<1>1. /\ pc = "reading" /\ main = "push" /\ ~is_error /\ ~is_complete /\ exit = "running"
      /\ released = 0 /\ request > 0 /\ GetTypeOK
  BY DEF GetInv, Get!Absorb
<1>2. SubSeq(filled, 0 + 1, Len(filled)) = filled /\ Len(filled) \in Nat
  BY SubSeqFull, LenProperties
<1>3. Get!Window(filled, released) = filled
  BY <1>1, <1>2 DEF Get!Window
<1>4. max_size \in Nat /\ contents \in Seq(Units) /\ result \in Get!Results
      /\ consumed \in Nat /\ fresh_read \in BOOLEAN
  BY <1>1 DEF GetTypeOK, Get!ChainTypeOK
<1>5. (max_size >= Len(filled)) <=> ~(max_size < Len(filled))
  BY <1>2, <1>4
<1>6. /\ buffer' = filled /\ is_error' = (status = "error")
      /\ is_complete' = (status = "complete") /\ released' = 0
      /\ pc' \in {"reading", "idle"} /\ (pc' = "reading" => status = "incomplete")
      /\ pc' = "idle" => \/ result' = "data" /\ contents' = filled /\ status # "error"
                         \/ result' = "failed" /\ status = "error"
      /\ contents' \in Seq(Units) /\ result' \in Get!Results
      /\ UNCHANGED <<fresh_read, max_size, consumed>>
  BY <1>1, <1>3, <1>4, <1>5 DEF Get!Absorb, Get!Results
<1>7. GetTypeOK'
  <2>1. Get!ChainTypeOK(Units)'
    BY <1>4, <1>6 DEF Get!ChainTypeOK
  <2>2. /\ request' \in 0..Len(Responses) /\ main' \in {"get", "pull", "push", "release"}
        /\ exit' \in {"running", "success", "failure", "crashed"}
        /\ shown' \in [1..Len(Responses) -> Seq(Units)]
    BY <1>1 DEF GetTypeOK, program
  <2>3. QED  BY <2>1, <2>2 DEF GetTypeOK
<1>8. UNCHANGED <<main, exit, request>>
  BY DEF program
<1>9. /\ (pc = "reading" => main = "push" /\ ~is_error /\ ~is_complete /\ exit = "running")'
      /\ (pulling => pc = "reading" /\ (update = "body" => body_size # 0))'
      /\ (is_error => main = "push")'
      /\ (main = "pull" => released = Len(buffer))'
      /\ (main # "get" => request > 0)'
      /\ (main = "release" => released = 0 /\ contents = buffer)'
      /\ (main = "get" => released = 0 /\ buffer = <<>> /\ (request > 0 => is_complete))'
  BY <1>1, <1>6, <1>8
<1>10. (main = "push" =>
          /\ released = 0
          /\ pc = "idle" => \/ result = "data" /\ ~is_error /\ contents = buffer
                            \/ result = "end" /\ is_complete /\ ~is_error /\ buffer = <<>>
                            \/ result = "failed" /\ is_error)'
  BY <1>6
<1>11. GetInv'
  BY <1>7, <1>9, <1>10 DEF GetInv
<1>12. Decoded' = shown[request] \o filled
  <2>1. UNCHANGED <<main, request, shown>>
    BY DEF program
  <2>2. Decoded' = shown[request] \o SubSeq(filled, 0 + 1, Len(filled))
    BY <1>1, <1>6, <2>1 DEF Decoded, Get!Window
  <2>3. QED  BY <1>2, <2>2
<1>13. QED  BY <1>1, <1>6, <1>11, <1>12

\* The connection when the update function returns, having used n units.
LEMMA ConnIsUsed ==
  ASSUME ConnInv, ~inError, NEW n \in Nat, Uses(n), pulling' = FALSE
  PROVE  ConnInv' /\ inConsumed' = inConsumed + n
<1>1. /\ ConnTypeOK' /\ CacheIsStream' /\ inConsumed' = inConsumed + n
      /\ UNCHANGED <<inError, inPc>> /\ inPc = "idle"
  BY ConnReleases DEF ConnInv
<1>2. QED  BY <1>1 DEF ConnInv

\* And when it returns and has used nothing.
LEMMA ConnIsLeft ==
  ASSUME ConnInv, inPc = "idle", UNCHANGED conn, pulling' = FALSE, inError => is_error'
  PROVE  ConnInv' /\ inConsumed' = inConsumed
<1>1. UNCHANGED <<inBuffer, inReleased, inError, inComplete, inFresh, inPc, inMax, inContents,
                  inResult, inConsumed, inAlloc, inTaken, inErrors>>
  BY DEF conn
<1>2. ConnTypeOK' /\ CacheIsStream'
  BY <1>1 DEF ConnInv, ConnTypeOK, CacheIsStream, Conn!ChainTypeOK
<1>3. QED  BY <1>1, <1>2 DEF ConnInv

-----------------------------------------------------------------------------
(* The lines.                                                              *)

\* What the connection has is what the answer has at the client's place.
LEMMA AheadIs ==
  ASSUME ConnTypeOK, request \in 1..Len(Responses), NEW p \in Nat, Place = p
  PROVE  /\ Ahead \in Seq(Units) /\ Len(Ahead) \in Nat
         /\ \A x \in 1..Len(Ahead) :
              p + x <= Len(Responses[request]) => Ahead[x] = Responses[request][p + x]
<1> DEFINE R == Responses[request]
           base == EndOf(request - 1)
           c == Ahead
           L == Len(c)
<1>1. /\ base \in Nat /\ \A x \in 1..Len(R) : Stream[base + x] = R[x]
      /\ Len(R) \in Nat
  BY AnswerInStream, AnswersAre
<1>2. /\ inConsumed = base + p /\ inTaken \in 0..Len(Stream)
      /\ Stream \in Seq(Units) /\ Len(Stream) \in Nat
  <2>1. inConsumed \in Nat /\ inConsumed - base = p /\ inTaken \in 0..Len(Stream)
    BY DEF Place, ConnTypeOK, Conn!ChainTypeOK
  <2> HIDE DEF base
  <2>2. QED  BY <1>1, <2>1, StreamUnits
<1> HIDE DEF R, base
<1>3. /\ c \in Seq(Units) /\ L \in Nat
      /\ L = IF base + p <= inTaken THEN inTaken - (base + p) ELSE 0
      /\ \A x \in 1..L : c[x] = Stream[(base + p) + x]
  <2>1. base + p \in Nat /\ inTaken \in Nat /\ inTaken <= Len(Stream)
    BY <1>1, <1>2
  <2>2. c = SubSeq(Stream, (base + p) + 1, inTaken)
    BY <1>2 DEF Ahead
  <2> HIDE DEF c, L
  <2> DEFINE q == base + p
  <2>3. q \in Nat /\ c = SubSeq(Stream, q + 1, inTaken)
    BY <2>1, <2>2
  <2> HIDE DEF q
  <2>4. /\ c \in Seq(Units) /\ Len(c) = IF q <= inTaken THEN inTaken - q ELSE 0
        /\ \A x \in 1..inTaken - q : c[x] = Stream[q + x]
    BY <1>2, <2>1, <2>3, Piece
  <2>5. Len(c) \in Nat /\ \A x \in 1..Len(c) : x \in 1..inTaken - q
    BY <2>1, <2>3, <2>4, LenProperties
  <2>6. QED  BY <2>4, <2>5 DEF q, L
<1>4. ASSUME NEW x \in 1..L, p + x <= Len(R)
      PROVE  c[x] = R[p + x]
  <2>1. p + x \in 1..Len(R) /\ (base + p) + x = base + (p + x)
    BY <1>1, <1>3, <1>4
  <2>2. Stream[base + (p + x)] = R[p + x]
    BY <1>1, <2>1
  <2>3. QED  BY <1>3, <2>1, <2>2
<1>5. QED  BY <1>3, <1>4 DEF R

\* The line that is read is the one the answer has at the client's place,
\* however much of what follows it has arrived.
LEMMA LineArrives ==
  ASSUME ConnTypeOK, request \in 1..Len(Responses), NEW p \in Nat, NEW to \in Nat, Place = p,
         IsLine(Responses[request], p, to), inContents = Ahead, LineEnds(inContents) # {}
  PROVE  /\ Line(inContents) \in Seq(Units) /\ Len(Line(inContents)) = to - 2 - p
         /\ \A x \in 1..to - 2 - p : Line(inContents)[x] = Responses[request][p + x]
<1> DEFINE R == Responses[request]
           c == inContents
           m == to - 1 - p
           L == Len(c)
<1>1. /\ Len(R) \in Nat /\ p + 2 <= to /\ to <= Len(R) /\ R[to - 1] = Cr /\ R[to] = Lf
      /\ \A x \in p + 1..to - 2 : R[x] # Cr
  BY AnswersAre DEF IsLine
<1> HIDE DEF R
<1>3. /\ c \in Seq(Units) /\ L \in Nat
      /\ \A x \in 1..L : p + x <= Len(R) => c[x] = R[p + x]
  BY AheadIs DEF R
<1>4. ASSUME NEW x \in 1..L, p + x <= Len(R)
      PROVE  c[x] = R[p + x]
  BY <1>3, <1>4
<1>5. m \in Nat \ {0} /\ p + m = to - 1 /\ p + (m + 1) = to
  BY <1>1
<1> HIDE DEF c
<1>6. ASSUME NEW y \in LineEnds(c)
      PROVE  y \in 1..L - 1 /\ m <= y
  <2>1. y \in 1..L - 1 /\ c[y] = Cr
    BY DEF LineEnds
  <2>2. CASE y < m
    <3>1. y \in 1..L /\ p + y <= Len(R) /\ p + y \in p + 1..to - 2
      BY <1>1, <1>3, <1>5, <2>1, <2>2
    <3>2. c[y] = R[p + y] /\ R[p + y] # Cr
      BY <1>1, <1>4, <3>1
    <3>3. QED  BY <2>1, <3>2
  <2>3. QED  BY <1>3, <1>5, <2>1, <2>2
<1>7. m \in 1..L - 1 /\ m \in Int
  <2>1. PICK y \in LineEnds(c) : TRUE
    BY DEF c
  <2>2. y \in 1..L - 1 /\ m <= y
    BY <1>6, <2>1
  <2>3. QED  BY <1>3, <1>5, <2>2
<1>8. m \in LineEnds(c)
  <2>1. m \in 1..L /\ m + 1 \in 1..L /\ p + m <= Len(R) /\ p + (m + 1) <= Len(R)
    BY <1>1, <1>3, <1>5, <1>7
  <2>2. c[m] = R[p + m] /\ c[m + 1] = R[p + (m + 1)]
    BY <1>4, <2>1
  <2>3. c[m] = Cr /\ c[m + 1] = Lf
    BY <1>1, <1>5, <2>2
  <2>4. QED  BY <1>7, <2>3 DEF LineEnds
<1>9. Min(LineEnds(c)) = m
  <2>1. \A y \in LineEnds(c) : y \in Int /\ m <= y
    BY <1>6
  <2>2. QED  BY <1>7, <1>8, <2>1 DEF Min
<1>10. Line(c) = SubSeq(c, 0 + 1, m - 1)
  BY <1>9 DEF Line
<1>11. /\ Line(c) \in Seq(Units) /\ Len(Line(c)) = m - 1
       /\ \A x \in 1..m - 1 : Line(c)[x] = c[x]
  <2>1. m - 1 \in Nat /\ m - 1 <= L /\ 0 <= m - 1 /\ m - 1 - 0 = m - 1
    BY <1>3, <1>5, <1>7
  <2>2. /\ SubSeq(c, 0 + 1, m - 1) \in Seq(Units)
        /\ Len(SubSeq(c, 0 + 1, m - 1)) = m - 1
        /\ \A x \in 1..m - 1 : SubSeq(c, 0 + 1, m - 1)[x] = c[0 + x]
    <3> DEFINE n == m - 1
    <3>1. n \in Nat /\ n <= Len(c) /\ 0 <= n /\ n - 0 = n
      BY <2>1
    <3> HIDE DEF n
    <3>2. /\ SubSeq(c, 0 + 1, n) \in Seq(Units) /\ Len(SubSeq(c, 0 + 1, n)) = n
          /\ \A x \in 1..n : SubSeq(c, 0 + 1, n)[x] = c[0 + x]
      BY <1>3, <3>1, Piece
    <3>3. QED  BY <3>2 DEF n
  <2>3. QED  BY <1>10, <2>2
<1>12. m - 1 = to - 2 - p
  BY <1>1
<1>13. ASSUME NEW x \in 1..to - 2 - p
       PROVE  Line(c)[x] = R[p + x]
  <2>1. x \in 1..L /\ p + x <= Len(R) /\ x \in 1..m - 1
    BY <1>1, <1>3, <1>7, <1>12
  <2>2. QED  BY <1>4, <1>11, <2>1
<1>14. QED  BY <1>11, <1>12, <1>13 DEF c, R

\* What reading the line at the client's place does.
LEMMA LineIsRead ==
  ASSUME Inv, GetLine, request \in 1..Len(Responses), NEW p \in Nat, NEW to \in Nat,
         Place = p, IsLine(Responses[request], p, to)
  PROVE  /\ ConnInv' /\ Place' = to /\ pulling' = FALSE /\ UNCHANGED program
         /\ Line(inContents) \in Seq(Units) /\ Len(Line(inContents)) = to - 2 - p
         /\ Line(inContents) = <<>> <=> to = p + 2
         /\ Line(inContents) # <<>> => Line(inContents)[1] = Responses[request][p + 1]
<1> DEFINE line == Line(inContents)
<1>1. /\ ~inError /\ inContents = Ahead /\ pulling' = FALSE /\ LineEnds(inContents) # {}
      /\ Uses(Len(line) + 2) /\ UNCHANGED program /\ ConnTypeOK
  BY DEF GetLine, Pulled, Inv, ConnInv
<1>2. /\ line \in Seq(Units) /\ Len(line) = to - 2 - p
      /\ \A x \in 1..to - 2 - p : line[x] = Responses[request][p + x]
  BY <1>1, LineArrives
<1> HIDE DEF line
<1>3. Len(line) \in Nat /\ (line = <<>> <=> Len(line) = 0)
  BY <1>2, LenProperties, EmptySeq
<1>4. Len(line) + 2 \in Nat
  BY <1>3
<1>5. ConnInv' /\ inConsumed' = inConsumed + (Len(line) + 2)
  BY <1>1, <1>4, ConnIsUsed DEF Inv
<1>6. Place' = to
  <2>1. request' = request
    BY <1>1 DEF program
  <2> DEFINE base == EndOf(request - 1)
  <2>2. base \in Nat
    BY AnswerInStream
  <2>3. Place' = inConsumed' - base /\ inConsumed - base = p /\ inConsumed \in Nat
    BY <1>1, <2>1 DEF Place, ConnTypeOK, Conn!ChainTypeOK
  <2> HIDE DEF base
  <2>4. QED  BY <1>2, <1>3, <1>5, <2>2, <2>3
<1>7. line = <<>> <=> to = p + 2
  BY <1>2, <1>3
<1>8. line # <<>> => line[1] = Responses[request][p + 1]
  <2> SUFFICES ASSUME line # <<>> PROVE line[1] = Responses[request][p + 1]
    OBVIOUS
  <2>1. 1 \in 1..to - 2 - p
    BY <1>2, <1>3
  <2>2. QED  BY <1>2, <2>1
<1>9. QED  BY <1>1, <1>2, <1>5, <1>6, <1>7, <1>8 DEF line

\* The answer to the request under way, and the get that reads it.
LEMMA Reading ==
  ASSUME Inv, pc = "reading"
  PROVE  /\ request \in 1..Len(Responses) /\ main = "push" /\ ~is_error /\ ~is_complete
         /\ Station /\ Decoded = shown[request] \o buffer
         /\ shown[request] \in Seq(Units) /\ buffer \in Seq(Units)
         /\ body_size \in Nat /\ have_size \in 0..body_size
         /\ update \in {"status", "header", "chunk", "body"}
         /\ transfer_encoding_type \in {"identity", "chunked"}
         /\ HasHead(request) /\ (HasItsLength(request) \/ IsChunked(request))
         /\ Len(Responses[request]) \in Nat
         /\ Body \in Seq(Sent) /\ Len(Body) \in Nat /\ Len(Bodies) = Len(Responses)
<1>1. /\ main = "push" /\ ~is_error /\ ~is_complete /\ request > 0 /\ GetTypeOK
  BY DEF Inv, GetInv
<1>2. request \in 1..Len(Responses)
  BY <1>1, AnswersAre DEF GetTypeOK
<1>3. Station
  BY <1>1 DEF Inv, InPlace
<1>4. QED  BY <1>1, <1>2, <1>3, DecodedIs, AnswersAre DEF Inv, GetTypeOK, Body

\* The lines of the head, and how it says that the body is framed.
LEMMA HeadIs ==
  ASSUME NEW i \in 1..Len(Responses)
  PROVE  /\ Frames[i].lines \in Seq(Nat) /\ Len(Frames[i].lines) \in Nat
         /\ Len(Frames[i].lines) > 2
         /\ \A k \in 1..Len(Frames[i].lines) : Frames[i].lines[k] \in Nat
         /\ \A k \in 1..Len(Frames[i].lines) - 1 :
              IsLine(Responses[i], Frames[i].lines[k], Frames[i].lines[k + 1])
         /\ Frames[i].lines[1] = 0 /\ Frames[i].lines[2] = 3
         /\ Responses[i][1] = Status(200)
         /\ \A k \in HeadersOf(i) : Frames[i].lines[k] + 2 < Frames[i].lines[k + 1]
         /\ Frames[i].lines[Len(Frames[i].lines) - 1] + 2 = HeadOf(i) /\ HeadOf(i) \in Nat
         /\ Frames[i].frames \in HeadersOf(i)
         /\ Header(i, Frames[i].frames) = IF HasItsLength(i) THEN Length(Len(Bodies[i]))
                                          ELSE Coding("chunked")
         /\ \A k \in HeadersOf(i) \ {Frames[i].frames} :
              Header(i, k).kind \notin {"length", "coding"}
<1>1. HasHead(i) /\ (HasItsLength(i) \/ IsChunked(i))
  BY AnswersAre
<1>2. /\ Frames[i].lines \in Seq(Nat) /\ Len(Frames[i].lines) \in Nat
      /\ Len(Frames[i].lines) > 2
      /\ \A k \in 1..Len(Frames[i].lines) : Frames[i].lines[k] \in Nat
  BY <1>1, LenProperties, ElementOfSeq DEF HasHead
<1>3. Len(Frames[i].lines) \in 1..Len(Frames[i].lines)
  BY <1>2
<1>4. HeadOf(i) \in Nat
  BY <1>2, <1>3 DEF HeadOf
<1>5. IsFramedBy(i, IF HasItsLength(i) THEN Length(Len(Bodies[i])) ELSE Coding("chunked"))
  BY <1>1 DEF HasItsLength, IsChunked
<1>6. QED  BY <1>1, <1>2, <1>4, <1>5 DEF HasHead, HeadOf, IsFramedBy

-----------------------------------------------------------------------------
(* The update functions.                                                   *)

\* A turn of the update function keeps the invariant when the get stands again at a
\* place it knows.
LEMMA StepIsSound ==
  ASSUME Inv, pc = "reading", ConnInv', GetInv', UNCHANGED program, Station'
  PROVE  Inv'
<1>1. UNCHANGED <<request, shown>> /\ request > 0 /\ request \in Nat
  BY DEF program, Inv, GetInv, GetTypeOK
<1>2. InPlace'
  BY <1>1 DEF Inv, InPlace
<1>3. QED  BY <1>2 DEF Inv

\* A pull moves nothing.
LEMMA PullKeepsInv ==
  ASSUME Inv, UpdatePulls
  PROVE  Inv'
<1>1. /\ pc = "reading" /\ ~pulling /\ pulling' = TRUE
      /\ UNCHANGED <<get, update, arg, program, inAlloc, inTaken, inErrors>>
      /\ (update = "body" => body_size # 0)
  BY DEF UpdatePulls
<1>2. ~inError /\ ConnTypeOK /\ CacheIsStream
  BY <1>1 DEF Inv, ConnInv, GetInv
<1>3. PICK target \in Nat : Conn!Pull(target)
  <2>1. PullSize \in Nat /\ Wanted \in Nat
    BY <1>1, Reading, ClientAssumption DEF Wanted
  <2>2. QED  BY <2>1 DEF UpdatePulls
<1>4. /\ ConnTypeOK' /\ CacheIsStream' /\ ~inError' /\ UNCHANGED <<inConsumed, inTaken>>
      /\ \/ inPc' = "reading" /\ ~inComplete'
         \/ inPc' = "idle" /\ inResult' = "data" /\ inContents' = Ahead'
         \/ inPc' = "idle" /\ inResult' = "end"
  BY <1>1, <1>2, <1>3, ConnPulls
<1>5. ConnInv'
  BY <1>1, <1>4 DEF ConnInv
<1>6. UNCHANGED <<buffer, released, is_error, is_complete, fresh_read, pc, max_size, contents,
                  result, consumed, transfer_encoding_type, body_size, have_size, request,
                  main, exit, shown, update>>
  BY <1>1 DEF get, arg, program
<1>7. GetInv'
  BY <1>1, <1>6 DEF Inv, GetInv, GetTypeOK, Get!ChainTypeOK
<1>8. Station'
  <2>1. Station
    BY <1>1, Reading
  <2>2. QED
    BY <1>4, <1>6, <2>1 DEF Station, AtLine, InBody, AtChunk, InChunk, Heard, Place, Body, Frame,
                             Decoded, Get!Window
<1>9. QED  BY <1>1, <1>5, <1>7, <1>8, StepIsSound

\* Nor does a read, whether it succeeds or fails.
LEMMA ReadKeepsInv ==
  ASSUME Inv, ServerAnswers \/ ConnFails
  PROVE  Inv'
<1>1. /\ Conn!Fetch \/ Conn!FetchFails \/ Conn!AllocFails
      /\ UNCHANGED <<get, update, pulling, arg, program>>
  BY DEF ServerAnswers, ConnFails
<1>2. inPc = "reading"
  BY <1>1 DEF Conn!Fetch, Conn!FetchFails, Conn!AllocFails, Conn!Absorb
<1>3. /\ pc = "reading" /\ pulling /\ ~inError /\ ConnTypeOK /\ CacheIsStream
  BY <1>2 DEF Inv, ConnInv, GetInv
<1>4. ConnInv' /\ UNCHANGED inConsumed
  <2>1. CASE Conn!Fetch
    <3>1. /\ ConnTypeOK' /\ CacheIsStream' /\ ~inError' /\ UNCHANGED inConsumed
          /\ \/ inPc' = "reading" /\ ~inComplete'
             \/ inPc' = "idle" /\ inResult' = "data" /\ inContents' = Ahead'
      BY <1>3, <2>1, ConnFetches
    <3>2. QED  BY <1>1, <1>3, <3>1 DEF ConnInv
  <2>2. CASE Conn!FetchFails \/ Conn!AllocFails
    <3>1. /\ ConnTypeOK' /\ inError' /\ inPc' = "idle" /\ inResult' = "failed"
          /\ UNCHANGED <<inConsumed, inTaken>>
      BY <1>3, <2>2, ConnBreaks
    <3>2. QED  BY <1>1, <1>3, <3>1 DEF ConnInv, CacheIsStream
  <2>3. QED  BY <1>1, <2>1, <2>2
<1>5. UNCHANGED <<buffer, released, is_error, is_complete, fresh_read, pc, max_size, contents,
                  result, consumed, transfer_encoding_type, body_size, have_size, request,
                  main, exit, shown, update, pulling>>
  BY <1>1 DEF get, arg, program
<1>6. GetInv'
  BY <1>5 DEF Inv, GetInv, GetTypeOK, Get!ChainTypeOK
<1>7. Station'
  <2>1. Station
    BY <1>3, Reading
  <2>2. QED
    BY <1>4, <1>5, <2>1 DEF Station, AtLine, InBody, AtChunk, InChunk, Heard, Place, Body, Frame,
                             Decoded, Get!Window
<1>8. QED  BY <1>1, <1>3, <1>4, <1>6, <1>7, StepIsSound

\* An update function that goes on or fails before it has used anything.
LEMMA WaitKeepsInv ==
  ASSUME Inv, UpdateFails \/ LineIsIncomplete
  PROVE  Inv'
<1>1. /\ pulling /\ inPc = "idle" /\ pulling' = FALSE
      /\ UNCHANGED <<conn, update, arg, program>>
      /\ \E status \in {"incomplete", "error"} :
           Get!Absorb(buffer, status) /\ (inError => status = "error")
  BY DEF UpdateFails, LineIsIncomplete, Pulled, Inv, ConnInv
<1>2. PICK status \in {"incomplete", "error"} :
        Get!Absorb(buffer, status) /\ (inError => status = "error")
  BY <1>1
<1>3. pc = "reading"
  BY <1>2 DEF Get!Absorb
<1>4. /\ Station /\ Decoded = shown[request] \o buffer /\ buffer \in Seq(Units)
      /\ body_size \in Nat /\ have_size \in 0..body_size /\ ~is_complete
      /\ update \in {"status", "header", "chunk", "body"}
      /\ transfer_encoding_type \in {"identity", "chunked"}
  BY <1>3, Reading
<1>5. UNCHANGED <<transfer_encoding_type, body_size, have_size, update>>
      /\ UNCHANGED <<request, shown>>
  BY <1>1 DEF arg, program
<1>6. /\ GetInv' /\ is_error' = (status = "error") /\ is_complete' = (status = "complete")
      /\ Decoded' = shown[request] \o buffer
  <2>1. /\ update' \in {"status", "header", "chunk", "body"}
        /\ transfer_encoding_type' \in {"identity", "chunked"}
        /\ body_size' \in Nat /\ have_size' \in 0..body_size'
    BY <1>4, <1>5
  <2>2. QED  BY <1>1, <1>2, <1>4, <2>1, GetAbsorbs DEF Inv
<1>7. ConnInv' /\ inConsumed' = inConsumed
  BY <1>1, <1>2, <1>6, ConnIsLeft DEF Inv
<1>8. Station'
  <2>1. ~is_complete' /\ Decoded' = Decoded
    BY <1>4, <1>6
  <2>2. QED
    BY <1>4, <1>5, <1>7, <2>1
       DEF Station, AtLine, InBody, AtChunk, InChunk, Heard, Place, Body, Frame
<1>9. QED  BY <1>1, <1>3, <1>6, <1>7, <1>8, StepIsSound

\* A line has been read: the get goes on, unless the line is refused.
LEMMA StatusKeepsInv ==
  ASSUME Inv, StatusLine
  PROVE  Inv'
<1> DEFINE R == Responses[request]
           at == Frames[request].lines
<1>1. /\ update = "status" /\ GetLine /\ pc = "reading" /\ UNCHANGED arg
      /\ \/ Line(inContents) # <<Status(200)>>
         \/ Get!Absorb(buffer, "incomplete") /\ update' = "header"
  BY DEF StatusLine, Get!Absorb
<1>2. /\ request \in 1..Len(Responses) /\ Station /\ ~is_complete
      /\ Decoded = shown[request] \o buffer /\ buffer \in Seq(Units)
      /\ body_size \in Nat /\ have_size \in 0..body_size
      /\ transfer_encoding_type \in {"identity", "chunked"}
  BY <1>1, Reading
<1>3. /\ at[1] = 0 /\ at[2] = 3 /\ R[1] = Status(200) /\ IsLine(R, at[1], at[2])
      /\ Len(at) > 2 /\ Len(at) \in Nat /\ Frames[request].frames \in HeadersOf(request)
  <2>1. /\ at[1] = 0 /\ at[2] = 3 /\ R[1] = Status(200) /\ Len(at) \in Nat /\ Len(at) > 2
        /\ \A k \in 1..Len(at) - 1 : IsLine(R, at[k], at[k + 1])
        /\ Frames[request].frames \in HeadersOf(request)
    BY <1>2, HeadIs
  <2>2. 1 \in 1..Len(at) - 1 /\ 1 + 1 = 2
    BY <2>1
  <2>3. IsLine(R, at[1], at[1 + 1])
    BY <2>1, <2>2
  <2>4. QED  BY <2>1, <2>2, <2>3
<1>4. AtLine(1)
  BY <1>1, <1>2 DEF Station
<1>5. Place = 0 /\ IsLine(R, 0, 3)
  BY <1>3, <1>4 DEF AtLine, Frame
<1>6. /\ ConnInv' /\ Place' = 3 /\ pulling' = FALSE /\ UNCHANGED program
      /\ Line(inContents) \in Seq(Units) /\ Len(Line(inContents)) = 1
      /\ Line(inContents) # <<>> => Line(inContents)[1] = R[0 + 1]
  <2>1. 0 \in Nat /\ 3 \in Nat /\ 3 - 2 - 0 = 1
    OBVIOUS
  <2>2. QED  BY <1>1, <1>2, <1>5, <2>1, LineIsRead
<1>7. Line(inContents) = <<Status(200)>>
  <2> DEFINE line == Line(inContents)
  <2>1. line # <<>>
    BY <1>6, EmptySeq
  <2>2. line[1] = Status(200)
    BY <1>3, <1>6, <2>1
  <2> HIDE DEF line
  <2>3. line \in Seq(Units) /\ Len(line) = 1
    BY <1>6 DEF line
  <2>4. line = <<line[1]>>
    BY <2>3
  <2>5. QED  BY <2>2, <2>4 DEF line
<1>8. Get!Absorb(buffer, "incomplete") /\ update' = "header"
  BY <1>1, <1>7
<1>9. UNCHANGED <<transfer_encoding_type, body_size, have_size>> /\ UNCHANGED request
  BY <1>1, <1>6 DEF arg, program
<1>10. GetInv' /\ ~is_complete' /\ Decoded' = Decoded
  BY <1>2, <1>6, <1>8, <1>9, GetAbsorbs DEF Inv
<1>11. Station'
  <2>1. 2 \in 2..Len(at) - 1 /\ at[2] = 3 /\ Frames[request].frames \in Nat
        /\ ~(Frames[request].frames < 1) /\ ~(Frames[request].frames < 2)
    BY <1>3 DEF HeadersOf
  <2>2. AtLine(2)'
    BY <1>4, <1>6, <1>9, <1>10, <2>1 DEF AtLine, Heard, Body, Frame
  <2>3. (\E k \in 2..Len(Frame.lines) - 1 : AtLine(k))'
    BY <1>9, <2>1, <2>2 DEF Frame
  <2>4. QED  BY <1>8, <1>10, <2>3 DEF Station
<1>12. QED  BY <1>1, <1>6, <1>10, <1>11, StepIsSound

\* The client before a line of the headers.
LEMMA AtAHeader ==
  ASSUME Inv, pc = "reading", update = "header", GetLine
  PROVE  \E k \in 2..Len(Frames[request].lines) - 1 :
           /\ AtLine(k) /\ ConnInv' /\ Place' = Frames[request].lines[k + 1]
           /\ pulling' = FALSE /\ UNCHANGED program
           /\ Line(inContents) = <<>> <=> k = Len(Frames[request].lines) - 1
           /\ k \in HeadersOf(request) => Line(inContents)[1] = Header(request, k)
           /\ k \in HeadersOf(request) <=> k # Len(Frames[request].lines) - 1
<1> DEFINE R == Responses[request]
           at == Frames[request].lines
           n == Len(at)
<1>1. request \in 1..Len(Responses) /\ Station /\ ~is_complete
  BY Reading
<1>2. PICK k \in 2..n - 1 : AtLine(k)
  BY <1>1 DEF Station, Frame
<1>3. /\ n \in Nat /\ n > 2 /\ \A l \in 1..n : at[l] \in Nat
      /\ \A l \in 1..n - 1 : IsLine(R, at[l], at[l + 1])
      /\ \A l \in HeadersOf(request) : at[l] + 2 < at[l + 1]
      /\ at[n - 1] + 2 = at[n]
  BY <1>1, HeadIs, ZenonT(30) DEF HeadOf
<1>4. k \in 1..n - 1 /\ k \in 1..n /\ k + 1 \in 1..n
  BY <1>2, <1>3
<1>5. at[k] \in Nat /\ at[k + 1] \in Nat /\ IsLine(R, at[k], at[k + 1])
  BY <1>3, <1>4
<1>6. Place = at[k]
  BY <1>2 DEF AtLine, Frame
<1>7. /\ ConnInv' /\ Place' = at[k + 1] /\ pulling' = FALSE /\ UNCHANGED program
      /\ Line(inContents) = <<>> <=> at[k + 1] = at[k] + 2
      /\ Line(inContents) # <<>> => Line(inContents)[1] = R[at[k] + 1]
  BY <1>1, <1>5, <1>6, LineIsRead
<1>8. k \in HeadersOf(request) <=> k # n - 1
  BY <1>2, <1>3 DEF HeadersOf
<1>9. Line(inContents) = <<>> <=> k = n - 1
  <2>1. CASE k = n - 1
    <3>1. k + 1 = n
      BY <1>3, <2>1
    <3>2. QED  BY <1>3, <1>7, <2>1, <3>1
  <2>2. CASE k # n - 1
    <3>1. at[k] + 2 < at[k + 1]
      BY <1>3, <1>8, <2>2
    <3>2. QED  BY <1>5, <1>7, <2>2, <3>1
  <2>3. QED  BY <2>1, <2>2
<1>10. k \in HeadersOf(request) => Line(inContents)[1] = Header(request, k)
  BY <1>7, <1>8, <1>9 DEF Header
<1>11. QED  BY <1>2, <1>7, <1>8, <1>9, <1>10

\* The headers have ended: what is known of the body is what they say.
LEMMA HeadKeepsInv ==
  ASSUME Inv, HeadersEnd
  PROVE  Inv'
<1> DEFINE at == Frames[request].lines
           n == Len(at)
<1>1. /\ update = "header" /\ GetLine /\ Line(inContents) = <<>> /\ pc = "reading"
      /\ Get!Absorb(buffer, "incomplete") /\ UNCHANGED arg
      /\ update' = IF transfer_encoding_type = "chunked" THEN "chunk" ELSE "body"
  BY DEF HeadersEnd, Get!Absorb
<1>2. /\ request \in 1..Len(Responses) /\ Decoded = shown[request] \o buffer
      /\ buffer \in Seq(Units) /\ body_size \in Nat /\ have_size \in 0..body_size
      /\ transfer_encoding_type \in {"identity", "chunked"} /\ Body \in Seq(Sent)
      /\ HasItsLength(request) \/ IsChunked(request)
  BY <1>1, Reading
<1>3. PICK k \in 2..n - 1 :
        /\ AtLine(k) /\ ConnInv' /\ Place' = at[k + 1] /\ pulling' = FALSE
        /\ UNCHANGED program /\ (Line(inContents) = <<>> <=> k = n - 1)
  BY <1>1, AtAHeader
<1>4. n \in Nat /\ n > 2 /\ Frames[request].frames \in HeadersOf(request)
      /\ HeadOf(request) \in Nat
  BY <1>2, HeadIs
<1>5. k + 1 = n /\ Frames[request].frames < k
  BY <1>1, <1>3, <1>4 DEF HeadersOf
<1>6. Place' = HeadOf(request)
  BY <1>3, <1>5 DEF HeadOf
<1>7. UNCHANGED <<transfer_encoding_type, body_size, have_size>> /\ UNCHANGED request
  BY <1>1, <1>3 DEF arg, program
<1>8. /\ have_size = 0 /\ body_size = (IF HasItsLength(request) THEN Len(Body) ELSE 0)
      /\ transfer_encoding_type = (IF HasItsLength(request) THEN "identity" ELSE "chunked")
      /\ Decoded = <<>>
  BY <1>3, <1>5 DEF AtLine, Heard, Frame
<1>9. GetInv' /\ ~is_complete' /\ Decoded' = Decoded
  <2>1. update' \in {"status", "header", "chunk", "body"}
    BY <1>1
  <2>2. QED  BY <1>1, <1>2, <1>3, <1>7, <2>1, GetAbsorbs DEF Inv
<1>10. SubSeq(Body, 1, 0) = <<>>
  BY <1>2, SubSeqEmpty
<1>11. Station'
  <2>1. CASE HasItsLength(request)
    <3>1. Len(Body) > 0 /\ Len(Body) \in Nat
      BY <1>2, <2>1, LenProperties DEF HasItsLength, Body
    <3>2. InBody'
      <4>1. Body' = Body
        BY <1>7 DEF Body
      <4>2. HeadOf(request) = HeadOf(request) + 0
        BY <1>4
      <4>3. QED  BY <1>6, <1>7, <1>8, <1>9, <1>10, <2>1, <3>1, <4>1, <4>2 DEF InBody
    <3>3. QED  BY <1>1, <1>8, <1>9, <2>1, <3>2 DEF Station
  <2>2. CASE ~HasItsLength(request)
    <3>1. /\ Frames[request].chunks[1].at = HeadOf(request) /\ Frames[request].chunks[1].had = 0
          /\ 1 \in 1..Len(Frames[request].chunks)
      <4>1. /\ Frames[request].chunks[1].at = HeadOf(request)
            /\ Frames[request].chunks[1].had = 0 /\ Len(Frames[request].chunks) > 0
            /\ Frames[request].chunks \in Seq([at : Nat, data : Nat, had : Nat, size : Nat])
        BY <1>2, <2>2 DEF IsChunked
      <4>2. Len(Frames[request].chunks) \in Nat
        BY <4>1, LenProperties
      <4>3. QED  BY <4>1, <4>2, SMTT(30)
    <3>2. AtChunk(1)'
      BY <1>6, <1>7, <1>8, <1>9, <1>10, <3>1 DEF AtChunk, Frame, Body
    <3>3. update' = "chunk" /\ transfer_encoding_type' = "chunked" /\ ~is_complete'
          /\ request' = request
      BY <1>1, <1>7, <1>8, <1>9, <2>2
    <3>4. (\E j \in 1..Len(Frame.chunks) :
             IF update = "chunk" THEN AtChunk(j) ELSE InChunk(j))'
      BY <3>1, <3>2, <3>3 DEF Frame
    <3>5. QED  BY <2>2, <3>3, <3>4 DEF Station
  <2>3. QED  BY <2>1, <2>2
<1>12. QED  BY <1>1, <1>3, <1>9, <1>11, StepIsSound

\* A header: none is refused, and the one that frames the body is heard.
LEMMA HeaderKeepsInv ==
  ASSUME Inv, HeaderLine
  PROVE  Inv'
<1> DEFINE at == Frames[request].lines
           n == Len(at)
           header == Line(inContents)[1]
           frames == Frames[request].frames
<1>1. /\ update = "header" /\ GetLine /\ Line(inContents) # <<>> /\ pc = "reading"
      /\ UNCHANGED update
      /\ IF Refuses(header) THEN Get!Absorb(buffer, "error") /\ UNCHANGED arg
         ELSE /\ Get!Absorb(buffer, "incomplete") /\ UNCHANGED have_size
              /\ body_size' = (IF header.kind = "length" THEN header.value ELSE body_size)
              /\ transfer_encoding_type' =
                   (IF header.kind = "coding" THEN "chunked" ELSE transfer_encoding_type)
  BY DEF HeaderLine, Get!Absorb
<1>2. /\ request \in 1..Len(Responses) /\ Decoded = shown[request] \o buffer
      /\ buffer \in Seq(Units) /\ body_size \in Nat /\ have_size \in 0..body_size
      /\ transfer_encoding_type \in {"identity", "chunked"} /\ Len(Body) \in Nat
      /\ update \in {"status", "header", "chunk", "body"}
  BY <1>1, Reading
<1>3. PICK k \in 2..n - 1 :
        /\ AtLine(k) /\ ConnInv' /\ Place' = at[k + 1] /\ pulling' = FALSE
        /\ UNCHANGED program /\ (Line(inContents) = <<>> <=> k = n - 1)
        /\ k \in HeadersOf(request) => header = Header(request, k)
        /\ k \in HeadersOf(request) <=> k # n - 1
  BY <1>1, AtAHeader
<1>4. /\ n \in Nat /\ n > 2 /\ frames \in HeadersOf(request)
      /\ Header(request, frames) = IF HasItsLength(request) THEN Length(Len(Bodies[request]))
                                   ELSE Coding("chunked")
      /\ \A l \in HeadersOf(request) \ {frames} :
           Header(request, l).kind \notin {"length", "coding"}
  BY <1>2, HeadIs
<1>5. /\ k \in HeadersOf(request) /\ header = Header(request, k)
      /\ k + 1 \in 2..n - 1 /\ k \in Nat /\ frames \in Nat
  BY <1>1, <1>3, <1>4 DEF HeadersOf
<1> HIDE DEF header
<1>6. /\ have_size = 0 /\ Decoded = <<>>
      /\ body_size = (IF HasItsLength(request) /\ frames < k THEN Len(Body) ELSE 0)
      /\ transfer_encoding_type =
           (IF ~HasItsLength(request) /\ frames < k THEN "chunked" ELSE "identity")
  BY <1>3 DEF AtLine, Heard, Frame
<1>7. /\ ~Refuses(header)
      /\ (IF header.kind = "length" THEN header.value ELSE body_size)
           = (IF HasItsLength(request) /\ frames < k + 1 THEN Len(Body) ELSE 0)
      /\ (IF header.kind = "coding" THEN "chunked" ELSE transfer_encoding_type)
           = (IF ~HasItsLength(request) /\ frames < k + 1 THEN "chunked" ELSE "identity")
  <2>1. CASE k = frames
    <3>1. ~(frames < k) /\ frames < k + 1
      BY <1>5, <2>1
    <3>2. body_size = 0 /\ transfer_encoding_type = "identity"
      BY <1>6, <3>1
    <3>3. CASE HasItsLength(request)
      <4>1. header.kind = "length" /\ header.value = Len(Body)
        BY <1>4, <1>5, <2>1, <3>3 DEF Length, Unit, Body
      <4>2. QED  BY <3>1, <3>2, <3>3, <4>1 DEF Refuses
    <3>4. CASE ~HasItsLength(request)
      <4>1. header.kind = "coding" /\ header.value = "chunked"
        BY <1>4, <1>5, <2>1, <3>4 DEF Coding, Unit
      <4>2. QED  BY <3>1, <3>2, <3>4, <4>1 DEF Refuses
    <3>5. QED  BY <3>3, <3>4
  <2>2. CASE k # frames
    <3>1. header.kind \notin {"length", "coding"}
      BY <1>4, <1>5, <2>2
    <3>2. frames < k + 1 <=> frames < k
      BY <1>5, <2>2
    <3>3. QED  BY <1>6, <3>1, <3>2 DEF Refuses
  <2>3. QED  BY <2>1, <2>2
<1>8. /\ Get!Absorb(buffer, "incomplete") /\ have_size' = 0
      /\ body_size' = (IF HasItsLength(request) /\ frames < k + 1 THEN Len(Body) ELSE 0)
      /\ transfer_encoding_type' =
           (IF ~HasItsLength(request) /\ frames < k + 1 THEN "chunked" ELSE "identity")
  BY <1>1, <1>6, <1>7
<1>9. GetInv' /\ ~is_complete' /\ Decoded' = Decoded
  <2>1. /\ body_size' \in Nat /\ have_size' \in 0..body_size'
        /\ transfer_encoding_type' \in {"identity", "chunked"}
        /\ update' \in {"status", "header", "chunk", "body"}
    BY <1>1, <1>2, <1>8
  <2>2. QED  BY <1>2, <1>3, <1>8, <2>1, GetAbsorbs DEF Inv
<1>10. Station'
  <2>1. request' = request
    BY <1>3 DEF program
  <2>2. AtLine(k + 1)'
    BY <1>3, <1>6, <1>8, <1>9, <2>1 DEF AtLine, Heard, Body, Frame
  <2>3. (\E l \in 2..Len(Frame.lines) - 1 : AtLine(l))'
    BY <1>5, <2>1, <2>2 DEF Frame
  <2>4. QED  BY <1>1, <1>9, <2>3 DEF Station
<1>11. QED  BY <1>1, <1>3, <1>9, <1>10, StepIsSound

\* The chunks of an answer that has them.
LEMMA ChunksAre ==
  ASSUME NEW i \in 1..Len(Responses), ~HasItsLength(i), NEW j \in 1..Len(Frames[i].chunks)
  PROVE  /\ Frames[i].chunks[j].at \in Nat /\ Frames[i].chunks[j].data \in Nat
         /\ Frames[i].chunks[j].had \in Nat /\ Frames[i].chunks[j].size \in Nat
         /\ IsLine(Responses[i], Frames[i].chunks[j].at, Frames[i].chunks[j].data)
         /\ Frames[i].chunks[j].at + 2 < Frames[i].chunks[j].data
         /\ Responses[i][Frames[i].chunks[j].at + 1] = Size(Frames[i].chunks[j].size)
         /\ Carries(i, Frames[i].chunks[j].data, Frames[i].chunks[j].had,
                    Frames[i].chunks[j].size)
         /\ Frames[i].chunks[j].size = 0 =>
              /\ Frames[i].chunks[j].data + 2 = Len(Responses[i])
              /\ Frames[i].chunks[j].had = Len(Bodies[i])
         /\ Frames[i].chunks[j].size # 0 =>
              /\ j + 1 \in 1..Len(Frames[i].chunks)
              /\ Frames[i].chunks[j + 1].at
                   = Frames[i].chunks[j].data + Frames[i].chunks[j].size + 2
              /\ Frames[i].chunks[j + 1].had
                   = Frames[i].chunks[j].had + Frames[i].chunks[j].size
<1> DEFINE chunks == Frames[i].chunks
           last == Len(chunks)
<1>1. IsChunked(i)
  BY AnswersAre
<1>2. /\ chunks \in Seq([at : Nat, data : Nat, had : Nat, size : Nat]) /\ last > 0
      /\ IsLine(Responses[i], chunks[j].at, chunks[j].data)
      /\ chunks[j].at + 2 < chunks[j].data
      /\ Responses[i][chunks[j].at + 1] = Size(chunks[j].size)
      /\ Carries(i, chunks[j].data, chunks[j].had, chunks[j].size)
      /\ (chunks[j].size = 0 <=> j = last)
      /\ \A l \in 1..last - 1 :
           /\ chunks[l + 1].at = chunks[l].data + chunks[l].size + 2
           /\ chunks[l + 1].had = chunks[l].had + chunks[l].size
      /\ chunks[last].data + 2 = Len(Responses[i])
      /\ chunks[last].had = Len(Bodies[i])
  BY <1>1 DEF IsChunked
<1>3. last \in Nat /\ chunks[j] \in [at : Nat, data : Nat, had : Nat, size : Nat]
  BY <1>2, LenProperties, ElementOfSeq
<1>4. /\ chunks[j].at \in Nat /\ chunks[j].data \in Nat
      /\ chunks[j].had \in Nat /\ chunks[j].size \in Nat
  BY <1>3, SMTT(30)
<1> HIDE DEF chunks, last
<1>5. CASE j = last
  BY <1>2, <1>4, <1>5, ZenonT(30) DEF chunks, last
<1>6. CASE j # last
  <2>1. j \in 1..last - 1 /\ j + 1 \in 1..last
    <3>1. j \in 1..last
      BY DEF chunks, last
    <3>2. QED  BY <1>3, <1>6, <3>1
  <2>2. QED  BY <1>2, <1>4, <1>6, <2>1 DEF chunks, last
<1>7. QED  BY <1>5, <1>6

\* The size of a chunk.
LEMMA SizeKeepsInv ==
  ASSUME Inv, SizeLine
  PROVE  Inv'
<1> DEFINE chunks == Frames[request].chunks
           line == Line(inContents)
<1>1. /\ update = "chunk" /\ GetLine /\ pc = "reading" /\ UNCHANGED transfer_encoding_type
      /\ line # <<>> /\ line[1].kind = "size" =>
           /\ Get!Absorb(buffer, "incomplete")
           /\ body_size' = line[1].value /\ have_size' = 0 /\ update' = "body"
  BY DEF SizeLine, Get!Absorb
<1>2. /\ request \in 1..Len(Responses) /\ Decoded = shown[request] \o buffer
      /\ buffer \in Seq(Units) /\ Station /\ ~is_complete
      /\ transfer_encoding_type \in {"identity", "chunked"}
  BY <1>1, Reading
<1>3. /\ ~HasItsLength(request) /\ transfer_encoding_type = "chunked"
      /\ \E j \in 1..Len(chunks) : AtChunk(j)
  BY <1>1, <1>2 DEF Station, Frame
<1>4. PICK j \in 1..Len(chunks) : AtChunk(j)
  BY <1>3
<1>5. /\ chunks[j].at \in Nat /\ chunks[j].data \in Nat /\ chunks[j].had \in Nat
      /\ chunks[j].size \in Nat /\ IsLine(Responses[request], chunks[j].at, chunks[j].data)
      /\ chunks[j].at + 2 < chunks[j].data
      /\ Responses[request][chunks[j].at + 1] = Size(chunks[j].size)
  BY <1>2, <1>3, ChunksAre
<1>6. Place = chunks[j].at /\ Decoded = SubSeq(Body, 1, chunks[j].had)
  BY <1>4 DEF AtChunk, Frame
<1>7. /\ ConnInv' /\ Place' = chunks[j].data /\ pulling' = FALSE /\ UNCHANGED program
      /\ (line = <<>> <=> chunks[j].data = chunks[j].at + 2)
      /\ line # <<>> => line[1] = Responses[request][chunks[j].at + 1]
  BY <1>1, <1>2, <1>5, <1>6, LineIsRead
<1> HIDE DEF line
<1>8. line # <<>> /\ line[1].kind = "size" /\ line[1].value = chunks[j].size
  BY <1>5, <1>7 DEF Size, Unit
<1>9. /\ Get!Absorb(buffer, "incomplete")
      /\ body_size' = chunks[j].size /\ have_size' = 0 /\ update' = "body"
  BY <1>1, <1>8
<1>10. GetInv' /\ ~is_complete' /\ Decoded' = Decoded
  <2>1. /\ body_size' \in Nat /\ have_size' \in 0..body_size'
        /\ transfer_encoding_type' \in {"identity", "chunked"}
        /\ update' \in {"status", "header", "chunk", "body"}
    BY <1>1, <1>2, <1>5, <1>9
  <2>2. QED  BY <1>2, <1>7, <1>9, <2>1, GetAbsorbs DEF Inv
<1>11. Station'
  <2>1. request' = request
    BY <1>7 DEF program
  <2>2. chunks[j].had + 0 = chunks[j].had /\ chunks[j].data + 0 = chunks[j].data
        /\ (0 < chunks[j].size \/ chunks[j].size = 0)
    BY <1>5, SMTT(30)
  <2>3. InChunk(j)'
    <3>1. Place' = chunks[j].data + have_size'
      BY <1>7, <1>9, <2>2
    <3>2. Decoded' = SubSeq(Body, 1, chunks[j].had + have_size')
      BY <1>6, <1>9, <1>10, <2>2
    <3>3. QED  BY <1>9, <2>1, <2>2, <3>1, <3>2 DEF InChunk, Frame, Body
  <2>4. (\E l \in 1..Len(Frame.chunks) : IF update = "chunk" THEN AtChunk(l) ELSE InChunk(l))'
    BY <1>9, <2>1, <2>3 DEF Frame
  <2>5. QED  BY <1>1, <1>3, <1>9, <1>10, <2>1, <2>4 DEF Station
<1>12. QED  BY <1>1, <1>7, <1>10, <1>11, StepIsSound

-----------------------------------------------------------------------------
(* The body.                                                               *)

\* A body is made of units.
LEMMA BodyUnits ==
  ASSUME NEW i \in 1..Len(Responses)
  PROVE  Bodies[i] \in Seq(Units) /\ Len(Bodies[i]) \in Nat
<1>1. Bodies[i] \in Seq(Sent) /\ Len(Bodies[i]) \in Nat
  BY AnswersAre
<1>2. \A x \in 1..Len(Bodies[i]) : Bodies[i][x] \in Units
  BY <1>1, ElementOfSeq DEF Units
<1>3. Bodies[i] = [x \in 1..Len(Bodies[i]) |-> Bodies[i][x]]
  BY <1>1
<1>4. QED  BY <1>1, <1>2, <1>3, IsASeq

\* Three pieces of a body.
LEMMA Associates ==
  \A a, b, c \in Seq(Units) : a \o (b \o c) = (a \o b) \o c
BY ConcatAssociative, SMTT(30)

\* s is what stands behind a place of the i-th answer.
StandsBehind(i, p, s) == \A x \in 1..Len(s) : s[x] = Responses[i][p + x]

\* n units from place p are the body's behind lo, in a frame of this size.
Follows(from, had, size, p, lo, n) ==
  had <= lo /\ lo - had = p - from /\ (lo - had) + n <= size

\* A piece that the answer carries behind what is decoded of the body.
LEMMA BodyGrows ==
  ASSUME NEW i \in 1..Len(Responses), NEW from \in Nat, NEW had \in Nat, NEW size \in Nat,
         Carries(i, from, had, size), NEW s \in Seq(Units), NEW p \in Nat, NEW lo \in Nat,
         StandsBehind(i, p, s), Follows(from, had, size, p, lo, Len(s))
  PROVE  SubSeq(Bodies[i], 1, lo) \o s = SubSeq(Bodies[i], 1, lo + Len(s))
<1> DEFINE b == Bodies[i]
           have == lo - had
           g == Len(s)
<1>0. /\ have \in Nat /\ lo = had + have /\ p = from + have /\ g \in Nat
      /\ have + g <= size /\ \A x \in 1..g : s[x] = Responses[i][p + x]
  BY LenProperties DEF StandsBehind, Follows
<1> HIDE DEF have, g
<1>1. /\ b \in Seq(Units) /\ Len(b) \in Nat /\ had + size <= Len(b)
      /\ \A x \in 1..size : Responses[i][from + x] = b[had + x]
  BY BodyUnits DEF Carries
<1>2. lo \in Nat /\ lo + g <= Len(b) /\ lo <= Len(b) /\ lo + g \in Nat /\ lo <= lo + g
  BY <1>0, <1>1
<1>3. s = SubSeq(b, lo + 1, lo + g)
  <2> DEFINE t == SubSeq(b, lo + 1, lo + g)
             hi == lo + g
  <2>1. hi \in Nat /\ hi <= Len(b) /\ lo <= hi /\ hi - lo = g
    BY <1>0, <1>2
  <2>2. t \in Seq(Units) /\ Len(t) = g /\ \A x \in 1..g : t[x] = b[lo + x]
    <3> HIDE DEF hi, b
    <3>1. /\ SubSeq(b, lo + 1, hi) \in Seq(Units) /\ Len(SubSeq(b, lo + 1, hi)) = hi - lo
          /\ \A x \in 1..hi - lo : SubSeq(b, lo + 1, hi)[x] = b[lo + x]
      BY <1>1, <1>2, <2>1, Piece
    <3>2. QED  BY <2>1, <3>1 DEF hi
  <2> HIDE DEF t
  <2>3. ASSUME NEW x \in 1..g PROVE s[x] = t[x]
    <3>1. have + x \in 1..size
      BY <1>0
    <3>2. Responses[i][from + (have + x)] = b[had + (have + x)]
      BY <1>1, <3>1
    <3>3. from + (have + x) = p + x /\ had + (have + x) = lo + x
      BY <1>0
    <3>4. s[x] = Responses[i][p + x]
      BY <1>0
    <3>5. t[x] = b[lo + x]
      BY <2>2
    <3> HIDE DEF b
    <3>6. QED  BY <3>2, <3>3, <3>4, <3>5
  <2>4. s = t
    BY <2>2, <2>3, SeqEqual DEF g
  <2>5. QED  BY <2>4 DEF t
<1>4. SubSeq(b, 0 + 1, lo) \o SubSeq(b, lo + 1, lo + g) = SubSeq(b, 0 + 1, lo + g)
  <2> DEFINE hi == lo + g
             start == 0
  <2>1. hi \in Nat /\ hi <= Len(b) /\ lo <= hi /\ start \in Nat /\ start <= lo
    BY <1>2
  <2>2. b \in Seq(Units) /\ lo \in Nat
    BY <1>1, <1>2
  <2> HIDE DEF hi, b, start
  <2>3. SubSeq(b, start + 1, lo) \o SubSeq(b, lo + 1, hi) = SubSeq(b, start + 1, hi)
    BY <2>1, <2>2, Adjacent, SMTT(30)
  <2>4. QED  BY <2>3 DEF hi, start
<1>5. 0 + 1 = 1
  OBVIOUS
<1> HIDE DEF b
<1>6. QED  BY <1>3, <1>4, <1>5 DEF b, g

\* A piece of what is ahead of the client.
LEMMA PieceArrives ==
  ASSUME ConnTypeOK, request \in 1..Len(Responses), NEW p \in Nat, Place = p,
         NEW g \in 0..Len(Ahead), p + g <= Len(Responses[request])
  PROVE  /\ SubSeq(Ahead, 1, g) \in Seq(Units) /\ Len(SubSeq(Ahead, 1, g)) = g
         /\ \A x \in 1..g : SubSeq(Ahead, 1, g)[x] = Responses[request][p + x]
<1> DEFINE c == Ahead
<1>1. /\ c \in Seq(Units) /\ Len(c) \in Nat /\ Len(Responses[request]) \in Nat
      /\ \A x \in 1..Len(c) :
           p + x <= Len(Responses[request]) => c[x] = Responses[request][p + x]
  BY AheadIs, AnswersAre
<1> HIDE DEF c
<1>2. g \in Nat /\ g <= Len(c) /\ 0 <= g /\ g - 0 = g
  BY <1>1 DEF c
<1>3. /\ SubSeq(c, 0 + 1, g) \in Seq(Units) /\ Len(SubSeq(c, 0 + 1, g)) = g
      /\ \A x \in 1..g : SubSeq(c, 0 + 1, g)[x] = c[0 + x]
  BY <1>1, <1>2, Piece
<1>4. ASSUME NEW x \in 1..g PROVE SubSeq(c, 1, g)[x] = Responses[request][p + x]
  <2>1. x \in 1..Len(c) /\ p + x <= Len(Responses[request]) /\ 0 + x = x
    BY <1>1, <1>2
  <2>2. QED  BY <1>1, <1>3, <2>1
<1>5. QED  BY <1>3, <1>4 DEF c

\* The client moves on by what it uses.
LEMMA PlaceMoves ==
  ASSUME ConnTypeOK, request \in 1..Len(Responses), request' = request, NEW n \in Nat,
         inConsumed' = inConsumed + n
  PROVE  Place' = Place + n /\ Place \in Int
<1>1. inConsumed \in Nat /\ EndOf(request - 1) \in Nat
  BY AnswerInStream DEF ConnTypeOK, Conn!ChainTypeOK
<1>2. QED  BY <1>1 DEF Place

\* The last chunk: an answer with a length is never empty.
LEMMA EmptyKeepsInv ==
  ASSUME Inv, BodyIsEmpty
  PROVE  Inv'
<1> DEFINE chunks == Frames[request].chunks
<1>1. /\ pc = "reading" /\ ~pulling /\ update = "body" /\ body_size = 0 /\ Uses(2)
      /\ Get!Absorb(buffer, "complete") /\ UNCHANGED <<update, pulling, arg, program>>
  BY DEF BodyIsEmpty
<1>2. /\ request \in 1..Len(Responses) /\ Station /\ ~is_complete /\ ~is_error
      /\ Decoded = shown[request] \o buffer /\ buffer \in Seq(Units)
      /\ have_size \in 0..body_size /\ Body \in Seq(Sent) /\ Len(Body) \in Nat
      /\ transfer_encoding_type \in {"identity", "chunked"} /\ Len(Bodies) = Len(Responses)
  BY <1>1, Reading
<1>3. have_size = 0
  BY <1>1, <1>2
<1>4. PICK j \in 1..Len(chunks) : ~HasItsLength(request) /\ InChunk(j)
  <2>1. ~InBody
    BY <1>1, <1>3 DEF InBody
  <2>2. QED  BY <1>1, <1>2, <2>1 DEF Station, Frame
<1>5. chunks[j].size = 0 /\ Place = chunks[j].data + 0
      /\ Decoded = SubSeq(Body, 1, chunks[j].had + 0)
  BY <1>1, <1>3, <1>4, SMTT(30) DEF InChunk, Frame
<1>6. /\ chunks[j].data \in Nat /\ chunks[j].had \in Nat
      /\ chunks[j].data + 2 = Len(Responses[request]) /\ chunks[j].had = Len(Body)
  BY <1>2, <1>4, <1>5, ChunksAre DEF Body
<1>7. ~inError /\ ConnTypeOK
  BY <1>1, <1>2 DEF Inv, ConnInv
<1>8. /\ UNCHANGED <<transfer_encoding_type, body_size, have_size>>
      /\ UNCHANGED request /\ pulling' = FALSE
  <2>1. pulling = FALSE
    BY <1>1 DEF Inv, GetInv, GetTypeOK
  <2>2. QED  BY <1>1, <2>1 DEF arg, program
<1>9. ConnInv' /\ inConsumed' = inConsumed + 2
  BY <1>1, <1>7, <1>8, ConnIsUsed DEF Inv
<1>10. Place' = Len(Responses[request])
  <2>1. Place' = Place + 2
    BY <1>2, <1>7, <1>8, <1>9, PlaceMoves
  <2>2. QED  BY <1>5, <1>6, <2>1
<1>11. GetInv' /\ is_complete' /\ Decoded' = Decoded
  <2>1. /\ body_size' \in Nat /\ have_size' \in 0..body_size'
        /\ transfer_encoding_type' \in {"identity", "chunked"}
        /\ update' \in {"status", "header", "chunk", "body"}
    BY <1>1, <1>2, <1>8
  <2>2. QED  BY <1>1, <1>2, <1>8, <2>1, GetAbsorbs DEF Inv
<1>12. Decoded = Body
  <2>1. chunks[j].had + 0 = Len(Body)
    BY <1>6
  <2>2. SubSeq(Body, 1, Len(Body)) = Body
    BY <1>2, SubSeqFull
  <2>3. QED  BY <1>5, <2>1, <2>2
<1>13. Station'
  <2>1. Body' = Body
    BY <1>8 DEF Body
  <2>2. QED  BY <1>8, <1>10, <1>11, <1>12, <2>1 DEF Station
<1>14. QED  BY <1>1, <1>9, <1>11, <1>13, StepIsSound

\* A part of the body arrives, or the rest of it.
LEMMA BodyKeepsInv ==
  ASSUME Inv, BodyArrives
  PROVE  Inv'
<1> DEFINE R == Responses[request]
           chunks == Frames[request].chunks
           piece == SubSeq(inContents, 1, Got)
           chunked == transfer_encoding_type = "chunked"
           whole == Got = Wanted
           used == IF whole /\ chunked THEN Got + 2 ELSE Got
           status == IF whole /\ ~chunked THEN "complete" ELSE "incomplete"
<1>1. /\ update = "body" /\ Pulled("data") /\ Uses(used)
      /\ Get!Absorb(buffer \o piece, status) /\ pc = "reading"
      /\ update' = (IF whole /\ chunked THEN "chunk" ELSE "body")
      /\ have_size' = have_size + Got
      /\ UNCHANGED <<transfer_encoding_type, body_size, program>>
  BY DEF BodyArrives, Get!Absorb
<1>2. /\ request \in 1..Len(Responses) /\ Station /\ ~is_complete /\ ~is_error
      /\ Decoded = shown[request] \o buffer /\ buffer \in Seq(Units)
      /\ shown[request] \in Seq(Units)
      /\ body_size \in Nat /\ have_size \in 0..body_size
      /\ transfer_encoding_type \in {"identity", "chunked"}
      /\ HasItsLength(request) \/ IsChunked(request)
      /\ Len(Body) \in Nat /\ Len(R) \in Nat /\ Len(Bodies) = Len(Responses)
      /\ Body \in Seq(Sent)
  BY <1>1, Reading
<1>3. /\ ~inError /\ ConnTypeOK /\ inContents = Ahead /\ pulling' = FALSE
      /\ body_size # 0
  BY <1>1 DEF Pulled, Inv, ConnInv, GetInv
<1>4. Len(Ahead) \in Nat
  <2>1. Ahead \in Seq(Units)
    BY <1>3, ConnKept DEF Inv, ConnInv
  <2>2. QED  BY <2>1, LenProperties
<1>5. /\ Wanted \in Nat /\ Got \in 0..Len(Ahead) /\ Got <= Wanted /\ Got \in Nat
      /\ have_size + Wanted = body_size /\ have_size + Got \in 0..body_size
      /\ (Got = Wanted <=> have_size + Got = body_size)
      /\ (Got # Wanted => have_size + Got < body_size)
  <2> DEFINE n == Len(Ahead)
  <2>1. /\ Wanted = body_size - have_size
        /\ Got = IF n > Wanted THEN Wanted ELSE n
    BY <1>3 DEF Got, Wanted
  <2>2. n \in Nat
    BY <1>4
  <2> HIDE DEF n
  <2>3. Wanted \in Nat /\ have_size + Wanted = body_size /\ have_size \in Nat
    BY <1>2, <2>1
  <2>4. Got \in Nat /\ Got <= Wanted /\ Got <= n
    BY <2>1, <2>2, <2>3
  <2>5. /\ have_size + Got \in 0..body_size
        /\ (Got = Wanted <=> have_size + Got = body_size)
        /\ (Got # Wanted => have_size + Got < body_size)
    BY <1>2, <2>3, <2>4
  <2>6. QED  BY <2>2, <2>3, <2>4, <2>5 DEF n
<1> HIDE DEF piece
<1>6. used \in Nat /\ request' = request
  BY <1>1, <1>5 DEF program
<1>7. ConnInv' /\ inConsumed' = inConsumed + used
  BY <1>1, <1>3, <1>6, ConnIsUsed DEF Inv
<1>8. Place' = Place + used /\ Place \in Int
  BY <1>2, <1>3, <1>6, <1>7, PlaceMoves
\* The body, or a chunk of it, as a piece of the answer.
<1>9. PICK from \in Nat, had \in Nat :
        /\ Carries(request, from, had, body_size) /\ Place = from + have_size
        /\ Decoded = SubSeq(Body, 1, had + have_size)
        /\ from + body_size <= Len(R)
        /\ \/ /\ HasItsLength(request) /\ ~chunked /\ body_size = Len(Body)
              /\ from = HeadOf(request) /\ had = 0 /\ Len(R) = from + body_size
           \/ /\ ~HasItsLength(request) /\ chunked
              /\ \E j \in 1..Len(chunks) :
                   from = chunks[j].data /\ had = chunks[j].had /\ body_size = chunks[j].size
  <2>1. CASE InBody
    <3>1. /\ HasItsLength(request) /\ ~chunked /\ body_size = Len(Body)
          /\ Place = HeadOf(request) + have_size /\ Decoded = SubSeq(Body, 1, have_size)
      BY <2>1 DEF InBody
    <3>2. /\ Carries(request, HeadOf(request), 0, body_size)
          /\ Len(R) = HeadOf(request) + body_size
      BY <3>1 DEF HasItsLength, Body
    <3>3. HeadOf(request) \in Nat /\ 0 + have_size = have_size /\ 0 \in Nat
      BY <1>2, HeadIs, SMTT(30)
    <3>4. Decoded = SubSeq(Body, 1, 0 + have_size)
      BY <3>1, <3>3
    <3>5. HeadOf(request) + body_size <= Len(R)
      BY <1>2, <3>2
    <3>6. QED  BY <3>1, <3>2, <3>3, <3>4, <3>5
  <2>2. CASE ~InBody
    <3>1. PICK j \in 1..Len(chunks) : ~HasItsLength(request) /\ chunked /\ InChunk(j)
      BY <1>1, <1>2, <2>2 DEF Station, Frame
    <3>2. /\ body_size = chunks[j].size /\ Place = chunks[j].data + have_size
          /\ Decoded = SubSeq(Body, 1, chunks[j].had + have_size)
      BY <3>1 DEF InChunk, Frame
    <3>3. /\ chunks[j].data \in Nat /\ chunks[j].had \in Nat
          /\ Carries(request, chunks[j].data, chunks[j].had, chunks[j].size)
      BY <1>2, <3>1, ChunksAre
    <3>4. chunks[j].data + body_size <= Len(R)
      BY <3>2, <3>3 DEF Carries
    <3>5. QED  BY <3>1, <3>2, <3>3, <3>4
  <2>3. QED  BY <2>1, <2>2
<1>10. /\ piece \in Seq(Units) /\ Len(piece) = Got
       /\ \A x \in 1..Got : piece[x] = R[(from + have_size) + x]
  <2>1. from + have_size \in Nat /\ (from + have_size) + Got <= Len(R)
    BY <1>2, <1>5, <1>9
  <2>2. Place = from + have_size
    BY <1>9
  <2> DEFINE p == from + have_size
  <2>3. p \in Nat /\ Place = p /\ p + Got <= Len(R)
    BY <2>1, <2>2
  <2> HIDE DEF p
  <2>4. /\ SubSeq(Ahead, 1, Got) \in Seq(Units) /\ Len(SubSeq(Ahead, 1, Got)) = Got
        /\ \A x \in 1..Got : SubSeq(Ahead, 1, Got)[x] = R[p + x]
    BY <1>2, <1>3, <1>5, <2>3, PieceArrives
  <2>5. QED  BY <1>3, <2>4 DEF p, piece
<1>11. SubSeq(Body, 1, had + have_size) \o piece = SubSeq(Body, 1, had + (have_size + Got))
  <2>1. have_size \in Nat /\ have_size + Got <= body_size
    BY <1>2, <1>5
  <2> DEFINE p == from + have_size
             lo == had + have_size
  <2>2. /\ p \in Nat /\ lo \in Nat /\ had <= lo /\ lo - had = p - from
        /\ (lo - had) + Len(piece) <= body_size
        /\ lo + Len(piece) = had + (have_size + Got)
    BY <1>5, <1>9, <1>10, <2>1
  <2>3. StandsBehind(request, p, piece)
    BY <1>10 DEF StandsBehind
  <2> HIDE DEF p, lo
  <2>4. /\ request \in 1..Len(Responses) /\ from \in Nat /\ had \in Nat /\ body_size \in Nat
        /\ Carries(request, from, had, body_size) /\ piece \in Seq(Units)
    BY <1>2, <1>9, <1>10
  <2>5. Follows(from, had, body_size, p, lo, Len(piece))
    BY <2>2 DEF Follows
  <2> HIDE DEF piece
  <2>6. SubSeq(Bodies[request], 1, lo) \o piece = SubSeq(Bodies[request], 1, lo + Len(piece))
    BY ONLY <2>2, <2>3, <2>4, <2>5, BodyGrows
  <2>7. QED  BY <2>2, <2>6 DEF Body, lo
<1>12. buffer \o piece \in Seq(Units)
  BY <1>2, <1>10, ConcatProperties
<1>13. /\ GetInv' /\ is_complete' = (status = "complete")
       /\ Decoded' = shown[request] \o (buffer \o piece)
  <2>1. /\ body_size' \in Nat /\ have_size' \in 0..body_size'
        /\ transfer_encoding_type' \in {"identity", "chunked"}
        /\ update' \in {"status", "header", "chunk", "body"}
        /\ status \in {"incomplete", "complete", "error"}
        /\ UNCHANGED program
    BY <1>1, <1>2, <1>5
  <2>2. QED  BY <1>1, <1>3, <1>12, <2>1, GetAbsorbs DEF Inv
<1>14. Decoded' = SubSeq(Body, 1, had + have_size')
  <2>1. shown[request] \o (buffer \o piece) = (shown[request] \o buffer) \o piece
    BY <1>2, <1>10, Associates
  <2>2. QED  BY <1>1, <1>2, <1>9, <1>11, <1>13, <2>1
<1> HIDE DEF used
<1>15. Body' = Body /\ Frame' = Frames[request]
  BY <1>6 DEF Body, Frame
<1>16. CASE ~chunked
  <2>1. /\ HasItsLength(request) /\ body_size = Len(Body) /\ from = HeadOf(request)
        /\ had = 0 /\ Len(R) = from + body_size
    BY <1>9, <1>16
  <2>2. used = Got /\ update' = "body" /\ transfer_encoding_type' = "identity"
    BY <1>1, <1>2, <1>16 DEF used
  <2>3. Place' = from + have_size' /\ had + have_size' = have_size' /\ have_size' \in Nat
    BY <1>1, <1>2, <1>5, <1>8, <1>9, <2>1, <2>2, SMTT(30)
  <2>4. CASE whole
    <3>1. is_complete' /\ have_size' = body_size
      BY <1>1, <1>5, <1>13, <1>16, <2>4
    <3>2. Place' = Len(R)
      BY <2>1, <2>3, <3>1
    <3>3. Decoded' = Body
      <4>1. Decoded' = SubSeq(Body, 1, Len(Body))
        BY <1>14, <2>1, <2>3, <3>1
      <4>2. QED  BY <1>2, <4>1, SubSeqFull
    <3>4. Station'
      BY <1>6, <1>15, <3>1, <3>2, <3>3 DEF Station
    <3>5. QED  BY <1>1, <1>7, <1>13, <3>4, StepIsSound
  <2>5. CASE ~whole
    <3>1. ~is_complete' /\ have_size' < body_size'
      BY <1>1, <1>5, <1>13, <2>5
    <3>2. InBody'
      BY <1>1, <1>6, <1>14, <1>15, <2>1, <2>2, <2>3, <3>1 DEF InBody
    <3>3. Station'
      BY <2>2, <3>1, <3>2 DEF Station
    <3>4. QED  BY <1>1, <1>7, <1>13, <3>3, StepIsSound
  <2>6. QED  BY <2>4, <2>5
<1>17. CASE chunked
  <2>1. PICK j \in 1..Len(chunks) : /\ ~HasItsLength(request) /\ from = chunks[j].data
                                    /\ had = chunks[j].had /\ body_size = chunks[j].size
    BY <1>9, <1>17
  <2>2. ~is_complete' /\ transfer_encoding_type' = "chunked"
    BY <1>1, <1>13, <1>17
  <2>3. CASE whole
    <3>1. used = Got + 2 /\ update' = "chunk" /\ have_size' = body_size
      BY <1>1, <1>5, <1>17, <2>3 DEF used
    <3>2. /\ j + 1 \in 1..Len(chunks)
          /\ chunks[j + 1].at = chunks[j].data + chunks[j].size + 2
          /\ chunks[j + 1].had = chunks[j].had + chunks[j].size
      BY <1>2, <1>3, <2>1, ChunksAre
    <3>3. Place' = chunks[j + 1].at
      <4>1. Place' = (from + have_size) + (Got + 2) /\ have_size + Got = body_size
        BY <1>5, <1>8, <1>9, <2>3, <3>1
      <4>2. have_size \in Nat
        BY <1>2
      <4>3. Place' = from + body_size + 2
        BY <1>2, <1>5, <4>1, <4>2
      <4>4. QED  BY <2>1, <3>2, <4>3
    <3>4. Decoded' = SubSeq(Body, 1, chunks[j + 1].had)
      BY <1>14, <2>1, <3>1, <3>2
    <3>5. AtChunk(j + 1)'
      BY <1>15, <3>3, <3>4 DEF AtChunk
    <3>6. (\E l \in 1..Len(Frame.chunks) :
             IF update = "chunk" THEN AtChunk(l) ELSE InChunk(l))'
      BY <1>15, <3>1, <3>2, <3>5
    <3>7. Station'
      BY <1>6, <2>1, <2>2, <3>1, <3>6 DEF Station
    <3>8. QED  BY <1>1, <1>7, <1>13, <3>7, StepIsSound
  <2>4. CASE ~whole
    <3>1. used = Got /\ update' = "body" /\ have_size' < body_size'
      BY <1>1, <1>5, <2>4 DEF used
    <3>2. Place' = from + have_size'
      BY <1>1, <1>2, <1>5, <1>8, <1>9, <3>1
    <3>3. InChunk(j)'
      BY <1>1, <1>14, <1>15, <2>1, <3>1, <3>2 DEF InChunk
    <3>4. (\E l \in 1..Len(Frame.chunks) :
             IF update = "chunk" THEN AtChunk(l) ELSE InChunk(l))'
      BY <1>15, <2>1, <3>1, <3>3
    <3>5. Station'
      BY <1>6, <2>1, <2>2, <3>1, <3>4 DEF Station
    <3>6. QED  BY <1>1, <1>7, <1>13, <3>5, StepIsSound
  <2>5. QED  BY <2>3, <2>4
<1>18. QED  BY <1>16, <1>17

-----------------------------------------------------------------------------
(* The program.                                                            *)

\* A cache that is shown whole, and one that was released whole.
LEMMA Windows ==
  ASSUME NEW b \in Seq(Units)
  PROVE  /\ Get!Window(b, 0) = b /\ Get!Window(b, Len(b)) = <<>> /\ b \o <<>> = b
         /\ Len(b) \in Nat /\ Get!Window(<<>>, 0) = <<>> /\ Len(<<>>) = 0 /\ <<>> \in Seq(Units)
<1>1. Len(b) \in Nat /\ <<>> \in Seq(Units) /\ Len(<<>>) = 0
  BY LenProperties, EmptySeq
<1>2. SubSeq(b, 0 + 1, Len(b)) = b /\ SubSeq(<<>>, 0 + 1, Len(<<>>)) = <<>>
  BY <1>1, SubSeqFull
<1>3. SubSeq(b, Len(b) + 1, Len(b)) = <<>>
  BY <1>1, SubSeqEmpty
<1>4. b \o <<>> = b
  BY ConcatSimplifications
<1>5. QED  BY <1>1, <1>2, <1>3, <1>4 DEF Get!Window

\* While the program runs, the connection stays as it is.
LEMMA ConnStays ==
  ASSUME Inv, pc = "idle", UNCHANGED <<conn, pulling>>, is_error => is_error'
  PROVE  ConnInv' /\ inConsumed' = inConsumed /\ pulling = FALSE
<1>1. pulling = FALSE
  BY DEF Inv, GetInv, GetTypeOK
<1>2. inPc = "idle" /\ (inError => is_error)
  <2>1. inPc \in {"idle", "reading"}
    BY DEF Inv, ConnInv, ConnTypeOK, Conn!ChainTypeOK
  <2>2. QED  BY <1>1, <2>1 DEF Inv, ConnInv
<1>3. QED  BY <1>1, <1>2, ConnIsLeft DEF Inv

\* And so does the place in the answer, as long as the get has lost nothing.
LEMMA PlaceStays ==
  ASSUME Inv, request > 0 => Decoded' = Decoded, inConsumed' = inConsumed,
         UNCHANGED <<request, update, arg, is_complete>>,
         \A i \in 1..Len(Responses) : i # request => shown'[i] = shown[i]
  PROVE  InPlace'
<1>1. UNCHANGED <<transfer_encoding_type, body_size, have_size>> /\ request \in Nat
  BY DEF arg, Inv, GetInv, GetTypeOK
<1>2. ASSUME request > 0 PROVE Station'
  <2>1. Station /\ Decoded' = Decoded
    BY <1>2 DEF Inv, InPlace
  <2>2. QED
    BY <1>1, <2>1 DEF Station, AtLine, InBody, AtChunk, InChunk, Heard, Place, Body, Frame
<1>3. ASSUME NEW i \in 1..Len(Responses)
      PROVE  (i < request => shown'[i] = Bodies[i]) /\ (i > request => shown'[i] = <<>>)
  BY <1>1 DEF Inv, InPlace
<1>4. QED  BY <1>2, <1>3 DEF Inv, InPlace

\* The program ends, or crashes, and everything stays as it is.
LEMMA ExitKeepsInv ==
  ASSUME Inv, pc = "idle", exit' \in {"running", "success", "failure", "crashed"},
         UNCHANGED <<conn, get, update, pulling, arg, request, main, shown>>
  PROVE  Inv'
<1>1. UNCHANGED <<buffer, released, is_error, is_complete, fresh_read, pc, max_size, contents,
                  result, consumed, transfer_encoding_type, body_size, have_size>>
  BY DEF get, arg
<1>2. ConnInv' /\ inConsumed' = inConsumed
  BY <1>1, ConnStays
<1>3. GetInv'
  BY <1>1 DEF Inv, GetInv, GetTypeOK, Get!ChainTypeOK
<1>4. Decoded' = Decoded
  BY <1>1 DEF Decoded, Get!Window
<1>5. InPlace'
  BY <1>1, <1>2, <1>4, PlaceStays
<1>6. QED  BY <1>2, <1>3, <1>5 DEF Inv

\* The next answer begins where the client is when it asks for it.
LEMMA GetBegins ==
  ASSUME Inv, main = "get"
  PROVE  /\ inConsumed = EndOf(request) /\ ~is_error /\ released = 0 /\ buffer = <<>>
         /\ \A i \in 1..request : shown[i] = Bodies[i]
<1>1. /\ ~is_error /\ released = 0 /\ buffer = <<>> /\ (request > 0 => is_complete)
      /\ request \in 0..Len(Responses) /\ Len(Responses) \in Nat
  BY AnswersAre DEF Inv, GetInv, GetTypeOK
<1>2. CASE request = 0
  <2>1. inConsumed = 0 /\ EndOf(0) = 0
    BY <1>2, EndsAdvance DEF Inv, InPlace
  <2>2. QED  BY <1>1, <1>2, <2>1
<1>3. CASE request # 0
  <2>1. request > 0 /\ request \in 1..Len(Responses)
    BY <1>1, <1>3
  <2>2. Place = Len(Responses[request]) /\ Decoded = Body
    BY <1>1, <2>1 DEF Inv, InPlace, Station
  <2>3. Decoded = shown[request]
    BY <2>1, DecodedIs DEF Inv
  <2>4. inConsumed = EndOf(request)
    <3> DEFINE e == EndOf(request - 1)
               n == Len(Responses[request])
    <3>1. e \in Nat /\ n \in Nat /\ EndOf(request) = e + n /\ inConsumed \in Nat
      BY <2>1, EndsAdvance, AnswersAre DEF Inv, ConnInv, ConnTypeOK, Conn!ChainTypeOK
    <3>2. inConsumed - e = n
      BY <2>2 DEF Place
    <3> HIDE DEF e, n
    <3>3. QED  BY <3>1, <3>2
  <2>5. ASSUME NEW i \in 1..request PROVE shown[i] = Bodies[i]
    <3>1. i \in 1..Len(Responses) /\ (i < request \/ i = request)
      BY <2>1, <1>1
    <3>2. QED  BY <2>2, <2>3, <3>1 DEF Inv, InPlace, Body
  <2>6. QED  BY <1>1, <2>4, <2>5
<1>4. QED  BY <1>2, <1>3

\* A new get begins at the first line of the next answer.
LEMMA GetsKeepInv ==
  ASSUME Inv, MainGets
  PROVE  Inv'
<1>1. /\ main = "get" /\ exit = "running" /\ pc = "idle" /\ request < Len(Responses)
      /\ NewGet /\ update' = "status" /\ transfer_encoding_type' = "identity"
      /\ body_size' = 0 /\ have_size' = 0 /\ request' = request + 1 /\ main' = "pull"
      /\ UNCHANGED <<conn, pulling, exit, shown>>
  BY DEF MainGets, MainAt
<1>2. /\ request \in Nat /\ request' \in 1..Len(Responses) /\ request' - 1 = request
      /\ request' > request /\ Len(Responses) \in Nat
  BY <1>1, AnswersAre DEF Inv, GetInv, GetTypeOK
<1>3. /\ inConsumed = EndOf(request) /\ ~is_error
      /\ \A i \in 1..request : shown[i] = Bodies[i]
  BY <1>1, GetBegins
<1>4. ConnInv' /\ inConsumed' = inConsumed /\ pulling = FALSE
  BY <1>1, <1>3, ConnStays
<1>5. /\ <<>> \in Seq(Units) /\ Len(<<>>) = 0 /\ Get!Window(<<>>, 0) = <<>>
      /\ <<>> \o <<>> = <<>>
  BY Windows, EmptySeq
<1>6. GetTypeOK'
  <2>1. Get!ChainTypeOK(Units)'
    BY <1>1, <1>5 DEF NewGet, Get!ChainTypeOK, Get!Results
  <2>2. shown \in [1..Len(Responses) -> Seq(Units)]
    BY DEF Inv, GetInv, GetTypeOK
  <2>3. have_size' \in 0..body_size' /\ request' \in 0..Len(Responses)
    BY <1>1, <1>2
  <2>4. QED  BY <1>1, <1>4, <2>1, <2>2, <2>3 DEF GetTypeOK
<1>7. GetInv'
  BY <1>1, <1>2, <1>4, <1>5, <1>6 DEF NewGet, GetInv
<1>8. shown[request'] = <<>>
  BY <1>2 DEF Inv, InPlace
<1>9. Decoded' = <<>>
  <2>1. Decoded' = shown[request'] \o Get!Window(<<>>, 0)
    BY <1>1 DEF Decoded, NewGet, Get!Window
  <2>2. QED  BY <1>5, <1>8, <2>1
<1>10. AtLine(1)'
  <2>1. /\ Frames[request'].lines[1] = 0 /\ Frames[request'].frames \in HeadersOf(request')
    BY <1>2, HeadIs
  <2>2. ~(Frames[request'].frames < 1)
    BY <2>1, <1>2, HeadIs DEF HeadersOf
  <2>3. Place' = 0
    <3>1. EndOf(request) \in Nat
      BY <1>2, EndsAdvance
    <3>2. inConsumed' = EndOf(request) /\ EndOf(request' - 1) = EndOf(request)
      BY <1>2, <1>3, <1>4
    <3> DEFINE e == EndOf(request)
    <3>3. Place' = e - e /\ e \in Nat
      BY <3>1, <3>2 DEF Place
    <3> HIDE DEF e
    <3>4. QED  BY <3>3
  <2>4. QED  BY <1>1, <1>9, <2>1, <2>2, <2>3 DEF AtLine, Heard, Frame
<1>11. Station'
  BY <1>1, <1>10 DEF Station, NewGet
<1>12. InPlace'
  <2>1. ASSUME NEW i \in 1..Len(Responses)
        PROVE  (i < request' => shown[i] = Bodies[i]) /\ (i > request' => shown[i] = <<>>)
    <3>1. (i < request' => i \in 1..request) /\ (i > request' => i > request)
      BY <1>1, <1>2
    <3>2. QED  BY <1>3, <3>1 DEF Inv, InPlace
  <2>2. request' # 0
    BY <1>2
  <2>3. QED  BY <1>1, <1>11, <2>1, <2>2 DEF InPlace
<1>13. QED  BY <1>4, <1>7, <1>12 DEF Inv

\* A pull finds a cache that was all released.
LEMMA PullsKeepInv ==
  ASSUME Inv, MainPulls
  PROVE  Inv'
<1>1. /\ main = "pull" /\ exit = "running" /\ pc = "idle" /\ Get!Pull(PullSize)
      /\ main' = "push" /\ UNCHANGED <<conn, update, pulling, arg, request, exit, shown>>
  BY DEF MainPulls, MainAt
<1>2. /\ released = Len(buffer) /\ ~is_error /\ request > 0 /\ GetTypeOK /\ Len(buffer) \in Nat
      /\ buffer \in Seq(Units) /\ PullSize \in Nat \ {0}
  BY <1>1, LenProperties, ClientAssumption DEF Inv, GetInv, GetTypeOK, Get!ChainTypeOK
<1>3. Get!Kept = <<>> /\ Get!StillReleased = 0
  BY <1>2 DEF Get!Kept, Get!StillReleased, Get!Exhausted
<1>4. <<>> \in Seq(Units) /\ Len(<<>>) = 0 /\ Get!Window(<<>>, 0) = <<>>
  BY Windows, EmptySeq
<1>5. ~Get!Cached(PullSize)
  BY <1>2, <1>3, <1>4 DEF Get!Cached
<1>6. /\ buffer' = <<>> /\ released' = 0 /\ UNCHANGED <<is_error, is_complete, contents, consumed>>
      /\ \/ pc' = "idle" /\ is_complete /\ result' = "end" /\ UNCHANGED <<fresh_read, max_size>>
         \/ /\ pc' = "reading" /\ ~is_complete /\ result' = result
            /\ fresh_read' = FALSE /\ max_size' \in Nat
  <2>1. CASE Get!PullEnded
    BY <1>3, <2>1 DEF Get!PullEnded, Get!ApplyRelease
  <2>2. CASE Get!PullReads(PullSize)
    BY <1>2, <1>3, <1>4, <2>2 DEF Get!PullReads, Get!ApplyRelease
  <2>3. ~Get!PullCached(PullSize)
    BY <1>5 DEF Get!PullCached
  <2>4. QED  BY <1>1, <2>1, <2>2, <2>3 DEF Get!Pull
<1>7. ConnInv' /\ inConsumed' = inConsumed /\ pulling = FALSE
  BY <1>1, <1>6, ConnStays
<1>8. UNCHANGED <<transfer_encoding_type, body_size, have_size>>
  BY <1>1 DEF arg
<1>9. GetTypeOK'
  <2>1. Get!ChainTypeOK(Units)'
    BY <1>2, <1>4, <1>6 DEF GetTypeOK, Get!ChainTypeOK, Get!Results
  <2>2. QED  BY <1>1, <1>2, <1>8, <2>1 DEF GetTypeOK
<1>10. GetInv'
  BY <1>1, <1>2, <1>6, <1>7, <1>9 DEF GetInv
<1>11. Decoded' = Decoded
  <2>1. Decoded = shown[request] /\ shown[request] \in Seq(Units)
    BY <1>1, <1>2, DecodedIs DEF Inv
  <2>2. Decoded' = shown[request] \o Get!Window(<<>>, 0)
    BY <1>1, <1>6 DEF Decoded, Get!Window
  <2>3. QED  BY <1>4, <2>1, <2>2, Windows
<1>12. InPlace'
  BY <1>1, <1>6, <1>7, <1>11, PlaceStays
<1>13. QED  BY <1>7, <1>10, <1>12 DEF Inv

\* What is pushed is what the get has decoded and not shown.
LEMMA PushKeepsInv ==
  ASSUME Inv, MainPushes
  PROVE  Inv'
<1>1. /\ main = "push" /\ exit = "running" /\ pc = "idle" /\ result = "data"
      /\ shown' = [shown EXCEPT ![request] = @ \o contents] /\ main' = "release"
      /\ UNCHANGED <<conn, get, update, pulling, arg, request, exit>>
  BY DEF MainPushes, MainAt
<1>2. UNCHANGED <<buffer, released, is_error, is_complete, fresh_read, pc, max_size, contents,
                  result, consumed, transfer_encoding_type, body_size, have_size>>
  BY <1>1 DEF get, arg
<1>3. /\ released = 0 /\ contents = buffer /\ ~is_error /\ request > 0 /\ GetTypeOK
      /\ request \in 1..Len(Responses) /\ Len(Responses) \in Nat
  BY <1>1, AnswersAre DEF Inv, GetInv, GetTypeOK
<1>4. ConnInv' /\ inConsumed' = inConsumed /\ pulling = FALSE
  BY <1>1, <1>2, ConnStays
<1>5. /\ Decoded = shown[request] \o buffer /\ shown[request] \in Seq(Units)
      /\ buffer \in Seq(Units)
  BY <1>1, <1>3, DecodedIs DEF Inv
<1>6. shown[request] \o buffer \in Seq(Units)
  BY <1>5, ConcatProperties
<1>7. /\ shown' \in [1..Len(Responses) -> Seq(Units)] /\ shown'[request] = Decoded
      /\ \A i \in 1..Len(Responses) : i # request => shown'[i] = shown[i]
  BY <1>1, <1>3, <1>5, <1>6 DEF GetTypeOK
<1>8. GetTypeOK'
  BY <1>1, <1>2, <1>3, <1>7 DEF GetTypeOK, Get!ChainTypeOK
<1>9. GetInv'
  BY <1>1, <1>2, <1>3, <1>4, <1>8 DEF GetInv
<1>10. Decoded' = Decoded
  <2>1. Decoded' = shown'[request] \o <<>>
    BY <1>1 DEF Decoded
  <2>2. QED  BY <1>5, <1>6, <1>7, <2>1, Windows
<1>11. InPlace'
  BY <1>1, <1>2, <1>4, <1>7, <1>10, PlaceStays
<1>12. QED  BY <1>4, <1>9, <1>11 DEF Inv

\* The program releases all of what it has pushed.
LEMMA ReleaseKeepsInv ==
  ASSUME Inv, MainReleases
  PROVE  Inv'
<1>1. /\ main = "release" /\ exit = "running" /\ pc = "idle" /\ Get!Release(Len(contents))
      /\ main' = "pull" /\ UNCHANGED <<conn, update, pulling, arg, request, exit, shown>>
  BY DEF MainReleases, MainAt
<1>2. /\ released = 0 /\ contents = buffer /\ ~is_error /\ request > 0 /\ GetTypeOK
      /\ buffer \in Seq(Units) /\ Len(buffer) \in Nat
  BY <1>1, LenProperties DEF Inv, GetInv, GetTypeOK, Get!ChainTypeOK
<1>3. /\ UNCHANGED <<buffer, is_error, is_complete, pc, max_size, contents, result>>
      /\ released' = Len(buffer) /\ fresh_read' \in BOOLEAN /\ consumed' \in Nat
  BY <1>1, <1>2 DEF Get!Release, GetTypeOK, Get!ChainTypeOK
<1>4. ConnInv' /\ inConsumed' = inConsumed /\ pulling = FALSE
  BY <1>1, <1>3, ConnStays
<1>5. GetTypeOK'
  <2>1. Get!ChainTypeOK(Units)'
    BY <1>2, <1>3 DEF GetTypeOK, Get!ChainTypeOK
  <2>2. QED  BY <1>1, <1>2, <2>1 DEF GetTypeOK, arg
<1>6. GetInv'
  BY <1>1, <1>2, <1>3, <1>4, <1>5 DEF GetInv
<1>7. Decoded' = Decoded
  <2>1. Decoded = shown[request] /\ shown[request] \in Seq(Units)
    BY <1>1, <1>2, DecodedIs DEF Inv
  <2>2. Decoded' = shown[request] \o Get!Window(buffer, Len(buffer))
    BY <1>1, <1>3 DEF Decoded, Get!Window
  <2>3. QED  BY <1>2, <2>1, <2>2, Windows
<1>8. InPlace'
  BY <1>1, <1>3, <1>4, <1>7, PlaceStays
<1>9. QED  BY <1>4, <1>6, <1>8 DEF Inv

\* A get ends when its answer is complete.
LEMMA EndKeepsInv ==
  ASSUME Inv, MainEndsGet, ~is_error
  PROVE  Inv'
<1>1. /\ main = "push" /\ pc = "idle" /\ result # "data" /\ main' = "get"
      /\ UNCHANGED <<exit, conn, get, update, pulling, arg, request, shown>>
  BY DEF MainEndsGet, MainAt
<1>2. UNCHANGED <<buffer, released, is_error, is_complete, fresh_read, pc, max_size, contents,
                  result, consumed, transfer_encoding_type, body_size, have_size>>
  BY <1>1 DEF get, arg
<1>3. released = 0 /\ is_complete /\ buffer = <<>> /\ request > 0
  BY <1>1 DEF Inv, GetInv
<1>4. ConnInv' /\ inConsumed' = inConsumed /\ pulling = FALSE
  BY <1>1, <1>2, ConnStays
<1>5. GetInv'
  BY <1>1, <1>2, <1>3, <1>4 DEF Inv, GetInv, GetTypeOK, Get!ChainTypeOK
<1>6. Decoded' = Decoded
  <2>1. Decoded = shown[request] \o buffer
    BY <1>1, <1>3, DecodedIs DEF Inv
  <2>2. Decoded' = shown[request] \o Get!Window(<<>>, 0)
    BY <1>1, <1>2, <1>3 DEF Decoded, Get!Window
  <2>3. Get!Window(<<>>, 0) = <<>>
    BY Windows, EmptySeq
  <2>4. QED  BY <1>3, <2>1, <2>2, <2>3
<1>7. InPlace'
  BY <1>1, <1>2, <1>4, <1>6, PlaceStays
<1>8. QED  BY <1>4, <1>5, <1>7 DEF Inv

-----------------------------------------------------------------------------
(* The theorems.                                                           *)

\* The invariant holds before the first request, and every step keeps it.
LEMMA InvStarts == Init => Inv
<1> SUFFICES ASSUME Init PROVE Inv
  OBVIOUS
<1>1. /\ Conn!Init /\ Get!ChainInit /\ update = "status" /\ pulling = FALSE
      /\ transfer_encoding_type = "identity" /\ body_size = 0 /\ have_size = 0
      /\ request = 0 /\ main = "get" /\ exit = "running"
      /\ shown = [i \in 1..Len(Responses) |-> <<>>]
  BY DEF Init
<1>2. /\ <<>> \in Seq(Units) /\ Len(<<>>) = 0 /\ Len(Stream) \in Nat /\ Len(Responses) \in Nat
      /\ InitialAlloc \in Nat
  BY EmptySeq, StreamUnits, AnswersAre, ClientAssumption
<1>3. ConnTypeOK
  <2>1. Conn!ChainTypeOK(Units)
    BY <1>1, <1>2 DEF Conn!Init, Conn!ChainInit, Conn!ChainTypeOK, Conn!Results
  <2>2. inAlloc \in Nat /\ inErrors \in Nat /\ inTaken \in 0..Len(Stream)
    BY <1>1, <1>2, ClientAssumption DEF Conn!Init
  <2>3. QED  BY <2>1, <2>2 DEF ConnTypeOK
<1>4. CacheIsStream
  <2>1. inBuffer = <<>> /\ inTaken = 0 /\ inReleased = 0 /\ inConsumed = 0
    BY <1>1 DEF Conn!Init, Conn!ChainInit
  <2>2. SubSeq(Stream, 0 + 1, 0) = <<>>
    BY StreamUnits, SubSeqEmpty
  <2>3. Len(inBuffer) = 0 /\ inTaken - Len(inBuffer) = 0
    <3>1. Len(inBuffer) = 0
      BY <2>1, EmptySeq
    <3>2. inTaken = 0
      BY <2>1
    <3>3. QED  BY ONLY <3>1, <3>2
  <2>4. SubSeq(Stream, inTaken - Len(inBuffer) + 1, inTaken) = <<>>
    BY <2>1, <2>2, <2>3
  <2>5. QED  BY <2>1, <2>3, <2>4 DEF CacheIsStream
<1>5. ConnInv
  BY <1>1, <1>3, <1>4 DEF ConnInv, Conn!Init, Conn!ChainInit
<1>6. GetTypeOK
  <2>1. Get!ChainTypeOK(Units)
    BY <1>1, <1>2 DEF Get!ChainInit, Get!ChainTypeOK, Get!Results
  <2>2. shown \in [1..Len(Responses) -> Seq(Units)]
    BY <1>1, <1>2
  <2>3. body_size \in Nat /\ have_size \in 0..body_size /\ request \in 0..Len(Responses)
    BY <1>1, <1>2
  <2>4. QED  BY <1>1, <2>1, <2>2, <2>3 DEF GetTypeOK
<1>7. GetInv
  BY <1>1, <1>2, <1>6 DEF GetInv, Get!ChainInit
<1>8. InPlace
  BY <1>1, <1>2 DEF InPlace, Conn!Init, Conn!ChainInit
<1>9. QED  BY <1>5, <1>7, <1>8 DEF Inv

\* Every step keeps it.
LEMMA InvStays == Inv /\ [Next]_vars => Inv'
<1> SUFFICES ASSUME Inv, [Next]_vars PROVE Inv'
  OBVIOUS
<1>1. CASE UpdatePulls
  BY <1>1, PullKeepsInv
<1>2. CASE ServerAnswers \/ ConnFails
  BY <1>2, ReadKeepsInv
<1>3. CASE UpdateFails \/ LineIsIncomplete
  BY <1>3, WaitKeepsInv
<1>4. CASE StatusLine
  BY <1>4, StatusKeepsInv
<1>5. CASE HeadersEnd
  BY <1>5, HeadKeepsInv
<1>6. CASE HeaderLine
  BY <1>6, HeaderKeepsInv
<1>7. CASE SizeLine
  BY <1>7, SizeKeepsInv
<1>8. CASE BodyIsEmpty
  BY <1>8, EmptyKeepsInv
<1>9. CASE BodyArrives
  BY <1>9, BodyKeepsInv
<1>10. CASE MainGets
  BY <1>10, GetsKeepInv
<1>11. CASE MainGetsNull \/ MainPushFails \/ MainReturns \/ (MainEndsGet /\ is_error)
  <2>1. /\ pc = "idle" /\ exit' \in {"running", "success", "failure", "crashed"}
        /\ UNCHANGED <<conn, get, update, pulling, arg, request, main, shown>>
    BY <1>11 DEF MainGetsNull, MainPushFails, MainReturns, MainEndsGet, MainAt
  <2>2. QED  BY <2>1, ExitKeepsInv
<1>12. CASE MainPulls
  BY <1>12, PullsKeepInv
<1>13. CASE MainPushes
  BY <1>13, PushKeepsInv
<1>14. CASE MainReleases
  BY <1>14, ReleaseKeepsInv
<1>15. CASE MainEndsGet /\ ~is_error
  BY <1>15, EndKeepsInv
<1>16. CASE UNCHANGED vars
  <2>1. /\ UNCHANGED <<conn, get, update, pulling, arg, program>>
        /\ UNCHANGED <<inBuffer, inReleased, inError, inComplete, inFresh, inPc, inMax,
                       inContents, inResult, inConsumed, inAlloc, inTaken, inErrors>>
        /\ UNCHANGED <<buffer, released, is_error, is_complete, fresh_read, pc, max_size,
                       contents, result, consumed>>
        /\ UNCHANGED <<transfer_encoding_type, body_size, have_size>>
        /\ UNCHANGED <<request, main, exit, shown>>
    BY <1>16 DEF vars, conn, get, arg, program
  <2>2. ConnInv'
    BY <2>1 DEF Inv, ConnInv, ConnTypeOK, CacheIsStream, Ahead, Conn!ChainTypeOK
  <2>3. GetInv'
    BY <2>1 DEF Inv, GetInv, GetTypeOK, Get!ChainTypeOK
  <2>4. Decoded' = Decoded
    BY <2>1 DEF Decoded, Get!Window
  <2>5. InPlace'
    BY <2>1, <2>4, PlaceStays
  <2>6. QED  BY <2>2, <2>3, <2>5 DEF Inv
<1>17. QED
  BY <1>1, <1>2, <1>3, <1>4, <1>5, <1>6, <1>7, <1>8, <1>9, <1>10, <1>11, <1>12, <1>13, <1>14,
     <1>15, <1>16 DEF Next

\* A get that ends has read its answer to the end, and no further.
LEMMA InvIsInStep == Inv => StaysInStep
<1> SUFFICES ASSUME Inv PROVE StaysInStep
  OBVIOUS
<1>1. TypeOK
  BY DEF Inv, ConnInv, ConnTypeOK, GetInv, GetTypeOK, TypeOK
<1>2. EndsInStep
  BY GetBegins DEF EndsInStep
<1>3. QED  BY <1>1, <1>2 DEF StaysInStep

\* A beginning of a sequence, in terms of its length.
LEMMA Beginning ==
  ASSUME NEW S, NEW s \in Seq(S), NEW d \in Nat, d <= Len(s)
  PROVE  IsPrefix(SubSeq(s, 1, d), s)
<1>1. SubSeq(s, 0 + 1, d) \in Seq(S) /\ Len(SubSeq(s, 0 + 1, d)) = d
  <2>1. d - 0 = d /\ 0 <= d
    OBVIOUS
  <2>2. QED  BY <2>1, Piece
<1>2. SubSeq(SubSeq(s, 1, d), 1, Len(SubSeq(s, 1, d))) = SubSeq(s, 1, d)
  BY <1>1, SubSeqFull
<1>3. QED  BY <1>1, <1>2 DEF IsPrefix

\* A beginning of a beginning.
LEMMA PrefixShortens ==
  ASSUME NEW S, NEW a \in Seq(S), NEW c \in Seq(S), NEW b \in Seq(S), NEW n \in Nat,
         Len(c) = Len(a) + n, \A x \in 1..Len(a) : c[x] = a[x], IsPrefix(c, b)
  PROVE  IsPrefix(a, b)
<1> DEFINE m == Len(a)
<1>1. m \in Nat /\ Len(b) \in Nat /\ Len(c) \in Nat /\ m <= Len(c) /\ Len(c) <= Len(b)
      /\ m <= Len(b)
  BY LenProperties DEF IsPrefix
<1>2. \A x \in 1..Len(c) : c[x] = b[x]
  <2>1. SubSeq(c, 1, Len(c)) = SubSeq(b, 1, Len(c)) /\ SubSeq(c, 1, Len(c)) = c
    BY SubSeqFull DEF IsPrefix
  <2>2. \A x \in 1..Len(c) - 0 : SubSeq(b, 0 + 1, Len(c))[x] = b[0 + x]
    BY <1>1, Piece
  <2>3. QED  BY <1>1, <2>1, <2>2
<1>3. \A x \in 1..m : a[x] = b[x]
  BY <1>1, <1>2
<1>4. a = SubSeq(b, 1, m)
  <2>1. /\ SubSeq(b, 0 + 1, m) \in Seq(S) /\ Len(SubSeq(b, 0 + 1, m)) = m
        /\ \A x \in 1..m : SubSeq(b, 0 + 1, m)[x] = b[x]
    <3>1. m - 0 = m /\ 0 <= m /\ \A x \in 1..m : 0 + x = x
      BY <1>1
    <3>2. QED  BY <1>1, <3>1, Piece
  <2>2. QED  BY <1>3, <2>1, SeqEqual
<1>5. SubSeq(a, 1, m) = a
  BY SubSeqFull
<1>6. QED  BY <1>1, <1>4, <1>5 DEF IsPrefix

\* What a get has decoded at any place of its answer.
LEMMA DecodedIsPrefix ==
  ASSUME Inv, request > 0
  PROVE  IsPrefix(Decoded, Body)
<1>1. /\ request \in 1..Len(Responses) /\ Station /\ Body \in Seq(Sent) /\ Len(Body) \in Nat
      /\ body_size \in Nat /\ have_size \in 0..body_size
  BY AnswersAre DEF Inv, GetInv, GetTypeOK, InPlace, Body
<1>2. SUFFICES \E d \in Nat : d <= Len(Body) /\ Decoded = SubSeq(Body, 1, d)
  BY <1>1, Beginning
<1>3. CASE Decoded = <<>>
  <2>1. SubSeq(Body, 1, 0) = <<>>
    BY <1>1, SubSeqEmpty
  <2>2. QED  BY <1>1, <1>3, <2>1
<1>4. CASE Decoded = Body
  <2> DEFINE d == Len(Body)
  <2>1. d \in Nat /\ d <= Len(Body) /\ Decoded = SubSeq(Body, 1, d)
    BY <1>1, <1>4, SubSeqFull
  <2> HIDE DEF d
  <2>2. QED  BY <2>1
<1>5. CASE InBody
  BY <1>1, <1>5 DEF InBody
<1>6. ASSUME NEW j \in 1..Len(Frame.chunks), ~HasItsLength(request), AtChunk(j) \/ InChunk(j)
      PROVE  \E d \in Nat : d <= Len(Body) /\ Decoded = SubSeq(Body, 1, d)
  <2> DEFINE had == Frame.chunks[j].had
             size == Frame.chunks[j].size
  <2>1. had \in Nat /\ size \in Nat /\ had + size <= Len(Body)
    BY <1>1, <1>6, ChunksAre DEF Frame, Body, Carries
  <2>2. CASE AtChunk(j)
    <3>1. Decoded = SubSeq(Body, 1, had)
      BY <2>2 DEF AtChunk
    <3> HIDE DEF had, size
    <3>2. had <= Len(Body)
      BY <1>1, <2>1
    <3>3. QED  BY <2>1, <3>1, <3>2
  <2>3. CASE InChunk(j)
    <3>1. Decoded = SubSeq(Body, 1, had + have_size) /\ body_size = size
      BY <2>3 DEF InChunk
    <3> HIDE DEF had, size
    <3> DEFINE d == had + have_size
    <3>2. d \in Nat /\ d <= Len(Body)
      BY <1>1, <2>1, <3>1
    <3> HIDE DEF d
    <3>3. QED  BY <3>1, <3>2 DEF d
  <2>4. QED  BY <1>6, <2>2, <2>3
<1>7. \/ Decoded = <<>> \/ Decoded = Body \/ InBody
      \/ \E j \in 1..Len(Frame.chunks) : ~HasItsLength(request) /\ (AtChunk(j) \/ InChunk(j))
  BY <1>1 DEF Station, AtLine
<1>8. QED  BY <1>3, <1>4, <1>5, <1>6, <1>7

\* And so is what it has shown.
LEMMA InvIsFaithful == Inv => BodyIsFaithful
<1> SUFFICES ASSUME Inv PROVE BodyIsFaithful
  OBVIOUS
<1>1. request \in 0..Len(Responses) /\ Len(Responses) \in Nat
  BY AnswersAre DEF Inv, GetInv, GetTypeOK
<1>2. ASSUME request > 0 PROVE IsPrefix(Decoded, Bodies[request])
  BY <1>2, DecodedIsPrefix DEF Body
<1>3. ASSUME NEW i \in 1..request PROVE IsPrefix(shown[i], Bodies[i])
  <2>1. i \in 1..Len(Responses) /\ request > 0 /\ (i < request \/ i = request)
    BY <1>1
  <2>2. Bodies[i] \in Seq(Sent) /\ Len(Bodies[i]) \in Nat
    BY <2>1, AnswersAre
  <2>3. CASE i < request
    <3>1. shown[i] = Bodies[i]
      BY <2>1, <2>3 DEF Inv, InPlace
    <3>2. QED  BY <2>2, <3>1 DEF IsPrefix
  <2>4. CASE i = request
    <3>1. /\ Decoded = IF main = "push" THEN shown[i] \o buffer ELSE shown[i]
          /\ shown[i] \in Seq(Units) /\ buffer \in Seq(Units)
      BY <2>1, <2>4, DecodedIs DEF Inv
    <3>2. IsPrefix(Decoded, Bodies[i])
      BY <1>2, <2>1, <2>4
    <3>3. CASE main # "push"
      BY <3>1, <3>2, <3>3
    <3>4. CASE main = "push"
      <4> DEFINE a == shown[i]
                 b == Bodies[i]
                 c == shown[i] \o buffer
      <4>1. /\ c \in Seq(Units) /\ Len(c) = Len(a) + Len(buffer)
            /\ \A x \in 1..Len(a) + Len(buffer) :
                 c[x] = IF x <= Len(a) THEN a[x] ELSE buffer[x - Len(a)]
        BY <3>1, ConcatProperties
      <4>2. IsPrefix(c, b)
        BY <3>1, <3>2, <3>4
      <4>3. a \in Seq(Units) /\ Len(a) \in Nat /\ Len(buffer) \in Nat
        BY <3>1, LenProperties
      <4>4. b \in Seq(Units) /\ Len(b) \in Nat
        BY <2>1, BodyUnits
      <4> DEFINE n == Len(buffer)
      <4> HIDE DEF a, b, c
      <4>5. n \in Nat /\ Len(c) = Len(a) + n /\ \A x \in 1..Len(a) : c[x] = a[x]
        BY <4>1, <4>3
      <4> HIDE DEF n
      <4>6. IsPrefix(a, b)
        BY <4>1, <4>2, <4>3, <4>4, <4>5, PrefixShortens
      <4>7. QED  BY <4>6 DEF a, b
    <3>5. QED  BY <3>3, <3>4
  <2>5. QED  BY <2>1, <2>3, <2>4
<1>4. QED  BY <1>2, <1>3 DEF BodyIsFaithful

\* The connection's cache, the get's state and the place in the answer that
\* Inv relates stay related through every step of the client.
THEOREM InvHolds == Spec => []Inv
<1>1. QED  BY InvStarts, InvStays, PTL DEF Spec

\* A get that ends has ended where the next answer begins, and has shown its
\* body whole; no count exceeds the body it counts.
THEOREM GetsStayInStep == Spec => []StaysInStep
<1>1. QED  BY InvHolds, InvIsInStep, PTL

\* However the reads cut the answers and the requests follow each other, a get
\* shows a beginning of the body of its own answer.
THEOREM GetsAreFaithful == Spec => []BodyIsFaithful
<1>1. QED  BY InvHolds, InvIsFaithful, PTL
=============================================================================
