-------------------------- MODULE FdChainWriteProofs --------------------------
(***************************************************************************)
(* Proofs about FdChainWrite, for all data, all sizes of pushes and every  *)
(* value of the thresholds.                                                *)
(***************************************************************************)
EXTENDS FdChainWrite, SequenceLemmas

\* What was written is the beginning of what was pushed, even after a failure.
WrittenIsPrefix ==
  Len(sink) <= pushed /\ sink = SubSeq(Data, 1, Len(sink))

\* What waits is the rest of it.
RestWaits == ~is_error => Pending = SubSeq(Data, Len(sink) + 1, pushed)

\* Nobody writes on a chain that has failed, and a client's own range is written
\* only when nothing in the cache waits.
LoopsAreOrderly ==
  /\ Busy => ~is_error
  /\ pc = "pushing" => written = Len(buffer)

WriteInv ==
  TypeOK /\ WrittenIsPrefix /\ RestWaits /\ LoopsAreOrderly /\ CacheBounded

-----------------------------------------------------------------------------
\* The data are bytes.
LEMMA DataTyped == Data \in Seq(Bytes) /\ Len(Data) \in Nat
BY FdWriteAssumption, LenProperties

\* What an unwritten part is.
LEMMA UnwrittenIs ==
  ASSUME NEW b \in Seq(Bytes), NEW w \in Nat, w <= Len(b)
  PROVE  /\ Unwritten(b, w) \in Seq(Bytes) /\ Len(Unwritten(b, w)) = Len(b) - w
         /\ \A i \in 1..Len(b) - w : Unwritten(b, w)[i] = b[w + i]
<1>1. Len(b) \in Nat
  BY LenProperties
<1>2. QED  BY <1>1, Piece DEF Unwritten

\* Bytes appended to a cache are appended to its unwritten part.
LEMMA UnwrittenGrows ==
  ASSUME NEW b \in Seq(Bytes), NEW w \in Nat, w <= Len(b), NEW bytes \in Seq(Bytes)
  PROVE  /\ b \o bytes \in Seq(Bytes) /\ Len(b \o bytes) = Len(b) + Len(bytes)
         /\ Unwritten(b \o bytes, w) = Unwritten(b, w) \o bytes
<1> DEFINE c == b \o bytes
           u == Unwritten(b, w)
           v == Unwritten(c, w)
           x == u \o bytes
<1>1. Len(b) \in Nat /\ Len(bytes) \in Nat
  BY LenProperties
<1>2. /\ c \in Seq(Bytes) /\ Len(c) = Len(b) + Len(bytes)
      /\ \A i \in 1..Len(b) + Len(bytes) :
           c[i] = IF i <= Len(b) THEN b[i] ELSE bytes[i - Len(b)]
  BY ConcatProperties
<1> HIDE DEF c
<1>3. /\ u \in Seq(Bytes) /\ Len(u) = Len(b) - w
      /\ \A i \in 1..Len(b) - w : u[i] = b[w + i]
  BY UnwrittenIs
<1>4. /\ v \in Seq(Bytes) /\ Len(v) = Len(c) - w
      /\ \A i \in 1..Len(c) - w : v[i] = c[w + i]
  <2>1. w <= Len(c)
    BY <1>1, <1>2
  <2>2. QED  BY <1>2, <2>1, UnwrittenIs
<1> HIDE DEF u, v
<1>5. /\ x \in Seq(Bytes) /\ Len(x) = Len(u) + Len(bytes)
      /\ \A i \in 1..Len(u) + Len(bytes) :
           x[i] = IF i <= Len(u) THEN u[i] ELSE bytes[i - Len(u)]
  BY <1>3, ConcatProperties
<1> HIDE DEF x
<1>6. Len(v) = Len(x) /\ Len(x) = Len(b) - w + Len(bytes)
  BY <1>1, <1>2, <1>3, <1>4, <1>5
<1>7. ASSUME NEW i \in 1..Len(x) PROVE v[i] = x[i]
  <2>1. v[i] = c[w + i] /\ w + i \in 1..Len(b) + Len(bytes)
    BY <1>1, <1>2, <1>4, <1>6
  <2>2. CASE w + i <= Len(b)
    BY <1>1, <1>2, <1>3, <1>5, <1>6, <2>1, <2>2
  <2>3. CASE ~(w + i <= Len(b))
    <3>1. ~(i <= Len(u)) /\ w + i - Len(b) = i - Len(u) /\ i \in 1..Len(u) + Len(bytes)
      BY <1>1, <1>3, <1>5, <2>1, <2>3
    <3>2. QED  BY <1>2, <1>5, <2>1, <2>3, <3>1, SMTT(30)
  <2>4. QED  BY <2>2, <2>3
<1>8. v = x
  BY <1>4, <1>5, <1>6, <1>7, SeqEqual
<1>9. QED  BY <1>2, <1>8 DEF c, u, v, x

\* Shortening the cache leaves what is unwritten.
LEMMA KeptWaits ==
  ASSUME TypeOK
  PROVE  /\ Kept \in Seq(Bytes) /\ KeptWritten \in 0..Len(Kept)
         /\ Unwritten(Kept, KeptWritten) = Unwritten(buffer, written)
<1>1. buffer \in Seq(Bytes) /\ Len(buffer) \in Nat /\ written \in Nat
      /\ written <= Len(buffer)
  BY LenProperties DEF TypeOK, ChainTypeOK
<1>2. CASE WorthShifting
  <2> DEFINE u == Unwritten(buffer, written)
  <2>1. u \in Seq(Bytes) /\ Len(u) \in Nat
    BY <1>1, UnwrittenIs, LenProperties
  <2> HIDE DEF u
  <2>2. Unwritten(u, 0) = u
    BY <2>1, SubSeqFull DEF Unwritten
  <2>3. QED  BY <1>2, <2>1, <2>2 DEF Kept, KeptWritten, u
<1>3. CASE ~WorthShifting
  BY <1>1, <1>3 DEF Kept, KeptWritten
<1>4. QED  BY <1>2, <1>3

-----------------------------------------------------------------------------
\* A push that chain_push_final settles keeps everything, in the cache or in the
\* range it starts to flush.
LEMMA Settled ==
  ASSUME WriteInv, pc = "idle",
         NEW b \in Seq(Bytes), NEW w \in 0..Len(b),
         NEW n \in PushSizes, pushed + n <= Len(Data),
         Unwritten(b, w) = Unwritten(buffer, written),
         LET bytes == SubSeq(Data, pushed + 1, pushed + n)
         IN  buffer' = b \o bytes /\ Settle(b \o bytes, w),
         written' = w, pushed' = pushed + n, UNCHANGED <<is_error, sink>>
  PROVE  WriteInv'
<1> DEFINE bytes == SubSeq(Data, pushed + 1, pushed + n)
           c == b \o bytes
           waiting == Unwritten(c, w)
<1>1. /\ pushed \in Nat /\ n \in Nat /\ pushed + n \in 0..Len(Data) /\ w \in Nat
      /\ Len(b) \in Nat /\ w <= Len(b) /\ sink \in Seq(Bytes) /\ Len(sink) \in Nat
      /\ Len(sink) <= pushed /\ Len(Data) \in Nat /\ is_error \in BOOLEAN
      /\ input \in Seq(Bytes) /\ Data \in Seq(Bytes)
  BY DataTyped, FdWriteAssumption, LenProperties
     DEF WriteInv, TypeOK, ChainTypeOK, WrittenIsPrefix
<1>2. bytes \in Seq(Bytes) /\ Len(bytes) = n
  BY <1>1, Piece
<1> HIDE DEF bytes
<1>3. c \in Seq(Bytes) /\ Len(c) = Len(b) + n /\ waiting = Unwritten(b, w) \o bytes
  <2>1. c \in Seq(Bytes) /\ Len(c) = Len(b) + Len(bytes)
    BY <1>2, ConcatProperties
  <2>2. waiting = Unwritten(b, w) \o bytes
    <3>1. w \in Nat /\ w <= Len(b)
      BY <1>1
    <3>2. QED  BY <1>2, <3>1, UnwrittenGrows
  <2>3. QED  BY <1>2, <2>1, <2>2
<1> USE DEF bytes
<1>4. ~is_error => waiting = SubSeq(Data, Len(sink) + 1, pushed + n)
  <2> SUFFICES ASSUME ~is_error PROVE waiting = SubSeq(Data, Len(sink) + 1, pushed + n)
    OBVIOUS
  <2>1. Unwritten(b, w) = SubSeq(Data, Len(sink) + 1, pushed)
    BY DEF WriteInv, RestWaits, Pending, Busy
  <2> DEFINE reached == pushed + n
  <2>2. reached \in Nat /\ pushed <= reached /\ reached <= Len(Data)
        /\ bytes = SubSeq(Data, pushed + 1, reached)
    BY <1>1
  <2> HIDE DEF reached, bytes
  <2>3. SubSeq(Data, Len(sink) + 1, pushed) \o SubSeq(Data, pushed + 1, reached)
          = SubSeq(Data, Len(sink) + 1, reached)
    <3>1. Data \in Seq(Bytes) /\ Len(sink) \in Nat /\ Len(sink) <= pushed /\ pushed \in Nat
      BY <1>1
    <3>2. QED  BY <2>2, <3>1, Adjacent
  <2>4. QED  BY <1>3, <2>1, <2>2, <2>3 DEF reached
<1>5. w \in 0..Len(c) /\ waiting \in Seq(Bytes) /\ Len(waiting) = Len(c) - w
  <2> HIDE DEF c
  <2>1. c \in Seq(Bytes) /\ w <= Len(c) /\ Len(c) \in Nat /\ w \in 0..Len(c)
    BY <1>1, <1>3
  <2>2. QED  BY <1>1, <2>1, UnwrittenIs
<1>6. buffer' = c /\ Settle(c, w)
  OBVIOUS
<1>7. WrittenIsPrefix'
  BY <1>1 DEF WriteInv, WrittenIsPrefix
<1> HIDE DEF waiting, c, bytes
<1>8. CASE Len(c) - w < InputFlushSize
  <2>1. result' = "true" /\ pc' = "idle" /\ input' = input
    BY <1>6, <1>8 DEF Settle
  <2>2. TypeOK'
    BY <1>1, <1>3, <1>5, <1>6, <2>1 DEF TypeOK, ChainTypeOK
  <2>3. Pending' = waiting
    BY <1>6, <2>1 DEF Pending, Busy, waiting
  <2>4. RestWaits' /\ CacheBounded' /\ LoopsAreOrderly'
    BY <1>4, <1>5, <1>8, <2>1, <2>3 DEF RestWaits, CacheBounded, LoopsAreOrderly, Busy
  <2>5. QED  BY <1>7, <2>2, <2>4 DEF WriteInv
<1>9. CASE ~(Len(c) - w < InputFlushSize) /\ is_error
  <2>1. result' = "false" /\ pc' = "idle" /\ input' = input
    BY <1>6, <1>9 DEF Settle, Hand
  <2>2. TypeOK'
    BY <1>1, <1>3, <1>5, <1>6, <2>1 DEF TypeOK, ChainTypeOK
  <2>3. RestWaits' /\ CacheBounded' /\ LoopsAreOrderly'
    BY <1>9, <2>1 DEF RestWaits, CacheBounded, LoopsAreOrderly, Busy
  <2>4. QED  BY <1>7, <2>2, <2>3 DEF WriteInv
<1>10. CASE ~(Len(c) - w < InputFlushSize) /\ ~is_error
  <2>1. result' = result /\ pc' = "flushing" /\ input' = waiting
    BY <1>6, <1>10 DEF Settle, Hand, waiting
  <2>2. TypeOK'
    BY <1>1, <1>3, <1>5, <1>6, <2>1 DEF WriteInv, TypeOK, ChainTypeOK
  <2>3. RestWaits' /\ CacheBounded' /\ LoopsAreOrderly'
    BY <1>4, <1>10, <2>1 DEF RestWaits, CacheBounded, LoopsAreOrderly, Busy, Pending
  <2>4. QED  BY <1>7, <2>2, <2>3 DEF WriteInv
<1>11. QED  BY <1>8, <1>9, <1>10

\* Each way a client can push keeps the books.
LEMMA PushStep == WriteInv /\ ClientPushes => WriteInv'
<1> SUFFICES ASSUME WriteInv, ClientPushes PROVE WriteInv'
  OBVIOUS
<1> PICK n \in PushSizes :
      /\ pushed + n <= Len(Data)
      /\ LET bytes == SubSeq(Data, pushed + 1, pushed + n)
         IN  Push(bytes) \/ PushInPlace(bytes)
      /\ pushed' = pushed + n
      /\ UNCHANGED sink
  BY DEF ClientPushes
<1> DEFINE bytes == SubSeq(Data, pushed + 1, pushed + n)
<1>1. /\ TypeOK /\ pushed \in Nat /\ n \in Nat /\ pushed + n \in 0..Len(Data)
      /\ sink \in Seq(Bytes) /\ Len(sink) \in Nat /\ Len(sink) <= pushed
      /\ Data \in Seq(Bytes) /\ is_error \in BOOLEAN /\ written \in Nat
      /\ buffer \in Seq(Bytes) /\ Len(buffer) \in Nat /\ written <= Len(buffer)
      /\ input \in Seq(Bytes)
  BY DataTyped, FdWriteAssumption, LenProperties
     DEF WriteInv, TypeOK, ChainTypeOK, WrittenIsPrefix
<1>2. /\ Kept \in Seq(Bytes) /\ KeptWritten \in 0..Len(Kept)
      /\ Unwritten(Kept, KeptWritten) = Unwritten(buffer, written)
      /\ Len(Kept) \in Nat
  BY <1>1, KeptWaits, LenProperties
<1>3. bytes \in Seq(Bytes) /\ Len(bytes) = n
  BY <1>1, Piece, SMTT(30)
<1>4. CASE bytes = <<>> /\ PushNothing
  <2>1. n = 0 /\ pushed' = pushed
    BY <1>1, <1>3, <1>4, EmptySeq, SMTT(30)
  <2>2. UNCHANGED <<buffer, written, is_error, pc, input, sink, pushed>> /\ result' = "true"
    BY <1>4, <2>1 DEF PushNothing
  <2>3. QED
    BY <2>2 DEF WriteInv, TypeOK, ChainTypeOK, WrittenIsPrefix, RestWaits, Pending,
                Busy, LoopsAreOrderly, CacheBounded
<1>5. CASE PushDirect(bytes)
  <2>1. /\ pc = "idle" /\ buffer' = Kept /\ written' = KeptWritten
        /\ Len(Kept) = KeptWritten /\ UNCHANGED is_error /\ Hand(bytes, "pushing")
    BY <1>5 DEF PushDirect, SkipsCache
  <2>2. WrittenIsPrefix'
    BY <1>1 DEF WriteInv, WrittenIsPrefix
  <2>3. CASE is_error
    <3>1. result' = "false" /\ pc' = "idle" /\ input' = input
      BY <2>1, <2>3 DEF Hand
    <3>2. TypeOK'
      BY <1>1, <1>2, <2>1, <3>1 DEF TypeOK, ChainTypeOK
    <3>3. QED
      BY <2>1, <2>2, <2>3, <3>1, <3>2
         DEF WriteInv, RestWaits, CacheBounded, LoopsAreOrderly, Busy
  <2>4. CASE ~is_error
    <3>1. result' = result /\ pc' = "pushing" /\ input' = bytes
      BY <2>1, <2>4 DEF Hand
    <3>2. TypeOK'
      <4> HIDE DEF bytes
      <4>1. QED  BY <1>1, <1>2, <1>3, <2>1, <3>1 DEF WriteInv, TypeOK, ChainTypeOK
    <3>3. Len(Unwritten(buffer, written)) = 0
      BY <1>2, <2>1, UnwrittenIs, SMTT(30)
    <3>4. Unwritten(buffer, written) = SubSeq(Data, Len(sink) + 1, pushed)
      BY <2>1, <2>4 DEF WriteInv, RestWaits, Pending, Busy
    <3>5. Len(sink) = pushed
      BY <1>1, <3>3, <3>4, Piece
    <3>6. input' = SubSeq(Data, Len(sink) + 1, pushed')
      BY <3>1, <3>5
    <3>7. QED
      BY <2>1, <2>2, <2>4, <3>1, <3>2, <3>6
         DEF WriteInv, RestWaits, CacheBounded, LoopsAreOrderly, Busy, Pending
  <2>5. QED  BY <2>3, <2>4
<1>6. CASE PushCached(bytes)
  BY <1>2, <1>6, Settled DEF PushCached
<1>7. CASE PushInPlace(bytes)
  <2>1. written \in 0..Len(buffer)
    BY <1>1
  <2>2. /\ pc = "idle" /\ buffer' = buffer \o bytes /\ Settle(buffer \o bytes, written)
        /\ written' = written /\ UNCHANGED is_error
    BY <1>7 DEF PushInPlace
  <2>3. QED  BY <1>1, <2>1, <2>2, Settled
<1>8. QED  BY <1>4, <1>5, <1>6, <1>7 DEF Push

\* chain_flush and the beginning of chain_write_free.
LEMMA HandStep == WriteInv /\ (ClientFlushes \/ ClientFrees) => WriteInv'
<1> SUFFICES ASSUME WriteInv, ClientFlushes \/ ClientFrees PROVE WriteInv'
  OBVIOUS
<1> DEFINE u == Unwritten(buffer, written)
<1>1. pc = "idle" /\ UNCHANGED <<buffer, written, is_error, pushed, sink>>
  BY DEF ClientFlushes, ClientFrees, Flush, Free
<1>2. u \in Seq(Bytes) /\ is_error \in BOOLEAN /\ (~is_error => u = Pending)
  BY <1>1, UnwrittenIs, LenProperties DEF WriteInv, TypeOK, ChainTypeOK, Pending, Busy
<1> HIDE DEF u
<1>3. CASE is_error
  <2>1. input' = input /\ pc' \in {"idle", "freed"} /\ result' \in {result, "false"}
    BY <1>3, <1>1 DEF ClientFlushes, ClientFrees, Flush, Free, Hand
  <2>2. TypeOK'
    BY <1>1, <2>1 DEF WriteInv, TypeOK, ChainTypeOK
  <2>3. QED
    BY <1>1, <1>3, <2>1, <2>2
       DEF WriteInv, WrittenIsPrefix, RestWaits, LoopsAreOrderly, Busy, CacheBounded
<1>4. CASE ~is_error
  <2>1. input' = u /\ pc' \in {"flushing", "closing"} /\ result' = result
    BY <1>4, <1>1 DEF ClientFlushes, ClientFrees, Flush, Free, Hand, u
  <2>2. TypeOK'
    BY <1>1, <1>2, <2>1 DEF WriteInv, TypeOK, ChainTypeOK
  <2>3. Pending' = Pending
    BY <1>2, <1>4, <2>1 DEF Pending, Busy
  <2>4. QED
    BY <1>1, <1>4, <2>1, <2>2, <2>3
       DEF WriteInv, WrittenIsPrefix, RestWaits, LoopsAreOrderly, Busy, CacheBounded
<1>5. QED  BY <1>2, <1>3, <1>4

\* What write(2) takes of the range is the next bytes.
LEMMA TakenIsNext ==
  ASSUME WriteInv, NEW k \in 1..Len(input), FdUpdate, UNCHANGED pushed,
         sink' = sink \o SubSeq(input, 1, k)
  PROVE  /\ Len(sink') = Len(sink) + k /\ Len(sink) + k <= pushed
         /\ sink' = SubSeq(Data, 1, Len(sink) + k) /\ sink' \in Seq(Bytes)
         /\ SubSeq(input, k + 1, Len(input)) \in Seq(Bytes)
         /\ SubSeq(input, k + 1, Len(input))
              = SubSeq(Data, Len(sink) + k + 1, pushed)
<1>1. Busy /\ ~is_error
  BY DEF FdUpdate, Update, WriteInv, LoopsAreOrderly
<1>2. /\ Data \in Seq(Bytes) /\ pushed \in Nat /\ pushed <= Len(Data)
      /\ sink \in Seq(Bytes) /\ Len(sink) \in Nat /\ Len(sink) <= pushed
      /\ sink = SubSeq(Data, 1, Len(sink))
      /\ input \in Seq(Bytes) /\ Len(input) \in Nat /\ k \in Nat /\ k <= Len(input)
  BY DataTyped, LenProperties DEF WriteInv, TypeOK, ChainTypeOK, WrittenIsPrefix
<1>3. input = SubSeq(Data, Len(sink) + 1, pushed)
  BY <1>1 DEF WriteInv, RestWaits, Pending
<1>4. Len(input) = pushed - Len(sink)
  BY <1>2, <1>3, Piece
<1> DEFINE at == Len(sink)
           to == at + k
<1>5. /\ at \in Nat /\ to \in Nat /\ at <= to /\ to <= pushed /\ to <= Len(Data)
      /\ to - at = k /\ pushed - at = Len(input) /\ k <= pushed - at
      /\ sink = SubSeq(Data, 0 + 1, at) /\ input = SubSeq(Data, at + 1, pushed)
  <2>1. /\ at \in Nat /\ pushed - at = Len(input) /\ k \in Nat /\ k <= Len(input)
        /\ pushed \in Nat /\ pushed <= Len(Data) /\ Len(Data) \in Nat
    BY <1>2, <1>4, DataTyped
  <2>2. sink = SubSeq(Data, 0 + 1, at) /\ input = SubSeq(Data, at + 1, pushed)
    BY <1>2, <1>3
  <2> HIDE DEF at
  <2>3. /\ to \in Nat /\ at <= to /\ to <= pushed /\ to <= Len(Data)
        /\ to - at = k /\ k <= pushed - at
    BY <2>1
  <2>4. QED  BY <2>1, <2>2, <2>3
<1> HIDE DEF at, to
<1>6. SubSeq(input, 1, k) = SubSeq(Data, at + 1, to)
  <2> DEFINE x == SubSeq(input, 0 + 1, k)
             y == SubSeq(Data, at + 1, to)
  <2>1. x \in Seq(Bytes) /\ Len(x) = k /\ \A i \in 1..k - 0 : x[i] = input[0 + i]
    BY <1>2, Piece
  <2>2. y \in Seq(Bytes) /\ Len(y) = k /\ \A i \in 1..k : y[i] = Data[at + i]
    BY <1>2, <1>5, Piece
  <2>3. \A i \in 1..pushed - at : input[i] = Data[at + i]
    BY <1>2, <1>5, Piece
  <2> HIDE DEF x, y
  <2>4. ASSUME NEW i \in 1..k PROVE x[i] = y[i]
    <3>1. i \in 1..k - 0 /\ i \in 1..pushed - at /\ 0 + i = i
      BY <1>2, <1>5
    <3>2. QED  BY <2>1, <2>2, <2>3, <3>1
  <2>5. x = y
    BY <2>1, <2>2, <2>4, SeqEqual
  <2>6. 0 + 1 = 1
    OBVIOUS
  <2>7. QED  BY <2>5, <2>6 DEF x, y
<1>7. sink' = SubSeq(Data, 1, to)
  <2>1. SubSeq(Data, 0 + 1, at) \o SubSeq(Data, at + 1, to) = SubSeq(Data, 0 + 1, to)
    BY <1>2, <1>5, Adjacent, SMTT(30)
  <2>2. 0 + 1 = 1
    OBVIOUS
  <2>3. QED  BY <1>5, <1>6, <2>1, <2>2
<1>8. sink' \in Seq(Bytes) /\ Len(sink') = to
  <2>1. SubSeq(Data, 0 + 1, to) \in Seq(Bytes) /\ Len(SubSeq(Data, 0 + 1, to)) = to
    BY <1>2, <1>5, Piece
  <2>2. 0 + 1 = 1
    OBVIOUS
  <2>3. QED  BY <1>7, <2>1, <2>2
<1>9. SubSeq(input, k + 1, Len(input)) = SubSeq(Data, to + 1, pushed)
  <2>1. SubSeq(SubSeq(Data, at + 1, pushed), k + 1, pushed - at)
          = SubSeq(Data, at + k + 1, pushed)
    BY <1>2, <1>5, Suffix DEF to
  <2>2. QED  BY <1>5, <2>1 DEF to
<1>10. SubSeq(input, k + 1, Len(input)) \in Seq(Bytes)
  BY <1>2, Piece
<1>11. QED  BY <1>5, <1>7, <1>8, <1>9, <1>10 DEF at, to

\* One turn of the flushing loop.
LEMMA WriteStep == WriteInv /\ Writes => WriteInv'
<1> SUFFICES ASSUME WriteInv, Writes PROVE WriteInv'
  OBVIOUS
<1>1. /\ Busy /\ ~is_error /\ UNCHANGED pushed
      /\ pc \in {"pushing", "flushing", "closing"} /\ is_error \in BOOLEAN
  BY DEF Writes, FdUpdate, FdComplete, FdFails, Update, WriteInv, LoopsAreOrderly, Busy,
         TypeOK, ChainTypeOK
<1>2. /\ buffer \in Seq(Bytes) /\ Len(buffer) \in Nat /\ written \in 0..Len(buffer)
      /\ pushed \in Nat /\ Len(sink) \in Nat /\ sink \in Seq(Bytes)
      /\ InputFlushSize > 0 /\ InputFlushSize \in Nat
  BY LenProperties, WriteAssumption DEF WriteInv, TypeOK, ChainTypeOK
<1>3. CASE FdUpdate
  <2>1. PICK k \in 1..Len(input) :
          /\ sink' = sink \o SubSeq(input, 1, k)
          /\ Update(SubSeq(input, k + 1, Len(input)), "incomplete")
    BY <1>3 DEF FdUpdate
  <2> DEFINE rest == SubSeq(input, k + 1, Len(input))
  <2>2. /\ Len(sink') = Len(sink) + k /\ Len(sink) + k <= pushed
        /\ sink' = SubSeq(Data, 1, Len(sink) + k) /\ sink' \in Seq(Bytes)
        /\ rest \in Seq(Bytes) /\ rest = SubSeq(Data, Len(sink) + k + 1, pushed)
    BY <1>1, <1>3, <2>1, TakenIsNext
  <2>3. Update(rest, "incomplete")
    BY <2>1
  <2> HIDE DEF rest
  <2>4. input' = rest /\ UNCHANGED <<buffer, written, pc, result, is_error>>
    BY <1>1, <2>3 DEF Update
  <2>5. TypeOK'
    BY <1>1, <2>2, <2>4 DEF WriteInv, TypeOK, ChainTypeOK
  <2>6. WrittenIsPrefix'
    BY <1>1, <2>2 DEF WrittenIsPrefix
  <2>7. RestWaits' /\ LoopsAreOrderly' /\ CacheBounded'
    BY <1>1, <2>2, <2>4
       DEF WriteInv, RestWaits, LoopsAreOrderly, CacheBounded, Pending, Busy
  <2>8. QED  BY <2>5, <2>6, <2>7 DEF WriteInv
<1>4. CASE FdComplete
  <2>1. input = <<>> /\ Update(<<>>, "complete") /\ sink' = sink
    BY <1>4 DEF FdComplete
  <2>2. /\ Handed(<<>>) /\ pc' = Resting /\ input' = <<>> /\ result' = "true"
        /\ is_error' = is_error
    BY <1>1, <2>1 DEF Update
  <2>3. Len(<<>>) = 0 /\ <<>> \in Seq(Bytes)
    BY EmptySeq
  <2>4. /\ buffer' = buffer /\ written' = Len(buffer)
    <3>1. CASE pc = "pushing"
      <4>1. buffer \o <<>> = buffer /\ written = Len(buffer)
        BY <1>2, <3>1, ConcatEmptySeq DEF WriteInv, LoopsAreOrderly
      <4>2. QED  BY <2>2, <3>1, <4>1 DEF Handed
    <3>2. CASE pc # "pushing"
      BY <1>2, <2>2, <2>3, <3>2 DEF Handed
    <3>3. QED  BY <3>1, <3>2
  <2>5. pc' \in {"idle", "freed"}
    BY <2>2 DEF Resting
  <2>6. Pending' = <<>>
    <3>1. Unwritten(buffer, Len(buffer)) = <<>>
      BY <1>2, SubSeqEmpty DEF Unwritten
    <3>2. QED  BY <2>4, <2>5, <3>1 DEF Pending, Busy
  <2>7. SubSeq(Data, Len(sink) + 1, pushed) = <<>>
    BY <1>1, <2>1 DEF WriteInv, RestWaits, Pending
  <2>8. TypeOK'
    BY <1>1, <1>2, <2>1, <2>2, <2>3, <2>4, <2>5 DEF WriteInv, TypeOK, ChainTypeOK
  <2>9. RestWaits' /\ LoopsAreOrderly' /\ CacheBounded'
    BY <1>1, <1>2, <2>1, <2>2, <2>3, <2>4, <2>5, <2>6, <2>7
       DEF RestWaits, LoopsAreOrderly, CacheBounded, Busy
  <2>10. QED
    BY <1>1, <2>1, <2>8, <2>9 DEF WriteInv, WrittenIsPrefix
<1>5. CASE FdFails
  <2>1. /\ is_error' = TRUE /\ pc' = Resting /\ input' = <<>> /\ result' = "false"
        /\ UNCHANGED <<buffer, written, sink>>
    BY <1>5 DEF FdFails, Update
  <2>2. pc' \in {"idle", "freed"} /\ <<>> \in Seq(Bytes)
    BY <2>1, EmptySeq DEF Resting
  <2>3. TypeOK'
    BY <1>1, <1>2, <2>1, <2>2 DEF WriteInv, TypeOK, ChainTypeOK
  <2>4. QED
    BY <1>1, <2>1, <2>2, <2>3
       DEF WriteInv, WrittenIsPrefix, RestWaits, LoopsAreOrderly, CacheBounded, Busy
<1>6. QED  BY <1>3, <1>4, <1>5 DEF Writes

\* Every step of the chain keeps the inductive invariant.
LEMMA WriteInductive == WriteInv /\ [Next]_vars => WriteInv'
<1>1. WriteInv /\ UNCHANGED vars => WriteInv'
  BY DEF vars, chain, WriteInv, TypeOK, ChainTypeOK, WrittenIsPrefix, RestWaits, Pending,
         Busy, LoopsAreOrderly, CacheBounded
<1>2. QED  BY <1>1, PushStep, HandStep, WriteStep DEF Next

\* The inductive invariant of a writing chain.
THEOREM WriteInvariant == Spec => []WriteInv
<1>1. Init => WriteInv
  <2> SUFFICES ASSUME Init PROVE WriteInv
    OBVIOUS
  <2>1. /\ buffer = <<>> /\ written = 0 /\ is_error = FALSE /\ pc = "idle"
        /\ input = <<>> /\ result = "none" /\ pushed = 0 /\ sink = <<>>
    BY DEF Init, ChainInit
  <2>2. Len(<<>>) = 0 /\ <<>> \in Seq(Bytes) /\ Len(Data) \in Nat
        /\ InputFlushSize \in Nat /\ InputFlushSize > 0
    BY DataTyped, EmptySeq, WriteAssumption
  <2>3. TypeOK
    <3>1. /\ buffer \in Seq(Bytes) /\ input \in Seq(Bytes) /\ sink \in Seq(Bytes)
          /\ Len(buffer) = 0
      BY <2>1, <2>2, Zenon
    <3>2. /\ written = 0 /\ is_error = FALSE /\ pc = "idle" /\ result = "none"
          /\ pushed = 0 /\ Len(Data) \in Nat
      BY <2>1, <2>2
    <3>3. written \in 0..Len(buffer) /\ pushed \in 0..Len(Data)
      BY <3>1, <3>2
    <3>4. is_error \in BOOLEAN
      BY <3>2
    <3>5. QED  BY <3>1, <3>2, <3>3, <3>4 DEF TypeOK, ChainTypeOK
  <2>4. SubSeq(Data, 1, 0) = <<>> /\ SubSeq(<<>>, 1, 0) = <<>>
    BY SubSeqEmpty
  <2>5. Pending = <<>>
    BY <2>1, <2>2, <2>4 DEF Pending, Busy, Unwritten
  <2>6. WrittenIsPrefix /\ RestWaits /\ LoopsAreOrderly /\ CacheBounded
    BY <2>1, <2>2, <2>4, <2>5
       DEF WrittenIsPrefix, RestWaits, LoopsAreOrderly, CacheBounded, Busy
  <2>7. QED  BY <2>3, <2>6 DEF WriteInv
<1>2. QED  BY <1>1, WriteInductive, PTL DEF Spec

\* Nothing that was pushed is lost, repeated or reordered on its way to the
\* descriptor, and no more waits than chain_push allows (FdChainWrite!Bookkeeping).
THEOREM BooksAreKept == Spec => []Bookkeeping
<1>1. WriteInv => Bookkeeping
  <2> SUFFICES ASSUME WriteInv PROVE Bookkeeping
    OBVIOUS
  <2>1. ASSUME ~is_error
        PROVE  /\ Len(sink) + Len(Pending) = pushed
               /\ \A i \in 1..Len(Pending) : Pending[i] = Data[Len(sink) + i]
    <3> DEFINE at == Len(sink)
               rest == SubSeq(Data, at + 1, pushed)
    <3>1. at \in Nat /\ pushed \in Nat /\ pushed <= Len(Data) /\ at <= pushed
          /\ Data \in Seq(Bytes)
      BY DataTyped, LenProperties DEF WriteInv, TypeOK, WrittenIsPrefix
    <3>2. Pending = rest
      BY <2>1 DEF WriteInv, RestWaits
    <3> HIDE DEF at
    <3>3. Len(rest) = pushed - at /\ \A i \in 1..pushed - at : rest[i] = Data[at + i]
      BY <3>1, Piece
    <3> HIDE DEF rest
    <3>4. QED  BY <3>1, <3>2, <3>3 DEF at
  <2>2. QED  BY <2>1 DEF WriteInv, Bookkeeping, Accounting
<1>2. QED  BY <1>1, WriteInvariant, PTL

\* A flush that returns true has written everything pushed (FlushWritesAll).
THEOREM FlushIsComplete == Spec => FlushWritesAll
<1> DEFINE Flushed == pc = "flushing" /\ pc' = "idle" /\ result' = "true"
                        => Len(sink') = pushed
<1>1. WriteInv /\ [Next]_vars => [Flushed]_vars
  <2> SUFFICES ASSUME WriteInv, Next, pc = "flushing", pc' = "idle", result' = "true"
               PROVE  Len(sink') = pushed
    OBVIOUS
  <2>1. FdComplete
    <3>1. ~FdUpdate /\ ~FdFails
      BY DEF FdUpdate, FdFails, Update
    <3>2. ~ClientPushes /\ ~ClientFlushes /\ ~ClientFrees
      BY DEF ClientPushes, Push, PushNothing, PushDirect, PushCached, PushInPlace,
             ClientFlushes, Flush, ClientFrees, Free
    <3>3. QED  BY <3>1, <3>2 DEF Next, Writes
  <2>2. sink' = sink /\ Pending = <<>> /\ ~is_error
    BY <2>1 DEF FdComplete, Pending, Busy, WriteInv, LoopsAreOrderly
  <2>3. Len(sink) + Len(Pending) = pushed
    <3>1. Len(sink) \in Nat /\ pushed \in Nat /\ pushed <= Len(Data) /\ Len(sink) <= pushed
      BY LenProperties DEF WriteInv, TypeOK, WrittenIsPrefix
    <3>2. Pending = SubSeq(Data, Len(sink) + 1, pushed)
      BY <2>2 DEF WriteInv, RestWaits
    <3>3. Len(Pending) = pushed - Len(sink)
      BY <3>1, <3>2, Piece, DataTyped
    <3>4. QED  BY <3>1, <3>3
  <2>4. QED  BY <2>2, <2>3, EmptySeq, LenProperties DEF WriteInv, TypeOK
<1>2. QED  BY <1>1, WriteInvariant, PTL DEF Spec, FlushWritesAll

-----------------------------------------------------------------------------
\* Every step of the chain is a step of a ByteWriter, or none.
LEMMA StepImplementsWriter ==
  WriteInv /\ [Next]_vars => [Writer!WriterNext]_(Writer!writerVars)
<1> SUFFICES ASSUME WriteInv, [Next]_vars
             PROVE  [Writer!WriterNext]_(Writer!writerVars)
  OBVIOUS
<1> USE DEF Writer!writerVars
<1>1. CASE ClientPushes
  <2>1. PICK n \in PushSizes :
          /\ pushed + n <= Len(Data) /\ pushed' = pushed + n /\ UNCHANGED sink
          /\ \/ Push(SubSeq(Data, pushed + 1, pushed + n))
             \/ PushInPlace(SubSeq(Data, pushed + 1, pushed + n))
    BY <1>1 DEF ClientPushes
  <2>2. /\ pc = "idle" /\ is_error' = is_error
        /\ pc' \in {"idle", "pushing", "flushing"}
    BY <2>1 DEF Push, PushNothing, PushDirect, PushCached, PushInPlace, Settle, Hand
  <2>3. n \in Nat /\ pushed \in Nat
    BY FdWriteAssumption DEF WriteInv, TypeOK
  <2>4. pushed' >= pushed /\ pushed' <= Len(Data)
    BY <2>1, <2>3
  <2>5. Writer!Accept
    BY <2>1, <2>2, <2>4 DEF Writer!Accept
  <2>6. QED  BY <2>5 DEF Writer!WriterNext
<1>2. CASE ClientFlushes
  <2>1. /\ pc = "idle" /\ pc' \in {"idle", "flushing"}
        /\ UNCHANGED <<pushed, sink, is_error>>
    BY <1>2 DEF ClientFlushes, Flush, Hand
  <2>2. QED  BY <2>1
<1>3. CASE ClientFrees
  <2>1. /\ pc = "idle" /\ UNCHANGED <<pushed, sink, is_error>>
        /\ IF is_error THEN pc' = "freed" ELSE pc' = "closing"
    BY <1>3 DEF ClientFrees, Free
  <2>2. is_error => Writer!Abandon
    BY <2>1 DEF Writer!Abandon, WriteInv, TypeOK, ChainTypeOK
  <2>3. QED  BY <2>1, <2>2 DEF Writer!WriterNext
<1>4. CASE Writes
  <2>1. Busy /\ ~is_error /\ UNCHANGED pushed /\ pc # "freed" /\ is_error \in BOOLEAN
    BY <1>4 DEF Writes, FdUpdate, FdComplete, FdFails, Update, WriteInv,
                LoopsAreOrderly, Busy, TypeOK, ChainTypeOK
  <2>2. CASE FdUpdate
    <3>1. PICK k \in 1..Len(input) :
            /\ sink' = sink \o SubSeq(input, 1, k)
            /\ Update(SubSeq(input, k + 1, Len(input)), "incomplete")
      BY <2>2 DEF FdUpdate
    <3>2. /\ Len(sink) + k <= pushed /\ sink' = SubSeq(Data, 1, Len(sink) + k)
          /\ k \in Nat /\ Len(sink) \in Nat /\ pushed \in Nat
      <4>1. /\ Len(input) \in Nat /\ Len(sink) \in Nat /\ pushed \in Nat
        BY LenProperties DEF WriteInv, TypeOK, ChainTypeOK
      <4>2. Len(sink) + k <= pushed /\ sink' = SubSeq(Data, 1, Len(sink) + k)
        BY <2>1, <2>2, <3>1, TakenIsNext
      <4>3. k \in Nat
        BY <4>1
      <4>4. QED  BY <4>1, <4>2, <4>3
    <3>3. Len(sink) + k \in Len(sink)..pushed
      BY <3>2
    <3>4. UNCHANGED <<pc, is_error>>
      BY <2>1, <3>1 DEF Update
    <3>5. Writer!Receive
      BY <2>1, <3>2, <3>3, <3>4 DEF Writer!Receive
    <3>6. QED  BY <3>5 DEF Writer!WriterNext
  <2>3. CASE FdComplete
    <3>1. /\ input = <<>> /\ sink' = sink /\ is_error' = is_error /\ pc' = Resting
      BY <2>1, <2>3 DEF FdComplete, Update
    <3>2. Len(sink) = pushed
      <4>1. Len(sink) \in Nat /\ pushed \in Nat /\ pushed <= Len(Data) /\ Len(sink) <= pushed
        BY LenProperties DEF WriteInv, TypeOK, WrittenIsPrefix
      <4>2. SubSeq(Data, Len(sink) + 1, pushed) = <<>>
        BY <2>1, <3>1 DEF WriteInv, RestWaits, Pending
      <4>3. pushed - Len(sink) = 0
        <5>1. Len(SubSeq(Data, Len(sink) + 1, pushed)) = pushed - Len(sink)
          BY <4>1, Piece, DataTyped
        <5>2. QED  BY <4>2, <5>1, EmptySeq
      <4>4. QED  BY <4>1, <4>3
    <3>3. CASE pc = "closing"
      <4>1. Writer!Finish
        BY <2>1, <3>1, <3>2, <3>3 DEF Writer!Finish, Resting
      <4>2. QED  BY <4>1 DEF Writer!WriterNext
    <3>4. CASE pc # "closing"
      BY <2>1, <3>1, <3>4 DEF Resting
    <3>5. QED  BY <3>3, <3>4
  <2>4. CASE FdFails
    <3>1. is_error' = TRUE /\ sink' = sink /\ pc' = Resting
      BY <2>4 DEF FdFails, Update
    <3>2. CASE pc = "closing"
      <4>1. Writer!Abandon
        BY <2>1, <3>1, <3>2 DEF Writer!Abandon, Resting
      <4>2. QED  BY <4>1 DEF Writer!WriterNext
    <3>3. CASE pc # "closing"
      <4>1. Writer!WriterFails
        BY <2>1, <3>1, <3>3 DEF Writer!WriterFails, Resting
      <4>2. QED  BY <4>1 DEF Writer!WriterNext
    <3>4. QED  BY <3>2, <3>3
  <2>5. QED  BY <1>4, <2>2, <2>3, <2>4 DEF Writes
<1>5. CASE UNCHANGED vars
  BY <1>5 DEF vars, chain
<1>6. QED  BY <1>1, <1>2, <1>3, <1>4, <1>5 DEF Next

\* A chain over a descriptor is a ByteWriter: the descriptor has received the
\* beginning of what was pushed, nothing after a failure, and everything when
\* the chain is freed without one (ImplementsWriter).
THEOREM RefinesByteWriter == Spec => ImplementsWriter
<1>1. Init => Writer!WriterInit
  BY DEF Init, ChainInit, Writer!WriterInit
<1>2. QED
  BY <1>1, StepImplementsWriter, WriteInvariant, PTL
     DEF Spec, ImplementsWriter, Writer!WriterSpec
=============================================================================
