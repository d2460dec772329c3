-------------------------- MODULE FdChainReadProofs --------------------------
(***************************************************************************)
(* Proofs about FdChainRead, for every stream, every client and every      *)
(* value of the sizes and bounds.                                          *)
(***************************************************************************)
EXTENDS FdChainRead, SequenceLemmas

\* The stream's bytes are bytes the cache can hold.
LEMMA SourceStored == Source \in Seq(Stored) /\ Len(Source) \in Nat
BY FdAssumption, SeqMonotonic, LenProperties DEF Stored

\* buffer_read always asks for at least one byte.
LEMMA FillPositive ==
  ASSUME TypeOK
  PROVE  FillSize \in Nat \ {0}
<1>1. Len(buffer) \in Nat /\ max \in Nat /\ (buffer # <<>> => Len(buffer) > 0)
  BY LenProperties, EmptySeq DEF TypeOK, ChainTypeOK
<1>2. QED  BY <1>1, FdAssumption DEF FillSize, HasRoom

\* The allocation covers what is about to be read and the final zero.
LEMMA AllocationSuffices ==
  ASSUME TypeOK
  PROVE  Allocated \in Nat /\ Allocated >= Len(buffer) + FillSize + 1
<1>1. Len(buffer) \in Nat /\ max \in Nat
  BY LenProperties DEF TypeOK, ChainTypeOK
<1>2. FillSize \in Nat \ {0}
  BY FillPositive
<1>3. CASE HasRoom
  BY <1>1, <1>3 DEF HasRoom, Allocated, FillSize
<1>4. CASE ~HasRoom
  <2> DEFINE n == Len(buffer) + FillSize + 1
  <2>1. n \in Nat
    BY <1>1, <1>2
  <2> HIDE DEF n
  <2>2. GrowFactor * n \in Nat /\ GrowFactor * n >= n
    BY <2>1, FdAssumption
  <2>3. AllocFor(n) \in Nat /\ AllocFor(n) >= n
    BY <1>1, <2>1, <2>2, FdAssumption DEF AllocFor
  <2>4. QED  BY <1>4, <2>3 DEF Allocated, n
<1>5. QED  BY <1>3, <1>4

\* chain_read_apply_release moves the front of the cache and the count of
\* released bytes by the same amount.
LEMMA ReleaseKeepsPlace ==
  ASSUME TypeOK
  PROVE  /\ Kept \in Seq(Stored) /\ StillReleased \in Nat
         /\ Len(Kept) \in Nat /\ Len(Kept) <= Len(buffer)
         /\ Len(Kept) - StillReleased = Len(buffer) - released
<1>1. buffer \in Seq(Stored) /\ Len(buffer) \in Nat /\ released \in Nat
  BY LenProperties DEF TypeOK, ChainTypeOK
<1>2. CASE Exhausted
  <2>1. Kept = <<>> /\ Len(<<>>) = 0 /\ <<>> \in Seq(Stored)
    BY <1>2, EmptySeq DEF Kept
  <2>2. StillReleased = released - Len(buffer) /\ released >= Len(buffer)
    BY <1>2 DEF StillReleased, Exhausted
  <2>3. QED  BY <1>1, <2>1, <2>2
<1>3. CASE ~Exhausted /\ WorthShifting
  <2>1. Kept = SubSeq(buffer, released + 1, Len(buffer)) /\ StillReleased = 0
    BY <1>3 DEF Kept, StillReleased
  <2>2. released < Len(buffer)
    BY <1>1, <1>3 DEF Exhausted
  <2>3. QED  BY <1>1, <2>1, <2>2, Piece
<1>4. CASE ~Exhausted /\ ~WorthShifting
  BY <1>1, <1>4 DEF Kept, StillReleased
<1>5. QED  BY <1>2, <1>3, <1>4

\* The cache it leaves is still the last bytes read.
LEMMA KeptIsStream ==
  ASSUME Inv, ~is_error
  PROVE  /\ Len(Kept) <= taken
         /\ Kept = SubSeq(Source, taken - Len(Kept) + 1, taken)
<1>1. /\ buffer \in Seq(Stored) /\ Len(buffer) \in Nat /\ released \in Nat
      /\ taken \in Nat /\ taken <= Len(Source) /\ Len(Source) \in Nat
  BY LenProperties, SourceStored DEF Inv, TypeOK, ChainTypeOK
<1>2. Len(buffer) <= taken /\ buffer = SubSeq(Source, taken - Len(buffer) + 1, taken)
  BY DEF Inv, CacheIsStream
<1>3. CASE Exhausted
  <2>1. Kept = <<>> /\ Len(<<>>) = 0
    BY <1>3, EmptySeq DEF Kept
  <2>2. SubSeq(Source, taken + 1, taken) = <<>>
    BY <1>1, SubSeqEmpty
  <2>3. QED  BY <1>1, <2>1, <2>2
<1>4. CASE ~Exhausted /\ WorthShifting
  <2> DEFINE lo == taken - Len(buffer)
  <2>1. Kept = SubSeq(buffer, released + 1, taken - lo) /\ released < Len(buffer)
    BY <1>1, <1>4 DEF Kept, Exhausted
  <2>2. lo \in Nat /\ lo + released <= taken /\ buffer = SubSeq(Source, lo + 1, taken)
    BY <1>1, <1>2, <2>1
  <2> HIDE DEF lo
  <2>3. Kept = SubSeq(Source, lo + released + 1, taken)
    BY <1>1, <2>1, <2>2, Suffix, SourceStored
  <2>4. Len(Kept) = taken - (lo + released)
    BY <1>1, <2>2, <2>3, Piece, SourceStored
  <2>5. QED  BY <1>1, <2>2, <2>3, <2>4
<1>5. CASE ~Exhausted /\ ~WorthShifting
  BY <1>2, <1>5 DEF Kept
<1>6. QED  BY <1>3, <1>4, <1>5

\* What a client is shown of a cache that stands at its place in the stream.
LEMMA WindowIsNext ==
  ASSUME NEW b \in Seq(Stored), NEW r \in Nat, NEW t \in Nat,
         t <= Len(Source), Len(b) <= t, b = SubSeq(Source, t - Len(b) + 1, t)
  PROVE  Window(b, r) = SubSeq(Source, (t - Len(b) + r) + 1, t)
<1> DEFINE place == t - Len(b) + r
<1>1. Len(b) \in Nat
  BY LenProperties
<1>2. CASE r <= Len(b)
  <2> DEFINE lo == t - Len(b)
  <2>1. lo \in Nat /\ lo + r <= t /\ Len(b) = t - lo /\ place = lo + r
    BY <1>1, <1>2
  <2>2. b = SubSeq(Source, lo + 1, t)
    OBVIOUS
  <2> HIDE DEF lo
  <2>3. SubSeq(SubSeq(Source, lo + 1, t), r + 1, t - lo)
          = SubSeq(Source, lo + r + 1, t)
    BY <2>1, Suffix, SourceStored
  <2>4. QED  BY <2>1, <2>2, <2>3 DEF Window
<1>3. CASE r > Len(b)
  <2>1. Window(b, r) = <<>>
    BY <1>1, <1>3, SubSeqEmpty DEF Window
  <2>2. SubSeq(Source, place + 1, t) = <<>>
    BY <1>1, <1>3, SubSeqEmpty
  <2>3. QED  BY <2>1, <2>2
<1>4. QED  BY <1>1, <1>2, <1>3

-----------------------------------------------------------------------------
\* Every step keeps the types.
LEMMA TypeInductive == TypeOK /\ [Next]_vars => TypeOK'
<1> SUFFICES ASSUME TypeOK, [Next]_vars PROVE TypeOK'
  OBVIOUS
<1>1. /\ buffer \in Seq(Stored) /\ contents \in Seq(Stored)
      /\ Len(buffer) \in Nat /\ released \in Nat
  BY LenProperties DEF TypeOK, ChainTypeOK
<1>2. ASSUME NEW b \in Seq(Stored), NEW r \in Nat
      PROVE  Window(b, r) \in Seq(Stored)
  BY Piece, LenProperties DEF Window
<1>3. ASSUME NEW target \in Targets, Pull(target), UNCHANGED <<max, taken, errors>>
      PROVE  TypeOK'
  <2>1. /\ Kept \in Seq(Stored) /\ StillReleased \in Nat /\ Len(Kept) \in Nat
        /\ Window(Kept, StillReleased) \in Seq(Stored) /\ target \in Nat
    BY <1>2, ReleaseKeepsPlace, FdAssumption
  <2>2. CASE PullEnded
    BY <1>3, <2>1, <2>2 DEF PullEnded, ApplyRelease, TypeOK, ChainTypeOK,
                            Results
  <2>3. CASE PullCached(target)
    BY <1>3, <2>1, <2>3 DEF PullCached, ApplyRelease, TypeOK, ChainTypeOK,
                            Results
  <2>4. CASE PullReads(target)
    <3>1. max_size' \in Nat
      BY <2>1, <2>4 DEF PullReads
    <3>2. QED
    BY <3>1, <1>3, <2>1, <2>4 DEF PullReads, ApplyRelease, TypeOK, ChainTypeOK,
                            Results
  <2>5. QED  BY <1>3, <2>2, <2>3, <2>4 DEF Pull
<1>4. CASE ClientReleases
  BY <1>4, FdAssumption DEF ClientReleases, Release, TypeOK, ChainTypeOK
<1>5. ASSUME NEW filled \in Seq(Stored),
             NEW status \in {"incomplete", "complete", "error"},
             Absorb(filled, status)
      PROVE  ChainTypeOK(Stored)'
  <2>1. Window(filled, released) \in Seq(Stored)
    BY <1>1, <1>2
  <2>2. QED  BY <1>5, <2>1 DEF Absorb, TypeOK, ChainTypeOK, Results
<1>6. CASE Fetch
  <2>1. PICK k \in ReadResults(FillSize) :
          /\ Absorb(buffer \o SubSeq(Source, taken + 1, taken + k),
                    IF k = 0 THEN "complete" ELSE "incomplete")
          /\ max' = Allocated /\ taken' = taken + k /\ UNCHANGED errors
    BY <1>6 DEF Fetch
  <2>2. k \in Nat /\ taken + k <= Len(Source) /\ taken \in Nat
    BY FillPositive, SourceStored DEF ReadResults, TypeOK
  <2>3. SubSeq(Source, taken + 1, taken + k) \in Seq(Stored)
    BY <2>2, SourceStored, Piece
  <2>4. buffer \o SubSeq(Source, taken + 1, taken + k) \in Seq(Stored)
    BY <1>1, <2>3, ConcatProperties
  <2>5. ChainTypeOK(Stored)'
    BY <1>5, <2>1, <2>4
  <2>6. QED
    BY <2>1, <2>2, <2>5, AllocationSuffices, SourceStored DEF TypeOK
<1>7. CASE FetchFails
  <2>1. Overextended \in Seq(Stored)
    <3> DEFINE m == IF HasRoom THEN 0 ELSE FillSize + 1
    <3>1. m \in Nat
      BY FillPositive
    <3> HIDE DEF m
    <3>2. [i \in 1..m |-> Garbage] \in Seq(Stored)
      BY <3>1 DEF Stored
    <3>3. QED  BY <1>1, <3>2, ConcatProperties DEF Overextended, m
  <2>2. ChainTypeOK(Stored)'
    BY <1>5, <1>7, <2>1 DEF FetchFails
  <2>3. QED
    BY <1>7, <2>2, AllocationSuffices, FdAssumption DEF FetchFails, TypeOK
<1>8. CASE AllocFails
  <2>1. ChainTypeOK(Stored)'
    BY <1>1, <1>5, <1>8 DEF AllocFails
  <2>2. QED  BY <1>8, <2>1, FdAssumption DEF AllocFails, TypeOK
<1>9. CASE UNCHANGED vars
  BY <1>9 DEF vars, chain, TypeOK, ChainTypeOK
<1>10. QED
  BY <1>3, <1>4, <1>6, <1>7, <1>8, <1>9 DEF Next, ClientPulls

\* The initial state has the types.
LEMMA InitTyped == Init => TypeOK
<1>1. <<>> \in Seq(Stored) /\ 0 \in 0..MaxErrors /\ 0 \in 0..Len(Source)
  BY FdAssumption, SourceStored, EmptySeq
<1>2. Init => ChainTypeOK(Stored)
  <2> SUFFICES ASSUME Init PROVE ChainTypeOK(Stored)
    OBVIOUS
  <2>1. buffer \in Seq(Stored) /\ contents \in Seq(Stored)
    BY <1>1 DEF Init, ChainInit
  <2>2. QED  BY <2>1 DEF Init, ChainInit, ChainTypeOK, Results
<1>3. QED  BY <1>1, <1>2 DEF Init, TypeOK

\* Every variable keeps the type its C declaration gives it.
THEOREM TypeCorrect == Spec => []TypeOK
<1>1. QED  BY InitTyped, TypeInductive, PTL DEF Spec

-----------------------------------------------------------------------------
\* What a fetch leaves in the cache is still the last bytes read, and it is the
\* end of the chain only at the end of the stream.
LEMMA FetchExtends ==
  ASSUME Inv, ~is_error, NEW k \in ReadResults(FillSize)
  PROVE  LET filled == buffer \o SubSeq(Source, taken + 1, taken + k)
         IN  /\ filled \in Seq(Stored) /\ Len(filled) = Len(buffer) + k
             /\ Len(filled) <= taken + k /\ taken + k <= Len(Source)
             /\ k \in Nat /\ k <= FillSize /\ Len(filled) \in Nat
             /\ filled = SubSeq(Source, taken + k - Len(filled) + 1, taken + k)
             /\ k = 0 => taken \in Ends
<1>1. /\ buffer \in Seq(Stored) /\ Len(buffer) \in Nat
      /\ taken \in Nat /\ taken <= Len(Source) /\ Len(Source) \in Nat
      /\ FillSize \in Nat \ {0}
  BY LenProperties, SourceStored, FillPositive DEF Inv, TypeOK, ChainTypeOK
<1>2. Len(buffer) <= taken /\ buffer = SubSeq(Source, taken - Len(buffer) + 1, taken)
  BY DEF Inv, CacheIsStream
<1>3. /\ k \in Nat /\ taken + k <= Len(Source) /\ k <= FillSize
      /\ k = 0 => taken \in Ends
  BY <1>1 DEF ReadResults
<1> DEFINE new == SubSeq(Source, taken + 1, taken + k)
           filled == buffer \o new
           lo == taken - Len(buffer)
<1>4. new \in Seq(Stored) /\ Len(new) = k
  BY <1>1, <1>3, Piece, SourceStored
<1>5. filled \in Seq(Stored) /\ Len(filled) = Len(buffer) + k
  BY <1>1, <1>4, ConcatProperties
<1> HIDE DEF filled
<1>6. lo \in Nat /\ lo <= taken /\ taken + k - Len(filled) = lo
  BY <1>1, <1>2, <1>3, <1>5
<1>7. SubSeq(Source, lo + 1, taken) \o new = SubSeq(Source, lo + 1, taken + k)
  <2> HIDE DEF lo
  <2>1. QED  BY <1>1, <1>3, <1>6, Adjacent, SourceStored
<1>8. filled = SubSeq(Source, taken + k - Len(filled) + 1, taken + k)
  BY <1>2, <1>6, <1>7 DEF filled
<1>9. Len(filled) <= taken + k
  BY <1>1, <1>2, <1>3, <1>5
<1>10. Len(filled) \in Nat /\ k <= FillSize
  BY <1>1, <1>3, <1>5
<1>11. QED  BY <1>3, <1>5, <1>8, <1>9, <1>10 DEF filled

\* Every step keeps the inductive invariant.
LEMMA Inductive == Inv /\ [Next]_vars => Inv'
<1> SUFFICES ASSUME Inv, [Next]_vars PROVE Inv'
  OBVIOUS
<1>1. TypeOK'
  BY TypeInductive DEF Inv
<1>2. /\ TypeOK /\ Len(buffer) \in Nat /\ released \in Nat /\ consumed \in Nat
      /\ taken \in Nat /\ max \in Nat
  BY LenProperties, SourceStored DEF Inv, TypeOK, ChainTypeOK
<1>3. ASSUME NEW target \in Targets, Pull(target), UNCHANGED <<max, taken, errors>>
      PROVE  Inv'
  <2>1. /\ buffer' = Kept /\ released' = StillReleased
        /\ UNCHANGED <<is_error, is_complete, consumed, taken, max>>
        /\ pc' = "reading" => ~is_complete'
    BY <1>3 DEF Pull, PullEnded, PullCached, PullReads, ApplyRelease, Inv
  <2>2. /\ Len(Kept) \in Nat /\ StillReleased \in Nat /\ Len(Kept) <= Len(buffer)
        /\ Len(Kept) - StillReleased = Len(buffer) - released
    BY <1>2, ReleaseKeepsPlace
  <2>3. Accounting'
    BY <1>2, <2>1, <2>2 DEF Inv, Accounting
  <2>4. CacheIsStream'
    BY <2>1, KeptIsStream DEF CacheIsStream
  <2>5. CompleteAtEnd' /\ WithinAllocation'
    BY <1>2, <2>1, <2>2 DEF Inv, CompleteAtEnd, WithinAllocation
  <2>6. QED  BY <1>1, <2>1, <2>3, <2>4, <2>5 DEF Inv
<1>4. CASE ClientReleases
  <2>1. PICK n \in Releases : Release(n) /\ UNCHANGED <<max, taken, errors>>
    BY <1>4 DEF ClientReleases
  <2>2. n \in Nat
    BY FdAssumption
  <2>3. Accounting'
    BY <1>2, <2>1, <2>2 DEF Inv, Accounting, Release
  <2>4. CacheIsStream' /\ CompleteAtEnd' /\ WithinAllocation'
    BY <2>1 DEF Release, Inv, CacheIsStream, CompleteAtEnd, WithinAllocation
  <2>5. QED  BY <1>1, <2>1, <2>3, <2>4 DEF Inv, Release
<1>5. CASE Fetch
  <2>1. PICK k \in ReadResults(FillSize) :
          /\ Absorb(buffer \o SubSeq(Source, taken + 1, taken + k),
                    IF k = 0 THEN "complete" ELSE "incomplete")
          /\ max' = Allocated /\ taken' = taken + k /\ UNCHANGED errors
    BY <1>5 DEF Fetch
  <2> DEFINE filled == buffer \o SubSeq(Source, taken + 1, taken + k)
             status == IF k = 0 THEN "complete" ELSE "incomplete"
  <2>2. /\ buffer' = filled /\ is_error' = is_error
        /\ is_complete' = (k = 0)
        /\ pc' = "reading" => k # 0
        /\ UNCHANGED <<released, consumed>>
    <3>1. Absorb(filled, status) /\ status # "error" /\ is_error \in BOOLEAN
          /\ (status = "complete" <=> k = 0) /\ (status = "incomplete" <=> k # 0)
      BY <1>2, <2>1 DEF TypeOK, ChainTypeOK
    <3> HIDE DEF filled, status
    <3>2. /\ buffer' = filled /\ UNCHANGED <<released, consumed>>
          /\ is_error' = (is_error \/ status = "error")
          /\ is_complete' = (status = "complete")
          /\ pc' = "reading" => status = "incomplete"
      BY <3>1 DEF Absorb
    <3>3. QED  BY <3>1, <3>2
  <2>3. k = 0 => taken \in Ends
    BY FillPositive, <1>2 DEF ReadResults
  <2>4. CompleteAtEnd' /\ (pc' = "reading" => ~is_complete')
    <3> HIDE DEF filled
    <3>1. k = 0 => taken' \in Ends
      BY <1>2, <2>1, <2>3
    <3>2. QED  BY <2>2, <3>1 DEF CompleteAtEnd
  <2>5. CASE is_error
    BY <1>1, <2>2, <2>4, <2>5 DEF Inv, Accounting, CacheIsStream, WithinAllocation
  <2>6. CASE ~is_error
    <3>1. /\ Len(filled) = Len(buffer) + k /\ Len(filled) <= taken + k
          /\ k \in Nat /\ k <= FillSize
          /\ filled = SubSeq(Source, taken + k - Len(filled) + 1, taken + k)
      BY <2>6, FetchExtends
    <3>2. FillSize \in Nat /\ Allocated \in Nat
          /\ Allocated >= Len(buffer) + FillSize + 1
      BY <1>2, FillPositive, AllocationSuffices
    <3> HIDE DEF filled
    <3>3. /\ taken' = taken + k /\ buffer' = filled /\ is_error' = is_error
          /\ released' = released /\ consumed' = consumed
      BY <2>1, <2>2
    <3>8. Len(buffer') = Len(filled)
      BY <3>3
    <3>9. Len(buffer') = Len(buffer) + k
      BY <3>1, <3>8
    <3>10. k \in Nat /\ Len(filled) \in Nat
      BY <1>2, <3>1
    <3>4. Accounting'
      <4>1. consumed = taken - Len(buffer) + released
        BY <2>6 DEF Inv, Accounting
      <4>2. consumed' = taken' - Len(buffer') + released'
        <5>1. taken' = taken + k /\ released' = released /\ consumed' = consumed
          BY <3>3
        <5>2. QED  BY <1>2, <3>9, <3>10, <4>1, <5>1
      <4>3. QED  BY <4>2 DEF Accounting
    <3>5. CacheIsStream'
      <4>1. taken' = taken + k /\ buffer' = filled
        BY <3>3
      <4>2. Len(filled) <= taken + k
        BY <3>1
      <4>3. filled = SubSeq(Source, taken + k - Len(filled) + 1, taken + k)
        BY <3>1
      <4>4. Len(buffer') <= taken'
        BY <3>8, <4>1, <4>2
      <4>5. buffer' = SubSeq(Source, taken' - Len(buffer') + 1, taken')
        <5>1. taken' - Len(buffer') + 1 = taken + k - Len(filled) + 1
          BY <1>2, <3>8, <3>10, <4>1
        <5>2. QED  BY <4>1, <4>3, <5>1
      <4>6. QED  BY <4>4, <4>5 DEF CacheIsStream
    <3>6. WithinAllocation'
      BY <1>2, <2>1, <3>1, <3>2, <3>3 DEF WithinAllocation
    <3>7. QED  BY <1>1, <2>4, <3>4, <3>5, <3>6 DEF Inv
  <2>7. QED  BY <2>5, <2>6
<1>6. ASSUME FetchFails \/ AllocFails
      PROVE  Inv'
  <2>1. /\ is_error' = TRUE /\ is_complete' = FALSE /\ pc' = "idle"
    BY <1>6 DEF FetchFails, AllocFails, Absorb
  <2>2. QED
    BY <1>1, <2>1 DEF Inv, Accounting, CacheIsStream, CompleteAtEnd, WithinAllocation
<1>7. CASE UNCHANGED vars
  BY <1>7 DEF vars, chain, Inv, TypeOK, ChainTypeOK, Accounting, CacheIsStream,
              CompleteAtEnd, WithinAllocation
<1>8. QED
  BY <1>3, <1>4, <1>5, <1>6, <1>7 DEF Next, ClientPulls

\* The inductive invariant holds of every reachable state.
THEOREM Invariant == Spec => []Inv
<1>1. Init => Inv
  <2> SUFFICES ASSUME Init PROVE Inv
    OBVIOUS
  <2>1. TypeOK
    BY InitTyped
  <2>2. Len(<<>>) = 0 /\ SubSeq(Source, 1, 0) = <<>>
    BY EmptySeq, SubSeqEmpty
  <2>3. CacheIsStream
    BY <2>2 DEF Init, ChainInit, CacheIsStream
  <2>4. Accounting
    <3>1. consumed = taken - Len(buffer) + released
      <4>1. Len(buffer) = 0
        BY <2>2, Zenon DEF Init, ChainInit
      <4>2. taken = 0 /\ released = 0 /\ consumed = 0
        BY DEF Init, ChainInit
      <4>3. QED  BY <4>1, <4>2
    <3>2. QED  BY <3>1 DEF Accounting
  <2>5. QED
    BY <2>1, <2>3, <2>4 DEF Init, ChainInit, Inv, CompleteAtEnd, WithinAllocation
<1>2. QED  BY <1>1, Inductive, PTL DEF Spec

\* chain_release and chain_read_apply_release keep the client's place in the
\* stream: no byte is lost or given twice (FdChainRead!Accounting).
THEOREM PlaceKept == Spec => []Accounting
<1>1. Inv => Accounting
  BY DEF Inv
<1>2. QED  BY <1>1, Invariant, PTL

\* The cache is always the last bytes read, in order.
THEOREM CacheSound == Spec => []CacheIsStream
<1>1. Inv => CacheIsStream
  BY DEF Inv
<1>2. QED  BY <1>1, Invariant, PTL

\* A chain completes only when its descriptor has delivered everything.
THEOREM NoEarlyEnd == Spec => []CompleteAtEnd
<1>1. Inv => CompleteAtEnd
  BY DEF Inv
<1>2. QED  BY <1>1, Invariant, PTL

\* All three at once: the chain keeps its place in the stream (FdChainRead!InPlace).
THEOREM PlaceIsKept == Spec => []InPlace
<1>1. Inv => InPlace
  BY DEF Inv, InPlace
<1>2. QED  BY <1>1, Invariant, PTL

-----------------------------------------------------------------------------
\* What the client is shown when the cache is shortened to Kept.
LEMMA KeptShowsNext ==
  ASSUME Inv, ~is_error
  PROVE  Window(Kept, StillReleased) = SubSeq(Source, consumed + 1, taken)
<1>1. /\ Kept \in Seq(Stored) /\ StillReleased \in Nat /\ Len(Kept) \in Nat
      /\ Len(Kept) - StillReleased = Len(buffer) - released
  BY ReleaseKeepsPlace DEF Inv
<1>2. /\ Len(buffer) \in Nat /\ released \in Nat /\ consumed \in Nat
      /\ taken \in Nat /\ taken <= Len(Source)
  BY LenProperties, SourceStored DEF Inv, TypeOK, ChainTypeOK
<1>3. consumed = taken - Len(buffer) + released
  BY DEF Inv, Accounting
<1>4. consumed = taken - Len(Kept) + StillReleased
  BY <1>1, <1>2, <1>3
<1>5. Len(Kept) <= taken /\ Kept = SubSeq(Source, taken - Len(Kept) + 1, taken)
  BY KeptIsStream
<1>6. QED  BY <1>1, <1>2, <1>4, <1>5, WindowIsNext

\* What the client is shown after a fetch.
LEMMA FetchShowsNext ==
  ASSUME Inv, ~is_error, NEW k \in ReadResults(FillSize)
  PROVE  Window(buffer \o SubSeq(Source, taken + 1, taken + k), released)
           = SubSeq(Source, consumed + 1, taken + k)
<1> DEFINE filled == buffer \o SubSeq(Source, taken + 1, taken + k)
<1>1. /\ filled \in Seq(Stored) /\ Len(filled) = Len(buffer) + k
      /\ Len(filled) <= taken + k /\ taken + k <= Len(Source)
      /\ k \in Nat /\ Len(filled) \in Nat
      /\ filled = SubSeq(Source, taken + k - Len(filled) + 1, taken + k)
  BY FetchExtends
<1> HIDE DEF filled
<1>2. /\ Len(buffer) \in Nat /\ released \in Nat /\ consumed \in Nat /\ taken \in Nat
  BY LenProperties, SourceStored DEF Inv, TypeOK, ChainTypeOK
<1>3. consumed = taken - Len(buffer) + released
  BY DEF Inv, Accounting
<1> DEFINE reached == taken + k
<1>4. /\ consumed = reached - Len(filled) + released
      /\ reached \in Nat /\ Len(filled) <= reached /\ reached <= Len(Source)
      /\ filled = SubSeq(Source, reached - Len(filled) + 1, reached)
  BY <1>1, <1>2, <1>3
<1> HIDE DEF reached
<1>5. Window(filled, released) = SubSeq(Source, consumed + 1, reached)
  BY <1>1, <1>2, <1>4, WindowIsNext
<1>6. QED  BY <1>5 DEF filled, reached

\* Every step of the chain is a step of a ByteReader, or none.
LEMMA StepImplementsReader ==
  Inv /\ [Next]_vars => [Reader!ReaderNext]_(Reader!readerVars)
<1> SUFFICES ASSUME Inv, [Next]_vars
             PROVE  [Reader!ReaderNext]_(Reader!readerVars)
  OBVIOUS
<1> USE DEF Reader!readerVars
<1>1. /\ taken \in Nat /\ taken <= Len(Source) /\ Len(Source) \in Nat
      /\ consumed \in Nat /\ is_complete \in BOOLEAN
      /\ pc = "reading" => ~is_complete
  BY SourceStored DEF Inv, TypeOK, ChainTypeOK
<1>2. ASSUME NEW target \in Targets, Pull(target), UNCHANGED <<max, taken, errors>>
      PROVE  [Reader!ReaderNext]_(Reader!readerVars)
  <2>1. CASE PullEnded
    <3>1. Reader!ReportEnd
      BY <1>2, <2>1 DEF PullEnded, Reader!ReportEnd
    <3>2. QED  BY <3>1 DEF Reader!ReaderNext
  <2>2. CASE PullCached(target)
    <3>1. ~is_error => contents' = SubSeq(Source, consumed + 1, taken')
      BY <1>2, <2>2, KeptShowsNext DEF PullCached
    <3>2. Reader!Arrive
      BY <1>1, <1>2 DEF Reader!Arrive
    <3>3. Reader!Show
      BY <1>1, <1>2, <2>2, <3>1, <3>2 DEF PullCached, Reader!Show
    <3>4. QED  BY <3>3 DEF Reader!ReaderNext
  <2>3. CASE PullReads(target)
    BY <1>2, <2>3 DEF PullReads
  <2>4. QED  BY <1>2, <2>1, <2>2, <2>3 DEF Pull
<1>3. CASE ClientReleases
  <2>1. PICK n \in Releases : Release(n) /\ UNCHANGED <<max, taken, errors>>
    BY <1>3 DEF ClientReleases
  <2>2. consumed' >= consumed
    BY <1>1, <2>1, FdAssumption DEF Release
  <2>3. Reader!Dispose
    BY <2>1, <2>2 DEF Release, Reader!Dispose
  <2>4. QED  BY <2>3 DEF Reader!ReaderNext
<1>4. CASE Fetch
  <2>1. PICK k \in ReadResults(FillSize) :
          /\ Absorb(buffer \o SubSeq(Source, taken + 1, taken + k),
                    IF k = 0 THEN "complete" ELSE "incomplete")
          /\ max' = Allocated /\ taken' = taken + k /\ UNCHANGED errors
    BY <1>4 DEF Fetch
  <2> DEFINE filled == buffer \o SubSeq(Source, taken + 1, taken + k)
             status == IF k = 0 THEN "complete" ELSE "incomplete"
  <2>2. FillSize \in Nat \ {0}
    BY FillPositive DEF Inv
  <2>3. k \in Nat /\ taken + k <= Len(Source) /\ (k = 0 => taken \in Ends)
    BY <1>1, <2>2 DEF ReadResults
  <2>4. Reader!Arrive
    BY <1>1, <2>1, <2>3 DEF Reader!Arrive
  <2>5. /\ status # "error" /\ (status = "complete" <=> k = 0)
        /\ status \in {"complete", "incomplete"}
    OBVIOUS
  <2>6. ~is_error => Window(filled, released) = SubSeq(Source, consumed + 1, taken')
    BY <2>1, FetchShowsNext
  <2>7. Absorb(filled, status)
    BY <2>1
  <2> HIDE DEF filled, status
  <2>8. /\ ~is_complete /\ is_complete \in BOOLEAN /\ is_error \in BOOLEAN
        /\ is_error' = (is_error \/ status = "error")
        /\ is_complete' = (status = "complete")
        /\ UNCHANGED consumed
    BY <1>1, <2>7 DEF Absorb, Inv, TypeOK, ChainTypeOK
  <2>9. is_error' = is_error
    BY <2>5, <2>8
  <2>10. is_complete' => taken' \in Ends
    BY <1>1, <2>1, <2>3, <2>5, <2>8
  <2>11. \/ result' = "data" /\ contents' = Window(filled, released)
         \/ UNCHANGED <<result, contents>> /\ status = "incomplete"
    BY <2>5, <2>7 DEF Absorb
  <2>12. CASE result' = "data" /\ contents' = Window(filled, released)
    <3>1. Reader!Show
      BY <2>4, <2>6, <2>8, <2>9, <2>10, <2>12 DEF Reader!Show
    <3>2. QED  BY <3>1 DEF Reader!ReaderNext
  <2>13. CASE UNCHANGED <<result, contents>> /\ status = "incomplete"
    <3>1. is_complete' = is_complete
      BY <2>8, <2>13
    <3>2. Reader!Prefetch
      BY <2>4, <2>8, <2>9, <2>13, <3>1 DEF Reader!Prefetch
    <3>3. QED  BY <3>2 DEF Reader!ReaderNext
  <2>14. QED  BY <2>11, <2>12, <2>13
<1>5. ASSUME FetchFails \/ AllocFails
      PROVE  [Reader!ReaderNext]_(Reader!readerVars)
  <2>1. /\ is_error' = TRUE /\ is_complete' = FALSE /\ result' = "failed"
        /\ ~is_complete /\ is_complete \in BOOLEAN
        /\ UNCHANGED <<consumed, taken, contents>>
    BY <1>1, <1>5 DEF FetchFails, AllocFails, Absorb
  <2>2. is_complete' = is_complete
    BY <2>1
  <2>3. Reader!Fail
    BY <2>1, <2>2 DEF Reader!Fail
  <2>4. QED  BY <2>3 DEF Reader!ReaderNext
<1>6. CASE UNCHANGED vars
  BY <1>6 DEF vars, chain
<1>7. QED
  BY <1>2, <1>3, <1>4, <1>5, <1>6 DEF Next, ClientPulls

\* A chain over a descriptor is a ByteReader of the descriptor's bytes: what
\* its client is shown is exactly what it has not disposed of, and the end is
\* reported only after everything was shown (ImplementsReader).
THEOREM RefinesByteReader == Spec => ImplementsReader
<1>1. Init => Reader!ReaderInit
  BY DEF Init, ChainInit, Reader!ReaderInit
<1>2. Inv /\ [Next]_vars => [Reader!ReaderNext]_(Reader!readerVars)
  BY StepImplementsReader
<1>3. QED
  BY <1>1, <1>2, Invariant, PTL DEF Spec, ImplementsReader, Reader!ReaderSpec
=============================================================================
