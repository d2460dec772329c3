------------------------------ MODULE Metahash ------------------------------
(***************************************************************************)
(* Digests that say what they are (metahash/metahash.c): a version, the    *)
(* number of the hash, and the digest; and bytes as text                   *)
(* (metabase/metabase.c, base16/base16.c, base2/base2.c): the first        *)
(* character names the base.  A text is a sequence of characters, a byte a *)
(* number below 256.  Decoding gives <<bytes>>, or <<>> when it fails.     *)
(***************************************************************************)
EXTENDS Vluint, SequencesExt

\* metahash_id: SHA1, SHA2, SHA3, SHAKE, KECCAK, MURMUR3 and MD5.
Version == 0
Identity == 0
Sha1 == 17
Sha2_256 == 18
Sha2_512 == 19
Md5 == 36
Ids == 17..28 \cup 34..36

\* is_metahash_id.
IsId(id) == id \in Ids

\* metahash_size.
SizeOfDigest(id) ==
  CASE id \in {19, 20} -> 64
    [] id \in {18, 22, 25, 27} -> 32
    [] id \in {21, 28} -> 48
    [] id \in {23, 26} -> 28
    [] id = 17 -> 20
    [] id \in {24, 34, 36} -> 16
    [] id = 35 -> 4
    [] OTHER -> 0

\* metahash_name.
NameOf(id) ==
  CASE id = 17 -> "sha1" [] id = 18 -> "sha2-256" [] id = 19 -> "sha2-512"
    [] id = 20 -> "sha3-512" [] id = 21 -> "sha3-384" [] id = 22 -> "sha3-256"
    [] id = 23 -> "sha3-224" [] id = 24 -> "shake-128" [] id = 25 -> "shake-256"
    [] id = 26 -> "keccak-224" [] id = 27 -> "keccak-256" [] id = 28 -> "keccak-384"
    [] id = 34 -> "murmur3-128" [] id = 35 -> "murmur3-32" [] id = 36 -> "md5-128"
    [] OTHER -> "invalid"

\* convert_metahash_id_to_gcry_id: the hashes there is code for.
Implemented(id) == id \in 17..23 \cup {Md5}

\* metahash_identify_name and metahash_identify_list: <<ids>>, or <<>> when a
\* name is not known.
IdNamed(name) ==
  CASE name = "sha256" -> Sha2_256 [] name = "sha512" -> Sha2_512 [] name = "md5" -> Md5
    [] OTHER -> Identity
IdentifyList(names) ==
  IF \E n \in DOMAIN names : IdNamed(names[n]) = Identity THEN <<>>
  ELSE << [n \in DOMAIN names |-> IdNamed(names[n])] >>

HeaderWrite(id) == VluintWrite(Version) \o VluintWrite(id)

NoHeader == [ok |-> FALSE]
HeaderRead(bytes) ==
  LET version == VluintRead(bytes)
      id == VluintRead(version.rest)
  IN  IF ~version.ok THEN NoHeader
      ELSE IF ~id.ok \/ ~IsId(id.result) THEN NoHeader
      ELSE [ok |-> TRUE, version |-> version.result, id |-> id.result, rest |-> id.rest]

\* Mutant: what follows the digest may be longer than what is there.
Unwrap_Unchecked(bytes) ==
  LET header == HeaderRead(bytes)
      size == SizeOfDigest(header.id)
      end == IF size <= Len(header.rest) THEN size ELSE Len(header.rest)
  IN  IF ~header.ok THEN NoHeader
      ELSE [ok |-> TRUE, id |-> header.id, digest |-> SubSeq(header.rest, 1, end),
            rest |-> SubSeq(header.rest, end + 1, Len(header.rest))]

\* metahash_unwrap: the digest, and what follows it.
Unwrap(bytes) ==
  LET header == HeaderRead(bytes)
      size == SizeOfDigest(header.id)
  IN  IF ~header.ok THEN NoHeader
      ELSE IF size > Len(header.rest) THEN NoHeader
      ELSE [ok |-> TRUE, id |-> header.id, digest |-> SubSeq(header.rest, 1, size),
            rest |-> SubSeq(header.rest, size + 1, Len(header.rest))]

-----------------------------------------------------------------------------
\* metabase.

Digits == <<"0", "1", "2", "3", "4", "5", "6", "7", "8", "9", "a", "b", "c", "d", "e", "f">>
UpperDigits == SubSeq(Digits, 1, 10) \o <<"A", "B", "C", "D", "E", "F">>

IsDigit(c) == c \in Range(Digits) \cup Range(UpperDigits)
Value(c) == (CHOOSE i \in 1..16 : c \in {Digits[i], UpperDigits[i]}) - 1

\* Mutant: the low digit first, as in the little endian form.
Base16Encode_Little(bytes) ==
  FlattenSeq([i \in DOMAIN bytes |-> <<Digits[(bytes[i] % 16) + 1], Digits[(bytes[i] \div 16) + 1]>>])

Base16Encode(bytes) ==
  FlattenSeq([i \in DOMAIN bytes |-> <<Digits[(bytes[i] \div 16) + 1], Digits[(bytes[i] % 16) + 1]>>])

\* A digit that is missing at the end is 0.
Base16Decode(text) ==
  IF \E i \in DOMAIN text : ~IsDigit(text[i]) THEN <<>>
  ELSE << [i \in 1..((Len(text) + 1) \div 2) |->
             16 * Value(text[2 * i - 1])
             + (IF 2 * i > Len(text) THEN 0 ELSE Value(text[2 * i]))] >>

\* The low bit first.
Bit(byte, n) == (byte \div (2 ^ n)) % 2
Base2Encode(bytes) ==
  [k \in 1..8 * Len(bytes) |->
     IF Bit(bytes[((k - 1) \div 8) + 1], (k - 1) % 8) = 1 THEN "1" ELSE "0"]

\* Mutant: the first bit of a text is the high one.
Base2Decode_HighFirst(text) ==
  IF text = <<>> \/ (Len(text) % 8) # 0 \/ \E i \in DOMAIN text : text[i] \notin {"0", "1"} THEN <<>>
  ELSE << [i \in 1..(Len(text) \div 8) |->
             FoldSet(LAMBDA n, sum : sum + (IF text[8 * i - n] = "1" THEN 2 ^ n ELSE 0),
                     0, 0..7)] >>

\* No bytes at all fail an assertion.
Base2Decode(text) ==
  IF text = <<>> \/ (Len(text) % 8) # 0 \/ \E i \in DOMAIN text : text[i] \notin {"0", "1"} THEN <<>>
  ELSE << [i \in 1..(Len(text) \div 8) |->
             FoldSet(LAMBDA n, sum : sum + (IF text[8 * (i - 1) + n + 1] = "1" THEN 2 ^ n ELSE 0),
                     0, 0..7)] >>

\* What a decoder has stored when it fails: what comes before the first pair of
\* digits, or byte of bits, that it does not know.
Base16Stored(text) ==
  LET bad == {i \in DOMAIN text : ~IsDigit(text[i])}
      first == CHOOSE i \in bad : \A j \in bad : i <= j
  IN  IF bad = {} THEN Base16Decode(text)[1]
      ELSE Base16Decode(SubSeq(text, 1, 2 * ((first - 1) \div 2)))[1]

\* metabase_id, of the bases that have an encoder.
Base16 == "f"
Base2 == "0"
NoBase == "identity"

\* metabase_identify_name, and metabase_select_encoder, which has none for any
\* other base.
IdentifyBase(name) == CASE name = "base16" -> Base16 [] name = "base2" -> Base2 [] OTHER -> NoBase
HasEncoder(base) == base \in {Base16, Base2}

Encode(base, bytes) ==
  <<base>> \o (IF base = Base16 THEN Base16Encode(bytes) ELSE Base2Encode(bytes))

\* metabase_decode: the other bases are known by name only.
Decode(text) ==
  IF text = <<>> THEN <<>>
  ELSE CASE text[1] = Base16 -> Base16Decode(Tail(text))
         [] text[1] = Base2 -> Base2Decode(Tail(text))
         [] OTHER -> <<>>

\* The buffer metabase_decode leaves, in base 16, whether it fails or not; in
\* base 2 a text of other characters leaves no whole digest here.
Stored(text) ==
  IF text # <<>> /\ text[1] = Base16 THEN Base16Stored(Tail(text))
  ELSE IF Decode(text) = <<>> THEN <<>> ELSE Decode(text)[1]
=============================================================================
