------------------------------ MODULE JsonText ------------------------------
(***************************************************************************)
(* json_parse and the getters (json/json.c).  A text is read by recursive  *)
(* descent, one character ahead; what follows its end is a NUL.  The words *)
(* true, false and null, and a number, are one character each here: two    *)
(* numbers in a row are two that a sign parts.                             *)
(***************************************************************************)
EXTENDS Integers, SequencesExt

CONSTANTS
  JsonTexts,    \* texts that may be parsed
  JsonKeys,     \* keys that may be asked for
  JsonValues    \* values whose texts, with any spacing, may be parsed

VARIABLES
  json,         \* the text
  written,      \* <<the value it was written for>>, or <<>>
  root,         \* <<the value json_parse gave>>, or <<>>
  asked,        \* the getter that was called, on the root, and how
  got,          \* what it gave
  phase         \* "text", "value", "got" or "refused"

jsonVars == <<json, written, root, asked, got, phase>>

Quote == "\""
Backslash == "\\"
Numbers == {"1", "2"}
Literals == {"true", "false", "null"}

Number(n) == [number |-> n]
String(s) == [string |-> s]
Literal(w) == [literal |-> w]
Array(vs) == [array |-> vs]
Object(pairs) == [object |-> pairs]
TypeOf(v) == IF "literal" \in DOMAIN v THEN v.literal ELSE CHOOSE t \in DOMAIN v : TRUE

-----------------------------------------------------------------------------
(* Reading.  A reading is of a value, or fails, and says where it ended.   *)

CharAt(i) == IF i <= Len(json) THEN json[i] ELSE "NUL"
Read(v, i) == [ok |-> TRUE, value |-> v, at |-> i]
Unread == [ok |-> FALSE]

RECURSIVE SkipWhitespace(_)
SkipWhitespace(i) == IF CharAt(i) = " " THEN SkipWhitespace(i + 1) ELSE i

\* _skip_string wants one more character in the text than the word has.
SkipString(i) == IF i < Len(json) THEN Read(Literal(CharAt(i)), i + 1) ELSE Unread

Escapes == (Quote :> Quote) @@ ("/" :> "/") @@ ("n" :> "newline")

\* _read_string, after its quote.  A backslash is looked for before an escape is,
\* so that two are one, and none is ever part of a string.
RECURSIVE ReadString(_, _, _)
ReadString(i, escape, read) ==
  IF i > Len(json) THEN Unread
  ELSE IF CharAt(i) = Backslash THEN ReadString(i + 1, TRUE, read)
  ELSE IF escape
  THEN IF CharAt(i) \in DOMAIN Escapes THEN ReadString(i + 1, FALSE, Append(read, Escapes[CharAt(i)]))
       ELSE Unread
  ELSE IF CharAt(i) = Quote THEN Read(read, i + 1)
  ELSE ReadString(i + 1, FALSE, Append(read, CharAt(i)))

\* Whether a comma follows, and where the next item starts.
Comma(i) == CharAt(SkipWhitespace(i)) = ","
AfterComma(i) == IF Comma(i) THEN SkipWhitespace(i) + 1 ELSE SkipWhitespace(i)

\* Mutant: a comma may hang before the bracket.
HangingComma_Allowed(passed) == FALSE

\* A comma may be missing, and may not be the last.
HangingComma(passed) == passed

RECURSIVE ReadValue(_), ReadArray(_, _, _), ReadObject(_, _, _)
ReadArray(from, values, passed_comma) ==
  LET i == SkipWhitespace(from)
      item == ReadValue(i)
  IN  IF CharAt(i) = "]"
      THEN IF HangingComma(passed_comma) THEN Unread ELSE Read(Array(values), i + 1)
      ELSE IF ~item.ok THEN Unread
      ELSE ReadArray(AfterComma(item.at), Append(values, item.value), Comma(item.at))

\* The pair of a key that is there already takes its place.
ReadObject(from, pairs, expect_pair) ==
  LET i == SkipWhitespace(from)
      key == ReadString(i + 1, FALSE, <<>>)
      colon == SkipWhitespace(key.at)
      item == ReadValue(colon + 1)
  IN  IF CharAt(i) = "}"
      THEN IF HangingComma(expect_pair) THEN Unread ELSE Read(Object(pairs), i + 1)
      ELSE IF CharAt(i) # Quote THEN Unread
      ELSE IF ~key.ok THEN Unread
      ELSE IF CharAt(colon) # ":" THEN Unread
      ELSE IF ~item.ok THEN Unread
      ELSE ReadObject(AfterComma(item.at), (key.value :> item.value) @@ pairs, Comma(item.at))

ReadValue(from) ==
  LET i == SkipWhitespace(from)
      string == ReadString(i + 1, FALSE, <<>>)
  IN  CASE CharAt(i) = Quote -> IF string.ok THEN Read(String(string.value), string.at) ELSE Unread
        [] CharAt(i) = "{" -> ReadObject(i + 1, <<>>, FALSE)
        [] CharAt(i) = "[" -> ReadArray(i + 1, <<>>, FALSE)
        [] CharAt(i) \in Numbers -> Read(Number(CharAt(i)), i + 1)
        [] CharAt(i) \in Literals -> SkipString(i)
        [] OTHER -> Unread

\* json_parse: what follows the value is not looked at.
JsonParse ==
  /\ phase = "text"
  /\ LET parsed == ReadValue(1)
     IN  IF parsed.ok THEN root' = <<parsed.value>> /\ phase' = "value"
         ELSE phase' = "refused" /\ UNCHANGED root
  /\ UNCHANGED <<json, written, asked, got>>

-----------------------------------------------------------------------------
(* The getters.                                                            *)

\* json_lookup in a map without a bucket divides by zero, and no getter looks
\* whether it found anything.
Lookup(pairs, key) == IF key \in DOMAIN pairs THEN <<pairs[key]>> ELSE <<>>

Gives(v) == [outcome |-> "value", value |-> <<v>>, success |-> TRUE]
Default == [outcome |-> "default", value |-> <<>>, success |-> TRUE]
Nothing(success) == [outcome |-> "nothing", value |-> <<>>, success |-> success]
Crash == [outcome |-> "crash", value |-> <<>>, success |-> TRUE]

\* What a getter of a type gives: a default stands in for null only, an object
\* and an array have none, and their getters have no success to lower.
Getter(found, type, optional) ==
  IF found = <<>> THEN Crash
  ELSE IF TypeOf(found[1]) = "null" /\ optional /\ type \in {"number", "string"} THEN Default
  ELSE IF TypeOf(found[1]) = type THEN Gives(found[1])
  ELSE Nothing(type \in {"array", "object"})

Get ==
  /\ phase = "value" /\ TypeOf(root[1]) = "object"
  /\ \E key \in JsonKeys, type \in {"number", "string", "array", "object"}, optional \in BOOLEAN :
       /\ asked' = <<key, type, optional>>
       /\ got' = Getter(Lookup(root[1].object, key), type, optional)
  /\ phase' = "got"
  /\ UNCHANGED <<json, written, root>>

JsonNext == JsonParse \/ Get

-----------------------------------------------------------------------------
(* Writing, which the code does not do.                                    *)

\* The text of a value, with spaces, with duplicates that come to nothing, or
\* without commas.
RECURSIVE TextOf(_, _)
TextOf(v, style) ==
  LET Space == IF style = "spaces" THEN <<" ">> ELSE <<>>
      Sep == IF style = "bare" THEN <<" ">> ELSE Space \o <<",">> \o Space
      Joined(texts) == FlattenSeq([i \in DOMAIN texts |->
                         IF i = 1 THEN texts[i] ELSE Sep \o texts[i]])
      Quoted(s) == <<Quote>> \o FlattenSeq([i \in DOMAIN s |->
                     IF s[i] = Quote THEN <<Backslash, Quote>>
                     ELSE IF s[i] = "newline" THEN <<Backslash, "n">> ELSE <<s[i]>>]) \o <<Quote>>
      Pair(k, of) == Quoted(k) \o Space \o <<":">> \o Space \o TextOf(of, style)
      type == TypeOf(v)
  IN  CASE type \in Literals -> <<type>>
        [] type = "number" -> <<v.number>>
        [] type = "string" -> Quoted(v.string)
        [] type = "array" ->
             <<"[">> \o Space \o Joined([i \in DOMAIN v.array |-> TextOf(v.array[i], style)])
                     \o Space \o <<"]">>
        [] type = "object" ->
             LET keys == SetToSeq(DOMAIN v.object)
                 pairs == [i \in DOMAIN keys |-> Pair(keys[i], v.object[keys[i]])]
                 first == IF style = "twice" /\ keys # <<>> THEN <<Pair(keys[1], Number("2"))>>
                          ELSE <<>>
             IN  <<"{">> \o Space \o Joined(first \o pairs) \o Space \o <<"}">>

Styles == {"plain", "spaces", "bare", "twice"}

JsonInit ==
  /\ \/ written = <<>> /\ json \in JsonTexts
     \/ \E v \in JsonValues, style \in Styles :
          written = <<v>> /\ json = TextOf(v, style) \o <<" ">>
  /\ root = <<>> /\ asked = <<>> /\ got = <<>> /\ phase = "text"

JsonSpec == JsonInit /\ [][JsonNext]_jsonVars

\* The language of the reader: JSON, where a comma may be missing, in texts of
\* up to n characters.
RECURSIVE Language(_), Items(_), Pairs(_)
Language(n) ==
  IF n <= 0 THEN {}
  ELSE {<<x>> : x \in Numbers} \cup {<<Quote, Quote>>}
       \cup {<<"[">> \o members \o <<"]">> : members \in Items(n - 2)}
       \cup {<<"{">> \o pairs \o <<"}">> : pairs \in Pairs(n - 2)}
Lists(firsts, Others(_)) ==
  {<<>>} \cup firsts
  \cup UNION {{first \o sep \o others : sep \in {<<>>, <<",">>}, others \in Others(first) \ {<<>>}}
              : first \in firsts}
Items(n) == LET Rest(first) == Items(n - Len(first))
            IN  IF n <= 0 THEN {<<>>} ELSE Lists(Language(n), Rest)
Pairs(n) ==
  LET Rest(first) == Pairs(n - Len(first))
  IN  IF n <= 0 THEN {<<>>}
      ELSE Lists({<<Quote, Quote, ":">> \o v : v \in Language(n - 3)}, Rest)
LanguageOf == Language(8)

\* A value comes out of each of its texts, and a text without spaces or words is
\* read exactly when it starts with one of the language.  A getter then gives
\* what stands in the text under the key, if it has the type asked for, and its
\* default for a null only: a value of another type never passes for a missing one.
JsonIsRead ==
  /\ phase = "refused" =>
       written = <<>> /\ \A n \in DOMAIN json : SubSeq(json, 1, n) \notin LanguageOf
  /\ root # <<>> => IF written # <<>> THEN root = written
                    ELSE \E n \in DOMAIN json : SubSeq(json, 1, n) \in LanguageOf
  /\ phase = "got" /\ got.outcome # "crash" =>
       LET value == root[1].object[asked[1]]
       IN  CASE got.outcome = "value" -> got.value = <<value>> /\ TypeOf(value) = asked[2]
             [] got.outcome = "default" -> TypeOf(value) = "null" /\ asked[3]
             [] OTHER -> TypeOf(value) # asked[2]
=============================================================================
