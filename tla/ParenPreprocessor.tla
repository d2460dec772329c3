------------------------- MODULE ParenPreprocessor -------------------------
(***************************************************************************)
(* paren_preprocessor (paren-parser/paren-preprocessor.c): a walk over a   *)
(* parsed tree that replaces (include file ...) by the files, takes        *)
(* (macro name (argument ...) body ...) out, and replaces an invocation by *)
(* the body.  What replaces an atom is walked over in its turn.            *)
(*                                                                         *)
(* The walk is in place.  A layer is one list on the way from the root to  *)
(* the place where the walk stands: what it has passed there, what is      *)
(* left, and the macros that were defined in it.  The innermost layer is   *)
(* the first.  A macro has one body, and an application writes its         *)
(* arguments into that body before it copies it.                           *)
(***************************************************************************)
EXTENDS Integers, SequencesExt

CONSTANTS
  Documents,    \* the trees paren_parse may give
  Files,        \* from names of files to their trees, <<>> for one that
                \* paren_parse gives NULL for: it has no atoms, or an error
  NoName        \* the name of an argument that has none

VARIABLES
  document,     \* what was parsed
  layers,
  expanded,     \* the tree, when the walk has ended
  walk          \* "on", "ended" or "failed"

walkVars == <<document, layers, expanded, walk>>

Text(w) == [text |-> w]
Atoms(as) == [atoms |-> as]
IsText(atom) == "text" \in DOMAIN atom
Layer(as) == [done |-> <<>>, rest |-> as, macros |-> <<>>]

WalkInit ==
  /\ document \in Documents
  /\ layers = <<Layer(document)>> /\ expanded = <<>> /\ walk = "on"

Walking == walk = "on" /\ layers[1].rest # <<>>
here == Head(layers[1].rest)
after == Tail(layers[1].rest)

\* A list that starts with this word is more than a list to the walk.
Leads(atom) == ~IsText(atom) /\ atom.atoms # <<>> /\ IsText(atom.atoms[1])
LeadingWord(atom) == atom.atoms[1].text

WalkFails == walk' = "failed" /\ UNCHANGED <<document, layers, expanded>>

\* Atoms take the place of the one the walk stands at.
Becomes(as, inLayers) ==
  /\ layers' = [inLayers EXCEPT ![1].rest = as \o after]
  /\ UNCHANGED <<document, expanded, walk>>

-----------------------------------------------------------------------------
(* process_include.                                                        *)

Includable(atom) ==
  \A i \in 2..Len(atom.atoms) :
    /\ IsText(atom.atoms[i])
    /\ atom.atoms[i].text \in DOMAIN Files /\ Files[atom.atoms[i].text] # <<>>

Included(atom) ==
  FlattenSeq([i \in 1..Len(atom.atoms) - 1 |-> Files[atom.atoms[i + 1].text]])

IsInclude(atom) == Leads(atom) /\ LeadingWord(atom) = "include"

Includes == Walking /\ IsInclude(here) /\ Includable(here) /\ Becomes(Included(here), layers)

IncludeFails == Walking /\ IsInclude(here) /\ ~Includable(here) /\ WalkFails

-----------------------------------------------------------------------------
(* read_macro, read_macro_arg_list and add_arg_list_matches.               *)

\* An argument is a name, or a list of a name and perhaps a default value, which
\* nothing ever looks at, or an empty list.
IsArgument(atom) ==
  ~IsText(atom) => /\ Len(atom.atoms) <= 2
                   /\ atom.atoms # <<>> => IsText(atom.atoms[1])
NameOfArgument(atom) ==
  IF IsText(atom) THEN atom.text
  ELSE IF atom.atoms = <<>> THEN NoName ELSE atom.atoms[1].text

IsMacro(atom) == Leads(atom) /\ LeadingWord(atom) = "macro"
IsDefinition(atom) ==
  /\ Len(atom.atoms) > 3
  /\ IsText(atom.atoms[2]) /\ ~IsText(atom.atoms[3])
  /\ \A i \in DOMAIN atom.atoms[3].atoms : IsArgument(atom.atoms[3].atoms[i])

Arguments(atom) ==
  [i \in DOMAIN atom.atoms[3].atoms |-> NameOfArgument(atom.atoms[3].atoms[i])]
Body(atom) == SubSeq(atom.atoms, 4, Len(atom.atoms))

\* The places of a name in a body, at any depth.
RECURSIVE Matches(_, _)
Matches(as, name) ==
  UNION {IF IsText(as[i]) THEN IF as[i].text = name THEN {<<i>>} ELSE {}
         ELSE {<<i>> \o place : place \in Matches(as[i].atoms, name)} : i \in DOMAIN as}

Macro(atom) ==
  [name |-> atom.atoms[2].text, body |-> Body(atom),
   matches |-> [i \in DOMAIN Arguments(atom) |-> Matches(Body(atom), Arguments(atom)[i])]]

\* Mutant: the newest macro of a layer is found last.
ReadsMacro_AtEnd ==
  /\ Walking /\ IsMacro(here) /\ IsDefinition(here)
  /\ Becomes(<<>>, [layers EXCEPT ![1].macros = Append(@, Macro(here))])

ReadsMacro ==
  /\ Walking /\ IsMacro(here) /\ IsDefinition(here)
  /\ Becomes(<<>>, [layers EXCEPT ![1].macros = <<Macro(here)>> \o @])

MacroFails == Walking /\ IsMacro(here) /\ ~IsDefinition(here) /\ WalkFails

-----------------------------------------------------------------------------
(* apply_macro.                                                            *)

\* Where the macros of this name are: the layer, and the place in it.
Named(name) ==
  UNION {{<<l, m>> : m \in {n \in DOMAIN layers[l].macros :
                              layers[l].macros[n].name = name}} : l \in DOMAIN layers}
Before(p, q) == p[1] < q[1] \/ (p[1] = q[1] /\ p[2] <= q[2])
Nearest(name) == CHOOSE p \in Named(name) : \A q \in Named(name) : Before(p, q)

IsCall(atom) ==
  Leads(atom) /\ LeadingWord(atom) \notin {"include", "macro"} /\ Named(LeadingWord(atom)) # {}
Applies(macro, atom) == Len(macro.matches) = Len(atom.atoms) - 1

\* What an application writes at a place: an argument that has the name of an
\* earlier one is written over it.
Written(macro, atom, place) ==
  atom.atoms[1 + (CHOOSE i \in DOMAIN macro.matches :
                    /\ place \in macro.matches[i]
                    /\ \A j \in DOMAIN macro.matches : place \in macro.matches[j] => j <= i)]

\* Mutant: an application leaves what an earlier one has written.
RECURSIVE Filled_Once(_, _, _, _)
Filled_Once(macro, atom, as, above) ==
  [i \in DOMAIN as |->
     LET place == Append(above, i)
     IN  IF IsText(as[i]) /\ place \in UNION Range(macro.matches)
         THEN Written(macro, atom, place)
         ELSE IF IsText(as[i]) THEN as[i]
         ELSE Atoms(Filled_Once(macro, atom, as[i].atoms, place))]

\* A body with the arguments written into it.
RECURSIVE Filled(_, _, _, _)
Filled(macro, atom, as, above) ==
  [i \in DOMAIN as |->
     LET place == Append(above, i)
     IN  IF place \in UNION Range(macro.matches) THEN Written(macro, atom, place)
         ELSE IF IsText(as[i]) THEN as[i]
         ELSE Atoms(Filled(macro, atom, as[i].atoms, place))]

AppliesMacro ==
  /\ Walking /\ IsCall(here)
  /\ LET p == Nearest(LeadingWord(here))
         macro == layers[p[1]].macros[p[2]]
         filled == Filled(macro, here, macro.body, <<>>)
     IN  /\ Applies(macro, here)
         /\ Becomes(filled, [layers EXCEPT ![p[1]].macros[p[2]].body = filled])

ApplicationFails ==
  /\ Walking /\ IsCall(here)
  /\ LET p == Nearest(LeadingWord(here)) IN ~Applies(layers[p[1]].macros[p[2]], here)
  /\ WalkFails

-----------------------------------------------------------------------------
(* The walk.                                                               *)

Peer ==
  /\ Walking /\ IsText(here)
  /\ layers' = [layers EXCEPT ![1].done = Append(@, here), ![1].rest = Tail(@)]
  /\ UNCHANGED <<document, expanded, walk>>

Child ==
  /\ Walking /\ ~IsText(here)
  /\ ~IsInclude(here) /\ ~IsMacro(here) /\ ~IsCall(here)
  /\ layers' = <<Layer(here.atoms)>> \o layers
  /\ UNCHANGED <<document, expanded, walk>>

\* Mutant: a layer leaves its macros to the one around it.
ParentPeer_KeepsMacros ==
  /\ walk = "on" /\ layers[1].rest = <<>>
  /\ IF Len(layers) = 1
     THEN layers' = <<>> /\ expanded' = layers[1].done /\ walk' = "ended"
     ELSE /\ layers' = [Tail(layers) EXCEPT
                          ![1].done = Append(@, Atoms(layers[1].done)), ![1].rest = Tail(@),
                          ![1].macros = layers[1].macros \o @]
          /\ UNCHANGED <<expanded, walk>>
  /\ UNCHANGED document

\* A list has been walked to its end: its macros are freed, and the walk goes on
\* after it.
ParentPeer ==
  /\ walk = "on" /\ layers[1].rest = <<>>
  /\ IF Len(layers) = 1
     THEN layers' = <<>> /\ expanded' = layers[1].done /\ walk' = "ended"
     ELSE /\ layers' = [Tail(layers) EXCEPT
                          ![1].done = Append(@, Atoms(layers[1].done)), ![1].rest = Tail(@)]
          /\ UNCHANGED <<expanded, walk>>
  /\ UNCHANGED document

WalkNext == \/ Peer \/ Child \/ ParentPeer
            \/ Includes \/ IncludeFails \/ ReadsMacro \/ MacroFails
            \/ AppliesMacro \/ ApplicationFails

WalkSpec == WalkInit /\ [][WalkNext]_walkVars

-----------------------------------------------------------------------------
\* A tree with names replaced by atoms: the last argument of a name counts.
RECURSIVE Substituted(_, _, _)
Substituted(as, names, values) ==
  [i \in DOMAIN as |->
     IF ~IsText(as[i]) THEN Atoms(Substituted(as[i].atoms, names, values))
     ELSE IF as[i].text \notin Range(names) THEN as[i]
     ELSE values[CHOOSE n \in DOMAIN names :
                   names[n] = as[i].text /\ \A k \in n + 1..Len(names) : names[k] # as[i].text]]

\* What atoms stand for where macros are known, the nearest first: <<atoms>>, or
\* <<>> when they stand for nothing.
RECURSIVE Meaning(_, _)
Meaning(as, macros) ==
  IF as = <<>> THEN << <<>> >> ELSE
  LET atom == Head(as)
      Then(first, rest, known) ==
        LET others == Meaning(rest, known)
        IN  IF others = <<>> THEN <<>> ELSE <<first \o others[1]>>
      same == {n \in DOMAIN macros : Leads(atom) /\ macros[n].atoms[2].text = LeadingWord(atom)}
      macro == macros[CHOOSE n \in same : \A k \in same : n <= k]
  IN  CASE IsText(atom) -> Then(<<atom>>, Tail(as), macros)
        [] IsInclude(atom) -> IF Includable(atom) THEN Meaning(Included(atom) \o Tail(as), macros)
                              ELSE <<>>
        [] IsMacro(atom) -> IF IsDefinition(atom) THEN Meaning(Tail(as), <<atom>> \o macros)
                            ELSE <<>>
        [] same # {} /\ ~IsInclude(atom) /\ ~IsMacro(atom) ->
             IF Len(Arguments(macro)) = Len(atom.atoms) - 1
             THEN Meaning(Substituted(Body(macro), Arguments(macro), Tail(atom.atoms)) \o Tail(as),
                          macros)
             ELSE <<>>
        [] OTHER -> LET inner == Meaning(atom.atoms, macros)
                    IN  IF inner = <<>> THEN <<>>
                        ELSE Then(<<Atoms(inner[1])>>, Tail(as), macros)

\* The walk ends in what the document means, macros known from their definition
\* to the end of the list it stands in, and fails when it means nothing: the
\* body of a macro that was applied before is as good as new.
ExpansionIsMeaning ==
  /\ walk = "ended" => Meaning(document, <<>>) = <<expanded>>
  /\ walk = "failed" => Meaning(document, <<>>) = <<>>
=============================================================================
