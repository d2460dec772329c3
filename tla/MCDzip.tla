------------------------------- MODULE MCDzip -------------------------------
(* Two parts, of which Init chooses the one a behaviour is of, while the     *)
(* other stands still: the program, which deflates or inflates, and a chain  *)
(* that converts what is pushed to it.                                       *)
EXTENDS DzipUtil, DzipOutput

VARIABLE part

MCPlain == [i \in 1..2 |-> Byte(i)]

\* Three chunks.
MCStream ==
  Chunk(<<Byte(1), Byte(2)>>) \o Chunk(<<Byte(3)>>) \o Chunk(<<Byte(4), Byte(5)>>)

\* Three chunks and one that does not inflate: what dzip -d is given, and what dzip is
\* given to deflate.
MCInput == MCStream \o <<Header(3, "broken"), Byte(6), Byte(7)>>
MCEnds == 0..Len(MCInput)

ASSUME MCDzipAssumption == DzipConstants

\* What is pushed to a chain that inflates makes sense.
ASSUME MCStreamAssumption == InflateRange(MCStream).ok

\* What is pushed to a chain that deflates, and to one that inflates.
MCClientInput == IF Deflating THEN MCPlain ELSE MCStream

MCvars == <<part, vars, outputVars>>

MCInit == part \in {"program", "output"} /\ Init /\ OutputInit

ProgramSteps == part = "program" /\ Next /\ UNCHANGED <<part, outputVars>>
OutputSteps == part = "output" /\ OutputNext /\ UNCHANGED <<part, vars>>

MCSpec == MCInit /\ [][ProgramSteps \/ OutputSteps]_MCvars /\ WF_MCvars(ProgramSteps)

\* The second alone.
MCOutputSpec == part = "output" /\ MCInit /\ [][OutputSteps]_MCvars

-----------------------------------------------------------------------------
\* The program ends in both of its directions.
ProgramEnds == part = "program" => Terminates
=============================================================================
