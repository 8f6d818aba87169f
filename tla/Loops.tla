-------------------------------- MODULE Loops --------------------------------
(***************************************************************************)
(* A range loop over a sequence.  Loop(turn, start, seq) is what the       *)
(* FoldLeft of SequencesExt computes; it is stated over Folds here because *)
(* the modules SequencesExt brings along slow every proof down.            *)
(***************************************************************************)
EXTENDS Sequences, FiniteSetsExt

\* start, turned by each element of seq, the first one first.
Loop(turn(_, _), start, seq) ==
    MapThenFoldSet(LAMBDA x, soFar : turn(soFar, x), start,
                   LAMBDA k : seq[k], LAMBDA S : Max(S), DOMAIN seq)
=============================================================================
