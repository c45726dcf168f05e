------------------------------- MODULE Places -------------------------------
(***************************************************************************)
(* Sequences as the loops of the code build them: by appending what passes *)
(* a test, by appending one list after another, and by ranging over a map. *)
(* FlattenSeq and SetToSeq are the operators of SequencesExt; the modules  *)
(* the proofs extend are kept free of the rest of that module, which would *)
(* be part of every proof obligation.                                      *)
(***************************************************************************)
EXTENDS Naturals, Sequences, FiniteSets, Functions

\* The elements of s at the places of at, in their order.
Kept(s, at) ==
    [k \in 1..Cardinality(at) |-> s[CHOOSE i \in at : Cardinality({j \in at : j <= i}) = k]]

\* The sequences of a sequence, one after another.
FlattenSeq(seqs) ==
    LET upTo[i \in 1..Len(seqs)] == IF i = 1 THEN seqs[i] ELSE upTo[i - 1] \o seqs[i]
    IN  IF Len(seqs) = 0 THEN <<>> ELSE upTo[Len(seqs)]

\* The elements of a set in an arbitrary order.
SetToSeq(S) == CHOOSE s \in [1..Cardinality(S) -> S] : IsInjective(s)
=============================================================================
