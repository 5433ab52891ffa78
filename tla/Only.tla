-------------------------------- MODULE Only --------------------------------
(* Which members of a sequence are in a set, in their order: SelectSeq of the *)
(* standard modules as a fold, whose definition a proof can use.              *)
EXTENDS SequencesExt

Only(s, set) ==
    LET add(kept, e) == IF e \in set THEN Append(kept, e) ELSE kept
    IN  FoldLeft(add, <<>>, s)
=============================================================================
