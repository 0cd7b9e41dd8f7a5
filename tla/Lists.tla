-------------------------------- MODULE Lists --------------------------------
(* What the services do to lists: a comprehension with a condition, the      *)
(* first of equal members, a slice. Folds and functions, so that they can be *)
(* reasoned about.                                                           *)
EXTENDS SequencesExt

\* [x for x in list if x in S]
Those(list, S) == FoldLeft(LAMBDA kept, x : IF x \in S THEN Append(kept, x) ELSE kept, <<>>, list)
\* list(dict.fromkeys(list))
OnceEach(list) == FoldLeft(LAMBDA kept, x : IF Contains(kept, x) THEN kept ELSE Append(kept, x), <<>>, list)
\* list[:n]
AtMost(n, list) == SubSeq(list, 1, IF Len(list) < n THEN Len(list) ELSE n)
=============================================================================
