------------------------------ MODULE MCRecall ------------------------------
(* Two threads; one changes the text, the other the context. *)
EXTENDS ScoredRecall

CONSTANTS t1, t2, q1, q2, c1, c2

MCQueries == [t \in {t1, t2} |->
    IF t = t1 THEN {<<q1, c1>>, <<q2, c1>>} ELSE {<<q1, c1>>, <<q1, c2>>}]
=============================================================================
