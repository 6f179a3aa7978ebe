---------------------------- MODULE MCDedupSessions ----------------------------
(***************************************************************************)
(* Model values for DedupSessions.                                         *)
(***************************************************************************)
EXTENDS DedupSessions, TLC

\* Two spellings of one business.
MCAttr == {"cafe", "cafeCo"}
MCName == {"cafe", "cafeCo", "none"}
MCNameOf == [a \in MCAttr |-> a]
MCLocated == MCAttr \X MCAttr
MCScore == [p \in MCAttr \X MCAttr |-> IF p[1] = p[2] THEN 100 ELSE 80]

\* The steps and the properties treat documents alike.
Symmetry == Permutations(Doc)

===============================================================================
