----------------------------- MODULE MCEventDedup -----------------------------
(***************************************************************************)
(* Model values for EventDedup.                                            *)
(***************************************************************************)
EXTENDS EventDedup

\* Two spellings of one business, and a name that normalizes to nothing.
MCAttr == {"cafe", "cafeCo", "blank"}
MCName == {"cafe", "cafeCo", "none"}
MCNameOf == [a \in MCAttr |-> IF a = "blank" THEN "none" ELSE a]
MCBlank == {"blank"}
\* "cafe" was extracted without a city: it matches everywhere, and nothing
\* with a city matches it (is_location_match is not symmetric).
MCLocated == {p \in MCAttr \X MCAttr : p[1] = "cafe" \/ p[2] # "cafe"}
MCScore == [p \in MCAttr \X MCAttr |->
              IF p[1] = p[2] THEN 100
              ELSE IF {p[1], p[2]} = {"cafe", "cafeCo"} THEN 80 ELSE 30]
===============================================================================
