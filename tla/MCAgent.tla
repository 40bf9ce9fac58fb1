------------------------------ MODULE MCAgent -------------------------------
(* Two arrivals and their places in one partition.                         *)
EXTENDS Agent

CONSTANTS a1, s1, a2, s2, entrada, p202606

DuasChegada == {a1, a2}
DuasSinc == {s1, s2}
DuasSincDe == [p \in {a1, a2} |-> IF p = a1 THEN s1 ELSE s2]
DuasParticao ==
  [p \in {a1, a2, s1, s2} |-> IF p \in {a1, a2} THEN entrada ELSE p202606]
DuasNota == {a1, a2, s1, s2}
=============================================================================
