---------------------------- MODULE SyncContract ----------------------------
(***************************************************************************)
(* What the shadow-sync promises about one nota, whatever programs and     *)
(* steps carry it out: an XML leaves ASINCRONIZAR only when every          *)
(* participation has its copy and its row; a row is registered only for a  *)
(* copy in place, and withdrawn only while not imported; a copy is         *)
(* withdrawn only when the XML is back in ASINCRONIZAR.                    *)
(***************************************************************************)
CONSTANTS Part, Origem

VARIABLES
  fonte,       \* arrival paths that hold the whole XML
  entregue,    \* participations whose destination holds the whole XML
  registrada,  \* participations with a row
  importada    \* participations with an imported row

vars == <<fonte, entregue, registrada, importada>>

Init ==
  /\ fonte \subseteq Origem
  /\ entregue \subseteq Part
  /\ registrada = {} /\ importada = {}

Chegar(o) ==
  /\ fonte' = fonte \cup {o}
  /\ UNCHANGED <<entregue, registrada, importada>>

\* A copy needs an origin.  Participations may share a destination.
Entregar(P) ==
  /\ fonte # {}
  /\ entregue' = entregue \cup P
  /\ UNCHANGED <<fonte, registrada, importada>>

Registrar(p) ==
  /\ p \in entregue
  /\ registrada' = registrada \cup {p}
  /\ UNCHANGED <<fonte, entregue, importada>>

Importar(p) ==
  /\ p \in entregue \cap registrada
  /\ importada' = importada \cup {p}
  /\ UNCHANGED <<fonte, entregue, registrada>>

Concluir(o) ==
  /\ entregue = Part /\ registrada = Part
  /\ fonte' = fonte \ {o}
  /\ UNCHANGED <<entregue, registrada, importada>>

\* Undoing: the rows, then the origin, then the copies.
Estornar(P) ==
  /\ P \cap importada = {}
  /\ registrada' = registrada \ P
  /\ UNCHANGED <<fonte, entregue, importada>>

Devolver(o) ==
  /\ entregue # {}
  /\ fonte' = fonte \cup {o}
  /\ UNCHANGED <<entregue, registrada, importada>>

Recolher(P) ==
  /\ fonte # {}
  /\ entregue' = entregue \ P
  /\ UNCHANGED <<fonte, registrada, importada>>

Next ==
  \/ \E o \in Origem : Chegar(o) \/ Concluir(o) \/ Devolver(o)
  \/ \E p \in Part : Registrar(p) \/ Importar(p)
  \/ \E P \in SUBSET Part : Entregar(P) \/ Estornar(P) \/ Recolher(P)

Spec == Init /\ [][Next]_vars
=============================================================================
