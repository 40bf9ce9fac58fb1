----------------------------- MODULE MCTimeline -----------------------------
(* One company that always comes with its branch and one that Athenas      *)
(* shows with and without it.                                              *)
EXTENDS Timeline

CONSTANTS clw, rosemberg, matriz

MCEmpresa == {clw, rosemberg}
MCFilial == {matriz}
MCSinais ==
  {o \in Observation :
     /\ o.emp = clw => o.fil = matriz
     /\ o.emp = rosemberg /\ o.fil = matriz => o.event = "sync_moved"}
=============================================================================
