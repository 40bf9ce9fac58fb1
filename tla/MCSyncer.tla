------------------------------ MODULE MCSyncer ------------------------------
(* Two participations with a destination each; the instances of Syncer.   *)
EXTENDS Syncer

CONSTANTS emitente, destinatario, saida, entrada

MCPart == {emitente, destinatario}
MCDest == {saida, entrada}
MCDestOf == [p \in MCPart |-> IF p = emitente THEN saida ELSE entrada]
=============================================================================
