SPECIFICATION FairSpec
CONSTANTS
  emitente = emitente
  destinatario = destinatario
  saida = saida
  entrada = entrada
  None = None
  Part <- MCPart
  Dest <- MCDest
  DestOf <- MCDestOf
  Origem = {o1}
  Actors = {"horse", "dxml"}
  Faults = {"error", "lostReply", "crash"}
  MaxFaults = 2
INVARIANT ImportedKeepsXml
PROPERTIES ConflictPreserved SyncCompletes
CHECK_DEADLOCK FALSE
