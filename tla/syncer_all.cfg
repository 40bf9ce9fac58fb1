SPECIFICATION Spec
CONSTANTS
  emitente = emitente
  destinatario = destinatario
  saida = saida
  entrada = entrada
  None = None
  Part <- MCPart
  Dest <- MCDest
  DestOf <- MCDestOf
  Origem = {o1}
  Actors = {"horse", "dxml", "operator", "arrivals", "slowWriter"}
  Faults = {"error", "lostReply", "crash", "restoreError", "tornRestore"}
  MaxFaults = 1
INVARIANTS TypeOK GoldenRule OneOurRow PendingBacked
PROPERTY OnlyOurPendingRowsGo
CHECK_DEADLOCK FALSE
