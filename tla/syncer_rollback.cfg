SPECIFICATION Spec
CONSTANTS
  emitente = emitente
  destinatario = destinatario
  saida = saida
  entrada = entrada
  None = None
  Part <- MCPart
  Dest <- MCDest
  DestOf <- MCDestOf
  Origem = {o1, o2}
  Actors = {"horse", "operator", "arrivals"}
  Faults = {"error", "lostReply", "crash"}
  MaxFaults = 2
PROPERTIES XmlNeverLost ContractHolds
CHECK_DEADLOCK FALSE
