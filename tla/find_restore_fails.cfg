SPECIFICATION Spec
CONSTANTS
  emitente = emitente
  destinatario = destinatario
  saida = saida
  entrada = entrada
  None = None
  Part <- MCPart
  Dest <- MCDest
  DestOf <- MCDestOf
  Origem = {o1}
  Actors = {"operator"}
  Faults = {"restoreError"}
  MaxFaults = 1
PROPERTY XmlNeverLost
CHECK_DEADLOCK FALSE
