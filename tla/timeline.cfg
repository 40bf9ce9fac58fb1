SPECIFICATION Spec
CONSTANTS
  clw = clw
  rosemberg = rosemberg
  matriz = matriz
  Nulo = Nulo
  Empresa <- MCEmpresa
  Filial <- MCFilial
  Sinais <- MCSinais
  MaxTempo = 2
  MaxObs = 4
INVARIANTS OrderFree LatestCompanyWins TerminalOnlyWhenAllAre
PROPERTIES TerminalSticks TimelineOnly
CHECK_DEADLOCK FALSE
