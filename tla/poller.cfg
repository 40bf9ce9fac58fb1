SPECIFICATION FairSpec
CONSTANTS
  matriz = matriz
  c1 = c1
  c2 = c2
  c3 = c3
  Nulo = Nulo
  Empresa <- MCEmpresa
  Filial <- MCFilial
  ChaveAcesso = {c1, c2, c3}
  Linha <- MCLinha
  MaxTempo = 2
  BatchSize = 2
  HotQuota = 1
  Quente = {c1, c2}
  Antiga = {}
  ChunkSize = 2
  Desde = 1
  Cenario <- MCCenario
INVARIANT TypeOK
PROPERTIES NoEarlyEnd NothingStarves OutcomeRecorded ImportBecomesKnown
CHECK_DEADLOCK FALSE
