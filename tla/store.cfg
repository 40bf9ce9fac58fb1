SPECIFICATION Spec
CONSTANTS
  clw = clw
  rosemberg = rosemberg
  matriz = matriz
  c1 = c1
  c2 = c2
  Nulo = Nulo
  Nenhuma = Nenhuma
  Empresa <- MCEmpresa
  Filial <- MCFilial
  ChaveAcesso <- MCChave
  Worker = {api, poller}
  Lotes <- MCLotes
  MaxTempo = 2
INVARIANTS TypeOK CountsMatch DerivedsAgree ImportedIsBacked
PROPERTY SerialIsExact
