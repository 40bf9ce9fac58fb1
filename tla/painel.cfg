SPECIFICATION PainelSpec
CONSTANTS
  c1 = c1
  c2 = c2
  e1 = e1
  e2 = e2
  matriz = matriz
  r1 = r1
  r2 = r2
  g1 = g1
  g2 = g2
  Nulo = Nulo
  Livre = Livre
  Empresa = {e1, e2}
  Filial = {matriz}
  MaxTempo = 100
  Nota = {c1, c2}
  DocDe <- MCDocDe
  EmissaoDe <- MCEmissaoDe
  Sinal <- MCSinal
  LadoDe <- MCLadoDe
  Filtro <- MCFiltro
  Pergunta <- MCPergunta
  CacheKey <- MCCacheKey
  Leitor = {r1, r2}
  Fundo = {g1, g2}
  MaxVersao = 4
  Inicio = 41
  Saltos = {1, 17}
  Cenario <- MCCenario
INVARIANTS TypeOK ServesStale StoresAgree KeyIsEnough
PROPERTIES NeverBack Answered
CHECK_DEADLOCK FALSE
