SPECIFICATION FairSpec
CONSTANTS
  d1 = d1
  d2 = d2
  doc1 = doc1
  doc2 = doc2
  doc3 = doc3
  k1 = k1
  k2 = k2
  k3 = k3
  Documento = {doc1, doc2, doc3}
  Ruim = ruim
  ruim = ruim
  Nenhum = nenhum
  Filiais <- MCFiliais
  EmpresaNomes <- MCEmpresaNomes
  Empresas = {1, 2}
  AllowStale = FALSE
  Mes = 24
  Arquivo <- MCArquivo
  Xml <- MCXml
  XmlInicial <- MCXmlInicial
  DirsPossiveis <- MCDirs
  Ordem <- MCOrdem
  Quebrada = {k1}
  Cenario <- MCCenario
INVARIANTS TypeOK NeverHalf
PROPERTIES OneLap SweepServes WorklistServes
CHECK_DEADLOCK FALSE
