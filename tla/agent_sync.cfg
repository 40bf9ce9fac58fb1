SPECIFICATION FairSpec
CONSTANTS
  a1 = a1
  s1 = s1
  a2 = a2
  s2 = s2
  entrada = entrada
  p202606 = p202606
  Grupo = {"sync"}
  Chegada <- DuasChegada
  Sinc <- DuasSinc
  SincDe <- DuasSincDe
  Particao <- DuasParticao
  Nota <- DuasNota
  BatchSize = 2
  FlushSeenEvery = 5
  StableAge = 2
  Margem = 1
  SyncFullEvery = 3
  Backfill = FALSE
  PastaFalha = FALSE
  MaxTempo = 3
  MaxFalhas = 1
INVARIANT PartitionStaysHot
PROPERTY SyncIsReported
CHECK_DEADLOCK FALSE
