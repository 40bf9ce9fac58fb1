SPECIFICATION Spec
CONSTANTS
  a1 = a1
  s1 = s1
  a2 = a2
  s2 = s2
  entrada = entrada
  p202606 = p202606
  Grupo = {"chegada"}
  Chegada <- DuasChegada
  Sinc <- DuasSinc
  SincDe <- DuasSincDe
  Particao <- DuasParticao
  Nota <- DuasNota
  BatchSize = 2
  FlushSeenEvery = 2
  StableAge = 1
  Margem = 1
  SyncFullEvery = 3
  Backfill = FALSE
  PastaFalha = TRUE
  MaxTempo = 2
  MaxFalhas = 2
INVARIANT TypeOK
PROPERTY SeenIsHeld
CHECK_DEADLOCK FALSE
