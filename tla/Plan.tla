-------------------------------- MODULE Plan --------------------------------
(***************************************************************************)
(* internal/syncer/syncer.go PlanFile and internal/syncpath: from one XML  *)
(* to the copies it needs.  Pure functions of the XML, of the tables of    *)
(* branches and company names, and of the configuration.  Documents, keys  *)
(* and months are single values; a name is a sequence of character codes,  *)
(* because two names may give one folder.                                  *)
(***************************************************************************)
EXTENDS Naturals, Sequences, FiniteSetsExt

CONSTANTS
  Documento,    \* CNPJs and CPFs that may appear, with 14 or 11 digits
  Ruim,         \* a document column with any other number of digits
  Nenhum,       \* a value the XML, or a table, does not have
  Filiais,      \* TABFILIAL: [emp, fil, cnpj, nome]
  EmpresaNomes, \* TABEMPRESAS: a name for each company
  Empresas,     \* allowlist of companies; empty allows all
  AllowStale,   \* --allow-stale
  Mes           \* the current month, as year * 12 + month

ASSUME DocumentoAssumption == Ruim \notin Documento /\ Nenhum \notin Documento
ASSUME FiliaisAssumption ==
  \A f \in Filiais : /\ f.cnpj \in Documento \cup {Ruim}
                     /\ f.nome \in Seq(Nat)
                     /\ EmpresaNomes[f.emp] \in Seq(Nat)
ASSUME MesAssumption == Mes \in Nat /\ AllowStale \in BOOLEAN

\* " and *, /, :, <, >, ?, \, |
Reservado == {34, 42, 47, 58, 60, 62, 63, 92, 124}
Espaco == 32

\* strings.TrimSpace, of the blanks that are left.
TrimSpace(s) ==
  LET letras == {i \in DOMAIN s : s[i] # Espaco} IN
  IF letras = {} THEN <<>> ELSE SubSeq(s, Min(letras), Max(letras))

\* What NTFS refuses is removed, not replaced; nothing else changes.
SanitizeSegment(s) ==
  TrimSpace(SelectSeq(s, LAMBDA ch : ch >= 32 /\ ch \notin Reservado))

DocSegment(doc) ==
  CASE doc = "NFe" -> "NFe" [] doc = "NFCe" -> "NFCe"
    [] doc = "CTe" -> "CTe" [] doc = "NFS" -> "NFSe" [] OTHER -> Nenhum

\* The relative path, or Nenhum: a nota that does not derive is not synced.
Derive(nome, cnpj, doc, dir, mes, chave) ==
  IF \/ SanitizeSegment(nome) = <<>> \/ cnpj \notin Documento
     \/ DocSegment(doc) = Nenhum \/ dir \notin {"ENTRADA", "SAIDA"}
     \/ mes = Nenhum \/ chave = Nenhum
  THEN Nenhum
  ELSE <<SanitizeSegment(nome), cnpj, DocSegment(doc), dir, mes, chave>>
-----------------------------------------------------------------------------
pilotDocTypes == {"NFe", "NFCe"}

\* The month before this one and this one: what the AthenasHorse imports.
dentroDaJanela(mes) == mes \in {Mes, Mes - 1}

\* The emitter's copy goes to SAIDA, unless the nota is a return (tpNF = 0).
\* A company that is both sides counts as the emitter.
Direcao(x, f) ==
  IF f.cnpj = x.emit THEN IF x.tpNF = "0" THEN "ENTRADA" ELSE "SAIDA" ELSE "ENTRADA"

\* The branch's own name; the company's when it has none.
NomePasta(f) == IF f.nome # <<>> THEN f.nome ELSE EmpresaNomes[f.emp]

\* Exact match of the document: a branch is not its head office.
Clientes(x) == {f \in Filiais : f.cnpj \in Documento \cap {x.emit, x.dest}}

Destino(x, f) == Derive(NomePasta(f), f.cnpj, x.doc, Direcao(x, f), x.mes, x.chave)

Participacao(x, f) == [emp |-> f.emp, fil |-> f.fil, dest |-> Destino(x, f)]

Pulo(x, motivo) == [chave |-> x.chave, skip |-> motivo, participacoes |-> {}]

\* Mutant of PlanFile: the allowlist picks participations instead of notas.
PlanFilePelaMetade(x, enforceAllowlist) ==
  [chave |-> x.chave, skip |-> "",
   participacoes |-> {Participacao(x, f) : f \in {g \in Clientes(x) : g.emp \in Empresas}}]

\* The order of the tests is the order of the reasons; skip = "" is a plan.
PlanFile(x, enforceAllowlist) ==
  IF ~x.parse THEN [Pulo(x, "parse_falhou") EXCEPT !.chave = Nenhum]
  ELSE IF x.chave = Nenhum THEN Pulo(x, "sem_chave")
  ELSE IF x.doc \notin pilotDocTypes THEN Pulo(x, "doc_type_fora_do_piloto")
  ELSE IF x.mes = Nenhum THEN Pulo(x, "outros")
  ELSE IF ~AllowStale /\ ~dentroDaJanela(x.mes) THEN Pulo(x, "fora_da_janela")
  ELSE IF \E f \in Clientes(x) : Destino(x, f) = Nenhum THEN Pulo(x, "outros")
  ELSE IF Clientes(x) = {} THEN Pulo(x, "sem_filial_cliente")
  ELSE IF enforceAllowlist /\ Empresas # {} /\ \E f \in Clientes(x) : f.emp \notin Empresas
       THEN Pulo(x, "fora_da_allowlist")
  ELSE [chave |-> x.chave, skip |-> "",
        participacoes |-> {Participacao(x, f) : f \in Clientes(x)}]
=============================================================================
