---------------------------- MODULE Sweep_proofs ----------------------------
(***************************************************************************)
(* The sweep and the worklist, for any files, XMLs, tables of branches,    *)
(* folders, limits, failures and restarts: the state keeps its type, no    *)
(* nota is done by half, and no file is examined twice in a row while one  *)
(* that was there waits.                                                   *)
(***************************************************************************)
EXTENDS Sweep, FiniteSetTheorems, SequenceTheorems, WellFoundedInduction, TLAPS

(* The order of names: as strings, with a prefix first.                     *)

\* A set of numbers that is not empty has a least one.
LEMMA MenorNatural ==
  ASSUME NEW T \in SUBSET Nat, T # {}
  PROVE  \E x \in T : \A y \in T : x <= y
<1> DEFINE Rel == OpToRel(<, Nat)
<1>1. IsWellFoundedOn(Rel, Nat)
  BY NatLessThanWellFounded
<1>2. PICK x \in T : \A y \in T : <<y, x>> \notin Rel
  <2> HIDE DEF Rel
  <2> QED
  BY <1>1, WFMin
<1>3. \A y \in T : ~(y < x)
  BY <1>2 DEF OpToRel
<1> QED
  BY <1>3

\* The least number of T, as Min gives it.
LEMMA MinDe ==
  ASSUME NEW T \in SUBSET Nat, T # {}
  PROVE  Min(T) \in T /\ \A y \in T : Min(T) <= y
BY MenorNatural DEF Min

\* b has the elements of a up to the k-th.
Iguais(a, b, k) == \A i \in 1 .. k : a[i] = b[i]

\* Where two sequences differ.
Difere(a, b) == {i \in DOMAIN a \cap DOMAIN b : a[i] # b[i]}

\* Two sequences that agree where both are: one goes on where the other ends; two
\* that do not have a first place where they differ.
LEMMA PrimeiraDiferenca ==
  ASSUME NEW S, NEW a \in Seq(S), NEW b \in Seq(S)
  PROVE  /\ Difere(a, b) = {} => \/ Iguais(a, b, Len(a)) /\ Len(a) <= Len(b)
                                 \/ Iguais(a, b, Len(b)) /\ Len(b) <= Len(a)
         /\ Difere(a, b) # {} =>
              LET m == Min(Difere(a, b)) IN
              m \in 1 .. Len(a) /\ m \in 1 .. Len(b) /\ a[m] # b[m] /\ Iguais(a, b, m - 1)
<1> DEFINE D == Difere(a, b)
<1>0. /\ D \in SUBSET Nat
      /\ \A i \in D : i \in 1 .. Len(a) /\ i \in 1 .. Len(b) /\ a[i] # b[i]
      /\ \A i \in 1 .. Len(a) : i \in 1 .. Len(b) => i \in D \/ a[i] = b[i]
  BY DEF Difere
<1> HIDE DEF D
<1>1. CASE D = {}
  <2>1. Len(a) \in Nat /\ Len(b) \in Nat
    OBVIOUS
  <2> QED
    BY <1>0, <1>1, <2>1 DEF Iguais, D
<1>2. CASE D # {}
  <2> DEFINE m == Min(D)
  <2>1. m \in D /\ \A y \in D : m <= y
    BY <1>0, <1>2, MinDe
  <2>2. m \in 1 .. Len(a) /\ m \in 1 .. Len(b) /\ a[m] # b[m]
    BY <1>0, <2>1
  <2>a. Len(a) \in Nat /\ Len(b) \in Nat
    OBVIOUS
  <2> HIDE DEF m
  <2>3. ASSUME NEW i \in 1 .. m - 1 PROVE a[i] = b[i]
    <3>1. i \in 1 .. Len(a) /\ i \in 1 .. Len(b) /\ ~(m <= i)
      BY <2>2, <2>a
    <3> QED
      BY <1>0, <2>1, <3>1
  <2>4. Iguais(a, b, m - 1)
    BY <2>3 DEF Iguais
  <2> QED
    BY <1>2, <2>2, <2>4 DEF D, m
<1> QED
  BY <1>1, <1>2

\* How two names compare.
LEMMA MenorNomeSse ==
  ASSUME NEW s \in Seq(Nat), NEW t \in Seq(Nat)
  PROVE  MenorNome(s, t) <=>
           \/ Len(s) < Len(t) /\ Iguais(s, t, Len(s))
           \/ \E k \in 1 .. Len(s) : k \in 1 .. Len(t) /\ s[k] < t[k] /\ Iguais(s, t, k - 1)
<1> DEFINE D == Difere(s, t)
           m == Min(D)
<1>0. MenorNome(s, t) <=> IF D = {} THEN Len(s) < Len(t) ELSE s[m] < t[m]
  BY DEF MenorNome, Difere
<1>1. /\ D = {} => \/ Iguais(s, t, Len(s)) /\ Len(s) <= Len(t)
                   \/ Iguais(s, t, Len(t)) /\ Len(t) <= Len(s)
      /\ D # {} => m \in 1 .. Len(s) /\ m \in 1 .. Len(t) /\ s[m] # t[m] /\ Iguais(s, t, m - 1)
  BY PrimeiraDiferenca
<1>2. \A k \in 1 .. Len(s) : s[k] \in Nat
  OBVIOUS
<1>3. Len(s) \in Nat /\ Len(t) \in Nat
  OBVIOUS
<1> HIDE DEF D, m
<1>4. CASE D = {}
  BY <1>0, <1>1, <1>2, <1>3, <1>4 DEF Iguais
<1>5. CASE D # {}
  <2>1. ~Iguais(s, t, Len(s))
    BY <1>1, <1>5 DEF Iguais
  <2>2. ASSUME NEW k \in 1 .. Len(s), k \in 1 .. Len(t), s[k] < t[k], Iguais(s, t, k - 1)
        PROVE  k = m
    <3>1. ~(k < m)
      <4>1. k < m => k \in 1 .. m - 1
        BY <1>1, <1>3, <1>5
      <4> QED
        BY <1>1, <1>2, <1>5, <2>2, <4>1 DEF Iguais
    <3>2. ~(m < k)
      <4>1. m < k => m \in 1 .. k - 1
        BY <1>1, <1>3, <1>5
      <4> QED
        BY <1>1, <1>5, <2>2, <4>1 DEF Iguais
    <3> QED
      BY <1>1, <1>3, <1>5, <3>1, <3>2
  <2> QED
    BY <1>0, <1>1, <1>5, <2>1, <2>2
<1> QED
  BY <1>4, <1>5

\* No name comes before itself.
LEMMA MenorNomeEstrita ==
  ASSUME NEW s \in Seq(Nat)
  PROVE  ~MenorNome(s, s)
BY MenorNomeSse DEF Iguais

\* Of two names, one comes first.
LEMMA MenorNomeTotal ==
  ASSUME NEW s \in Seq(Nat), NEW t \in Seq(Nat), s # t
  PROVE  MenorNome(s, t) \/ MenorNome(t, s)
<1> DEFINE m == Min(Difere(s, t))
<1>1. \A k \in Nat : Iguais(t, s, k) <=> Iguais(s, t, k)
  BY DEF Iguais
<1>2. Len(s) \in Nat /\ Len(t) \in Nat
  OBVIOUS
<1>3. CASE Difere(s, t) = {}
  <2>1. \/ Iguais(s, t, Len(s)) /\ Len(s) <= Len(t)
        \/ Iguais(s, t, Len(t)) /\ Len(t) <= Len(s)
    BY <1>3, PrimeiraDiferenca
  <2>2. ~(Len(s) = Len(t) /\ Iguais(s, t, Len(s)))
    BY DEF Iguais
  <2> QED
    BY <1>1, <1>2, <2>1, <2>2, MenorNomeSse
<1>4. CASE Difere(s, t) # {}
  <2>1. m \in 1 .. Len(s) /\ m \in 1 .. Len(t) /\ s[m] # t[m] /\ Iguais(s, t, m - 1)
    BY <1>4, PrimeiraDiferenca
  <2>2. s[m] < t[m] \/ t[m] < s[m]
    BY <2>1
  <2> HIDE DEF m
  <2> QED
    BY <1>1, <1>2, <2>1, <2>2, MenorNomeSse
<1> QED
  BY <1>3, <1>4

\* The order of names is transitive.
LEMMA MenorNomeTransitiva ==
  ASSUME NEW s \in Seq(Nat), NEW t \in Seq(Nat), NEW u \in Seq(Nat),
         MenorNome(s, t), MenorNome(t, u)
  PROVE  MenorNome(s, u)
<1>1. CASE Len(s) < Len(t) /\ Iguais(s, t, Len(s)) /\ Len(t) < Len(u) /\ Iguais(t, u, Len(t))
  <2>1. Len(s) < Len(u) /\ Iguais(s, u, Len(s))
    BY <1>1 DEF Iguais
  <2> QED
    BY <2>1, MenorNomeSse
<1>2. ASSUME Len(s) < Len(t), Iguais(s, t, Len(s)), NEW k \in 1 .. Len(t), k \in 1 .. Len(u),
             t[k] < u[k], Iguais(t, u, k - 1)
      PROVE  MenorNome(s, u)
  <2>1. CASE k <= Len(s)
    <3>1. k \in 1 .. Len(s) /\ s[k] < u[k] /\ Iguais(s, u, k - 1)
      BY <1>2, <2>1 DEF Iguais
    <3> QED
      BY <1>2, <3>1, MenorNomeSse
  <2>2. CASE k > Len(s)
    <3>1. Len(s) < Len(u) /\ Iguais(s, u, Len(s))
      BY <1>2, <2>2 DEF Iguais
    <3> QED
      BY <3>1, MenorNomeSse
  <2> QED
    BY <2>1, <2>2
<1>3. ASSUME NEW k \in 1 .. Len(s), k \in 1 .. Len(t), s[k] < t[k], Iguais(s, t, k - 1),
             Len(t) < Len(u), Iguais(t, u, Len(t))
      PROVE  MenorNome(s, u)
  <2>1. k \in 1 .. Len(u) /\ s[k] < u[k] /\ Iguais(s, u, k - 1)
    BY <1>3 DEF Iguais
  <2> QED
    BY <2>1, MenorNomeSse
<1>4. ASSUME NEW k \in 1 .. Len(s), k \in 1 .. Len(t), s[k] < t[k], Iguais(s, t, k - 1),
             NEW j \in 1 .. Len(t), j \in 1 .. Len(u), t[j] < u[j], Iguais(t, u, j - 1)
      PROVE  MenorNome(s, u)
  <2>1. CASE k <= j
    <3>1. k \in 1 .. Len(u)
      BY <1>4, <2>1
    <3>4. s[k] \in Nat /\ t[k] \in Nat /\ u[k] \in Nat
      <4>1. s[k] \in Nat
        BY <1>4
      <4>2. t[k] \in Nat
        BY <1>4
      <4>3. u[k] \in Nat
        BY <3>1
      <4> QED
        BY <4>1, <4>2, <4>3
    <3>2. t[k] = u[k] \/ t[k] < u[k]
      BY <1>4, <2>1 DEF Iguais
    <3>3. Iguais(s, u, k - 1)
      BY <1>4, <2>1 DEF Iguais
    <3>5. s[k] < t[k]
      BY <1>4
    <3>6. s[k] < u[k]
      <4> DEFINE x == s[k]
                 y == t[k]
                 z == u[k]
      <4>1. x \in Nat /\ y \in Nat /\ z \in Nat /\ x < y /\ (y = z \/ y < z)
        BY <3>2, <3>4, <3>5
      <4> HIDE DEF x, y, z
      <4>2. x < z
        BY <4>1
      <4> QED
        BY <4>2 DEF x, z
    <3> QED
      BY <3>1, <3>3, <3>6, MenorNomeSse
  <2>2. CASE j < k
    <3>1. j \in 1 .. Len(s) /\ s[j] = t[j]
      BY <1>4, <2>2 DEF Iguais
    <3>2. Iguais(s, u, j - 1)
      BY <1>4, <2>2 DEF Iguais
    <3> QED
      BY <1>4, <3>1, <3>2, MenorNomeSse
  <2> QED
    BY <2>1, <2>2
<1> QED
  BY <1>1, <1>2, <1>3, <1>4, MenorNomeSse

-----------------------------------------------------------------------------
(* The order of WalkDir on paths, component by component.                   *)

\* Names are sequences of characters, paths of names.
Nome == Seq(Nat)
Caminho == Seq(Nome)

\* What it is to be a prefix, element by element.
LEMMA PrefixoSse ==
  ASSUME NEW a \in Caminho, NEW b \in Caminho
  PROVE  /\ IsPrefix(a, b) <=> Len(a) <= Len(b) /\ Iguais(a, b, Len(a))
         /\ IsStrictPrefix(a, b) <=> Len(a) < Len(b) /\ Iguais(a, b, Len(a))
<1>1. IsPrefix(a, b) <=> Len(a) <= Len(b) /\ Iguais(a, b, Len(a))
  BY DEF IsPrefix, Iguais, Caminho
<1>2. Len(a) = Len(b) /\ Iguais(a, b, Len(a)) => a = b
  BY DEF Iguais, Caminho
<1>3. Len(a) \in Nat /\ Len(b) \in Nat
  BY DEF Caminho
<1> QED
  BY <1>1, <1>2, <1>3 DEF IsStrictPrefix

\* The two paths part at some name, where a has the smaller: whatever is below
\* a comes before whatever is below b.
Bifurca(a, b) ==
  \E k \in 1 .. Len(a) : k \in 1 .. Len(b) /\ MenorNome(a[k], b[k]) /\ Iguais(a, b, k - 1)

\* How two paths compare.
LEMMA pathLessSse ==
  ASSUME NEW a \in Caminho, NEW b \in Caminho
  PROVE  pathLess(a, b) <=> Bifurca(a, b) \/ IsStrictPrefix(a, b)
<1> DEFINE D == Difere(a, b)
           m == Min(D)
<1>0. pathLess(a, b) <=> IF D = {} THEN Len(a) < Len(b) ELSE MenorNome(a[m], b[m])
  BY DEF pathLess, Difere
<1>1. /\ D = {} => \/ Iguais(a, b, Len(a)) /\ Len(a) <= Len(b)
                   \/ Iguais(a, b, Len(b)) /\ Len(b) <= Len(a)
      /\ D # {} => m \in 1 .. Len(a) /\ m \in 1 .. Len(b) /\ a[m] # b[m] /\ Iguais(a, b, m - 1)
  BY PrimeiraDiferenca DEF Caminho
<1>2. /\ \A k \in 1 .. Len(a) : a[k] \in Seq(Nat)
      /\ Len(a) \in Nat /\ Len(b) \in Nat
  BY DEF Caminho, Nome
<1>3. IsStrictPrefix(a, b) <=> Len(a) < Len(b) /\ Iguais(a, b, Len(a))
  BY PrefixoSse
<1>4. \A k \in 1 .. Len(a) : ~MenorNome(a[k], a[k])
  BY <1>2, MenorNomeEstrita
<1>5. D = {} => \A k \in 1 .. Len(a) : k \in 1 .. Len(b) => a[k] = b[k]
  BY <1>2 DEF Difere
<1> HIDE DEF D, m
<1>6. CASE D = {}
  BY <1>0, <1>1, <1>2, <1>3, <1>4, <1>5, <1>6 DEF Iguais, Bifurca
<1>7. CASE D # {}
  <2>1. ~Iguais(a, b, Len(a))
    BY <1>1, <1>7 DEF Iguais
  <2>2. ASSUME NEW k \in 1 .. Len(a), k \in 1 .. Len(b), a[k] # b[k], Iguais(a, b, k - 1)
        PROVE  k = m
    <3>1. ~(k < m)
      <4>1. k < m => k \in 1 .. m - 1
        BY <1>1, <1>2, <1>7
      <4> QED
        BY <1>1, <1>7, <2>2, <4>1 DEF Iguais
    <3>2. ~(m < k)
      <4>1. m < k => m \in 1 .. k - 1
        BY <1>1, <1>2, <1>7
      <4> QED
        BY <1>1, <1>7, <2>2, <4>1 DEF Iguais
    <3> QED
      BY <1>1, <1>2, <1>7, <3>1, <3>2
  <2>3. \A k \in 1 .. Len(a) : k \in 1 .. Len(b) /\ MenorNome(a[k], b[k]) /\ Iguais(a, b, k - 1) => k = m
    BY <1>4, <2>2
  <2> QED
    BY <1>0, <1>1, <1>3, <1>7, <2>1, <2>3 DEF Bifurca
<1> QED
  BY <1>6, <1>7

\* No path comes before itself.
LEMMA pathLessEstrita ==
  ASSUME NEW a \in Caminho
  PROVE  ~pathLess(a, a)
BY PrimeiraDiferenca DEF pathLess, Caminho

\* Of two paths, one comes first.
LEMMA pathLessTotal ==
  ASSUME NEW a \in Caminho, NEW b \in Caminho, a # b
  PROVE  pathLess(a, b) \/ pathLess(b, a)
<1> DEFINE m == Min(Difere(a, b))
<1>1. \A k \in Nat : Iguais(b, a, k) <=> Iguais(a, b, k)
  BY DEF Iguais
<1>2. Len(a) \in Nat /\ Len(b) \in Nat
  BY DEF Caminho
<1>3. CASE Difere(a, b) = {}
  <2>1. \/ Iguais(a, b, Len(a)) /\ Len(a) <= Len(b)
        \/ Iguais(a, b, Len(b)) /\ Len(b) <= Len(a)
    BY <1>3, PrimeiraDiferenca DEF Caminho
  <2>2. ~(Len(a) = Len(b) /\ Iguais(a, b, Len(a)))
    BY DEF Iguais, Caminho
  <2> QED
    BY <1>1, <1>2, <2>1, <2>2, pathLessSse, PrefixoSse
<1>4. CASE Difere(a, b) # {}
  <2>1. m \in 1 .. Len(a) /\ m \in 1 .. Len(b) /\ a[m] # b[m] /\ Iguais(a, b, m - 1)
    BY <1>4, PrimeiraDiferenca DEF Caminho
  <2>2. a[m] \in Seq(Nat) /\ b[m] \in Seq(Nat)
    BY <2>1 DEF Caminho, Nome
  <2>3. MenorNome(a[m], b[m]) \/ MenorNome(b[m], a[m])
    BY <2>1, <2>2, MenorNomeTotal
  <2> HIDE DEF m
  <2>4. Bifurca(a, b) \/ Bifurca(b, a)
    <3>1. m - 1 \in Nat
      BY <1>2, <2>1
    <3> QED
      BY <1>1, <2>1, <2>3, <3>1 DEF Bifurca
  <2> QED
    BY <2>4, pathLessSse
<1> QED
  BY <1>3, <1>4

\* Below a and below b, the same.
LEMMA BifurcaAbaixo ==
  ASSUME NEW a \in Caminho, NEW b \in Caminho, NEW c \in Caminho, NEW d \in Caminho,
         Bifurca(a, b), IsPrefix(a, c), IsPrefix(b, d)
  PROVE  Bifurca(c, d)
<1>1. PICK k \in 1 .. Len(a) : k \in 1 .. Len(b) /\ MenorNome(a[k], b[k]) /\ Iguais(a, b, k - 1)
  BY DEF Bifurca
<1>2. /\ Len(a) <= Len(c) /\ Iguais(a, c, Len(a))
      /\ Len(b) <= Len(d) /\ Iguais(b, d, Len(b))
  BY PrefixoSse
<1>3. Len(a) \in Nat /\ Len(b) \in Nat /\ Len(c) \in Nat /\ Len(d) \in Nat
  BY DEF Caminho
<1>4. k \in 1 .. Len(c) /\ k \in 1 .. Len(d) /\ c[k] = a[k] /\ d[k] = b[k]
  BY <1>1, <1>2, <1>3 DEF Iguais
<1>5. Iguais(c, d, k - 1)
  BY <1>1, <1>2, <1>3 DEF Iguais
<1> QED
  BY <1>1, <1>4, <1>5 DEF Bifurca

\* Parting is transitive.
LEMMA BifurcaTransitiva ==
  ASSUME NEW a \in Caminho, NEW b \in Caminho, NEW c \in Caminho, Bifurca(a, b), Bifurca(b, c)
  PROVE  Bifurca(a, c)
<1>1. PICK k \in 1 .. Len(a) : k \in 1 .. Len(b) /\ MenorNome(a[k], b[k]) /\ Iguais(a, b, k - 1)
  BY DEF Bifurca
<1>2. PICK j \in 1 .. Len(b) : j \in 1 .. Len(c) /\ MenorNome(b[j], c[j]) /\ Iguais(b, c, j - 1)
  BY DEF Bifurca
<1>3. /\ Len(a) \in Nat /\ Len(b) \in Nat /\ Len(c) \in Nat
      /\ \A i \in 1 .. Len(a) : a[i] \in Seq(Nat)
      /\ \A i \in 1 .. Len(b) : b[i] \in Seq(Nat)
      /\ \A i \in 1 .. Len(c) : c[i] \in Seq(Nat)
  BY DEF Caminho, Nome
<1>4. CASE k < j
  <2>1. k \in 1 .. Len(c) /\ c[k] = b[k] /\ Iguais(a, c, k - 1)
    BY <1>1, <1>2, <1>3, <1>4 DEF Iguais
  <2> QED
    BY <1>1, <2>1 DEF Bifurca
<1>5. CASE j < k
  <2>1. j \in 1 .. Len(a) /\ a[j] = b[j]
    BY <1>1, <1>2, <1>3, <1>5 DEF Iguais
  <2>2. Iguais(a, c, j - 1)
    BY <1>1, <1>2, <1>3, <1>5 DEF Iguais
  <2> QED
    BY <1>2, <2>1, <2>2 DEF Bifurca
<1>6. CASE j = k
  <2>1. MenorNome(a[k], c[k])
    BY <1>1, <1>2, <1>3, <1>6, MenorNomeTransitiva
  <2>2. Iguais(a, c, k - 1)
    BY <1>1, <1>2, <1>3, <1>6 DEF Iguais
  <2> QED
    BY <1>1, <1>2, <1>6, <2>1, <2>2 DEF Bifurca
<1> QED
  BY <1>1, <1>2, <1>3, <1>4, <1>5, <1>6

\* A path is a prefix of itself.
LEMMA PrefixoProprio ==
  ASSUME NEW a \in Caminho
  PROVE  IsPrefix(a, a)
BY PrefixoSse DEF Iguais, Caminho

\* What comes before e comes before what is below e.
LEMMA MenorAbaixo ==
  ASSUME NEW u \in Caminho, NEW e \in Caminho, NEW h \in Caminho,
         pathLess(u, e), IsPrefix(e, h)
  PROVE  pathLess(u, h)
<1>1. CASE Bifurca(u, e)
  BY <1>1, BifurcaAbaixo, PrefixoProprio, pathLessSse
<1>2. CASE IsStrictPrefix(u, e)
  <2>1. /\ Len(u) < Len(e) /\ Iguais(u, e, Len(u))
        /\ Len(e) <= Len(h) /\ Iguais(e, h, Len(e))
    BY <1>2, PrefixoSse
  <2>2. Len(u) \in Nat /\ Len(e) \in Nat /\ Len(h) \in Nat
    BY DEF Caminho
  <2>3. Len(u) < Len(h) /\ Iguais(u, h, Len(u))
    BY <2>1, <2>2 DEF Iguais
  <2> QED
    BY <2>3, PrefixoSse, pathLessSse
<1> QED
  BY <1>1, <1>2, pathLessSse

\* The order of paths is transitive.
LEMMA pathLessTransitiva ==
  ASSUME NEW a \in Caminho, NEW b \in Caminho, NEW c \in Caminho, pathLess(a, b), pathLess(b, c)
  PROVE  pathLess(a, c)
<1>1. CASE IsStrictPrefix(b, c)
  BY <1>1, MenorAbaixo DEF IsStrictPrefix
<1>2. CASE Bifurca(a, b) /\ Bifurca(b, c)
  BY <1>2, BifurcaTransitiva, pathLessSse
<1>3. CASE IsStrictPrefix(a, b) /\ Bifurca(b, c)
  <2>1. PICK k \in 1 .. Len(b) : k \in 1 .. Len(c) /\ MenorNome(b[k], c[k]) /\ Iguais(b, c, k - 1)
    BY <1>3 DEF Bifurca
  <2>2. Len(a) < Len(b) /\ Iguais(a, b, Len(a))
    BY <1>3, PrefixoSse
  <2>3. Len(a) \in Nat /\ Len(b) \in Nat /\ Len(c) \in Nat
    BY DEF Caminho
  <2>4. CASE k <= Len(a)
    <3>1. k \in 1 .. Len(a) /\ a[k] = b[k] /\ Iguais(a, c, k - 1)
      BY <2>1, <2>2, <2>3, <2>4 DEF Iguais
    <3> QED
      BY <2>1, <3>1, pathLessSse DEF Bifurca
  <2>5. CASE Len(a) < k
    <3>1. Len(a) < Len(c) /\ Iguais(a, c, Len(a))
      BY <2>1, <2>2, <2>3, <2>5 DEF Iguais
    <3> QED
      BY <3>1, PrefixoSse, pathLessSse
  <2> QED
    BY <2>1, <2>3, <2>4, <2>5
<1> QED
  BY <1>1, <1>2, <1>3, pathLessSse

-----------------------------------------------------------------------------
(* What ReadDir gives is in that order.                                     *)

\* The entries of a folder: each is the folder and one name.
Entradas(F, p) ==
  \A a \in F : a \in Caminho /\ Len(a) = Len(p) + 1 /\ IsPrefix(p, a)

\* The entries of a folder differ by their last name, and part there.
LEMMA PorNome ==
  ASSUME NEW p \in Caminho, NEW F, Entradas(F, p), NEW a \in F, NEW b \in F
  PROVE  /\ Last(a) \in Nome /\ Last(b) \in Nome
         /\ a # b => MenorNome(Last(a), Last(b)) \/ MenorNome(Last(b), Last(a))
         /\ MenorNome(Last(a), Last(b)) => Bifurca(a, b) /\ a # b
<1>1. /\ a \in Caminho /\ Len(a) = Len(p) + 1 /\ Iguais(p, a, Len(p))
      /\ b \in Caminho /\ Len(b) = Len(p) + 1 /\ Iguais(p, b, Len(p))
  BY PrefixoSse DEF Entradas
<1>2. Len(p) \in Nat
  BY DEF Caminho
<1>3. Last(a) = a[Len(p) + 1] /\ Last(b) = b[Len(p) + 1]
  BY <1>1 DEF Last
<1>4. Last(a) \in Nome /\ Last(b) \in Nome
  BY <1>1, <1>2, <1>3 DEF Caminho
<1>5. Iguais(a, b, Len(p))
  BY <1>1, <1>2 DEF Iguais
<1>6. ASSUME a # b PROVE Last(a) # Last(b)
  BY <1>1, <1>2, <1>3, <1>5, <1>6 DEF Iguais, Caminho
<1>7. ASSUME MenorNome(Last(a), Last(b)) PROVE Bifurca(a, b)
  <2>1. Len(p) + 1 \in 1 .. Len(a) /\ Len(p) + 1 \in 1 .. Len(b) /\ (Len(p) + 1) - 1 = Len(p)
    BY <1>1, <1>2
  <2> QED
    BY <1>3, <1>5, <1>7, <2>1 DEF Bifurca
<1>8. ASSUME MenorNome(Last(a), Last(b)) PROVE a # b
  BY <1>4, <1>8, MenorNomeEstrita DEF Nome
<1> QED
  BY <1>4, <1>6, <1>7, <1>8, MenorNomeTotal DEF Nome

\* Sorted by last name.
EmOrdem(s, n) == \A i, j \in 1 .. n : i < j => MenorNome(Last(s[i]), Last(s[j]))

\* They can be put in order: the place of an entry is how many come before it.
LEMMA OrdemExiste ==
  ASSUME NEW p \in Caminho, NEW F, IsFiniteSet(F), Entradas(F, p)
  PROVE  \E s \in [1 .. Cardinality(F) -> F] : EmOrdem(s, Cardinality(F))
<1> DEFINE n == Cardinality(F)
           Antes(a) == {b \in F : MenorNome(Last(b), Last(a))}
           rank == [a \in F |-> Cardinality(Antes(a)) + 1]
           Postos == {rank[a] : a \in F}
<1>1. n \in Nat
  BY FS_CardinalityType
<1>2. ASSUME NEW a \in F PROVE IsFiniteSet(Antes(a)) /\ Cardinality(Antes(a)) \in Nat /\ Cardinality(Antes(a)) < n
  <2>1. Antes(a) \in SUBSET F /\ a \notin Antes(a)
    BY PorNome, MenorNomeEstrita DEF Nome
  <2>2. /\ IsFiniteSet(Antes(a)) /\ Cardinality(Antes(a)) <= n
        /\ Cardinality(F) = Cardinality(Antes(a)) => F = Antes(a)
    BY <2>1, FS_Subset
  <2>3. Cardinality(Antes(a)) \in Nat
    BY <2>2, FS_CardinalityType
  <2> HIDE DEF Antes
  <2> QED
    BY <1>1, <2>1, <2>2, <2>3
<1>3. ASSUME NEW a \in F, NEW b \in F, MenorNome(Last(a), Last(b)) PROVE rank[a] < rank[b]
  <2>1. ASSUME NEW x \in Antes(a) PROVE x \in Antes(b)
    <3>1. Last(x) \in Seq(Nat) /\ Last(a) \in Seq(Nat) /\ Last(b) \in Seq(Nat)
      BY PorNome DEF Nome
    <3> QED
      BY <1>3, <3>1, MenorNomeTransitiva
  <2>2. Antes(a) \in SUBSET Antes(b) /\ a \in Antes(b) /\ a \notin Antes(a)
    BY <1>3, <2>1, PorNome, MenorNomeEstrita DEF Nome
  <2>3. IsFiniteSet(Antes(b)) /\ Cardinality(Antes(a)) \in Nat /\ Cardinality(Antes(b)) \in Nat
    BY <1>2
  <2> HIDE DEF Antes
  <2>4. /\ Cardinality(Antes(a)) <= Cardinality(Antes(b))
        /\ Cardinality(Antes(b)) = Cardinality(Antes(a)) => Antes(b) = Antes(a)
    BY <2>2, <2>3, FS_Subset
  <2>5. Cardinality(Antes(a)) < Cardinality(Antes(b))
    BY <2>2, <2>3, <2>4
  <2> QED
    BY <2>3, <2>5
<1>4. \A a \in F : rank[a] \in 1 .. n
  <2> HIDE DEF Antes
  <2> QED
    BY <1>1, <1>2
<1>5. \A a, b \in F : rank[a] = rank[b] => a = b
  <2> SUFFICES ASSUME NEW a \in F, NEW b \in F, rank[a] = rank[b], a # b PROVE FALSE
    OBVIOUS
  <2>1. rank[a] < rank[b] \/ rank[b] < rank[a]
    BY <1>3, PorNome
  <2>2. rank[a] \in Nat /\ rank[b] \in Nat
    BY <1>1, <1>4
  <2> HIDE DEF rank
  <2> QED
    BY <2>1, <2>2
<1>6. rank = [a \in F |-> rank[a]]
  OBVIOUS
<1> HIDE DEF rank
<1>7. rank \in Surjection(F, Postos) /\ rank \in Injection(F, Postos)
  BY <1>5, <1>6 DEF Surjection, Injection, IsInjective
<1>8. IsFiniteSet(Postos) /\ Cardinality(Postos) = n
  BY <1>7, FS_Surjection
<1>9. IsFiniteSet(1 .. n) /\ Cardinality(1 .. n) = n
  BY <1>1, FS_Interval
<1>10. Postos \in SUBSET (1 .. n)
  BY <1>4
<1>11. 1 .. n = Postos
  BY <1>8, <1>9, <1>10, FS_Subset
<1> DEFINE s == [i \in 1 .. n |-> CHOOSE a \in F : rank[a] = i]
<1>12. \A i \in 1 .. n : s[i] \in F /\ rank[s[i]] = i
  BY <1>11
<1>13. s \in [1 .. n -> F]
  BY <1>12
<1> HIDE DEF s, n
<1>14. ASSUME NEW i \in 1 .. n, NEW j \in 1 .. n, i < j PROVE MenorNome(Last(s[i]), Last(s[j]))
  <2>1. s[i] \in F /\ s[j] \in F /\ ~(rank[s[j]] < rank[s[i]]) /\ s[i] # s[j]
    BY <1>1, <1>12, <1>14
  <2> QED
    BY <1>3, <2>1, PorNome
<1>15. EmOrdem(s, n)
  BY <1>14 DEF EmOrdem
<1> QED
  BY <1>13, <1>15 DEF n

\* The entries of a folder are finitely many, each above a place there, and every
\* file below the folder is below one of them.
LEMMA FilhosTipo ==
  ASSUME NEW dir, NEW p \in Caminho
  PROVE  /\ IsFiniteSet(Filhos(dir, p))
         /\ Entradas(Filhos(dir, p), p)
         /\ \A e \in Filhos(dir, p) : \E f \in Arquivo : f.dir = dir /\ IsPrefix(e, f.rel)
         /\ \A h \in Presentes : h.dir = dir /\ IsStrictPrefix(p, h.rel) =>
              \E e \in Filhos(dir, p) : IsPrefix(e, h.rel)
<1> DEFINE G == {g \in Presentes : g.dir = dir /\ IsStrictPrefix(p, g.rel)}
           ate == [f \in G |-> SubSeq(f.rel, 1, Len(p) + 1)]
           F == Filhos(dir, p)
<1>1. IsFiniteSet(G) /\ \A f \in G : f \in Arquivo /\ f.dir = dir /\ IsStrictPrefix(p, f.rel)
  <2>1. G \in SUBSET Arquivo
    BY DEF Presentes
  <2> QED
    BY <2>1, ArquivoAssumption, FS_Subset
<1>2. F = {SubSeq(f.rel, 1, Len(p) + 1) : f \in G}
  BY DEF Filhos
<1>3. ate \in Surjection(G, F)
  BY <1>2 DEF Surjection
<1> HIDE DEF F, G
<1>4. IsFiniteSet(F)
  BY <1>1, <1>3, FS_Surjection
<1>5. ASSUME NEW f \in G
      PROVE  LET e == SubSeq(f.rel, 1, Len(p) + 1) IN
             e \in Caminho /\ Len(e) = Len(p) + 1 /\ IsPrefix(p, e) /\ IsPrefix(e, f.rel)
  <2> DEFINE e == SubSeq(f.rel, 1, Len(p) + 1)
  <2>1. f.rel \in Caminho /\ Len(p) \in Nat
    BY <1>1, ArquivoAssumption DEF Caminho, Nome
  <2>2. Len(p) < Len(f.rel) /\ Iguais(p, f.rel, Len(p))
    BY <1>1, <2>1, PrefixoSse
  <2>3. e \in Caminho /\ Len(e) = Len(p) + 1 /\ \A i \in 1 .. Len(p) + 1 : e[i] = f.rel[i]
    BY <2>1, <2>2 DEF Caminho
  <2> HIDE DEF e
  <2>4. Iguais(p, e, Len(p)) /\ Iguais(e, f.rel, Len(e))
    BY <2>1, <2>2, <2>3 DEF Iguais
  <2>5. IsPrefix(p, e) /\ IsPrefix(e, f.rel)
    BY <2>1, <2>2, <2>3, <2>4, PrefixoSse
  <2> QED
    BY <2>3, <2>5 DEF e
<1>6. Entradas(F, p)
  BY <1>2, <1>5 DEF Entradas
<1>7. \A e \in F : \E f \in Arquivo : f.dir = dir /\ IsPrefix(e, f.rel)
  BY <1>1, <1>2, <1>5
<1>8. \A h \in G : \E e \in F : IsPrefix(e, h.rel)
  BY <1>2, <1>5
<1> QED
  BY <1>4, <1>6, <1>7, <1>8 DEF F, G

\* What a folder gives: paths one name longer than its own, of files there, in
\* an order in which none is above another, and every file below is below one.
LEMMA ReadDirLe ==
  ASSUME NEW dir, NEW p \in Caminho
  PROVE  LET s == ReadDir(dir, p) IN
         /\ s \in Seq(Caminho)
         /\ \A i \in 1 .. Len(s) : /\ s[i] # <<>> /\ IsPrefix(p, s[i])
                                   /\ \E f \in Arquivo : f.dir = dir /\ IsPrefix(s[i], f.rel)
         /\ \A i, j \in 1 .. Len(s) : i < j => Bifurca(s[i], s[j])
         /\ \A h \in Presentes : h.dir = dir /\ IsStrictPrefix(p, h.rel) =>
              \E i \in 1 .. Len(s) : IsPrefix(s[i], h.rel)
<1> DEFINE s == ReadDir(dir, p)
           F == Filhos(dir, p)
           n == Cardinality(F)
<1>1. /\ IsFiniteSet(F) /\ Entradas(F, p)
      /\ \A e \in F : \E f \in Arquivo : f.dir = dir /\ IsPrefix(e, f.rel)
      /\ \A h \in Presentes : h.dir = dir /\ IsStrictPrefix(p, h.rel) => \E e \in F : IsPrefix(e, h.rel)
  BY FilhosTipo
<1>2. s = CHOOSE r \in [1 .. n -> F] : \A i, j \in DOMAIN r : i < j => MenorNome(Last(r[i]), Last(r[j]))
  BY DEF ReadDir
<1> HIDE DEF s, F
<1>3. n \in Nat
  BY <1>1, FS_CardinalityType
<1>4. \E r \in [1 .. n -> F] : EmOrdem(r, n)
  BY <1>1, OrdemExiste
<1> HIDE DEF n
<1>5. \E r \in [1 .. n -> F] : \A i, j \in DOMAIN r : i < j => MenorNome(Last(r[i]), Last(r[j]))
  BY <1>4 DEF EmOrdem
<1>6. s \in [1 .. n -> F] /\ \A i, j \in DOMAIN s : i < j => MenorNome(Last(s[i]), Last(s[j]))
  BY <1>2, <1>5
<1>7. F \subseteq Caminho /\ \A e \in F : e # <<>> /\ IsPrefix(p, e)
  <2>1. Len(p) \in Nat
    BY DEF Caminho
  <2> QED
    BY <1>1, <2>1 DEF Entradas
<1>8. s \in Seq(Caminho) /\ Len(s) = n /\ DOMAIN s = 1 .. n
  BY <1>3, <1>6, <1>7
<1>9. \A i \in 1 .. n : s[i] \in F
  BY <1>6
<1>10. ASSUME NEW i \in 1 .. n, NEW j \in 1 .. n, i < j PROVE Bifurca(s[i], s[j]) /\ s[i] # s[j]
  <2>1. MenorNome(Last(s[i]), Last(s[j]))
    BY <1>6, <1>8, <1>10
  <2> QED
    BY <1>1, <1>9, <2>1, PorNome
<1> DEFINE Lidas == {s[i] : i \in 1 .. n}
<1>11. Lidas = F
  <2>1. \A i, j \in 1 .. n : s[i] = s[j] => i = j
    <3> SUFFICES ASSUME NEW i \in 1 .. n, NEW j \in 1 .. n, s[i] = s[j], i # j PROVE FALSE
      OBVIOUS
    <3>1. i < j \/ j < i
      BY <1>3
    <3> QED
      BY <1>10, <3>1
  <2>2. s = [i \in 1 .. n |-> s[i]]
    BY <1>6
  <2>3. s \in Surjection(1 .. n, Lidas) /\ s \in Injection(1 .. n, Lidas)
    BY <2>1, <2>2 DEF Surjection, Injection, IsInjective
  <2>4. IsFiniteSet(1 .. n) /\ Cardinality(1 .. n) = n
    BY <1>3, FS_Interval
  <2>5. Cardinality(Lidas) = n
    BY <2>3, <2>4, FS_Surjection
  <2>6. Lidas \in SUBSET F
    BY <1>9
  <2> HIDE DEF Lidas
  <2> QED
    BY <1>1, <2>5, <2>6, FS_Subset DEF n
<1>12. \A e \in F : \E i \in 1 .. n : s[i] = e
  BY <1>11
<1>13. ASSUME NEW h \in Presentes, h.dir = dir, IsStrictPrefix(p, h.rel)
       PROVE  \E i \in 1 .. n : IsPrefix(s[i], h.rel)
  <2>1. PICK e \in F : IsPrefix(e, h.rel)
    BY <1>1, <1>13
  <2> QED
    BY <1>12, <2>1
<1>14. \A i \in 1 .. n : s[i] # <<>> /\ IsPrefix(p, s[i]) /\ \E f \in Arquivo : f.dir = dir /\ IsPrefix(s[i], f.rel)
  BY <1>1, <1>7, <1>9
<1> QED
  BY <1>8, <1>10, <1>13, <1>14 DEF s

-----------------------------------------------------------------------------
(* The segments of a rotation, and which file is in which.                  *)

\* No folder is listed twice.
Distintas(d) == \A i, j \in DOMAIN d : d[i] = d[j] => i = j
\* The folders allowed are named.
DirsBem(ds) == ds \in Seq(ToSet(ds)) /\ Nenhum \notin ToSet(ds)

\* The places within reach, and a place as a cursor.
Lugares(ds) == {f \in Arquivo : f.dir \in ToSet(ds)}
Cursor(p) == [dir |-> p.dir, path |-> p.rel]

\* A cursor that does not name a place is in no folder allowed.
CursorBom(ds, c) == c.dir \in ToSet(ds) => \E p \in Lugares(ds) : c = Cursor(p)

\* The place of a folder in the list.
Onde(ds, d) == Min({i \in DOMAIN ds : ds[i] = d})

\* The order of the tree, folder by folder.
Precede(ds, a, b) == Onde(ds, a.dir) < Onde(ds, b.dir) \/ (a.dir = b.dir /\ pathLess(a.rel, b.rel))

\* a comes after the cursor c; after a cursor that is lost comes everything.
Depois(ds, c, a) ==
  c.dir \in ToSet(ds) => Onde(ds, c.dir) < Onde(ds, a.dir) \/ (c.dir = a.dir /\ pathLess(c.path, a.rel))

\* In the lap that starts after the cursor, a comes before b.
Volta(ds, c, a, b) ==
  IF Depois(ds, c, a) THEN Depois(ds, c, b) => Precede(ds, a, b) ELSE ~Depois(ds, c, b) /\ Precede(ds, a, b)

\* The files a segment is to examine.
Alcance(ds, t) == {h \in Lugares(ds) : /\ h.dir = t.dir
                                       /\ t.after # <<>> => pathLess(t.after, h.rel)
                                       /\ t.upto # <<>> => ~pathLess(t.upto, h.rel)}

\* The segment of a rotation a file is in.
Turno(ds, c, a) ==
  LET n == Len(ds) IN
  IF c.dir \notin ToSet(ds) THEN Onde(ds, a.dir)
  ELSE IF Onde(ds, a.dir) > Onde(ds, c.dir) THEN Onde(ds, a.dir) - Onde(ds, c.dir) + 1
  ELSE IF Onde(ds, a.dir) < Onde(ds, c.dir) THEN Onde(ds, a.dir) + n - Onde(ds, c.dir) + 1
  ELSE IF pathLess(c.path, a.rel) THEN 1 ELSE n + 1

\* A folder allowed has its place in the list.
LEMMA OndeEsta ==
  ASSUME NEW ds, DirsBem(ds), NEW d \in ToSet(ds)
  PROVE  Onde(ds, d) \in 1 .. Len(ds) /\ ds[Onde(ds, d)] = d
<1> DEFINE T == {i \in DOMAIN ds : ds[i] = d}
<1>1. DOMAIN ds = 1 .. Len(ds) /\ Len(ds) \in Nat
  BY DEF DirsBem
<1>2. T \in SUBSET Nat /\ T # {}
  BY <1>1 DEF ToSet
<1>3. Min(T) \in T
  BY <1>2, MinDe
<1> QED
  BY <1>1, <1>3 DEF Onde

\* A whole folder.
Livre(d) == Trecho(d, <<>>, <<>>)

\* The elements of a concatenation.
LEMMA Junta ==
  ASSUME NEW S, NEW A \in Seq(S), NEW B \in Seq(S)
  PROVE  /\ A \o B \in Seq(S) /\ Len(A \o B) = Len(A) + Len(B)
         /\ \A i \in 1 .. Len(A) : (A \o B)[i] = A[i]
         /\ \A i \in 1 .. Len(B) : (A \o B)[i + Len(A)] = B[i]
BY ConcatProperties

\* The elements of one of three.
LEMMA Emenda ==
  ASSUME NEW S, NEW A \in Seq(S), NEW B \in Seq(S), NEW C \in Seq(S)
  PROVE  /\ A \o B \o C \in Seq(S) /\ Len(A \o B \o C) = Len(A) + Len(B) + Len(C)
         /\ \A i \in 1 .. Len(A) : (A \o B \o C)[i] = A[i]
         /\ \A i \in 1 .. Len(B) : (A \o B \o C)[i + Len(A)] = B[i]
         /\ \A i \in 1 .. Len(C) : (A \o B \o C)[i + (Len(A) + Len(B))] = C[i]
<1> DEFINE AB == A \o B
           ABC == AB \o C
<1>1. Len(A) \in Nat /\ Len(B) \in Nat /\ Len(C) \in Nat
  OBVIOUS
<1>2. /\ AB \in Seq(S) /\ Len(AB) = Len(A) + Len(B)
      /\ \A i \in 1 .. Len(A) : AB[i] = A[i]
      /\ \A i \in 1 .. Len(B) : AB[i + Len(A)] = B[i]
  BY Junta
<1>3. AB \in Seq(S)
  BY <1>2
<1> HIDE DEF AB
<1>4. /\ ABC \in Seq(S) /\ Len(ABC) = Len(AB) + Len(C)
      /\ \A i \in 1 .. Len(AB) : ABC[i] = AB[i]
      /\ \A i \in 1 .. Len(C) : ABC[i + Len(AB)] = C[i]
  BY <1>3, Junta
<1> HIDE DEF ABC
<1>5. ASSUME NEW i \in 1 .. Len(A) PROVE ABC[i] = A[i]
  <2>1. i \in 1 .. Len(AB)
    BY <1>1, <1>2
  <2> QED
    BY <1>2, <1>4, <2>1
<1>6. ASSUME NEW i \in 1 .. Len(B) PROVE ABC[i + Len(A)] = B[i]
  <2>1. i + Len(A) \in 1 .. Len(AB)
    BY <1>1, <1>2
  <2> QED
    BY <1>2, <1>4, <2>1
<1> QED
  BY <1>2, <1>4, <1>5, <1>6 DEF AB, ABC

\* What the segments of a rotation from c are.
Paradas(ds, c) == [dir : ToSet(ds), after : {<<>>, c.path}, upto : {<<>>, c.path}]

\* The segments of a rotation.
LEMMA RotacaoForma ==
  ASSUME DirsBem(dirs), NEW c
  PROVE  LET R == Rotacao(c)
             n == Len(dirs)
             o == Onde(dirs, c.dir)
         IN
         /\ R \in Seq(Paradas(dirs, c))
         /\ IF c.dir \in ToSet(dirs)
            THEN /\ Len(R) = n + 1
                 /\ R[1] = Trecho(c.dir, c.path, <<>>) /\ R[n + 1] = Trecho(c.dir, <<>>, c.path)
                 /\ \A i \in 2 .. n - o + 1 : R[i] = Livre(dirs[o + i - 1])
                 /\ \A i \in n - o + 2 .. n : R[i] = Livre(dirs[i - (n - o + 1)])
            ELSE Len(R) = n /\ \A i \in 1 .. n : R[i] = Livre(dirs[i])
<1> DEFINE n == Len(dirs)
           o == Onde(dirs, c.dir)
<1>1. n \in Nat /\ DOMAIN dirs = 1 .. n
  BY DEF DirsBem
<1>2. c.dir \in ToSet(dirs) <=> \E i \in DOMAIN dirs : dirs[i] = c.dir
  BY DEF ToSet
<1>3. CASE c.dir \in ToSet(dirs)
  <2> DEFINE A == <<Trecho(dirs[o], c.path, <<>>)>>
             B == [i \in 1 .. n - o |-> Livre(dirs[o + i])]
             C == [i \in 1 .. o - 1 |-> Livre(dirs[i])]
             E == <<Trecho(dirs[o], <<>>, c.path)>>
  <2>1. Rotacao(c) = A \o B \o C \o E
    BY <1>2, <1>3 DEF Rotacao, Onde, Livre
  <2>2. o \in 1 .. n /\ dirs[o] = c.dir
    BY <1>3, OndeEsta
  <2>3. Len(A) = 1 /\ A[1] = Trecho(c.dir, c.path, <<>>) /\ Len(E) = 1 /\ E[1] = Trecho(c.dir, <<>>, c.path)
    BY <2>2
  <2> HIDE DEF o, n
  <2>4. Len(B) = n - o /\ \A i \in 1 .. n - o : B[i] = Livre(dirs[o + i])
    BY <1>1, <2>2
  <2>5. Len(C) = o - 1 /\ \A i \in 1 .. o - 1 : C[i] = Livre(dirs[i])
    BY <1>1, <2>2
  <2> DEFINE S == Paradas(dirs, c)
  <2>6. A \in Seq(S) /\ B \in Seq(S) /\ C \in Seq(S) /\ E \in Seq(S)
    <3>1. \A i \in 1 .. n : dirs[i] \in ToSet(dirs)
      BY <1>1 DEF ToSet
    <3>2. \A i \in 1 .. n : Livre(dirs[i]) \in S
      BY <3>1 DEF Livre, Trecho, Paradas
    <3>3. Trecho(c.dir, c.path, <<>>) \in S /\ Trecho(c.dir, <<>>, c.path) \in S
      BY <1>3 DEF Trecho, Paradas
    <3>4. A \in Seq(S) /\ E \in Seq(S)
      BY <2>2, <3>3
    <3> HIDE DEF S
    <3>5. \A i \in 1 .. n - o : Livre(dirs[o + i]) \in S
      BY <1>1, <2>2, <3>2
    <3>6. \A i \in 1 .. o - 1 : Livre(dirs[i]) \in S
      BY <1>1, <2>2, <3>2
    <3>7. B \in Seq(S)
      BY <1>1, <2>2, <3>5
    <3>8. C \in Seq(S)
      BY <1>1, <2>2, <3>6
    <3> QED
      BY <3>4, <3>7, <3>8
  <2> HIDE DEF A, B, C, E, S
  <2> DEFINE P == A \o B \o C
             Q == P \o E
  <2>7. /\ P \in Seq(S) /\ Len(P) = Len(A) + Len(B) + Len(C)
        /\ \A i \in 1 .. Len(A) : P[i] = A[i]
        /\ \A i \in 1 .. Len(B) : P[i + Len(A)] = B[i]
        /\ \A i \in 1 .. Len(C) : P[i + (Len(A) + Len(B))] = C[i]
    <3>1. P \in Seq(S) /\ Len(P) = Len(A) + Len(B) + Len(C)
      BY <2>6, Emenda
    <3>2. \A i \in 1 .. Len(A) : P[i] = A[i]
      BY <2>6, Emenda
    <3>3. \A i \in 1 .. Len(B) : P[i + Len(A)] = B[i]
      BY <2>6, Emenda
    <3>4. \A i \in 1 .. Len(C) : P[i + (Len(A) + Len(B))] = C[i]
      BY <2>6, Emenda
    <3> QED
      BY <3>1, <3>2, <3>3, <3>4
  <2>8. Rotacao(c) = Q
    BY <2>1
  <2>a. Len(P) = n /\ P \in Seq(S)
    BY <1>1, <2>2, <2>3, <2>4, <2>5, <2>7
  <2> HIDE DEF P
  <2>b. /\ Q \in Seq(S) /\ Len(Q) = Len(P) + Len(E)
        /\ \A i \in 1 .. Len(P) : Q[i] = P[i]
        /\ \A i \in 1 .. Len(E) : Q[i + Len(P)] = E[i]
    <3>1. E \in Seq(S) /\ P \in Seq(S)
      BY <2>6, <2>a
    <3>2. Q \in Seq(S)
      BY <3>1, Junta
    <3>3. Len(Q) = Len(P) + Len(E)
      BY <3>1, Junta
    <3>4. \A i \in 1 .. Len(P) : Q[i] = P[i]
      BY <3>1, Junta
    <3>5. \A i \in 1 .. Len(E) : Q[i + Len(P)] = E[i]
      BY <3>1, Junta
    <3> QED
      BY <3>2, <3>3, <3>4, <3>5
  <2> HIDE DEF Q
  <2>9. /\ Len(Q) = n + 1 /\ Q[1] = A[1] /\ Q[n + 1] = E[1]
        /\ \A i \in 1 .. n - o : Q[i + 1] = B[i]
        /\ \A i \in 1 .. o - 1 : Q[i + (1 + (n - o))] = C[i]
    <3>1. Len(A) + Len(B) = 1 + (n - o)
      BY <1>1, <2>2, <2>3, <2>4
    <3>2. 1 \in 1 .. Len(A) /\ 1 \in 1 .. Len(E) /\ 1 + n = n + 1 /\ 1 \in 1 .. n
      BY <1>1, <2>2, <2>3
    <3>3. Q[1] = A[1] /\ Q[1 + n] = E[1]
      <4>1. Q[1] = P[1] /\ Q[1 + Len(P)] = E[1]
        BY <2>a, <2>b, <3>2
      <4>2. P[1] = A[1]
        BY <2>7, <3>2
      <4> QED
        BY <2>a, <4>1, <4>2
    <3>4. ASSUME NEW i \in 1 .. n - o PROVE Q[i + 1] = B[i]
      <4>1. i + 1 \in 1 .. n /\ i \in 1 .. Len(B)
        BY <1>1, <2>2, <2>4
      <4> QED
        BY <2>3, <2>7, <2>a, <2>b, <4>1
    <3>5. ASSUME NEW i \in 1 .. o - 1 PROVE Q[i + (1 + (n - o))] = C[i]
      <4>1. i + (1 + (n - o)) \in 1 .. n /\ i \in 1 .. Len(C)
        BY <1>1, <2>2, <2>5
      <4> QED
        BY <2>7, <2>a, <2>b, <3>1, <4>1
    <3> QED
      BY <2>3, <2>a, <2>b, <3>2, <3>3, <3>4, <3>5
  <2>10. ASSUME NEW i \in 2 .. n - o + 1 PROVE Q[i] = Livre(dirs[o + i - 1])
    <3>1. i - 1 \in 1 .. n - o /\ (i - 1) + 1 = i /\ o + (i - 1) = o + i - 1
      BY <1>1, <2>2
    <3> QED
      BY <2>4, <2>9, <3>1
  <2>11. ASSUME NEW i \in n - o + 2 .. n PROVE Q[i] = Livre(dirs[i - (n - o + 1)])
    <3> DEFINE j == i - (n - o + 1)
    <3>1. j \in 1 .. o - 1 /\ j + (1 + (n - o)) = i
      BY <1>1, <2>2
    <3> HIDE DEF j
    <3>2. Q[j + (1 + (n - o))] = Livre(dirs[j])
      BY <2>5, <2>9, <3>1
    <3> QED
      BY <3>1, <3>2 DEF j
  <2> QED
    BY <1>3, <2>3, <2>b, <2>8, <2>9, <2>10, <2>11 DEF o, n, S
<1>4. CASE c.dir \notin ToSet(dirs)
  <2>1. Rotacao(c) = [i \in 1 .. n |-> Livre(dirs[i])]
    BY <1>1, <1>2, <1>4 DEF Rotacao, Livre
  <2>2. \A i \in 1 .. n : Livre(dirs[i]) \in Paradas(dirs, c)
    BY <1>1 DEF Livre, Trecho, Paradas, ToSet
  <2> HIDE DEF n
  <2>3. Rotacao(c) \in Seq(Paradas(dirs, c))
    BY <1>1, <2>1, <2>2
  <2> QED
    BY <1>1, <1>4, <2>1, <2>3 DEF n
<1> QED
  BY <1>3, <1>4

\* A file is in just one segment of a rotation, the one Turno names.
LEMMA TurnoAlcance ==
  ASSUME DirsBem(dirs), Distintas(dirs), NEW c, CursorBom(dirs, c), NEW a \in Lugares(dirs), NEW i \in 1 .. Len(Rotacao(c))
  PROVE  a \in Alcance(dirs, Rotacao(c)[i]) <=> i = Turno(dirs, c, a)
<1> DEFINE n == Len(dirs)
           o == Onde(dirs, c.dir)
           d == Onde(dirs, a.dir)
           R == Rotacao(c)
<1>1. n \in Nat /\ DOMAIN dirs = 1 .. n
  BY DEF DirsBem
<1>2. d \in 1 .. n /\ dirs[d] = a.dir
  BY OndeEsta DEF Lugares
<1>3. \A j, k \in 1 .. n : dirs[j] = dirs[k] => j = k
  BY <1>1 DEF Distintas
<1>4. \A e : a \in Alcance(dirs, Livre(e)) <=> a.dir = e
  BY DEF Alcance, Livre, Trecho
<1> HIDE DEF n, d
<1>5. CASE c.dir \notin ToSet(dirs)
  <2>1. Len(R) = n /\ R[i] = Livre(dirs[i])
    BY <1>5, RotacaoForma DEF n
  <2> HIDE DEF R
  <2>2. a \in Alcance(dirs, R[i]) <=> a.dir = dirs[i]
    BY <1>4, <2>1
  <2> QED
    BY <1>2, <1>3, <1>5, <2>1, <2>2 DEF Turno, d, R
<1>6. CASE c.dir \in ToSet(dirs)
  <2>1. o \in 1 .. n /\ dirs[o] = c.dir
    BY <1>6, OndeEsta DEF n
  <2>2. c.path # <<>>
    BY <1>6, ArquivoAssumption DEF CursorBom, Cursor, Lugares
  <2>3. /\ Len(R) = n + 1
        /\ R[1] = Trecho(c.dir, c.path, <<>>) /\ R[n + 1] = Trecho(c.dir, <<>>, c.path)
        /\ \A k \in 2 .. n - o + 1 : R[k] = Livre(dirs[o + k - 1])
        /\ \A k \in n - o + 2 .. n : R[k] = Livre(dirs[k - (n - o + 1)])
    BY <1>6, RotacaoForma DEF n
  <2>4. a \in Alcance(dirs, R[1]) <=> a.dir = c.dir /\ pathLess(c.path, a.rel)
    BY <2>2, <2>3 DEF Alcance, Trecho
  <2>5. a \in Alcance(dirs, R[n + 1]) <=> a.dir = c.dir /\ ~pathLess(c.path, a.rel)
    BY <2>2, <2>3 DEF Alcance, Trecho
  <2>6. a.dir = c.dir <=> d = o
    BY <1>2, <1>3, <2>1
  <2> DEFINE pa == pathLess(c.path, a.rel)
             t == Turno(dirs, c, a)
  <2>7. t = IF d > o THEN d - o + 1 ELSE IF d < o THEN d + n - o + 1
            ELSE IF pa THEN 1 ELSE n + 1
    BY <1>6 DEF Turno, d, n
  <2>a. (a \in Alcance(dirs, R[1]) <=> d = o /\ pa) /\ (a \in Alcance(dirs, R[n + 1]) <=> d = o /\ ~pa)
    BY <2>4, <2>5, <2>6
  <2> HIDE DEF o, R, pa, t
  <2>b. (d = o /\ pa <=> t = 1) /\ (d = o /\ ~pa <=> t = n + 1)
    BY <1>1, <1>2, <2>1, <2>7
  <2>8. CASE i = 1
    BY <2>a, <2>b, <2>8 DEF R, t
  <2>9. CASE i = n + 1
    BY <2>a, <2>b, <2>9 DEF R, t
  <2>10. CASE i \in 2 .. n - o + 1
    <3>1. o + i - 1 \in 1 .. n
      BY <1>1, <2>1, <2>10
    <3>2. a \in Alcance(dirs, R[i]) <=> a.dir = dirs[o + i - 1]
      BY <1>4, <2>3, <2>10
    <3>3. a \in Alcance(dirs, R[i]) <=> d = o + i - 1
      BY <1>2, <1>3, <3>1, <3>2
    <3>4. d = o + i - 1 <=> t = i
      BY <1>1, <1>2, <2>1, <2>7, <2>10
    <3> QED
      BY <3>3, <3>4 DEF R, t
  <2>11. CASE i \in n - o + 2 .. n
    <3>1. i - (n - o + 1) \in 1 .. n
      BY <1>1, <2>1, <2>11
    <3>2. a \in Alcance(dirs, R[i]) <=> a.dir = dirs[i - (n - o + 1)]
      BY <1>4, <2>3, <2>11
    <3>3. a \in Alcance(dirs, R[i]) <=> d = i - (n - o + 1)
      BY <1>2, <1>3, <3>1, <3>2
    <3>4. d = i - (n - o + 1) <=> t = i
      BY <1>1, <1>2, <2>1, <2>7, <2>11
    <3> QED
      BY <3>3, <3>4 DEF R, t
  <2>12. i \in 1 .. n + 1
    BY <2>3 DEF R
  <2> QED
    BY <1>1, <2>1, <2>8, <2>9, <2>10, <2>11, <2>12 DEF R
<1> QED
  BY <1>5, <1>6

\* How many segments a rotation has.
Total(ds, c) == IF c.dir \in ToSet(ds) THEN Len(ds) + 1 ELSE Len(ds)

\* Every file within reach is in one of them.
LEMMA TurnoTipo ==
  ASSUME NEW ds, DirsBem(ds), NEW c, NEW a \in Lugares(ds)
  PROVE  Turno(ds, c, a) \in 1 .. Total(ds, c) /\ Total(ds, c) \in Nat
<1> DEFINE n == Len(ds)
           o == Onde(ds, c.dir)
           d == Onde(ds, a.dir)
<1>1. n \in Nat
  BY DEF DirsBem
<1>2. d \in 1 .. n
  BY OndeEsta DEF Lugares
<1>3. c.dir \in ToSet(ds) => o \in 1 .. n
  BY OndeEsta
<1>4. Total(ds, c) = IF c.dir \in ToSet(ds) THEN n + 1 ELSE n
  BY DEF Total
<1>5. Turno(ds, c, a) = IF c.dir \notin ToSet(ds) THEN d ELSE
                    IF d > o THEN d - o + 1 ELSE IF d < o THEN d + n - o + 1
                    ELSE IF pathLess(c.path, a.rel) THEN 1 ELSE n + 1
  BY DEF Turno
<1> HIDE DEF n, o, d
<1> QED
  BY <1>1, <1>2, <1>3, <1>4, <1>5

\* The order of the lap is that of the segments, and within one that of the tree.
LEMMA TurnoVolta ==
  ASSUME NEW ds, DirsBem(ds), Distintas(ds), NEW c, NEW a \in Lugares(ds), NEW b \in Lugares(ds),
         \/ Turno(ds, c, a) < Turno(ds, c, b)
         \/ Turno(ds, c, a) = Turno(ds, c, b) /\ pathLess(a.rel, b.rel)
  PROVE  Volta(ds, c, a, b)
<1> DEFINE n == Len(ds)
           o == Onde(ds, c.dir)
           d == Onde(ds, a.dir)
           e == Onde(ds, b.dir)
<1>1. n \in Nat /\ d \in 1 .. n /\ e \in 1 .. n /\ ds[d] = a.dir /\ ds[e] = b.dir
  BY OndeEsta DEF Lugares, DirsBem
<1>2. c.dir \in ToSet(ds) => o \in 1 .. n /\ ds[o] = c.dir
  BY OndeEsta
<1>3. Precede(ds, a, b) <=> d < e \/ (a.dir = b.dir /\ pathLess(a.rel, b.rel))
  BY DEF Precede
<1>4. /\ Depois(ds, c, a) <=> (c.dir \in ToSet(ds) => o < d \/ (c.dir = a.dir /\ pathLess(c.path, a.rel)))
      /\ Depois(ds, c, b) <=> (c.dir \in ToSet(ds) => o < e \/ (c.dir = b.dir /\ pathLess(c.path, b.rel)))
  BY DEF Depois
<1>5. /\ Turno(ds, c, a) = IF c.dir \notin ToSet(ds) THEN d ELSE
                       IF d > o THEN d - o + 1 ELSE IF d < o THEN d + n - o + 1
                       ELSE IF pathLess(c.path, a.rel) THEN 1 ELSE n + 1
      /\ Turno(ds, c, b) = IF c.dir \notin ToSet(ds) THEN e ELSE
                       IF e > o THEN e - o + 1 ELSE IF e < o THEN e + n - o + 1
                       ELSE IF pathLess(c.path, b.rel) THEN 1 ELSE n + 1
  BY DEF Turno
<1> HIDE DEF n, o, d, e
<1>6. CASE c.dir \notin ToSet(ds)
  <2>1. d < e \/ (a.dir = b.dir /\ pathLess(a.rel, b.rel))
    BY <1>1, <1>5, <1>6
  <2> QED
    BY <1>3, <1>4, <1>6, <2>1 DEF Volta
<1>7. CASE c.dir \in ToSet(ds)
  <2> DEFINE pa == pathLess(c.path, a.rel)
             pb == pathLess(c.path, b.rel)
             ab == pathLess(a.rel, b.rel)
  <2>1. (a.dir = c.dir <=> d = o) /\ (b.dir = c.dir <=> e = o) /\ (d = e => a.dir = b.dir)
    BY <1>1, <1>2, <1>7 DEF o, d, e
  <2> HIDE DEF pa, pb, ab
  <2> QED
    BY <1>1, <1>2, <1>3, <1>4, <1>5, <1>7, <2>1 DEF Volta, pa, pb, ab
<1> QED
  BY <1>6, <1>7

-----------------------------------------------------------------------------
(* The lap that goes on from a cursor, as an order of the files.            *)

\* A place within reach: its folder and path tell it, and it is no folder.
LEMMA LugarTipo ==
  ASSUME NEW ds, NEW a \in Lugares(ds)
  PROVE  /\ a \in Arquivo /\ a.dir \in ToSet(ds) /\ a.rel \in Caminho /\ a.rel # <<>>
         /\ \A b \in Lugares(ds) : a.dir = b.dir /\ a.rel = b.rel => a = b
         /\ \A b \in Lugares(ds) : a.dir = b.dir => ~IsStrictPrefix(a.rel, b.rel)
<1>1. a \in Arquivo /\ a.dir \in ToSet(ds) /\ a.rel \in Caminho /\ a.rel # <<>>
  BY ArquivoAssumption DEF Lugares, Caminho, Nome
<1>2. ASSUME NEW b \in Lugares(ds), a.dir = b.dir, a.rel = b.rel PROVE a = b
  <2>1. a = [dir |-> a.dir, rel |-> a.rel] /\ b = [dir |-> b.dir, rel |-> b.rel]
    BY ArquivoAssumption DEF Lugares
  <2> QED
    BY <1>2, <2>1
<1>3. \A b \in Lugares(ds) : a.dir = b.dir => ~IsStrictPrefix(a.rel, b.rel)
  BY ArquivoAssumption DEF Lugares
<1> QED
  BY <1>1, <1>2, <1>3

\* The tree is in one order.
LEMMA PrecedeOrdem ==
  ASSUME NEW ds, DirsBem(ds), NEW a \in Lugares(ds), NEW b \in Lugares(ds)
  PROVE  /\ ~Precede(ds, a, a)
         /\ a # b => Precede(ds, a, b) \/ Precede(ds, b, a)
         /\ \A c \in Lugares(ds) : Precede(ds, a, b) /\ Precede(ds, b, c) => Precede(ds, a, c)
<1>1. \A x \in Lugares(ds) : Onde(ds, x.dir) \in 1 .. Len(ds) /\ ds[Onde(ds, x.dir)] = x.dir
  BY OndeEsta DEF Lugares
<1>2. \A x, y \in Lugares(ds) : Onde(ds, x.dir) = Onde(ds, y.dir) <=> x.dir = y.dir
  BY <1>1
<1>3. \A x \in Lugares(ds) : Onde(ds, x.dir) \in Nat
  BY <1>1
<1>4. ~Precede(ds, a, a)
  BY <1>3, LugarTipo, pathLessEstrita DEF Precede
<1>5. ASSUME a # b PROVE Precede(ds, a, b) \/ Precede(ds, b, a)
  <2>1. CASE a.dir = b.dir
    BY <1>5, <2>1, LugarTipo, pathLessTotal DEF Precede
  <2>2. CASE a.dir # b.dir
    BY <1>2, <1>3, <2>2 DEF Precede
  <2> QED
    BY <2>1, <2>2
<1>6. ASSUME NEW c \in Lugares(ds), Precede(ds, a, b), Precede(ds, b, c) PROVE Precede(ds, a, c)
  <2>1. CASE a.dir = b.dir /\ b.dir = c.dir
    <3>1. pathLess(a.rel, b.rel) /\ pathLess(b.rel, c.rel)
      BY <1>3, <1>6, <2>1 DEF Precede
    <3> QED
      BY <2>1, <3>1, LugarTipo, pathLessTransitiva DEF Precede
  <2>2. CASE ~(a.dir = b.dir /\ b.dir = c.dir)
    BY <1>3, <1>6, <2>2 DEF Precede
  <2> QED
    BY <2>1, <2>2
<1> QED
  BY <1>4, <1>5, <1>6

\* To come after a place as a cursor is to come after it in the tree.
LEMMA DepoisDe ==
  ASSUME NEW ds, NEW p \in Lugares(ds), NEW a
  PROVE  Depois(ds, Cursor(p), a) <=> Precede(ds, p, a)
BY LugarTipo DEF Depois, Precede, Cursor

\* The lap goes on from where it is: if f comes no later than h, and h before g,
\* then f is not g, and from f on h still comes before g.
LEMMA VoltaSegue ==
  ASSUME NEW ds, DirsBem(ds), NEW p \in Lugares(ds), NEW f \in Lugares(ds), NEW h \in Lugares(ds), NEW g \in Lugares(ds),
         h # g, f = h \/ Volta(ds, Cursor(p), f, h), Volta(ds, Cursor(p), h, g)
  PROVE  f # g /\ (h # f => Volta(ds, Cursor(f), h, g))
<1>1. \A a, b \in Lugares(ds) : a # b => Precede(ds, a, b) \/ Precede(ds, b, a)
  BY PrecedeOrdem
<1>2. \A a \in Lugares(ds) : ~Precede(ds, a, a)
  BY PrecedeOrdem
<1>3. \A a, b, c \in Lugares(ds) : Precede(ds, a, b) /\ Precede(ds, b, c) => Precede(ds, a, c)
  BY PrecedeOrdem
<1>4. /\ \A a \in Lugares(ds) : Depois(ds, Cursor(p), a) <=> Precede(ds, p, a)
      /\ \A a \in Lugares(ds) : Depois(ds, Cursor(f), a) <=> Precede(ds, f, a)
  BY DepoisDe
<1> QED
  BY <1>1, <1>2, <1>3, <1>4 DEF Volta

\* The same of a cycle that began at c and is at p now.
LEMMA VoltaDoCiclo ==
  ASSUME NEW ds, DirsBem(ds), NEW c, CursorBom(ds, c), NEW p \in Lugares(ds), NEW f \in Lugares(ds), NEW h \in Lugares(ds),
         Volta(ds, c, p, f), Volta(ds, c, p, h) => f = h \/ Volta(ds, c, f, h),
         NEW g \in Lugares(ds), h # g, Volta(ds, Cursor(p), h, g)
  PROVE  f # g /\ (h # f => Volta(ds, Cursor(f), h, g))
<1>1. \A a, b \in Lugares(ds) : a # b => Precede(ds, a, b) \/ Precede(ds, b, a)
  BY PrecedeOrdem
<1>2. \A a \in Lugares(ds) : ~Precede(ds, a, a)
  BY PrecedeOrdem
<1>3. \A a, b, d \in Lugares(ds) : Precede(ds, a, b) /\ Precede(ds, b, d) => Precede(ds, a, d)
  BY PrecedeOrdem
<1>4. \A a \in Lugares(ds) : Depois(ds, Cursor(p), a) <=> Precede(ds, p, a)
  BY DepoisDe
<1>5. h # p
  BY <1>2, <1>4 DEF Volta
<1>6. f = h \/ Volta(ds, Cursor(p), f, h)
  <2>1. CASE c.dir \notin ToSet(ds)
    <3>1. \A a \in Lugares(ds) : Depois(ds, c, a)
      BY <2>1 DEF Depois
    <3> QED
      BY <1>1, <1>2, <1>3, <1>4, <1>5, <3>1 DEF Volta
  <2>2. CASE c.dir \in ToSet(ds)
    <3>1. PICK q \in Lugares(ds) : c = Cursor(q)
      BY <2>2 DEF CursorBom
    <3>2. \A a \in Lugares(ds) : Depois(ds, c, a) <=> Precede(ds, q, a)
      BY <3>1, DepoisDe
    <3> QED
      BY <1>1, <1>2, <1>3, <1>4, <1>5, <3>2 DEF Volta
  <2> QED
    BY <2>1, <2>2
<1> QED
  BY <1>6, VoltaSegue

\* f itself comes last after f.
LEMMA VoltaCompleta ==
  ASSUME NEW ds, DirsBem(ds), NEW f \in Lugares(ds), NEW h \in Lugares(ds), h # f
  PROVE  Volta(ds, Cursor(f), h, f)
BY PrecedeOrdem, DepoisDe DEF Volta

\* The order of a lap is one of the places.
LEMMA VoltaOrdem ==
  ASSUME NEW ds, DirsBem(ds), NEW c, CursorBom(ds, c), NEW a \in Lugares(ds), NEW b \in Lugares(ds)
  PROVE  /\ ~(Volta(ds, c, a, b) /\ Volta(ds, c, b, a))
         /\ \A d \in Lugares(ds) : Volta(ds, c, a, b) /\ Volta(ds, c, b, d) => Volta(ds, c, a, d)
<1>2. \A x \in Lugares(ds) : ~Precede(ds, x, x)
  BY PrecedeOrdem
<1>3. \A x, y, d \in Lugares(ds) : Precede(ds, x, y) /\ Precede(ds, y, d) => Precede(ds, x, d)
  BY PrecedeOrdem
<1>4. CASE c.dir \notin ToSet(ds)
  <2>1. \A x \in Lugares(ds) : Depois(ds, c, x)
    BY <1>4 DEF Depois
  <2> QED
    BY <1>2, <1>3, <2>1 DEF Volta
<1>5. CASE c.dir \in ToSet(ds)
  <2>1. PICK q \in Lugares(ds) : c = Cursor(q)
    BY <1>5 DEF CursorBom
  <2>2. \A x \in Lugares(ds) : Depois(ds, c, x) <=> Precede(ds, q, x)
    BY <2>1, DepoisDe
  <2> QED
    BY <1>2, <1>3, <2>2 DEF Volta
<1> QED
  BY <1>4, <1>5

-----------------------------------------------------------------------------
(* No nota is done by half.                                                 *)

\* The chave has the emitter in it, and the sender signs the recipient: two XMLs
\* of one nota name the same parties.
ChaveIdentifica ==
  \A x, y \in Xml : x.chave # Nenhum /\ x.chave = y.chave => x.emit = y.emit /\ x.dest = y.dest

\* What the proof of NeverHalf needs of the type.
Tipado ==
  /\ origem \in [Arquivo -> Xml \cup {Nenhum}]
  /\ journal = [cursor |-> journal.cursor, done |-> journal.done, dryPlanned |-> journal.dryPlanned]

\* Every client branch x names has its copy and its row.
Inteira(x, feitas) ==
  \A f \in Filiais :
    f.cnpj \in Documento /\ f.cnpj \in {x.emit, x.dest} =>
      /\ Empresas # {} => f.emp \in Empresas
      /\ \E e \in feitas : e.chave = x.chave /\ e.emp = f.emp /\ e.fil = f.fil

\* A plan names all client branches of its XML.
PlanoDe(plan, x) ==
  /\ plan.chave = x.chave /\ x.chave # Nenhum
  /\ \A g \in Clientes(x) : Participacao(x, g) \in plan.participacoes
  /\ \A g \in Clientes(x) : Empresas # {} => g.emp \in Empresas

\* A skip keeps its reason.
LEMMA PlanoPulado ==
  ASSUME NEW x, NEW motivo
  PROVE  Pulo(x, motivo).skip = motivo /\ [Pulo(x, motivo) EXCEPT !.chave = Nenhum].skip = motivo
BY DEF Pulo

\* A plan without a reason to skip is for an XML that parses, and complete.
LEMMA PlanoCompleto ==
  ASSUME NEW x, PlanFile(x, TRUE).skip = ""
  PROVE  PlanoDe(PlanFile(x, TRUE), x) /\ x.parse
<1>1. x.parse
  BY PlanoPulado DEF PlanFile
<1>2. x.chave # Nenhum
  BY <1>1, PlanoPulado DEF PlanFile
<1>3. /\ x.doc \in pilotDocTypes /\ x.mes # Nenhum /\ (AllowStale \/ dentroDaJanela(x.mes))
      /\ ~\E g \in Clientes(x) : Destino(x, g) = Nenhum
      /\ Clientes(x) # {}
  BY <1>1, <1>2, PlanoPulado DEF PlanFile
<1>4. ~(Empresas # {} /\ \E g \in Clientes(x) : g.emp \notin Empresas)
  BY <1>1, <1>2, <1>3, PlanoPulado DEF PlanFile
<1>5. PlanFile(x, TRUE) = [chave |-> x.chave, skip |-> "",
                           participacoes |-> {Participacao(x, g) : g \in Clientes(x)}]
  BY <1>1, <1>2, <1>3, <1>4 DEF PlanFile
<1> DEFINE P == {Participacao(x, g) : g \in Clientes(x)}
           plan == PlanFile(x, TRUE)
<1>6. plan = [chave |-> x.chave, skip |-> "", participacoes |-> P]
  BY <1>5
<1>7. \A g \in Clientes(x) : Participacao(x, g) \in P
  OBVIOUS
<1> HIDE DEF P, plan
<1>8. plan.chave = x.chave /\ plan.participacoes = P
  BY <1>6
<1>9. \A g \in Clientes(x) : Empresas # {} => g.emp \in Empresas
  BY <1>4
<1>10. PlanoDe(plan, x)
  BY <1>2, <1>7, <1>8, <1>9 DEF PlanoDe
<1> QED
  BY <1>1, <1>10 DEF plan

\* So it is for what a file holds.
LEMMA PlanoInteiro ==
  ASSUME Tipado, NEW f, Plano(f).skip = ""
  PROVE  \E x \in Xml : PlanoDe(Plano(f), x)
<1>1. Conteudo(f) \in Xml \cup {Ausente}
  BY DEF Tipado, Conteudo, Presentes
<1>2. Plano(f) = PlanFile(Conteudo(f), TRUE)
  BY <1>1 DEF Plano, Planos
<1>3. PlanoDe(Plano(f), Conteudo(f)) /\ Conteudo(f).parse
  BY <1>2, PlanoCompleto
<1>4. Conteudo(f) # Ausente
  <2>1. Ausente.parse = FALSE
    BY DEF Ausente
  <2> QED
    BY <1>3, <2>1
<1> QED
  BY <1>1, <1>3, <1>4

\* A nota that Execute completes is whole.
LEMMA ExecutaInteira ==
  ASSUME Tipado, NEW f, Trata(Plano(f)), ExecuteOk(f, Plano(f)), ChaveIdentifica,
         NEW y \in Xml, y.chave = Plano(f).chave
  PROVE  Inteira(y, copias')
<1>1. PICK x \in Xml : PlanoDe(Plano(f), x)
  BY PlanoInteiro DEF Trata
<1>2. y.emit = x.emit /\ y.dest = x.dest
  BY <1>1 DEF ChaveIdentifica, PlanoDe
<1>3. ASSUME NEW g \in Filiais, g.cnpj \in Documento, g.cnpj \in {y.emit, y.dest}
      PROVE  /\ Empresas # {} => g.emp \in Empresas
             /\ \E e \in copias' : e.chave = y.chave /\ e.emp = g.emp /\ e.fil = g.fil
  <2>1. g \in Clientes(x)
    BY <1>2, <1>3 DEF Clientes
  <2> DEFINE p == Participacao(x, g)
             e == [chave |-> Plano(f).chave, emp |-> p.emp, fil |-> p.fil, dest |-> p.dest]
  <2>2. p \in Plano(f).participacoes
    BY <1>1, <2>1 DEF PlanoDe
  <2>3. e \in copias'
    BY <2>2 DEF ExecuteOk, Efeitos
  <2>4. e.chave = y.chave /\ e.emp = g.emp /\ e.fil = g.fil
    BY DEF Participacao
  <2> QED
    BY <1>1, <2>1, <2>3, <2>4 DEF PlanoDe
<1> QED
  BY <1>3 DEF Inteira

\* Copies stay.
LEMMA InteiraFica ==
  ASSUME NEW x, NEW A, NEW B, A \subseteq B, Inteira(x, A)
  PROVE  Inteira(x, B)
BY DEF Inteira

\* The property in terms of Inteira.
LEMMA NeverHalfSse == NeverHalf <=> \A x \in {y \in Xml : y.chave \in journal.done} : Inteira(x, copias)
BY DEF NeverHalf, Inteira

\* What a step does: it keeps the done marks and adds copies, or it completes
\* one nota.
LEMMA Passos ==
  ASSUME Tipado, [Next]_vars
  PROVE  /\ Tipado'
         /\ copias \subseteq copias'
         /\ \/ journal'.done = journal.done
            \/ \E f : /\ Trata(Plano(f)) /\ ExecuteOk(f, Plano(f))
                      /\ journal'.done = journal.done \cup {Plano(f).chave}
<1> DEFINE Bem == /\ Tipado'
                  /\ copias \subseteq copias'
                  /\ \/ journal'.done = journal.done
                     \/ \E f : /\ Trata(Plano(f)) /\ ExecuteOk(f, Plano(f))
                               /\ journal'.done = journal.done \cup {Plano(f).chave}
<1>1. ASSUME NEW f, Trata(Plano(f)), ExecuteOk(f, Plano(f)) PROVE Bem
  BY <1>1 DEF ExecuteOk, Tipado
<1>2. ASSUME NEW plan, DryRun(plan) \/ ExecuteErro(plan) PROVE Bem
  BY <1>2 DEF DryRun, ExecuteErro, Tipado
<1>3. CASE SweepBegin \/ SegmentBegin \/ SegmentEnd \/ WorklistBegin \/ WorklistEnd
  BY <1>3 DEF SweepBegin, SegmentBegin, SegmentEnd, WorklistBegin, WorklistEnd, Passo, Mundo, Tipado
<1>4. CASE SweepEnd
  BY <1>4 DEF SweepEnd, Tipado
<1>5. CASE VisitDir
  BY <1>5 DEF VisitDir, Passo, Mundo, Tipado
<1>6. CASE VisitFile
  <2> DEFINE f == Lugar(Segmento.dir, Entrada)
  <2>1. \/ UNCHANGED <<origem, copias, journal>>
        \/ Trata(Plano(f)) /\ (DryRun(Plano(f)) \/ ExecuteOk(f, Plano(f)) \/ ExecuteErro(Plano(f)))
    BY <1>6 DEF VisitFile, Passo, Mundo
  <2> QED
    BY <2>1, <1>1, <1>2 DEF Tipado
<1>7. CASE RunItem
  <2> DEFINE f == Head(ciclo.itens).path
  <2>1. \/ UNCHANGED <<origem, copias, journal>>
        \/ Trata(Plano(f)) /\ (DryRun(Plano(f)) \/ ExecuteOk(f, Plano(f)) \/ ExecuteErro(Plano(f)))
    BY <1>7 DEF RunItem
  <2> QED
    BY <2>1, <1>1, <1>2 DEF Tipado
<1>8. ASSUME NEW f \in Arquivo, NEW x \in Xml, Chega(f, x) PROVE Bem
  BY <1>8 DEF Chega, Tipado
<1>9. ASSUME NEW f \in Arquivo, Some(f) \/ AgenteVe(f) PROVE Bem
  BY <1>9 DEF Some, AgenteVe, Tipado
<1>10. ASSUME NEW d, Reinicia(d) PROVE Bem
  BY <1>10 DEF Reinicia, Tipado
<1>11. CASE UNCHANGED vars
  BY <1>11 DEF vars, Tipado
<1> QED
  BY <1>3, <1>4, <1>5, <1>6, <1>7, <1>8, <1>9, <1>10, <1>11 DEF Next, Syncer, Entorno

\* "no multi-participacao nao se sincroniza pela metade": a done mark is set with
\* all copies and rows of the nota in place, whatever an earlier attempt left,
\* and none of them is outside the allowlist.
THEOREM NeverHalfHolds ==
  ASSUME ChaveIdentifica
  PROVE  Spec => []NeverHalf
<1>1. Init => Tipado /\ NeverHalf
  BY XmlInicialAssumption DEF Init, Tipado, NeverHalf
<1>2. ChaveIdentifica
  OBVIOUS
<1>3. ASSUME Tipado, NeverHalf, [Next]_vars PROVE Tipado' /\ NeverHalf'
  <2>1. ASSUME NEW y \in Xml, y.chave \in journal'.done PROVE Inteira(y, copias')
    <3>1. CASE y.chave \in journal.done
      BY <1>3, <3>1, Passos, InteiraFica, NeverHalfSse
    <3>2. CASE y.chave \notin journal.done
      BY <1>2, <1>3, <2>1, <3>2, Passos, ExecutaInteira
    <3> QED
      BY <3>1, <3>2
  <2>2. NeverHalf'
    BY <2>1 DEF NeverHalf, Inteira
  <2> QED
    BY <1>3, <2>2, Passos
<1> QED
  BY <1>1, <1>3, PTL DEF Spec

-----------------------------------------------------------------------------
(* What the state is made of.                                               *)

\* The cursors, the folders, the bounds of a segment and the configurations there
\* may be.
Cursores == {Inicio} \cup {Cursor(p) : p \in Arquivo}
Pastas == UNION {ToSet(d) : d \in DirsPossiveis}
Vias == {<<>>} \cup {f.rel : f \in Arquivo}
Segmentos == [dir : Pastas, after : Vias, upto : Vias]
Cenarios == [modo : {"sweep", "worklist"}, dry : BOOLEAN, inicio : SUBSET Arquivo,
             maxScan : Nat \ {0}, maxPer : Nat \ {0}, limite : Nat \ {0},
             falhas : Nat, chegadas : Nat, sumicos : Nat]

\* Every entry of a stack of dir is above, or is, a place of dir.
DaPasta(pilha, dir) ==
  \A i \in 1 .. Len(pilha) :
    pilha[i] # <<>> /\ \E f \in Arquivo : f.dir = dir /\ IsPrefix(pilha[i], f.rel)

\* The type of what lies outside the cycle, and of the cycle.
MundoTipado ==
  /\ origem \in [Arquivo -> Xml \cup {Nenhum}]
  /\ journal \in [cursor : Cursores, done : SUBSET Chave, dryPlanned : SUBSET Chave]
  /\ rastreado \in [Chave -> [path : Arquivo \cup {Nenhum}, synced : BOOLEAN]]
  /\ dirs \in DirsPossiveis /\ cfg \in Cenarios
  /\ antigos \subseteq Arquivo /\ falta \in [Arquivo -> SUBSET Arquivo]

CicloTipado ==
  /\ ciclo = [pc |-> ciclo.pc, segs |-> ciclo.segs, pilha |-> ciclo.pilha, last |-> ciclo.last,
              scanned |-> ciclo.scanned, planned |-> ciclo.planned, itens |-> ciclo.itens]
  /\ ciclo.pc \in {"idle", "segmento", "walk", "lista"}
  /\ ciclo.segs \in Seq(Segmentos) /\ ciclo.pilha \in Seq(Caminho) /\ ciclo.last \in Cursores
  /\ ciclo.scanned \in 0 .. cfg.maxScan /\ ciclo.planned \in 0 .. cfg.maxPer
  /\ ciclo.pc = "walk" => ciclo.segs # <<>> /\ DaPasta(ciclo.pilha, Segmento.dir)
  /\ ciclo.pc # "lista" => ciclo.itens = <<>>

Quadro == MundoTipado /\ CicloTipado

\* The type says that the journal is a record.
LEMMA QuadroTipado ==
  ASSUME MundoTipado
  PROVE  Tipado
<1>1. journal \in [cursor : Cursores, done : SUBSET Chave, dryPlanned : SUBSET Chave]
  BY DEF MundoTipado
<1>2. journal = [cursor |-> journal.cursor, done |-> journal.done, dryPlanned |-> journal.dryPlanned]
  BY <1>1
<1> QED
  BY <1>2 DEF MundoTipado, Tipado

\* The folders allowed are as assumed.
LEMMA DirsDe ==
  ASSUME MundoTipado
  PROVE  DirsBem(dirs)
BY DirsAssumption DEF MundoTipado, DirsBem

\* What a rotation is made of.
LEMMA RotacaoTipo ==
  ASSUME MundoTipado, NEW c \in Cursores
  PROVE  Rotacao(c) \in Seq(Segmentos)
<1>1. Rotacao(c) \in Seq(Paradas(dirs, c))
  BY DirsDe, RotacaoForma
<1>2. c.path \in Vias
  BY DEF Cursores, Vias, Cursor, Inicio
<1>3. \A d \in ToSet(dirs) : d \in Pastas
  BY DEF MundoTipado, Pastas
<1>4. Paradas(dirs, c) \subseteq Segmentos
  BY <1>2, <1>3 DEF Paradas, Segmentos, Vias
<1> HIDE DEF Paradas
<1> QED
  BY <1>1, <1>4

\* The top of the stack and what is under it.
LEMMA Topo ==
  ASSUME NEW s \in Seq(Caminho), s # <<>>
  PROVE  /\ Head(s) \in Caminho /\ Head(s) = s[1] /\ 1 \in 1 .. Len(s)
         /\ Tail(s) \in Seq(Caminho) /\ Len(Tail(s)) = Len(s) - 1
         /\ \A i \in 1 .. Len(Tail(s)) : Tail(s)[i] = s[i + 1] /\ i + 1 \in 1 .. Len(s)
BY HeadTailProperties

\* What is under the top is of the same folder.
LEMMA TopoDaPasta ==
  ASSUME NEW s \in Seq(Caminho), s # <<>>, NEW d, DaPasta(s, d)
  PROVE  DaPasta(Tail(s), d)
BY Topo DEF DaPasta

\* A file is at its place.
LEMMA LugarAchado ==
  ASSUME Quadro, ciclo.pc = "walk", ciclo.pilha # <<>>, ~IsDir(Segmento.dir, Entrada)
  PROVE  LET f == Lugar(Segmento.dir, Entrada) IN
         f \in Arquivo /\ f.dir = Segmento.dir /\ f.rel = Entrada
<1>1. Entrada = ciclo.pilha[1] /\ 1 \in 1 .. Len(ciclo.pilha)
  BY Topo DEF Quadro, CicloTipado, Entrada
<1>2. PICK f \in Arquivo : f.dir = Segmento.dir /\ IsPrefix(Entrada, f.rel)
  BY <1>1 DEF Quadro, CicloTipado, DaPasta
<1>3. f.rel = Entrada
  BY <1>2 DEF IsDir, IsStrictPrefix
<1> QED
  BY <1>2, <1>3 DEF Lugar

\* What is done with a file leaves the state well formed, and takes no other
\* file away.
LEMMA Tratamento ==
  ASSUME Quadro, NEW f, Trata(Plano(f)),
         DryRun(Plano(f)) \/ ExecuteOk(f, Plano(f)) \/ ExecuteErro(Plano(f))
  PROVE  /\ origem' \in [Arquivo -> Xml \cup {Nenhum}]
         /\ journal' \in [cursor : Cursores, done : SUBSET Chave, dryPlanned : SUBSET Chave]
         /\ journal'.cursor = journal.cursor
         /\ rastreado' \in [Chave -> [path : Arquivo \cup {Nenhum}, synced : BOOLEAN]]
         /\ cfg' \in Cenarios
         /\ cfg'.modo = cfg.modo /\ cfg'.maxScan = cfg.maxScan /\ cfg'.maxPer = cfg.maxPer
         /\ \A h \in Arquivo : h # f => origem'[h] = origem[h]
<1> DEFINE k == Plano(f).chave
<1>1. k \in Chave
  <2>1. PICK x \in Xml : PlanoDe(Plano(f), x)
    BY QuadroTipado, PlanoInteiro DEF Trata, Quadro
  <2> QED
    BY <2>1 DEF PlanoDe, Chave
<1>2. /\ origem \in [Arquivo -> Xml \cup {Nenhum}]
      /\ journal \in [cursor : Cursores, done : SUBSET Chave, dryPlanned : SUBSET Chave]
      /\ rastreado \in [Chave -> [path : Arquivo \cup {Nenhum}, synced : BOOLEAN]]
      /\ cfg \in Cenarios
  BY DEF Quadro, MundoTipado
<1> HIDE DEF k
<1>3. CASE DryRun(Plano(f))
  <2>1. /\ journal' = [journal EXCEPT !.dryPlanned = @ \cup {k}]
        /\ UNCHANGED <<origem, copias, rastreado, cfg>>
    BY <1>3 DEF DryRun, k
  <2>2. /\ journal' \in [cursor : Cursores, done : SUBSET Chave, dryPlanned : SUBSET Chave]
        /\ journal'.cursor = journal.cursor
    BY <1>1, <1>2, <2>1
  <2> QED
    BY <1>2, <2>1, <2>2
<1>4. CASE ExecuteOk(f, Plano(f))
  <2>1. /\ origem' = [origem EXCEPT ![f] = Nenhum]
        /\ journal' = [journal EXCEPT !.done = @ \cup {k}]
        /\ rastreado' = [rastreado EXCEPT ![k].synced = TRUE]
        /\ UNCHANGED cfg
    BY <1>4 DEF ExecuteOk, k
  <2>2. /\ journal' \in [cursor : Cursores, done : SUBSET Chave, dryPlanned : SUBSET Chave]
        /\ journal'.cursor = journal.cursor
    BY <1>1, <1>2, <2>1
  <2>3. origem' \in [Arquivo -> Xml \cup {Nenhum}] /\ \A h \in Arquivo : h # f => origem'[h] = origem[h]
    BY <1>2, <2>1
  <2>4. rastreado' \in [Chave -> [path : Arquivo \cup {Nenhum}, synced : BOOLEAN]]
    BY <1>1, <1>2, <2>1
  <2> QED
    BY <1>2, <2>1, <2>2, <2>3, <2>4
<1>5. CASE ExecuteErro(Plano(f))
  <2>1. /\ UNCHANGED <<origem, journal, rastreado>>
        /\ cfg' = cfg \/ (cfg.falhas > 0 /\ cfg' = [cfg EXCEPT !.falhas = @ - 1])
    BY <1>5 DEF ExecuteErro
  <2>2. /\ cfg' \in Cenarios
        /\ cfg'.modo = cfg.modo /\ cfg'.maxScan = cfg.maxScan /\ cfg'.maxPer = cfg.maxPer
    BY <1>2, <2>1 DEF Cenarios
  <2> QED
    BY <1>2, <2>1, <2>2
<1> QED
  BY <1>3, <1>4, <1>5

\* What the environment and the restart do to what lies outside the cycle.
LEMMA PassoMundo ==
  ASSUME Quadro, Next
  PROVE  /\ MundoTipado'
         /\ cfg'.modo = cfg.modo /\ cfg'.maxScan = cfg.maxScan /\ cfg'.maxPer = cfg.maxPer
<1> DEFINE Bem == /\ MundoTipado'
                  /\ cfg'.modo = cfg.modo /\ cfg'.maxScan = cfg.maxScan /\ cfg'.maxPer = cfg.maxPer
<1>0. /\ origem \in [Arquivo -> Xml \cup {Nenhum}]
      /\ journal \in [cursor : Cursores, done : SUBSET Chave, dryPlanned : SUBSET Chave]
      /\ rastreado \in [Chave -> [path : Arquivo \cup {Nenhum}, synced : BOOLEAN]]
      /\ dirs \in DirsPossiveis /\ cfg \in Cenarios
      /\ antigos \subseteq Arquivo /\ falta \in [Arquivo -> SUBSET Arquivo]
      /\ ciclo.last \in Cursores
  BY DEF Quadro, MundoTipado, CicloTipado
<1>1. ASSUME cfg' = [cfg EXCEPT !.falhas = @ - 1], cfg.falhas > 0
      PROVE  cfg' \in Cenarios /\ cfg'.modo = cfg.modo /\ cfg'.maxScan = cfg.maxScan /\ cfg'.maxPer = cfg.maxPer
  BY <1>0, <1>1 DEF Cenarios
<1>2. CASE SweepBegin
  <2>1. antigos' = Presentes /\ UNCHANGED <<origem, journal, rastreado, dirs, cfg, falta>>
    BY <1>2 DEF SweepBegin, Mundo
  <2>2. Presentes \subseteq Arquivo
    BY DEF Presentes
  <2> QED
    BY <1>0, <2>1, <2>2 DEF MundoTipado
<1>3. CASE SegmentBegin \/ SegmentEnd \/ WorklistBegin \/ WorklistEnd
  <2>1. UNCHANGED <<origem, journal, rastreado, dirs, cfg, antigos, falta>>
    BY <1>3 DEF SegmentBegin, SegmentEnd, WorklistBegin, WorklistEnd, Passo, Mundo, historia
  <2> QED
    BY <1>0, <2>1 DEF MundoTipado
<1>4. CASE SweepEnd
  <2>1. /\ antigos' = {} /\ UNCHANGED <<origem, rastreado, dirs>>
        /\ \/ /\ journal' = journal \/ journal' = [journal EXCEPT !.cursor = ciclo.last]
              /\ UNCHANGED <<cfg, falta>>
           \/ /\ cfg.falhas > 0 /\ cfg' = [cfg EXCEPT !.falhas = @ - 1]
              /\ falta' = [f \in Arquivo |-> {}] /\ UNCHANGED journal
    BY <1>4 DEF SweepEnd
  <2>2. journal' \in [cursor : Cursores, done : SUBSET Chave, dryPlanned : SUBSET Chave]
    BY <1>0, <2>1
  <2>3. falta' \in [Arquivo -> SUBSET Arquivo]
    BY <1>0, <2>1
  <2> QED
    BY <1>0, <1>1, <2>1, <2>2, <2>3 DEF MundoTipado
<1>5. CASE VisitDir
  <2>1. /\ UNCHANGED <<origem, journal, rastreado, dirs, antigos>>
        /\ \/ UNCHANGED <<cfg, falta>>
           \/ /\ cfg.falhas > 0 /\ cfg' = [cfg EXCEPT !.falhas = @ - 1]
              /\ falta' = [f \in Arquivo |->
                   {g \in falta[f] : ~(g.dir = Segmento.dir /\ IsStrictPrefix(Entrada, g.rel))}]
    BY <1>5 DEF VisitDir, Passo, Mundo, historia
  <2>2. falta' \in [Arquivo -> SUBSET Arquivo]
    BY <1>0, <2>1
  <2> QED
    BY <1>0, <1>1, <2>1, <2>2 DEF MundoTipado
<1>6. CASE VisitFile
  <2> DEFINE f == Lugar(Segmento.dir, Entrada)
  <2>1. \/ UNCHANGED <<origem, journal, rastreado, dirs, cfg, antigos, falta>>
        \/ /\ UNCHANGED dirs /\ Examinado(f)
           /\ \/ UNCHANGED <<origem, journal, rastreado, cfg>>
              \/ Trata(Plano(f)) /\ (DryRun(Plano(f)) \/ ExecuteOk(f, Plano(f)) \/ ExecuteErro(Plano(f)))
    BY <1>6 DEF VisitFile, Passo, Mundo, historia
  <2> HIDE DEF f
  <2>2. CASE UNCHANGED <<origem, journal, rastreado, dirs, cfg, antigos, falta>>
    BY <1>0, <2>2 DEF MundoTipado
  <2>3. CASE UNCHANGED dirs /\ Examinado(f)
    <3>1. antigos' \subseteq Arquivo /\ falta' \in [Arquivo -> SUBSET Arquivo]
      BY <1>0, <2>3 DEF Examinado
    <3>2. CASE UNCHANGED <<origem, journal, rastreado, cfg>>
      BY <1>0, <2>3, <3>1, <3>2 DEF MundoTipado
    <3>3. CASE Trata(Plano(f)) /\ (DryRun(Plano(f)) \/ ExecuteOk(f, Plano(f)) \/ ExecuteErro(Plano(f)))
      BY <1>0, <2>3, <3>1, <3>3, Tratamento DEF MundoTipado
    <3> QED
      BY <2>1, <3>2, <3>3, <2>2
  <2> QED
    BY <2>1, <2>2, <2>3
<1>7. CASE RunItem
  <2> DEFINE f == Head(ciclo.itens).path
  <2>1. /\ UNCHANGED <<dirs, antigos, falta>>
        /\ \/ UNCHANGED <<origem, journal, rastreado, cfg>>
           \/ Trata(Plano(f)) /\ (DryRun(Plano(f)) \/ ExecuteOk(f, Plano(f)) \/ ExecuteErro(Plano(f)))
    BY <1>7 DEF RunItem, historia
  <2> HIDE DEF f
  <2>2. CASE UNCHANGED <<origem, journal, rastreado, cfg>>
    BY <1>0, <2>1, <2>2 DEF MundoTipado
  <2>3. CASE Trata(Plano(f)) /\ (DryRun(Plano(f)) \/ ExecuteOk(f, Plano(f)) \/ ExecuteErro(Plano(f)))
    BY <1>0, <2>1, <2>3, Tratamento DEF MundoTipado
  <2> QED
    BY <2>1, <2>2, <2>3
<1>8. ASSUME NEW f \in Arquivo, NEW x \in Xml, Chega(f, x) PROVE Bem
  <2>1. /\ origem' = [origem EXCEPT ![f] = x] /\ cfg.chegadas > 0 /\ cfg' = [cfg EXCEPT !.chegadas = @ - 1]
        /\ UNCHANGED <<journal, rastreado, dirs, antigos, falta>>
    BY <1>8 DEF Chega, historia
  <2>2. cfg' \in Cenarios /\ cfg'.modo = cfg.modo /\ cfg'.maxScan = cfg.maxScan /\ cfg'.maxPer = cfg.maxPer
    BY <1>0, <2>1 DEF Cenarios
  <2>3. origem' \in [Arquivo -> Xml \cup {Nenhum}]
    BY <1>0, <2>1
  <2> QED
    BY <1>0, <2>1, <2>2, <2>3 DEF MundoTipado
<1>9. ASSUME NEW f \in Arquivo, Some(f) PROVE Bem
  <2>1. /\ origem' = [origem EXCEPT ![f] = Nenhum] /\ cfg.sumicos > 0 /\ cfg' = [cfg EXCEPT !.sumicos = @ - 1]
        /\ antigos' = antigos \ {f} /\ falta' = [g \in Arquivo |-> falta[g] \ {f}]
        /\ UNCHANGED <<journal, rastreado, dirs>>
    BY <1>9 DEF Some
  <2>2. cfg' \in Cenarios /\ cfg'.modo = cfg.modo /\ cfg'.maxScan = cfg.maxScan /\ cfg'.maxPer = cfg.maxPer
    BY <1>0, <2>1 DEF Cenarios
  <2>3. origem' \in [Arquivo -> Xml \cup {Nenhum}] /\ falta' \in [Arquivo -> SUBSET Arquivo]
    BY <1>0, <2>1
  <2> QED
    BY <1>0, <2>1, <2>2, <2>3 DEF MundoTipado
<1>10. ASSUME NEW f \in Arquivo, AgenteVe(f) PROVE Bem
  <2> DEFINE c == Conteudo(f).chave
  <2>1. /\ rastreado' = [rastreado EXCEPT ![c].path = f]
        /\ UNCHANGED <<origem, journal, dirs, cfg, antigos, falta>>
    BY <1>10 DEF AgenteVe, historia
  <2> HIDE DEF c
  <2>2. rastreado' \in [Chave -> [path : Arquivo \cup {Nenhum}, synced : BOOLEAN]]
    BY <1>0, <2>1
  <2> QED
    BY <1>0, <2>1, <2>2 DEF MundoTipado
<1>11. ASSUME NEW d \in DirsPossiveis, Reinicia(d) PROVE Bem
  <2>1. /\ cfg.falhas > 0 /\ cfg' = [cfg EXCEPT !.falhas = @ - 1]
        /\ dirs' = d /\ antigos' = {} /\ (falta' = falta \/ falta' = [f \in Arquivo |-> {}])
        /\ UNCHANGED <<origem, journal, rastreado>>
    BY <1>11 DEF Reinicia
  <2> QED
    BY <1>0, <1>1, <2>1 DEF MundoTipado
<1> QED
  BY <1>2, <1>3, <1>4, <1>5, <1>6, <1>7, <1>8, <1>9, <1>10, <1>11 DEF Next, Syncer, Entorno

\* The fields of a cycle, one by one.
Campos(r, pc, segs, pilha, last, scanned, planned, itens) ==
  r = [pc |-> pc, segs |-> segs, pilha |-> pilha, last |-> last,
       scanned |-> scanned, planned |-> planned, itens |-> itens]

\* What a visit puts on the stack.
LEMMA Descida ==
  ASSUME Quadro, ciclo.pc = "walk", ciclo.pilha # <<>>, NEW s, s = ReadDir(Segmento.dir, Entrada)
  PROVE  /\ s \o Resto \in Seq(Caminho) /\ Len(s \o Resto) = Len(s) + Len(Resto) /\ Len(s) \in Nat
         /\ \A i \in 1 .. Len(s) : (s \o Resto)[i] = s[i]
         /\ \A i \in 1 .. Len(Resto) : (s \o Resto)[i + Len(s)] = Resto[i]
         /\ \A i \in 1 .. Len(s \o Resto) : i \in 1 .. Len(s) \/ i - Len(s) \in 1 .. Len(Resto)
<1>1. Entrada \in Caminho /\ Resto \in Seq(Caminho)
  BY Topo DEF Quadro, CicloTipado, Entrada, Resto
<1>2. s \in Seq(Caminho)
  BY <1>1, ReadDirLe
<1>3. s \o Resto \in Seq(Caminho) /\ Len(s \o Resto) = Len(s) + Len(Resto)
  BY <1>1, <1>2, Junta
<1>4. \A i \in 1 .. Len(s) : (s \o Resto)[i] = s[i]
  BY <1>1, <1>2, Junta
<1>5. \A i \in 1 .. Len(Resto) : (s \o Resto)[i + Len(s)] = Resto[i]
  BY <1>1, <1>2, Junta
<1>6. Len(s) \in Nat /\ Len(Resto) \in Nat
  BY <1>1, <1>2
<1>7. \A i \in 1 .. Len(s \o Resto) : i \in 1 .. Len(s) \/ i - Len(s) \in 1 .. Len(Resto)
  BY <1>3, <1>6
<1> QED
  BY <1>3, <1>4, <1>5, <1>6, <1>7

\* Every step keeps the cycle well formed.
LEMMA PassoCiclo ==
  ASSUME Quadro, Next
  PROVE  CicloTipado'
<1>0. /\ ciclo.pc \in {"idle", "segmento", "walk", "lista"}
      /\ ciclo.segs \in Seq(Segmentos) /\ ciclo.pilha \in Seq(Caminho) /\ ciclo.last \in Cursores
      /\ ciclo.scanned \in 0 .. cfg.maxScan /\ ciclo.planned \in 0 .. cfg.maxPer
      /\ ciclo.pc = "walk" => ciclo.segs # <<>> /\ DaPasta(ciclo.pilha, Segmento.dir)
      /\ ciclo.pc # "lista" => ciclo.itens = <<>>
      /\ Campos(ciclo, ciclo.pc, ciclo.segs, ciclo.pilha, ciclo.last, ciclo.scanned, ciclo.planned, ciclo.itens)
  BY DEF Quadro, CicloTipado, Campos
<1>1. cfg'.maxScan = cfg.maxScan /\ cfg'.maxPer = cfg.maxPer /\ cfg.maxScan \in Nat \ {0} /\ cfg.maxPer \in Nat \ {0}
  BY PassoMundo DEF Quadro, MundoTipado, Cenarios
<1>2. Campos(Parado, "idle", <<>>, <<>>, Inicio, 0, 0, <<>>) /\ Inicio \in Cursores
  BY DEF Parado, Campos, Cursores
<1>3. ASSUME NEW pc \in {"idle", "segmento", "walk", "lista"}, NEW segs \in Seq(Segmentos), NEW pilha \in Seq(Caminho),
             NEW last \in Cursores, NEW scanned \in 0 .. cfg.maxScan, NEW planned \in 0 .. cfg.maxPer, NEW itens,
             pc = "walk" => segs # <<>> /\ DaPasta(pilha, Head(segs).dir),
             pc # "lista" => itens = <<>>,
             Campos(ciclo', pc, segs, pilha, last, scanned, planned, itens)
      PROVE  CicloTipado'
  <2>1. /\ ciclo'.pc = pc /\ ciclo'.segs = segs /\ ciclo'.pilha = pilha /\ ciclo'.last = last
        /\ ciclo'.scanned = scanned /\ ciclo'.planned = planned /\ ciclo'.itens = itens
    BY <1>3 DEF Campos
  <2>2. ciclo' = [pc |-> ciclo'.pc, segs |-> ciclo'.segs, pilha |-> ciclo'.pilha, last |-> ciclo'.last,
                  scanned |-> ciclo'.scanned, planned |-> ciclo'.planned, itens |-> ciclo'.itens]
    BY <1>3, <2>1 DEF Campos
  <2> QED
    BY <1>1, <1>3, <2>1, <2>2 DEF CicloTipado, Segmento
<1>4. CASE ciclo' = ciclo
  BY <1>0, <1>3, <1>4 DEF Segmento
<1>5. CASE ciclo' = Parado
  <2>1. <<>> \in Seq(Segmentos) /\ <<>> \in Seq(Caminho) /\ 0 \in 0 .. cfg.maxScan /\ 0 \in 0 .. cfg.maxPer
    BY <1>1
  <2> QED
    BY <1>2, <1>3, <1>5, <2>1
<1>6. CASE ciclo' = Proximo /\ ciclo.pc = "walk"
  <2>1. Tail(ciclo.segs) \in Seq(Segmentos) /\ <<>> \in Seq(Caminho)
    BY <1>0, <1>6
  <2>2. Campos(ciclo', "segmento", Tail(ciclo.segs), <<>>, ciclo.last, ciclo.scanned, ciclo.planned, ciclo.itens)
    BY <1>0, <1>6 DEF Campos, Proximo
  <2> QED
    BY <1>0, <1>3, <1>6, <2>1, <2>2
<1>7. CASE ciclo' = [ciclo EXCEPT !.pilha = Resto] /\ ciclo.pc = "walk" /\ ciclo.pilha # <<>>
  <2>1. Resto \in Seq(Caminho) /\ DaPasta(Resto, Segmento.dir)
    BY <1>0, <1>7, Topo, TopoDaPasta DEF Resto
  <2>2. Campos(ciclo', "walk", ciclo.segs, Resto, ciclo.last, ciclo.scanned, ciclo.planned, ciclo.itens)
    BY <1>0, <1>7 DEF Campos
  <2> QED
    BY <1>0, <1>3, <1>7, <2>1, <2>2 DEF Segmento
<1>8. CASE SweepBegin
  <2>1. Campos(ciclo', "segmento", Rotacao(journal.cursor), <<>>, Atual(journal.cursor), 0, 0, <<>>)
    BY <1>8 DEF SweepBegin, Parado, Campos
  <2>2. journal.cursor \in Cursores
    BY DEF Quadro, MundoTipado
  <2>3. Rotacao(journal.cursor) \in Seq(Segmentos)
    BY <2>2, RotacaoTipo DEF Quadro
  <2>4. Atual(journal.cursor) \in Cursores
    BY <1>2, <2>2 DEF Atual
  <2>5. <<>> \in Seq(Caminho) /\ 0 \in 0 .. cfg.maxScan /\ 0 \in 0 .. cfg.maxPer
    BY <1>1
  <2> QED
    BY <1>3, <2>1, <2>3, <2>4, <2>5
<1>9. CASE SegmentBegin
  <2> DEFINE s == ReadDir(Segmento.dir, <<>>)
  <2>1. ciclo.pc = "segmento" /\ ciclo.segs # <<>> /\ ciclo' = [ciclo EXCEPT !.pc = "walk", !.pilha = s]
    BY <1>9 DEF SegmentBegin, Passo, Segmento
  <2>2. <<>> \in Caminho
    BY DEF Caminho
  <2>3. s \in Seq(Caminho) /\ DaPasta(s, Segmento.dir)
    BY <2>2, ReadDirLe DEF DaPasta
  <2> HIDE DEF s
  <2>4. Campos(ciclo', "walk", ciclo.segs, s, ciclo.last, ciclo.scanned, ciclo.planned, ciclo.itens)
    BY <1>0, <2>1 DEF Campos
  <2> QED
    BY <1>0, <1>3, <2>1, <2>3, <2>4 DEF Segmento
<1>10. CASE SegmentEnd
  BY <1>6, <1>10 DEF SegmentEnd, Passo
<1>11. CASE SweepEnd \/ WorklistEnd
  BY <1>5, <1>11 DEF SweepEnd, WorklistEnd, Passo
<1>12. CASE VisitDir
  <2> DEFINE s == ReadDir(Segmento.dir, Entrada)
  <2>1. /\ ciclo.pc = "walk" /\ ciclo.pilha # <<>>
        /\ \/ ciclo' = [ciclo EXCEPT !.pilha = Resto]
           \/ ciclo' = Proximo
           \/ ciclo' = [ciclo EXCEPT !.pilha = s \o Resto]
    BY <1>12 DEF VisitDir, Passo
  <2>2. CASE ciclo' = [ciclo EXCEPT !.pilha = s \o Resto]
    <3>1. Entrada \in Caminho /\ DaPasta(Resto, Segmento.dir)
      BY <1>0, <2>1, Topo, TopoDaPasta DEF Resto, Entrada
    <3>2. \A i \in 1 .. Len(s) : s[i] # <<>> /\ \E f \in Arquivo : f.dir = Segmento.dir /\ IsPrefix(s[i], f.rel)
      BY <3>1, ReadDirLe
    <3>3. /\ s \o Resto \in Seq(Caminho) /\ Len(s) \in Nat
          /\ \A i \in 1 .. Len(s) : (s \o Resto)[i] = s[i]
          /\ \A i \in 1 .. Len(Resto) : (s \o Resto)[i + Len(s)] = Resto[i]
          /\ \A i \in 1 .. Len(s \o Resto) : i \in 1 .. Len(s) \/ i - Len(s) \in 1 .. Len(Resto)
      BY <2>1, Descida
    <3> HIDE DEF s
    <3> DEFINE q == s \o Resto
    <3>4. ASSUME NEW i \in 1 .. Len(q)
          PROVE  q[i] # <<>> /\ \E f \in Arquivo : f.dir = Segmento.dir /\ IsPrefix(q[i], f.rel)
      <4>1. CASE i \in 1 .. Len(s)
        BY <3>2, <3>3, <4>1
      <4>2. CASE i - Len(s) \in 1 .. Len(Resto)
        <5>1. q[(i - Len(s)) + Len(s)] = Resto[i - Len(s)] /\ (i - Len(s)) + Len(s) = i
          BY <3>3, <4>2
        <5> QED
          BY <3>1, <4>2, <5>1 DEF DaPasta
      <4> QED
        BY <3>3, <4>1, <4>2
    <3>5. DaPasta(q, Segmento.dir) /\ q \in Seq(Caminho)
      BY <3>3, <3>4 DEF DaPasta
    <3>6. Campos(ciclo', "walk", ciclo.segs, q, ciclo.last, ciclo.scanned, ciclo.planned, ciclo.itens)
      BY <1>0, <2>1, <2>2 DEF Campos
    <3> HIDE DEF q
    <3> QED
      BY <1>0, <1>3, <2>1, <3>5, <3>6 DEF Segmento
  <2> QED
    BY <1>6, <1>7, <2>1, <2>2
<1>13. CASE VisitFile
  <2> DEFINE aqui == [dir |-> Segmento.dir, path |-> Entrada]
             visto == [ciclo EXCEPT !.pilha = Resto, !.scanned = @ + 1, !.last = aqui]
  <2>1. /\ ciclo.pc = "walk" /\ ciclo.pilha # <<>> /\ ~IsDir(Segmento.dir, Entrada)
        /\ \/ ciclo' = [ciclo EXCEPT !.pilha = Resto]
           \/ ciclo' = Proximo
           \/ ~NoLimite /\ (ciclo' = visto \/ ciclo' = [visto EXCEPT !.planned = @ + 1])
    BY <1>13 DEF VisitFile, Passo
  <2>2. CASE ~NoLimite /\ (ciclo' = visto \/ ciclo' = [visto EXCEPT !.planned = @ + 1])
    <3>1. Resto \in Seq(Caminho) /\ DaPasta(Resto, Segmento.dir)
      BY <1>0, <2>1, Topo, TopoDaPasta DEF Resto
    <3>2. aqui \in Cursores
      BY <2>1, LugarAchado DEF Cursores, Cursor
    <3>3. /\ ciclo.scanned + 1 \in 0 .. cfg.maxScan /\ ciclo.planned \in 0 .. cfg.maxPer
          /\ ciclo.planned + 1 \in 0 .. cfg.maxPer
      BY <1>0, <1>1, <2>2 DEF NoLimite
    <3>4. \/ Campos(ciclo', "walk", ciclo.segs, Resto, aqui, ciclo.scanned + 1, ciclo.planned, ciclo.itens)
          \/ Campos(ciclo', "walk", ciclo.segs, Resto, aqui, ciclo.scanned + 1, ciclo.planned + 1, ciclo.itens)
      BY <1>0, <2>1, <2>2 DEF Campos
    <3> HIDE DEF aqui
    <3> QED
      BY <1>0, <1>3, <2>1, <3>1, <3>2, <3>3, <3>4 DEF Segmento
  <2> QED
    BY <1>6, <1>7, <2>1, <2>2
<1>14. CASE WorklistBegin
  <2> DEFINE lista == [i \in DOMAIN Worklist |-> [chave |-> Worklist[i], path |-> rastreado[Worklist[i]].path]]
  <2>1. Campos(ciclo', "lista", <<>>, <<>>, Inicio, 0, 0, lista)
    BY <1>14 DEF WorklistBegin, Passo, Parado, Campos
  <2>2. <<>> \in Seq(Segmentos) /\ <<>> \in Seq(Caminho) /\ 0 \in 0 .. cfg.maxScan /\ 0 \in 0 .. cfg.maxPer
    BY <1>1
  <2> HIDE DEF lista
  <2> QED
    BY <1>2, <1>3, <2>1, <2>2
<1>15. CASE RunItem
  <2>1. /\ ciclo.pc = "lista" /\ ciclo.planned < cfg.maxPer
        /\ \/ ciclo' = [ciclo EXCEPT !.itens = Tail(@)]
           \/ ciclo' = [ciclo EXCEPT !.itens = Tail(@), !.planned = @ + 1]
           \/ ciclo' = [ciclo EXCEPT !.itens = Tail(@), !.planned = @ + 0]
    BY <1>15 DEF RunItem, Contado
  <2>2. ciclo.planned + 1 \in 0 .. cfg.maxPer /\ ciclo.planned + 0 = ciclo.planned
    BY <1>0, <1>1, <2>1
  <2>3. \/ Campos(ciclo', "lista", ciclo.segs, ciclo.pilha, ciclo.last, ciclo.scanned, ciclo.planned, Tail(ciclo.itens))
        \/ Campos(ciclo', "lista", ciclo.segs, ciclo.pilha, ciclo.last, ciclo.scanned, ciclo.planned + 1, Tail(ciclo.itens))
    BY <1>0, <2>1, <2>2 DEF Campos
  <2> QED
    BY <1>0, <1>3, <2>2, <2>3
<1>16. ASSUME NEW f \in Arquivo, Some(f) \/ AgenteVe(f) PROVE CicloTipado'
  BY <1>4, <1>16 DEF Some, AgenteVe
<1>17. ASSUME NEW f \in Arquivo, NEW x \in Xml, Chega(f, x) PROVE CicloTipado'
  BY <1>4, <1>17 DEF Chega
<1>18. ASSUME NEW d \in DirsPossiveis, Reinicia(d) PROVE CicloTipado'
  BY <1>5, <1>18 DEF Reinicia
<1> QED
  BY <1>8, <1>9, <1>10, <1>11, <1>12, <1>13, <1>14, <1>15, <1>16, <1>17, <1>18 DEF Next, Syncer, Entorno

\* At first all is well formed.
LEMMA QuadroInicio == Init => Quadro
<1> SUFFICES ASSUME Init PROVE Quadro
  OBVIOUS
<1>1. cfg \in Cenarios /\ dirs \in DirsPossiveis
  BY CenarioSweepAssumption DEF Init, Cenarios
<1>2. origem \in [Arquivo -> Xml \cup {Nenhum}]
  BY XmlInicialAssumption DEF Init
<1>3. journal \in [cursor : Cursores, done : SUBSET Chave, dryPlanned : SUBSET Chave]
  BY DEF Init, Cursores
<1>4. /\ rastreado \in [Chave -> [path : Arquivo \cup {Nenhum}, synced : BOOLEAN]]
      /\ antigos \subseteq Arquivo /\ falta \in [Arquivo -> SUBSET Arquivo]
  BY DEF Init
<1>5. CicloTipado
  <2>1. cfg.maxScan \in Nat /\ cfg.maxPer \in Nat
    BY <1>1 DEF Cenarios
  <2> QED
    BY <2>1 DEF Init, Parado, CicloTipado, Cursores
<1> QED
  BY <1>1, <1>2, <1>3, <1>4, <1>5 DEF Quadro, MundoTipado

\* And it stays so.
LEMMA QuadroPasso == Quadro /\ [Next]_vars => Quadro'
<1>1. ASSUME Quadro, Next PROVE Quadro'
  BY <1>1, PassoMundo, PassoCiclo DEF Quadro
<1>2. ASSUME Quadro, UNCHANGED vars PROVE Quadro'
  BY <1>2 DEF vars, Quadro, MundoTipado, CicloTipado, Segmento
<1> QED
  BY <1>1, <1>2

\* The cursor always names a file, or nothing; the counters keep within maxScan and
\* maxPer; segments belong to the sweep and items to the worklist; a path the
\* tracker knows is a place.
THEOREM TypeCorrect == Spec => []TypeOK
<1>1. Quadro => TypeOK
  <2> SUFFICES ASSUME Quadro PROVE TypeOK
    OBVIOUS
  <2>1. Cursores \subseteq CursorType
    BY DEF Cursores, CursorType, Cursor, Inicio
  <2>2. /\ origem \in [Arquivo -> Xml \cup {Nenhum}]
        /\ journal.cursor \in CursorType /\ ciclo.last \in CursorType
        /\ journal.done \subseteq Chave /\ journal.dryPlanned \subseteq Chave
        /\ \A c \in Chave : rastreado[c].path \in Arquivo \cup {Nenhum}
    BY <2>1 DEF Quadro, MundoTipado, CicloTipado
  <2>3. /\ ciclo.pc \in {"idle", "segmento", "walk", "lista"}
        /\ ciclo.scanned <= cfg.maxScan /\ ciclo.planned <= cfg.maxPer
        /\ ciclo.pc = "walk" => ciclo.segs # <<>>
        /\ ciclo.pc # "lista" => ciclo.itens = <<>>
    <3>1. cfg.maxScan \in Nat /\ cfg.maxPer \in Nat
      BY DEF Quadro, MundoTipado, Cenarios
    <3> QED
      BY <3>1 DEF Quadro, CicloTipado
  <2> QED
    BY <2>2, <2>3 DEF TypeOK
<1> QED
  BY <1>1, QuadroInicio, QuadroPasso, PTL DEF Spec

-----------------------------------------------------------------------------
(* What is to come in a segment and what is behind, as its stack goes.      *)

\* h is at or below an entry of the stack; or comes before them all.
NaPilha(q, h) == \E j \in 1 .. Len(q) : IsPrefix(q[j], h.rel)
AntesDaPilha(q, h) == \A j \in 1 .. Len(q) : Bifurca(h.rel, q[j])

\* The entries of a stack are in order, none above another.
Ramos(q) == \A i, j \in 1 .. Len(q) : i < j => Bifurca(q[i], q[j])

\* In a cycle that began at c and is at its v-th segment, at its root or (w) with
\* the stack q: the file h is still to come, or is behind.
Adiante(ds, c, v, w, q, h) ==
  \/ Turno(ds, c, h) > v
  \/ Turno(ds, c, h) = v /\ (w => NaPilha(q, h))

Passado(ds, c, v, w, q, h) ==
  \/ Turno(ds, c, h) < v
  \/ Turno(ds, c, h) = v /\ w /\ AntesDaPilha(q, h)

\* A stack in order stays so without its top.
LEMMA RamosRetira ==
  ASSUME NEW q \in Seq(Caminho), q # <<>>, Ramos(q)
  PROVE  Ramos(Tail(q))
<1> DEFINE r == Tail(q)
<1>1. /\ Len(r) = Len(q) - 1 /\ Len(q) \in Nat
      /\ \A i \in 1 .. Len(r) : r[i] = q[i + 1] /\ i + 1 \in 1 .. Len(q)
  BY Topo
<1> HIDE DEF r
<1>2. Ramos(r)
  <2> SUFFICES ASSUME NEW i \in 1 .. Len(r), NEW j \in 1 .. Len(r), i < j PROVE Bifurca(r[i], r[j])
    BY DEF Ramos
  <2>1. i + 1 < j + 1 /\ i + 1 \in 1 .. Len(q) /\ j + 1 \in 1 .. Len(q)
    BY <1>1
  <2>2. Bifurca(q[i + 1], q[j + 1])
    BY <2>1 DEF Ramos
  <2> QED
    BY <1>1, <2>2
<1> QED
  BY <1>2 DEF r

\* Taking the top off the stack.
LEMMA Retira ==
  ASSUME NEW ds, NEW c, NEW v, NEW q \in Seq(Caminho), q # <<>>, Ramos(q), NEW h \in Lugares(ds)
  PROVE  LET r == Tail(q) IN
         /\ Passado(ds, c, v, TRUE, q, h) => Passado(ds, c, v, TRUE, r, h)
         /\ Adiante(ds, c, v, TRUE, q, h) => Adiante(ds, c, v, TRUE, r, h) \/ Passado(ds, c, v, TRUE, r, h)
         /\ Adiante(ds, c, v, TRUE, q, h) /\ ~(Turno(ds, c, h) = v /\ IsPrefix(Head(q), h.rel))
              => Adiante(ds, c, v, TRUE, r, h)
<1> DEFINE r == Tail(q)
<1>1. /\ Head(q) = q[1] /\ 1 \in 1 .. Len(q) /\ Len(r) = Len(q) - 1 /\ Len(q) \in Nat
      /\ \A i \in 1 .. Len(r) : r[i] = q[i + 1] /\ i + 1 \in 1 .. Len(q)
      /\ r \in Seq(Caminho)
  BY Topo
<1>0. h.rel \in Caminho /\ \A i \in 1 .. Len(q) : q[i] \in Caminho
  BY LugarTipo
<1> HIDE DEF r
<1>3. AntesDaPilha(q, h) => AntesDaPilha(r, h)
  BY <1>1 DEF AntesDaPilha
<1>4. NaPilha(q, h) => IsPrefix(Head(q), h.rel) \/ NaPilha(r, h)
  <2> SUFFICES ASSUME NEW j \in 1 .. Len(q), IsPrefix(q[j], h.rel), j # 1 PROVE NaPilha(r, h)
    BY <1>1 DEF NaPilha
  <2>1. j - 1 \in 1 .. Len(r) /\ (j - 1) + 1 = j
    BY <1>1
  <2>2. r[j - 1] = q[j]
    BY <1>1, <2>1
  <2> QED
    BY <2>1, <2>2 DEF NaPilha
<1>5. IsPrefix(Head(q), h.rel) => AntesDaPilha(r, h)
  <2> SUFFICES ASSUME IsPrefix(q[1], h.rel), NEW j \in 1 .. Len(r) PROVE Bifurca(h.rel, r[j])
    BY <1>1 DEF AntesDaPilha
  <2>1. j + 1 \in 1 .. Len(q) /\ 1 < j + 1 /\ r[j] = q[j + 1]
    BY <1>1
  <2>2. Bifurca(q[1], q[j + 1])
    BY <1>1, <2>1 DEF Ramos
  <2>3. IsPrefix(q[j + 1], q[j + 1])
    BY <1>0, <2>1, PrefixoProprio
  <2>4. Bifurca(h.rel, q[j + 1])
    BY <1>0, <1>1, <2>1, <2>2, <2>3, BifurcaAbaixo
  <2> QED
    BY <2>1, <2>4
<1> QED
  BY <1>3, <1>4, <1>5 DEF Adiante, Passado, r

\* What is on the stack once the folder on the top gave s.
LEMMA Empilha ==
  ASSUME NEW q \in Seq(Caminho), q # <<>>, Ramos(q), NEW s \in Seq(Caminho)
  PROVE  LET t == Tail(q)
             r == s \o t
         IN
         /\ Len(r) = Len(s) + Len(t) /\ Len(s) \in Nat /\ Len(t) \in Nat
         /\ \A i \in 1 .. Len(s) : r[i] = s[i]
         /\ \A i \in 1 .. Len(t) : r[i + Len(s)] = t[i]
         /\ \A i \in 1 .. Len(r) : i \in 1 .. Len(s) \/ (i - Len(s) \in 1 .. Len(t) /\ r[i] = t[i - Len(s)])
         /\ \A j \in 1 .. Len(t) : Bifurca(Head(q), t[j]) /\ t[j] \in Caminho
<1> DEFINE t == Tail(q)
           r == s \o t
<1>1. /\ Head(q) = q[1] /\ 1 \in 1 .. Len(q) /\ Len(t) = Len(q) - 1 /\ Len(q) \in Nat
      /\ \A i \in 1 .. Len(t) : t[i] = q[i + 1] /\ i + 1 \in 1 .. Len(q)
      /\ t \in Seq(Caminho)
  BY Topo
<1>0. \A i \in 1 .. Len(q) : q[i] \in Caminho
  OBVIOUS
<1> HIDE DEF t
<1>2. Len(r) = Len(s) + Len(t) /\ Len(s) \in Nat /\ Len(t) \in Nat
  <2>1. Len(r) = Len(s) + Len(t)
    BY <1>1, Junta
  <2> QED
    BY <1>1, <2>1
<1>3. \A i \in 1 .. Len(s) : r[i] = s[i]
  BY <1>1, Junta
<1>4. \A i \in 1 .. Len(t) : r[i + Len(s)] = t[i]
  BY <1>1, Junta
<1> HIDE DEF r
<1>5. \A i \in 1 .. Len(r) : i \in 1 .. Len(s) \/ (i - Len(s) \in 1 .. Len(t) /\ r[i] = t[i - Len(s)])
  <2> SUFFICES ASSUME NEW i \in 1 .. Len(r), i \notin 1 .. Len(s)
               PROVE  i - Len(s) \in 1 .. Len(t) /\ r[i] = t[i - Len(s)]
    OBVIOUS
  <2>1. i - Len(s) \in 1 .. Len(t) /\ (i - Len(s)) + Len(s) = i
    BY <1>2
  <2> QED
    BY <1>4, <2>1
<1>6. \A j \in 1 .. Len(t) : Bifurca(Head(q), t[j]) /\ t[j] \in Caminho
  <2> TAKE j \in 1 .. Len(t)
  <2>1. t[j] = q[j + 1] /\ j + 1 \in 1 .. Len(q) /\ 1 < j + 1
    BY <1>1
  <2> QED
    BY <1>0, <1>1, <2>1 DEF Ramos
<1> QED
  BY <1>2, <1>3, <1>4, <1>5, <1>6 DEF r, t

\* And with the entries of its top in the place of the top.
LEMMA RamosDesce ==
  ASSUME NEW q \in Seq(Caminho), q # <<>>, Ramos(q),
         NEW s \in Seq(Caminho), Ramos(s), \A i \in 1 .. Len(s) : IsPrefix(Head(q), s[i])
  PROVE  Ramos(s \o Tail(q))
<1> DEFINE t == Tail(q)
           r == s \o t
<1>1. /\ Head(q) = q[1] /\ 1 \in 1 .. Len(q) /\ Len(t) = Len(q) - 1 /\ Len(q) \in Nat
      /\ \A i \in 1 .. Len(t) : t[i] = q[i + 1] /\ i + 1 \in 1 .. Len(q)
      /\ t \in Seq(Caminho)
  BY Topo
<1>2. Len(r) = Len(s) + Len(t) /\ Len(s) \in Nat /\ Len(t) \in Nat
  BY Empilha
<1>3. \A i \in 1 .. Len(s) : r[i] = s[i]
  BY Empilha
<1>4. \A i \in 1 .. Len(t) : r[i + Len(s)] = t[i]
  BY Empilha
<1>5. \A i \in 1 .. Len(r) : i \in 1 .. Len(s) \/ (i - Len(s) \in 1 .. Len(t) /\ r[i] = t[i - Len(s)])
  BY Empilha
<1>6. \A j \in 1 .. Len(t) : Bifurca(Head(q), t[j]) /\ t[j] \in Caminho
  BY Empilha
<1> HIDE DEF t, r
<1>0. Head(q) \in Caminho /\ \A i \in 1 .. Len(s) : s[i] \in Caminho
  BY Topo
<1>7. Ramos(t)
  BY RamosRetira DEF t
<1>8. Ramos(r)
  <2> SUFFICES ASSUME NEW i \in 1 .. Len(r), NEW j \in 1 .. Len(r), i < j PROVE Bifurca(r[i], r[j])
    BY DEF Ramos
  <2>1. CASE i \in 1 .. Len(s) /\ j \in 1 .. Len(s)
    BY <1>3, <2>1 DEF Ramos
  <2>2. CASE i \in 1 .. Len(s) /\ j \notin 1 .. Len(s)
    <3>1. r[i] = s[i] /\ IsPrefix(Head(q), s[i]) /\ s[i] \in Caminho
      BY <1>0, <1>3, <2>2
    <3>2. PICK k \in 1 .. Len(t) : r[j] = t[k]
      BY <1>5, <2>2
    <3>3. Bifurca(Head(q), t[k]) /\ t[k] \in Caminho /\ IsPrefix(t[k], t[k])
      BY <1>6, PrefixoProprio
    <3>4. Bifurca(s[i], t[k])
      BY <1>0, <3>1, <3>3, BifurcaAbaixo
    <3> QED
      BY <3>1, <3>2, <3>4
  <2>3. CASE i \notin 1 .. Len(s)
    <3>1. j \notin 1 .. Len(s)
      BY <1>2, <2>3
    <3>2. /\ i - Len(s) \in 1 .. Len(t) /\ r[i] = t[i - Len(s)]
          /\ j - Len(s) \in 1 .. Len(t) /\ r[j] = t[j - Len(s)]
      BY <1>5, <2>3, <3>1
    <3>3. i - Len(s) < j - Len(s)
      BY <1>2
    <3> QED
      BY <1>7, <3>2, <3>3 DEF Ramos
  <2> QED
    BY <2>1, <2>2, <2>3
<1> QED
  BY <1>8 DEF r, t

\* Going into the folder on the top.
LEMMA Desce ==
  ASSUME NEW ds, NEW c, NEW v, NEW q \in Seq(Caminho), q # <<>>, Ramos(q), NEW h \in Lugares(ds),
         NEW s \in Seq(Caminho), \A i \in 1 .. Len(s) : IsPrefix(Head(q), s[i])
  PROVE  LET r == s \o Tail(q) IN
         /\ Passado(ds, c, v, TRUE, q, h) => Passado(ds, c, v, TRUE, r, h)
         /\ Adiante(ds, c, v, TRUE, q, h) /\ (Turno(ds, c, h) = v /\ IsPrefix(Head(q), h.rel) => NaPilha(s, h))
              => Adiante(ds, c, v, TRUE, r, h)
<1> DEFINE t == Tail(q)
           r == s \o t
<1>1. /\ Head(q) = q[1] /\ 1 \in 1 .. Len(q) /\ Len(t) = Len(q) - 1 /\ Len(q) \in Nat
      /\ \A i \in 1 .. Len(t) : t[i] = q[i + 1] /\ i + 1 \in 1 .. Len(q)
      /\ t \in Seq(Caminho)
  BY Topo
<1>2. Len(r) = Len(s) + Len(t) /\ Len(s) \in Nat /\ Len(t) \in Nat
  BY Empilha
<1>3. \A i \in 1 .. Len(s) : r[i] = s[i]
  BY Empilha
<1>4. \A i \in 1 .. Len(t) : r[i + Len(s)] = t[i]
  BY Empilha
<1>5. \A i \in 1 .. Len(r) : i \in 1 .. Len(s) \/ (i - Len(s) \in 1 .. Len(t) /\ r[i] = t[i - Len(s)])
  BY Empilha
<1>6. \A j \in 1 .. Len(t) : Bifurca(Head(q), t[j]) /\ t[j] \in Caminho
  BY Empilha
<1> HIDE DEF t, r
<1>0. /\ h.rel \in Caminho /\ Head(q) \in Caminho /\ \A i \in 1 .. Len(q) : q[i] \in Caminho
      /\ \A i \in 1 .. Len(s) : s[i] \in Caminho
  BY LugarTipo, Topo
<1>9. AntesDaPilha(q, h) => AntesDaPilha(r, h)
  <2> SUFFICES ASSUME AntesDaPilha(q, h), NEW j \in 1 .. Len(r) PROVE Bifurca(h.rel, r[j])
    BY DEF AntesDaPilha
  <2>1. CASE j \in 1 .. Len(s)
    <3>1. Bifurca(h.rel, Head(q)) /\ IsPrefix(h.rel, h.rel)
      BY <1>0, <1>1, PrefixoProprio DEF AntesDaPilha
    <3>2. s[j] \in Caminho /\ IsPrefix(Head(q), s[j]) /\ r[j] = s[j]
      BY <1>0, <1>3, <2>1
    <3>3. Bifurca(h.rel, s[j])
      BY <1>0, <3>1, <3>2, BifurcaAbaixo
    <3> QED
      BY <3>2, <3>3
  <2>2. CASE j \notin 1 .. Len(s)
    <3>1. PICK k \in 1 .. Len(t) : r[j] = t[k]
      BY <1>5, <2>2
    <3> QED
      BY <1>1, <3>1 DEF AntesDaPilha
  <2> QED
    BY <2>1, <2>2
<1>10. NaPilha(s, h) => NaPilha(r, h)
  <2> SUFFICES ASSUME NEW i \in 1 .. Len(s), IsPrefix(s[i], h.rel) PROVE NaPilha(r, h)
    BY DEF NaPilha
  <2>1. i \in 1 .. Len(r) /\ r[i] = s[i]
    BY <1>2, <1>3
  <2> QED
    BY <2>1 DEF NaPilha
<1>11. NaPilha(q, h) => IsPrefix(Head(q), h.rel) \/ NaPilha(r, h)
  <2> SUFFICES ASSUME NEW j \in 1 .. Len(q), IsPrefix(q[j], h.rel), j # 1 PROVE NaPilha(r, h)
    BY <1>1 DEF NaPilha
  <2>1. j - 1 \in 1 .. Len(t) /\ (j - 1) + 1 = j
    BY <1>1
  <2>2. t[j - 1] = q[j] /\ r[(j - 1) + Len(s)] = t[j - 1] /\ (j - 1) + Len(s) \in 1 .. Len(r)
    BY <1>1, <1>2, <1>4, <2>1
  <2> QED
    BY <2>2 DEF NaPilha
<1> QED
  BY <1>9, <1>10, <1>11 DEF Adiante, Passado, r, t

\* On to the next segment.
LEMMA Fecha ==
  ASSUME NEW ds, DirsBem(ds), NEW c, NEW v \in Int, NEW w, NEW q, NEW h \in Lugares(ds), NEW r
  PROVE  /\ Turno(ds, c, h) <= v => Passado(ds, c, v + 1, FALSE, r, h)
         /\ Turno(ds, c, h) > v => Adiante(ds, c, v + 1, FALSE, r, h)
         /\ Passado(ds, c, v, w, q, h) => Passado(ds, c, v + 1, FALSE, r, h)
         /\ Adiante(ds, c, v, TRUE, q, h) /\ ~(Turno(ds, c, h) = v /\ NaPilha(q, h))
              => Adiante(ds, c, v + 1, FALSE, r, h)
<1>1. Turno(ds, c, h) \in Int
  BY TurnoTipo
<1> QED
  BY <1>1 DEF Passado, Adiante

\* When the top is the file f: what is behind comes before f in the lap, and
\* what is to come is f or comes after it.
LEMMA Vizinhos ==
  ASSUME NEW ds, DirsBem(ds), Distintas(ds), NEW c, NEW v, NEW q \in Seq(Caminho), q # <<>>, Ramos(q),
         NEW f \in Lugares(ds), f.rel = Head(q), Turno(ds, c, f) = v,
         NEW h \in Lugares(ds), Turno(ds, c, h) = v => h.dir = f.dir
  PROVE  /\ Passado(ds, c, v, TRUE, q, h) => Volta(ds, c, h, f)
         /\ Adiante(ds, c, v, TRUE, q, h) => h = f \/ Volta(ds, c, f, h)
<1>1. Head(q) = q[1] /\ 1 \in 1 .. Len(q) /\ Head(q) \in Caminho /\ \A i \in 1 .. Len(q) : q[i] \in Caminho
  BY Topo
<1>2. h.rel \in Caminho /\ f.rel \in Caminho
  BY LugarTipo
<1>3. ASSUME Passado(ds, c, v, TRUE, q, h) PROVE Volta(ds, c, h, f)
  <2>1. CASE Turno(ds, c, h) < v
    BY <2>1, TurnoVolta
  <2>2. CASE Turno(ds, c, h) = v /\ AntesDaPilha(q, h)
    <3>1. Bifurca(h.rel, f.rel)
      BY <1>1, <2>2 DEF AntesDaPilha
    <3>2. pathLess(h.rel, f.rel)
      BY <1>2, <3>1, pathLessSse
    <3> QED
      BY <2>2, <3>2, TurnoVolta
  <2> QED
    BY <1>3, <2>1, <2>2 DEF Passado
<1>4. ASSUME Adiante(ds, c, v, TRUE, q, h), h # f PROVE Volta(ds, c, f, h)
  <2>1. CASE Turno(ds, c, h) > v
    <3>1. Turno(ds, c, f) < Turno(ds, c, h)
      BY <2>1, TurnoTipo
    <3> QED
      BY <3>1, TurnoVolta
  <2>2. CASE Turno(ds, c, h) = v /\ NaPilha(q, h)
    <3>1. PICK j \in 1 .. Len(q) : IsPrefix(q[j], h.rel)
      BY <2>2 DEF NaPilha
    <3>2. j # 1
      <4>1. f.rel # h.rel /\ ~IsStrictPrefix(f.rel, h.rel)
        BY <1>4, <2>2, LugarTipo
      <4> QED
        BY <1>1, <3>1, <4>1 DEF IsStrictPrefix
    <3>3. Bifurca(q[1], q[j])
      BY <1>1, <3>2 DEF Ramos
    <3>4. Bifurca(f.rel, h.rel)
      BY <1>1, <1>2, <3>1, <3>3, PrefixoProprio, BifurcaAbaixo
    <3>5. pathLess(f.rel, h.rel)
      BY <1>2, <3>4, pathLessSse
    <3> QED
      BY <2>2, <3>5, TurnoVolta
  <2> QED
    BY <1>4, <2>1, <2>2 DEF Adiante
<1> QED
  BY <1>3, <1>4

-----------------------------------------------------------------------------
(* The inductive invariant of the rotation.                                 *)

\* No list of folders has one twice.  The syncer does not look: a folder given
\* twice would be walked to its end and again up to the cursor, with nothing of
\* the others between.
SemRepeticao == \A d \in DirsPossiveis : Distintas(d)

\* A sweep is under way; it walks a segment.
Girando == ciclo.pc \in {"segmento", "walk"}
Andando == ciclo.pc = "walk"

\* Where the rotation is, and the segment it is at.
Posicao == IF Girando THEN ciclo.last ELSE journal.cursor
Vez == Total(dirs, journal.cursor) - Len(ciclo.segs) + 1

\* h is to come, or behind, in the cycle as it is.
Vem(h) == Adiante(dirs, journal.cursor, Vez, Andando, ciclo.pilha, h)
Foi(h) == Passado(dirs, journal.cursor, Vez, Andando, ciclo.pilha, h)

\* What is owed a look since g was examined comes before g in the lap that goes
\* on from here.
EmVolta ==
  \A g \in Arquivo : \A h \in falta[g] :
    /\ cfg.modo = "sweep" /\ g \in Lugares(dirs) /\ h \in Lugares(dirs) /\ h \in Presentes /\ h # g
    /\ \E p \in Lugares(dirs) : Posicao = Cursor(p) /\ Volta(dirs, Posicao, h, g)

\* The segments left are those from this one on.
Restam ==
  \A i \in 1 .. Len(ciclo.segs) :
    /\ ciclo.segs[i].dir \in ToSet(dirs)
    /\ \A a \in Lugares(dirs) :
         a \in Alcance(dirs, ciclo.segs[i]) <=> Turno(dirs, journal.cursor, a) = Vez + i - 1

\* The last file examined is behind; before the first, the cursor is the last.
Andou ==
  /\ ciclo.scanned = 0 =>
       (journal.cursor.dir \in ToSet(dirs) \/ ciclo.last.dir \in ToSet(dirs) => ciclo.last = journal.cursor)
  /\ ciclo.scanned # 0 => \E p \in Lugares(dirs) : ciclo.last = Cursor(p) /\ Foi(p)

\* Every file there since the cycle began is to come or behind.
Partidos == \A h \in antigos : h \in Lugares(dirs) => Vem(h) \/ Foi(h)

\* After the last file examined, what is owed a look is still to come, unless
\* the limit ends the cycle.
Devidos ==
  Andando \/ ~NoLimite =>
    \A g \in Arquivo : \A h \in falta[g] :
      (\A p \in Lugares(dirs) :
         ciclo.scanned # 0 /\ ciclo.last = Cursor(p) => Volta(dirs, journal.cursor, p, h)) => Vem(h)

\* What is owed a look was there when the cycle began, and is there.
Historia == antigos \subseteq Presentes /\ \A g \in Arquivo : falta[g] \subseteq antigos

\* The worklist has cycles of its own; a sweep keeps all of the above.
EmCiclo ==
  /\ ciclo.pc = "lista" => cfg.modo = "worklist"
  /\ Girando =>
       /\ cfg.modo = "sweep" /\ Restam /\ Andou /\ Partidos /\ Devidos /\ Historia
       /\ Andando => Ramos(ciclo.pilha)

\* The inductive invariant of OneLap.
Rotativo == Quadro /\ EmVolta /\ EmCiclo

\* What a state well formed gives to the lemmas on the rotation.
LEMMA Contexto ==
  ASSUME Quadro, SemRepeticao
  PROVE  /\ DirsBem(dirs) /\ Distintas(dirs) /\ CursorBom(dirs, journal.cursor)
         /\ Vez \in Int /\ ciclo.segs \in Seq(Segmentos) /\ ciclo.pilha \in Seq(Caminho)
         /\ \A c \in Cursores : c.dir \in ToSet(dirs) => \E p \in Lugares(dirs) : c = Cursor(p)
         /\ journal.cursor \in Cursores /\ ciclo.last \in Cursores
<1>1. DirsBem(dirs) /\ Distintas(dirs)
  BY DirsDe DEF Quadro, MundoTipado, SemRepeticao
<1>2. journal.cursor \in Cursores /\ ciclo.last \in Cursores
  BY DEF Quadro, MundoTipado, CicloTipado
<1>3. \A c \in Cursores : c.dir \in ToSet(dirs) => \E p \in Lugares(dirs) : c = Cursor(p)
  BY <1>1 DEF Cursores, Inicio, Cursor, Lugares, DirsBem
<1>4. ciclo.segs \in Seq(Segmentos) /\ ciclo.pilha \in Seq(Caminho)
  BY DEF Quadro, CicloTipado
<1>5. Vez \in Int
  <2>1. Len(dirs) \in Nat /\ Len(ciclo.segs) \in Nat
    BY <1>1, <1>4 DEF DirsBem
  <2> QED
    BY <2>1 DEF Vez, Total
<1> QED
  BY <1>1, <1>2, <1>3, <1>4, <1>5 DEF CursorBom

\* What is owed may shrink while the rotation stays where it is.
LEMMA VoltaFica ==
  ASSUME EmVolta, cfg'.modo = cfg.modo, dirs' = dirs, Presentes' \subseteq Arquivo,
         \A g \in Arquivo : falta'[g] \subseteq falta[g] /\ falta'[g] \subseteq Presentes',
         \A p \in Lugares(dirs) : Posicao = Cursor(p) => Posicao' = Cursor(p)
  PROVE  EmVolta'
<1>1. ASSUME NEW g \in Arquivo, NEW h \in falta'[g]
      PROVE  /\ cfg'.modo = "sweep" /\ g \in Lugares(dirs') /\ h \in Lugares(dirs') /\ h \in Presentes' /\ h # g
             /\ \E p \in Lugares(dirs') : Posicao' = Cursor(p) /\ Volta(dirs', Posicao', h, g)
  <2>1. h \in falta[g] /\ h \in Presentes'
    BY <1>1
  <2>2. cfg.modo = "sweep" /\ g \in Lugares(dirs) /\ h \in Lugares(dirs) /\ h # g
    BY <2>1 DEF EmVolta
  <2>3. PICK p \in Lugares(dirs) : Posicao = Cursor(p) /\ Volta(dirs, Posicao, h, g)
    BY <2>1 DEF EmVolta
  <2>4. Posicao' = Cursor(p) /\ Volta(dirs', Posicao', h, g)
    BY <2>3
  <2> QED
    BY <2>1, <2>2, <2>4
<1> QED
  BY <1>1 DEF EmVolta

\* A step of a cycle that examines no file.
LEMMA Anda ==
  ASSUME EmVolta, EmCiclo, Girando, Girando',
         dirs' = dirs, journal'.cursor = journal.cursor, cfg'.modo = cfg.modo,
         ciclo'.last = ciclo.last, ciclo'.scanned = ciclo.scanned, ciclo'.pc # "lista",
         antigos' \subseteq antigos, antigos' \subseteq Presentes', Presentes' \subseteq Arquivo,
         \A g \in Arquivo : falta'[g] \subseteq falta[g] /\ falta'[g] \subseteq antigos',
         \A h \in Lugares(dirs) : Foi(h) => Foi(h)',
         \A h \in Lugares(dirs) : h \in antigos /\ Vem(h) => Vem(h)' \/ Foi(h)',
         Andando' \/ ~NoLimite' =>
           /\ Andando \/ ~NoLimite
           /\ \A g \in Arquivo : \A h \in falta'[g] : h \in Lugares(dirs) /\ Vem(h) => Vem(h)',
         Restam', Andando' => Ramos(ciclo'.pilha)
  PROVE  EmVolta' /\ EmCiclo'
<1>1. EmVolta'
  <2>1. Posicao' = Posicao
    BY DEF Posicao
  <2>2. \A g \in Arquivo : falta'[g] \subseteq Presentes'
    OBVIOUS
  <2> QED
    BY <2>1, <2>2, VoltaFica
<1>2. cfg.modo = "sweep" /\ Andou /\ Partidos /\ Devidos
  BY DEF EmCiclo
<1>3. Andou'
  BY <1>2 DEF Andou
<1>4. Partidos'
  BY <1>2 DEF Partidos
<1>5. Devidos'
  <2> SUFFICES ASSUME Andando' \/ ~NoLimite', NEW g \in Arquivo, NEW h \in falta'[g],
                      \A p \in Lugares(dirs) :
                        ciclo.scanned # 0 /\ ciclo.last = Cursor(p) => Volta(dirs, journal.cursor, p, h)
               PROVE  Vem(h)'
    BY DEF Devidos
  <2>1. h \in falta[g] /\ h \in Lugares(dirs)
    BY DEF EmVolta
  <2>2. Vem(h)
    BY <1>2, <2>1 DEF Devidos
  <2> QED
    BY <2>1, <2>2
<1>6. Historia'
  BY DEF Historia
<1> QED
  BY <1>1, <1>2, <1>3, <1>4, <1>5, <1>6 DEF EmCiclo

\* What is there is at a place.
LEMMA PresentesTipo == Presentes \subseteq Arquivo
BY DEF Presentes

\* A file within reach is in the segment under way when it is its turn.
LEMMA NoSegmento ==
  ASSUME Quadro, SemRepeticao, Restam, ciclo.segs # <<>>, NEW a \in Lugares(dirs)
  PROVE  /\ Turno(dirs, journal.cursor, a) = Vez <=> a \in Alcance(dirs, Segmento)
         /\ a \in Alcance(dirs, Segmento) =>
              /\ a.dir = Segmento.dir
              /\ Segmento.after # <<>> => pathLess(Segmento.after, a.rel)
              /\ Segmento.upto # <<>> => ~pathLess(Segmento.upto, a.rel)
<1>1. ciclo.segs \in Seq(Segmentos) /\ Vez \in Int
  BY Contexto
<1>2. 1 \in 1 .. Len(ciclo.segs) /\ ciclo.segs[1] = Segmento /\ Vez + 1 - 1 = Vez
  BY <1>1 DEF Segmento
<1>3. Turno(dirs, journal.cursor, a) = Vez <=> a \in Alcance(dirs, Segmento)
  BY <1>2 DEF Restam
<1> QED
  BY <1>3 DEF Alcance

\* On to the next segment, for whatever reason.
LEMMA PassoProximo ==
  ASSUME Rotativo, SemRepeticao, ciclo.pc = "walk", ciclo' = Proximo, UNCHANGED <<Mundo, historia>>,
         \/ NoLimite
         \/ \A h \in Lugares(dirs) : ~(Turno(dirs, journal.cursor, h) = Vez /\ NaPilha(ciclo.pilha, h))
  PROVE  EmVolta' /\ EmCiclo'
<1>0. Quadro /\ EmVolta /\ EmCiclo /\ ciclo.segs # <<>> /\ Restam /\ Historia
  BY DEF Rotativo, EmCiclo, Girando, Quadro, CicloTipado
<1>1. /\ ciclo'.pc = "segmento" /\ ciclo'.segs = Tail(ciclo.segs) /\ ciclo'.last = ciclo.last
      /\ ciclo'.scanned = ciclo.scanned /\ ciclo'.planned = ciclo.planned
  BY <1>0 DEF Proximo, Quadro, CicloTipado
<1>2. dirs' = dirs /\ journal' = journal /\ cfg' = cfg /\ origem' = origem /\ antigos' = antigos /\ falta' = falta
  BY DEF Mundo, historia
<1>3. /\ DirsBem(dirs) /\ Vez \in Int /\ ciclo.segs \in Seq(Segmentos) /\ Total(dirs, journal.cursor) \in Int
  <2>1. DirsBem(dirs) /\ Vez \in Int /\ ciclo.segs \in Seq(Segmentos)
    BY <1>0, Contexto
  <2>2. Len(dirs) \in Nat
    BY <2>1 DEF DirsBem
  <2> QED
    BY <2>1, <2>2 DEF Total
<1>4. /\ Len(Tail(ciclo.segs)) = Len(ciclo.segs) - 1 /\ Len(ciclo.segs) \in Nat
      /\ \A i \in 1 .. Len(Tail(ciclo.segs)) : Tail(ciclo.segs)[i] = ciclo.segs[i + 1]
  BY <1>0, <1>3
<1>5. Vez' = Vez + 1
  BY <1>1, <1>2, <1>3, <1>4 DEF Vez
<1>6. Restam'
  <2>1. ASSUME NEW i \in 1 .. Len(ciclo'.segs), NEW a \in Lugares(dirs)
        PROVE  a \in Alcance(dirs, ciclo'.segs[i]) <=> Turno(dirs, journal.cursor, a) = Vez' + i - 1
    <3>1. i + 1 \in 1 .. Len(ciclo.segs) /\ ciclo'.segs[i] = ciclo.segs[i + 1] /\ Vez' + i - 1 = Vez + (i + 1) - 1
      BY <1>1, <1>3, <1>4, <1>5
    <3> QED
      BY <1>0, <3>1 DEF Restam
  <2>2. ASSUME NEW i \in 1 .. Len(ciclo'.segs) PROVE ciclo'.segs[i].dir \in ToSet(dirs)
    <3>1. i + 1 \in 1 .. Len(ciclo.segs) /\ ciclo'.segs[i] = ciclo.segs[i + 1]
      BY <1>1, <1>4
    <3> QED
      BY <1>0, <3>1 DEF Restam
  <2> QED
    BY <1>2, <2>1, <2>2 DEF Restam
<1>7. ~Andando' /\ Andando /\ Girando /\ Girando'
  BY <1>1 DEF Andando, Girando
<1>8. ASSUME NEW h \in Lugares(dirs)
      PROVE  /\ Foi(h) => Foi(h)'
             /\ Vem(h) => Vem(h)' \/ Foi(h)'
             /\ Vem(h) /\ ~(Turno(dirs, journal.cursor, h) = Vez /\ NaPilha(ciclo.pilha, h)) => Vem(h)'
  <2>1. /\ Foi(h)' <=> Passado(dirs, journal.cursor, Vez + 1, FALSE, ciclo'.pilha, h)
        /\ Vem(h)' <=> Adiante(dirs, journal.cursor, Vez + 1, FALSE, ciclo'.pilha, h)
    BY <1>2, <1>5, <1>7 DEF Foi, Vem, Passado, Adiante
  <2>2. /\ Foi(h) <=> Passado(dirs, journal.cursor, Vez, TRUE, ciclo.pilha, h)
        /\ Vem(h) <=> Adiante(dirs, journal.cursor, Vez, TRUE, ciclo.pilha, h)
    BY <1>7 DEF Foi, Vem, Passado, Adiante
  <2>3. Turno(dirs, journal.cursor, h) \in Int
    BY <1>3, TurnoTipo
  <2>4. /\ Turno(dirs, journal.cursor, h) <= Vez => Passado(dirs, journal.cursor, Vez + 1, FALSE, ciclo'.pilha, h)
        /\ Turno(dirs, journal.cursor, h) > Vez => Adiante(dirs, journal.cursor, Vez + 1, FALSE, ciclo'.pilha, h)
        /\ Passado(dirs, journal.cursor, Vez, TRUE, ciclo.pilha, h)
             => Passado(dirs, journal.cursor, Vez + 1, FALSE, ciclo'.pilha, h)
        /\ Adiante(dirs, journal.cursor, Vez, TRUE, ciclo.pilha, h)
             /\ ~(Turno(dirs, journal.cursor, h) = Vez /\ NaPilha(ciclo.pilha, h))
             => Adiante(dirs, journal.cursor, Vez + 1, FALSE, ciclo'.pilha, h)
    BY <1>3, Fecha
  <2>5. Foi(h) => Foi(h)'
    BY <2>1, <2>2, <2>4
  <2>6. Vem(h)' \/ Foi(h)'
    <3>1. Turno(dirs, journal.cursor, h) <= Vez \/ Turno(dirs, journal.cursor, h) > Vez
      BY <1>3, <2>3
    <3> QED
      BY <2>1, <2>4, <3>1
  <2>7. Vem(h) /\ ~(Turno(dirs, journal.cursor, h) = Vez /\ NaPilha(ciclo.pilha, h)) => Vem(h)'
    BY <2>1, <2>2, <2>4
  <2> QED
    BY <2>5, <2>6, <2>7
<1>9. NoLimite' = NoLimite
  BY <1>1, <1>2 DEF NoLimite
<1>10. /\ Presentes' = Presentes /\ antigos \subseteq Presentes /\ \A g \in Arquivo : falta[g] \subseteq antigos
  BY <1>0, <1>2 DEF Historia, Presentes
<1> QED
  BY <1>0, <1>1, <1>2, <1>6, <1>7, <1>8, <1>9, <1>10, Anda, PresentesTipo

-----------------------------------------------------------------------------
(* One lemma for each step of a cycle.                                      *)

\* While the segments stay the turn does.
LEMMA MesmoTrecho ==
  ASSUME dirs' = dirs, journal'.cursor = journal.cursor, ciclo'.segs = ciclo.segs
  PROVE  Vez' = Vez /\ (Restam => Restam')
<1>1. Vez' = Vez
  BY DEF Vez
<1>2. ASSUME Restam PROVE Restam'
  BY <1>1, <1>2 DEF Restam
<1> QED
  BY <1>1, <1>2

\* What is to come and what is behind, while the stack is r.
LEMMA NaSubida ==
  ASSUME dirs' = dirs, journal'.cursor = journal.cursor, ciclo'.segs = ciclo.segs,
         ciclo'.pc = "walk", NEW r, ciclo'.pilha = r, NEW h
  PROVE  /\ Foi(h)' <=> Passado(dirs, journal.cursor, Vez, TRUE, r, h)
         /\ Vem(h)' <=> Adiante(dirs, journal.cursor, Vez, TRUE, r, h)
<1>1. Vez' = Vez
  BY MesmoTrecho
<1> QED
  BY <1>1 DEF Foi, Vem, Passado, Adiante, Andando

\* The same before the step.
LEMMA NaDescida ==
  ASSUME ciclo.pc = "walk", NEW h
  PROVE  /\ Foi(h) <=> Passado(dirs, journal.cursor, Vez, TRUE, ciclo.pilha, h)
         /\ Vem(h) <=> Adiante(dirs, journal.cursor, Vez, TRUE, ciclo.pilha, h)
BY DEF Foi, Vem, Passado, Adiante, Andando

\* An entry is passed over.
LEMMA PassoResto ==
  ASSUME Rotativo, SemRepeticao, ciclo.pc = "walk", ciclo.pilha # <<>>,
         ciclo' = [ciclo EXCEPT !.pilha = Resto],
         UNCHANGED <<origem, journal, dirs, antigos>>, cfg'.modo = cfg.modo,
         \A g \in Arquivo : falta'[g] \subseteq falta[g],
         \A g \in Arquivo : \A h \in falta'[g] :
           h \in Lugares(dirs) => ~(Turno(dirs, journal.cursor, h) = Vez /\ IsPrefix(Entrada, h.rel))
  PROVE  EmVolta' /\ EmCiclo'
<1>0. /\ Quadro /\ EmVolta /\ EmCiclo /\ Restam /\ Historia /\ ciclo.pilha \in Seq(Caminho)
      /\ Ramos(ciclo.pilha) /\ Girando /\ Andando
  BY DEF Rotativo, EmCiclo, Girando, Andando, Quadro, CicloTipado
<1>1. /\ ciclo'.pc = "walk" /\ ciclo'.segs = ciclo.segs /\ ciclo'.last = ciclo.last
      /\ ciclo'.scanned = ciclo.scanned /\ ciclo'.pilha = Resto
  BY <1>0 DEF Quadro, CicloTipado
<1>2. Restam' /\ Girando' /\ Andando'
  BY <1>0, <1>1, MesmoTrecho DEF Girando, Andando
<1>3. Ramos(Resto)
  BY <1>0, RamosRetira DEF Resto
<1>4. ASSUME NEW h \in Lugares(dirs)
      PROVE  /\ Foi(h) => Foi(h)'
             /\ Vem(h) => Vem(h)' \/ Foi(h)'
             /\ Vem(h) /\ ~(Turno(dirs, journal.cursor, h) = Vez /\ IsPrefix(Entrada, h.rel)) => Vem(h)'
  <2>1. /\ Foi(h)' <=> Passado(dirs, journal.cursor, Vez, TRUE, Resto, h)
        /\ Vem(h)' <=> Adiante(dirs, journal.cursor, Vez, TRUE, Resto, h)
    BY <1>1, NaSubida
  <2>2. /\ Foi(h) <=> Passado(dirs, journal.cursor, Vez, TRUE, ciclo.pilha, h)
        /\ Vem(h) <=> Adiante(dirs, journal.cursor, Vez, TRUE, ciclo.pilha, h)
    BY NaDescida
  <2>3. /\ Passado(dirs, journal.cursor, Vez, TRUE, ciclo.pilha, h) => Passado(dirs, journal.cursor, Vez, TRUE, Resto, h)
        /\ Adiante(dirs, journal.cursor, Vez, TRUE, ciclo.pilha, h)
             => Adiante(dirs, journal.cursor, Vez, TRUE, Resto, h) \/ Passado(dirs, journal.cursor, Vez, TRUE, Resto, h)
        /\ Adiante(dirs, journal.cursor, Vez, TRUE, ciclo.pilha, h)
             /\ ~(Turno(dirs, journal.cursor, h) = Vez /\ IsPrefix(Entrada, h.rel))
             => Adiante(dirs, journal.cursor, Vez, TRUE, Resto, h)
    BY <1>0, Retira DEF Resto, Entrada
  <2> QED
    BY <2>1, <2>2, <2>3
<1>5. Presentes' = Presentes /\ antigos' \subseteq Presentes'
  BY <1>0 DEF Historia, Presentes
<1>6. \A g \in Arquivo : falta'[g] \subseteq antigos'
  BY <1>0 DEF Historia
<1>7. \A g \in Arquivo : \A h \in falta'[g] : h \in Lugares(dirs) /\ Vem(h) => Vem(h)'
  BY <1>4
<1> QED
  BY <1>0, <1>1, <1>2, <1>3, <1>4, <1>5, <1>6, <1>7, Anda, PresentesTipo

\* The root of a segment is listed.
LEMMA PassoEntra ==
  ASSUME Rotativo, SemRepeticao, SegmentBegin
  PROVE  EmVolta' /\ EmCiclo'
<1> DEFINE s == ReadDir(Segmento.dir, <<>>)
<1>0. /\ Quadro /\ EmVolta /\ EmCiclo /\ Restam /\ Historia /\ Girando /\ ciclo.pc = "segmento"
      /\ ciclo.segs # <<>> /\ ~NoLimite /\ ~Andando
  BY DEF Rotativo, EmCiclo, Girando, Andando, SegmentBegin
<1>1. /\ ciclo'.pc = "walk" /\ ciclo'.segs = ciclo.segs /\ ciclo'.last = ciclo.last
      /\ ciclo'.scanned = ciclo.scanned /\ ciclo'.pilha = s
  BY <1>0 DEF SegmentBegin, Passo, Segmento, Quadro, CicloTipado
<1>2. dirs' = dirs /\ journal' = journal /\ cfg' = cfg /\ origem' = origem /\ antigos' = antigos /\ falta' = falta
  BY DEF SegmentBegin, Passo, Mundo, historia
<1>3. Restam' /\ Girando' /\ Andando'
  BY <1>0, <1>1, <1>2, MesmoTrecho DEF Girando, Andando
<1>4. <<>> \in Caminho
  BY DEF Caminho
<1>5. /\ Ramos(s)
      /\ \A h \in Presentes : h.dir = Segmento.dir /\ IsStrictPrefix(<<>>, h.rel) => NaPilha(s, h)
  BY <1>4, ReadDirLe DEF Ramos, NaPilha
<1> HIDE DEF s
<1>6. ASSUME NEW h \in Lugares(dirs)
      PROVE  /\ Foi(h) => Foi(h)'
             /\ h \in antigos /\ Vem(h) => Vem(h)'
  <2>1. /\ Foi(h)' <=> Passado(dirs, journal.cursor, Vez, TRUE, s, h)
        /\ Vem(h)' <=> Adiante(dirs, journal.cursor, Vez, TRUE, s, h)
    BY <1>1, <1>2, NaSubida
  <2>2. h \in antigos /\ Turno(dirs, journal.cursor, h) = Vez => NaPilha(s, h)
    <3> SUFFICES ASSUME h \in antigos, Turno(dirs, journal.cursor, h) = Vez PROVE NaPilha(s, h)
      OBVIOUS
    <3>1. h \in Presentes
      BY <1>0 DEF Historia
    <3>2. h.dir = Segmento.dir
      BY <1>0, NoSegmento
    <3>3. h.rel \in Caminho /\ h.rel # <<>>
      BY LugarTipo
    <3>4. IsStrictPrefix(<<>>, h.rel)
      <4>1. Len(<<>>) = 0 /\ Len(h.rel) > 0
        BY <3>3 DEF Caminho
      <4>2. Iguais(<<>>, h.rel, Len(<<>>))
        BY <4>1 DEF Iguais
      <4> QED
        BY <1>4, <3>3, <4>1, <4>2, PrefixoSse
    <3> QED
      BY <1>5, <3>1, <3>2, <3>4
  <2>3. Foi(h) => Passado(dirs, journal.cursor, Vez, TRUE, s, h)
    BY <1>0 DEF Foi, Passado
  <2>4. h \in antigos /\ Vem(h) => Adiante(dirs, journal.cursor, Vez, TRUE, s, h)
    BY <2>2 DEF Vem, Adiante
  <2> QED
    BY <2>1, <2>3, <2>4
<1>7. Presentes' = Presentes /\ antigos \subseteq Presentes
  BY <1>0, <1>2 DEF Historia, Presentes
<1>8. \A g \in Arquivo : falta[g] \subseteq antigos
  BY <1>0 DEF Historia
<1> QED
  BY <1>0, <1>1, <1>2, <1>3, <1>5, <1>6, <1>7, <1>8, Anda, PresentesTipo

\* The folder on the top is read.
LEMMA PassoDesce ==
  ASSUME Rotativo, SemRepeticao, ciclo.pc = "walk", ciclo.pilha # <<>>, IsDir(Segmento.dir, Entrada),
         ciclo' = [ciclo EXCEPT !.pilha = ReadDir(Segmento.dir, Entrada) \o Resto], UNCHANGED <<Mundo, historia>>
  PROVE  EmVolta' /\ EmCiclo'
<1> DEFINE s == ReadDir(Segmento.dir, Entrada)
           r == s \o Resto
<1>0. /\ Quadro /\ EmVolta /\ EmCiclo /\ Restam /\ Historia /\ ciclo.pilha \in Seq(Caminho)
      /\ Ramos(ciclo.pilha) /\ Girando /\ Andando /\ ciclo.segs # <<>>
  BY DEF Rotativo, EmCiclo, Girando, Andando, Quadro, CicloTipado
<1>1. /\ ciclo'.pc = "walk" /\ ciclo'.segs = ciclo.segs /\ ciclo'.last = ciclo.last
      /\ ciclo'.scanned = ciclo.scanned /\ ciclo'.pilha = r
  BY <1>0 DEF Quadro, CicloTipado
<1>2. dirs' = dirs /\ journal' = journal /\ cfg' = cfg /\ origem' = origem /\ antigos' = antigos /\ falta' = falta
  BY DEF Mundo, historia
<1>3. Restam' /\ Girando' /\ Andando'
  BY <1>0, <1>1, <1>2, MesmoTrecho DEF Girando, Andando
<1>4. Entrada \in Caminho
  BY <1>0, Topo DEF Entrada
<1>5. /\ s \in Seq(Caminho) /\ Ramos(s)
      /\ \A i \in 1 .. Len(s) : IsPrefix(Entrada, s[i])
      /\ \A h \in Presentes : h.dir = Segmento.dir /\ IsStrictPrefix(Entrada, h.rel) => NaPilha(s, h)
  BY <1>4, ReadDirLe DEF Ramos, NaPilha
<1> HIDE DEF s, r
<1>6. ASSUME NEW h \in Lugares(dirs)
      PROVE  /\ Foi(h) => Foi(h)'
             /\ h \in antigos /\ Vem(h) => Vem(h)'
  <2>1. /\ Foi(h)' <=> Passado(dirs, journal.cursor, Vez, TRUE, r, h)
        /\ Vem(h)' <=> Adiante(dirs, journal.cursor, Vez, TRUE, r, h)
    BY <1>1, <1>2, NaSubida
  <2>2. /\ Foi(h) <=> Passado(dirs, journal.cursor, Vez, TRUE, ciclo.pilha, h)
        /\ Vem(h) <=> Adiante(dirs, journal.cursor, Vez, TRUE, ciclo.pilha, h)
    BY NaDescida
  <2>3. h \in antigos /\ Turno(dirs, journal.cursor, h) = Vez /\ IsPrefix(Entrada, h.rel) => NaPilha(s, h)
    <3> SUFFICES ASSUME h \in antigos, Turno(dirs, journal.cursor, h) = Vez, IsPrefix(Entrada, h.rel) PROVE NaPilha(s, h)
      OBVIOUS
    <3>1. h \in Presentes
      BY <1>0 DEF Historia
    <3>2. h.dir = Segmento.dir /\ h \in Arquivo
      BY <1>0, NoSegmento, LugarTipo
    <3>3. h.rel # Entrada
      BY <3>2, ArquivoAssumption DEF IsDir
    <3> QED
      BY <1>5, <3>1, <3>2, <3>3 DEF IsStrictPrefix
  <2>4. /\ Passado(dirs, journal.cursor, Vez, TRUE, ciclo.pilha, h) => Passado(dirs, journal.cursor, Vez, TRUE, r, h)
        /\ Adiante(dirs, journal.cursor, Vez, TRUE, ciclo.pilha, h)
             /\ (Turno(dirs, journal.cursor, h) = Vez /\ IsPrefix(Entrada, h.rel) => NaPilha(s, h))
             => Adiante(dirs, journal.cursor, Vez, TRUE, r, h)
    BY <1>0, <1>5, Desce DEF Resto, Entrada, r
  <2> QED
    BY <2>1, <2>2, <2>3, <2>4
<1>7. Presentes' = Presentes /\ antigos \subseteq Presentes
  BY <1>0, <1>2 DEF Historia, Presentes
<1>8. \A g \in Arquivo : falta[g] \subseteq antigos
  BY <1>0 DEF Historia
<1>9. Ramos(r)
  BY <1>0, <1>5, RamosDesce DEF Resto, Entrada, r
<1> QED
  BY <1>0, <1>1, <1>2, <1>3, <1>6, <1>7, <1>8, <1>9, Anda, PresentesTipo

\* The bounds of a segment are paths, and so is the entry on the top.
LEMMA SegmentoTipo ==
  ASSUME Quadro, ciclo.segs # <<>>
  PROVE  /\ Segmento.after \in Caminho /\ Segmento.upto \in Caminho
         /\ ciclo.pc = "walk" /\ ciclo.pilha # <<>> => Entrada \in Caminho
<1>1. ciclo.segs \in Seq(Segmentos) /\ ciclo.pilha \in Seq(Caminho)
  BY DEF Quadro, CicloTipado
<1>2. Segmento \in Segmentos
  BY <1>1 DEF Segmento
<1>3. Vias \subseteq Caminho
  <2>1. \A f \in Arquivo : f.rel \in Caminho
    BY ArquivoAssumption DEF Caminho, Nome
  <2>2. <<>> \in Caminho
    BY DEF Caminho
  <2> QED
    BY <2>1, <2>2 DEF Vias
<1> QED
  BY <1>1, <1>2, <1>3, Topo DEF Segmentos, Entrada

\* Past the end of the segment there is nothing left to come in it.
LEMMA NadaAlem ==
  ASSUME Rotativo, SemRepeticao, ciclo.pc = "walk", ciclo.pilha # <<>>,
         Segmento.upto # <<>>, pathLess(Segmento.upto, Entrada), NEW h \in Lugares(dirs)
  PROVE  ~(Turno(dirs, journal.cursor, h) = Vez /\ NaPilha(ciclo.pilha, h))
<1>1. /\ Quadro /\ Restam /\ ciclo.pilha \in Seq(Caminho) /\ Ramos(ciclo.pilha) /\ ciclo.segs # <<>>
  BY DEF Rotativo, EmCiclo, Girando, Andando, Quadro, CicloTipado
<1>2. Segmento.upto \in Caminho /\ Entrada \in Caminho /\ h.rel \in Caminho
  BY <1>1, SegmentoTipo, LugarTipo
<1> SUFFICES ASSUME Turno(dirs, journal.cursor, h) = Vez, NEW j \in 1 .. Len(ciclo.pilha),
                    IsPrefix(ciclo.pilha[j], h.rel)
             PROVE  FALSE
  BY DEF NaPilha
<1>3. ~pathLess(Segmento.upto, h.rel)
  BY <1>1, NoSegmento
<1>4. Entrada = ciclo.pilha[1] /\ 1 \in 1 .. Len(ciclo.pilha) /\ ciclo.pilha[j] \in Caminho
  BY <1>1, Topo DEF Entrada
<1>5. CASE j = 1
  BY <1>2, <1>3, <1>4, <1>5, MenorAbaixo
<1>6. CASE j # 1
  <2>1. Bifurca(Entrada, ciclo.pilha[j])
    BY <1>1, <1>4, <1>6 DEF Ramos
  <2>2. pathLess(Entrada, ciclo.pilha[j])
    BY <1>2, <1>4, <2>1, pathLessSse
  <2>3. pathLess(Segmento.upto, ciclo.pilha[j])
    BY <1>2, <1>4, <2>2, pathLessTransitiva
  <2> QED
    BY <1>2, <1>3, <1>4, <2>3, MenorAbaixo
<1> QED
  BY <1>5, <1>6

\* A folder is pruned, ends the segment, is read or cannot be read.
LEMMA PassoVisitDir ==
  ASSUME Rotativo, SemRepeticao, VisitDir
  PROVE  EmVolta' /\ EmCiclo'
<1> DEFINE podada == /\ Segmento.after # <<>> /\ pathLess(Entrada, Segmento.after)
                     /\ ~IsStrictPrefix(Entrada, Segmento.after)
           alem == Segmento.upto # <<>> /\ pathLess(Segmento.upto, Entrada)
<1>1. /\ ciclo.pc = "walk" /\ ciclo.pilha # <<>> /\ IsDir(Segmento.dir, Entrada)
      /\ \/ podada /\ Passo([ciclo EXCEPT !.pilha = Resto])
         \/ alem /\ Passo(Proximo)
         \/ Passo([ciclo EXCEPT !.pilha = ReadDir(Segmento.dir, Entrada) \o Resto])
         \/ /\ ciclo' = [ciclo EXCEPT !.pilha = Resto]
            /\ cfg' = [cfg EXCEPT !.falhas = @ - 1]
            /\ falta' = [f \in Arquivo |->
                 {g \in falta[f] : ~(g.dir = Segmento.dir /\ IsStrictPrefix(Entrada, g.rel))}]
            /\ UNCHANGED <<origem, copias, journal, rastreado, dirs, antigos>>
  BY DEF VisitDir
<1>2. /\ Quadro /\ Restam /\ ciclo.segs # <<>> /\ cfg \in Cenarios
  BY <1>1 DEF Rotativo, EmCiclo, Girando, Andando, Quadro, CicloTipado, MundoTipado
<1>3. Segmento.after \in Caminho /\ Entrada \in Caminho
  BY <1>1, <1>2, SegmentoTipo
<1>4. CASE podada /\ Passo([ciclo EXCEPT !.pilha = Resto])
  <2>1. ASSUME NEW h \in Lugares(dirs), Turno(dirs, journal.cursor, h) = Vez, IsPrefix(Entrada, h.rel) PROVE FALSE
    <3>1. h.rel \in Caminho /\ pathLess(Segmento.after, h.rel)
      BY <1>2, <1>4, <2>1, NoSegmento, LugarTipo
    <3>2. Bifurca(Entrada, Segmento.after)
      BY <1>3, <1>4, pathLessSse
    <3>3. Bifurca(h.rel, Segmento.after)
      BY <1>3, <2>1, <3>1, <3>2, PrefixoProprio, BifurcaAbaixo
    <3>4. pathLess(h.rel, Segmento.after)
      BY <1>3, <3>1, <3>3, pathLessSse
    <3> QED
      BY <1>3, <3>1, <3>4, pathLessTransitiva, pathLessEstrita
  <2>2. UNCHANGED <<origem, journal, dirs, antigos>> /\ cfg' = cfg /\ falta' = falta
    BY <1>4 DEF Passo, Mundo, historia
  <2>3. ciclo' = [ciclo EXCEPT !.pilha = Resto]
    BY <1>4 DEF Passo
  <2> QED
    BY <1>1, <2>1, <2>2, <2>3, PassoResto
<1>5. CASE alem /\ Passo(Proximo)
  <2>1. UNCHANGED <<Mundo, historia>> /\ ciclo' = Proximo
    BY <1>5 DEF Passo
  <2>2. \A h \in Lugares(dirs) : ~(Turno(dirs, journal.cursor, h) = Vez /\ NaPilha(ciclo.pilha, h))
    BY <1>1, <1>5, NadaAlem
  <2> QED
    BY <1>1, <2>1, <2>2, PassoProximo
<1>6. CASE Passo([ciclo EXCEPT !.pilha = ReadDir(Segmento.dir, Entrada) \o Resto])
  BY <1>1, <1>6, PassoDesce DEF Passo
<1>7. CASE /\ ciclo' = [ciclo EXCEPT !.pilha = Resto]
           /\ cfg' = [cfg EXCEPT !.falhas = @ - 1]
           /\ falta' = [f \in Arquivo |->
                {g \in falta[f] : ~(g.dir = Segmento.dir /\ IsStrictPrefix(Entrada, g.rel))}]
           /\ UNCHANGED <<origem, copias, journal, rastreado, dirs, antigos>>
  <2>1. cfg'.modo = cfg.modo
    BY <1>2, <1>7 DEF Cenarios
  <2>2. ASSUME NEW g \in Arquivo, NEW h \in falta'[g], h \in Lugares(dirs),
               Turno(dirs, journal.cursor, h) = Vez, IsPrefix(Entrada, h.rel)
        PROVE  FALSE
    <3>1. ~(h.dir = Segmento.dir /\ IsStrictPrefix(Entrada, h.rel))
      BY <1>7, <2>2
    <3>2. h.dir = Segmento.dir /\ h \in Arquivo
      BY <1>2, <2>2, NoSegmento, LugarTipo
    <3>3. h.rel # Entrada
      BY <1>1, <3>2, ArquivoAssumption DEF IsDir
    <3> QED
      BY <2>2, <3>1, <3>2, <3>3 DEF IsStrictPrefix
  <2>3. \A g \in Arquivo : falta'[g] \subseteq falta[g]
    BY <1>7
  <2> QED
    BY <1>1, <1>7, <2>1, <2>2, <2>3, PassoResto
<1> QED
  BY <1>1, <1>4, <1>5, <1>6, <1>7

\* The file that is about to be examined: what is owed a look because of f is
\* nothing, and the rest goes on from f.
LEMMA Vista ==
  ASSUME Rotativo, SemRepeticao, ciclo.pc = "walk", ciclo.pilha # <<>>, ~IsDir(Segmento.dir, Entrada),
         Segmento.after # <<>> => pathLess(Segmento.after, Entrada),
         Segmento.upto # <<>> => ~pathLess(Segmento.upto, Entrada)
  PROVE  LET f == Lugar(Segmento.dir, Entrada) IN
         /\ f \in Lugares(dirs) /\ f.dir = Segmento.dir /\ f.rel = Entrada
         /\ Turno(dirs, journal.cursor, f) = Vez
         /\ \A h \in Lugares(dirs) : Foi(h) => Volta(dirs, journal.cursor, h, f)
         /\ \A h \in Lugares(dirs) : Vem(h) => h = f \/ Volta(dirs, journal.cursor, f, h)
         /\ falta[f] = {}
         /\ \A g \in Arquivo : \A h \in falta[g] : h # f => Volta(dirs, Cursor(f), h, g)
<1> DEFINE f == Lugar(Segmento.dir, Entrada)
           c == journal.cursor
<1>1. /\ Quadro /\ EmVolta /\ EmCiclo /\ Restam /\ ciclo.pilha \in Seq(Caminho) /\ Ramos(ciclo.pilha)
      /\ ciclo.segs # <<>> /\ Andou /\ Devidos /\ Girando /\ Andando
  BY DEF Rotativo, EmCiclo, Girando, Andando, Quadro, CicloTipado
<1>2. /\ DirsBem(dirs) /\ Distintas(dirs) /\ CursorBom(dirs, c) /\ ciclo.segs \in Seq(Segmentos)
      /\ \A p \in Cursores : p.dir \in ToSet(dirs) => \E a \in Lugares(dirs) : p = Cursor(a)
  BY <1>1, Contexto
<1>3. f \in Arquivo /\ f.dir = Segmento.dir /\ f.rel = Entrada
  BY <1>1, LugarAchado
<1>4. Segmento.dir \in ToSet(dirs)
  <2>1. 1 \in 1 .. Len(ciclo.segs) /\ ciclo.segs[1] = Segmento
    BY <1>1, <1>2 DEF Segmento
  <2> QED
    BY <1>1, <2>1 DEF Restam
<1>5. f \in Lugares(dirs)
  BY <1>3, <1>4 DEF Lugares
<1> HIDE DEF f
<1>6. Turno(dirs, c, f) = Vez
  <2>1. f \in Alcance(dirs, Segmento)
    BY <1>3, <1>5 DEF Alcance
  <2> QED
    BY <1>1, <1>5, <2>1, NoSegmento
<1>7. \A h \in Lugares(dirs) : (Foi(h) => Volta(dirs, c, h, f)) /\ (Vem(h) => h = f \/ Volta(dirs, c, f, h))
  <2> TAKE h \in Lugares(dirs)
  <2>1. Turno(dirs, c, h) = Vez => h.dir = f.dir
    BY <1>1, <1>3, NoSegmento
  <2>2. /\ Foi(h) <=> Passado(dirs, c, Vez, TRUE, ciclo.pilha, h)
        /\ Vem(h) <=> Adiante(dirs, c, Vez, TRUE, ciclo.pilha, h)
    BY NaDescida
  <2>3. f.rel = Head(ciclo.pilha)
    BY <1>3 DEF Entrada
  <2>4. /\ Passado(dirs, c, Vez, TRUE, ciclo.pilha, h) => Volta(dirs, c, h, f)
        /\ Adiante(dirs, c, Vez, TRUE, ciclo.pilha, h) => h = f \/ Volta(dirs, c, f, h)
    BY <1>1, <1>2, <1>5, <1>6, <2>1, <2>3, Vizinhos
  <2> QED
    BY <2>2, <2>4
<1>8. ASSUME NEW g \in Arquivo, NEW h \in falta[g]
      PROVE  f # g /\ (h # f => Volta(dirs, Cursor(f), h, g))
  <2>1. g \in Lugares(dirs) /\ h \in Lugares(dirs) /\ h # g
    BY <1>1 DEF EmVolta
  <2>2. PICK p \in Lugares(dirs) : ciclo.last = Cursor(p) /\ Volta(dirs, Cursor(p), h, g)
    BY <1>1 DEF EmVolta, Posicao
  <2>3. CASE ciclo.scanned = 0
    <3>1. ciclo.last.dir \in ToSet(dirs)
      BY <2>2, LugarTipo DEF Cursor
    <3>2. c = Cursor(p)
      BY <1>1, <2>2, <2>3, <3>1 DEF Andou
    <3>3. Vem(h)
      BY <1>1, <2>3 DEF Devidos
    <3>4. f = h \/ Volta(dirs, Cursor(p), f, h)
      BY <1>7, <2>1, <3>2, <3>3
    <3> QED
      BY <1>2, <1>5, <2>1, <2>2, <3>4, VoltaSegue
  <2>4. CASE ciclo.scanned # 0
    <3>1. PICK a \in Lugares(dirs) : ciclo.last = Cursor(a) /\ Foi(a)
      BY <1>1, <2>4 DEF Andou
    <3>2. \A b \in Lugares(dirs) : ciclo.last = Cursor(b) => b = a
      BY <3>1, LugarTipo DEF Cursor
    <3>3. a = p
      BY <2>2, <3>2
    <3>4. Volta(dirs, c, p, f)
      BY <1>7, <3>1, <3>3
    <3>5. Volta(dirs, c, p, h) => f = h \/ Volta(dirs, c, f, h)
      <4>1. Volta(dirs, c, p, h) => Vem(h)
        BY <1>1, <3>2, <3>3 DEF Devidos
      <4> QED
        BY <1>7, <2>1, <4>1
    <3> QED
      BY <1>2, <1>5, <2>1, <2>2, <3>4, <3>5, VoltaDoCiclo
  <2> QED
    BY <2>3, <2>4
<1>9. falta[f] = {}
  BY <1>3, <1>8
<1> QED
  BY <1>3, <1>5, <1>6, <1>7, <1>8, <1>9 DEF f

\* A file is examined.
LEMMA PassoExame ==
  ASSUME Rotativo, SemRepeticao, ciclo.pc = "walk", ciclo.pilha # <<>>, ~IsDir(Segmento.dir, Entrada),
         Segmento.after # <<>> => pathLess(Segmento.after, Entrada),
         Segmento.upto # <<>> => ~pathLess(Segmento.upto, Entrada),
         NEW f, f = Lugar(Segmento.dir, Entrada), Examinado(f),
         ciclo'.pc = "walk", ciclo'.segs = ciclo.segs, ciclo'.pilha = Resto,
         ciclo'.last = [dir |-> Segmento.dir, path |-> Entrada], ciclo'.scanned = ciclo.scanned + 1,
         dirs' = dirs, journal'.cursor = journal.cursor, cfg'.modo = cfg.modo,
         \A h \in Arquivo : h # f => origem'[h] = origem[h]
  PROVE  EmVolta' /\ EmCiclo'
<1> DEFINE c == journal.cursor
<1>1. /\ Quadro /\ EmVolta /\ EmCiclo /\ Restam /\ ciclo.pilha \in Seq(Caminho) /\ Ramos(ciclo.pilha)
      /\ Girando /\ Historia /\ Partidos /\ cfg.modo = "sweep" /\ falta \in [Arquivo -> SUBSET Arquivo]
      /\ ciclo.scanned \in Nat
  BY DEF Rotativo, EmCiclo, Girando, Andando, Quadro, CicloTipado, MundoTipado
<1>2. /\ f \in Lugares(dirs) /\ f \in Arquivo /\ f.rel = Entrada /\ ciclo'.last = Cursor(f)
      /\ Turno(dirs, c, f) = Vez
      /\ \A h \in Lugares(dirs) : Foi(h) => Volta(dirs, c, h, f)
      /\ \A h \in Lugares(dirs) : Vem(h) => h = f \/ Volta(dirs, c, f, h)
      /\ \A g \in Arquivo : \A h \in falta[g] : h # f => Volta(dirs, Cursor(f), h, g)
  BY Vista, LugarTipo DEF Cursor
<1>3. DirsBem(dirs) /\ CursorBom(dirs, c)
  BY <1>1, Contexto
<1>4. Restam' /\ Girando' /\ Andando' /\ Vez' = Vez
  BY <1>1, MesmoTrecho DEF Girando, Andando
<1>5. Ramos(Resto)
  BY <1>1, RamosRetira DEF Resto
<1>6. ASSUME NEW h \in Lugares(dirs)
      PROVE  /\ Foi(h) => Foi(h)'
             /\ Vem(h) => Vem(h)' \/ Foi(h)'
             /\ Vem(h) /\ h # f => Vem(h)'
             /\ Foi(f)'
  <2>1. /\ Foi(h)' <=> Passado(dirs, c, Vez, TRUE, Resto, h)
        /\ Vem(h)' <=> Adiante(dirs, c, Vez, TRUE, Resto, h)
        /\ Foi(f)' <=> Passado(dirs, c, Vez, TRUE, Resto, f)
    BY NaSubida
  <2>2. /\ Foi(h) <=> Passado(dirs, c, Vez, TRUE, ciclo.pilha, h)
        /\ Vem(h) <=> Adiante(dirs, c, Vez, TRUE, ciclo.pilha, h)
    BY NaDescida
  <2>3. /\ Passado(dirs, c, Vez, TRUE, ciclo.pilha, h) => Passado(dirs, c, Vez, TRUE, Resto, h)
        /\ Adiante(dirs, c, Vez, TRUE, ciclo.pilha, h)
             => Adiante(dirs, c, Vez, TRUE, Resto, h) \/ Passado(dirs, c, Vez, TRUE, Resto, h)
        /\ Adiante(dirs, c, Vez, TRUE, ciclo.pilha, h) /\ ~(Turno(dirs, c, h) = Vez /\ IsPrefix(Entrada, h.rel))
             => Adiante(dirs, c, Vez, TRUE, Resto, h)
    BY <1>1, Retira DEF Resto, Entrada
  <2>4. Turno(dirs, c, h) = Vez /\ IsPrefix(Entrada, h.rel) => h = f
    <3> SUFFICES ASSUME Turno(dirs, c, h) = Vez, IsPrefix(Entrada, h.rel) PROVE h = f
      OBVIOUS
    <3>1. h.dir = f.dir
      <4>1. ciclo.segs # <<>>
        BY <1>1 DEF Quadro, CicloTipado
      <4> QED
        BY <1>1, <1>2, <4>1, NoSegmento
    <3>2. ~IsStrictPrefix(f.rel, h.rel)
      BY <1>2, <3>1, LugarTipo
    <3>3. f.rel = h.rel
      BY <1>2, <3>2 DEF IsStrictPrefix
    <3> QED
      BY <1>2, <3>1, <3>3, LugarTipo
  <2>5. Passado(dirs, c, Vez, TRUE, Resto, f)
    <3>1. ASSUME NEW j \in 1 .. Len(Resto) PROVE Bifurca(f.rel, Resto[j])
      <4>1. /\ Resto[j] = ciclo.pilha[j + 1] /\ j + 1 \in 1 .. Len(ciclo.pilha) /\ 1 \in 1 .. Len(ciclo.pilha)
            /\ 1 < j + 1 /\ f.rel = ciclo.pilha[1]
        BY <1>1, <1>2, Topo DEF Resto, Entrada
      <4> QED
        BY <1>1, <4>1 DEF Ramos
    <3> QED
      BY <1>2, <3>1 DEF Passado, AntesDaPilha
  <2>6. Foi(h) => Foi(h)'
    BY <2>1, <2>2, <2>3
  <2>7. Vem(h) => Vem(h)' \/ Foi(h)'
    BY <2>1, <2>2, <2>3
  <2>8. Vem(h) /\ h # f => Vem(h)'
    BY <2>1, <2>2, <2>3, <2>4
  <2> QED
    BY <2>1, <2>5, <2>6, <2>7, <2>8
<1>7. /\ antigos' = {g \in antigos : origem'[g] # Nenhum}
      /\ \A g \in Arquivo : \A h \in falta'[g] :
           h # f /\ h \in antigos /\ h \in Lugares(dirs) /\ (g # f => h \in falta[g])
  <2>1. /\ antigos' = {g \in antigos : origem'[g] # Nenhum}
        /\ falta' = [g \in Arquivo |->
              IF g = f THEN {h \in antigos : h.dir \in ToSet(dirs)} \ {f} ELSE falta[g] \ {f}]
    BY DEF Examinado
  <2>2. antigos \subseteq Arquivo
    BY <1>1 DEF Historia, Presentes
  <2>3. ASSUME NEW g \in Arquivo, NEW h \in falta'[g]
        PROVE  h # f /\ h \in antigos /\ h \in Lugares(dirs) /\ (g # f => h \in falta[g])
    <3>1. CASE g = f
      <4>1. h \in antigos /\ h.dir \in ToSet(dirs) /\ h # f
        BY <2>1, <2>3, <3>1
      <4> QED
        BY <2>2, <3>1, <4>1 DEF Lugares
    <3>2. CASE g # f
      <4>1. h \in falta[g] /\ h # f
        BY <2>1, <2>3, <3>2
      <4> QED
        BY <1>1, <3>2, <4>1 DEF EmVolta, Historia
    <3> QED
      BY <3>1, <3>2
  <2> QED
    BY <2>1, <2>3
<1>8. Historia'
  <2>1. antigos' \subseteq Presentes'
    BY <1>1, <1>7 DEF Historia, Presentes
  <2>2. ASSUME NEW g \in Arquivo, NEW h \in falta'[g] PROVE h \in antigos'
    <3>1. h # f /\ h \in antigos /\ h \in Arquivo
      BY <1>1, <1>7, <2>2 DEF Historia, Presentes
    <3>2. origem'[h] = origem[h] /\ origem[h] # Nenhum
      BY <1>1, <3>1 DEF Historia, Presentes
    <3> QED
      BY <1>7, <3>1, <3>2
  <2> QED
    BY <2>1, <2>2 DEF Historia
<1>9. EmVolta'
  <2>1. ASSUME NEW g \in Arquivo, NEW h \in falta'[g]
        PROVE  /\ g \in Lugares(dirs) /\ h \in Lugares(dirs) /\ h \in Presentes' /\ h # g
               /\ Volta(dirs, Cursor(f), h, g)
    <3>1. h # f /\ h \in Lugares(dirs) /\ (g # f => h \in falta[g])
      BY <1>7, <2>1
    <3>2. h \in Presentes'
      BY <1>8, <2>1 DEF Historia
    <3>3. CASE g = f
      BY <1>2, <1>3, <3>1, <3>2, <3>3, VoltaCompleta
    <3>4. CASE g # f
      BY <1>1, <1>2, <3>1, <3>2, <3>4 DEF EmVolta
    <3> QED
      BY <3>3, <3>4
  <2>2. Posicao' = Cursor(f)
    BY <1>2, <1>4 DEF Posicao
  <2> QED
    BY <1>1, <1>2, <2>1, <2>2 DEF EmVolta
<1>10. Andou'
  <2>1. ciclo'.scanned # 0
    BY <1>1
  <2> QED
    BY <1>2, <1>6, <2>1 DEF Andou
<1>11. Partidos'
  BY <1>1, <1>6, <1>7 DEF Partidos
<1>12. Devidos'
  <2> SUFFICES ASSUME NEW g \in Arquivo, NEW h \in falta'[g],
                      \A p \in Lugares(dirs) : ciclo'.scanned # 0 /\ ciclo'.last = Cursor(p) => Volta(dirs, c, p, h)
               PROVE  Vem(h)'
    BY DEF Devidos
  <2>1. ciclo'.scanned # 0
    BY <1>1
  <2>2. Volta(dirs, c, f, h)
    BY <1>2, <2>1
  <2>3. h # f /\ h \in antigos /\ h \in Lugares(dirs)
    BY <1>7
  <2>4. ~Foi(h)
    BY <1>2, <1>3, <2>2, <2>3, VoltaOrdem
  <2>5. Vem(h)
    BY <1>1, <2>3, <2>4 DEF Partidos
  <2> QED
    BY <1>6, <2>3, <2>5
<1> QED
  BY <1>1, <1>4, <1>5, <1>8, <1>9, <1>10, <1>11, <1>12 DEF EmCiclo

\* A file is passed over, ends the segment or is examined.
LEMMA PassoVisitFile ==
  ASSUME Rotativo, SemRepeticao, VisitFile
  PROVE  EmVolta' /\ EmCiclo'
<1> DEFINE fora == Segmento.after # <<>> /\ ~pathLess(Segmento.after, Entrada)
           alem == Segmento.upto # <<>> /\ pathLess(Segmento.upto, Entrada)
           f == Lugar(Segmento.dir, Entrada)
           visto == [ciclo EXCEPT !.pilha = Resto, !.scanned = @ + 1,
                                  !.last = [dir |-> Segmento.dir, path |-> Entrada]]
<1>1. /\ ciclo.pc = "walk" /\ ciclo.pilha # <<>> /\ ~IsDir(Segmento.dir, Entrada)
      /\ \/ fora /\ Passo([ciclo EXCEPT !.pilha = Resto])
         \/ (alem \/ NoLimite) /\ Passo(Proximo)
         \/ /\ ~fora /\ ~alem /\ UNCHANGED dirs /\ Examinado(f)
            /\ ciclo' = visto \/ ciclo' = [visto EXCEPT !.planned = @ + 1]
            /\ \/ UNCHANGED <<origem, copias, journal, rastreado, cfg>>
               \/ Trata(Plano(f)) /\ (DryRun(Plano(f)) \/ ExecuteOk(f, Plano(f)) \/ ExecuteErro(Plano(f)))
  BY DEF VisitFile
<1>2. /\ Quadro /\ Restam /\ ciclo.segs # <<>> /\ CicloTipado
  BY <1>1 DEF Rotativo, EmCiclo, Girando, Andando, Quadro, CicloTipado
<1>3. CASE fora /\ Passo([ciclo EXCEPT !.pilha = Resto])
  <2>1. ASSUME NEW h \in Lugares(dirs), Turno(dirs, journal.cursor, h) = Vez, IsPrefix(Entrada, h.rel) PROVE FALSE
    <3>1. h \in Arquivo /\ h.dir = Segmento.dir /\ pathLess(Segmento.after, h.rel)
      BY <1>2, <1>3, <2>1, NoSegmento, LugarTipo
    <3>2. h.rel = Entrada
      BY <1>1, <2>1, <3>1 DEF IsDir, IsStrictPrefix
    <3> QED
      BY <1>3, <3>1, <3>2
  <2>2. UNCHANGED <<origem, journal, dirs, antigos>> /\ cfg' = cfg /\ falta' = falta
    BY <1>3 DEF Passo, Mundo, historia
  <2>3. ciclo' = [ciclo EXCEPT !.pilha = Resto]
    BY <1>3 DEF Passo
  <2> QED
    BY <1>1, <2>1, <2>2, <2>3, PassoResto
<1>4. CASE (alem \/ NoLimite) /\ Passo(Proximo)
  <2>1. UNCHANGED <<Mundo, historia>> /\ ciclo' = Proximo
    BY <1>4 DEF Passo
  <2>2. alem => \A h \in Lugares(dirs) : ~(Turno(dirs, journal.cursor, h) = Vez /\ NaPilha(ciclo.pilha, h))
    BY <1>1, NadaAlem
  <2> QED
    BY <1>1, <1>4, <2>1, <2>2, PassoProximo
<1>5. CASE /\ ~fora /\ ~alem /\ UNCHANGED dirs /\ Examinado(f)
           /\ ciclo' = visto \/ ciclo' = [visto EXCEPT !.planned = @ + 1]
           /\ \/ UNCHANGED <<origem, copias, journal, rastreado, cfg>>
              \/ Trata(Plano(f)) /\ (DryRun(Plano(f)) \/ ExecuteOk(f, Plano(f)) \/ ExecuteErro(Plano(f)))
  <2>1. /\ ciclo'.pc = "walk" /\ ciclo'.segs = ciclo.segs /\ ciclo'.pilha = Resto
        /\ ciclo'.last = [dir |-> Segmento.dir, path |-> Entrada] /\ ciclo'.scanned = ciclo.scanned + 1
    BY <1>1, <1>2, <1>5 DEF CicloTipado
  <2> HIDE DEF f
  <2>2. /\ journal'.cursor = journal.cursor /\ cfg'.modo = cfg.modo
        /\ \A h \in Arquivo : h # f => origem'[h] = origem[h]
    BY <1>2, <1>5, Tratamento
  <2> QED
    BY <1>1, <1>5, <2>1, <2>2, PassoExame DEF f
<1> QED
  BY <1>1, <1>3, <1>4, <1>5

\* A cycle begins: the rotation starts where the last one stopped.
LEMMA PassoComeca ==
  ASSUME Rotativo, SemRepeticao, SweepBegin
  PROVE  EmVolta' /\ EmCiclo'
<1> DEFINE c == journal.cursor
           R == Rotacao(c)
<1>1. /\ Quadro /\ EmVolta /\ EmCiclo /\ cfg.modo = "sweep" /\ ciclo.pc = "idle" /\ ~Girando
  BY DEF Rotativo, SweepBegin, Girando
<1>2. /\ DirsBem(dirs) /\ Distintas(dirs) /\ CursorBom(dirs, c)
  BY <1>1, Contexto
<1>3. /\ ciclo'.pc = "segmento" /\ ciclo'.segs = R /\ ciclo'.last = Atual(c) /\ ciclo'.scanned = 0
  BY DEF SweepBegin, Parado
<1>4. /\ dirs' = dirs /\ journal' = journal /\ cfg' = cfg /\ origem' = origem /\ falta' = falta
      /\ antigos' = Presentes
  BY DEF SweepBegin, Mundo
<1>5. c.dir \in ToSet(dirs) <=> \E i \in DOMAIN dirs : dirs[i] = c.dir
  BY DEF ToSet
<1>6. Atual(c) = IF c.dir \in ToSet(dirs) THEN c ELSE Inicio
  BY <1>5 DEF Atual
<1>7. R \in Seq(Paradas(dirs, c)) /\ Len(R) = Total(dirs, c) /\ Total(dirs, c) \in Nat
  <2>1. Len(dirs) \in Nat
    BY <1>2 DEF DirsBem
  <2>2. R \in Seq(Paradas(dirs, c))
    BY <1>2, RotacaoForma
  <2>3. CASE c.dir \in ToSet(dirs)
    <3>1. Len(R) = Len(dirs) + 1
      BY <1>2, <2>3, RotacaoForma
    <3> QED
      BY <2>1, <2>2, <2>3, <3>1 DEF Total
  <2>4. CASE c.dir \notin ToSet(dirs)
    <3>1. Len(R) = Len(dirs)
      BY <1>2, <2>4, RotacaoForma
    <3> QED
      BY <2>1, <2>2, <2>4, <3>1 DEF Total
  <2> QED
    BY <2>3, <2>4
<1> HIDE DEF R
<1>8. Vez' = 1
  BY <1>3, <1>4, <1>7 DEF Vez
<1>9. Restam'
  <2>1. ASSUME NEW i \in 1 .. Len(R) PROVE R[i].dir \in ToSet(dirs)
    <3>1. R[i] \in Paradas(dirs, c)
      BY <1>7
    <3> QED
      BY <3>1 DEF Paradas
  <2>2. ASSUME NEW i \in 1 .. Len(R), NEW a \in Lugares(dirs)
        PROVE  a \in Alcance(dirs, R[i]) <=> Turno(dirs, c, a) = Vez' + i - 1
    <3>1. a \in Alcance(dirs, R[i]) <=> i = Turno(dirs, c, a)
      BY <1>2, TurnoAlcance DEF R
    <3>2. Vez' + i - 1 = i
      BY <1>8
    <3> QED
      BY <3>1, <3>2
  <2> QED
    BY <1>3, <1>4, <2>1, <2>2 DEF Restam
<1>10. Girando' /\ ~Andando'
  BY <1>3 DEF Girando, Andando
<1>11. \A h \in Lugares(dirs) : Vem(h)'
  <2> TAKE h \in Lugares(dirs)
  <2>1. Turno(dirs, c, h) \in 1 .. Total(dirs, c)
    BY <1>2, TurnoTipo
  <2>2. Turno(dirs, c, h) > Vez' \/ Turno(dirs, c, h) = Vez'
    BY <1>7, <1>8, <2>1
  <2> QED
    BY <1>4, <1>10, <2>2 DEF Vem, Adiante
<1>12. Andou'
  <2>1. Inicio.dir \notin ToSet(dirs)
    BY <1>2 DEF DirsBem, Inicio
  <2> QED
    BY <1>3, <1>4, <1>6, <2>1 DEF Andou
<1>13. Historia'
  BY <1>1, <1>4 DEF Historia, Presentes, EmVolta
<1>14. Partidos' /\ Devidos'
  <2>1. \A g \in Arquivo : \A h \in falta[g] : h \in Lugares(dirs)
    BY <1>1 DEF EmVolta
  <2> QED
    BY <1>4, <1>11, <2>1 DEF Partidos, Devidos
<1>15. EmVolta'
  <2>1. \A p \in Lugares(dirs) : Posicao = Cursor(p) => Posicao' = Cursor(p)
    BY <1>1, <1>3, <1>6, <1>10, LugarTipo DEF Posicao, Cursor
  <2>2. Presentes' = Presentes /\ \A g \in Arquivo : falta[g] \subseteq Presentes
    BY <1>1, <1>4 DEF Presentes, EmVolta
  <2> QED
    BY <1>1, <1>4, <2>1, <2>2, VoltaFica, PresentesTipo
<1> QED
  BY <1>1, <1>3, <1>4, <1>9, <1>10, <1>12, <1>13, <1>14, <1>15 DEF EmCiclo

\* A cycle ends: the cursor is saved, or lost with what was owed.
LEMMA PassoTermina ==
  ASSUME Rotativo, SemRepeticao, SweepEnd
  PROVE  EmVolta' /\ EmCiclo'
<1>1. /\ Quadro /\ EmVolta /\ EmCiclo /\ Andou /\ Girando /\ journal = [cursor |-> journal.cursor, done |-> journal.done,
                                                                 dryPlanned |-> journal.dryPlanned]
  BY QuadroTipado DEF Rotativo, SweepEnd, Girando, EmCiclo, Quadro, Tipado
<1>2. ciclo'.pc = "idle" /\ dirs' = dirs /\ origem' = origem
  BY DEF SweepEnd, Parado
<1>3. ~Girando' /\ EmCiclo'
  BY <1>2 DEF Girando, EmCiclo
<1>4. CASE cfg' = cfg /\ falta' = falta /\ journal' = IF ciclo.scanned > 0 THEN [journal EXCEPT !.cursor = ciclo.last] ELSE journal
  <2>1. \A p \in Lugares(dirs) : Posicao = Cursor(p) => Posicao' = Cursor(p)
    <3>1. CASE ciclo.scanned > 0
      <4>1. journal'.cursor = ciclo.last
        BY <1>1, <1>4, <3>1
      <4> QED
        BY <1>1, <1>3, <4>1 DEF Posicao
    <3>2. CASE ~(ciclo.scanned > 0)
      <4>1. ciclo.scanned = 0
        <5>1. ciclo.scanned \in 0 .. cfg.maxScan /\ cfg.maxScan \in Nat
          BY <1>1 DEF Quadro, CicloTipado, MundoTipado, Cenarios
        <5> QED
          BY <3>2, <5>1
      <4>2. journal'.cursor = journal.cursor
        BY <1>4, <3>2
      <4> QED
        BY <1>1, <1>3, <4>1, <4>2, LugarTipo DEF Posicao, Andou, Cursor
    <3> QED
      BY <3>1, <3>2
  <2>2. Presentes' = Presentes /\ \A g \in Arquivo : falta[g] \subseteq Presentes
    BY <1>1, <1>2 DEF Presentes, EmVolta
  <2> QED
    BY <1>1, <1>2, <1>3, <1>4, <2>1, <2>2, VoltaFica, PresentesTipo
<1>5. CASE falta' = [f \in Arquivo |-> {}]
  BY <1>3, <1>5 DEF EmVolta
<1> QED
  BY <1>4, <1>5 DEF SweepEnd

\* The worklist owes nobody a look.
LEMMA PassoLista ==
  ASSUME Rotativo, WorklistBegin \/ RunItem \/ WorklistEnd
  PROVE  EmVolta' /\ EmCiclo'
<1>1. Quadro /\ EmVolta /\ EmCiclo
  BY DEF Rotativo
<1>2. cfg.modo = "worklist"
  BY <1>1 DEF WorklistBegin, RunItem, WorklistEnd, EmCiclo
<1>3. falta' = falta /\ cfg'.modo = cfg.modo
  <2>1. falta' = falta
    BY DEF WorklistBegin, RunItem, WorklistEnd, Passo, historia
  <2>2. CASE WorklistBegin \/ WorklistEnd
    BY <2>1, <2>2 DEF WorklistBegin, WorklistEnd, Passo, Mundo
  <2>3. CASE RunItem
    <3> DEFINE f == Head(ciclo.itens).path
    <3>1. \/ cfg' = cfg
          \/ Trata(Plano(f)) /\ (DryRun(Plano(f)) \/ ExecuteOk(f, Plano(f)) \/ ExecuteErro(Plano(f)))
      BY <2>3 DEF RunItem
    <3> HIDE DEF f
    <3> QED
      BY <1>1, <2>1, <3>1, Tratamento
  <2> QED
    BY <2>2, <2>3
<1>4. \A g \in Arquivo : falta[g] = {}
  BY <1>1, <1>2 DEF EmVolta
<1>5. ciclo'.pc \in {"idle", "lista"}
  <2>1. CASE RunItem
    <3>1. CicloTipado'
      BY <1>1, <2>1, PassoCiclo DEF Next, Syncer
    <3>2. /\ ciclo.pc = "lista"
          /\ \/ ciclo' = [ciclo EXCEPT !.itens = Tail(@)]
             \/ \E n : ciclo' = [ciclo EXCEPT !.itens = Tail(@), !.planned = n]
      BY <2>1 DEF RunItem
    <3> QED
      BY <1>1, <3>2 DEF Quadro, CicloTipado
  <2>2. CASE WorklistBegin
    <3> DEFINE lista == [i \in DOMAIN Worklist |-> [chave |-> Worklist[i], path |-> rastreado[Worklist[i]].path]]
    <3>1. ciclo' = [Parado EXCEPT !.pc = "lista", !.itens = lista]
      BY <2>2 DEF WorklistBegin, Passo
    <3> HIDE DEF lista
    <3> QED
      BY <3>1 DEF Parado
  <2>3. CASE WorklistEnd
    BY <2>3 DEF WorklistEnd, Passo, Parado
  <2> QED
    BY <2>1, <2>2, <2>3
<1>6. EmCiclo'
  BY <1>2, <1>3, <1>5 DEF EmCiclo, Girando
<1>7. EmVolta'
  BY <1>3, <1>4 DEF EmVolta
<1> QED
  BY <1>6, <1>7

\* What comes and goes around the cycle.
LEMMA PassoEntorno ==
  ASSUME Rotativo, ciclo' = ciclo, journal' = journal, dirs' = dirs, cfg'.modo = cfg.modo,
         cfg'.maxScan = cfg.maxScan, cfg'.maxPer = cfg.maxPer,
         NEW S, antigos' = antigos \ S, \A g \in Arquivo : falta'[g] = falta[g] \ S,
         \A h \in Arquivo : h \notin S /\ origem[h] # Nenhum => origem'[h] # Nenhum
  PROVE  EmVolta' /\ EmCiclo'
<1>1. Quadro /\ EmVolta /\ EmCiclo
  BY DEF Rotativo
<1>2. /\ \A g \in Arquivo : falta'[g] \subseteq falta[g]
      /\ \A g \in Arquivo : falta'[g] \subseteq Presentes'
  BY <1>1 DEF EmVolta, Presentes
<1>3. CASE ~Girando
  <2>1. Posicao' = Posicao /\ ~Girando'
    BY <1>3 DEF Posicao, Girando
  <2>2. EmCiclo'
    BY <1>1, <2>1 DEF EmCiclo
  <2>3. Presentes' \subseteq Arquivo
    BY DEF Presentes
  <2> QED
    BY <1>1, <1>2, <2>1, <2>2, <2>3, VoltaFica
<1>4. CASE Girando
  <2>1. Historia /\ Restam /\ ciclo.pc # "lista" /\ (Andando => Ramos(ciclo.pilha))
    BY <1>1, <1>4 DEF EmCiclo, Girando
  <2>2. Girando' /\ Andando' = Andando /\ Restam' /\ Vez' = Vez
    BY <1>4, <2>1, MesmoTrecho DEF Girando, Andando
  <2>3. NoLimite' <=> NoLimite
    BY DEF NoLimite
  <2>4. \A h \in Lugares(dirs) : (Foi(h)' <=> Foi(h)) /\ (Vem(h)' <=> Vem(h))
    BY <2>2 DEF Foi, Vem, Passado, Adiante
  <2>5. antigos' \subseteq antigos /\ antigos' \subseteq Presentes' /\ \A g \in Arquivo : falta'[g] \subseteq antigos'
    BY <2>1 DEF Historia, Presentes
  <2>6. Presentes' \subseteq Arquivo
    BY DEF Presentes
  <2>7. Andando' \/ ~NoLimite' => Andando \/ ~NoLimite
    BY <2>2, <2>3
  <2> QED
    BY <1>1, <1>2, <1>4, <2>1, <2>2, <2>4, <2>5, <2>6, <2>7, Anda
<1> QED
  BY <1>3, <1>4

\* Every step keeps the invariant.
LEMMA RotativoPasso ==
  ASSUME SemRepeticao, Rotativo, [Next]_vars
  PROVE  Rotativo'
<1> DEFINE Bem == EmVolta' /\ EmCiclo'
<1>1. Quadro /\ Quadro'
  BY QuadroPasso DEF Rotativo
<1>2. ASSUME SegmentEnd PROVE Bem
  <2>1. \A h \in Lugares(dirs) : ~NaPilha(ciclo.pilha, h)
    BY <1>2 DEF SegmentEnd, NaPilha
  <2> QED
    BY <1>1, <1>2, <2>1, PassoProximo DEF SegmentEnd, Passo
<1>3. ASSUME WorklistBegin \/ RunItem \/ WorklistEnd PROVE Bem
  BY <1>3, PassoLista
<1>4. ASSUME NEW f \in Arquivo, Some(f) PROVE Bem
  <2>1. cfg' = [cfg EXCEPT !.sumicos = @ - 1] /\ cfg \in Cenarios /\ falta \in [Arquivo -> SUBSET Arquivo]
    BY <1>1, <1>4 DEF Some, Quadro, MundoTipado
  <2>2. cfg'.modo = cfg.modo /\ cfg'.maxScan = cfg.maxScan /\ cfg'.maxPer = cfg.maxPer
    BY <2>1 DEF Cenarios
  <2>3. /\ antigos' = antigos \ {f} /\ \A g \in Arquivo : falta'[g] = falta[g] \ {f}
        /\ ciclo' = ciclo /\ journal' = journal /\ dirs' = dirs
    BY <1>4, <2>1 DEF Some
  <2>4. \A h \in Arquivo : h \notin {f} /\ origem[h] # Nenhum => origem'[h] # Nenhum
    BY <1>1, <1>4 DEF Some, Quadro, MundoTipado
  <2> QED
    BY <2>2, <2>3, <2>4, PassoEntorno
<1>5. ASSUME NEW f \in Arquivo, NEW x \in Xml, Chega(f, x) PROVE Bem
  <2>1. cfg' = [cfg EXCEPT !.chegadas = @ - 1] /\ cfg \in Cenarios /\ origem' = [origem EXCEPT ![f] = x]
        /\ origem \in [Arquivo -> Xml \cup {Nenhum}] /\ origem[f] = Nenhum
    BY <1>1, <1>5 DEF Chega, Quadro, MundoTipado
  <2>2. cfg'.modo = cfg.modo /\ cfg'.maxScan = cfg.maxScan /\ cfg'.maxPer = cfg.maxPer
    BY <2>1 DEF Cenarios
  <2>3. /\ antigos' = antigos \ {} /\ \A g \in Arquivo : falta'[g] = falta[g] \ {}
        /\ ciclo' = ciclo /\ journal' = journal /\ dirs' = dirs
    BY <1>5 DEF Chega, historia
  <2>4. \A h \in Arquivo : h \notin {} /\ origem[h] # Nenhum => origem'[h] # Nenhum
    BY <2>1
  <2> QED
    BY <2>2, <2>3, <2>4, PassoEntorno
<1>6. ASSUME (\E f \in Arquivo : AgenteVe(f)) \/ UNCHANGED vars PROVE Bem
  <2>1. /\ antigos' = antigos \ {} /\ \A g \in Arquivo : falta'[g] = falta[g] \ {}
        /\ ciclo' = ciclo /\ journal' = journal /\ dirs' = dirs /\ cfg' = cfg /\ origem' = origem
    BY <1>6 DEF AgenteVe, historia, vars
  <2> QED
    BY <2>1, PassoEntorno
<1>7. ASSUME NEW d \in DirsPossiveis, Reinicia(d) PROVE Bem
  <2>1. ciclo'.pc = "idle" /\ ~Girando'
    BY <1>7 DEF Reinicia, Parado, Girando
  <2>2. EmCiclo'
    BY <2>1 DEF EmCiclo
  <2>3. CASE falta' = [f \in Arquivo |-> {}]
    BY <2>2, <2>3 DEF EmVolta
  <2>4. CASE ciclo.pc = "idle" /\ d = dirs /\ falta' = falta
    <3>1. cfg'.modo = cfg.modo
      BY <1>1, <1>7 DEF Reinicia, Quadro, MundoTipado, Cenarios
    <3>2. dirs' = dirs /\ journal' = journal /\ origem' = origem
      BY <1>7, <2>4 DEF Reinicia
    <3>3. Posicao' = Posicao
      BY <2>1, <2>4, <3>2 DEF Posicao, Girando
    <3>4. Presentes' = Presentes /\ EmVolta /\ \A g \in Arquivo : falta[g] \subseteq Presentes
      BY <3>2 DEF Presentes, EmVolta, Rotativo
    <3> QED
      BY <2>2, <2>4, <3>1, <3>2, <3>3, <3>4, VoltaFica, PresentesTipo
  <2> QED
    BY <1>7, <2>3, <2>4 DEF Reinicia
<1>8. Bem
  BY <1>2, <1>3, <1>4, <1>5, <1>6, <1>7, PassoComeca, PassoEntra, PassoTermina, PassoVisitDir, PassoVisitFile
     DEF Next, Syncer, Entorno
<1> QED
  BY <1>1, <1>8 DEF Rotativo

\* Only a file that is examined makes the count grow.
LEMMA SoExame ==
  ASSUME Rotativo, SemRepeticao, Next, ciclo'.scanned > ciclo.scanned
  PROVE  falta[Lugar(ciclo'.last.dir, ciclo'.last.path)] = {}
<1>1. Quadro /\ CicloTipado /\ ciclo.scanned \in Nat
  BY DEF Rotativo, Quadro, CicloTipado
<1>2. ~(ciclo' = ciclo) /\ ciclo' # Parado
  BY <1>1 DEF Parado
<1>3. ciclo' # Proximo
  <2>1. Proximo.scanned = ciclo.scanned
    BY <1>1 DEF CicloTipado, Proximo
  <2> QED
    BY <1>1, <2>1
<1>4. \A q : ciclo' # [ciclo EXCEPT !.pilha = q]
  BY <1>1 DEF CicloTipado
<1>5. CASE VisitFile
  <2> DEFINE aqui == [dir |-> Segmento.dir, path |-> Entrada]
             visto == [ciclo EXCEPT !.pilha = Resto, !.scanned = @ + 1, !.last = aqui]
  <2>1. /\ ciclo.pc = "walk" /\ ciclo.pilha # <<>> /\ ~IsDir(Segmento.dir, Entrada)
        /\ Segmento.after # <<>> => pathLess(Segmento.after, Entrada)
        /\ Segmento.upto # <<>> => ~pathLess(Segmento.upto, Entrada)
        /\ ciclo' = visto \/ ciclo' = [visto EXCEPT !.planned = @ + 1]
    BY <1>3, <1>4, <1>5 DEF VisitFile, Passo
  <2>2. ciclo'.last = aqui
    BY <1>1, <2>1 DEF CicloTipado
  <2>3. falta[Lugar(Segmento.dir, Entrada)] = {}
    BY <2>1, Vista
  <2> QED
    BY <2>2, <2>3
<1>6. CASE VisitDir
  BY <1>3, <1>4, <1>6 DEF VisitDir, Passo
<1>7. CASE SweepBegin
  <2>1. ciclo'.scanned = 0
    BY <1>7 DEF SweepBegin, Parado
  <2> QED
    BY <1>1, <2>1
<1>8. CASE SegmentBegin
  BY <1>1, <1>8 DEF SegmentBegin, Passo, CicloTipado
<1>9. CASE SegmentEnd \/ SweepEnd \/ WorklistEnd
  BY <1>2, <1>3, <1>9 DEF SegmentEnd, SweepEnd, WorklistEnd, Passo
<1>10. CASE WorklistBegin
  <2>1. ciclo'.scanned = 0
    BY <1>10 DEF WorklistBegin, Passo, Parado
  <2> QED
    BY <1>1, <2>1
<1>11. CASE RunItem
  <2>1. \/ ciclo' = [ciclo EXCEPT !.itens = Tail(@)]
        \/ \E n : ciclo' = [ciclo EXCEPT !.itens = Tail(@), !.planned = n]
    BY <1>11 DEF RunItem
  <2>2. ciclo'.scanned = ciclo.scanned
    BY <1>1, <2>1 DEF CicloTipado
  <2> QED
    BY <1>1, <2>2
<1>12. CASE \E f \in Arquivo : Some(f) \/ AgenteVe(f) \/ \E x \in Xml : Chega(f, x)
  BY <1>2, <1>12 DEF Some, AgenteVe, Chega
<1>13. CASE \E d \in DirsPossiveis : Reinicia(d)
  BY <1>2, <1>13 DEF Reinicia
<1> QED
  BY <1>5, <1>6, <1>7, <1>8, <1>9, <1>10, <1>11, <1>12, <1>13 DEF Next, Syncer, Entorno

\* No file is examined again while one that was there all along and within reach
\* waits for its first look, whatever the limits, the files that come and go, the
\* folders that cannot be read and the restarts; provided that no folder is listed
\* twice.
THEOREM OneLapHolds ==
  ASSUME SemRepeticao
  PROVE  Spec => OneLap
<1> DEFINE Examina == ciclo'.scanned > ciclo.scanned => falta[Lugar(ciclo'.last.dir, ciclo'.last.path)] = {}
<1>1. Init => Rotativo
  <2> SUFFICES ASSUME Init PROVE Rotativo
    OBVIOUS
  <2>1. ciclo.pc = "idle" /\ \A g \in Arquivo : falta[g] = {}
    BY DEF Init, Parado
  <2> QED
    BY <2>1, QuadroInicio DEF Rotativo, EmVolta, EmCiclo, Girando
<1>2. SemRepeticao
  OBVIOUS
<1>3. Rotativo /\ [Next]_vars => Rotativo' /\ [Examina]_vars
  BY <1>2, RotativoPasso, SoExame
<1> QED
  BY <1>1, <1>3, PTL DEF Spec, OneLap
=============================================================================
