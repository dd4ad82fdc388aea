------------------------ MODULE ProviderReadsProofs ------------------------
(***************************************************************************)
(* What a run of each synchronization leaves in its tables, whatever the   *)
(* provider sends and however much of it: proved from what the adapters    *)
(* collect on the way.  The induction over the length of a read is over a  *)
(* set of numbers (UpTo), and gives what a dict holds after a sequence of  *)
(* updates (CollectedKeepsTheLast); everything else rests on the place of  *)
(* the entry that each thing read came from.                               *)
(***************************************************************************)
EXTENDS ProviderReads, FiniteSetTheorems, WellFoundedInduction, TLAPS

-----------------------------------------------------------------------------
(* Induction over numbers, and the dict after a sequence of updates.       *)

(* Pairs of numbers in order, the relation the induction is over.         *)
Less == {p \in Nat \X Nat : p[1] < p[2]}

(* A set of numbers that is not empty has a least element.                 *)
LEMMA LeastOf ==
  ASSUME NEW T, T \subseteq Nat, T # {}
  PROVE  \E x \in T : \A y \in T : x <= y
<1>1. IsWellFoundedOn(Less, Nat)
  BY NatLessThanWellFounded DEF OpToRel, Less
<1>2. PICK x \in T : \A y \in T : ~(<<y, x>> \in Less)
  BY <1>1, WFMin
<1>3. ASSUME NEW y \in T PROVE x <= y
  <2>1. x \in Nat /\ y \in Nat
    OBVIOUS
  <2>2. ~(<<y, x>> \in Less)
    BY <1>2, <1>3
  <2>3. ~(y < x)
    BY <2>1, <2>2 DEF Less
  <2> QED BY <2>1, <2>3
<1> QED BY <1>3

(* Induction from 0 to N, over a set of numbers.                           *)
LEMMA UpTo ==
  ASSUME NEW N \in Nat, NEW K, 0 \in K, \A k \in 0 .. N : k \in K /\ k < N => k + 1 \in K
  PROVE  0 .. N \subseteq K
<1> DEFINE T == {n \in Nat : n <= N /\ n \notin K}
<1>1. SUFFICES ASSUME T # {} PROVE FALSE
  OBVIOUS
<1>2. PICK x \in T : \A y \in T : x <= y
  <2>1. T \subseteq Nat
    OBVIOUS
  <2> HIDE DEF T
  <2> QED BY <1>1, <2>1, LeastOf
<1>3. x # 0 /\ x - 1 \in 0 .. N /\ x - 1 < N
  BY <1>2
<1>4. x - 1 \notin T
  BY <1>2, <1>3
<1> QED BY <1>2, <1>3, <1>4

(* A set of numbers up to N that is not empty has a greatest element.      *)
LEMMA GreatestOf ==
  ASSUME NEW N \in Nat, NEW T, T \subseteq 0 .. N, T # {}
  PROVE  \E x \in T : \A y \in T : y <= x
<1> DEFINE U == {N - x : x \in T}
<1>1. U \subseteq Nat /\ U # {}
  <2>1. \A x \in T : x \in 0 .. N /\ N - x \in Nat
    OBVIOUS
  <2> QED BY <2>1
<1>2. PICK u \in U : \A v \in U : u <= v
  <2> HIDE DEF U
  <2> QED BY <1>1, LeastOf
<1>3. PICK x \in T : u = N - x
  BY <1>2
<1>4. ASSUME NEW y \in T PROVE y <= x
  <2>1. N - x <= N - y
    BY <1>2, <1>3
  <2>2. x \in 0 .. N /\ y \in 0 .. N
    OBVIOUS
  <2> QED BY <2>1, <2>2
<1> QED BY <1>4

LEMMA MaxOfUpTo ==
  ASSUME NEW n \in Nat, n # 0
  PROVE  Max(1 .. n) = n /\ (1 .. n) \ {Max(1 .. n)} = 1 .. (n - 1)
<1>1. \A x \in 1 .. n : (\A y \in 1 .. n : x >= y) => x = n
  OBVIOUS
<1>2. n \in 1 .. n /\ \A y \in 1 .. n : n >= y
  OBVIOUS
<1>3. Max(1 .. n) = n
  BY <1>1, <1>2 DEF Max
<1> QED BY <1>3

(* The fold of Updated is the function its recursion describes.            *)
LEMMA CollectsStepByStep ==
  ASSUME NEW S, NEW u \in Seq(S)
  PROVE  \E h : /\ h = [D \in SUBSET (1 .. Len(u)) |->
                          IF D = {} THEN Empty ELSE Updated(h[D \ {Max(D)}], u[Max(D)])]
                /\ Collected(u) = h[1 .. Len(u)]
<1> DEFINE N == Len(u)
           Eq(h, n) == h = [D \in SUBSET (1 .. n) |->
                              IF D = {} THEN Empty ELSE Updated(h[D \ {Max(D)}], u[Max(D)])]
           K == {n \in Nat : \E h : Eq(h, n)}
<1>0. N \in Nat /\ DOMAIN u = 1 .. N
  OBVIOUS
<1>1. 0 \in K
  <2> DEFINE g == [D \in SUBSET (1 .. 0) |-> Empty]
  <2>1. \A D \in SUBSET (1 .. 0) : D = {}
    OBVIOUS
  <2>2. Eq(g, 0)
    BY <2>1
  <2> QED BY <2>2
<1>2. ASSUME NEW n \in 0 .. N, n \in K, n < N
      PROVE  n + 1 \in K
  <2>1. PICK h : Eq(h, n)
    BY <1>2
  <2> DEFINE g == [D \in SUBSET (1 .. (n + 1)) |->
                     IF D \subseteq 1 .. n THEN h[D]
                     ELSE Updated(h[D \ {Max(D)}], u[Max(D)])]
  <2>2. ASSUME NEW D \in SUBSET (1 .. (n + 1)), D # {}
        PROVE  D \ {Max(D)} \subseteq 1 .. n
    <3>1. PICK x \in D : \A y \in D : y <= x
      <4>1. D \subseteq 0 .. (n + 1) /\ n + 1 \in Nat
        OBVIOUS
      <4> QED BY <4>1, <2>2, GreatestOf
    <3>2. Max(D) \in D /\ \A y \in D : Max(D) >= y
      <4>1. x \in D /\ \A y \in D : x >= y
        BY <3>1
      <4> QED BY <4>1 DEF Max
    <3>3. ASSUME NEW y \in D, y # Max(D) PROVE y \in 1 .. n
      <4>1. y \in 1 .. (n + 1) /\ Max(D) \in 1 .. (n + 1) /\ Max(D) >= y
        BY <3>2
      <4> HIDE DEF g, N, K, Eq
      <4> QED BY <4>1, <3>3
    <3> QED BY <3>3
  <2>3. ASSUME NEW D \in SUBSET (1 .. (n + 1))
        PROVE  g[D] = IF D = {} THEN Empty ELSE Updated(g[D \ {Max(D)}], u[Max(D)])
    <3>1. CASE D = {}
      <4>1. g[D] = h[D] /\ D \in SUBSET (1 .. n)
        BY <3>1
      <4> QED BY <4>1, <3>1, <2>1
    <3>2. CASE D # {}
      <4>1. D \ {Max(D)} \subseteq 1 .. n
        BY <3>2, <2>2
      <4>2. g[D \ {Max(D)}] = h[D \ {Max(D)}]
        BY <4>1
      <4>3. g[D] = Updated(h[D \ {Max(D)}], u[Max(D)])
        <5>1. CASE D \subseteq 1 .. n
          <6>1. g[D] = h[D]
            BY <5>1
          <6>2. h[D] = Updated(h[D \ {Max(D)}], u[Max(D)])
            BY <2>1, <5>1, <3>2
          <6> QED BY <6>1, <6>2
        <5>2. CASE ~(D \subseteq 1 .. n)
          BY <5>2
        <5> QED BY <5>1, <5>2
      <4> QED BY <4>2, <4>3, <3>2
    <3> QED BY <3>1, <3>2
  <2>4. Eq(g, n + 1)
    <3>1. g = [D \in SUBSET (1 .. (n + 1)) |-> g[D]]
      OBVIOUS
    <3>2. [D \in SUBSET (1 .. (n + 1)) |-> g[D]]
          = [D \in SUBSET (1 .. (n + 1)) |->
               IF D = {} THEN Empty ELSE Updated(g[D \ {Max(D)}], u[Max(D)])]
      <4> HIDE DEF g
      <4> QED BY <2>3
    <3> HIDE DEF g
    <3> QED BY <3>1, <3>2
  <2>5. \E q : Eq(q, n + 1)
    BY <2>4
  <2> HIDE DEF g, Eq
  <2> QED BY <2>5, <1>0
<1>3. N \in K
  <2> HIDE DEF K
  <2>1. 0 .. N \subseteq K
    BY <1>0, <1>1, <1>2, UpTo
  <2>2. N \in 0 .. N
    BY <1>0
  <2> QED BY <2>1, <2>2
<1> DEFINE H == CHOOSE h : Eq(h, N)
<1>4. Eq(H, N)
  BY <1>3
<1>5. Collected(u) = H[1 .. N]
  BY <1>0 DEF Collected, FoldLeft, MapThenFoldSet
<1> QED BY <1>4, <1>5

(* A dict that is updated in order has the keys of its updates, and each   *)
(* key the value the last of them gave it.                                 *)
LEMMA CollectedKeepsTheLast ==
  ASSUME NEW S, NEW u \in Seq(S)
  PROVE  /\ Collected(u) = [k \in DOMAIN Collected(u) |-> Collected(u)[k]]
         /\ \A k : k \in DOMAIN Collected(u) <=> \E i \in DOMAIN u : k \in DOMAIN u[i]
         /\ \A k \in DOMAIN Collected(u) :
              \E i \in DOMAIN u : /\ k \in DOMAIN u[i] /\ Collected(u)[k] = u[i][k]
                                  /\ \A j \in DOMAIN u : k \in DOMAIN u[j] => j <= i
<1>1. PICK h : /\ h = [D \in SUBSET (1 .. Len(u)) |->
                          IF D = {} THEN Empty ELSE Updated(h[D \ {Max(D)}], u[Max(D)])]
               /\ Collected(u) = h[1 .. Len(u)]
  BY CollectsStepByStep
<1> DEFINE N == Len(u)
           c(n) == h[1 .. n]
           Is(n) == /\ c(n) = [k \in DOMAIN c(n) |-> c(n)[k]]
                    /\ \A k : k \in DOMAIN c(n) <=> \E i \in 1 .. n : k \in DOMAIN u[i]
                    /\ \A k \in DOMAIN c(n) :
                         \E i \in 1 .. n : /\ k \in DOMAIN u[i] /\ c(n)[k] = u[i][k]
                                           /\ \A j \in 1 .. n : k \in DOMAIN u[j] => j <= i
           K == {n \in Nat : Is(n)}
<1>2. N \in Nat /\ DOMAIN u = 1 .. N
  OBVIOUS
<1>3. Is(0)
  <2>1. c(0) = Empty
    <3>1. 1 .. 0 = {} /\ 1 .. 0 \in SUBSET (1 .. N)
      BY <1>2
    <3> HIDE DEF N
    <3> QED BY <3>1, <1>1 DEF N
  <2> HIDE DEF c
  <2>2. DOMAIN c(0) = {} /\ c(0) = [k \in {} |-> c(0)[k]]
    BY <2>1 DEF Empty
  <2>3. \A i \in 1 .. 0 : FALSE
    OBVIOUS
  <2> QED BY <2>2, <2>3
<1>4. ASSUME NEW n \in 0 .. N, Is(n), n < N
      PROVE  Is(n + 1)
  <2>1. n + 1 \in 1 .. N /\ 1 .. n \subseteq 1 .. (n + 1) /\ n + 1 \in 1 .. (n + 1)
    BY <1>2, <1>4
  <2>2. c(n + 1) = Updated(c(n), u[n + 1])
    <3>1. 1 .. (n + 1) \in SUBSET (1 .. N) /\ 1 .. (n + 1) # {}
      <4>1. \A m \in 1 .. (n + 1) : m \in 1 .. N
        BY <2>1, <1>2
      <4> QED BY <4>1, <2>1
    <3>2. Max(1 .. (n + 1)) = n + 1 /\ (1 .. (n + 1)) \ {Max(1 .. (n + 1))} = 1 .. n
      <4>1. n + 1 \in Nat /\ n + 1 # 0 /\ (n + 1) - 1 = n
        BY <1>2, <1>4
      <4> QED BY <4>1, MaxOfUpTo
    <3>3. h[1 .. (n + 1)] = Updated(h[(1 .. (n + 1)) \ {Max(1 .. (n + 1))}], u[Max(1 .. (n + 1))])
      BY <1>1, <3>1
    <3> QED BY <3>2, <3>3
  <2>3. /\ DOMAIN c(n + 1) = DOMAIN c(n) \cup DOMAIN u[n + 1]
        /\ c(n + 1) = [k \in DOMAIN c(n) \cup DOMAIN u[n + 1] |->
                         IF k \in DOMAIN u[n + 1] THEN u[n + 1][k] ELSE c(n)[k]]
    <3> HIDE DEF c
    <3> QED BY <2>2 DEF Updated
  <2> HIDE DEF c
  <2>4. c(n + 1) = [k \in DOMAIN c(n + 1) |-> c(n + 1)[k]]
    BY <2>3
  <2>5. ASSUME NEW k
        PROVE  k \in DOMAIN c(n + 1) <=> \E i \in 1 .. (n + 1) : k \in DOMAIN u[i]
    <3>1. k \in DOMAIN c(n + 1) <=> k \in DOMAIN c(n) \/ k \in DOMAIN u[n + 1]
      BY <2>3
    <3>2. k \in DOMAIN c(n) <=> \E i \in 1 .. n : k \in DOMAIN u[i]
      BY <1>4
    <3>3. \A i \in 1 .. (n + 1) : i \in 1 .. n \/ i = n + 1
      BY <2>1
    <3> QED BY <3>1, <3>2, <3>3, <2>1
  <2>6. ASSUME NEW k \in DOMAIN c(n + 1)
        PROVE  \E i \in 1 .. (n + 1) :
                 /\ k \in DOMAIN u[i] /\ c(n + 1)[k] = u[i][k]
                 /\ \A j \in 1 .. (n + 1) : k \in DOMAIN u[j] => j <= i
    <3>1. CASE k \in DOMAIN u[n + 1]
      <4>1. c(n + 1)[k] = u[n + 1][k]
        BY <2>3, <3>1
      <4>2. \A j \in 1 .. (n + 1) : j <= n + 1
        BY <2>1
      <4> QED BY <4>1, <4>2, <3>1, <2>1
    <3>2. CASE k \notin DOMAIN u[n + 1]
      <4>1. k \in DOMAIN c(n) /\ c(n + 1)[k] = c(n)[k]
        BY <2>3, <3>2
      <4>2. PICK i \in 1 .. n : /\ k \in DOMAIN u[i] /\ c(n)[k] = u[i][k]
                                /\ \A j \in 1 .. n : k \in DOMAIN u[j] => j <= i
        BY <4>1, <1>4
      <4>3. \A j \in 1 .. (n + 1) : k \in DOMAIN u[j] => j <= i
        <5>1. \A j \in 1 .. (n + 1) : j \in 1 .. n \/ j = n + 1
          BY <2>1
        <5> QED BY <5>1, <4>2, <3>2
      <4> QED BY <4>1, <4>2, <4>3, <2>1
    <3> QED BY <3>1, <3>2
  <2> QED BY <2>4, <2>5, <2>6
<1>5. Is(N)
  <2>1. 0 \in K /\ \A n \in 0 .. N : n \in K /\ n < N => n + 1 \in K
    <3>1. \A n \in 0 .. N : n + 1 \in Nat /\ n \in Nat
      BY <1>2
    <3> HIDE DEF Is
    <3> QED BY <3>1, <1>3, <1>4
  <2> HIDE DEF K
  <2>2. 0 .. N \subseteq K /\ N \in 0 .. N
    BY <1>2, <2>1, UpTo
  <2> USE DEF K
  <2> HIDE DEF Is
  <2> QED BY <2>2
<1>6. c(N) = Collected(u)
  BY <1>1
<1> HIDE DEF c
<1> QED BY <1>5, <1>6, <1>2

-----------------------------------------------------------------------------
(* The prediction window.                                                  *)

(* A figure for a bounded column is left out, or is rounded to a figure of *)
(* the column: the ceiling is a whole number of its units.                 *)
LEMMA BoundedFits ==
  ASSUME NEW v, NEW ceiling \in Nat, BoundedDecimal(v, ceiling) # Unusable
  PROVE  /\ BoundedDecimal(v, ceiling) = Quantize(v)
         /\ Quantize(v) \in 0 .. ceiling
<1>0. Fine \in Nat /\ Fine > 0
  BY ValuesAssumption
<1>1. v \in Int /\ 0 <= v /\ v <= ceiling * Fine /\ BoundedDecimal(v, ceiling) = Quantize(v)
  BY DEF BoundedDecimal
<1> DEFINE b == v \div Fine
           r == v % Fine
<1>2. b \in Int /\ r \in 0 .. (Fine - 1) /\ v = b * Fine + r
  BY <1>0, <1>1
<1>3. b >= 0
  BY <1>0, <1>1, <1>2
<1>4. b <= ceiling
  BY <1>0, <1>1, <1>2
<1>5. b = ceiling => r = 0
  BY <1>0, <1>1, <1>2
<1> QED BY <1>0, <1>1, <1>2, <1>3, <1>4, <1>5 DEF Quantize

(* What a prediction assigns is what it states usably of its fixture.      *)
LEMMA PredictionAssigns ==
  ASSUME NEW f \in StoredFixtures, NEW p
  PROVE  LET S == Statement(f, ProbabilitiesOf(p))
         IN /\ DOMAIN S \subseteq PredictionRows
            /\ \A r \in PredictionRows :
                 /\ r \in DOMAIN S <=> r[1] = f /\ States(p, r[2], r[3])
                 /\ r \in DOMAIN S => S[r] = Quantize(p.values[r[3]]) /\ S[r] \in 0 .. Percent
<1> DEFINE P == ProbabilitiesOf(p)
           S == Statement(f, P)
           Cells == Markets \X UNION {ProviderKeys[m] : m \in Markets}
<1>1. /\ DOMAIN P = {c \in Cells : States(p, c[1], c[2])}
      /\ \A c \in DOMAIN P : P[c] = BoundedDecimal(SelectionsOf(p)[c[2]], Percent)
  BY DEF ProbabilitiesOf
<1>2. /\ DOMAIN S = {<<f, c[1], c[2]>> : c \in DOMAIN P}
      /\ \A r \in DOMAIN S : S[r] = P[<<r[2], r[3]>>]
  BY DEF Statement
<1> HIDE DEF P, S
<1>3. ASSUME NEW c \in DOMAIN P
      PROVE  <<f, c[1], c[2]>> \in PredictionRows
  <2>1. c \in Cells /\ c[2] \in ProviderKeys[c[1]]
    BY <1>1, <1>3 DEF States
  <2> QED BY <2>1 DEF PredictionRows
<1>4. DOMAIN S \subseteq PredictionRows
  BY <1>2, <1>3
<1>5. ASSUME NEW r \in PredictionRows
      PROVE  /\ r \in DOMAIN S <=> r[1] = f /\ States(p, r[2], r[3])
             /\ r \in DOMAIN S => S[r] = Quantize(p.values[r[3]]) /\ S[r] \in 0 .. Percent
  <2>1. <<r[2], r[3]>> \in Cells /\ r = <<r[1], r[2], r[3]>>
    BY DEF PredictionRows
  <2>2. r \in DOMAIN S <=> r[1] = f /\ <<r[2], r[3]>> \in DOMAIN P
    <3>1. ASSUME r \in DOMAIN S PROVE r[1] = f /\ <<r[2], r[3]>> \in DOMAIN P
      <4>1. PICK c \in DOMAIN P : r = <<f, c[1], c[2]>>
        BY <1>2, <3>1
      <4>2. c = <<c[1], c[2]>>
        BY <1>1
      <4> QED BY <4>1, <4>2
    <3>2. ASSUME r[1] = f, <<r[2], r[3]>> \in DOMAIN P PROVE r \in DOMAIN S
      <4>1. <<f, <<r[2], r[3]>>[1], <<r[2], r[3]>>[2]>> \in DOMAIN S
        BY <1>2, <3>2
      <4> QED BY <4>1, <2>1, <3>2
    <3> QED BY <3>1, <3>2
  <2>3. <<r[2], r[3]>> \in DOMAIN P <=> States(p, r[2], r[3])
    BY <1>1, <2>1
  <2>4. ASSUME r \in DOMAIN S
        PROVE  S[r] = Quantize(p.values[r[3]]) /\ S[r] \in 0 .. Percent
    <3>1. States(p, r[2], r[3])
      BY <2>2, <2>3, <2>4
    <3>2. SelectionsOf(p) = p.values
      <4>1. r[3] \in DOMAIN SelectionsOf(p)
        BY <3>1 DEF States
      <4>2. SelectionsOf(p) = Empty => DOMAIN SelectionsOf(p) = {}
        BY DEF Empty
      <4> QED BY <4>1, <4>2 DEF SelectionsOf
    <3>3. S[r] = BoundedDecimal(p.values[r[3]], Percent)
      BY <1>1, <1>2, <2>2, <2>4, <3>2
    <3>4. BoundedDecimal(p.values[r[3]], Percent) # Unusable
      BY <3>1, <3>2 DEF States
    <3> QED BY <3>3, <3>4, BoundedFits, PredictionAssumption
  <2> QED BY <2>2, <2>3, <2>4
<1> QED BY <1>4, <1>5 DEF S, P

(* What an entry assigns is, of each selection, the last usable statement  *)
(* of its predictions.                                                     *)
LEMMA EntryAssigns ==
  ASSUME NEW e \in FixtureEntries, IsUsable(e)
  PROVE  LET C == Collapse(FixtureProbabilitiesOf(e))
             Says(j, r) == States(e.predictions[j], r[2], r[3])
         IN /\ DOMAIN C \subseteq PredictionRows
            /\ \A r \in PredictionRows :
                 r \in DOMAIN C <=>
                   r[1] = Identifier(e.id) /\ \E j \in DOMAIN e.predictions : Says(j, r)
            /\ \A r \in DOMAIN C :
                 \E j \in DOMAIN e.predictions :
                   /\ Says(j, r)
                   /\ C[r] = Quantize(e.predictions[j].values[r[3]]) /\ C[r] \in 0 .. Percent
                   /\ \A k \in DOMAIN e.predictions : Says(k, r) => k <= j
<1> DEFINE f == Identifier(e.id)
           F == FixtureProbabilitiesOf(e)
           C == Collapse(F)
           u == [j \in DOMAIN e.predictions |-> Statement(f, ProbabilitiesOf(e.predictions[j]))]
           Says(j, r) == States(e.predictions[j], r[2], r[3])
<1>1. e.predictions \in Seq(Range(e.predictions))
  BY PredictionAssumption DEF IsUsable
<1>2. CASE f \notin StoredFixtures
  <2>1. C = Empty
    BY <1>2 DEF Collapse, FixtureProbabilitiesOf
  <2>2. DOMAIN C = {}
    BY <2>1 DEF Empty
  <2>3. \A r \in PredictionRows : r[1] # f
    BY <1>2 DEF PredictionRows
  <2> QED BY <2>2, <2>3
<1>3. CASE f \in StoredFixtures
  <2>1. C = Collected(u)
    BY <1>3 DEF Collapse, FixtureProbabilitiesOf
  <2>2. u \in Seq(Range(u)) /\ DOMAIN u = DOMAIN e.predictions
    <3>1. PICK n \in Nat : DOMAIN e.predictions = 1 .. n
      BY <1>1
    <3> QED BY <3>1 DEF Range
  <2>3. \A j \in DOMAIN u : u[j] = Statement(f, ProbabilitiesOf(e.predictions[j]))
    OBVIOUS
  <2> HIDE DEF u, C, F
  <2>4. /\ \A r : r \in DOMAIN C <=> \E j \in DOMAIN u : r \in DOMAIN u[j]
        /\ \A r \in DOMAIN C :
              \E j \in DOMAIN u : /\ r \in DOMAIN u[j] /\ C[r] = u[j][r]
                                  /\ \A k \in DOMAIN u : r \in DOMAIN u[k] => k <= j
    BY <2>1, <2>2, CollectedKeepsTheLast
  <2>5. \A j \in DOMAIN u :
          /\ DOMAIN u[j] \subseteq PredictionRows
          /\ \A r \in PredictionRows :
               /\ r \in DOMAIN u[j] <=> r[1] = f /\ Says(j, r)
               /\ r \in DOMAIN u[j] => /\ u[j][r] = Quantize(e.predictions[j].values[r[3]])
                                       /\ u[j][r] \in 0 .. Percent
    BY <1>3, <2>3, PredictionAssigns
  <2>6. DOMAIN C \subseteq PredictionRows
    BY <2>4, <2>5
  <2> HIDE DEF f
  <2>7. \A r \in PredictionRows :
          r \in DOMAIN C <=> r[1] = f /\ \E j \in DOMAIN e.predictions : Says(j, r)
    <3> HIDE DEF Says
    <3> QED BY <2>2, <2>4, <2>5
  <2>8. ASSUME NEW r \in DOMAIN C
        PROVE  \E j \in DOMAIN e.predictions :
                 /\ Says(j, r)
                 /\ C[r] = Quantize(e.predictions[j].values[r[3]]) /\ C[r] \in 0 .. Percent
                 /\ \A k \in DOMAIN e.predictions : Says(k, r) => k <= j
    <3>1. PICK j \in DOMAIN u : /\ r \in DOMAIN u[j] /\ C[r] = u[j][r]
                                /\ \A k \in DOMAIN u : r \in DOMAIN u[k] => k <= j
      BY <2>4
    <3>2. r \in PredictionRows
      BY <2>6
    <3>3. r[1] = f /\ Says(j, r) /\ C[r] = Quantize(e.predictions[j].values[r[3]])
          /\ C[r] \in 0 .. Percent
      BY <3>1, <3>2, <2>5
    <3>4. \A k \in DOMAIN u : Says(k, r) => r \in DOMAIN u[k]
      BY <3>2, <3>3, <2>5
    <3> HIDE DEF Says
    <3> QED BY <3>1, <3>3, <3>4, <2>2
  <2> QED BY <2>6, <2>7, <2>8 DEF f, C, F
<1> QED BY <1>2, <1>3

(* What a usable entry is carried as.                                      *)
Carried == {FixtureProbabilitiesOf(e) : e \in {x \in FixtureEntries : IsUsable(x)}}

(* The fixtures carried are the usable entries, in order: at[i] is the     *)
(* place of the entry that fixture i was read from.                        *)
InOrder(at) ==
  /\ at \in [DOMAIN window -> UsableEntries]
  /\ \A i, j \in DOMAIN window : i < j => at[i] < at[j]
  /\ \A n \in UsableEntries : \E i \in DOMAIN window : at[i] = n
  /\ \A i \in DOMAIN window : window[i] = FixtureProbabilitiesOf(windowSent[at[i]])

(* The inductive invariant of a prediction read.                           *)
WindowInv ==
  /\ windowStep \in {"reading", "stored", "failed"}
  /\ windowSent \in Seq(FixtureEntries)
  /\ window \in Seq(Carried)
  /\ probabilities \in [PredictionRows -> (0 .. Percent) \cup {NoRow}]
  /\ \E at : InOrder(at)

(* The rows a read offers are, selection by selection, the last usable     *)
(* statements of it.                                                       *)
LEMMA ReadOffers ==
  ASSUME WindowInv
  PROVE  LET U == Collected([i \in DOMAIN window |-> Collapse(window[i])])
         IN /\ DOMAIN U \subseteq PredictionRows
            /\ \A r \in DOMAIN U : U[r] \in 0 .. Percent
            /\ \A r \in PredictionRows :
                 LET S == Statements(r[1], r[2], r[3])
                     s == LastOf(S)
                 IN /\ r \in DOMAIN U <=> S # {}
                    /\ r \in DOMAIN U =>
                         U[r] = Quantize(windowSent[s[1]].predictions[s[2]].values[r[3]])
<1> DEFINE u == [i \in DOMAIN window |-> Collapse(window[i])]
           U == Collected(u)
           Entry(i) == windowSent[i]
           Says(i, j, r) == States(windowSent[i].predictions[j], r[2], r[3])
<1>1. PICK at : InOrder(at)
  BY DEF WindowInv
<1>2. u \in Seq(Range(u)) /\ DOMAIN u = DOMAIN window
  <2>1. PICK n \in Nat : DOMAIN window = 1 .. n
    BY DEF WindowInv
  <2> QED BY <2>1 DEF Range
<1>3. \A i \in DOMAIN u : u[i] = Collapse(FixtureProbabilitiesOf(windowSent[at[i]]))
  BY <1>1, <1>2 DEF InOrder
<1>4. \A i \in DOMAIN window : at[i] \in UsableEntries
  BY <1>1 DEF InOrder
<1>5. \A i \in UsableEntries : windowSent[i] \in FixtureEntries /\ IsUsable(windowSent[i])
  BY DEF WindowInv, UsableEntries
<1>6. \A i \in DOMAIN window : at[i] \in Nat /\ i \in Nat
  BY <1>4 DEF WindowInv, UsableEntries
<1> HIDE DEF u, U
<1>7. /\ \A r : r \in DOMAIN U <=> \E i \in DOMAIN u : r \in DOMAIN u[i]
      /\ \A r \in DOMAIN U :
            \E i \in DOMAIN u : /\ r \in DOMAIN u[i] /\ U[r] = u[i][r]
                                /\ \A k \in DOMAIN u : r \in DOMAIN u[k] => k <= i
  BY <1>2, CollectedKeepsTheLast DEF U
<1>8. ASSUME NEW i \in DOMAIN window
      PROVE  /\ DOMAIN u[i] \subseteq PredictionRows
             /\ \A r \in PredictionRows :
                  r \in DOMAIN u[i] <=>
                    /\ r[1] = Identifier(windowSent[at[i]].id)
                    /\ \E j \in DOMAIN windowSent[at[i]].predictions : Says(at[i], j, r)
             /\ \A r \in DOMAIN u[i] :
                  \E j \in DOMAIN windowSent[at[i]].predictions :
                    /\ Says(at[i], j, r)
                    /\ u[i][r] = Quantize(windowSent[at[i]].predictions[j].values[r[3]])
                    /\ u[i][r] \in 0 .. Percent
                    /\ \A k \in DOMAIN windowSent[at[i]].predictions : Says(at[i], k, r) => k <= j
  <2>1. windowSent[at[i]] \in FixtureEntries /\ IsUsable(windowSent[at[i]])
    BY <1>4, <1>5
  <2> QED BY <2>1, <1>2, <1>3, EntryAssigns
<1>9. DOMAIN U \subseteq PredictionRows
  BY <1>2, <1>7, <1>8
<1>10. \A r \in DOMAIN U : U[r] \in 0 .. Percent
  <2> TAKE r \in DOMAIN U
  <2>1. PICK i \in DOMAIN window : r \in DOMAIN u[i] /\ U[r] = u[i][r]
    BY <1>2, <1>7
  <2> QED BY <2>1, <1>8
<1>11. ASSUME NEW r \in PredictionRows
       PROVE  \A s : s \in Statements(r[1], r[2], r[3]) <=>
                /\ s = <<s[1], s[2]>> /\ s[1] \in UsableEntries
                /\ s[2] \in DOMAIN windowSent[s[1]].predictions
                /\ Identifier(windowSent[s[1]].id) = r[1]
                /\ Says(s[1], s[2], r)
  BY DEF Statements
<1>12. ASSUME NEW r \in PredictionRows, NEW s \in Statements(r[1], r[2], r[3])
       PROVE  \E i \in DOMAIN window : at[i] = s[1] /\ r \in DOMAIN u[i]
  <2>1. PICK i \in DOMAIN window : at[i] = s[1]
    BY <1>1, <1>11, <1>12 DEF InOrder
  <2>2. /\ s[2] \in DOMAIN windowSent[at[i]].predictions
        /\ r[1] = Identifier(windowSent[at[i]].id)
        /\ Says(at[i], s[2], r)
    BY <2>1, <1>11, <1>12
  <2> HIDE DEF Says
  <2>3. r \in DOMAIN u[i]
    BY <2>2, <1>8
  <2> QED BY <2>1, <2>3
<1>13. ASSUME NEW r \in PredictionRows, r \in DOMAIN U
       PROVE  \E s \in Statements(r[1], r[2], r[3]) :
                /\ U[r] = Quantize(windowSent[s[1]].predictions[s[2]].values[r[3]])
                /\ s = LastOf(Statements(r[1], r[2], r[3]))
  <2>1. PICK i \in DOMAIN window : /\ r \in DOMAIN u[i] /\ U[r] = u[i][r]
                                   /\ \A k \in DOMAIN window : r \in DOMAIN u[k] => k <= i
    BY <1>2, <1>7, <1>13
  <2>2. PICK j \in DOMAIN windowSent[at[i]].predictions :
               /\ Says(at[i], j, r)
               /\ u[i][r] = Quantize(windowSent[at[i]].predictions[j].values[r[3]])
               /\ \A k \in DOMAIN windowSent[at[i]].predictions : Says(at[i], k, r) => k <= j
    BY <2>1, <1>8
  <2>3. <<at[i], j>> \in Statements(r[1], r[2], r[3])
    BY <2>1, <2>2, <1>4, <1>8, <1>11
  <2>4. ASSUME NEW t \in Statements(r[1], r[2], r[3])
        PROVE  t[1] < at[i] \/ (t[1] = at[i] /\ t[2] <= j)
    <3>1. PICK k \in DOMAIN window : at[k] = t[1] /\ r \in DOMAIN u[k]
      BY <1>12
    <3>2. k <= i
      BY <2>1, <3>1
    <3>3. CASE k < i
      BY <3>1, <3>3, <1>1 DEF InOrder
    <3>4. CASE k = i
      BY <3>1, <3>4, <2>2, <1>11
    <3>5. k < i \/ k = i
      BY <3>2, <1>6
    <3> QED BY <3>3, <3>4, <3>5
  <2> DEFINE S == Statements(r[1], r[2], r[3])
  <2>5. ASSUME NEW s \in S, \A t \in S : t[1] < s[1] \/ (t[1] = s[1] /\ t[2] <= s[2])
        PROVE  s = <<at[i], j>>
    <3>1. s = <<s[1], s[2]>> /\ s[1] \in UsableEntries
          /\ s[2] \in DOMAIN windowSent[s[1]].predictions
      BY <1>11
    <3>2. at[i] \in Nat /\ s[1] \in Nat
      BY <3>1, <1>6 DEF WindowInv, UsableEntries
    <3>3. s[1] = at[i] /\ s[2] <= j /\ j <= s[2]
      <4>1. s[1] < at[i] \/ (s[1] = at[i] /\ s[2] <= j)
        BY <2>4
      <4>2. at[i] < s[1] \/ (at[i] = s[1] /\ j <= s[2])
        BY <2>3, <2>5
      <4> HIDE DEF S
      <4> QED BY <4>1, <4>2, <3>2
    <3>4. DOMAIN windowSent[at[i]].predictions \subseteq Nat
      <4>1. windowSent[at[i]] \in FixtureEntries /\ IsUsable(windowSent[at[i]])
        BY <1>4, <1>5
      <4> QED BY <4>1, PredictionAssumption DEF IsUsable
    <3>5. s[2] = j
      BY <3>1, <3>3, <3>4
    <3> QED BY <3>1, <3>3, <3>5
  <2>6. LastOf(S) = <<at[i], j>>
    <3>1. \E s \in S : \A t \in S : t[1] < s[1] \/ (t[1] = s[1] /\ t[2] <= s[2])
      <4> WITNESS <<at[i], j>> \in S
      <4> QED BY <2>4
    <3> HIDE DEF S
    <3> QED BY <3>1, <2>5 DEF LastOf
  <2> QED BY <2>1, <2>2, <2>3, <2>6
<1>14. ASSUME NEW r \in PredictionRows
       PROVE  r \in DOMAIN U <=> Statements(r[1], r[2], r[3]) # {}
  BY <1>2, <1>7, <1>12, <1>13
<1> QED BY <1>9, <1>10, <1>13, <1>14 DEF U, u

(* A complete read is never refused, and leaves the last statements.       *)
LEMMA StoreKeepsWindow ==
  ASSUME WindowInv, StoreWindow
  PROVE  /\ windowStep' = "stored"
         /\ probabilities' \in [PredictionRows -> (0 .. Percent) \cup {NoRow}]
         /\ \A r \in PredictionRows :
              LET S == Statements(r[1], r[2], r[3])
                  s == LastOf(S)
              IN IF \E i \in UsableEntries : Identifier(windowSent[i].id) = r[1]
                 THEN probabilities'[r] =
                        IF S = {} THEN NoRow
                        ELSE Quantize(windowSent[s[1]].predictions[s[2]].values[r[3]])
                 ELSE probabilities'[r] = probabilities[r]
<1> DEFINE U == Collected([i \in DOMAIN window |-> Collapse(window[i])])
           offered == {<<r, U[r]>> : r \in DOMAIN U}
           Value(r) == LET s == LastOf(Statements(r[1], r[2], r[3]))
                       IN Quantize(windowSent[s[1]].predictions[s[2]].values[r[3]])
           Told(r) == \E i \in UsableEntries : Identifier(windowSent[i].id) = r[1]
<1>1. RowsOffered(window) = offered
  BY DEF RowsOffered
<1>2. /\ DOMAIN U \subseteq PredictionRows
      /\ \A r \in DOMAIN U : U[r] \in 0 .. Percent
      /\ \A r \in PredictionRows :
           /\ r \in DOMAIN U <=> Statements(r[1], r[2], r[3]) # {}
           /\ r \in DOMAIN U => U[r] = Value(r)
  BY ReadOffers
<1> HIDE DEF U, Value
<1>3. ~Refuses(RowsOffered(window))
  <2>1. \A o \in offered : o = <<o[1], U[o[1]]>> /\ o[1] \in DOMAIN U
    OBVIOUS
  <2>2. \A o, p \in offered : o[1] = p[1] => o = p
    BY <2>1
  <2>3. \A o \in offered : o[2] \in 0 .. Percent
    BY <2>1, <1>2
  <2> QED BY <1>1, <2>2, <2>3 DEF Refuses
<1>4. /\ windowStep' = "stored"
      /\ probabilities' =
           [r \in PredictionRows |->
              IF \E o \in offered : o[1] = r THEN (CHOOSE o \in offered : o[1] = r)[2]
              ELSE IF r[1] \in ScopeOf(window) THEN NoRow ELSE probabilities[r]]
  BY <1>1, <1>3 DEF StoreWindow
<1>5. \A r : (\E o \in offered : o[1] = r) <=> r \in DOMAIN U
  <2> TAKE r
  <2>1. ASSUME r \in DOMAIN U PROVE \E o \in offered : o[1] = r
    <3>1. <<r, U[r]>> \in offered
      BY <2>1
    <3> QED BY <3>1
  <2> QED BY <2>1
<1>6. \A r \in DOMAIN U : (CHOOSE o \in offered : o[1] = r)[2] = U[r]
  <2> TAKE r \in DOMAIN U
  <2>1. \E o \in offered : o[1] = r
    BY <1>5
  <2>2. \A o \in offered : o[1] = r => o[2] = U[r]
    OBVIOUS
  <2> HIDE DEF offered
  <2> QED BY <2>1, <2>2
<1>7. \A r \in PredictionRows : r[1] \in ScopeOf(window) <=> Told(r)
  <2>1. PICK at : InOrder(at)
    BY DEF WindowInv
  <2>2. \A i \in DOMAIN window : window[i].fixture = Identifier(windowSent[at[i]].id)
                              /\ at[i] \in UsableEntries
    BY <2>1 DEF InOrder, FixtureProbabilitiesOf
  <2>3. \A n \in UsableEntries : \E i \in DOMAIN window : at[i] = n
    BY <2>1 DEF InOrder
  <2> TAKE r \in PredictionRows
  <2>4. r[1] \in StoredFixtures
    BY DEF PredictionRows
  <2>5. r[1] \in ScopeOf(window) <=> \E i \in DOMAIN window : window[i].fixture = r[1]
    BY <2>4 DEF ScopeOf
  <2> QED BY <2>2, <2>3, <2>5
<1>8. \A r \in PredictionRows : Statements(r[1], r[2], r[3]) # {} => Told(r)
  BY DEF Statements
<1> HIDE DEF offered
<1>9. \A r \in PredictionRows :
        probabilities'[r] = IF r \in DOMAIN U THEN Value(r)
                            ELSE IF Told(r) THEN NoRow ELSE probabilities[r]
  <2> HIDE DEF Told
  <2> QED BY <1>2, <1>4, <1>5, <1>6, <1>7
<1>10. probabilities' \in [PredictionRows -> (0 .. Percent) \cup {NoRow}]
  <2>1. \A r \in PredictionRows : probabilities'[r] \in (0 .. Percent) \cup {NoRow}
    <3> HIDE DEF Told
    <3> QED BY <1>2, <1>9 DEF WindowInv
  <2> QED BY <2>1, <1>4
<1>11. \A r \in PredictionRows :
         IF Told(r)
         THEN probabilities'[r] = IF Statements(r[1], r[2], r[3]) = {} THEN NoRow ELSE Value(r)
         ELSE probabilities'[r] = probabilities[r]
  <2> HIDE DEF Told
  <2> QED BY <1>2, <1>8, <1>9
<1> QED BY <1>4, <1>10, <1>11 DEF Value

(* An entry that is read keeps the carried fixtures in order.              *)
LEMMA ReadKeepsOrder ==
  ASSUME WindowInv, NEW entry \in FixtureEntries, ReadFixtureEntry(entry)
  PROVE  WindowInv'
<1>1. /\ windowSent' = Append(windowSent, entry)
      /\ window' = IF IsUsable(entry) THEN Append(window, FixtureProbabilitiesOf(entry)) ELSE window
      /\ UNCHANGED <<windowStep, probabilities>>
  BY DEF ReadFixtureEntry
<1>2. windowSent' \in Seq(FixtureEntries) /\ window' \in Seq(Carried)
  BY <1>1 DEF WindowInv, Carried
<1>3. PICK at : InOrder(at)
  BY DEF WindowInv
<1> DEFINE n == Len(windowSent) + 1
           l == Len(window) + 1
<1>4. /\ n \in Nat /\ DOMAIN windowSent' = DOMAIN windowSent \cup {n} /\ n \notin DOMAIN windowSent
      /\ windowSent'[n] = entry
      /\ \A i \in DOMAIN windowSent : i \in Nat /\ i < n /\ windowSent'[i] = windowSent[i]
  BY <1>1 DEF WindowInv
<1>5. UsableEntries' = IF IsUsable(entry) THEN UsableEntries \cup {n} ELSE UsableEntries
  <2>1. \A i \in DOMAIN windowSent : windowSent'[i] = windowSent[i]
    BY <1>4
  <2>2. UsableEntries' = {i \in DOMAIN windowSent' : IsUsable(windowSent'[i])}
    BY DEF UsableEntries, IsUsable
  <2> HIDE DEF n
  <2> QED BY <1>4, <2>2 DEF UsableEntries
<1>6. \E b : InOrder(b)'
  <2>1. CASE ~IsUsable(entry)
    <3>1. window' = window /\ UsableEntries' = UsableEntries
      BY <1>1, <1>5, <2>1
    <3>2. \A i \in DOMAIN window : windowSent'[at[i]] = windowSent[at[i]]
      BY <1>3, <1>4 DEF InOrder, UsableEntries
    <3>3. InOrder(at)'
      BY <3>1, <3>2, <1>3 DEF InOrder, FixtureProbabilitiesOf
    <3> QED BY <3>3
  <2>2. CASE IsUsable(entry)
    <3> DEFINE b == [i \in DOMAIN window \cup {l} |-> IF i = l THEN n ELSE at[i]]
    <3>1. /\ l \in Nat /\ DOMAIN window' = DOMAIN window \cup {l} /\ l \notin DOMAIN window
          /\ window'[l] = FixtureProbabilitiesOf(entry)
          /\ \A i \in DOMAIN window : i \in Nat /\ i < l /\ window'[i] = window[i]
      BY <1>1, <2>2 DEF WindowInv
    <3>2. UsableEntries' = UsableEntries \cup {n}
      BY <1>5, <2>2
    <3> HIDE DEF n, l
    <3>3. /\ \A i \in DOMAIN window : at[i] \in UsableEntries /\ at[i] \in DOMAIN windowSent
          /\ \A i \in UsableEntries : i \in DOMAIN windowSent
      BY <1>3 DEF InOrder, UsableEntries
    <3>4. b \in [DOMAIN window' -> UsableEntries']
      BY <3>1, <3>2, <3>3
    <3>5. \A i, j \in DOMAIN window' : i < j => b[i] < b[j]
      <4> TAKE i, j \in DOMAIN window'
      <4> HAVE i < j
      <4>1. CASE j \in DOMAIN window /\ i \in DOMAIN window
        BY <4>1, <3>1, <1>3 DEF InOrder
      <4>2. CASE j = l /\ i \in DOMAIN window
        <5>1. b[i] = at[i] /\ b[j] = n
          BY <4>2, <3>1
        <5> QED BY <5>1, <4>2, <3>3, <1>4
      <4>3. ~(i = l /\ j \in DOMAIN window) /\ ~(i = l /\ j = l)
        BY <3>1
      <4> QED BY <4>1, <4>2, <4>3, <3>1
    <3>6. \A m \in UsableEntries' : \E i \in DOMAIN window' : b[i] = m
      <4> TAKE m \in UsableEntries'
      <4>1. CASE m = n
        BY <4>1, <3>1
      <4>2. CASE m \in UsableEntries
        <5>1. PICK i \in DOMAIN window : at[i] = m
          BY <4>2, <1>3 DEF InOrder
        <5>2. i # l /\ i \in DOMAIN window'
          BY <3>1
        <5> QED BY <5>1, <5>2
      <4> QED BY <4>1, <4>2, <3>2
    <3>7. \A i \in DOMAIN window' : window'[i] = FixtureProbabilitiesOf(windowSent'[b[i]])
      <4> TAKE i \in DOMAIN window'
      <4>1. CASE i = l
        BY <4>1, <3>1, <1>4
      <4>2. CASE i \in DOMAIN window
        <5>1. b[i] = at[i] /\ window'[i] = window[i] /\ windowSent'[at[i]] = windowSent[at[i]]
          BY <4>2, <3>1, <3>3, <1>4
        <5> QED BY <5>1, <4>2, <1>3 DEF InOrder
      <4> QED BY <4>1, <4>2, <3>1
    <3> HIDE DEF b
    <3>8. PICK c : c = b
      OBVIOUS
    <3>9. InOrder(c)'
      BY <3>4, <3>5, <3>6, <3>7, <3>8 DEF InOrder, FixtureProbabilitiesOf
    <3> QED BY <3>9
  <2> QED BY <2>1, <2>2
<1> QED BY <1>1, <1>2, <1>6 DEF WindowInv

(* The invariant holds at the start and after every step.                  *)
LEMMA WindowInitInv == WindowInit => WindowInv
<1> SUFFICES ASSUME WindowInit PROVE WindowInv
  OBVIOUS
<1>1. probabilities \in [PredictionRows -> (0 .. Percent) \cup {NoRow}]
  BY DEF WindowInit
<1>2. InOrder(<<>>)
  BY DEF WindowInit, InOrder, UsableEntries
<1> QED BY <1>1, <1>2 DEF WindowInit, WindowInv

LEMMA WindowNextInv == WindowInv /\ [WindowNext]_windowVars => WindowInv'
<1> SUFFICES ASSUME WindowInv, [WindowNext]_windowVars PROVE WindowInv'
  OBVIOUS
<1>1. ASSUME UNCHANGED <<windowSent, window>>
      PROVE  (\E at : InOrder(at))'
  <2>1. PICK at : InOrder(at)
    BY DEF WindowInv
  <2>2. InOrder(at)'
    BY <1>1, <2>1 DEF InOrder, UsableEntries, FixtureProbabilitiesOf, IsUsable
  <2> QED BY <2>2
<1>2. ASSUME NEW entry \in FixtureEntries, ReadFixtureEntry(entry)
      PROVE  WindowInv'
  BY <1>2, ReadKeepsOrder
<1>3. CASE WindowReadFails
  BY <1>1, <1>3 DEF WindowReadFails, WindowInv
<1>4. CASE StoreWindow
  <2>1. UNCHANGED <<windowSent, window>>
    BY <1>4 DEF StoreWindow
  <2> QED BY <1>1, <1>4, <2>1, StoreKeepsWindow DEF WindowInv
<1>5. CASE NextWindow
  <2>1. UsableEntries' = {}
    BY <1>5 DEF NextWindow, UsableEntries
  <2>2. InOrder(<<>>)'
    BY <1>5, <2>1 DEF NextWindow, InOrder
  <2> QED BY <1>5, <2>2 DEF NextWindow, WindowInv
<1>6. CASE UNCHANGED windowVars
  BY <1>1, <1>6 DEF windowVars, WindowInv
<1> QED BY <1>2, <1>3, <1>4, <1>5, <1>6 DEF WindowNext

(* Every read of the prediction window keeps its invariant.                *)
THEOREM WindowInvariant == WindowSpec => []WindowInv
BY WindowInitInv, WindowNextInv, PTL DEF WindowSpec

(* What a read carries of a prediction is a percentage of a selection the  *)
(* market names, and so is what the table holds.                           *)
THEOREM WindowType == WindowSpec => []WindowTypeOK
<1>1. WindowInv => WindowTypeOK
  <2> SUFFICES ASSUME WindowInv PROVE WindowTypeOK
    OBVIOUS
  <2>1. ASSUME NEW i \in DOMAIN window, NEW j \in DOMAIN window[i].probabilities,
               NEW c \in DOMAIN window[i].probabilities[j]
        PROVE  /\ c[2] \in ProviderKeys[c[1]]
               /\ window[i].probabilities[j][c] \in 0 .. Percent
    <3>1. PICK e \in FixtureEntries : window[i] = FixtureProbabilitiesOf(e)
      BY DEF WindowInv, Carried
    <3>2. window[i].probabilities[j] = ProbabilitiesOf(e.predictions[j])
      BY <3>1 DEF FixtureProbabilitiesOf
    <3>3. /\ States(e.predictions[j], c[1], c[2])
          /\ window[i].probabilities[j][c] =
               BoundedDecimal(SelectionsOf(e.predictions[j])[c[2]], Percent)
      BY <3>2 DEF ProbabilitiesOf
    <3> QED BY <3>3, BoundedFits, PredictionAssumption DEF States
  <2> QED BY <2>1 DEF WindowInv, WindowTypeOK
<1> QED
  BY <1>1, WindowInvariant, PTL

(* "A single value the column would reject must cost its own row rather    *)
(* than every other row of the run": whatever the provider sends, the      *)
(* database refuses no write of a complete read.                           *)
THEOREM WindowNeverRefused == WindowSpec => []WindowIsNeverRefused
<1>1. WindowInv => WindowIsNeverRefused
  BY DEF WindowInv, WindowIsNeverRefused
<1> QED
  BY <1>1, WindowInvariant, PTL

(* A run leaves of every fixture it was told about the last usable         *)
(* statement of each selection, and touches no other fixture.              *)
THEOREM WindowStoresTheLast == WindowSpec => StoresTheLastStatements
<1>1. WindowInv /\ [WindowNext]_windowVars =>
        [StoreWindow => \A r \in PredictionRows :
           LET S == Statements(r[1], r[2], r[3])
               s == LastOf(S)
           IN IF \E i \in UsableEntries : Identifier(windowSent[i].id) = r[1]
              THEN probabilities'[r] =
                     IF S = {} THEN NoRow
                     ELSE Quantize(windowSent[s[1]].predictions[s[2]].values[r[3]])
              ELSE probabilities'[r] = probabilities[r]]_windowVars
  BY StoreKeepsWindow
<1> QED
  BY <1>1, WindowInvariant, PTL DEF WindowSpec, StoresTheLastStatements

-----------------------------------------------------------------------------
(* The market reliability.                                                 *)

(* The rows for a league and a market are the grade of the last position   *)
(* of G, and none when G is empty.                                         *)
LastGradeOf(rows, l, m, G) ==
  IF G = {} THEN \A g \in rows : ~(g[1] = l /\ g[2] = m)
  ELSE \E i \in G :
         /\ \A k \in G : k <= i
         /\ \A g : g \in rows /\ g[1] = l /\ g[2] = m <=> g = <<l, m, Pair(pages[i], m)>>

(* by_type holds the last entry of each type of the league being read.     *)
TypesInv ==
  pages # <<>> =>
    \A type \in Int :
      Stated(pages[Len(pages)], type) = IF type \in DOMAIN byType THEN byType[type] ELSE NoData

(* The grades read so far are those of the leagues before the current one. *)
GradesInv ==
  \A l \in Leagues, m \in GradedMarkets :
    LastGradeOf(grades, l, m, GradedAt(l, m) \ {Len(pages)})

(* The inductive invariant of a reliability read.                          *)
GradeInv ==
  /\ gradeStep \in {"reading", "stored", "failed"}
  /\ pages \in Seq(Seq(GradeEntries)) /\ Len(pages) <= Len(Requested)
  /\ grades \subseteq Leagues \X GradedMarkets \X (Words \X (0 .. Share))
  /\ reliability \in [ReliabilityRows -> (Words \X (0 .. Share)) \cup {Ungraded}]
  /\ gradeStep = "reading" => TypesInv /\ GradesInv

(* What joins is what the reading of the current position states.          *)
LEMMA JoinedIsStated ==
  ASSUME GradeInv, TypesInv, pages # <<>>
  PROVE  LET p == pages[Len(pages)]
         IN /\ DOMAIN Joined(byType) =
                 {m \in GradedMarkets : IsGraded(p, m)}
            /\ \A m \in DOMAIN Joined(byType) :
                 /\ Joined(byType)[m] = Pair(p, m)
                 /\ Pair(p, m) \in Words \X (0 .. Share)
<1> DEFINE p == pages[Len(pages)]
           Q == GradedData(byType, QUALITY_TYPE)
           R == GradedData(byType, HIT_RATIO_TYPE)
<1>1. QUALITY_TYPE \in Int /\ HIT_RATIO_TYPE \in Int
  BY DEF QUALITY_TYPE, HIT_RATIO_TYPE
<1>2. ASSUME NEW type \in Int, NEW m
      PROVE  Half(p, type, m) = IF m \in DOMAIN GradedData(byType, type)
                                THEN GradedData(byType, type)[m] ELSE Unusable
  <2>1. Stated(p, type) = IF type \in DOMAIN byType THEN byType[type] ELSE NoData
    BY DEF TypesInv
  <2>2. CASE Stated(p, type) = NoData
    <3>1. GradedData(byType, type) = Empty
      BY <2>1, <2>2 DEF GradedData
    <3>2. DOMAIN GradedData(byType, type) = {}
      BY <3>1 DEF Empty
    <3> QED BY <2>2, <3>2 DEF Half
  <2>3. CASE Stated(p, type) # NoData
    <3>1. GradedData(byType, type) = Stated(p, type)
      BY <2>1, <2>3 DEF GradedData
    <3> QED BY <2>3, <3>1 DEF Half
  <2> QED BY <2>2, <2>3
<1>3. Unusable \notin Words /\ BoundedDecimal(Unusable, Share) = Unusable
  BY ReliabilityAssumption, ValuesAssumption DEF BoundedDecimal
<1>4. /\ DOMAIN Qualities(byType) = {m \in GradedMarkets : Half(p, QUALITY_TYPE, m) \in Words}
      /\ \A m \in DOMAIN Qualities(byType) : Qualities(byType)[m] = Half(p, QUALITY_TYPE, m)
  <2> DEFINE D == {n \in DOMAIN Q \cap GradedMarkets : Q[n] \in Words}
  <2>1. Qualities(byType) = [m \in D |-> Q[m]]
    BY DEF Qualities
  <2>2. \A m : Half(p, QUALITY_TYPE, m) = IF m \in DOMAIN Q THEN Q[m] ELSE Unusable
    BY <1>1, <1>2
  <2> HIDE DEF Q, p
  <2> QED BY <2>1, <2>2, <1>3
<1>5. /\ DOMAIN HitRatios(byType) =
           {m \in GradedMarkets : BoundedDecimal(Half(p, HIT_RATIO_TYPE, m), Share) # Unusable}
      /\ \A m \in DOMAIN HitRatios(byType) :
           HitRatios(byType)[m] = BoundedDecimal(Half(p, HIT_RATIO_TYPE, m), Share)
  <2> DEFINE D == {n \in DOMAIN R \cap GradedMarkets : BoundedDecimal(R[n], Share) # Unusable}
  <2>1. HitRatios(byType) = [m \in D |-> BoundedDecimal(R[m], Share)]
    BY DEF HitRatios
  <2>2. \A m : Half(p, HIT_RATIO_TYPE, m) = IF m \in DOMAIN R THEN R[m] ELSE Unusable
    BY <1>1, <1>2
  <2> HIDE DEF R, p
  <2> QED BY <2>1, <2>2, <1>3
<1>6. \A m \in DOMAIN HitRatios(byType) :
        BoundedDecimal(Half(p, HIT_RATIO_TYPE, m), Share) \in 0 .. Share
  BY <1>5, BoundedFits, ReliabilityAssumption
<1> HIDE DEF p
<1>7. DOMAIN Joined(byType) = DOMAIN Qualities(byType) \cap DOMAIN HitRatios(byType)
      /\ \A m \in DOMAIN Joined(byType) :
           Joined(byType)[m] = <<Qualities(byType)[m], HitRatios(byType)[m]>>
  BY DEF Joined
<1> QED BY <1>4, <1>5, <1>6, <1>7 DEF Pair, IsGraded, p

(* With the current league added, the rows are the last grades of all the  *)
(* positions read.                                                         *)
LEMMA AddedIsLast ==
  ASSUME GradeInv, gradeStep = "reading", pages # <<>>
  PROVE  LET rows == AddedGrades(grades, Current, byType)
         IN /\ rows \subseteq Leagues \X GradedMarkets \X (Words \X (0 .. Share))
            /\ \A l \in Leagues, m \in GradedMarkets : LastGradeOf(rows, l, m, GradedAt(l, m))
<1> DEFINE p == Len(pages)
           J == Joined(byType)
           rows == AddedGrades(grades, Current, byType)
<1>0. TypesInv /\ GradesInv
  BY DEF GradeInv
<1>1. p \in DOMAIN pages /\ p \in DOMAIN Requested /\ Current = Requested[p] /\ Current \in Leagues
  <2>1. p \in 1 .. Len(Requested) /\ p \in DOMAIN pages
    BY ReliabilityAssumption DEF GradeInv
  <2> QED BY <2>1, ReliabilityAssumption DEF Current
<1>2. /\ DOMAIN J = {m \in GradedMarkets : IsGraded(pages[p], m)}
      /\ \A m \in DOMAIN J : J[m] = Pair(pages[p], m) /\ Pair(pages[p], m) \in Words \X (0 .. Share)
  BY <1>0, JoinedIsStated
<1>3. rows = {r \in grades : ~(r[1] = Current /\ r[2] \in DOMAIN J)}
               \cup {<<Current, m, J[m]>> : m \in DOMAIN J}
  BY DEF AddedGrades
<1> HIDE DEF J, rows
<1>4. rows \subseteq Leagues \X GradedMarkets \X (Words \X (0 .. Share))
  BY <1>1, <1>2, <1>3 DEF GradeInv
<1>5. ASSUME NEW l \in Leagues, NEW m \in GradedMarkets
      PROVE  LastGradeOf(rows, l, m, GradedAt(l, m))
  <2>1. p \in GradedAt(l, m) <=> l = Current /\ m \in DOMAIN J
    BY <1>1, <1>2 DEF GradedAt
  <2>2. LastGradeOf(grades, l, m, GradedAt(l, m) \ {p})
    BY <1>0 DEF GradesInv
  <2>3. \A k \in GradedAt(l, m) : k \in Nat /\ k <= p
    <3>1. \A k \in DOMAIN pages : k \in Nat /\ k <= p
      BY DEF GradeInv
    <3> QED BY <3>1 DEF GradedAt
  <2>4. CASE l = Current /\ m \in DOMAIN J
    <3>1. \A g : g \in rows /\ g[1] = l /\ g[2] = m <=> g = <<l, m, Pair(pages[p], m)>>
      BY <1>2, <1>3, <2>4
    <3> QED BY <3>1, <2>1, <2>3, <2>4 DEF LastGradeOf
  <2>5. CASE ~(l = Current /\ m \in DOMAIN J)
    <3>1. \A g : g \in rows /\ g[1] = l /\ g[2] = m <=> g \in grades /\ g[1] = l /\ g[2] = m
      BY <1>3, <2>5
    <3>2. GradedAt(l, m) \ {p} = GradedAt(l, m)
      BY <2>1, <2>5
    <3> QED BY <2>2, <3>1, <3>2 DEF LastGradeOf
  <2> QED BY <2>4, <2>5
<1> QED BY <1>4, <1>5 DEF rows

(* A complete read is stored: the grades offered name each row once, and   *)
(* what they leave is the last reading that had both halves.               *)
LEMMA StoreKeepsGrades ==
  ASSUME GradeInv, StoreReliability
  PROVE  /\ gradeStep' = "stored"
         /\ grades' \subseteq Leagues \X GradedMarkets \X (Words \X (0 .. Share))
         /\ reliability' \in [ReliabilityRows -> (Words \X (0 .. Share)) \cup {Ungraded}]
         /\ \A r \in ReliabilityRows :
              LET G == GradedAt(r[1], r[2])
                  i == CHOOSE j \in G : \A k \in G : k <= j
              IN reliability'[r] =
                   IF r[1] \notin Leagues THEN reliability[r]
                   ELSE IF G = {} THEN Ungraded ELSE Pair(pages[i], r[2])
<1> DEFINE read == AddedGrades(grades, Current, byType)
           offered == {g \in read : g[1] \in StoredLeagues}
           refused == \E q, g \in offered : q # g /\ q[1] = g[1] /\ q[2] = g[2]
           For(r) == \E o \in offered : <<o[1], o[2]>> = r
           Chosen(r) == (CHOOSE o \in offered : <<o[1], o[2]>> = r)[3]
           Latest(r) == LET G == GradedAt(r[1], r[2]) IN CHOOSE j \in G : \A k \in G : k <= j
<1>1. /\ gradeStep = "reading" /\ pages # <<>>
      /\ grades' = read
      /\ gradeStep' = IF refused THEN "refused" ELSE "stored"
      /\ reliability' =
           IF refused THEN reliability
           ELSE [r \in ReliabilityRows |->
                   IF For(r) THEN Chosen(r)
                   ELSE IF r[1] \in GradeScope(read) THEN Ungraded ELSE reliability[r]]
  BY DEF StoreReliability
<1>2. /\ read \subseteq Leagues \X GradedMarkets \X (Words \X (0 .. Share))
      /\ \A l \in Leagues, m \in GradedMarkets : LastGradeOf(read, l, m, GradedAt(l, m))
  BY <1>1, AddedIsLast
<1> HIDE DEF read
<1>3. \A g \in offered : /\ g = <<g[1], g[2], g[3]>> /\ g \in read
                         /\ g[1] \in Leagues /\ g[1] \in StoredLeagues /\ g[2] \in GradedMarkets
                         /\ g[3] \in Words \X (0 .. Share)
  BY <1>2
<1>4. ASSUME NEW l \in Leagues, NEW m \in GradedMarkets,
             NEW g \in read, g[1] = l, g[2] = m
      PROVE  /\ GradedAt(l, m) # {}
             /\ \E i \in GradedAt(l, m) : /\ \A k \in GradedAt(l, m) : k <= i
                                          /\ g = <<l, m, Pair(pages[i], m)>>
  BY <1>2, <1>4 DEF LastGradeOf
<1>5. ASSUME NEW q \in offered, NEW g \in offered, q[1] = g[1], q[2] = g[2]
      PROVE  q = g
  <2> DEFINE l == g[1]
             m == g[2]
  <2>1. l \in Leagues /\ m \in GradedMarkets /\ LastGradeOf(read, l, m, GradedAt(l, m))
    BY <1>2, <1>3
  <2>2. GradedAt(l, m) # {}
    BY <1>3, <1>4
  <2>3. PICK i \in GradedAt(l, m) :
          \A h : h \in read /\ h[1] = l /\ h[2] = m <=> h = <<l, m, Pair(pages[i], m)>>
    BY <2>1, <2>2 DEF LastGradeOf
  <2>4. q \in read /\ g \in read
    OBVIOUS
  <2> QED BY <2>3, <2>4, <1>5
<1>6. ~refused
  BY <1>5
<1>7. \A r \in ReliabilityRows :
        r = <<r[1], r[2]>> /\ r[1] \in StoredLeagues /\ r[2] \in GradedMarkets
  BY DEF ReliabilityRows
<1>8. ASSUME NEW r \in ReliabilityRows, r[1] \in Leagues, GradedAt(r[1], r[2]) # {}
      PROVE  For(r) /\ Chosen(r) = Pair(pages[Latest(r)], r[2])
  <2> DEFINE G == GradedAt(r[1], r[2])
  <2>1. PICK i \in G : /\ \A k \in G : k <= i
                       /\ \A g : g \in read /\ g[1] = r[1] /\ g[2] = r[2] <=>
                                   g = <<r[1], r[2], Pair(pages[i], r[2])>>
    BY <1>2, <1>7, <1>8 DEF LastGradeOf
  <2>2. G \subseteq Nat
    BY DEF GradedAt, GradeInv
  <2>3. Latest(r) = i
    <3>1. \A j \in G : (\A k \in G : k <= j) => j = i
      BY <2>1, <2>2
    <3> QED BY <2>1, <3>1
  <2> DEFINE o == <<r[1], r[2], Pair(pages[i], r[2])>>
  <2>4. o \in offered /\ <<o[1], o[2]>> = r
    BY <2>1, <1>7
  <2>5. \A q \in offered : <<q[1], q[2]>> = r => q = o
    BY <2>4, <1>5, <1>7
  <2>6. For(r)
    BY <2>4
  <2> HIDE DEF offered, o
  <2>7. (CHOOSE q \in offered : <<q[1], q[2]>> = r) = o
    BY <2>4, <2>5
  <2>8. Chosen(r) = o[3]
    BY <2>7
  <2>9. o[3] = Pair(pages[i], r[2])
    BY DEF o
  <2> HIDE DEF For, Chosen, Latest
  <2> QED BY <2>3, <2>6, <2>8, <2>9
<1>9. ASSUME NEW r \in ReliabilityRows, r[1] \notin Leagues \/ GradedAt(r[1], r[2]) = {}
      PROVE  ~For(r)
  <2>1. SUFFICES ASSUME NEW o \in offered, <<o[1], o[2]>> = r PROVE FALSE
    OBVIOUS
  <2>2. o \in read /\ o[1] = r[1] /\ o[2] = r[2] /\ o[1] \in Leagues /\ o[2] \in GradedMarkets
    BY <1>3, <1>7, <2>1
  <2> QED BY <2>2, <1>4, <1>9
<1>10. \A r \in ReliabilityRows : r[1] \in GradeScope(read) <=> r[1] \in Leagues
  BY <1>7 DEF GradeScope
<1> HIDE DEF refused, For, Chosen, Latest, offered
<1>11. \A r \in ReliabilityRows :
         reliability'[r] = IF r[1] \notin Leagues THEN reliability[r]
                           ELSE IF GradedAt(r[1], r[2]) = {} THEN Ungraded
                           ELSE Pair(pages[Latest(r)], r[2])
  BY <1>1, <1>6, <1>8, <1>9, <1>10
<1>12. ASSUME NEW r \in ReliabilityRows
       PROVE  reliability'[r] \in (Words \X (0 .. Share)) \cup {Ungraded}
  <2>1. CASE r[1] \in Leagues /\ GradedAt(r[1], r[2]) # {}
    <3>1. PICK i \in GradedAt(r[1], r[2]) :
            /\ <<r[1], r[2], Pair(pages[i], r[2])>> \in read
            /\ Pair(pages[i], r[2]) = Pair(pages[Latest(r)], r[2])
      <4>1. PICK i \in GradedAt(r[1], r[2]) :
              /\ \A k \in GradedAt(r[1], r[2]) : k <= i
              /\ \A g : g \in read /\ g[1] = r[1] /\ g[2] = r[2] <=>
                          g = <<r[1], r[2], Pair(pages[i], r[2])>>
        BY <1>2, <1>7, <2>1 DEF LastGradeOf
      <4>2. GradedAt(r[1], r[2]) \subseteq Nat
        BY DEF GradedAt, GradeInv
      <4>3. \A j \in GradedAt(r[1], r[2]) :
              (\A k \in GradedAt(r[1], r[2]) : k <= j) => j = i
        BY <4>1, <4>2
      <4>4. Latest(r) = i
        BY <4>1, <4>3 DEF Latest
      <4> QED BY <4>1, <4>4
    <3>2. Pair(pages[Latest(r)], r[2]) \in Words \X (0 .. Share)
      BY <3>1, <1>2
    <3> QED BY <3>2, <2>1, <1>11
  <2>2. CASE ~(r[1] \in Leagues /\ GradedAt(r[1], r[2]) # {})
    BY <2>2, <1>11 DEF GradeInv
  <2> QED BY <2>1, <2>2
<1>13. reliability' \in [ReliabilityRows -> (Words \X (0 .. Share)) \cup {Ungraded}]
  <2>1. \E F : reliability' = [r \in ReliabilityRows |-> F[r]]
    <3>1. reliability' = [r \in ReliabilityRows |->
                            IF For(r) THEN Chosen(r)
                            ELSE IF r[1] \in GradeScope(read) THEN Ungraded ELSE reliability[r]]
      BY <1>1, <1>6
    <3>2. reliability' = [r \in ReliabilityRows |-> reliability'[r]]
      BY <3>1
    <3> QED BY <3>2
  <2> QED BY <2>1, <1>12
<1> QED BY <1>1, <1>2, <1>6, <1>11, <1>13 DEF Latest

(* The next league begins: its reading has stated nothing yet, and the one *)
(* before it is among the grades.                                          *)
LEMMA NextLeagueKeepsGrades ==
  ASSUME GradeInv, NextLeague
  PROVE  GradeInv'
<1>1. /\ gradeStep = "reading" /\ Len(pages) < Len(Requested)
      /\ pages' = Append(pages, <<>>)
      /\ grades' = IF pages = <<>> THEN grades ELSE AddedGrades(grades, Current, byType)
      /\ byType' = Empty /\ UNCHANGED <<gradeStep, reliability>>
  BY DEF NextLeague
<1> DEFINE T == Leagues \X GradedMarkets \X (Words \X (0 .. Share))
<1>2. PICK p \in Nat : p = Len(pages)
  BY DEF GradeInv
<1>3. /\ Len(pages') = p + 1 /\ pages' # <<>>
      /\ DOMAIN pages' = DOMAIN pages \cup {p + 1} /\ p + 1 \notin DOMAIN pages
      /\ pages'[p + 1] = <<>> /\ \A i \in DOMAIN pages : pages'[i] = pages[i]
  BY <1>1, <1>2 DEF GradeInv
<1>4. pages' \in Seq(Seq(GradeEntries)) /\ Len(pages') <= Len(Requested)
  BY <1>1, ReliabilityAssumption DEF GradeInv
<1>5. /\ grades' \subseteq T
      /\ \A l \in Leagues, m \in GradedMarkets : LastGradeOf(grades', l, m, GradedAt(l, m))
  <2>1. CASE pages = <<>>
    <3>1. \A l, m : GradedAt(l, m) = {}
      BY <2>1 DEF GradedAt
    <3>2. GradesInv
      BY <1>1 DEF GradeInv
    <3>3. \A l \in Leagues, m \in GradedMarkets : GradedAt(l, m) \ {Len(pages)} = GradedAt(l, m)
      BY <3>1
    <3> QED BY <1>1, <2>1, <3>2, <3>3 DEF GradeInv, GradesInv
  <2>2. CASE pages # <<>>
    BY <1>1, <2>2, AddedIsLast
  <2> QED BY <2>1, <2>2
<1>6. TypesInv'
  <2>1. \A type : Stated(<<>>, type) = NoData
    BY DEF Stated
  <2>2. \A type : type \notin DOMAIN byType'
    BY <1>1 DEF Empty
  <2> QED BY <1>3, <2>1, <2>2 DEF TypesInv
<1>7. \A l, m : GradedAt(l, m)' \ {p + 1} = GradedAt(l, m)
  BY <1>3 DEF GradedAt
<1>8. GradesInv'
  <2>1. ASSUME NEW l \in Leagues, NEW m \in GradedMarkets
        PROVE  LastGradeOf(grades, l, m, GradedAt(l, m) \ {Len(pages)})'
    <3>1. (GradedAt(l, m) \ {Len(pages)})' = GradedAt(l, m)
      BY <1>3, <1>7
    <3>2. \A i \in GradedAt(l, m) : pages'[i] = pages[i]
      BY <1>3 DEF GradedAt
    <3>3. LastGradeOf(grades', l, m, GradedAt(l, m))
      BY <1>5
    <3> QED BY <3>1, <3>2, <3>3 DEF LastGradeOf
  <2> QED BY <2>1 DEF GradesInv, Leagues
<1> QED BY <1>1, <1>4, <1>5, <1>6, <1>8 DEF GradeInv, ReliabilityRows, Leagues

(* One more entry of a reading: it alone decides its own type.             *)
LEMMA StatedGrows ==
  ASSUME NEW page \in Seq(GradeEntries), NEW entry \in GradeEntries, NEW type
  PROVE  Stated(Append(page, entry), type) =
           IF Identifier(entry.type) = type THEN entry.data ELSE Stated(page, type)
<1> DEFINE more == Append(page, entry)
           n == Len(page) + 1
           W == {j \in DOMAIN page : Identifier(page[j].type) = type}
           V == {j \in DOMAIN more : Identifier(more[j].type) = type}
<1>1. /\ n \in Nat /\ DOMAIN more = DOMAIN page \cup {n} /\ more[n] = entry
      /\ \A j \in DOMAIN page : j \in Nat /\ j < n /\ more[j] = page[j]
  OBVIOUS
<1>2. /\ Stated(page, type) = IF W = {} THEN NoData
                             ELSE page[CHOOSE j \in W : \A k \in W : k <= j].data
      /\ Stated(more, type) = IF V = {} THEN NoData
                             ELSE more[CHOOSE j \in V : \A k \in V : k <= j].data
  BY DEF Stated
<1> HIDE DEF more, n
<1>3. V = IF Identifier(entry.type) = type THEN W \cup {n} ELSE W
  BY <1>1
<1>4. \A j \in W : j \in DOMAIN page /\ j \in Nat /\ j < n /\ more[j] = page[j]
  BY <1>1
<1> HIDE DEF W, V
<1>5. CASE Identifier(entry.type) = type
  <2>1. n \in V /\ \A j \in V : j <= n
    BY <1>1, <1>3, <1>4, <1>5
  <2>2. \A j \in V : n <= j => j = n
    <3>1. \A j \in V : j \in Nat
      BY <1>1, <1>3, <1>4, <1>5
    <3> QED BY <2>1, <3>1, <1>1
  <2>3. (CHOOSE j \in V : \A k \in V : k <= j) = n
    <3>1. \A j \in V : (\A k \in V : k <= j) => j = n
      BY <2>1, <2>2
    <3> QED BY <2>1, <3>1
  <2> QED BY <1>1, <1>2, <1>5, <2>1, <2>3 DEF more
<1>6. CASE Identifier(entry.type) # type
  <2>1. CASE W = {}
    BY <1>2, <1>3, <1>6, <2>1 DEF more
  <2>2. CASE W # {}
    <3>1. \E j \in W : \A k \in W : k <= j
      <4>1. W \subseteq 0 .. n
        BY <1>1, <1>4
      <4> QED BY <4>1, <1>1, <2>2, GreatestOf
    <3>2. (CHOOSE j \in W : \A k \in W : k <= j) \in W
      BY <3>1
    <3> QED BY <1>2, <1>3, <1>4, <1>6, <2>2, <3>2 DEF more
  <2> QED BY <2>1, <2>2
<1> QED BY <1>5, <1>6

(* An entry is read: only the current position states something new.       *)
LEMMA ReadKeepsGrades ==
  ASSUME GradeInv, NEW entry \in GradeEntries, ReadGradeEntry(entry)
  PROVE  GradeInv'
<1> DEFINE own == Identifier(entry.type)
<1>1. PICK p : p = Len(pages)
  OBVIOUS
<1>2. /\ gradeStep = "reading" /\ pages # <<>>
      /\ pages' = [pages EXCEPT ![p] = Append(@, entry)]
      /\ byType' = IF own = NoId THEN byType ELSE Assigned(byType, own, entry.data)
      /\ UNCHANGED <<gradeStep, grades, reliability>>
  BY <1>1 DEF ReadGradeEntry
<1>3. /\ p \in DOMAIN pages /\ pages[p] \in Seq(GradeEntries)
      /\ Len(pages') = p /\ DOMAIN pages' = DOMAIN pages /\ pages' # <<>>
      /\ pages'[p] = Append(pages[p], entry)
      /\ \A i \in DOMAIN pages \ {p} : pages'[i] = pages[i]
  <2>1. p \in DOMAIN pages /\ pages[p] \in Seq(GradeEntries)
    BY <1>1, <1>2 DEF GradeInv
  <2> QED BY <1>1, <1>2, <2>1 DEF GradeInv
<1>4. pages' \in Seq(Seq(GradeEntries)) /\ Len(pages') <= Len(Requested)
  <2>1. Append(pages[p], entry) \in Seq(GradeEntries)
    BY <1>3
  <2> QED BY <1>1, <1>2, <1>3, <2>1 DEF GradeInv
<1>5. TypesInv /\ GradesInv
  BY <1>2 DEF GradeInv
<1>6. TypesInv'
  <2>1. ASSUME NEW type \in Int
        PROVE  Stated(pages'[p], type) = IF type \in DOMAIN byType' THEN byType'[type] ELSE NoData
    <3>1. Stated(pages[p], type) = IF type \in DOMAIN byType THEN byType[type] ELSE NoData
      BY <1>1, <1>2, <1>5 DEF TypesInv
    <3>2. Stated(pages'[p], type) = IF own = type THEN entry.data ELSE Stated(pages[p], type)
      BY <1>3, StatedGrows
    <3>3. CASE own = NoId
      BY <1>2, <3>1, <3>2, <3>3, ValuesAssumption
    <3>4. CASE own # NoId
      <4>1. /\ DOMAIN byType' = DOMAIN byType \cup {own}
            /\ byType'[own] = entry.data
            /\ \A t \in DOMAIN byType \ {own} : byType'[t] = byType[t]
        BY <1>2, <3>4 DEF Assigned, Updated
      <4> QED BY <3>1, <3>2, <4>1
    <3> QED BY <3>3, <3>4
  <2> QED BY <2>1, <1>3 DEF TypesInv
<1>7. \A l, m : GradedAt(l, m)' \ {p} = GradedAt(l, m) \ {p}
  BY <1>3 DEF GradedAt
<1>8. GradesInv'
  <2>1. ASSUME NEW l \in Leagues, NEW m \in GradedMarkets
        PROVE  LastGradeOf(grades, l, m, GradedAt(l, m) \ {Len(pages)})'
    <3>1. (GradedAt(l, m) \ {Len(pages)})' = GradedAt(l, m) \ {p}
      BY <1>3, <1>7
    <3>2. \A i \in GradedAt(l, m) \ {p} : pages'[i] = pages[i]
      BY <1>3 DEF GradedAt
    <3>3. LastGradeOf(grades, l, m, GradedAt(l, m) \ {p})
      BY <1>1, <1>5 DEF GradesInv
    <3> QED BY <1>2, <3>1, <3>2, <3>3 DEF LastGradeOf
  <2> QED BY <2>1 DEF GradesInv, Leagues
<1> QED BY <1>2, <1>4, <1>6, <1>8 DEF GradeInv, ReliabilityRows, Leagues

(* The invariant holds at the start and after every step.                  *)
LEMMA GradeInitInv == ReliabilityInit => GradeInv
<1> SUFFICES ASSUME ReliabilityInit PROVE GradeInv
  OBVIOUS
<1>1. reliability \in [ReliabilityRows -> (Words \X (0 .. Share)) \cup {Ungraded}]
  BY DEF ReliabilityInit
<1>2. \A l, m : GradedAt(l, m) = {}
  BY DEF ReliabilityInit, GradedAt
<1>3. GradesInv /\ TypesInv
  BY <1>2 DEF ReliabilityInit, GradesInv, TypesInv, LastGradeOf
<1> QED BY <1>1, <1>3, ReliabilityAssumption DEF ReliabilityInit, GradeInv

LEMMA GradeNextInv == GradeInv /\ [ReliabilityNext]_gradeVars => GradeInv'
<1> SUFFICES ASSUME GradeInv, [ReliabilityNext]_gradeVars PROVE GradeInv'
  OBVIOUS
<1>1. CASE NextLeague
  BY <1>1, NextLeagueKeepsGrades
<1>2. ASSUME NEW entry \in GradeEntries, ReadGradeEntry(entry) PROVE GradeInv'
  BY <1>2, ReadKeepsGrades
<1>3. CASE ReliabilityReadFails
  BY <1>3 DEF ReliabilityReadFails, GradeInv, ReliabilityRows, Leagues
<1>4. CASE StoreReliability
  <2>1. UNCHANGED pages
    BY <1>4 DEF StoreReliability
  <2> QED BY <1>4, <2>1, StoreKeepsGrades DEF GradeInv, ReliabilityRows, Leagues
<1>5. CASE NextReliability
  <2>1. \A l, m : GradedAt(l, m)' = {}
    BY <1>5 DEF NextReliability, GradedAt
  <2>2. GradesInv' /\ TypesInv'
    BY <1>5, <2>1 DEF NextReliability, GradesInv, TypesInv, LastGradeOf
  <2> QED BY <1>5, <2>2, ReliabilityAssumption
          DEF NextReliability, GradeInv, ReliabilityRows, Leagues
<1>6. CASE UNCHANGED gradeVars
  <2>1. \A l, m : GradedAt(l, m)' = GradedAt(l, m)
    BY <1>6 DEF gradeVars, GradedAt
  <2>2. \A l, m : LastGradeOf(grades, l, m, GradedAt(l, m) \ {Len(pages)})'
                <=> LastGradeOf(grades, l, m, GradedAt(l, m) \ {Len(pages)})
    BY <1>6, <2>1 DEF gradeVars, LastGradeOf
  <2>3. GradesInv => GradesInv'
    BY <2>2 DEF GradesInv, Leagues
  <2>4. TypesInv => TypesInv'
    BY <1>6 DEF gradeVars, TypesInv
  <2> QED BY <1>6, <2>3, <2>4 DEF gradeVars, GradeInv, ReliabilityRows, Leagues
<1> QED BY <1>1, <1>2, <1>3, <1>4, <1>5, <1>6 DEF ReliabilityNext

(* Every read of the reliability keeps its invariant.                      *)
THEOREM GradeInvariant == ReliabilitySpec => []GradeInv
BY GradeInitInv, GradeNextInv, PTL DEF ReliabilitySpec

(* A grade is a word and a share of a market that has a key.               *)
THEOREM GradeType == ReliabilitySpec => []GradeTypeOK
<1>1. GradeInv => GradeTypeOK
  BY DEF GradeInv, GradeTypeOK
<1> QED
  BY <1>1, GradeInvariant, PTL

(* "A market is reported only when both are present and usable": whatever  *)
(* the order of the pages and however often a league is configured, a run  *)
(* leaves the last pair that one reading gave, and is never refused.       *)
THEOREM GradesAreOfOneRead == ReliabilitySpec => GradesArePairsOfOneRead
<1>1. GradeInv /\ [ReliabilityNext]_gradeVars =>
        [StoreReliability =>
           /\ gradeStep' = "stored"
           /\ \A r \in ReliabilityRows :
                LET G == GradedAt(r[1], r[2])
                    i == CHOOSE j \in G : \A k \in G : k <= j
                IN reliability'[r] =
                     IF r[1] \notin Leagues THEN reliability[r]
                     ELSE IF G = {} THEN Ungraded
                     ELSE Pair(pages[i], r[2])]_gradeVars
  BY StoreKeepsGrades
<1> QED
  BY <1>1, GradeInvariant, PTL DEF ReliabilitySpec, GradesArePairsOfOneRead

-----------------------------------------------------------------------------
(* The fixture window.                                                     *)

(* The goals of a fixture are the last current count of each side, or none *)
(* at all.                                                                 *)
LEMMA GoalsAreLast ==
  ASSUME NEW entry \in WindowEntries
  PROVE  LET scores == IF entry.scores = Malformed THEN <<>> ELSE entry.scores
             count == [side \in {"home", "away"} |-> LastCount(scores, side)]
             goals == GoalsOf(entry.scores)
         IN /\ goals = IF Unset \in Range(count) THEN [side \in {"home", "away"} |-> Unset] ELSE count
            /\ goals \in [{"home", "away"} -> (0 .. GoalsLimit) \cup {Unset}]
            /\ goals["home"] = Unset <=> goals["away"] = Unset
<1> DEFINE scores == IF entry.scores = Malformed THEN <<>> ELSE entry.scores
           count == [side \in {"home", "away"} |-> LastCount(scores, side)]
           u == [i \in DOMAIN scores |-> Counted(scores[i])]
           B == ByLocation(entry.scores)
           P(side) == {i \in DOMAIN scores : IsCurrent(scores[i]) /\ scores[i].score.participant = side}
<1>1. scores \in Seq(Range(scores))
  <2>1. CASE entry.scores = Malformed
    BY <2>1
  <2>2. CASE entry.scores # Malformed
    BY <2>2, FixtureReadAssumption
  <2> QED BY <2>1, <2>2
<1>2. PICK n \in Nat : DOMAIN scores = 1 .. n
  BY <1>1
<1>3. u \in Seq(Range(u)) /\ DOMAIN u = DOMAIN scores
  BY <1>2 DEF Range
<1>4. B = Collected(u)
  <2>1. CASE entry.scores = Malformed
    <3>1. u = <<>> /\ B = Empty
      BY <2>1 DEF ByLocation
    <3>2. \A k : k \notin DOMAIN Collected(u)
      <4>1. \A k : k \in DOMAIN Collected(u) <=> \E i \in DOMAIN u : k \in DOMAIN u[i]
        BY <1>3, CollectedKeepsTheLast
      <4> QED BY <4>1, <3>1
    <3>3. Collected(u) = [k \in DOMAIN Collected(u) |-> Collected(u)[k]]
      BY <1>3, CollectedKeepsTheLast
    <3>4. DOMAIN Collected(u) = {}
      BY <3>2
    <3>5. Collected(u) = [k \in {} |-> k]
      BY <3>3, <3>4
    <3> QED BY <3>1, <3>5 DEF Empty
  <2>2. CASE entry.scores # Malformed
    BY <2>2 DEF ByLocation
  <2> QED BY <2>1, <2>2
<1>5. \A i \in DOMAIN u : u[i] = Counted(scores[i])
  OBVIOUS
<1> HIDE DEF u, B, scores
<1>6. /\ B = [k \in DOMAIN B |-> B[k]]
      /\ \A k : k \in DOMAIN B <=> \E i \in DOMAIN u : k \in DOMAIN u[i]
      /\ \A k \in DOMAIN B :
           \E i \in DOMAIN u : /\ k \in DOMAIN u[i] /\ B[k] = u[i][k]
                               /\ \A j \in DOMAIN u : k \in DOMAIN u[j] => j <= i
  BY <1>3, <1>4, CollectedKeepsTheLast
<1>7. ASSUME NEW i \in DOMAIN scores, NEW side
      PROVE  /\ side \in DOMAIN u[i] <=> i \in P(side)
             /\ i \in P(side) => /\ side \in {"home", "away"}
                                 /\ u[i][side] = scores[i].score.goals
                                 /\ scores[i].score.goals \in 0 .. GoalsLimit
  <2>1. CASE IsCurrent(scores[i])
    <3>1. u[i] = [s \in {scores[i].score.participant} |-> scores[i].score.goals]
      BY <1>3, <1>5, <2>1 DEF Counted
    <3> QED BY <3>1, <2>1 DEF IsCurrent
  <2>2. CASE ~IsCurrent(scores[i])
    <3>1. DOMAIN u[i] = {}
      BY <1>3, <1>5, <2>2 DEF Counted, Empty
    <3> QED BY <3>1, <2>2
  <2> QED BY <2>1, <2>2
<1>8. ASSUME NEW side
      PROVE  /\ side \in DOMAIN B <=> P(side) # {}
             /\ side \in DOMAIN B => /\ side \in {"home", "away"}
                                     /\ B[side] = LastCount(scores, side)
                                     /\ B[side] \in 0 .. GoalsLimit
  <2>1. side \in DOMAIN B <=> P(side) # {}
    <3>1. side \in DOMAIN B <=> \E i \in DOMAIN scores : i \in P(side)
      BY <1>3, <1>6, <1>7
    <3> QED BY <3>1
  <2>2. ASSUME side \in DOMAIN B
        PROVE  /\ side \in {"home", "away"}
               /\ B[side] = LastCount(scores, side)
               /\ B[side] \in 0 .. GoalsLimit
    <3>1. PICK i \in DOMAIN scores : /\ side \in DOMAIN u[i] /\ B[side] = u[i][side]
                                     /\ \A j \in DOMAIN scores : side \in DOMAIN u[j] => j <= i
      BY <1>3, <1>6, <2>2
    <3>2. i \in P(side) /\ \A j \in P(side) : j <= i
      BY <3>1, <1>7
    <3>3. \A j \in P(side) : (\A k \in P(side) : k <= j) => j = i
      <4>1. P(side) \subseteq Nat
        BY <1>2
      <4> HIDE DEF P
      <4> QED BY <3>2, <4>1
    <3>4. (CHOOSE j \in P(side) : \A k \in P(side) : k <= j) = i
      <4> HIDE DEF P
      <4> QED BY <3>2, <3>3
    <3>5. LastCount(scores, side) = scores[i].score.goals
      <4>1. LastCount(scores, side) =
              IF P(side) = {} THEN Unset
              ELSE scores[CHOOSE j \in P(side) : \A k \in P(side) : k <= j].score.goals
        BY DEF LastCount
      <4> HIDE DEF P
      <4> QED BY <4>1, <3>2, <3>4
    <3> QED BY <3>1, <3>2, <3>5, <1>7
  <2> QED BY <2>1, <2>2
<1>9. \A side : side \notin DOMAIN B => LastCount(scores, side) = Unset
  <2> TAKE side
  <2>1. LastCount(scores, side) =
          IF P(side) = {} THEN Unset
          ELSE scores[CHOOSE j \in P(side) : \A k \in P(side) : k <= j].score.goals
    BY DEF LastCount
  <2> HIDE DEF P
  <2> QED BY <2>1, <1>8
<1>10. /\ count["home"] = LastCount(scores, "home") /\ count["away"] = LastCount(scores, "away")
       /\ Range(count) = {count["home"], count["away"]}
  BY DEF Range
<1>11. Unset \notin 0 .. GoalsLimit
  BY FixtureReadAssumption
<1>12. DOMAIN B = {"home", "away"} <=> Unset \notin Range(count)
  <2> HIDE DEF count, P
  <2>1. "home" \in DOMAIN B <=> count["home"] # Unset
    BY <1>8, <1>9, <1>10, <1>11
  <2>2. "away" \in DOMAIN B <=> count["away"] # Unset
    BY <1>8, <1>9, <1>10, <1>11
  <2>3. DOMAIN B \subseteq {"home", "away"}
    BY <1>8
  <2> QED BY <2>1, <2>2, <2>3, <1>10
<1>13. CASE DOMAIN B = {"home", "away"}
  <2>1. B = count
    <3>1. \A side \in {"home", "away"} : B[side] = LastCount(scores, side)
      BY <1>8, <1>13
    <3> QED BY <3>1, <1>6, <1>13
  <2>2. GoalsOf(entry.scores) = count
    BY <1>13, <2>1 DEF GoalsOf, B
  <2>3. \A side \in {"home", "away"} : count[side] \in 0 .. GoalsLimit
    BY <1>8, <1>13, <2>1
  <2> QED BY <2>2, <2>3, <1>11, <1>12, <1>13 DEF scores
<1>14. CASE DOMAIN B # {"home", "away"}
  <2>1. GoalsOf(entry.scores) = [side \in {"home", "away"} |-> Unset]
    BY <1>14 DEF GoalsOf, B
  <2> QED BY <2>1, <1>12, <1>14 DEF scores
<1> QED BY <1>13, <1>14

(* unique_fixtures keeps, of each identifier, the last fixture.            *)
LEMMA UniqueKeepsTheLast ==
  ASSUME NEW S, NEW fixtures \in Seq(S)
  PROVE  LET unique == UniqueFixtures(fixtures)
         IN /\ DOMAIN unique \subseteq DOMAIN fixtures
            /\ \A i, j \in DOMAIN unique : unique[i].id = unique[j].id => i = j
            /\ \A i \in DOMAIN unique :
                 \E k \in DOMAIN fixtures :
                   /\ unique[i] = fixtures[k]
                   /\ \A j \in DOMAIN fixtures : fixtures[j].id = unique[i].id => j <= k
            /\ \A k \in DOMAIN fixtures : \E i \in DOMAIN unique : unique[i].id = fixtures[k].id
<1> DEFINE With(id) == {i \in DOMAIN fixtures : fixtures[i].id = id}
           unique == UniqueFixtures(fixtures)
           First == {j \in DOMAIN fixtures : \A k \in With(fixtures[j].id) : j <= k}
<1>1. PICK n \in Nat : DOMAIN fixtures = 1 .. n
  OBVIOUS
<1>2. unique = [i \in First |-> fixtures[Max(With(fixtures[i].id))]]
  BY DEF UniqueFixtures
<1>3. ASSUME NEW k \in DOMAIN fixtures
      PROVE  /\ Max(With(fixtures[k].id)) \in With(fixtures[k].id)
             /\ \A j \in With(fixtures[k].id) : j <= Max(With(fixtures[k].id))
  <2> DEFINE W == With(fixtures[k].id)
  <2>1. W \subseteq 0 .. n /\ W # {} /\ W \subseteq Nat
    BY <1>1
  <2> HIDE DEF W
  <2>2. PICK x \in W : \A y \in W : y <= x
    BY <2>1, GreatestOf
  <2>3. x \in W /\ \A y \in W : x >= y
    BY <2>1, <2>2
  <2>4. Max(W) \in W /\ \A y \in W : Max(W) >= y
    BY <2>3 DEF Max
  <2>5. \A y \in W : y <= Max(W)
    BY <2>1, <2>4
  <2> QED BY <2>4, <2>5 DEF W
<1> HIDE DEF unique
<1>4. DOMAIN unique = First /\ First \subseteq DOMAIN fixtures
  BY <1>2
<1>5. ASSUME NEW i \in First
      PROVE  /\ unique[i].id = fixtures[i].id
             /\ \E k \in DOMAIN fixtures :
                  /\ unique[i] = fixtures[k]
                  /\ \A j \in DOMAIN fixtures : fixtures[j].id = fixtures[i].id => j <= k
  <2> DEFINE m == Max(With(fixtures[i].id))
  <2>1. m \in With(fixtures[i].id) /\ \A j \in With(fixtures[i].id) : j <= m
    BY <1>3
  <2>2. unique[i] = fixtures[m]
    BY <1>2
  <2> HIDE DEF m, First
  <2> QED BY <2>1, <2>2
<1>6. ASSUME NEW i \in First, NEW j \in First, unique[i].id = unique[j].id
      PROVE  i = j
  <2>1. fixtures[i].id = fixtures[j].id
    BY <1>5, <1>6
  <2>2. i <= j /\ j <= i
    BY <2>1
  <2>3. i \in Nat /\ j \in Nat
    BY <1>1
  <2> QED BY <2>2, <2>3
<1>7. ASSUME NEW k \in DOMAIN fixtures
      PROVE  \E i \in First : unique[i].id = fixtures[k].id
  <2> DEFINE W == With(fixtures[k].id)
  <2>1. W \subseteq Nat /\ W # {}
    BY <1>1
  <2>2. PICK x \in W : \A y \in W : x <= y
    <3> HIDE DEF W
    <3> QED BY <2>1, LeastOf
  <2>3. x \in First /\ fixtures[x].id = fixtures[k].id
    BY <2>2
  <2> QED BY <2>3, <1>5
<1> HIDE DEF First
<1> QED BY <1>4, <1>5, <1>6, <1>7 DEF unique

(* The entries of the window that a fixture is made of.                    *)
Readable == {i \in DOMAIN fixtureSent : UsableFixture(fixtureSent[i])}

(* The fixtures read are the readable entries, in order: at[i] is the      *)
(* place of the entry that fixture i was read from.                        *)
ReadInOrder(at) ==
  /\ at \in [DOMAIN fixturesRead -> Readable]
  /\ \A i, j \in DOMAIN fixturesRead : i < j => at[i] < at[j]
  /\ \A n \in Readable : \E i \in DOMAIN fixturesRead : at[i] = n
  /\ \A i \in DOMAIN fixturesRead : fixturesRead[i] = FixtureOf(fixtureSent[at[i]])

(* A row of the fixture table points into the other two.                   *)
IsRow(row) ==
  /\ row.league \in LeagueIds
  /\ {row.home, row.away} \subseteq TeamIds
  /\ row.goals \in [{"home", "away"} -> (0 .. GoalsLimit) \cup {Unset}]

(* The text of a competition is that of its last usable entry.             *)
TextIsTold(l) ==
  \E i \in DOMAIN leagueSent :
    /\ UsableLeague(leagueSent[i]) /\ Identifier(leagueSent[i].id) = l
    /\ leagueSent[i].name = leaguesRead[l]
    /\ \A j \in DOMAIN leagueSent :
         UsableLeague(leagueSent[j]) /\ Identifier(leagueSent[j].id) = l => j <= i

(* The inductive invariant of a fixture read.                              *)
FixtureInv ==
  /\ readStep \in {"leagues", "fixtures", "stored", "failed", "refused"}
  /\ leagueSent \in Seq(LeagueEntries) /\ fixtureSent \in Seq(WindowEntries)
  /\ fixturesRead \in Seq({FixtureOf(entry) : entry \in WindowEntries})
  /\ DOMAIN leaguesRead \subseteq LeagueIds
  /\ \A l : l \in DOMAIN leaguesRead <=> LeagueTold(l)
  /\ \A l \in DOMAIN leaguesRead : leaguesRead[l] # Unset /\ TextIsTold(l)
  /\ readStep = "leagues" => fixtureSent = <<>> /\ fixturesRead = <<>>
  /\ DOMAIN league = LeagueIds /\ DOMAIN team = TeamIds /\ DOMAIN fixture = FixtureIds
  /\ \A f \in FixtureIds : fixture[f] # Unset => IsRow(fixture[f])
  /\ \E at : ReadInOrder(at)

(* A readable entry names one club of the tables on each side.             *)
LEMMA SidesAreNamed ==
  ASSUME NEW entry \in WindowEntries, UsableFixture(entry), NEW side \in {"home", "away"}
  PROVE  /\ Identifier(SideOf(entry.participants, side).id) = OnlySide(entry, side)
         /\ OnlySide(entry, side) \in TeamIds /\ OnlySide(entry, side) # NoId
         /\ SideOf(entry.participants, side).name # Unset
         /\ entry.participants # Malformed
         /\ \E k \in DOMAIN entry.participants :
              IsSide(entry.participants[k]) /\ entry.participants[k] = SideOf(entry.participants, side)
<1> DEFINE P == Sides(entry.participants, side)
           i == CHOOSE j \in P : TRUE
<1>1. Cardinality(P) = 1
  BY DEF UsableFixture, NamesBothSides
<1>2. entry.participants # Malformed /\ P # {}
  <2>1. P # {}
    BY <1>1, FS_EmptySet
  <2> QED BY <2>1 DEF Sides
<1>3. P = {j \in DOMAIN entry.participants :
             IsSide(entry.participants[j]) /\ entry.participants[j].location = side}
  BY <1>2 DEF Sides
<1>4. OnlySide(entry, side) = Identifier(entry.participants[i].id)
  <2> HIDE DEF P
  <2> QED BY <1>1, <1>3 DEF OnlySide
<1>5. i \in P
  <2> HIDE DEF P
  <2> QED BY <1>2
<1>6. /\ i \in DOMAIN entry.participants /\ IsSide(entry.participants[i])
  BY <1>3, <1>5
<1>7. SideOf(entry.participants, side) = entry.participants[i]
  BY DEF SideOf
<1> HIDE DEF i, P
<1>8. Identifier(entry.participants[i].id) \in TeamIds \cup {NoId}
      /\ entry.participants[i].name # Unset
  BY <1>2, <1>6, FixtureReadAssumption DEF IsSide
<1> QED BY <1>2, <1>4, <1>6, <1>7, <1>8 DEF IsSide

(* Each side of a usable entry is one club exactly when OnlySide names it. *)
LEMMA BothSidesAreNamed ==
  ASSUME NEW entry \in WindowEntries
  PROVE  NamesBothSides(entry.participants) <=>
           /\ entry.participants # Malformed
           /\ OnlySide(entry, "home") # NoId /\ OnlySide(entry, "away") # NoId
<1>1. ASSUME NEW side \in {"home", "away"}, entry.participants # Malformed
      PROVE  Cardinality(Sides(entry.participants, side)) = 1 <=> OnlySide(entry, side) # NoId
  <2> DEFINE P == Sides(entry.participants, side)
             i == CHOOSE j \in P : TRUE
  <2>1. P = {j \in DOMAIN entry.participants :
               IsSide(entry.participants[j]) /\ entry.participants[j].location = side}
    BY <1>1 DEF Sides
  <2>2. OnlySide(entry, side) = IF Cardinality(P) = 1 THEN Identifier(entry.participants[i].id)
                                ELSE NoId
    <3> HIDE DEF P
    <3> QED BY <2>1 DEF OnlySide
  <2>3. Cardinality(P) = 1 => P # {}
    BY FS_EmptySet
  <2>4. P # {} => i \in P
    <3> HIDE DEF P
    <3> QED OBVIOUS
  <2>5. i \in P => Identifier(entry.participants[i].id) # NoId
    <3> HIDE DEF i
    <3> QED BY <2>1 DEF IsSide
  <2> HIDE DEF P, i
  <2>6. Cardinality(P) = 1 <=> OnlySide(entry, side) # NoId
    BY <2>2, <2>3, <2>4, <2>5
  <2> QED BY <2>6 DEF P
<1>2. ASSUME entry.participants = Malformed, NamesBothSides(entry.participants) PROVE FALSE
  <2>1. Sides(entry.participants, "home") = {}
    BY <1>2 DEF Sides
  <2> QED BY <2>1, <1>2, FS_EmptySet DEF NamesBothSides
<1> QED BY <1>1, <1>2 DEF NamesBothSides

(* The complete entries of a fixture are the readable ones that name it.   *)
LEMMA CompleteIsReadable ==
  ASSUME FixtureInv, NEW f, f # NoId
  PROVE  Complete(f) = {i \in Readable : Identifier(fixtureSent[i].id) = f}
<1>1. ASSUME NEW i \in DOMAIN fixtureSent
      PROVE  i \in Complete(f) <=> i \in Readable /\ Identifier(fixtureSent[i].id) = f
  <2> DEFINE entry == fixtureSent[i]
  <2>1. entry \in WindowEntries
    BY DEF FixtureInv
  <2>2. LeagueTold(Identifier(entry.league)) <=> Identifier(entry.league) \in DOMAIN leaguesRead
    BY DEF FixtureInv
  <2>3. NamesBothSides(entry.participants) <=>
           /\ entry.participants # Malformed
           /\ OnlySide(entry, "home") # NoId /\ OnlySide(entry, "away") # NoId
    BY <2>1, BothSidesAreNamed
  <2>4. i \in Complete(f) <=>
           /\ Identifier(entry.id) = f
           /\ LeagueTold(Identifier(entry.league))
           /\ entry.kickoff # Malformed
           /\ entry.participants # Malformed
           /\ OnlySide(entry, "home") # NoId /\ OnlySide(entry, "away") # NoId
    BY DEF Complete
  <2>5. i \in Readable <=>
           /\ Identifier(entry.id) # NoId
           /\ Identifier(entry.league) \in DOMAIN leaguesRead
           /\ entry.kickoff # Malformed
           /\ NamesBothSides(entry.participants)
    BY DEF Readable, UsableFixture
  <2> HIDE DEF entry
  <2>6. i \in Complete(f) <=> i \in Readable /\ Identifier(entry.id) = f
    BY <2>2, <2>3, <2>4, <2>5
  <2> QED BY <2>6 DEF entry
<1> QED BY <1>1 DEF Complete, Readable

(* One of the sides of an entry has this text.                             *)
NamesClub(entry, text) ==
  \E k \in DOMAIN entry.participants :
    IsSide(entry.participants[k]) /\ entry.participants[k].name = text

(* The row of a fixture that an entry makes.                               *)
LEMMA RowOfAnEntry ==
  ASSUME FixtureInv, NEW i \in Readable
  PROVE  LET entry == fixtureSent[i]
             f == FixtureOf(entry)
             scores == IF entry.scores = Malformed THEN <<>> ELSE entry.scores
             count == [side \in {"home", "away"} |-> LastCount(scores, side)]
             row == FixtureRow(f)
         IN /\ IsRow(row) /\ f.league \in DOMAIN leaguesRead
            /\ row.home = OnlySide(entry, "home") /\ row.away = OnlySide(entry, "away")
            /\ row.league = Identifier(entry.league)
            /\ row.kickoff = entry.kickoff /\ row.status = StatusOf(entry.state)
            /\ row.goals = IF Unset \in Range(count)
                           THEN [side \in {"home", "away"} |-> Unset] ELSE count
            /\ f.goals["home"] = Unset <=> f.goals["away"] = Unset
            /\ DOMAIN Named(f) = {row.home, row.away}
            /\ \A t \in DOMAIN Named(f) : Named(f)[t] # Unset /\ NamesClub(entry, Named(f)[t])
<1> DEFINE entry == fixtureSent[i]
           f == FixtureOf(entry)
           scores == IF entry.scores = Malformed THEN <<>> ELSE entry.scores
           count == [side \in {"home", "away"} |-> LastCount(scores, side)]
           row == FixtureRow(f)
<1>1. entry \in WindowEntries /\ UsableFixture(entry)
  BY DEF Readable, FixtureInv
<1> HIDE DEF entry
<1>2. /\ f.league = Identifier(entry.league) /\ f.kickoff = entry.kickoff
      /\ f.sides = [side \in {"home", "away"} |-> SideOf(entry.participants, side)]
      /\ f.status = StatusOf(entry.state) /\ f.goals = GoalsOf(entry.scores)
  BY DEF FixtureOf
<1> HIDE DEF f
<1>3. /\ row.league = f.league /\ row.kickoff = f.kickoff /\ row.status = f.status
      /\ row.goals = f.goals
      /\ row.home = Identifier(f.sides["home"].id) /\ row.away = Identifier(f.sides["away"].id)
  BY DEF FixtureRow
<1> HIDE DEF row
<1>4. \A side \in {"home", "away"} :
        /\ f.sides[side] = SideOf(entry.participants, side)
        /\ Identifier(f.sides[side].id) = OnlySide(entry, side)
        /\ OnlySide(entry, side) \in TeamIds /\ f.sides[side].name # Unset
        /\ NamesClub(entry, f.sides[side].name)
  <2> TAKE side \in {"home", "away"}
  <2>1. f.sides[side] = SideOf(entry.participants, side)
    BY <1>2
  <2>2. /\ Identifier(SideOf(entry.participants, side).id) = OnlySide(entry, side)
        /\ OnlySide(entry, side) \in TeamIds
        /\ SideOf(entry.participants, side).name # Unset
        /\ \E k \in DOMAIN entry.participants :
             IsSide(entry.participants[k]) /\ entry.participants[k] = SideOf(entry.participants, side)
    BY <1>1, SidesAreNamed
  <2>3. NamesClub(entry, SideOf(entry.participants, side).name)
    BY <2>2 DEF NamesClub
  <2> QED BY <2>1, <2>2, <2>3
<1>5. f.league \in DOMAIN leaguesRead
  BY <1>1, <1>2 DEF UsableFixture
<1>6. /\ f.goals = IF Unset \in Range(count) THEN [side \in {"home", "away"} |-> Unset] ELSE count
      /\ f.goals \in [{"home", "away"} -> (0 .. GoalsLimit) \cup {Unset}]
      /\ f.goals["home"] = Unset <=> f.goals["away"] = Unset
  BY <1>1, <1>2, GoalsAreLast
<1> HIDE DEF count, scores
<1>7. IsRow(row)
  <2>1. DOMAIN leaguesRead \subseteq LeagueIds
    BY DEF FixtureInv
  <2> QED BY <1>3, <1>4, <1>5, <1>6, <2>1 DEF IsRow
<1>8. DOMAIN Named(f) = {row.home, row.away}
  <2>1. DOMAIN Named(f) = {Identifier(f.sides[side].id) : side \in {"home", "away"}}
    BY DEF Named
  <2> QED BY <2>1, <1>3
<1>9. \A t \in DOMAIN Named(f) : Named(f)[t] # Unset /\ NamesClub(entry, Named(f)[t])
  <2>1. \A t \in DOMAIN Named(f) :
          Named(f)[t] = f.sides[IF t = Identifier(f.sides["away"].id) THEN "away" ELSE "home"].name
    BY DEF Named
  <2> QED BY <2>1, <1>4
<1> QED BY <1>2, <1>3, <1>4, <1>5, <1>6, <1>7, <1>8, <1>9 DEF entry, f, row, count, scores

(* The fixtures that are stored are made of the last complete entries.     *)
LEMMA UniqueIsLastComplete ==
  ASSUME FixtureInv
  PROVE  LET unique == UniqueFixtures(fixturesRead)
             Latest(f) == CHOOSE i \in Complete(f) : \A j \in Complete(f) : j <= i
         IN /\ DOMAIN unique \subseteq DOMAIN fixturesRead
            /\ \A i, j \in DOMAIN unique : unique[i].id = unique[j].id => i = j
            /\ \A i \in DOMAIN unique : \E n \in Readable : unique[i] = FixtureOf(fixtureSent[n])
            /\ \A i \in DOMAIN unique :
                 LET f == unique[i].id
                     n == Latest(f)
                 IN /\ f # NoId
                    /\ n \in Readable /\ n \in Complete(f) /\ \A j \in Complete(f) : j <= n
                    /\ Identifier(fixtureSent[n].id) = f
                    /\ unique[i] = FixtureOf(fixtureSent[n])
            /\ \A f \in FixtureIds : Complete(f) # {} =>
                 \E i \in DOMAIN unique : unique[i].id = f
<1> DEFINE unique == UniqueFixtures(fixturesRead)
           Latest(f) == CHOOSE i \in Complete(f) : \A j \in Complete(f) : j <= i
<1>1. PICK at : ReadInOrder(at)
  BY DEF FixtureInv
<1>2. /\ DOMAIN unique \subseteq DOMAIN fixturesRead
      /\ \A i, j \in DOMAIN unique : unique[i].id = unique[j].id => i = j
      /\ \A i \in DOMAIN unique :
           \E k \in DOMAIN fixturesRead :
             /\ unique[i] = fixturesRead[k]
             /\ \A j \in DOMAIN fixturesRead : fixturesRead[j].id = unique[i].id => j <= k
      /\ \A k \in DOMAIN fixturesRead : \E i \in DOMAIN unique : unique[i].id = fixturesRead[k].id
  <2>1. fixturesRead \in Seq({FixtureOf(entry) : entry \in WindowEntries})
    BY DEF FixtureInv
  <2> QED BY <2>1, UniqueKeepsTheLast
<1> HIDE DEF unique
<1>3. \A k \in DOMAIN fixturesRead : /\ at[k] \in Readable /\ k \in Nat
                                     /\ fixturesRead[k] = FixtureOf(fixtureSent[at[k]])
                                     /\ fixturesRead[k].id = Identifier(fixtureSent[at[k]].id)
  <2> TAKE k \in DOMAIN fixturesRead
  <2>1. k \in Nat
    <3>1. PICK n \in Nat : DOMAIN fixturesRead = 1 .. n
      BY DEF FixtureInv
    <3> QED BY <3>1
  <2>2. at[k] \in Readable /\ fixturesRead[k] = FixtureOf(fixtureSent[at[k]])
    BY <1>1 DEF ReadInOrder
  <2>3. FixtureOf(fixtureSent[at[k]]).id = Identifier(fixtureSent[at[k]].id)
    BY DEF FixtureOf
  <2> QED BY <2>1, <2>2, <2>3
<1>4. \A n \in Readable : n \in Nat /\ \E k \in DOMAIN fixturesRead : at[k] = n
  <2>1. PICK m \in Nat : DOMAIN fixtureSent = 1 .. m
    BY DEF FixtureInv
  <2>2. Readable \subseteq Nat
    BY <2>1 DEF Readable
  <2> QED BY <1>1, <2>2 DEF ReadInOrder
<1>5. /\ \A f : f # NoId => Complete(f) = {n \in Readable : Identifier(fixtureSent[n].id) = f}
      /\ \A f \in FixtureIds : f # NoId
  BY CompleteIsReadable, FixtureReadAssumption, ValuesAssumption
<1>6. ASSUME NEW i \in DOMAIN unique
      PROVE  LET f == unique[i].id
                 n == Latest(f)
             IN /\ f # NoId
                /\ n \in Readable /\ n \in Complete(f) /\ \A j \in Complete(f) : j <= n
                /\ Identifier(fixtureSent[n].id) = f
                /\ unique[i] = FixtureOf(fixtureSent[n])
  <2> DEFINE f == unique[i].id
             C == Complete(f)
  <2>1. PICK k \in DOMAIN fixturesRead :
          /\ unique[i] = fixturesRead[k]
          /\ \A j \in DOMAIN fixturesRead : fixturesRead[j].id = f => j <= k
    BY <1>2
  <2>0. f # NoId
    <3>1. f = Identifier(fixtureSent[at[k]].id) /\ at[k] \in Readable
      BY <1>3, <2>1
    <3> QED BY <3>1 DEF Readable, UsableFixture
  <2>2. at[k] \in C
    BY <1>3, <1>5, <2>0, <2>1
  <2>3. ASSUME NEW n \in C PROVE n <= at[k]
    <3>1. n \in Readable /\ Identifier(fixtureSent[n].id) = f
      BY <1>5, <2>0, <2>3
    <3>2. PICK j \in DOMAIN fixturesRead : at[j] = n
      BY <1>4, <3>1
    <3>3. j <= k
      BY <1>3, <2>1, <3>1, <3>2
    <3>4. j < k => at[j] < at[k]
      BY <1>1 DEF ReadInOrder
    <3>5. j \in Nat /\ k \in Nat /\ at[j] \in Nat /\ at[k] \in Nat
      BY <1>3, <1>4
    <3> QED BY <3>2, <3>3, <3>4, <3>5
  <2>4. C \subseteq Nat
    BY <1>4, <1>5, <2>0
  <2> HIDE DEF C
  <2>5. \A n \in C : (\A j \in C : j <= n) => n = at[k]
    <3>1. PICK a : a = at[k]
      OBVIOUS
    <3>2. a \in C /\ \A n \in C : n <= a
      BY <2>2, <2>3, <3>1
    <3>3. ASSUME NEW n \in C, \A j \in C : j <= n PROVE n = a
      <4>1. n <= a /\ a <= n /\ n \in Nat /\ a \in Nat
        BY <2>4, <3>2, <3>3
      <4> QED BY <4>1
    <3> QED BY <3>1, <3>3
  <2>6. (CHOOSE n \in C : \A j \in C : j <= n) = at[k]
    BY <2>2, <2>3, <2>5
  <2>7. Latest(f) = at[k]
    BY <2>6 DEF C
  <2>8. at[k] \in C /\ \A j \in C : j <= at[k]
    BY <2>2, <2>3
  <2>9. /\ at[k] \in Readable /\ Identifier(fixtureSent[at[k]].id) = f
        /\ unique[i] = FixtureOf(fixtureSent[at[k]])
    BY <1>3, <2>1
  <2> HIDE DEF f, Latest
  <2>10. /\ Latest(f) \in Readable /\ Latest(f) \in C /\ \A j \in C : j <= Latest(f)
         /\ Identifier(fixtureSent[Latest(f)].id) = f
         /\ unique[i] = FixtureOf(fixtureSent[Latest(f)])
    BY <2>7, <2>8, <2>9
  <2> QED BY <2>0, <2>10 DEF C, f
<1>7. ASSUME NEW f \in FixtureIds, Complete(f) # {}
      PROVE  \E i \in DOMAIN unique : unique[i].id = f
  <2>1. PICK n \in Readable : Identifier(fixtureSent[n].id) = f
    BY <1>5, <1>7
  <2>2. PICK k \in DOMAIN fixturesRead : at[k] = n
    BY <1>4
  <2> QED BY <1>2, <1>3, <2>1, <2>2
<1>8. \A i \in DOMAIN unique : \E n \in Readable : unique[i] = FixtureOf(fixtureSent[n])
  BY <1>2, <1>3
<1> HIDE DEF Latest
<1> QED BY <1>2, <1>6, <1>7, <1>8 DEF unique, Latest

(* Every club of a fixture that is stored is among the clubs.              *)
LEMMA TeamsAreNamed ==
  ASSUME FixtureInv
  PROVE  LET unique == UniqueFixtures(fixturesRead)
             teams == TeamsOf(fixturesRead)
         IN /\ \A i \in DOMAIN unique :
                 /\ FixtureRow(unique[i]).home \in DOMAIN teams
                 /\ FixtureRow(unique[i]).away \in DOMAIN teams
            /\ \A t \in DOMAIN teams :
                 /\ teams[t] # Unset
                 /\ \E i \in DOMAIN unique : t \in DOMAIN Named(unique[i]) /\ teams[t] = Named(unique[i])[t]
<1> DEFINE unique == UniqueFixtures(fixturesRead)
           teams == TeamsOf(fixturesRead)
           u == [i \in DOMAIN fixturesRead |-> IF i \in DOMAIN unique THEN Named(unique[i]) ELSE Empty]
<1>1. teams = Collected(u)
  BY DEF TeamsOf
<1>2. u \in Seq(Range(u)) /\ DOMAIN u = DOMAIN fixturesRead
  <2>1. PICK n \in Nat : DOMAIN fixturesRead = 1 .. n
    BY DEF FixtureInv
  <2> QED BY <2>1 DEF Range
<1>3. \A i \in DOMAIN u : u[i] = IF i \in DOMAIN unique THEN Named(unique[i]) ELSE Empty
  OBVIOUS
<1> HIDE DEF u, teams
<1>4. /\ \A k : k \in DOMAIN teams <=> \E i \in DOMAIN u : k \in DOMAIN u[i]
      /\ \A k \in DOMAIN teams : \E i \in DOMAIN u : k \in DOMAIN u[i] /\ teams[k] = u[i][k]
  BY <1>1, <1>2, CollectedKeepsTheLast
<1>5. /\ DOMAIN unique \subseteq DOMAIN u
      /\ \A i \in DOMAIN unique : \E n \in Readable : unique[i] = FixtureOf(fixtureSent[n])
  BY <1>2, UniqueIsLastComplete
<1> HIDE DEF unique
<1>6. \A i \in DOMAIN unique :
        /\ DOMAIN Named(unique[i]) = {FixtureRow(unique[i]).home, FixtureRow(unique[i]).away}
        /\ \A t \in DOMAIN Named(unique[i]) : Named(unique[i])[t] # Unset
  <2> TAKE i \in DOMAIN unique
  <2>1. PICK n \in Readable : unique[i] = FixtureOf(fixtureSent[n])
    BY <1>5
  <2> DEFINE f == FixtureOf(fixtureSent[n])
  <2>2. /\ FixtureRow(f).home = OnlySide(fixtureSent[n], "home")
        /\ FixtureRow(f).away = OnlySide(fixtureSent[n], "away")
        /\ DOMAIN Named(f) = {FixtureRow(f).home, FixtureRow(f).away}
        /\ \A t \in DOMAIN Named(f) : Named(f)[t] # Unset
    BY RowOfAnEntry
  <2> QED BY <2>1, <2>2
<1>7. \A i \in DOMAIN unique :
        FixtureRow(unique[i]).home \in DOMAIN teams /\ FixtureRow(unique[i]).away \in DOMAIN teams
  <2> TAKE i \in DOMAIN unique
  <2>1. i \in DOMAIN u /\ u[i] = Named(unique[i])
    BY <1>3, <1>5
  <2> QED BY <2>1, <1>4, <1>6
<1>8. ASSUME NEW t \in DOMAIN teams
      PROVE  /\ teams[t] # Unset
             /\ \E i \in DOMAIN unique : t \in DOMAIN Named(unique[i]) /\ teams[t] = Named(unique[i])[t]
  <2>1. PICK i \in DOMAIN u : t \in DOMAIN u[i] /\ teams[t] = u[i][t]
    BY <1>4
  <2>2. i \in DOMAIN unique
    BY <1>3, <2>1 DEF Empty
  <2> QED BY <1>3, <1>6, <2>1, <2>2
<1> QED BY <1>7, <1>8 DEF unique, teams

(* What FixturesAreReadWhole says of one fixture.                          *)
LeavesWhole(f) ==
  LET entry == fixtureSent[CHOOSE i \in Complete(f) : \A j \in Complete(f) : j <= i]
      scores == IF entry.scores = Malformed THEN <<>> ELSE entry.scores
      count == [side \in {"home", "away"} |-> LastCount(scores, side)]
      row == fixture'[f]
  IN IF Complete(f) = {}
     THEN row = IF fixture[f] # Unset /\ fixture[f].kickoff \in InWindow THEN Unset
                ELSE fixture[f]
     ELSE /\ row.home = OnlySide(entry, "home") /\ team'[row.home] # Unset
          /\ row.away = OnlySide(entry, "away") /\ team'[row.away] # Unset
          /\ row.league = Identifier(entry.league) /\ league'[row.league] # Unset
          /\ row.kickoff = entry.kickoff /\ row.status = StatusOf(entry.state)
          /\ row.goals = IF Unset \in Range(count)
                         THEN [side \in {"home", "away"} |-> Unset] ELSE count

(* A text that is refused was stated, by the entry that counts.            *)
LEMMA RefusedTextIsStated ==
  ASSUME FixtureInv, RefusesTexts(leaguesRead, TeamsOf(fixturesRead))
  PROVE  StatesUnstorable
<1> DEFINE unique == UniqueFixtures(fixturesRead)
           teams == TeamsOf(fixturesRead)
           Latest(f) == CHOOSE i \in Complete(f) : \A j \in Complete(f) : j <= i
<1>1. \/ \E l \in DOMAIN leaguesRead : leaguesRead[l] \in Unstorable
      \/ \E t \in DOMAIN teams : teams[t] \in Unstorable
  <2> HIDE DEF teams
  <2>1. RefusesTexts(leaguesRead, teams)
    BY DEF teams
  <2> QED BY <2>1 DEF RefusesTexts, Range
<1>2. ASSUME NEW l \in DOMAIN leaguesRead, leaguesRead[l] \in Unstorable
      PROVE  StatesUnstorable
  <2>1. TextIsTold(l)
    BY DEF FixtureInv
  <2> QED BY <1>2, <2>1 DEF TextIsTold, StatesUnstorable
<1>3. ASSUME NEW t \in DOMAIN teams, teams[t] \in Unstorable
      PROVE  StatesUnstorable
  <2>1. PICK i \in DOMAIN unique : t \in DOMAIN Named(unique[i]) /\ teams[t] = Named(unique[i])[t]
    BY TeamsAreNamed
  <2>2. LET f == unique[i].id
            n == Latest(f)
        IN /\ f # NoId
           /\ n \in Readable /\ n \in Complete(f) /\ \A j \in Complete(f) : j <= n
           /\ Identifier(fixtureSent[n].id) = f
           /\ unique[i] = FixtureOf(fixtureSent[n])
    BY UniqueIsLastComplete
  <2>3. PICK n : n = Latest(unique[i].id)
    OBVIOUS
  <2> HIDE DEF Latest, unique, teams
  <2>4. /\ n \in Readable /\ Identifier(fixtureSent[n].id) # NoId
        /\ n \in Complete(Identifier(fixtureSent[n].id))
        /\ \A j \in Complete(Identifier(fixtureSent[n].id)) : j <= n
        /\ unique[i] = FixtureOf(fixtureSent[n])
    BY <2>2, <2>3
  <2>5. LET f == FixtureOf(fixtureSent[n])
        IN \A c \in DOMAIN Named(f) : NamesClub(fixtureSent[n], Named(f)[c])
    BY <2>4, RowOfAnEntry
  <2>6. NamesClub(fixtureSent[n], teams[t])
    BY <2>1, <2>4, <2>5
  <2>7. n \in DOMAIN fixtureSent
    BY <2>4 DEF Readable
  <2> QED BY <1>3, <2>4, <2>6, <2>7 DEF NamesClub, StatesUnstorable
<1> HIDE DEF teams
<1> QED BY <1>1, <1>2, <1>3

(* A complete read is stored whole, and nothing of it but a text is        *)
(* refused.                                                                *)
LEMMA StoreKeepsFixtures ==
  ASSUME FixtureInv, StoreFixtures, ~RefusesTexts(leaguesRead, TeamsOf(fixturesRead))
  PROVE  /\ readStep' = "stored"
         /\ DOMAIN league' = LeagueIds /\ DOMAIN team' = TeamIds /\ DOMAIN fixture' = FixtureIds
         /\ \A f \in FixtureIds : fixture'[f] # Unset => IsRow(fixture'[f])
         /\ \A f \in FixtureIds : LeavesWhole(f)
<1> DEFINE unique == UniqueFixtures(fixturesRead)
           rows == [id \in {unique[i].id : i \in DOMAIN unique} |->
                      FixtureRow(unique[CHOOSE i \in DOMAIN unique : unique[i].id = id])]
           departed == {f \in FixtureIds \ DOMAIN rows :
                          fixture[f] # Unset /\ fixture[f].kickoff \in InWindow}
           written == [f \in DOMAIN rows \cup departed |->
                         IF f \in departed THEN Unset ELSE rows[f]]
           teams == TeamsOf(fixturesRead)
           Latest(f) == CHOOSE i \in Complete(f) : \A j \in Complete(f) : j <= i
<1>1. IF RefusesTexts(leaguesRead, TeamsOf(fixturesRead)) \/ RefusesFixtures(unique)
      THEN readStep' = "refused" /\ UNCHANGED tables
      ELSE /\ readStep' = "stored"
           /\ league' = Upserted(league, leaguesRead)
           /\ team' = Upserted(team, teams)
           /\ fixture' = Upserted(fixture, written)
  BY DEF StoreFixtures
<1>2. /\ \A i, j \in DOMAIN unique : unique[i].id = unique[j].id => i = j
      /\ \A i \in DOMAIN unique : \E n \in Readable : unique[i] = FixtureOf(fixtureSent[n])
      /\ \A i \in DOMAIN unique :
           /\ Latest(unique[i].id) \in Complete(unique[i].id)
           /\ Latest(unique[i].id) \in Readable
           /\ unique[i] = FixtureOf(fixtureSent[Latest(unique[i].id)])
      /\ \A f \in FixtureIds : Complete(f) # {} => \E i \in DOMAIN unique : unique[i].id = f
  BY UniqueIsLastComplete
<1>3. /\ \A i \in DOMAIN unique :
           /\ FixtureRow(unique[i]).home \in DOMAIN teams
           /\ FixtureRow(unique[i]).away \in DOMAIN teams
      /\ \A t \in DOMAIN teams : teams[t] # Unset
  BY TeamsAreNamed
<1> HIDE DEF unique, teams
<1>4. ~RefusesFixtures(unique)
  <2>1. ASSUME NEW i \in DOMAIN unique
        PROVE  /\ unique[i].goals["home"] = Unset <=> unique[i].goals["away"] = Unset
               /\ unique[i].league \in DOMAIN leaguesRead
    <3>1. PICK n \in Readable : unique[i] = FixtureOf(fixtureSent[n])
      BY <1>2
    <3> DEFINE f == FixtureOf(fixtureSent[n])
    <3>2. /\ f.league \in DOMAIN leaguesRead
          /\ f.goals["home"] = Unset <=> f.goals["away"] = Unset
      BY RowOfAnEntry
    <3> QED BY <3>1, <3>2
  <2> QED BY <1>2, <2>1 DEF RefusesFixtures
<1>5. /\ readStep' = "stored"
      /\ DOMAIN league' = LeagueIds /\ DOMAIN team' = TeamIds /\ DOMAIN fixture' = FixtureIds
      /\ \A l \in LeagueIds : l \in DOMAIN leaguesRead => league'[l] = leaguesRead[l]
      /\ \A t \in TeamIds : t \in DOMAIN teams => team'[t] = teams[t]
      /\ \A f \in FixtureIds : fixture'[f] = IF f \in DOMAIN written THEN written[f] ELSE fixture[f]
  <2> HIDE DEF written
  <2> QED BY <1>1, <1>4 DEF Upserted, FixtureInv
<1>6. \A f \in FixtureIds : f \in DOMAIN rows <=> Complete(f) # {}
  <2> HIDE DEF Latest
  <2> QED BY <1>2
<1>7. ASSUME NEW f \in FixtureIds, Complete(f) # {}
      PROVE  /\ rows[f] = FixtureRow(FixtureOf(fixtureSent[Latest(f)]))
             /\ Latest(f) \in Readable
             /\ rows[f].home \in DOMAIN teams /\ rows[f].away \in DOMAIN teams
  <2>1. PICK i \in DOMAIN unique : unique[i].id = f
    BY <1>2, <1>7
  <2>2. (CHOOSE j \in DOMAIN unique : unique[j].id = f) = i
    BY <1>2, <2>1
  <2>3. rows[f] = FixtureRow(unique[i])
    BY <2>1, <2>2
  <2>4. unique[i] = FixtureOf(fixtureSent[Latest(f)]) /\ Latest(f) \in Readable
    BY <1>2, <2>1
  <2> HIDE DEF rows, Latest
  <2> QED BY <1>3, <2>3, <2>4
<1>8. \A f \in FixtureIds :
        fixture'[f] = IF Complete(f) # {} THEN rows[f]
                      ELSE IF fixture[f] # Unset /\ fixture[f].kickoff \in InWindow THEN Unset
                      ELSE fixture[f]
  <2> TAKE f \in FixtureIds
  <2> HIDE DEF rows
  <2>1. CASE Complete(f) # {}
    BY <1>5, <1>6, <2>1
  <2>2. CASE Complete(f) = {}
    BY <1>5, <1>6, <2>2
  <2> QED BY <2>1, <2>2
<1> HIDE DEF rows, departed, written
<1>9. ASSUME NEW f \in FixtureIds, fixture'[f] # Unset
      PROVE  IsRow(fixture'[f])
  <2>1. CASE Complete(f) # {}
    <3>1. IsRow(FixtureRow(FixtureOf(fixtureSent[Latest(f)])))
      <4>1. PICK n \in Readable : n = Latest(f)
        BY <1>7, <2>1
      <4> HIDE DEF Latest
      <4>2. IsRow(FixtureRow(FixtureOf(fixtureSent[n])))
        BY RowOfAnEntry
      <4> QED BY <4>1, <4>2
    <3> HIDE DEF Latest
    <3> QED BY <1>7, <1>8, <2>1, <3>1
  <2>2. CASE Complete(f) = {}
    BY <1>8, <1>9, <2>2 DEF FixtureInv
  <2> QED BY <2>1, <2>2
<1>10. ASSUME NEW f \in FixtureIds
       PROVE  LeavesWhole(f)
  <2>1. CASE Complete(f) = {}
    <3>1. fixture'[f] = IF fixture[f] # Unset /\ fixture[f].kickoff \in InWindow THEN Unset
                        ELSE fixture[f]
      BY <1>8, <2>1
    <3> QED BY <2>1, <3>1 DEF LeavesWhole
  <2>2. CASE Complete(f) # {}
    <3> DEFINE entry == fixtureSent[Latest(f)]
               scores == IF entry.scores = Malformed THEN <<>> ELSE entry.scores
               count == [side \in {"home", "away"} |-> LastCount(scores, side)]
               row == FixtureRow(FixtureOf(entry))
    <3>1. Latest(f) \in Readable /\ fixture'[f] = row
          /\ row.home \in DOMAIN teams /\ row.away \in DOMAIN teams
      BY <1>7, <1>8, <2>2
    <3>2. /\ IsRow(row) /\ row.league \in DOMAIN leaguesRead
          /\ row.home = OnlySide(entry, "home") /\ row.away = OnlySide(entry, "away")
          /\ row.league = Identifier(entry.league)
          /\ row.kickoff = entry.kickoff /\ row.status = StatusOf(entry.state)
          /\ row.goals = IF Unset \in Range(count)
                         THEN [side \in {"home", "away"} |-> Unset] ELSE count
      <4>1. row.league = FixtureOf(entry).league
        BY DEF FixtureRow
      <4> HIDE DEF Latest
      <4>2. /\ IsRow(row) /\ FixtureOf(entry).league \in DOMAIN leaguesRead
            /\ row.home = OnlySide(entry, "home") /\ row.away = OnlySide(entry, "away")
            /\ row.league = Identifier(entry.league)
            /\ row.kickoff = entry.kickoff /\ row.status = StatusOf(entry.state)
            /\ row.goals = IF Unset \in Range(count)
                           THEN [side \in {"home", "away"} |-> Unset] ELSE count
        BY <3>1, RowOfAnEntry
      <4> HIDE DEF row
      <4> QED BY <4>1, <4>2
    <3>3. /\ LeavesWhole(f) <=>
               /\ fixture'[f].home = OnlySide(entry, "home") /\ team'[fixture'[f].home] # Unset
               /\ fixture'[f].away = OnlySide(entry, "away") /\ team'[fixture'[f].away] # Unset
               /\ fixture'[f].league = Identifier(entry.league)
               /\ league'[fixture'[f].league] # Unset
               /\ fixture'[f].kickoff = entry.kickoff /\ fixture'[f].status = StatusOf(entry.state)
               /\ fixture'[f].goals = IF Unset \in Range(count)
                                      THEN [side \in {"home", "away"} |-> Unset] ELSE count
      BY <2>2 DEF LeavesWhole
    <3> HIDE DEF row, entry, count, scores
    <3>4. row.home \in TeamIds /\ row.away \in TeamIds /\ row.league \in LeagueIds
      BY <3>2 DEF IsRow
    <3>5. /\ team'[row.home] # Unset /\ team'[row.away] # Unset
          /\ league'[row.league] # Unset
      <4>1. \A l \in DOMAIN leaguesRead : leaguesRead[l] # Unset
        BY DEF FixtureInv
      <4> QED BY <1>3, <1>5, <3>1, <3>2, <3>4, <4>1
    <3> QED BY <3>1, <3>2, <3>3, <3>5
  <2> QED BY <2>1, <2>2
<1> QED BY <1>5, <1>9, <1>10

(* Nothing was read yet: there is nothing to be out of order.              *)
LEMMA NothingInOrder ==
  ASSUME fixtureSent = <<>>, fixturesRead = <<>>
  PROVE  \E at : ReadInOrder(at)
<1>1. Readable = {}
  BY DEF Readable
<1>2. ReadInOrder(<<>>)
  BY <1>1 DEF ReadInOrder
<1> QED BY <1>2

(* One more competition is told.                                           *)
LEMMA ReadLeagueKeeps ==
  ASSUME FixtureInv, NEW entry \in LeagueEntries, ReadLeague(entry)
  PROVE  FixtureInv'
<1> DEFINE own == Identifier(entry.id)
<1>1. /\ readStep = "leagues" /\ leagueSent' = Append(leagueSent, entry)
      /\ leaguesRead' = IF UsableLeague(entry) THEN Assigned(leaguesRead, own, entry.name)
                        ELSE leaguesRead
      /\ UNCHANGED <<readStep, fixtureSent, fixturesRead, league, team, fixture>>
  BY DEF ReadLeague, tables
<1>2. fixtureSent' = <<>> /\ fixturesRead' = <<>>
  BY <1>1 DEF FixtureInv
<1>3. (\E at : ReadInOrder(at))'
  <2>1. Readable' = {}
    BY <1>2 DEF Readable
  <2>2. ReadInOrder(<<>>)'
    BY <1>2, <2>1 DEF ReadInOrder
  <2> QED BY <2>2
<1>4. leagueSent' \in Seq(LeagueEntries)
  BY <1>1 DEF FixtureInv
<1>5. PICK n \in Nat : /\ DOMAIN leagueSent' = DOMAIN leagueSent \cup {n} /\ n \notin DOMAIN leagueSent
                       /\ leagueSent'[n] = entry
                       /\ \A i \in DOMAIN leagueSent : i \in Nat /\ i < n /\ leagueSent'[i] = leagueSent[i]
  <2>1. Len(leagueSent) + 1 \in Nat
    BY DEF FixtureInv
  <2> QED BY <1>1, <2>1 DEF FixtureInv
<1>6. \A l : LeagueTold(l)' <=> LeagueTold(l) \/ (UsableLeague(entry) /\ own = l)
  <2> TAKE l
  <2>1. LeagueTold(l)' <=> \E i \in DOMAIN leagueSent' : UsableLeague(leagueSent'[i]) /\
                                                        Identifier(leagueSent'[i].id) = l
    BY DEF LeagueTold
  <2> QED BY <1>5, <2>1 DEF LeagueTold
<1>7. /\ \A l : l \in DOMAIN leaguesRead' <=> l \in DOMAIN leaguesRead \/ (UsableLeague(entry) /\ own = l)
      /\ \A l \in DOMAIN leaguesRead' :
           /\ leaguesRead'[l] # Unset
           /\ leaguesRead'[l] = IF UsableLeague(entry) /\ own = l THEN entry.name ELSE leaguesRead[l]
  <2>1. entry.name # Unset /\ \A l \in DOMAIN leaguesRead : leaguesRead[l] # Unset
    BY FixtureReadAssumption DEF FixtureInv
  <2>2. CASE UsableLeague(entry)
    <3>1. leaguesRead' = [k \in DOMAIN leaguesRead \cup {own} |->
                            IF k \in {own} THEN entry.name ELSE leaguesRead[k]]
      BY <1>1, <2>2 DEF Assigned, Updated
    <3> QED BY <2>1, <2>2, <3>1
  <2>3. CASE ~UsableLeague(entry)
    BY <1>1, <2>1, <2>3
  <2> QED BY <2>2, <2>3
<1>8. DOMAIN leaguesRead' \subseteq LeagueIds
  BY <1>7 DEF UsableLeague, FixtureInv
<1>9. \A l : l \in DOMAIN leaguesRead' <=> LeagueTold(l)'
  BY <1>6, <1>7 DEF FixtureInv
<1>10. \A f \in FixtureIds : fixture'[f] # Unset => IsRow(fixture'[f])
  BY <1>1 DEF FixtureInv
<1>11. ASSUME NEW l \in DOMAIN leaguesRead' PROVE TextIsTold(l)'
  <2>1. CASE UsableLeague(entry) /\ own = l
    <3>1. /\ n \in DOMAIN leagueSent' /\ UsableLeague(leagueSent'[n])
          /\ Identifier(leagueSent'[n].id) = l /\ leagueSent'[n].name = leaguesRead'[l]
      BY <1>5, <1>7, <2>1
    <3>2. \A j \in DOMAIN leagueSent' : j <= n
      BY <1>5
    <3> QED BY <3>1, <3>2 DEF TextIsTold
  <2>2. CASE ~(UsableLeague(entry) /\ own = l)
    <3>1. l \in DOMAIN leaguesRead /\ leaguesRead'[l] = leaguesRead[l]
      BY <1>7, <2>2
    <3>2. TextIsTold(l)
      BY <3>1 DEF FixtureInv
    <3>3. PICK i \in DOMAIN leagueSent :
            /\ UsableLeague(leagueSent[i]) /\ Identifier(leagueSent[i].id) = l
            /\ leagueSent[i].name = leaguesRead[l]
            /\ \A j \in DOMAIN leagueSent :
                 UsableLeague(leagueSent[j]) /\ Identifier(leagueSent[j].id) = l => j <= i
      BY <3>2 DEF TextIsTold
    <3>4. /\ i \in DOMAIN leagueSent' /\ UsableLeague(leagueSent'[i])
          /\ Identifier(leagueSent'[i].id) = l /\ leagueSent'[i].name = leaguesRead'[l]
      BY <1>5, <3>1, <3>3
    <3>5. ASSUME NEW j \in DOMAIN leagueSent', UsableLeague(leagueSent'[j]),
                 Identifier(leagueSent'[j].id) = l
          PROVE  j <= i
      <4>1. j # n
        BY <1>5, <2>2, <3>5
      <4> QED BY <1>5, <3>3, <3>5, <4>1
    <3> QED BY <3>4, <3>5 DEF TextIsTold
  <2> QED BY <2>1, <2>2
<1> QED BY <1>1, <1>2, <1>3, <1>4, <1>7, <1>8, <1>9, <1>10, <1>11 DEF FixtureInv

(* One more entry of the window is read.                                   *)
LEMMA ReadFixtureKeeps ==
  ASSUME FixtureInv, NEW entry \in WindowEntries, ReadFixture(entry)
  PROVE  FixtureInv'
<1>1. /\ readStep = "fixtures" /\ fixtureSent' = Append(fixtureSent, entry)
      /\ fixturesRead' = IF UsableFixture(entry) THEN Append(fixturesRead, FixtureOf(entry))
                         ELSE fixturesRead
      /\ UNCHANGED <<readStep, leagueSent, leaguesRead, league, team, fixture>>
  BY DEF ReadFixture, tables
<1>2. fixtureSent' \in Seq(WindowEntries)
      /\ fixturesRead' \in Seq({FixtureOf(e) : e \in WindowEntries})
  BY <1>1 DEF FixtureInv
<1>3. PICK at : ReadInOrder(at)
  BY DEF FixtureInv
<1>4. PICK n \in Nat :
        /\ DOMAIN fixtureSent' = DOMAIN fixtureSent \cup {n} /\ n \notin DOMAIN fixtureSent
        /\ fixtureSent'[n] = entry
        /\ \A i \in DOMAIN fixtureSent : i \in Nat /\ i < n /\ fixtureSent'[i] = fixtureSent[i]
  <2>1. Len(fixtureSent) + 1 \in Nat
    BY DEF FixtureInv
  <2> QED BY <1>1, <2>1 DEF FixtureInv
<1>5. \A e : UsableFixture(e)' <=> UsableFixture(e)
  BY <1>1 DEF UsableFixture
<1>6. Readable' = IF UsableFixture(entry) THEN Readable \cup {n} ELSE Readable
  <2>1. Readable' = {i \in DOMAIN fixtureSent' : UsableFixture(fixtureSent'[i])}
    BY <1>1 DEF Readable, UsableFixture
  <2> QED BY <1>4, <2>1 DEF Readable
<1>7. \A i \in Readable : i \in DOMAIN fixtureSent
  BY DEF Readable
<1>8. (\E b : ReadInOrder(b))'
  <2>1. CASE ~UsableFixture(entry)
    <3>1. fixturesRead' = fixturesRead /\ Readable' = Readable
      BY <1>1, <1>6, <2>1
    <3>2. \A i \in DOMAIN fixturesRead : fixtureSent'[at[i]] = fixtureSent[at[i]]
      BY <1>3, <1>4, <1>7 DEF ReadInOrder
    <3>3. ReadInOrder(at)'
      BY <3>1, <3>2, <1>3 DEF ReadInOrder
    <3> QED BY <3>3
  <2>2. CASE UsableFixture(entry)
    <3>1. PICK l \in Nat :
            /\ DOMAIN fixturesRead' = DOMAIN fixturesRead \cup {l} /\ l \notin DOMAIN fixturesRead
            /\ fixturesRead'[l] = FixtureOf(entry)
            /\ \A i \in DOMAIN fixturesRead : i \in Nat /\ i < l /\ fixturesRead'[i] = fixturesRead[i]
      <4>1. Len(fixturesRead) + 1 \in Nat
        BY DEF FixtureInv
      <4> QED BY <1>1, <2>2, <4>1 DEF FixtureInv
    <3>2. Readable' = Readable \cup {n}
      BY <1>6, <2>2
    <3>3. \A i \in DOMAIN fixturesRead : at[i] \in Readable /\ at[i] \in DOMAIN fixtureSent
      BY <1>3, <1>7 DEF ReadInOrder
    <3>4. PICK b : b = [i \in DOMAIN fixturesRead \cup {l} |-> IF i = l THEN n ELSE at[i]]
      OBVIOUS
    <3>5. b \in [DOMAIN fixturesRead' -> Readable']
      BY <3>1, <3>2, <3>3, <3>4
    <3>6. \A i, j \in DOMAIN fixturesRead' : i < j => b[i] < b[j]
      <4> TAKE i, j \in DOMAIN fixturesRead'
      <4> HAVE i < j
      <4>1. CASE j \in DOMAIN fixturesRead /\ i \in DOMAIN fixturesRead
        BY <4>1, <3>1, <3>4, <1>3 DEF ReadInOrder
      <4>2. CASE j = l /\ i \in DOMAIN fixturesRead
        <5>1. b[i] = at[i] /\ b[j] = n
          BY <4>2, <3>1, <3>4
        <5> QED BY <5>1, <4>2, <3>3, <1>4
      <4>3. ~(i = l /\ j \in DOMAIN fixturesRead) /\ ~(i = l /\ j = l)
        BY <3>1
      <4> QED BY <4>1, <4>2, <4>3, <3>1
    <3>7. \A m \in Readable' : \E i \in DOMAIN fixturesRead' : b[i] = m
      <4> TAKE m \in Readable'
      <4>1. CASE m = n
        BY <4>1, <3>1, <3>4
      <4>2. CASE m \in Readable
        <5>1. PICK i \in DOMAIN fixturesRead : at[i] = m
          BY <4>2, <1>3 DEF ReadInOrder
        <5>2. i # l /\ i \in DOMAIN fixturesRead'
          BY <3>1
        <5> QED BY <5>1, <5>2, <3>4
      <4> QED BY <4>1, <4>2, <3>2
    <3>8. \A i \in DOMAIN fixturesRead' : fixturesRead'[i] = FixtureOf(fixtureSent'[b[i]])
      <4> TAKE i \in DOMAIN fixturesRead'
      <4>1. CASE i = l
        BY <4>1, <3>1, <3>4, <1>4
      <4>2. CASE i \in DOMAIN fixturesRead
        <5>1. b[i] = at[i] /\ fixturesRead'[i] = fixturesRead[i]
              /\ fixtureSent'[at[i]] = fixtureSent[at[i]]
          BY <4>2, <3>1, <3>3, <3>4, <1>4
        <5> QED BY <5>1, <4>2, <1>3 DEF ReadInOrder
      <4> QED BY <4>1, <4>2, <3>1
    <3>9. ReadInOrder(b)'
      BY <3>5, <3>6, <3>7, <3>8 DEF ReadInOrder
    <3> QED BY <3>9
  <2> QED BY <2>1, <2>2
<1>9. \A l : (LeagueTold(l)' <=> LeagueTold(l)) /\ (TextIsTold(l)' <=> TextIsTold(l))
  BY <1>1 DEF LeagueTold, TextIsTold
<1>10. \A f \in FixtureIds : fixture'[f] # Unset => IsRow(fixture'[f])
  BY <1>1 DEF FixtureInv
<1> QED BY <1>1, <1>2, <1>8, <1>9, <1>10 DEF FixtureInv

(* The invariant holds at the start and after every step.                  *)
LEMMA FixtureInitInv == ReadInit => FixtureInv
<1> SUFFICES ASSUME ReadInit PROVE FixtureInv
  OBVIOUS
<1>1. \E at : ReadInOrder(at)
  BY NothingInOrder DEF ReadInit
<1>2. \A l : l \in DOMAIN leaguesRead <=> LeagueTold(l)
  BY DEF ReadInit, LeagueTold, Empty
<1>3. DOMAIN leaguesRead = {}
  BY DEF ReadInit, Empty
<1>4. \A f \in FixtureIds : fixture[f] = Unset
  BY DEF ReadInit
<1> QED BY <1>1, <1>2, <1>3, <1>4 DEF ReadInit, FixtureInv

LEMMA FixtureNextInv == FixtureInv /\ [FixtureReadNext]_readVars => FixtureInv'
<1> SUFFICES ASSUME FixtureInv, [FixtureReadNext]_readVars PROVE FixtureInv'
  OBVIOUS
<1>1. ASSUME UNCHANGED <<leagueSent, fixtureSent, leaguesRead, fixturesRead>>
      PROVE  /\ (\E at : ReadInOrder(at))'
             /\ \A l : (LeagueTold(l)' <=> LeagueTold(l)) /\ (TextIsTold(l)' <=> TextIsTold(l))
  <2>1. PICK at : ReadInOrder(at)
    BY DEF FixtureInv
  <2>2. Readable' = Readable
    BY <1>1 DEF Readable, UsableFixture
  <2>3. ReadInOrder(at)'
    BY <1>1, <2>1, <2>2 DEF ReadInOrder
  <2> QED BY <1>1, <2>3 DEF LeagueTold, TextIsTold
<1>2. ASSUME NEW entry \in LeagueEntries, ReadLeague(entry) PROVE FixtureInv'
  BY <1>2, ReadLeagueKeeps
<1>3. ASSUME NEW entry \in WindowEntries, ReadFixture(entry) PROVE FixtureInv'
  BY <1>3, ReadFixtureKeeps
<1>4. CASE LeaguesRead
  <2>1. UNCHANGED <<leagueSent, fixtureSent, leaguesRead, fixturesRead>>
        /\ UNCHANGED <<league, team, fixture>> /\ readStep' = "fixtures"
    BY <1>4 DEF LeaguesRead, tables
  <2>2. \A f \in FixtureIds : fixture'[f] # Unset => IsRow(fixture'[f])
    BY <2>1 DEF FixtureInv
  <2> QED BY <1>1, <2>1, <2>2 DEF FixtureInv
<1>5. CASE ReadFails
  <2>1. UNCHANGED <<leagueSent, fixtureSent, leaguesRead, fixturesRead>>
        /\ UNCHANGED <<league, team, fixture>> /\ readStep' = "failed"
    BY <1>5 DEF ReadFails, tables
  <2>2. \A f \in FixtureIds : fixture'[f] # Unset => IsRow(fixture'[f])
    BY <2>1 DEF FixtureInv
  <2> QED BY <1>1, <2>1, <2>2 DEF FixtureInv
<1>6. CASE StoreFixtures
  <2>1. UNCHANGED <<leagueSent, fixtureSent, leaguesRead, fixturesRead>>
    BY <1>6 DEF StoreFixtures
  <2>2. /\ readStep' \in {"stored", "refused"}
        /\ DOMAIN league' = LeagueIds /\ DOMAIN team' = TeamIds /\ DOMAIN fixture' = FixtureIds
        /\ \A f \in FixtureIds : fixture'[f] # Unset => IsRow(fixture'[f])
    <3>1. CASE RefusesTexts(leaguesRead, TeamsOf(fixturesRead))
      <4>1. readStep' = "refused" /\ UNCHANGED <<league, team, fixture>>
        BY <1>6, <3>1 DEF StoreFixtures, tables
      <4> QED BY <4>1 DEF FixtureInv
    <3>2. CASE ~RefusesTexts(leaguesRead, TeamsOf(fixturesRead))
      BY <1>6, <3>2, StoreKeepsFixtures
    <3> QED BY <3>1, <3>2
  <2> QED BY <1>1, <2>1, <2>2 DEF FixtureInv
<1>7. CASE NextRead
  <2>1. /\ readStep' = "leagues" /\ leagueSent' = <<>> /\ fixtureSent' = <<>>
        /\ leaguesRead' = Empty /\ fixturesRead' = <<>>
        /\ UNCHANGED <<league, team, fixture>>
    BY <1>7 DEF NextRead, tables
  <2>2. (\E at : ReadInOrder(at))'
    <3>1. Readable' = {}
      BY <2>1 DEF Readable
    <3>2. ReadInOrder(<<>>)'
      BY <2>1, <3>1 DEF ReadInOrder
    <3> QED BY <3>2
  <2>3. DOMAIN leaguesRead' = {} /\ \A l : ~LeagueTold(l)'
    BY <2>1 DEF LeagueTold, Empty
  <2>4. \A f \in FixtureIds : fixture'[f] # Unset => IsRow(fixture'[f])
    BY <2>1 DEF FixtureInv
  <2> QED BY <2>1, <2>2, <2>3, <2>4 DEF FixtureInv
<1>8. CASE UNCHANGED readVars
  <2>1. UNCHANGED <<leagueSent, fixtureSent, leaguesRead, fixturesRead>>
        /\ UNCHANGED <<league, team, fixture>> /\ readStep' = readStep
    BY <1>8 DEF readVars
  <2>2. \A f \in FixtureIds : fixture'[f] # Unset => IsRow(fixture'[f])
    BY <2>1 DEF FixtureInv
  <2> QED BY <1>1, <2>1, <2>2 DEF FixtureInv
<1> QED BY <1>2, <1>3, <1>4, <1>5, <1>6, <1>7, <1>8 DEF FixtureReadNext

(* Every read of the fixture window keeps its invariant.                   *)
THEOREM FixtureInvariant == FixtureReadSpec => []FixtureInv
BY FixtureInitInv, FixtureNextInv, PTL DEF FixtureReadSpec

(* The fixture table holds counts within their limit, and rows that point  *)
(* at identifiers of the other tables.                                     *)
THEOREM FixtureType == FixtureReadSpec => []FixtureReadTypeOK
<1>1. FixtureInv => FixtureReadTypeOK
  <2> SUFFICES ASSUME FixtureInv PROVE FixtureReadTypeOK
    OBVIOUS
  <2>1. \A f \in FixtureIds : fixture[f] # Unset => IsRow(fixture[f])
    BY DEF FixtureInv
  <2>2. /\ readStep \in {"leagues", "fixtures", "stored", "failed", "refused"}
        /\ leagueSent \in Seq(LeagueEntries) /\ fixtureSent \in Seq(WindowEntries)
        /\ DOMAIN leaguesRead \subseteq LeagueIds
    BY DEF FixtureInv
  <2> QED BY <2>1, <2>2 DEF FixtureReadTypeOK, IsRow
<1> QED
  BY <1>1, FixtureInvariant, PTL

(* A run leaves of every fixture what the last of its entries that can be  *)
(* read says, with both counts or none, and rows that point at rows; or it *)
(* leaves everything as it was, and then an entry that counts has a text   *)
(* no column takes.                                                        *)
THEOREM FixturesOfOneEntry == FixtureReadSpec => FixturesAreReadWhole
<1> DEFINE Whole(f) ==
      LET entry == fixtureSent[CHOOSE i \in Complete(f) : \A j \in Complete(f) : j <= i]
          scores == IF entry.scores = Malformed THEN <<>> ELSE entry.scores
          count == [side \in {"home", "away"} |-> LastCount(scores, side)]
          row == fixture'[f]
      IN IF Complete(f) = {}
         THEN row = IF fixture[f] # Unset /\ fixture[f].kickoff \in InWindow THEN Unset
                    ELSE fixture[f]
         ELSE /\ row.home = OnlySide(entry, "home") /\ team'[row.home] # Unset
              /\ row.away = OnlySide(entry, "away") /\ team'[row.away] # Unset
              /\ row.league = Identifier(entry.league) /\ league'[row.league] # Unset
              /\ row.kickoff = entry.kickoff /\ row.status = StatusOf(entry.state)
              /\ row.goals = IF Unset \in Range(count)
                             THEN [side \in {"home", "away"} |-> Unset] ELSE count
<1>1. FixtureInv /\ [FixtureReadNext]_readVars =>
        [StoreFixtures =>
           \/ readStep' = "refused" /\ StatesUnstorable /\ UNCHANGED tables
           \/ readStep' = "stored" /\ \A f \in FixtureIds : Whole(f)]_readVars
  <2>1. ASSUME FixtureInv, StoreFixtures, RefusesTexts(leaguesRead, TeamsOf(fixturesRead))
        PROVE  readStep' = "refused" /\ StatesUnstorable /\ UNCHANGED tables
    BY <2>1, RefusedTextIsStated DEF StoreFixtures
  <2>2. ASSUME FixtureInv, StoreFixtures, ~RefusesTexts(leaguesRead, TeamsOf(fixturesRead))
        PROVE  readStep' = "stored" /\ \A f \in FixtureIds : Whole(f)
    <3>1. \A f \in FixtureIds : LeavesWhole(f) => Whole(f)
      BY DEF LeavesWhole
    <3> HIDE DEF Whole
    <3> QED BY <2>2, <3>1, StoreKeepsFixtures
  <2> HIDE DEF Whole
  <2> QED BY <2>1, <2>2
<1> QED
  BY <1>1, FixtureInvariant, PTL DEF FixtureReadSpec, FixturesAreReadWhole

-----------------------------------------------------------------------------
(* The three reads side by side: a step is of one of them and leaves the   *)
(* others alone.                                                           *)
LEMMA StepsOfOne ==
  ASSUME [Next]_vars
  PROVE  [WindowNext]_windowVars /\ [ReliabilityNext]_gradeVars /\ [FixtureReadNext]_readVars
BY DEF Next, vars

(* The composition runs each read as its module describes it.              *)
THEOREM RunsTheReads == Spec => WindowSpec /\ ReliabilitySpec /\ FixtureReadSpec
<1>1. Init => WindowInit /\ ReliabilityInit /\ ReadInit
  BY DEF Init
<1> QED
  BY <1>1, StepsOfOne, PTL DEF Spec, WindowSpec, ReliabilitySpec, FixtureReadSpec

(* The three reads have their types, whatever the provider sends.          *)
THEOREM ReadsType == Spec => []TypeOK
<1>1. WindowTypeOK /\ GradeTypeOK /\ FixtureReadTypeOK => TypeOK
  BY DEF TypeOK
<1> QED
  BY <1>1, RunsTheReads, WindowType, GradeType, FixtureType, PTL

(* What the theorems above say of each read holds of the composition that  *)
(* the run checks.                                                         *)
THEOREM ReadsNeverRefused == Spec => []WindowIsNeverRefused
BY RunsTheReads, WindowNeverRefused

(* The last usable statement of each selection is what is stored.          *)
THEOREM ReadsStoreTheLast == Spec => StoresTheLastStatements
BY RunsTheReads, WindowStoresTheLast

(* A stored grade is the pair of one reading of a league.                  *)
THEOREM ReadsGradesOfOne == Spec => GradesArePairsOfOneRead
BY RunsTheReads, GradesAreOfOneRead

(* A stored fixture is one entry, read whole; a run that stores nothing    *)
(* met a text no column takes.                                             *)
THEOREM ReadsFixturesWhole == Spec => FixturesAreReadWhole
BY RunsTheReads, FixturesOfOneEntry

=============================================================================
